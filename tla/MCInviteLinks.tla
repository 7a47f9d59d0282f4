--------------------------- MODULE MCInviteLinks ---------------------------
(* Small instances of InviteLinks for TLC. *)
EXTENDS InviteLinks
=============================================================================
