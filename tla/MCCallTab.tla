----------------------------- MODULE MCCallTab -----------------------------
(* Small instances of CallTab for TLC. *)
EXTENDS CallTab
=============================================================================
