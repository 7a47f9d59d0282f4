---------------------------- MODULE MCMailOutbox ----------------------------
(* Small instances of MailOutbox for TLC. *)
EXTENDS MailOutbox

CONSTANT bad    \* the mail that does not render
=============================================================================
