----------------------------- MODULE MCWebApp -----------------------------
(* Small instances of WebApp for TLC. *)
EXTENDS WebApp
=============================================================================
