--------------------------- MODULE MCWebSession ---------------------------
(* Small instances of WebSession for TLC. *)
EXTENDS WebSession, TLC

\* The tabs are interchangeable.
TabSymmetry == Permutations(Tabs)
=============================================================================
