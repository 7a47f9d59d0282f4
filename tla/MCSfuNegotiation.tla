-------------------------- MODULE MCSfuNegotiation --------------------------
(* Small instances of SfuNegotiation for TLC. *)
EXTENDS SfuNegotiation, TLC

CONSTANTS a1, a2, b, p1, p2

\* Every client is the first user's but one.
MCPidOf == [c \in Client |-> IF c = b THEN p2 ELSE p1]

SfuSymmetry == Permutations(Client \ (Sharers \cup {b}))
=============================================================================
