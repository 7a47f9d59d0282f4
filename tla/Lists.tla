------------------------------- MODULE Lists -------------------------------
(***************************************************************************)
(* What the web application does to its arrays: sort and filter.  Both are *)
(* said by positions and ranks, without recursion over the list.           *)
(***************************************************************************)
EXTENDS Naturals, FiniteSets, Sequences

\* sort: the members of S by rising key, no two of which are the same.
Ranked(S, key) ==
    [k \in 1..Cardinality(S) |->
       CHOOSE c \in S : Cardinality({d \in S : key[d] <= key[c]}) = k]

\* filter: what is at the positions P of s, in its order.  (Q is P, a value and
\* no longer an expression.)
Filtered(s, P) ==
    LET of == [Q \in {P} |->
                 [k \in 1..Cardinality(Q) |->
                    s[CHOOSE n \in Q : Cardinality({m \in Q : m <= n}) = k]]]
    IN of[P]
=============================================================================
