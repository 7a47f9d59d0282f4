----------------------------- MODULE ListProofs -----------------------------
(***************************************************************************)
(* What sorting and filtering keep, for lists of any length.               *)
(***************************************************************************)
EXTENDS Lists, FiniteSetTheorems, SequenceTheorems, WellFoundedInduction, TLAPS

-----------------------------------------------------------------------------
(* Small sets.                                                             *)

\* Two members of a set of one are the same.
LEMMA OneMember ==
    ASSUME NEW S, IsFiniteSet(S), Cardinality(S) <= 1, NEW a \in S, NEW b \in S
    PROVE  a = b
<1>1. IsFiniteSet(S \ {a}) /\ Cardinality(S \ {a}) = Cardinality(S) - 1
  BY FS_RemoveElement
<1>2. Cardinality(S) \in Nat /\ Cardinality(S \ {a}) \in Nat
  BY <1>1, FS_CardinalityType
<1>3. Cardinality(S \ {a}) = 0
  BY <1>1, <1>2
<1>4. S \ {a} = {}
  BY <1>1, <1>3, FS_EmptySet
<1> QED
  BY <1>4

\* A nonempty set of positions has a least member.
LEMMA LeastOf ==
    ASSUME NEW S \in SUBSET Nat, S # {}
    PROVE  \E m \in S : \A n \in S : m <= n
<1> DEFINE R == OpToRel(<, Nat)
<1>1. PICK m \in S : \A n \in S : ~(<<n, m>> \in R)
  <2>1. IsWellFoundedOn(R, Nat)
    BY NatLessThanWellFounded
  <2> HIDE DEF R
  <2> QED
    BY <2>1, WFMin
<1>2. \A n \in S : ~(n < m)
  BY <1>1 DEF OpToRel
<1>3. \A n \in S : m <= n
  BY <1>2
<1> QED
  BY <1>3

-----------------------------------------------------------------------------
(* Sorting.                                                                *)

\* What sorting does, in one place.
LEMMA RankedIs ==
    ASSUME NEW S, IsFiniteSet(S), NEW key \in [S -> Nat],
           \A c, d \in S : key[c] = key[d] => c = d
    PROVE  /\ Cardinality(S) \in Nat
           /\ Ranked(S, key) \in [1..Cardinality(S) -> S]
           /\ \A j, k \in 1..Cardinality(S) : Ranked(S, key)[j] = Ranked(S, key)[k] => j = k
           /\ \A c \in S : \E k \in 1..Cardinality(S) : Ranked(S, key)[k] = c
           /\ \A j, k \in 1..Cardinality(S) :
                j < k => key[Ranked(S, key)[j]] < key[Ranked(S, key)[k]]
<1> DEFINE Upto(c) == {d \in S : key[d] <= key[c]}
           K == 1..Cardinality(S)
           rank == [c \in S |-> Cardinality(Upto(c))]
           at == Ranked(S, key)
<1>1. Cardinality(S) \in Nat
  BY FS_CardinalityType
<1>2. \A c \in S : IsFiniteSet(Upto(c)) /\ rank[c] \in K
  <2> TAKE c \in S
  <2>1. IsFiniteSet(Upto(c)) /\ Cardinality(Upto(c)) <= Cardinality(S)
    BY FS_Subset
  <2>2. Cardinality(Upto(c)) \in Nat
    BY <2>1, FS_CardinalityType
  <2>3. c \in Upto(c)
    OBVIOUS
  <2>4. Cardinality(Upto(c)) # 0
    BY <2>1, <2>3, FS_EmptySet
  <2> QED
    BY <1>1, <2>1, <2>2, <2>4
<1>3. \A c, d \in S : key[c] < key[d] => rank[c] # rank[d]
  <2> SUFFICES ASSUME NEW c \in S, NEW d \in S, key[c] < key[d],
                      Cardinality(Upto(c)) = Cardinality(Upto(d))
               PROVE FALSE
    OBVIOUS
  <2>1. Upto(c) \in SUBSET Upto(d)
    <3>1. \A e \in S : key[e] <= key[c] => key[e] <= key[d]
      OBVIOUS
    <3> QED
      BY <3>1, Zenon
  <2>2. IsFiniteSet(Upto(d))
    BY <1>2
  <2>3. Upto(d) = Upto(c)
    BY <2>1, <2>2, FS_Subset
  <2>4. d \in Upto(d) /\ d \notin Upto(c)
    OBVIOUS
  <2> QED
    BY <2>3, <2>4
<1>4. \A c, d \in S : rank[c] = rank[d] => c = d
  <2> SUFFICES ASSUME NEW c \in S, NEW d \in S, rank[c] = rank[d], c # d
               PROVE FALSE
    OBVIOUS
  <2>1. key[c] # key[d] /\ key[c] \in Nat /\ key[d] \in Nat
    OBVIOUS
  <2> HIDE DEF rank
  <2>2. key[c] < key[d] \/ key[d] < key[c]
    BY <2>1
  <2> QED
    BY <1>3, <2>2
<1>5. \A k \in K : \E c \in S : rank[c] = k
  <2>1. IsFiniteSet(K) /\ Cardinality(K) = Cardinality(S)
    <3>1. IsFiniteSet(1..Cardinality(S))
          /\ Cardinality(1..Cardinality(S))
               = IF 1 > Cardinality(S) THEN 0 ELSE Cardinality(S) - 1 + 1
      BY <1>1, FS_Interval
    <3> QED
      BY <1>1, <3>1
  <2>2. rank \in [S -> K]
    BY <1>2
  <2> HIDE DEF rank, K
  <2>3. IsInjective(rank)
    BY <1>4, <2>2 DEF IsInjective
  <2>4. rank \in Injection(S, K)
    BY <2>2, <2>3 DEF Injection
  <2>5. rank \in Surjection(S, K)
    BY <2>1, <2>4, FS_Injection
  <2> QED
    BY <2>5 DEF Surjection
<1>6. \A c, d \in S : key[c] <= key[d] => rank[c] <= rank[d]
  <2> SUFFICES ASSUME NEW c \in S, NEW d \in S, key[c] <= key[d]
               PROVE  Cardinality(Upto(c)) <= Cardinality(Upto(d))
    OBVIOUS
  <2>1. \A e \in S : key[e] <= key[c] => key[e] <= key[d]
    OBVIOUS
  <2>2. Upto(c) \in SUBSET Upto(d)
    BY <2>1, Zenon
  <2>3. IsFiniteSet(Upto(d))
    BY <1>2
  <2> HIDE DEF Upto
  <2> QED
    BY <2>2, <2>3, FS_Subset
<1>7. at = [k \in K |-> CHOOSE c \in S : rank[c] = k]
  <2>1. at = [k \in K |-> CHOOSE c \in S : Cardinality(Upto(c)) = k]
    BY DEF Ranked
  <2>2. \A k : (CHOOSE c \in S : Cardinality(Upto(c)) = k) = CHOOSE c \in S : rank[c] = k
    <3>1. \A k : \A c \in S : Cardinality(Upto(c)) = k <=> rank[c] = k
      OBVIOUS
    <3> HIDE DEF rank, Upto
    <3> QED
      BY <3>1
  <2> HIDE DEF at, rank, Upto, K
  <2> QED
    BY <2>1, <2>2
<1> HIDE DEF rank, K, at
<1>8. at \in [K -> S] /\ \A k \in K : rank[at[k]] = k
  BY <1>5, <1>7
<1>9. \A j, k \in K : at[j] = at[k] => j = k
  BY <1>8
<1>10. \A c \in S : \E k \in K : at[k] = c
  BY <1>2, <1>4, <1>8
<1>11. \A j, k \in K : j < k => key[at[j]] < key[at[k]]
  <2> SUFFICES ASSUME NEW j \in K, NEW k \in K, j < k, ~(key[at[j]] < key[at[k]])
               PROVE  FALSE
    OBVIOUS
  <2>1. at[j] \in S /\ at[k] \in S /\ rank[at[j]] = j /\ rank[at[k]] = k
    BY <1>8
  <2>2. key[at[k]] <= key[at[j]]
    BY <2>1
  <2>3. k <= j
    BY <1>6, <2>1, <2>2
  <2> QED
    BY <2>3 DEF K
<1> QED
  BY <1>1, <1>8, <1>9, <1>10, <1>11 DEF at, K

\* A sorted list has the members of the set, each once.
THEOREM RankedKeeps ==
    ASSUME NEW S, IsFiniteSet(S), NEW key \in [S -> Nat],
           \A c, d \in S : key[c] = key[d] => c = d
    PROVE  /\ Cardinality(S) \in Nat
           /\ Ranked(S, key) \in [1..Cardinality(S) -> S]
           /\ \A j, k \in 1..Cardinality(S) : Ranked(S, key)[j] = Ranked(S, key)[k] => j = k
           /\ \A c \in S : \E k \in 1..Cardinality(S) : Ranked(S, key)[k] = c
BY RankedIs

\* A sorted list is in order.
THEOREM RankedSorts ==
    ASSUME NEW S, IsFiniteSet(S), NEW key \in [S -> Nat],
           \A c, d \in S : key[c] = key[d] => c = d
    PROVE  \A j, k \in 1..Cardinality(S) :
             j < k => key[Ranked(S, key)[j]] < key[Ranked(S, key)[k]]
BY RankedIs

-----------------------------------------------------------------------------
(* Filtering.                                                              *)

\* What filtering does, in one place.
LEMMA FilterIs ==
    ASSUME NEW X, NEW s \in Seq(X), NEW P \in SUBSET DOMAIN s
    PROVE  /\ Filtered(s, P) \in Seq(X)
           /\ IsFiniteSet(P) /\ Cardinality(P) \in Nat
           /\ Len(Filtered(s, P)) = Cardinality(P)
           /\ DOMAIN Filtered(s, P) = 1..Cardinality(P)
           /\ \E from \in [DOMAIN Filtered(s, P) -> P] :
                /\ \A k \in DOMAIN Filtered(s, P) : Filtered(s, P)[k] = s[from[k]]
                /\ \A j, k \in DOMAIN Filtered(s, P) : from[j] = from[k] => j = k
                /\ \A j, k \in DOMAIN Filtered(s, P) : j < k => from[j] < from[k]
                /\ \A n \in P : \E k \in DOMAIN Filtered(s, P) : from[k] = n
<1> DEFINE key == [n \in P |-> n]
           at == Ranked(P, key)
           K == 1..Cardinality(P)
<1>1. Len(s) \in Nat /\ DOMAIN s = 1..Len(s) /\ s \in [1..Len(s) -> X]
  BY LenProperties
<1>2. P \in SUBSET Nat /\ IsFiniteSet(P)
  <2>1. IsFiniteSet(1..Len(s))
    BY <1>1, FS_Interval
  <2> QED
    BY <1>1, <2>1, FS_Subset
<1>3. key \in [P -> Nat] /\ \A m, n \in P : key[m] = key[n] => m = n
  BY <1>2
<1> HIDE DEF key
<1>4. /\ Cardinality(P) \in Nat
      /\ at \in [K -> P]
      /\ \A j, k \in K : at[j] = at[k] => j = k
      /\ \A n \in P : \E k \in K : at[k] = n
  BY <1>2, <1>3, RankedKeeps
<1>5. \A j, k \in K : j < k => at[j] < at[k]
  <2>1. \A j, k \in K : j < k => key[at[j]] < key[at[k]]
    BY <1>2, <1>3, RankedSorts
  <2> HIDE DEF at, K
  <2>2. \A k \in K : key[at[k]] = at[k]
    BY <1>4 DEF key
  <2> QED
    BY <2>1, <2>2
<1> DEFINE Upto(n) == {m \in P : m <= n}
           KeysUpto(n) == {m \in P : key[m] <= key[n]}
<1>6. Filtered(s, P) = [k \in K |-> s[at[k]]]
  <2>1. Filtered(s, P) = [k \in K |-> s[CHOOSE n \in P : Cardinality(Upto(n)) = k]]
    BY DEF Filtered
  <2>2. at = [k \in K |-> CHOOSE n \in P : Cardinality(KeysUpto(n)) = k]
    BY DEF Ranked
  <2>3. \A n \in P : Upto(n) = KeysUpto(n)
    BY DEF key
  <2> HIDE DEF Upto, KeysUpto, at
  <2>4. \A k : \A n \in P : Cardinality(Upto(n)) = k <=> Cardinality(KeysUpto(n)) = k
    BY <2>3
  <2>5. \A k : (CHOOSE n \in P : Cardinality(Upto(n)) = k)
              = CHOOSE n \in P : Cardinality(KeysUpto(n)) = k
    BY <2>4
  <2> QED
    BY <2>1, <2>2, <2>5
<1> HIDE DEF at, K
<1>7. DOMAIN at = K /\ DOMAIN Filtered(s, P) = K
  BY <1>4, <1>6
<1>8. Filtered(s, P) \in [K -> X] /\ \A k \in K : Filtered(s, P)[k] = s[at[k]]
  BY <1>1, <1>4, <1>6, <1>7
<1>9. Filtered(s, P) \in Seq(X) /\ Len(Filtered(s, P)) = Cardinality(P)
  BY <1>4, <1>8 DEF K
<1>10. at \in [DOMAIN Filtered(s, P) -> P]
  BY <1>4, <1>7
<1>11. \E from \in [DOMAIN Filtered(s, P) -> P] :
         /\ \A k \in DOMAIN Filtered(s, P) : Filtered(s, P)[k] = s[from[k]]
         /\ \A j, k \in DOMAIN Filtered(s, P) : from[j] = from[k] => j = k
         /\ \A j, k \in DOMAIN Filtered(s, P) : j < k => from[j] < from[k]
         /\ \A n \in P : \E k \in DOMAIN Filtered(s, P) : from[k] = n
  BY <1>4, <1>7, <1>8, <1>10, <1>5
<1> QED
  BY <1>2, <1>4, <1>7, <1>9, <1>11 DEF K

\* A filter keeps what is at its positions, each once.
THEOREM FilterKeeps ==
    ASSUME NEW X, NEW s \in Seq(X), NEW P \in SUBSET DOMAIN s
    PROVE  /\ Filtered(s, P) \in Seq(X)
           /\ IsFiniteSet(P) /\ Cardinality(P) \in Nat
           /\ Len(Filtered(s, P)) = Cardinality(P)
           /\ DOMAIN Filtered(s, P) = 1..Cardinality(P)
           /\ \E from \in [DOMAIN Filtered(s, P) -> P] :
                /\ \A k \in DOMAIN Filtered(s, P) : Filtered(s, P)[k] = s[from[k]]
                /\ \A j, k \in DOMAIN Filtered(s, P) : from[j] = from[k] => j = k
                /\ \A n \in P : \E k \in DOMAIN Filtered(s, P) : from[k] = n
BY FilterIs

\* A filter keeps the order of the list.
THEOREM FilterSorts ==
    ASSUME NEW X, NEW s \in Seq(X), NEW P \in SUBSET DOMAIN s
    PROVE  \E from \in [DOMAIN Filtered(s, P) -> P] :
             /\ \A k \in DOMAIN Filtered(s, P) : Filtered(s, P)[k] = s[from[k]]
             /\ \A j, k \in DOMAIN Filtered(s, P) : j < k => from[j] < from[k]
             /\ \A n \in P : \E k \in DOMAIN Filtered(s, P) : from[k] = n
BY FilterIs

\* m has what s has at P, each as often.
Picks(m, s, P) ==
    /\ \A k \in DOMAIN m : \E i \in P : m[k] = s[i]
    /\ \A i \in P : \E k \in DOMAIN m : m[k] = s[i]
    /\ (\A i, j \in P : s[i] = s[j] => i = j)
         => \A k, l \in DOMAIN m : m[k] = m[l] => k = l

\* What a filter returns has its members from the list, and each as often.
LEMMA FilterMembers ==
    ASSUME NEW X, NEW s \in Seq(X), NEW P \in SUBSET DOMAIN s, NEW m, m = Filtered(s, P)
    PROVE  /\ m \in Seq(X) /\ Len(m) = Cardinality(P) /\ Cardinality(P) \in Nat
           /\ IsFiniteSet(P) /\ Picks(m, s, P)
<1>1. /\ m \in Seq(X) /\ Len(m) = Cardinality(P) /\ Cardinality(P) \in Nat
      /\ IsFiniteSet(P)
  BY FilterKeeps
<1>2. PICK from \in [DOMAIN m -> P] :
        /\ \A k \in DOMAIN m : m[k] = s[from[k]]
        /\ \A j, k \in DOMAIN m : from[j] = from[k] => j = k
        /\ \A n \in P : \E k \in DOMAIN m : from[k] = n
  BY FilterKeeps
<1>3. \A i \in P : \E k \in DOMAIN m : m[k] = s[i]
  BY <1>2
<1>4. \A k \in DOMAIN m : \E i \in P : m[k] = s[i]
  BY <1>2
<1>5. ASSUME \A i, j \in P : s[i] = s[j] => i = j,
             NEW k \in DOMAIN m, NEW l \in DOMAIN m, m[k] = m[l]
      PROVE  k = l
  <2>1. from[k] \in P /\ from[l] \in P /\ s[from[k]] = s[from[l]]
    BY <1>2, <1>5
  <2>2. from[k] = from[l]
    BY <1>5, <2>1
  <2> QED
    BY <1>2, <2>2
<1> QED
  BY <1>1, <1>3, <1>4, <1>5 DEF Picks

-----------------------------------------------------------------------------
(* One list after another.                                                 *)

\* The members of a are in m, and after them those of b.
Joins(m, a, b) ==
    /\ Len(a) \in Nat /\ Len(b) \in Nat /\ Len(m) = Len(a) + Len(b)
    /\ DOMAIN m = 1..(Len(a) + Len(b))
    /\ DOMAIN a = 1..Len(a) /\ DOMAIN b = 1..Len(b)
    /\ \A i \in DOMAIN a : i \in DOMAIN m /\ m[i] = a[i]
    /\ \A j \in DOMAIN b : Len(a) + j \in DOMAIN m /\ m[Len(a) + j] = b[j]
    /\ \A i \in DOMAIN m : i \notin DOMAIN a =>
         i - Len(a) \in DOMAIN b /\ m[i] = b[i - Len(a)]

\* Each member once.
Once(m) == \A i, j \in DOMAIN m : m[i] = m[j] => i = j
Apart(a, b) == \A i \in DOMAIN a : \A j \in DOMAIN b : a[i] # b[j]

\* Where the members of two lists are in both.
LEMMA Joined ==
    ASSUME NEW X, NEW a \in Seq(X), NEW b \in Seq(X)
    PROVE  a \o b \in Seq(X) /\ Joins(a \o b, a, b)
<1> DEFINE m == a \o b
<1>1. /\ Len(a) \in Nat /\ Len(b) \in Nat
      /\ DOMAIN a = 1..Len(a) /\ DOMAIN b = 1..Len(b)
  BY LenProperties
<1>2. /\ m \in Seq(X) /\ Len(m) = Len(a) + Len(b)
      /\ \A i \in 1..(Len(a) + Len(b)) : m[i] = IF i <= Len(a) THEN a[i] ELSE b[i - Len(a)]
  BY ConcatProperties
<1>3. DOMAIN m = 1..(Len(a) + Len(b))
  BY <1>2, LenProperties
<1>4. \A i \in DOMAIN a : i \in DOMAIN m /\ m[i] = a[i]
  BY <1>1, <1>2, <1>3
<1>5. ASSUME NEW j \in DOMAIN b
      PROVE  Len(a) + j \in DOMAIN m /\ m[Len(a) + j] = b[j]
  <2>1. j \in Nat /\ j >= 1 /\ j <= Len(b)
    BY <1>1
  <2>2. Len(a) + j \in 1..(Len(a) + Len(b)) /\ ~(Len(a) + j <= Len(a))
        /\ (Len(a) + j) - Len(a) = j
    BY <1>1, <2>1
  <2> QED
    BY <1>2, <1>3, <2>2
<1>6. ASSUME NEW i \in DOMAIN m, i \notin DOMAIN a
      PROVE  i - Len(a) \in DOMAIN b /\ m[i] = b[i - Len(a)]
  BY <1>1, <1>2, <1>3, <1>6
<1> QED
  BY <1>1, <1>2, <1>3, <1>4, <1>5, <1>6 DEF Joins

\* Two lists with each member once, and none in common.
LEMMA JoinedOnce ==
    ASSUME NEW m, NEW a, NEW b, Joins(m, a, b), Once(a), Once(b), Apart(a, b)
    PROVE  Once(m)
<1>1. /\ Len(a) \in Nat /\ Len(b) \in Nat
      /\ DOMAIN m = 1..(Len(a) + Len(b))
      /\ DOMAIN a = 1..Len(a) /\ DOMAIN b = 1..Len(b)
      /\ \A i \in DOMAIN a : i \in DOMAIN m /\ m[i] = a[i]
      /\ \A i \in DOMAIN m : i \notin DOMAIN a =>
           i - Len(a) \in DOMAIN b /\ m[i] = b[i - Len(a)]
  BY DEF Joins
<1>2. SUFFICES ASSUME \A i, j \in DOMAIN a : a[i] = a[j] => i = j,
                      \A i, j \in DOMAIN b : b[i] = b[j] => i = j,
                      \A i \in DOMAIN a : \A j \in DOMAIN b : a[i] # b[j],
                      NEW i \in DOMAIN m, NEW j \in DOMAIN m, m[i] = m[j]
               PROVE  i = j
  BY DEF Once, Apart
<1>3. CASE i \in DOMAIN a /\ j \in DOMAIN a
  BY <1>1, <1>2, <1>3
<1>4. CASE i \notin DOMAIN a /\ j \in DOMAIN a
  BY <1>1, <1>2, <1>4
<1>5. CASE i \in DOMAIN a /\ j \notin DOMAIN a
  BY <1>1, <1>2, <1>5
<1>6. CASE i \notin DOMAIN a /\ j \notin DOMAIN a
  <2>1. i - Len(a) = j - Len(a)
    BY <1>1, <1>2, <1>6
  <2>2. i \in Nat /\ j \in Nat
    BY <1>1, <1>2
  <2> QED
    BY <1>1, <2>1, <2>2
<1> QED
  BY <1>3, <1>4, <1>5, <1>6
=============================================================================
