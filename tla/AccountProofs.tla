--------------------------- MODULE AccountProofs ---------------------------
(***************************************************************************)
(* Proofs about the mails of an account and the session it is signed in    *)
(* with: MailOutbox, for any number of workers and mails, and WebSession,  *)
(* for any number of tabs, tokens and renewals.  They share no variable.   *)
(*                                                                         *)
(* The outbox: the inductive invariant ties what a worker remembers of a   *)
(* row to the row: nobody but its claimant writes a row in 'sending', and  *)
(* a row never leaves 'sending' for 'pending' once the provider is known   *)
(* to have the mail.                                                       *)
(*                                                                         *)
(* The session: that what is stored can be renewed is not inductive: a     *)
(* renewal replaces the token in two statements and its answer takes a     *)
(* while, in which tabs come, go and sign out.  It follows from where the  *)
(* tokens of an answer on its way are: the service takes them, and nobody  *)
(* else has them (Spare), so no logout can revoke what the renewal is      *)
(* about to store.                                                         *)
(***************************************************************************)
EXTENDS MailOutbox, WebSession, SequenceTheorems, TLAPS

-----------------------------------------------------------------------------
(* The outbox.                                                             *)

\* A worker has a batch exactly when it is at work.
AtWork == \A w \in Worker : pc[w] = "idle" <=> batch[w] = <<>>

\* What a worker knows of a row of its batch is what the row says.
RowsKnown ==
    \A w \in Worker : \A i \in 1..Len(batch[w]) :
      /\ status[batch[w][i].mail] = "sending"
      /\ attempts[batch[w][i].mail] = batch[w][i].attempts

\* A mail that waits has an attempt left.
AttemptLeft ==
    \A m \in Mail : status[m] \in {"absent", "pending"} => attempts[m] < LastAttempt

\* A mail that was accepted is sent, or on its way to mark_sent, or stuck.
AcceptedOnce ==
    \A m \in Mail :
      \/ accepted[m] = 0
      \/ accepted[m] = 1 /\ status[m] = "sent"
      \/ /\ accepted[m] = 1 /\ status[m] = "sending"
         /\ \A w \in Worker : \A i \in 1..Len(batch[w]) :
              batch[w][i].mail = m => i = 1 /\ pc[w] = "accepted"

IInv == TypeOK /\ AtWork /\ RowsKnown /\ AttemptLeft /\ OneClaimant /\ AcceptedOnce

-----------------------------------------------------------------------------
\* Nothing is there initially.
LEMMA OutboxInit == Init => IInv
  BY LastAttemptAssumption
     DEF Init, IInv, TypeOK, AtWork, RowsKnown, AttemptLeft, OneClaimant, AcceptedOnce

\* The head of a batch.
LEMMA HeadRow ==
  ASSUME IInv, NEW w \in Worker, pc[w] # "idle"
  PROVE  /\ batch[w] \in Seq(Row) /\ batch[w] # <<>>
         /\ Len(batch[w]) \in Nat /\ 1 \in 1..Len(batch[w])
         /\ Head(batch[w]) = batch[w][1] /\ Head(batch[w]) \in Row
         /\ status[Head(batch[w]).mail] = "sending"
         /\ attempts[Head(batch[w]).mail] = Head(batch[w]).attempts
<1>1. batch[w] \in Seq(Row) /\ batch[w] # <<>>
  BY DEF IInv, TypeOK, AtWork
<1>2. Len(batch[w]) \in Nat /\ 1 \in 1..Len(batch[w])
  BY <1>1
<1>3. Head(batch[w]) = batch[w][1] /\ Head(batch[w]) \in Row
  BY <1>1
<1> QED BY <1>1, <1>2, <1>3 DEF IInv, RowsKnown

\* What is left of a batch after its head.
LEMMA TailRow ==
  ASSUME IInv, NEW w \in Worker, pc[w] # "idle"
  PROVE  /\ Tail(batch[w]) \in Seq(Row)
         /\ Len(Tail(batch[w])) = Len(batch[w]) - 1
         /\ \A i \in 1..Len(Tail(batch[w])) :
              /\ i + 1 \in 1..Len(batch[w])
              /\ Tail(batch[w])[i] = batch[w][i + 1]
              /\ Tail(batch[w])[i].mail # Head(batch[w]).mail
<1>1. batch[w] \in Seq(Row) /\ batch[w] # <<>>
  BY DEF IInv, TypeOK, AtWork
<1>2. /\ Tail(batch[w]) \in Seq(Row)
      /\ Len(Tail(batch[w])) = Len(batch[w]) - 1
      /\ \A i \in 1..Len(Tail(batch[w])) :
           i + 1 \in 1..Len(batch[w]) /\ Tail(batch[w])[i] = batch[w][i + 1]
  BY <1>1
<1>3. ASSUME NEW i \in 1..Len(Tail(batch[w]))
      PROVE  Tail(batch[w])[i].mail # Head(batch[w]).mail
  <2>1. 1 \in 1..Len(batch[w]) /\ Head(batch[w]) = batch[w][1] /\ i + 1 # 1
    BY <1>1
  <2> QED BY <1>2, <2>1 DEF IInv, OneClaimant
<1> QED BY <1>2, <1>3

\* Insertion, the passage of time and the loss of a batch keep the invariant.
LEMMA InvOthers ==
  ASSUME IInv,
         \/ \E m \in Mail : Enqueue(m) \/ FallDue(m)
         \/ \E w \in Worker : Lose(w)
  PROVE  IInv'
<1>1. ASSUME NEW m \in Mail, Enqueue(m) PROVE IInv'
  BY <1>1 DEF history, Enqueue, IInv, TypeOK, AtWork, RowsKnown, AttemptLeft, OneClaimant,
     AcceptedOnce
<1>2. ASSUME NEW m \in Mail, FallDue(m) PROVE IInv'
  BY <1>2 DEF history, FallDue, IInv, TypeOK, AtWork, RowsKnown, AttemptLeft, OneClaimant,
     AcceptedOnce
<1>3. ASSUME NEW w \in Worker, Lose(w) PROVE IInv'
  BY <1>3 DEF Lose, IInv, TypeOK, AtWork, RowsKnown, AttemptLeft, OneClaimant,
     AcceptedOnce
<1> QED BY <1>1, <1>2, <1>3
\* The rows of a batch are rows.
LEMMA RowIn ==
  ASSUME IInv, NEW w \in Worker, NEW i \in 1..Len(batch[w])
  PROVE  batch[w][i] \in Row /\ batch[w][i].mail \in Mail
<1>1. batch[w] \in Seq(Row)
  BY DEF IInv, TypeOK
<1>2. batch[w][i] \in Row
  BY <1>1
<1> QED BY <1>2 DEF Row

\* The listed mails of a claim: each waits, is in nobody's batch, and has not
\* been accepted.
LEMMA ClaimableRow ==
  ASSUME IInv, NEW m \in Claimable
  PROVE  /\ m \in Mail /\ status[m] = "pending"
         /\ attempts[m] \in Nat /\ attempts[m] < LastAttempt
         /\ accepted[m] = 0
         /\ \A v \in Worker : \A i \in 1..Len(batch[v]) : batch[v][i].mail # m
<1>1. m \in Mail /\ status[m] = "pending"
  BY DEF Claimable, IInv, TypeOK
<1>2. attempts[m] \in Nat /\ attempts[m] < LastAttempt
  BY <1>1, LastAttemptAssumption DEF IInv, TypeOK, AttemptLeft
<1>3. accepted[m] = 0
  BY <1>1 DEF IInv, AcceptedOnce
<1>4. \A v \in Worker : \A i \in 1..Len(batch[v]) : batch[v][i].mail # m
  BY <1>1 DEF IInv, RowsKnown
<1> QED BY <1>1, <1>2, <1>3, <1>4

\* A claim hands out waiting mails only, to one worker, each once.
LEMMA InvClaim ==
  ASSUME IInv, NEW w \in Worker, Claim(w)
  PROVE  IInv'
<1>1. PICK n \in 1..Batch : \E s \in [1..n -> Claimable] :
         /\ Listing(s)
         /\ status' = [m \in Mail |-> IF \E i \in 1..n : s[i] = m
                                        THEN "sending" ELSE status[m]]
         /\ attempts' = [m \in Mail |-> IF \E i \in 1..n : s[i] = m
                                          THEN attempts[m] + 1 ELSE attempts[m]]
         /\ batch' = [batch EXCEPT ![w] =
                        [i \in 1..n |-> [mail |-> s[i], attempts |-> attempts[s[i]] + 1]]]
  BY DEF Claim
<1>2. PICK s \in [1..n -> Claimable] :
         /\ Listing(s)
         /\ status' = [m \in Mail |-> IF \E i \in 1..n : s[i] = m
                                        THEN "sending" ELSE status[m]]
         /\ attempts' = [m \in Mail |-> IF \E i \in 1..n : s[i] = m
                                          THEN attempts[m] + 1 ELSE attempts[m]]
         /\ batch' = [batch EXCEPT ![w] =
                        [i \in 1..n |-> [mail |-> s[i], attempts |-> attempts[s[i]] + 1]]]
  BY <1>1
<1> DEFINE new == [i \in 1..n |-> [mail |-> s[i], attempts |-> attempts[s[i]] + 1]]
<1>3. /\ pc[w] = "idle" /\ pc' = [pc EXCEPT ![w] = "process"]
      /\ UNCHANGED <<due, accepted, lost>>
  BY DEF Claim, history
<1>4. n \in Nat /\ n >= 1
  BY BatchAssumption
<1>5. ASSUME NEW i \in 1..n
      PROVE  /\ s[i] \in Claimable
             /\ s[i] \in Mail /\ status[s[i]] = "pending"
             /\ attempts[s[i]] \in Nat /\ attempts[s[i]] < LastAttempt
             /\ accepted[s[i]] = 0
             /\ \A v \in Worker : \A j \in 1..Len(batch[v]) : batch[v][j].mail # s[i]
  <2>1. s[i] \in Claimable
    BY <1>2
  <2> QED BY <2>1, ClaimableRow
<1>6. new \in Seq(Row) /\ Len(new) = n /\ new # <<>>
  <2>1. \A i \in 1..n : [mail |-> s[i], attempts |-> attempts[s[i]] + 1] \in Row
    BY <1>5 DEF Row
  <2>2. new \in [1..n -> Row]
    BY <2>1
  <2>3. new \in Seq(Row) /\ Len(new) = n
    BY <2>2, <1>4
  <2> QED BY <2>3, <1>4
<1>7. /\ batch \in [Worker -> Seq(Row)] /\ batch' = [batch EXCEPT ![w] = new]
      /\ batch'[w] = new
      /\ \A v \in Worker \ {w} : batch'[v] = batch[v]
  BY <1>2 DEF IInv, TypeOK
<1>8. \A i \in 1..n : new[i].mail = s[i] /\ new[i].attempts = attempts[s[i]] + 1
  OBVIOUS
<1> HIDE DEF new
<1>9. \A m \in Mail :
        /\ status'[m] = IF \E i \in 1..n : s[i] = m THEN "sending" ELSE status[m]
        /\ attempts'[m] = IF \E i \in 1..n : s[i] = m THEN attempts[m] + 1 ELSE attempts[m]
  BY <1>2
<1>10. batch[w] = <<>>
  BY <1>3 DEF IInv, AtWork
<1>11. TypeOK'
  <2>1. \A m \in Mail : attempts'[m] \in 0..LastAttempt
    BY <1>5, <1>9, LastAttemptAssumption DEF IInv, TypeOK
  <2>2. attempts' \in [Mail -> 0..LastAttempt]
    BY <2>1, <1>2
  <2>3. status' \in [Mail -> {"absent", "pending", "sending", "sent", "failed"}]
    BY <1>2 DEF IInv, TypeOK
  <2>4. batch' \in [Worker -> Seq(Row)]
    BY <1>6, <1>7
  <2> QED BY <2>2, <2>3, <2>4, <1>3 DEF IInv, TypeOK
<1>12. AtWork'
  BY <1>3, <1>6, <1>7 DEF IInv, TypeOK, AtWork
<1>13. RowsKnown'
  <2>1. ASSUME NEW v \in Worker, NEW i \in 1..Len(batch'[v])
        PROVE  /\ status'[batch'[v][i].mail] = "sending"
               /\ attempts'[batch'[v][i].mail] = batch'[v][i].attempts
    <3>1. CASE v = w
      BY <3>1, <1>5, <1>6, <1>7, <1>8, <1>9
    <3>2. CASE v # w
      <4>1. batch'[v] = batch[v] /\ i \in 1..Len(batch[v])
        BY <3>2, <1>7
      <4>2. batch[v][i] \in Row /\ batch[v][i].mail \in Mail
        BY <4>1, RowIn
      <4>3. \A j \in 1..n : s[j] # batch[v][i].mail
        BY <4>1, <1>5
      <4> QED BY <4>1, <4>2, <4>3, <1>9 DEF IInv, RowsKnown
    <3> QED BY <3>1, <3>2
  <2> QED BY <2>1 DEF RowsKnown
<1>14. AttemptLeft'
  BY <1>9 DEF IInv, AttemptLeft
<1>15. OneClaimant'
  <2>1. \A i, j \in 1..n : new[i].mail = new[j].mail => i = j
    BY <1>2, <1>4, <1>8 DEF Listing
  <2>2. \A v \in Worker \ {w} : \A i \in 1..Len(batch[v]), j \in 1..n :
          batch[v][i].mail # new[j].mail
    BY <1>5, <1>8
  <2>3. ASSUME NEW u \in Worker, NEW v \in Worker,
               NEW i \in 1..Len(batch'[u]), NEW j \in 1..Len(batch'[v]),
               batch'[u][i].mail = batch'[v][j].mail
        PROVE  u = v /\ i = j
    <3>1. CASE u = w /\ v = w
      BY <3>1, <2>1, <2>3, <1>6, <1>7
    <3>2. CASE u = w /\ v # w
      BY <3>2, <2>2, <2>3, <1>6, <1>7
    <3>3. CASE u # w /\ v = w
      BY <3>3, <2>2, <2>3, <1>6, <1>7
    <3>4. CASE u # w /\ v # w
      BY <3>4, <2>3, <1>7 DEF IInv, OneClaimant
    <3> QED BY <3>1, <3>2, <3>3, <3>4
  <2> QED BY <2>3 DEF OneClaimant
<1>16. AcceptedOnce'
  <2>1. ASSUME NEW m \in Mail, accepted[m] # 0
        PROVE  \/ accepted'[m] = 1 /\ status'[m] = "sent"
               \/ /\ accepted'[m] = 1 /\ status'[m] = "sending"
                  /\ \A v \in Worker : \A i \in 1..Len(batch'[v]) :
                       batch'[v][i].mail = m => i = 1 /\ pc'[v] = "accepted"
    <3>1. \A i \in 1..n : s[i] # m
      BY <2>1, <1>5
    <3>2. status'[m] = status[m] /\ accepted'[m] = accepted[m]
      BY <3>1, <1>3, <1>9
    <3>3. \A i \in 1..Len(batch'[w]) : batch'[w][i].mail # m
      BY <3>1, <1>6, <1>7, <1>8
    <3>4. \A v \in Worker \ {w} : batch'[v] = batch[v] /\ pc'[v] = pc[v]
      BY <1>3, <1>7 DEF IInv, TypeOK
    <3> QED BY <2>1, <3>2, <3>3, <3>4 DEF IInv, AcceptedOnce
  <2> QED BY <2>1, <1>3 DEF AcceptedOnce
<1> QED BY <1>11, <1>12, <1>13, <1>14, <1>15, <1>16 DEF IInv

\* The provider's answer.
LEMMA InvAnswer ==
  ASSUME IInv, NEW w \in Worker, Accept(w) \/ Refuse(w)
  PROVE  IInv'
<1> DEFINE m == Head(batch[w]).mail
<1>1. /\ pc[w] = "process" /\ UNCHANGED <<status, attempts, due, batch, lost>>
      /\ pc' \in {[pc EXCEPT ![w] = "accepted"], [pc EXCEPT ![w] = "refused"]}
  BY DEF history, Accept, Refuse
<1>2. /\ 1 \in 1..Len(batch[w]) /\ Head(batch[w]) = batch[w][1]
      /\ m \in Mail /\ status[m] = "sending"
  BY <1>1, HeadRow DEF Row
<1>3. accepted[m] = 0
  BY <1>1, <1>2 DEF IInv, AcceptedOnce
<1>4. /\ AtWork' /\ RowsKnown' /\ AttemptLeft' /\ OneClaimant'
      /\ pc' \in [Worker -> {"idle", "process", "accepted", "refused"}]
  <2>1. /\ pc' \in [Worker -> {"idle", "process", "accepted", "refused"}]
        /\ \A v \in Worker : pc'[v] = "idle" <=> pc[v] = "idle"
    BY <1>1 DEF IInv, TypeOK
  <2>2. AtWork'
    BY <1>1, <2>1 DEF IInv, AtWork
  <2>3. RowsKnown' /\ AttemptLeft' /\ OneClaimant'
    BY <1>1 DEF IInv, RowsKnown, AttemptLeft, OneClaimant
  <2> QED BY <2>1, <2>2, <2>3
<1>5. \A v \in Worker \ {w} : pc'[v] = pc[v]
  BY <1>1 DEF IInv, TypeOK
<1>6. \A v \in Worker : \A i \in 1..Len(batch[v]) :
        batch[v][i].mail = m => v = w /\ i = 1
  BY <1>2 DEF IInv, OneClaimant
<1>7. CASE Accept(w)
  <2>1. /\ accepted' = [accepted EXCEPT ![m] = @ + 1]
        /\ pc'[w] = "accepted"
    BY <1>7 DEF Accept, IInv, TypeOK
  <2>2. TypeOK' /\ accepted'[m] = 1
    BY <2>1, <1>1, <1>2, <1>3, <1>4 DEF IInv, TypeOK
  <2>3. AcceptedOnce'
    <3>1. ASSUME NEW k \in Mail, k # m, accepted[k] # 0
          PROVE  \A v \in Worker : \A i \in 1..Len(batch[v]) :
                   batch[v][i].mail = k =>
                     \/ status[k] = "sent"
                     \/ i = 1 /\ pc'[v] = "accepted"
      BY <3>1, <1>5, <2>1 DEF IInv, AcceptedOnce
    <3>2. \A k \in Mail \ {m} : accepted'[k] = accepted[k]
      BY <2>1 DEF IInv, TypeOK
    <3> QED BY <1>1, <1>2, <1>6, <2>1, <2>2, <3>1, <3>2 DEF IInv, AcceptedOnce
  <2> QED BY <2>2, <2>3, <1>4 DEF IInv
<1>8. CASE Refuse(w)
  <2>1. accepted' = accepted
    BY <1>8 DEF history, Refuse
  <2>2. TypeOK'
    BY <2>1, <1>1, <1>4 DEF IInv, TypeOK
  <2>3. AcceptedOnce'
    BY <2>1, <1>1, <1>5 DEF IInv, AcceptedOnce
  <2> QED BY <2>2, <2>3, <1>4 DEF IInv
<1> QED BY <1>7, <1>8

\* What is common to the three ways to settle the head of a batch.
LEMMA InvNextRow ==
  ASSUME IInv, NEW w \in Worker, pc[w] # "idle", NextRow(w),
         UNCHANGED <<attempts, history>>,
         due' \in SUBSET Mail,
         NEW st \in {"sent", "failed", "pending"},
         status' = [status EXCEPT ![Head(batch[w]).mail] = st],
         st = "pending" => Head(batch[w]).attempts < LastAttempt,
         accepted[Head(batch[w]).mail] = 0
           \/ (st = "sent" /\ accepted[Head(batch[w]).mail] = 1)
  PROVE  IInv'
<1> DEFINE m == Head(batch[w]).mail
           rest == Tail(batch[w])
<1>1. m \in Mail /\ attempts[m] = Head(batch[w]).attempts /\ Head(batch[w]) = batch[w][1]
      /\ 1 \in 1..Len(batch[w])
  BY HeadRow DEF Row
<1>2. /\ rest \in Seq(Row)
      /\ \A i \in 1..Len(rest) :
           i + 1 \in 1..Len(batch[w]) /\ rest[i] = batch[w][i + 1] /\ rest[i].mail # m
  BY TailRow
<1>3. /\ batch'[w] = rest /\ \A v \in Worker \ {w} : batch'[v] = batch[v]
      /\ pc'[w] = (IF rest = <<>> THEN "idle" ELSE "process")
      /\ \A v \in Worker \ {w} : pc'[v] = pc[v]
  BY DEF NextRow, IInv, TypeOK
<1>4. \A v \in Worker \ {w} : \A i \in 1..Len(batch[v]) : batch[v][i].mail # m
  BY <1>1 DEF IInv, OneClaimant
<1>5. /\ status'[m] = st
      /\ \A k \in Mail \ {m} : status'[k] = status[k]
  BY <1>1 DEF IInv, TypeOK
<1>6. TypeOK'
  BY <1>1, <1>2 DEF history, NextRow, IInv, TypeOK
<1>7. AtWork'
  BY <1>3 DEF IInv, AtWork
<1>8. RowsKnown'
  <2>1. ASSUME NEW v \in Worker, NEW i \in 1..Len(batch'[v])
        PROVE  /\ status'[batch'[v][i].mail] = "sending"
               /\ attempts'[batch'[v][i].mail] = batch'[v][i].attempts
    <3>1. PICK j \in 1..Len(batch[v]) :
            batch'[v][i] = batch[v][j] /\ batch'[v][i].mail # m
      <4>1. CASE v = w
        BY <4>1, <1>2, <1>3
      <4>2. CASE v # w
        BY <4>2, <1>3, <1>4
      <4> QED BY <4>1, <4>2
    <3>2. batch[v][j].mail \in Mail
      BY RowIn
    <3> QED BY <3>1, <3>2, <1>5 DEF IInv, RowsKnown
  <2> QED BY <2>1 DEF RowsKnown
<1>9. AttemptLeft'
  BY <1>1, <1>5 DEF IInv, AttemptLeft
<1>10. OneClaimant'
  <2>1. \A v \in Worker : \A i \in 1..Len(batch'[v]) :
          LET k == IF v = w THEN i + 1 ELSE i
          IN  k \in 1..Len(batch[v]) /\ batch'[v][i] = batch[v][k]
    BY <1>2, <1>3
  <2>2. ASSUME NEW u \in Worker, NEW v \in Worker,
               NEW i \in 1..Len(batch'[u]), NEW j \in 1..Len(batch'[v]),
               batch'[u][i].mail = batch'[v][j].mail
        PROVE  u = v /\ i = j
    <3> DEFINE k == IF u = w THEN i + 1 ELSE i
               l == IF v = w THEN j + 1 ELSE j
    <3>1. /\ k \in 1..Len(batch[u]) /\ batch'[u][i] = batch[u][k]
          /\ l \in 1..Len(batch[v]) /\ batch'[v][j] = batch[v][l]
      BY <2>1
    <3>2. batch[u][k].mail = batch[v][l].mail
      BY <2>2, <3>1
    <3>3. u = v /\ k = l
      <4> HIDE DEF k, l
      <4> QED BY <3>1, <3>2 DEF IInv, OneClaimant
    <3>4. i \in Int /\ j \in Int
      OBVIOUS
    <3> QED BY <3>3, <3>4
  <2> QED BY <2>2 DEF OneClaimant
<1>11. AcceptedOnce'
  <2>1. CASE accepted[m] = 0
    <3>1. ASSUME NEW k \in Mail, k # m, accepted[k] = 1, status[k] = "sending",
                 NEW v \in Worker, NEW i \in 1..Len(batch'[v]), batch'[v][i].mail = k
          PROVE  i = 1 /\ pc'[v] = "accepted"
      <4>1. CASE v = w
        <5>1. i + 1 \in 1..Len(batch[w]) /\ batch[w][i + 1].mail = k
          BY <4>1, <3>1, <1>2, <1>3
        <5>2. i + 1 = 1
          BY <5>1, <3>1 DEF IInv, AcceptedOnce
        <5>3. i >= 1 /\ i \in Int
          OBVIOUS
        <5> QED BY <5>2, <5>3
      <4>2. CASE v # w
        BY <4>2, <3>1, <1>3 DEF IInv, AcceptedOnce
      <4> QED BY <4>1, <4>2
    <3> QED BY <2>1, <3>1, <1>5 DEF history, IInv, AcceptedOnce
  <2>2. CASE st = "sent" /\ accepted[m] = 1
    <3>1. ASSUME NEW k \in Mail, k # m, accepted[k] = 1, status[k] = "sending",
                 NEW v \in Worker, NEW i \in 1..Len(batch'[v]), batch'[v][i].mail = k
          PROVE  i = 1 /\ pc'[v] = "accepted"
      <4>1. CASE v = w
        <5>1. i + 1 \in 1..Len(batch[w]) /\ batch[w][i + 1].mail = k
          BY <4>1, <3>1, <1>2, <1>3
        <5>2. i + 1 = 1
          BY <5>1, <3>1 DEF IInv, AcceptedOnce
        <5>3. i >= 1 /\ i \in Int
          OBVIOUS
        <5> QED BY <5>2, <5>3
      <4>2. CASE v # w
        BY <4>2, <3>1, <1>3 DEF IInv, AcceptedOnce
      <4> QED BY <4>1, <4>2
    <3> QED BY <2>2, <3>1, <1>5 DEF history, IInv, AcceptedOnce
  <2> QED BY <2>1, <2>2
<1> QED BY <1>6, <1>7, <1>8, <1>9, <1>10, <1>11 DEF IInv

\* mark_sent and mark_failed.
LEMMA InvMark ==
  ASSUME IInv, NEW w \in Worker, MarkSent(w) \/ MarkUnrenderable(w) \/ MarkFailed(w)
  PROVE  IInv'
<1> DEFINE row == Head(batch[w])
<1>1. pc[w] # "idle" /\ NextRow(w) /\ UNCHANGED <<attempts, history>>
  BY DEF MarkSent, MarkUnrenderable, MarkFailed
<1>2. 1 \in 1..Len(batch[w]) /\ row = batch[w][1] /\ row.mail \in Mail
      /\ status[row.mail] = "sending" /\ due \in SUBSET Mail
  BY <1>1, HeadRow DEF Row, IInv, TypeOK
<1>3. accepted[row.mail] = 0 \/ (pc[w] = "accepted" /\ accepted[row.mail] = 1)
  BY <1>2 DEF IInv, AcceptedOnce
<1>4. CASE MarkSent(w)
  BY <1>1, <1>2, <1>3, <1>4, InvNextRow DEF MarkSent
<1>5. CASE MarkUnrenderable(w)
  BY <1>1, <1>2, <1>3, <1>5, InvNextRow DEF MarkUnrenderable
<1>6. CASE MarkFailed(w)
  <2>1. accepted[row.mail] = 0
    BY <1>3, <1>6 DEF MarkFailed
  <2>2. CASE row.attempts < LastAttempt
    BY <2>1, <2>2, <1>1, <1>2, <1>6, InvNextRow DEF MarkFailed
  <2>3. CASE ~ (row.attempts < LastAttempt)
    BY <2>1, <2>3, <1>1, <1>2, <1>6, InvNextRow DEF MarkFailed
  <2> QED BY <2>2, <2>3
<1> QED BY <1>4, <1>5, <1>6

\* Every step keeps the invariant.
LEMMA InvNext == IInv /\ [Next]_vars => IInv'
<1> SUFFICES ASSUME IInv, [Next]_vars PROVE IInv'
  OBVIOUS
<1>1. CASE \E m \in Mail : Enqueue(m) \/ FallDue(m)
  BY <1>1, InvOthers
<1>2. ASSUME NEW w \in Worker, Work(w) PROVE IInv'
  BY <1>2, InvClaim, InvAnswer, InvMark DEF Work
<1>3. ASSUME NEW w \in Worker, Lose(w) PROVE IInv'
  BY <1>3, InvOthers
<1>4. CASE UNCHANGED vars
  BY <1>4 DEF history, vars, IInv, TypeOK, AtWork, RowsKnown, AttemptLeft, OneClaimant, AcceptedOnce
<1> QED BY <1>1, <1>2, <1>3, <1>4 DEF Next

\* The inductive invariant of the outbox holds throughout.
THEOREM OutboxInvariant == Spec => []IInv
  BY OutboxInit, InvNext, PTL DEF Spec

\* The types of the table and the workers; no mail is attempted more often than
\* mark_failed's schedule says (outbox.rs:85-118).
THEOREM TypeCorrect == Spec => []TypeOK
<1>1. IInv => TypeOK
  BY DEF IInv
<1> QED BY <1>1, OutboxInvariant, PTL

\* No mail is in the hands of two workers (claim_batch, outbox.rs:39-72).
THEOREM ClaimantCorrect == Spec => []OneClaimant
<1>1. IInv => OneClaimant
  BY DEF IInv
<1> QED BY <1>1, OutboxInvariant, PTL

\* No mail is accepted twice by the provider with the workers knowing it, for
\* any number of workers and mails, any batch size and any loss of a batch
\* (worker.rs:27-67).
THEOREM DuplicateCorrect == Spec => []NoKnownDuplicate
<1>1. IInv => NoKnownDuplicate
  <2>1. ASSUME IInv, NEW m \in Mail PROVE accepted[m] <= 1
    BY <2>1 DEF IInv, AcceptedOnce
  <2> QED BY <2>1 DEF NoKnownDuplicate
<1> QED BY <1>1, OutboxInvariant, PTL

-----------------------------------------------------------------------------
(* The invariant.                                                          *)

\* Refresh tokens are of those the service has issued.
Issued ==
    /\ stored.refreshToken <= issued
    /\ \A t \in Tabs : live[t].refreshToken <= issued /\ timer[t].refreshToken <= issued
    /\ \A c \in renewals : c.of.refreshToken <= issued
    /\ \A c \in renewals : c.answer = "renewed" => c.token \in 1..issued

\* A guest's form has the token of its link.
LinkResolved ==
    \A t \in Tabs : page[t].at = "join" /\ page[t].phase = "form" => page[t].token # 0

\* The tokens of an answer on its way: nobody has them yet, and they are good.
Spare ==
    \A c \in renewals : c.answer = "renewed" =>
      /\ c.token \in valid /\ c.token \notin revoking
      /\ c.token # stored.refreshToken
      /\ \A t \in Tabs : c.token # live[t].refreshToken /\ c.token # timer[t].refreshToken
      /\ \A d \in renewals :
           /\ c.token # d.of.refreshToken
           /\ d.answer = "renewed" /\ d.token = c.token => d = c

\* What is stored is not being revoked, and good unless a renewal has used it.
StoredKept ==
    /\ stored.refreshToken \notin revoking
    /\ \/ stored.refreshToken \in valid \cup {0}
       \/ \E c \in renewals : c.answer = "renewed" /\ c.of.refreshToken = stored.refreshToken

\* A tab that starts has nothing yet, a timer has a session ...
Begun ==
    \A t \in Tabs :
      /\ booting[t] = "mount" => live[t] = NoSession /\ Renewing(t) = {}
      /\ timer[t] # NoSession => live[t] # NoSession

\* ... and so has whoever waits for tokens, unless it restores its session, or
\* has signed out.
Waiting ==
    \A c \in renewals : c.tab # NoTab /\ live[c.tab] = NoSession =>
      c.late \/ (c.by = "restore" /\ booting[c.tab] = "restoring")

\* A tab restores once.
OneRestore ==
    \A c, d \in renewals :
      c.tab = d.tab /\ c.tab # NoTab /\ c.by = "restore" /\ d.by = "restore" => c = d

-----------------------------------------------------------------------------
(* The pages.                                                              *)

Phases == {"loading", "form", "second", "asking", "submitting", "dead"}

PagesFine == page \in [Tabs -> Pages] /\ LinkResolved

\* What a page becomes is a page.
LEMMA PageTypes ==
    /\ \A r \in Routes : Starting(r) \in Pages /\ Starting(r).at = r
                          /\ (Starting(r).phase # "form" \/ r \in {"setup", "hub"})
    /\ \A p \in Pages, ph \in Phases, known \in BOOLEAN :
         [p EXCEPT !.phase = ph, !.hub = known] \in Pages
    /\ \A p \in Pages, ph \in Phases :
         LET q == [p EXCEPT !.phase = ph]
         IN  q \in Pages /\ q.at = p.at /\ q.phase = ph /\ q.token = p.token
    /\ \A p \in Pages, n \in 0..MaxWork :
         LET q == [p EXCEPT !.phase = "form", !.token = n] IN q \in Pages /\ q.token = n
<1> MaxWork \in Nat
  BY SessionAssumption
<1>1. \A r \in Routes : Starting(r) \in Pages /\ Starting(r).at = r
                        /\ (Starting(r).phase # "form" \/ r \in {"setup", "hub"})
  BY DEF Starting, Pages
<1>2. \A p \in Pages, ph \in Phases, known \in BOOLEAN :
         [p EXCEPT !.phase = ph, !.hub = known] \in Pages
  BY DEF Pages, Phases
<1>3. \A p \in Pages, ph \in Phases :
         LET q == [p EXCEPT !.phase = ph]
         IN  q \in Pages /\ q.at = p.at /\ q.phase = ph /\ q.token = p.token
  BY DEF Pages, Phases
<1>4. \A p \in Pages, n \in 0..MaxWork :
         LET q == [p EXCEPT !.phase = "form", !.token = n] IN q \in Pages /\ q.token = n
  <2> SUFFICES ASSUME NEW p \in Pages, NEW n \in 0..MaxWork
               PROVE  LET q == [p EXCEPT !.phase = "form", !.token = n]
                      IN  q \in Pages /\ q.token = n
    OBVIOUS
  <2>1. \A ph \in Phases : [p EXCEPT !.phase = ph, !.token = n] \in Pages
    BY DEF Pages, Phases
  <2>2. "form" \in Phases
    BY DEF Phases
  <2>3. DOMAIN p = {"at", "phase", "hub", "token"}
    BY DEF Pages
  <2> QED
    BY <2>1, <2>2, <2>3
<1> QED
  BY <1>1, <1>2, <1>3, <1>4

\* A page that turns stays fine, unless it is a guest's that turns to its form.
LEMMA TurnsFine ==
  ASSUME PagesFine, NEW t \in Tabs, NEW ph \in Phases, Turns(t, ph),
         page[t].at # "join" \/ ph # "form"
  PROVE  PagesFine'
<1> DEFINE q == [page[t] EXCEPT !.phase = ph]
<1>1. q \in Pages /\ q.at = page[t].at /\ q.phase = ph
  BY PageTypes DEF PagesFine
<1>2. page' = [page EXCEPT ![t] = q]
  BY DEF Turns
<1> HIDE DEF q
<1> QED
  BY <1>1, <1>2 DEF PagesFine, LinkResolved

\* So does a page at its start.
LEMMA StartsFine ==
  ASSUME PagesFine, NEW t \in Tabs, NEW r \in Routes, page' = [page EXCEPT ![t] = Starting(r)]
  PROVE  PagesFine' /\ page'[t] = Starting(r)
BY PageTypes DEF PagesFine, LinkResolved

\* What a page does: it turns, or signs the user in.
Turned ==
    /\ issued' \in issued..MaxWork /\ fresh' \in BOOLEAN
    /\ UNCHANGED <<valid, expired, stored, live, booting, timer, over, renewals, revoking, loads>>

SignsWith(t, s) ==
    /\ SigningIn(t) /\ booting[t] # "mount" /\ s \in AuthSession
    /\ live' = [live EXCEPT ![t] = s] /\ stored' = s /\ timer' = Scheduled(t, s)
    /\ \/ issued' = issued /\ valid' = valid /\ s.refreshToken = 0
       \/ /\ issued' = issued + 1 /\ issued' <= MaxWork
          /\ \/ s.refreshToken = issued' /\ valid' = valid \cup {issued'}
             \/ s.refreshToken = 0 /\ valid' = valid
    /\ fresh' \in BOOLEAN
    /\ UNCHANGED <<expired, booting, over, renewals, revoking, loads>>

\* An accepted sign-in.
LEMMA SignedInEffect ==
  ASSUME SessionTypeOK, PagesFine, NEW t \in Tabs, NEW remember \in BOOLEAN,
         SignedIn(t, remember), RestSame, fresh' \in BOOLEAN, booting[t] # "mount",
         page[t].at \notin {"home", "hub"}
  PROVE  PagesFine' /\ \E s : SignsWith(t, s)
<1> DEFINE s == [kind |-> Signed, token |-> issued',
                 refreshToken |-> IF remember THEN issued' ELSE 0]
<1>1. issued' = issued + 1 /\ issued' \in 1..MaxWork
  BY SessionAssumption DEF SignedIn, SessionTypeOK
<1>2. s \in AuthSession /\ s.refreshToken = IF remember THEN issued' ELSE 0
  BY <1>1, SessionAssumption DEF AuthSession, Signed, Guest
<1>3. SignsIn(t, s) /\ valid' = (IF remember THEN valid \cup {issued'} ELSE valid)
      /\ UNCHANGED expired
  BY DEF SignedIn
<1> HIDE DEF s
<1>4. PagesFine' /\ page'[t] = Starting("hub")
  BY <1>3, StartsFine DEF SignsIn, Routes
<1>5. SignsWith(t, s)
  BY <1>1, <1>2, <1>3, <1>4 DEF SignsWith, SigningIn, SignsIn, RestSame
<1> QED
  BY <1>4, <1>5

PageActs(t) ==
    \/ AuthGuard(t) \/ HomeStatus(t) \/ HomeLeaves(t)
    \/ LoginStatus(t) \/ LoginSubmit(t) \/ LoginAnswered(t)
    \/ SignupPreview(t) \/ SignupSubmit(t) \/ SignupAnswered(t)
    \/ RegisterPreview(t) \/ RegisterSubmit(t)
    \/ SetupNext(t) \/ SetupBack(t) \/ SetupFinish(t)
    \/ JoinResolved(t) \/ JoinEnter(t)

\* Whatever a page does, it turns or signs the user in.
LEMMA PageEffect ==
  ASSUME SessionTypeOK, LinkResolved, NEW t \in Tabs, PageActs(t)
  PROVE  PagesFine' /\ (Turned \/ \E s : SignsWith(t, s))
<1>p. PagesFine /\ page[t] \in Pages
  BY DEF PagesFine, SessionTypeOK
<1>i. issued \in issued..MaxWork /\ fresh \in BOOLEAN
  BY SessionAssumption DEF SessionTypeOK
<1>s. AuthSame /\ RestSame /\ fresh' \in BOOLEAN => Turned
  BY <1>i DEF AuthSame, RestSame, Turned
<1>t. \A ph \in Phases : Turns(t, ph) /\ (page[t].at # "join" \/ ph # "form") => PagesFine'
  BY <1>p, TurnsFine
<1>g. \A r \in Routes : page' = [page EXCEPT ![t] = Starting(r)] => PagesFine'
  BY <1>p, StartsFine
<1>1. CASE AuthGuard(t) \/ HomeLeaves(t)
  <2>1. Turned
    BY <1>1, <1>i DEF AuthGuard, HomeLeaves, AuthSame, RestSame, Turned
  <2>2. \E r \in Routes : page' = [page EXCEPT ![t] = Starting(r)]
    BY <1>1 DEF AuthGuard, HomeLeaves, Routes
  <2> QED
    BY <1>g, <2>1, <2>2
<1>2. CASE HomeStatus(t) \/ SignupPreview(t) \/ SignupSubmit(t) \/ RegisterPreview(t)
           \/ SetupNext(t) \/ SetupBack(t)
  <2>1. AuthSame /\ RestSame /\ fresh' = fresh
    BY <1>2 DEF HomeStatus, SignupPreview, SignupSubmit, RegisterPreview, SetupNext, SetupBack
  <2>2. page[t].at # "join" /\ \E ph \in Phases : Turns(t, ph)
    BY <1>2 DEF HomeStatus, SignupPreview, SignupSubmit, RegisterPreview, SetupNext, SetupBack,
                Is, SignupForm, AdminForm, HubForm, Phases
  <2> QED
    BY <1>i, <1>s, <1>t, <2>1, <2>2
<1>3. CASE LoginStatus(t) \/ LoginSubmit(t)
  <2>1. AuthSame /\ RestSame /\ fresh' = fresh /\ page[t].at = "login"
    BY <1>3 DEF LoginStatus, LoginSubmit, Is, LoginForm
  <2>2. CASE \E ph \in Phases : Turns(t, ph)
    BY <1>i, <1>s, <1>t, <2>1, <2>2
  <2>3. CASE \E ph \in Phases, known \in BOOLEAN :
               page' = [page EXCEPT ![t].phase = ph, ![t].hub = known]
    <3>1. PICK ph \in Phases, known \in BOOLEAN :
               page' = [page EXCEPT ![t].phase = ph, ![t].hub = known]
      BY <2>3
    <3> DEFINE q == [page[t] EXCEPT !.phase = ph, !.hub = known]
    <3>2. q \in Pages /\ q.at = page[t].at
      <4>1. page[t] \in Pages
        BY <1>p
      <4>2. q.at = page[t].at
        BY <4>1 DEF Pages
      <4>3. q \in Pages
        BY <4>1, PageTypes
      <4> QED
        BY <4>2, <4>3
    <3>3. page' = [page EXCEPT ![t] = q]
      BY <1>p, <3>1 DEF PagesFine
    <3> HIDE DEF q
    <3>4. PagesFine'
      BY <1>p, <2>1, <3>2, <3>3 DEF PagesFine, LinkResolved
    <3> QED
      BY <1>i, <1>s, <2>1, <3>4
  <2> QED
    BY <1>3, <1>i, <2>2, <2>3 DEF LoginStatus, LoginSubmit, Phases
<1>4. CASE LoginAnswered(t) \/ SignupAnswered(t) \/ RegisterSubmit(t) \/ SetupFinish(t)
  <2>1. RestSame /\ fresh' \in BOOLEAN /\ page[t].at \in {"login", "signup", "register", "setup"}
        /\ booting[t] # "mount"
    BY <1>4, <1>i DEF LoginAnswered, SignupAnswered, RegisterSubmit, SetupFinish, Is, HubForm,
                      RegisterForm
  <2>2. \/ \E remember \in BOOLEAN : SignedIn(t, remember)
        \/ AuthSame /\ \E ph \in Phases : Turns(t, ph)
    BY <1>4 DEF LoginAnswered, SignupAnswered, RegisterSubmit, SetupFinish, Phases
  <2>3. CASE \E remember \in BOOLEAN : SignedIn(t, remember)
    BY <1>p, <2>1, <2>3, SignedInEffect
  <2>4. CASE AuthSame /\ \E ph \in Phases : Turns(t, ph)
    BY <1>s, <1>t, <2>1, <2>4
  <2> QED
    BY <2>2, <2>3, <2>4
<1>5. CASE JoinResolved(t)
  <2>1. CASE issued + loads < MaxWork /\ issued' = issued + 1
             /\ page' = [page EXCEPT ![t].phase = "form", ![t].token = issued']
    <3>1. issued' \in 1..MaxWork /\ issued' \in issued..MaxWork
      BY <2>1, SessionAssumption DEF SessionTypeOK
    <3> DEFINE q == [page[t] EXCEPT !.phase = "form", !.token = issued']
    <3>2. q \in Pages /\ q.token # 0
      <4>1. issued' \in 0..MaxWork /\ issued' # 0
        BY <3>1, SessionAssumption
      <4> QED
        BY <1>p, <4>1, PageTypes
    <3>3. page' = [page EXCEPT ![t] = q]
      BY <1>p, <2>1 DEF PagesFine
    <3> HIDE DEF q
    <3>4. PagesFine'
      BY <1>p, <3>2, <3>3 DEF PagesFine, LinkResolved
    <3> QED
      BY <1>5, <1>i, <3>1, <3>4 DEF JoinResolved, Turned, RestSame
  <2>2. CASE Turns(t, "dead") /\ UNCHANGED issued
    <3>1. PagesFine'
      BY <1>t, <2>2 DEF Phases
    <3> QED
      BY <1>5, <1>i, <2>2, <3>1 DEF JoinResolved, Turned, RestSame
  <2> QED
    BY <1>5, <2>1, <2>2 DEF JoinResolved
<1>6. CASE JoinEnter(t)
  <2> DEFINE s == [kind |-> Guest, token |-> page[t].token, refreshToken |-> 0]
  <2>1. page[t].at = "join" /\ page[t].phase = "form" /\ booting[t] # "mount"
    BY <1>6 DEF JoinEnter, JoinForm, Is
  <2>2. page[t].token \in 1..MaxWork
    BY <1>p, <2>1, SessionAssumption DEF PagesFine, LinkResolved, Pages
  <2>3. s \in AuthSession /\ s.refreshToken = 0
    BY <2>2, SessionAssumption DEF AuthSession, Guest, Signed
  <2>4. SignsIn(t, s) /\ UNCHANGED <<issued, valid, expired, fresh>> /\ RestSame
    BY <1>6 DEF JoinEnter
  <2> HIDE DEF s
  <2>5. PagesFine' /\ page'[t] = Starting("hub")
    BY <1>p, <2>4, StartsFine DEF SignsIn, Routes
  <2>6. SignsWith(t, s)
    BY <1>i, <2>1, <2>3, <2>4, <2>5 DEF SignsWith, SigningIn, SignsIn, RestSame
  <2> QED
    BY <2>5, <2>6
<1> QED
  BY <1>1, <1>2, <1>3, <1>4, <1>5, <1>6 DEF PageActs

-----------------------------------------------------------------------------
(* Sessions and renewals.                                                  *)

TokensOK ==
    /\ issued \in 0..MaxWork /\ loads \in 0..MaxWork /\ fresh \in BOOLEAN
    /\ valid \subseteq 1..issued /\ expired \subseteq 1..issued /\ revoking \subseteq 1..issued
TabsOK ==
    /\ stored \in AuthSession \cup {NoSession}
    /\ live \in [Tabs -> AuthSession \cup {NoSession}]
    /\ booting \in [Tabs -> {"mount", "restoring", "done"}]
    /\ timer \in [Tabs -> AuthSession \cup {NoSession}]
    /\ over \in [Tabs -> BOOLEAN]
RenewalsOK == renewals \subseteq Renewals

TypeInv == TokensOK /\ TabsOK /\ RenewalsOK /\ PagesFine /\ Issued

\* The types, part by part.
LEMMA TypeParts == SessionTypeOK /\ LinkResolved /\ Issued <=> TypeInv
BY Zenon DEF SessionTypeOK, PagesFine, TokensOK, TabsOK, RenewalsOK, TypeInv

\* Sessions and their tokens.
LEMMA SessionFacts ==
    /\ MaxWork \in Nat
    /\ NoSession.refreshToken = 0
    /\ \A s \in AuthSession : s # NoSession
    /\ \A s \in AuthSession \cup {NoSession} : s.refreshToken \in 0..MaxWork
    /\ \A s : s.refreshToken # 0 => s # NoSession
BY SessionAssumption DEF AuthSession, NoSession, Signed, Guest

\* scheduleRefresh sets the timer of one tab.
LEMMA ScheduledFacts ==
  ASSUME TabsOK, NEW t \in Tabs, NEW s \in AuthSession \cup {NoSession}
  PROVE  /\ Scheduled(t, s) \in [Tabs -> AuthSession \cup {NoSession}]
         /\ Scheduled(t, s)[t].refreshToken = s.refreshToken
         /\ Scheduled(t, s)[t] # NoSession => s # NoSession
         /\ \A u \in Tabs \ {t} : Scheduled(t, s)[u] = timer[u]
BY SessionFacts DEF Scheduled, TabsOK

\* A renewal whose page is gone, whose tab signed out, that got an answer.
Gone(c) == [c EXCEPT !.tab = NoTab]
Late(c) == [c EXCEPT !.late = TRUE]
Says(c, answer) == [c EXCEPT !.answer = answer]
Brings(c, n) == [c EXCEPT !.answer = "renewed", !.token = n]

\* What becomes of a renewal.
LEMMA RenewalTypes ==
  ASSUME NEW c \in Renewals
  PROVE  /\ c.tab \in Tabs \cup {NoTab} /\ c.of \in AuthSession /\ c.token \in 0..MaxWork
         /\ c.late \in BOOLEAN
         /\ Gone(c) \in Renewals /\ Gone(c).tab = NoTab /\ Gone(c).by = c.by /\ Gone(c).of = c.of
         /\ Gone(c).answer = c.answer /\ Gone(c).token = c.token /\ Gone(c).late = c.late
         /\ Late(c) \in Renewals /\ Late(c).tab = c.tab /\ Late(c).by = c.by /\ Late(c).of = c.of
         /\ Late(c).answer = c.answer /\ Late(c).token = c.token /\ Late(c).late = TRUE
         /\ \A a \in {"found", "refused"} :
              /\ Says(c, a) \in Renewals /\ Says(c, a).tab = c.tab /\ Says(c, a).by = c.by
              /\ Says(c, a).of = c.of /\ Says(c, a).answer = a /\ Says(c, a).late = c.late
         /\ \A n \in 0..MaxWork :
              /\ Brings(c, n) \in Renewals /\ Brings(c, n).tab = c.tab /\ Brings(c, n).by = c.by
              /\ Brings(c, n).of = c.of /\ Brings(c, n).answer = "renewed"
              /\ Brings(c, n).late = c.late /\ Brings(c, n).token = n
<1>1. /\ c.tab \in Tabs \cup {NoTab} /\ c.of \in AuthSession /\ c.token \in 0..MaxWork
      /\ c.late \in BOOLEAN
  BY DEF Renewals
<1>2. /\ Gone(c) \in Renewals /\ Gone(c).tab = NoTab /\ Gone(c).by = c.by /\ Gone(c).of = c.of
      /\ Gone(c).answer = c.answer /\ Gone(c).token = c.token /\ Gone(c).late = c.late
  BY DEF Renewals, Gone
<1>3. /\ Late(c) \in Renewals /\ Late(c).tab = c.tab /\ Late(c).by = c.by /\ Late(c).of = c.of
      /\ Late(c).answer = c.answer /\ Late(c).token = c.token /\ Late(c).late = TRUE
  BY DEF Renewals, Late
<1>4. \A a \in {"found", "refused"} :
              /\ Says(c, a) \in Renewals /\ Says(c, a).tab = c.tab /\ Says(c, a).by = c.by
              /\ Says(c, a).of = c.of /\ Says(c, a).answer = a /\ Says(c, a).late = c.late
  BY DEF Renewals, Says
<1>5. ASSUME NEW n \in 0..MaxWork
      PROVE   /\ Brings(c, n) \in Renewals /\ Brings(c, n).tab = c.tab /\ Brings(c, n).by = c.by
              /\ Brings(c, n).of = c.of /\ Brings(c, n).answer = "renewed"
              /\ Brings(c, n).late = c.late /\ Brings(c, n).token = n
  BY DEF Renewals, Brings
<1> QED
  BY <1>1, <1>2, <1>3, <1>4, <1>5

\* What happens to the session of tab t.
Asks(t, x) ==
    /\ x \in Renewals /\ x.tab = t /\ x.answer = "sent"
    /\ x.of \in {stored, live[t], timer[t]}
    /\ renewals' = renewals \cup {x}
    /\ timer' = timer \/ timer' = [timer EXCEPT ![t] = NoSession]
    /\ \/ x.by # "restore" /\ live[t] # NoSession /\ booting' = booting
       \/ /\ x.by = "restore" /\ booting[t] = "mount"
          /\ booting' = [booting EXCEPT ![t] = "restoring"]
    /\ UNCHANGED <<issued, valid, expired, stored, live, over, revoking, page, fresh, loads>>

Moved(t, c) == IF c.tab = t THEN Gone(c) ELSE c

\* The tab is loaded anew: its renewals go on for nobody, or are over.
Leaves(t) ==
    /\ \E r \in Routes : LoadsPage(t, r)
    /\ \A d \in renewals' : \E c \in renewals : d = Moved(t, c)
    /\ \/ stored' = NoSession
       \/ stored' = stored /\ \A c \in renewals : Moved(t, c) \in renewals'
    /\ loads' \in 0..MaxWork
    /\ UNCHANGED <<issued, valid, expired, revoking, fresh>>

\* The stored session becomes the tab's, or the tab goes on without one.
Resumes(t) ==
    /\ booting[t] = "mount" /\ stored # NoSession
    /\ live' = [live EXCEPT ![t] = stored] /\ timer' = Scheduled(t, stored)
    /\ booting' = [booting EXCEPT ![t] = "done"]
    /\ UNCHANGED <<issued, valid, expired, stored, over, renewals, revoking, page, fresh, loads>>

GivesUp(t, some) ==
    /\ \/ booting[t] = "mount" /\ some = {}
       \/ \E c \in renewals : some = {c} /\ c.tab = t /\ c.by = "restore"
    /\ stored' = NoSession
    /\ booting' = [booting EXCEPT ![t] = "done"]
    /\ renewals' = renewals \ some
    /\ UNCHANGED <<issued, valid, expired, live, timer, over, revoking, page, fresh, loads>>

\* Time passes, or a guest is told.
TimePasses ==
    /\ over' \in [Tabs -> BOOLEAN] /\ expired' \subseteq 1..issued
    /\ UNCHANGED <<issued, valid, stored, live, booting, timer, renewals, revoking, page, fresh,
                   loads>>

\* The renewals a page load leaves behind.
LEMMA LeftFacts ==
  ASSUME NEW t \in Tabs, NEW some \in SUBSET Renewing(t)
  PROVE  \A d \in Left(t, Renewing(t) \ some) \ some : \E c \in renewals : d = Moved(t, c)
BY DEF Left, Renewing, Moved, Gone

\* A tab sent to /login is loaded anew ...
LEMMA KickedLeaves ==
  ASSUME TypeInv, NEW t \in Tabs, NEW some \in SUBSET Renewing(t), Kicked(t, some),
         UNCHANGED <<issued, valid, expired, revoking, fresh, loads>>
  PROVE  Leaves(t)
<1>1. "login" \in Routes /\ LoadsPage(t, "login") /\ stored' = NoSession
      /\ renewals' = Left(t, Renewing(t) \ some) \ some
  BY DEF Kicked, Routes
<1>2. loads' \in 0..MaxWork
  BY DEF TypeInv, TokensOK
<1>3. \A d \in renewals' : \E c \in renewals : d = Moved(t, c)
  BY <1>1, LeftFacts
<1> QED
  BY <1>1, <1>2, <1>3 DEF Leaves

\* ... and so is one whose user opens a page.
LEMMA OpenLeaves ==
  ASSUME TypeInv, NEW t \in Tabs, NEW r \in Routes, OpenPage(t, r)
  PROVE  Leaves(t)
<1>1. LoadsPage(t, r) /\ UNCHANGED <<issued, valid, expired, stored, revoking, fresh>>
      /\ renewals' = Left(t, Renewing(t))
  BY DEF OpenPage
<1>2. loads' \in 0..MaxWork
  BY SessionAssumption DEF OpenPage, TypeInv, TokensOK
<1>3. /\ \A d \in renewals' : \E c \in renewals : d = Moved(t, c)
      /\ \A c \in renewals : Moved(t, c) \in renewals'
  BY <1>1 DEF Left, Renewing, Moved, Gone
<1> QED
  BY <1>1, <1>2, <1>3 DEF Leaves

\* A request for new tokens is a renewal of the tab.
LEMMA AskAsks ==
  ASSUME TypeInv, NEW t \in Tabs, NEW by \in {"timer", "restore", "unauthorized"},
         NEW s \in AuthSession, s \in {stored, live[t], timer[t]}, Ask(t, by, s),
         timer' = timer \/ timer' = [timer EXCEPT ![t] = NoSession],
         \/ by # "restore" /\ live[t] # NoSession /\ booting' = booting
         \/ /\ by = "restore" /\ booting[t] = "mount"
            /\ booting' = [booting EXCEPT ![t] = "restoring"],
         UNCHANGED <<issued, valid, expired, stored, live, over, revoking, page, fresh, loads>>
  PROVE  \E x : Asks(t, x)
<1> DEFINE x == [tab |-> t, by |-> by, of |-> s, answer |-> "sent", token |-> 0, late |-> FALSE]
<1>1. x \in Renewals /\ x.tab = t /\ x.answer = "sent" /\ x.of = s /\ x.by = by
  BY SessionAssumption DEF Renewals
<1>2. renewals' = renewals \cup {x}
  BY DEF Ask
<1> HIDE DEF x
<1>3. Asks(t, x)
  BY <1>1, <1>2 DEF Asks
<1> QED
  BY <1>3

\* What restore does as far as its first await.
LEMMA RestoreEffect ==
  ASSUME TypeInv, NEW t \in Tabs, Restore(t)
  PROVE  (\E x : Asks(t, x)) \/ Resumes(t) \/ GivesUp(t, {})
<1>1. CASE stored # NoSession /\ booting' = [booting EXCEPT ![t] = "restoring"]
           /\ Ask(t, "restore", stored) /\ UNCHANGED <<stored, live, timer>>
  <2>1. stored \in AuthSession
    BY <1>1 DEF TypeInv, TabsOK, Issued
  <2>2. booting[t] = "mount"
        /\ UNCHANGED <<issued, valid, expired, over, revoking, page, fresh, loads>>
    BY DEF Restore
  <2> QED
    BY <1>1, <2>1, <2>2, AskAsks
<1>e. /\ booting[t] = "mount"
      /\ UNCHANGED <<issued, valid, expired, over, revoking, page, fresh, loads>>
  BY DEF Restore
<1>2. CASE /\ stored # NoSession
           /\ live' = [live EXCEPT ![t] = stored] /\ timer' = Scheduled(t, stored)
           /\ booting' = [booting EXCEPT ![t] = "done"]
           /\ UNCHANGED <<stored, renewals>>
  BY <1>2, <1>e DEF Resumes
<1>3. CASE /\ stored' = NoSession /\ booting' = [booting EXCEPT ![t] = "done"]
           /\ UNCHANGED <<live, timer, renewals>>
  <2>1. renewals' = renewals \ {}
    BY <1>3
  <2> QED
    BY <1>3, <1>e, <2>1 DEF GivesUp
<1> QED
  BY <1>1, <1>2, <1>3 DEF Restore

\* What the refresh timer does ...
LEMMA TimerEffect ==
  ASSUME TypeInv, Begun, NEW t \in Tabs, RefreshTimerFires(t)
  PROVE  \E x : Asks(t, x)
<1>1. timer[t] \in AuthSession /\ live[t] # NoSession
  BY DEF RefreshTimerFires, TypeInv, TabsOK, Issued, Begun
<1> QED
  BY <1>1, AskAsks DEF RefreshTimerFires

\* ... what a 401 does ...
LEMMA UnauthorizedEffect ==
  ASSUME TypeInv, NEW t \in Tabs, HandleUnauthorized(t)
  PROVE  \/ \E x : Asks(t, x)
         \/ TimePasses
         \/ Leaves(t) /\ live[t].kind = Signed
<1>1. live[t] \in AuthSession /\ live[t] # NoSession
      /\ UNCHANGED <<issued, valid, expired, revoking, fresh, loads>>
  BY DEF HandleUnauthorized, TypeInv, TabsOK, Issued
<1>2. CASE Ask(t, "unauthorized", live[t])
           /\ UNCHANGED <<stored, live, booting, timer, over, page>>
  BY <1>1, <1>2, AskAsks
<1>3. CASE over' = [over EXCEPT ![t] = TRUE]
           /\ UNCHANGED <<stored, live, booting, timer, renewals, page>>
  BY <1>1, <1>3 DEF TimePasses, TypeInv, TabsOK, TokensOK
<1>4. CASE live[t].kind = Signed /\ Kicked(t, {})
  BY <1>1, <1>4, KickedLeaves
<1> QED
  BY <1>2, <1>3, <1>4 DEF HandleUnauthorized

\* ... and a renewal that fails.
LEMMA FailsEffect ==
  ASSUME TypeInv, NEW c \in renewals, RenewalFails(c)
  PROVE  c.tab \in Tabs /\ (Leaves(c.tab) \/ GivesUp(c.tab, {c}))
<1>1. c.tab \in Tabs /\ {c} \in SUBSET Renewing(c.tab)
  <2>1. c \in Renewals /\ c.tab # NoTab
    BY DEF RenewalFails, TypeInv, RenewalsOK
  <2>2. c.tab \in Tabs
    BY <2>1, RenewalTypes
  <2> QED
    BY <2>2 DEF Renewing
<1>2. CASE Kicked(c.tab, {c})
  BY <1>1, <1>2, KickedLeaves DEF RenewalFails
<1>3. CASE /\ c.by = "restore" /\ stored' = NoSession
           /\ booting' = [booting EXCEPT ![c.tab] = "done"]
           /\ renewals' = renewals \ {c} /\ UNCHANGED <<live, timer, over, page>>
  <2>1. UNCHANGED <<issued, valid, expired, revoking, fresh, loads>>
    BY DEF RenewalFails
  <2> QED
    BY <1>1, <1>3, <2>1 DEF GivesUp
<1> QED
  BY <1>1, <1>2, <1>3 DEF RenewalFails

-----------------------------------------------------------------------------
(* What keeps the invariant.                                               *)

\* All of it.
Inv == TypeInv /\ Spare /\ StoredKept /\ Begun /\ Waiting /\ OneRestore

\* What is known of the tokens on their way, and of those that are revoked.
LEMMA TokenFacts ==
  ASSUME Inv
  PROVE  /\ issued \in Nat /\ MaxWork \in Nat /\ issued <= MaxWork
         /\ \A c \in renewals : c \in Renewals /\ c.of \in AuthSession
         /\ \A c \in renewals : c.answer = "renewed" =>
              /\ c.token \in 1..issued /\ c.token # 0
              /\ c.token \in valid /\ c.token \notin revoking
              /\ c.token # stored.refreshToken
              /\ \A t \in Tabs : c.token # live[t].refreshToken /\ c.token # timer[t].refreshToken
              /\ \A d \in renewals :
                   /\ c.token # d.of.refreshToken
                   /\ d.answer = "renewed" /\ d.token = c.token => d = c
         /\ 0 \notin revoking
         /\ \A n \in revoking : n \in 1..issued
         /\ \A n \in valid : n \in 1..issued
<1>1. /\ issued \in Nat /\ MaxWork \in Nat /\ issued <= MaxWork
      /\ \A n \in revoking \cup valid : n \in 1..issued
  BY SessionFacts DEF Inv, TypeInv, TokensOK
<1>2. \A c \in renewals : c \in Renewals /\ c.of \in AuthSession
  BY RenewalTypes DEF Inv, TypeInv, RenewalsOK
<1>3. \A c \in renewals : c.answer = "renewed" => c.token \in 1..issued
  BY DEF Inv, TypeInv, Issued
<1> QED
  BY <1>1, <1>2, <1>3 DEF Inv, Spare

\* The sessions stay, and so do the renewals.
LEMMA SameKept ==
  ASSUME Inv, TypeInv', UNCHANGED <<valid, stored, live, booting, timer, renewals, revoking>>
  PROVE  Inv'
<1>1. Spare' /\ StoredKept'
  BY DEF Inv, Spare, StoredKept
<1>2. Begun'
  BY DEF Inv, Begun, Renewing
<1>3. Waiting' /\ OneRestore'
  BY DEF Inv, Waiting, OneRestore
<1> QED
  BY <1>1, <1>2, <1>3 DEF Inv

\* A page turns; the service may have issued a guest's token.
LEMMA TurnedKeeps ==
  ASSUME Inv, Turned, PagesFine'
  PROVE  Inv'
<1>f. /\ issued \in Nat /\ MaxWork \in Nat /\ issued' \in Nat /\ issued <= issued'
      /\ issued' \in 0..MaxWork
  BY TokenFacts DEF Turned
<1>1. TokensOK'
  BY <1>f DEF Turned, Inv, TypeInv, TokensOK
<1>2. TabsOK' /\ RenewalsOK'
  BY DEF Turned, Inv, TypeInv, TabsOK, RenewalsOK
<1>3. Issued'
  <2>1. /\ stored.refreshToken \in Nat
        /\ \A t \in Tabs : live[t].refreshToken \in Nat /\ timer[t].refreshToken \in Nat
        /\ \A c \in renewals : c.of.refreshToken \in Nat
    BY TokenFacts, SessionFacts DEF Inv, TypeInv, TabsOK
  <2> QED
    BY <1>f, <2>1 DEF Turned, Inv, TypeInv, Issued
<1> QED
  BY <1>1, <1>2, <1>3, SameKept DEF Turned, TypeInv

\* An access token runs out, or the modal opens.
LEMMA TimeKeeps ==
  ASSUME Inv, TimePasses
  PROVE  Inv'
<1>1. TokensOK' /\ TabsOK' /\ RenewalsOK' /\ Issued'
  BY DEF TimePasses, Inv, TypeInv, TokensOK, TabsOK, RenewalsOK, Issued
<1>2. PagesFine'
  BY DEF TimePasses, Inv, TypeInv, PagesFine, LinkResolved
<1> QED
  BY <1>1, <1>2, SameKept DEF TimePasses, TypeInv

\* A page signs the user in.
LEMMA SignsKeeps ==
  ASSUME Inv, NEW t \in Tabs, NEW s, SignsWith(t, s), PagesFine'
  PROVE  Inv'
<1> DEFINE n == s.refreshToken
<1>f. /\ issued \in Nat /\ MaxWork \in Nat /\ issued' \in {issued, issued + 1}
      /\ issued' \in 0..MaxWork /\ n \in {0, issued + 1} /\ n <= issued'
      /\ n # 0 => n \in valid'
      /\ \A k \in valid : k \in valid'
      /\ \A k \in valid' : k \in valid \/ k = issued'
  BY TokenFacts DEF SignsWith
<1>s. /\ s \in AuthSession /\ s # NoSession
      /\ live' = [live EXCEPT ![t] = s] /\ stored' = s /\ timer' = Scheduled(t, s)
      /\ booting[t] # "mount" /\ fresh' \in BOOLEAN
      /\ UNCHANGED <<expired, booting, over, renewals, revoking, loads>>
  BY SessionFacts DEF SignsWith
<1>l. /\ live'[t] = s /\ \A u \in Tabs \ {t} : live'[u] = live[u]
      /\ timer'[t].refreshToken = n /\ \A u \in Tabs \ {t} : timer'[u] = timer[u]
      /\ timer' \in [Tabs -> AuthSession \cup {NoSession}]
  BY <1>s, ScheduledFacts DEF Inv, TypeInv, TabsOK
<1>1. TokensOK'
  <2>1. \A k \in 1..issued : k \in 1..issued'
    BY <1>f
  <2>2. valid' \subseteq 1..issued'
    <3>1. issued' \in valid' /\ issued' \notin valid => issued' \in 1..issued'
      BY <1>f DEF SignsWith
    <3> QED
      BY <1>f, <2>1, <3>1, TokenFacts
  <2>3. expired \subseteq 1..issued /\ revoking \subseteq 1..issued /\ loads \in 0..MaxWork
    BY DEF Inv, TypeInv, TokensOK
  <2> QED
    BY <1>f, <1>s, <2>1, <2>2, <2>3 DEF TokensOK
<1>2. TabsOK' /\ RenewalsOK'
  BY <1>s, <1>l DEF Inv, TypeInv, TabsOK, RenewalsOK
<1>3. Issued'
  <2>1. \A c \in renewals : c.of.refreshToken \in Nat
    BY TokenFacts, SessionFacts
  <2>2. \A u \in Tabs : live[u].refreshToken \in Nat /\ timer[u].refreshToken \in Nat
    BY SessionFacts DEF Inv, TypeInv, TabsOK
  <2>3. \A u \in Tabs : live'[u].refreshToken <= issued' /\ timer'[u].refreshToken <= issued'
    BY <1>f, <1>l, <2>2 DEF Inv, TypeInv, Issued
  <2> QED
    BY <1>f, <1>s, <2>1, <2>3 DEF Inv, TypeInv, Issued
<1> HIDE DEF n
<1>4. Spare'
  <2>1. \A u \in Tabs : /\ live'[u].refreshToken \in {live[u].refreshToken, n}
                        /\ timer'[u].refreshToken \in {timer[u].refreshToken, n}
    BY <1>l DEF n
  <2> QED
    BY <1>f, <1>s, <2>1, TokenFacts DEF Spare, n
<1>5. StoredKept'
  BY <1>f, <1>s, TokenFacts DEF StoredKept, n
<1>6. Begun'
  BY <1>s, <1>l DEF Inv, Begun, Renewing
<1>7. Waiting' /\ OneRestore'
  <2>1. \A c \in renewals : c.tab # NoTab => c.tab \in Tabs
    BY TokenFacts, RenewalTypes
  <2> QED
    BY <1>s, <1>l, <2>1 DEF Inv, Waiting, OneRestore
<1> QED
  BY <1>1, <1>2, <1>3, <1>4, <1>5, <1>6, <1>7 DEF Inv, TypeInv

\* A renewal begins.
LEMMA AsksKeeps ==
  ASSUME Inv, NEW t \in Tabs, NEW x, Asks(t, x)
  PROVE  Inv'
<1>e. /\ x \in Renewals /\ x.tab = t /\ x.answer = "sent"
      /\ x.of \in {stored, live[t], timer[t]}
      /\ renewals' = renewals \cup {x}
      /\ timer' = timer \/ timer' = [timer EXCEPT ![t] = NoSession]
      /\ \/ x.by # "restore" /\ live[t] # NoSession /\ booting' = booting
         \/ /\ x.by = "restore" /\ booting[t] = "mount"
            /\ booting' = [booting EXCEPT ![t] = "restoring"]
      /\ UNCHANGED <<issued, valid, expired, stored, live, over, revoking, page, fresh, loads>>
  BY DEF Asks
<1>l. /\ \A u \in Tabs : timer'[u] \in {timer[u], NoSession}
      /\ timer' \in [Tabs -> AuthSession \cup {NoSession}]
      /\ booting' \in [Tabs -> {"mount", "restoring", "done"}]
      /\ \A u \in Tabs : booting'[u] = booting[u]
                         \/ (u = t /\ booting[u] = "mount" /\ booting'[u] = "restoring")
  BY <1>e DEF Inv, TypeInv, TabsOK
<1>1. TokensOK' /\ TabsOK' /\ RenewalsOK'
  BY <1>e, <1>l DEF Inv, TypeInv, TokensOK, TabsOK, RenewalsOK
<1>2. PagesFine'
  BY <1>e DEF Inv, TypeInv, PagesFine, LinkResolved
<1>3. Issued'
  <2>1. x.of.refreshToken <= issued
    BY <1>e DEF Inv, TypeInv, Issued
  <2>2. \A u \in Tabs : timer'[u].refreshToken <= issued
    BY <1>l, TokenFacts, SessionFacts DEF Inv, TypeInv, Issued
  <2> QED
    BY <1>e, <2>1, <2>2 DEF Inv, TypeInv, Issued
<1>4. Spare'
  <2>1. \A c \in renewals' : c.answer = "renewed" => c \in renewals
    BY <1>e
  <2>2. \A c \in renewals : c.answer = "renewed" =>
          /\ c.token # x.of.refreshToken
          /\ \A u \in Tabs : c.token # timer'[u].refreshToken
    BY <1>e, <1>l, TokenFacts, SessionFacts
  <2> QED
    BY <1>e, <2>1, <2>2, TokenFacts DEF Spare
<1>5. StoredKept'
  BY <1>e DEF Inv, StoredKept
<1>6. Begun'
  BY <1>e, <1>l DEF Inv, Begun, Renewing
<1>7. Waiting'
  <2>1. ASSUME NEW c \in renewals, c.tab # NoTab, live[c.tab] = NoSession
        PROVE  c.late \/ (c.by = "restore" /\ booting'[c.tab] = "restoring")
    <3>1. c.tab \in Tabs
      BY <2>1, TokenFacts, RenewalTypes
    <3>2. booting[c.tab] # "mount"
      BY <3>1 DEF Inv, Begun, Renewing
    <3> QED
      BY <1>l, <2>1, <3>1, <3>2 DEF Inv, Waiting
  <2>2. live[t] = NoSession => x.by = "restore" /\ booting'[t] = "restoring"
    BY <1>e, <1>l DEF Inv, TypeInv, TabsOK
  <2> QED
    BY <1>e, <2>1, <2>2 DEF Waiting
<1>8. OneRestore'
  <2>1. x.by = "restore" => \A c \in renewals : c.tab # t
    BY <1>e DEF Inv, Begun, Renewing
  <2> QED
    BY <1>e, <2>1 DEF Inv, OneRestore
<1> QED
  BY <1>1, <1>2, <1>3, <1>4, <1>5, <1>6, <1>7, <1>8 DEF Inv, TypeInv

\* A page load: the tab has nothing any more, and nobody of it waits.
LEMMA MovedFacts ==
  ASSUME NEW c \in Renewals, NEW t \in Tabs
  PROVE  /\ Moved(t, c) \in Renewals /\ Moved(t, c).by = c.by /\ Moved(t, c).of = c.of
         /\ Moved(t, c).answer = c.answer /\ Moved(t, c).token = c.token
         /\ Moved(t, c).late = c.late /\ Moved(t, c).tab # t
         /\ Moved(t, c).tab # NoTab => Moved(t, c) = c
<1>1. CASE c.tab = t
  <2>1. Moved(t, c) = Gone(c) /\ t # NoTab
    BY <1>1, TabsAssumption DEF Moved
  <2>2. /\ Gone(c) \in Renewals /\ Gone(c).tab = NoTab /\ Gone(c).by = c.by
        /\ Gone(c).of = c.of /\ Gone(c).answer = c.answer /\ Gone(c).token = c.token
        /\ Gone(c).late = c.late
    BY RenewalTypes
  <2> QED
    BY <2>1, <2>2
<1>2. CASE c.tab # t
  BY <1>2 DEF Moved
<1> QED
  BY <1>1, <1>2

\* A tab is loaded anew.
LEMMA LeavesKeeps ==
  ASSUME Inv, NEW t \in Tabs, Leaves(t)
  PROVE  Inv'
<1>r. PICK r \in Routes : LoadsPage(t, r)
  BY DEF Leaves
<1>e. /\ live' = [live EXCEPT ![t] = NoSession]
      /\ booting' = [booting EXCEPT ![t] = "mount"]
      /\ timer' = [timer EXCEPT ![t] = NoSession]
      /\ over' = [over EXCEPT ![t] = FALSE]
      /\ page' = [page EXCEPT ![t] = Starting(r)]
  BY <1>r DEF LoadsPage
<1>s. /\ \/ stored' = NoSession
         \/ stored' = stored /\ \A c \in renewals : Moved(t, c) \in renewals'
      /\ loads' \in 0..MaxWork
      /\ UNCHANGED <<issued, valid, expired, revoking, fresh>>
  BY DEF Leaves
<1>m. \A d \in renewals' : \E c \in renewals :
        /\ d \in Renewals /\ d.by = c.by /\ d.of = c.of /\ d.answer = c.answer
        /\ d.token = c.token /\ d.late = c.late /\ d.tab # t
        /\ d.tab # NoTab => d = c
        /\ d = Moved(t, c)
  BY TokenFacts, MovedFacts DEF Leaves
<1>l. /\ live'[t] = NoSession /\ timer'[t] = NoSession /\ booting'[t] = "mount"
      /\ \A u \in Tabs \ {t} :
           live'[u] = live[u] /\ timer'[u] = timer[u] /\ booting'[u] = booting[u]
  BY <1>e DEF Inv, TypeInv, TabsOK
<1>1. TokensOK'
  BY <1>s DEF Inv, TypeInv, TokensOK
<1>2. TabsOK'
  BY <1>e, <1>s DEF Inv, TypeInv, TabsOK
<1>3. RenewalsOK'
  BY <1>m DEF RenewalsOK
<1>4. PagesFine'
  BY <1>e, StartsFine DEF Inv, TypeInv
<1>5. Issued'
  <2>1. \A c \in renewals' : c.of.refreshToken <= issued
                             /\ (c.answer = "renewed" => c.token \in 1..issued)
    BY <1>m DEF Inv, TypeInv, Issued
  <2>2. \A u \in Tabs : live'[u].refreshToken <= issued /\ timer'[u].refreshToken <= issued
    BY <1>l, TokenFacts, SessionFacts DEF Inv, TypeInv, Issued
  <2>3. stored'.refreshToken <= issued
    BY <1>s, TokenFacts, SessionFacts DEF Inv, TypeInv, Issued
  <2> QED
    BY <1>s, <2>1, <2>2, <2>3 DEF Issued
<1>6. Spare'
  <2> SUFFICES ASSUME NEW d \in renewals', d.answer = "renewed"
               PROVE  /\ d.token \in valid /\ d.token \notin revoking
                      /\ d.token # stored'.refreshToken
                      /\ \A u \in Tabs : d.token # live'[u].refreshToken
                                         /\ d.token # timer'[u].refreshToken
                      /\ \A b \in renewals' :
                           /\ d.token # b.of.refreshToken
                           /\ b.answer = "renewed" /\ b.token = d.token => b = d
    BY <1>s DEF Spare
  <2>1. PICK c \in renewals : c.answer = "renewed" /\ d.token = c.token /\ d = Moved(t, c)
    BY <1>m
  <2>2. d.token \in valid /\ d.token \notin revoking /\ d.token # stored'.refreshToken
    BY <1>s, <2>1, TokenFacts, SessionFacts
  <2>3. \A u \in Tabs : d.token # live'[u].refreshToken /\ d.token # timer'[u].refreshToken
    BY <1>l, <2>1, TokenFacts, SessionFacts
  <2>4. ASSUME NEW b \in renewals'
        PROVE  /\ d.token # b.of.refreshToken
               /\ b.answer = "renewed" /\ b.token = d.token => b = d
    <3>1. PICK a \in renewals : b.of = a.of /\ b.answer = a.answer /\ b.token = a.token
                                /\ b = Moved(t, a)
      BY <1>m
    <3>2. d.token # a.of.refreshToken /\ (a.answer = "renewed" /\ a.token = c.token => a = c)
      BY <2>1, TokenFacts
    <3> QED
      BY <2>1, <3>1, <3>2
  <2> QED
    BY <2>2, <2>3, <2>4
<1>7. StoredKept'
  <2>1. CASE stored' = NoSession
    BY <1>s, <2>1, TokenFacts, SessionFacts DEF StoredKept
  <2>2. CASE stored' = stored /\ \A c \in renewals : Moved(t, c) \in renewals'
    <3>1. ASSUME NEW c \in renewals, c.answer = "renewed", c.of.refreshToken = stored.refreshToken
          PROVE  \E d \in renewals' :
                   d.answer = "renewed" /\ d.of.refreshToken = stored.refreshToken
      <4>1. Moved(t, c) \in renewals' /\ Moved(t, c).answer = "renewed" /\ Moved(t, c).of = c.of
        BY <2>2, <3>1, TokenFacts, MovedFacts
      <4> QED
        BY <3>1, <4>1
    <3> QED
      BY <1>s, <2>2, <3>1 DEF Inv, StoredKept
  <2> QED
    BY <1>s, <2>1, <2>2
<1>8. Begun'
  <2>1. \A u \in Tabs \ {t} : \A d \in renewals' : d.tab = u => d \in renewals
    BY <1>m, TabsAssumption
  <2> QED
    BY <1>l, <1>m, <2>1 DEF Inv, Begun, Renewing
<1>9. Waiting' /\ OneRestore'
  <2>1. ASSUME NEW d \in renewals', d.tab # NoTab
        PROVE  d \in renewals /\ d.tab \in Tabs \ {t}
    <3>1. d \in renewals /\ d \in Renewals /\ d.tab # t
      BY <1>m, <2>1
    <3>2. d.tab \in Tabs \cup {NoTab}
      BY <3>1, RenewalTypes
    <3> QED
      BY <2>1, <3>1, <3>2
  <2> QED
    BY <1>l, <2>1 DEF Inv, Waiting, OneRestore
<1> QED
  BY <1>1, <1>2, <1>3, <1>4, <1>5, <1>6, <1>7, <1>8, <1>9 DEF Inv, TypeInv

\* A stored session that is still good is restored.
LEMMA ResumesKeeps ==
  ASSUME Inv, NEW t \in Tabs, Resumes(t)
  PROVE  Inv'
<1>e. /\ booting[t] = "mount" /\ stored # NoSession
      /\ live' = [live EXCEPT ![t] = stored] /\ timer' = Scheduled(t, stored)
      /\ booting' = [booting EXCEPT ![t] = "done"]
      /\ UNCHANGED <<issued, valid, expired, stored, over, renewals, revoking, page, fresh, loads>>
  BY DEF Resumes
<1>l. /\ live'[t] = stored /\ \A u \in Tabs \ {t} : live'[u] = live[u]
      /\ timer'[t].refreshToken = stored.refreshToken
      /\ \A u \in Tabs \ {t} : timer'[u] = timer[u]
      /\ timer' \in [Tabs -> AuthSession \cup {NoSession}]
      /\ booting'[t] = "done" /\ \A u \in Tabs \ {t} : booting'[u] = booting[u]
  BY <1>e, ScheduledFacts DEF Inv, TypeInv, TabsOK
<1>1. TokensOK' /\ TabsOK' /\ RenewalsOK'
  BY <1>e, <1>l DEF Inv, TypeInv, TokensOK, TabsOK, RenewalsOK
<1>2. PagesFine'
  BY <1>e DEF Inv, TypeInv, PagesFine, LinkResolved
<1>3. Issued'
  <2>1. \A u \in Tabs : live'[u].refreshToken <= issued /\ timer'[u].refreshToken <= issued
    BY <1>l DEF Inv, TypeInv, Issued
  <2> QED
    BY <1>e, <2>1 DEF Inv, TypeInv, Issued
<1>4. Spare'
  <2>1. \A c \in renewals : c.answer = "renewed" =>
          \A u \in Tabs : c.token # live'[u].refreshToken /\ c.token # timer'[u].refreshToken
    BY <1>l, TokenFacts
  <2> QED
    BY <1>e, <2>1, TokenFacts DEF Spare
<1>5. StoredKept'
  BY <1>e DEF Inv, StoredKept
<1>6. Begun'
  BY <1>e, <1>l DEF Inv, Begun, Renewing
<1>7. Waiting' /\ OneRestore'
  <2>1. ASSUME NEW c \in renewals, c.tab # NoTab
        PROVE  c.tab \in Tabs \ {t}
    <3>1. c.tab \in Tabs \cup {NoTab}
      BY TokenFacts, RenewalTypes
    <3>2. c.tab # t
      BY <1>e DEF Inv, Begun, Renewing
    <3> QED
      BY <2>1, <3>1, <3>2
  <2> QED
    BY <1>e, <1>l, <2>1 DEF Inv, Waiting, OneRestore
<1> QED
  BY <1>1, <1>2, <1>3, <1>4, <1>5, <1>6, <1>7 DEF Inv, TypeInv

\* Fewer renewals, and the tokens of those that stay as spare as they were.
LEMMA FewerSpare ==
  ASSUME Inv, renewals' \subseteq renewals, stored' = NoSession \/ stored' = stored,
         UNCHANGED <<valid, revoking>>,
         \A u \in Tabs : live'[u] \in {live[u], NoSession} /\ timer'[u] \in {timer[u], NoSession}
  PROVE  Spare'
BY TokenFacts, SessionFacts DEF Spare

\* restore goes on without a session.
LEMMA GivesUpKeeps ==
  ASSUME Inv, NEW t \in Tabs, NEW some, GivesUp(t, some)
  PROVE  Inv'
<1>e. /\ stored' = NoSession
      /\ booting' = [booting EXCEPT ![t] = "done"]
      /\ renewals' = renewals \ some
      /\ UNCHANGED <<issued, valid, expired, live, timer, over, revoking, page, fresh, loads>>
  BY DEF GivesUp
<1>l. booting'[t] = "done" /\ \A u \in Tabs \ {t} : booting'[u] = booting[u]
  BY <1>e DEF Inv, TypeInv, TabsOK
<1>n. \A d \in renewals' : d.tab = t => d.by # "restore"
  <2>1. CASE booting[t] = "mount" /\ some = {}
    BY <1>e, <2>1 DEF Inv, Begun, Renewing
  <2>2. CASE \E c \in renewals : some = {c} /\ c.tab = t /\ c.by = "restore"
    <3>1. t # NoTab
      BY TabsAssumption
    <3> QED
      BY <1>e, <2>2, <3>1 DEF Inv, OneRestore
  <2> QED
    BY <2>1, <2>2 DEF GivesUp
<1>1. TokensOK' /\ TabsOK' /\ RenewalsOK'
  BY <1>e DEF Inv, TypeInv, TokensOK, TabsOK, RenewalsOK
<1>2. PagesFine'
  BY <1>e DEF Inv, TypeInv, PagesFine, LinkResolved
<1>3. Issued'
  BY <1>e, TokenFacts, SessionFacts DEF Inv, TypeInv, Issued
<1>4. Spare'
  BY <1>e, FewerSpare
<1>5. StoredKept'
  BY <1>e, TokenFacts, SessionFacts DEF StoredKept
<1>6. Begun'
  BY <1>e, <1>l DEF Inv, Begun, Renewing
<1>7. Waiting' /\ OneRestore'
  <2>1. \A c \in renewals' : c \in renewals /\ (c.tab # NoTab => c.tab \in Tabs)
    BY <1>e, TokenFacts, RenewalTypes
  <2>2. Waiting'
    BY <1>e, <1>l, <1>n, <2>1 DEF Inv, Waiting
  <2>3. OneRestore'
    BY <2>1 DEF Inv, OneRestore
  <2> QED
    BY <2>2, <2>3
<1> QED
  BY <1>1, <1>2, <1>3, <1>4, <1>5, <1>6, <1>7 DEF Inv, TypeInv

\* The renewals that were a tab's become late: it has signed out.
Lated(t, c) == IF c.tab = t THEN Late(c) ELSE c

\* What a sign-out makes of a renewal.
LEMMA LatedFacts ==
  ASSUME NEW c \in Renewals, NEW t \in Tabs
  PROVE  /\ Lated(t, c) \in Renewals /\ Lated(t, c).by = c.by /\ Lated(t, c).of = c.of
         /\ Lated(t, c).answer = c.answer /\ Lated(t, c).token = c.token
         /\ Lated(t, c).tab = c.tab
         /\ c.tab = t => Lated(t, c).late
         /\ c.tab # t => Lated(t, c) = c
<1>1. CASE c.tab = t
  <2>1. Lated(t, c) = Late(c)
    BY <1>1 DEF Lated
  <2>2. /\ Late(c) \in Renewals /\ Late(c).tab = c.tab /\ Late(c).by = c.by
        /\ Late(c).of = c.of /\ Late(c).answer = c.answer /\ Late(c).token = c.token
        /\ Late(c).late = TRUE
    BY RenewalTypes
  <2> QED
    BY <1>1, <2>1, <2>2
<1>2. CASE c.tab # t
  BY <1>2 DEF Lated
<1> QED
  BY <1>1, <1>2

\* A sign-out: the token it has revoked is not one on its way.
LEMMA LogoutKeeps ==
  ASSUME Inv, NEW t \in Tabs, Logout(t)
  PROVE  Inv'
<1>e. /\ live[t] # NoSession
      /\ loads' = loads + 1 /\ issued + loads < MaxWork
      /\ revoking' = revoking \cup ({live[t].refreshToken} \ {0})
      /\ timer' = [timer EXCEPT ![t] = NoSession]
      /\ live' = [live EXCEPT ![t] = NoSession]
      /\ stored' = NoSession
      /\ UNCHANGED <<issued, valid, expired, booting, over, page, fresh>>
  BY DEF Logout
<1>r. renewals' = {Lated(t, c) : c \in renewals}
  BY DEF Logout, Lated, Late
<1>m. \A d \in renewals' : \E c \in renewals :
        /\ d \in Renewals /\ d.by = c.by /\ d.of = c.of /\ d.answer = c.answer
        /\ d.token = c.token /\ d.tab = c.tab
        /\ c.tab = t => d.late
        /\ c.tab # t => d = c
        /\ d = Lated(t, c)
  BY <1>r, TokenFacts, LatedFacts
<1>l. /\ live'[t] = NoSession /\ timer'[t] = NoSession
      /\ \A u \in Tabs \ {t} : live'[u] = live[u] /\ timer'[u] = timer[u]
  BY <1>e DEF Inv, TypeInv, TabsOK
<1>v. live[t].refreshToken # 0 => live[t].refreshToken \in 1..issued
  BY SessionFacts, TokenFacts DEF Inv, TypeInv, TabsOK, Issued
<1>1. TokensOK'
  <2>1. revoking' \subseteq 1..issued'
    BY <1>e, <1>v, TokenFacts
  <2>2. loads' \in 0..MaxWork
    BY <1>e, TokenFacts DEF Inv, TypeInv, TokensOK
  <2> QED
    BY <1>e, <2>1, <2>2 DEF Inv, TypeInv, TokensOK
<1>2. TabsOK'
  BY <1>e DEF Inv, TypeInv, TabsOK
<1>3. RenewalsOK'
  BY <1>m DEF RenewalsOK
<1>4. PagesFine'
  BY <1>e DEF Inv, TypeInv, PagesFine, LinkResolved
<1>5. Issued'
  <2>1. \A c \in renewals' : c.of.refreshToken <= issued
                             /\ (c.answer = "renewed" => c.token \in 1..issued)
    BY <1>m DEF Inv, TypeInv, Issued
  <2>2. \A u \in Tabs : live'[u].refreshToken <= issued /\ timer'[u].refreshToken <= issued
    BY <1>l, TokenFacts, SessionFacts DEF Inv, TypeInv, Issued
  <2>3. stored'.refreshToken <= issued
    BY <1>e, TokenFacts, SessionFacts
  <2> QED
    BY <1>e, <2>1, <2>2, <2>3 DEF Issued
<1>6. Spare'
  <2> SUFFICES ASSUME NEW d \in renewals', d.answer = "renewed"
               PROVE  /\ d.token \in valid /\ d.token \notin revoking'
                      /\ d.token # stored'.refreshToken
                      /\ \A u \in Tabs : d.token # live'[u].refreshToken
                                         /\ d.token # timer'[u].refreshToken
                      /\ \A b \in renewals' :
                           /\ d.token # b.of.refreshToken
                           /\ b.answer = "renewed" /\ b.token = d.token => b = d
    BY <1>e DEF Spare
  <2>1. PICK c \in renewals : c.answer = "renewed" /\ d.token = c.token /\ d = Lated(t, c)
    BY <1>m
  <2>2. d.token \in valid /\ d.token \notin revoking' /\ d.token # stored'.refreshToken
    BY <1>e, <2>1, TokenFacts, SessionFacts
  <2>3. \A u \in Tabs : d.token # live'[u].refreshToken /\ d.token # timer'[u].refreshToken
    BY <1>l, <2>1, TokenFacts, SessionFacts
  <2>4. ASSUME NEW b \in renewals'
        PROVE  /\ d.token # b.of.refreshToken
               /\ b.answer = "renewed" /\ b.token = d.token => b = d
    <3>1. PICK a \in renewals : b.of = a.of /\ b.answer = a.answer /\ b.token = a.token
                                /\ b = Lated(t, a)
      BY <1>m
    <3>2. d.token # a.of.refreshToken /\ (a.answer = "renewed" /\ a.token = c.token => a = c)
      BY <2>1, TokenFacts
    <3> QED
      BY <2>1, <3>1, <3>2
  <2> QED
    BY <2>2, <2>3, <2>4
<1>7. StoredKept'
  <2>1. stored'.refreshToken = 0 /\ 0 \notin revoking'
    BY <1>e, TokenFacts, SessionFacts
  <2> QED
    BY <2>1 DEF StoredKept
<1>8. Begun'
  <2>1. \A u \in Tabs : Renewing(u) = {} => Renewing(u)' = {}
    BY <1>m DEF Renewing
  <2> QED
    BY <1>e, <1>l, <2>1 DEF Inv, Begun
<1>9. Waiting'
  <2> SUFFICES ASSUME NEW d \in renewals', d.tab # NoTab, live'[d.tab] = NoSession
               PROVE  d.late \/ (d.by = "restore" /\ booting'[d.tab] = "restoring")
    BY DEF Waiting
  <2>0. d.tab # NoTab
    OBVIOUS
  <2>1. d.tab # t => d \in renewals /\ d.tab \in Tabs
    <3>1. d \in Renewals /\ (d.tab # t => d \in renewals)
      BY <1>m
    <3>2. d.tab \in Tabs \cup {NoTab}
      BY <3>1, RenewalTypes
    <3> QED
      BY <2>0, <3>1, <3>2
  <2>2. d.tab = t => d.late
    BY <1>m
  <2> QED
    BY <1>e, <1>l, <2>1, <2>2 DEF Inv, Waiting
<1>10. OneRestore'
  <2> SUFFICES ASSUME NEW d \in renewals', NEW b \in renewals', d.tab = b.tab, d.tab # NoTab,
                      d.by = "restore", b.by = "restore"
               PROVE  d = b
    BY DEF OneRestore
  <2>1. PICK c \in renewals : d.tab = c.tab /\ d.by = c.by /\ d = Lated(t, c)
    BY <1>m
  <2>2. PICK a \in renewals : b.tab = a.tab /\ b.by = a.by /\ b = Lated(t, a)
    BY <1>m
  <2>3. a = c
    BY <2>1, <2>2 DEF Inv, OneRestore
  <2> QED
    BY <2>1, <2>2, <2>3
<1> QED
  BY <1>1, <1>2, <1>3, <1>4, <1>5, <1>6, <1>7, <1>8, <1>9, <1>10 DEF Inv, TypeInv

\* The service looks a token up ...
LEMMA FindsKeeps ==
  ASSUME Inv, NEW c \in renewals, RefreshFinds(c)
  PROVE  Inv'
<1>e. /\ c.answer = "sent"
      /\ UNCHANGED <<issued, valid, expired, stored, live, booting, timer, over, revoking, page,
                     fresh, loads>>
  BY DEF RefreshFinds
<1>c. c \in Renewals
  BY TokenFacts
<1>s. \A a \in {"found", "refused"} :
        /\ Says(c, a) \in Renewals /\ Says(c, a).tab = c.tab /\ Says(c, a).by = c.by
        /\ Says(c, a).of = c.of /\ Says(c, a).answer = a /\ Says(c, a).late = c.late
  BY <1>c, RenewalTypes
<1>o. \E a \in {"found", "refused"} :
        \A d \in renewals' : d = Says(c, a) \/ (d \in renewals /\ d # c)
  BY DEF RefreshFinds, Says
<1>m. \A d \in renewals' :
        \/ d \in renewals /\ d # c
        \/ d \in Renewals /\ d.tab = c.tab /\ d.by = c.by /\ d.of = c.of /\ d.late = c.late
           /\ d.answer # "renewed"
  BY <1>s, <1>o
<1>k. \A d \in renewals : d.answer = "renewed" => d \in renewals'
  BY <1>e DEF RefreshFinds
<1>1. TokensOK' /\ TabsOK'
  BY <1>e DEF Inv, TypeInv, TokensOK, TabsOK
<1>2. RenewalsOK'
  BY <1>m, TokenFacts DEF RenewalsOK
<1>3. PagesFine'
  BY <1>e DEF Inv, TypeInv, PagesFine, LinkResolved
<1>4. Issued'
  BY <1>e, <1>m DEF Inv, TypeInv, Issued
<1>5. Spare'
  <2>1. \A d \in renewals' : d.answer = "renewed" => d \in renewals
    BY <1>m
  <2>2. \A d \in renewals' : \E a \in renewals : d.of = a.of
    BY <1>m
  <2> QED
    BY <1>e, <2>1, <2>2, TokenFacts DEF Spare
<1>6. StoredKept'
  BY <1>e, <1>k DEF Inv, StoredKept
<1>7. Begun'
  <2>1. \A u \in Tabs : Renewing(u) = {} => Renewing(u)' = {}
    BY <1>m DEF Renewing
  <2> QED
    BY <1>e, <2>1 DEF Inv, Begun
<1>8. Waiting'
  BY <1>e, <1>m DEF Inv, Waiting
<1>9. OneRestore'
  BY <1>s, <1>o DEF Inv, OneRestore
<1> QED
  BY <1>1, <1>2, <1>3, <1>4, <1>5, <1>6, <1>7, <1>8, <1>9 DEF Inv, TypeInv

\* ... and replaces it: the new one is nobody's yet.
LEMMA RotatesKeeps ==
  ASSUME Inv, NEW c \in renewals, RefreshRotates(c)
  PROVE  Inv'
<1> DEFINE n == issued'
           x == Brings(c, n)
<1>e. /\ c.answer = "found" /\ issued + loads < MaxWork /\ n = issued + 1
      /\ valid' = (valid \ {c.of.refreshToken}) \cup {n}
      /\ UNCHANGED <<expired, stored, live, booting, timer, over, revoking, page, fresh, loads>>
  BY DEF RefreshRotates
<1>n. n = issued + 1 /\ n \in 1..MaxWork /\ n \in 0..MaxWork /\ issued \in Nat /\ n \in 1..n
  BY <1>e, TokenFacts DEF Inv, TypeInv, TokensOK
<1>r. renewals' = (renewals \ {c}) \cup {x}
  BY DEF RefreshRotates, Brings
<1>c. c \in Renewals
  BY TokenFacts
<1>x. /\ x \in Renewals /\ x.tab = c.tab /\ x.by = c.by /\ x.of = c.of /\ x.answer = "renewed"
      /\ x.late = c.late /\ x.token = n
  <2>1. \A k \in 0..MaxWork :
          /\ Brings(c, k) \in Renewals /\ Brings(c, k).tab = c.tab /\ Brings(c, k).by = c.by
          /\ Brings(c, k).of = c.of /\ Brings(c, k).answer = "renewed"
          /\ Brings(c, k).late = c.late /\ Brings(c, k).token = k
    BY <1>c, RenewalTypes
  <2> QED
    BY <1>n, <2>1
<1>g. \A k : k \in 0..issued => k \in 0..n /\ k # n /\ k <= n
  BY <1>n
<1>h. \A k \in 1..issued : k \in 1..n
  BY <1>n
<1>t. /\ stored.refreshToken \in 0..issued
      /\ \A u \in Tabs : live[u].refreshToken \in 0..issued /\ timer[u].refreshToken \in 0..issued
      /\ \A d \in renewals : d.of.refreshToken \in 0..issued
  BY SessionFacts, TokenFacts DEF Inv, TypeInv, TabsOK, Issued
<1>o. \A d \in renewals' : d = x \/ (d \in renewals /\ d # c)
  BY <1>r
<1>i. issued' = n
  OBVIOUS
<1> HIDE DEF n, x
<1>1. TokensOK'
  <2>1. valid' \subseteq 1..n /\ revoking' \subseteq 1..n
    BY <1>e, <1>h, <1>n, TokenFacts
  <2>2. expired' \subseteq 1..n
    BY <1>e, <1>h DEF Inv, TypeInv, TokensOK
  <2> QED
    BY <1>e, <1>i, <1>n, <2>1, <2>2 DEF Inv, TypeInv, TokensOK
<1>2. TabsOK'
  BY <1>e DEF Inv, TypeInv, TabsOK
<1>3. RenewalsOK'
  BY <1>o, <1>x, TokenFacts DEF RenewalsOK
<1>4. PagesFine'
  BY <1>e DEF Inv, TypeInv, PagesFine, LinkResolved
<1>5. Issued'
  <2>1. \A d \in renewals' : d.of.refreshToken <= n
    BY <1>o, <1>x, <1>t, <1>g
  <2>2. \A d \in renewals' : d.answer = "renewed" => d.token \in 1..n
    BY <1>o, <1>x, <1>n, <1>h, TokenFacts
  <2>3. stored'.refreshToken <= n
        /\ \A u \in Tabs : live'[u].refreshToken <= n /\ timer'[u].refreshToken <= n
    BY <1>e, <1>t, <1>g
  <2> QED
    BY <1>i, <2>1, <2>2, <2>3 DEF Issued
<1>6. Spare'
  <2> SUFFICES ASSUME NEW d \in renewals', d.answer = "renewed"
               PROVE  /\ d.token \in valid' /\ d.token \notin revoking
                      /\ d.token # stored.refreshToken
                      /\ \A u \in Tabs : d.token # live[u].refreshToken
                                         /\ d.token # timer[u].refreshToken
                      /\ \A b \in renewals' :
                           /\ d.token # b.of.refreshToken
                           /\ b.answer = "renewed" /\ b.token = d.token => b = d
    BY <1>e DEF Spare
  <2>1. CASE d = x
    <3>1. n \notin revoking /\ n \in valid'
      BY <1>e, <1>n, TokenFacts
    <3>2. n # stored.refreshToken
          /\ \A u \in Tabs : n # live[u].refreshToken /\ n # timer[u].refreshToken
      BY <1>t, <1>g
    <3>3. \A b \in renewals' : n # b.of.refreshToken
      BY <1>o, <1>x, <1>t, <1>g
    <3>4. \A b \in renewals' : b.answer = "renewed" /\ b.token = n => b = x
      <4>1. \A b \in renewals : b.answer = "renewed" => b.token # n
        BY <1>n, TokenFacts
      <4> QED
        BY <1>o, <4>1
    <3> QED
      BY <1>x, <2>1, <3>1, <3>2, <3>3, <3>4
  <2>2. CASE d # x
    <3>1. d \in renewals
      BY <1>o, <2>2
    <3>2. d.token \in valid' /\ d.token \notin revoking /\ d.token # stored.refreshToken
          /\ \A u \in Tabs : d.token # live[u].refreshToken /\ d.token # timer[u].refreshToken
      BY <1>e, <3>1, TokenFacts
    <3>3. d.token # n
      BY <1>n, <3>1, TokenFacts
    <3>4. \A b \in renewals : /\ d.token # b.of.refreshToken
                              /\ b.answer = "renewed" /\ b.token = d.token => b = d
      BY <3>1, TokenFacts
    <3> QED
      BY <1>o, <1>x, <3>2, <3>3, <3>4
  <2> QED
    BY <2>1, <2>2
<1>7. StoredKept'
  <2>1. CASE stored.refreshToken \in valid \cup {0} /\ stored.refreshToken # c.of.refreshToken
    BY <1>e, <2>1 DEF Inv, StoredKept
  <2>2. CASE stored.refreshToken = c.of.refreshToken
    BY <1>e, <1>r, <1>x, <2>2 DEF Inv, StoredKept
  <2>3. CASE \E d \in renewals : d.answer = "renewed" /\ d.of.refreshToken = stored.refreshToken
    <3>1. PICK d \in renewals : d.answer = "renewed" /\ d.of.refreshToken = stored.refreshToken
      BY <2>3
    <3>2. d \in renewals'
      BY <1>e, <1>r, <3>1
    <3> QED
      BY <1>e, <3>1, <3>2 DEF Inv, StoredKept
  <2> QED
    BY <2>1, <2>2, <2>3 DEF Inv, StoredKept
<1>8. Begun'
  <2>1. \A u \in Tabs : Renewing(u) = {} => Renewing(u)' = {}
    BY <1>o, <1>x DEF Renewing
  <2> QED
    BY <1>e, <2>1 DEF Inv, Begun
<1>9. Waiting'
  BY <1>e, <1>o, <1>x DEF Inv, Waiting
<1>10. OneRestore'
  BY <1>o, <1>x DEF Inv, OneRestore
<1> QED
  BY <1>1, <1>2, <1>3, <1>4, <1>5, <1>6, <1>7, <1>8, <1>9, <1>10 DEF Inv, TypeInv

\* A token is revoked: it is neither stored nor on its way.
LEMMA RevokeKeeps ==
  ASSUME Inv, NEW n, Revoke(n)
  PROVE  Inv'
<1>e. /\ n \in revoking /\ revoking' = revoking \ {n}
      /\ valid' \in {valid, valid \ {n}}
      /\ UNCHANGED <<issued, expired, stored, live, booting, timer, over, renewals, page, fresh,
                     loads>>
  BY DEF Revoke
<1>1. TokensOK' /\ TabsOK' /\ RenewalsOK'
  BY <1>e DEF Inv, TypeInv, TokensOK, TabsOK, RenewalsOK
<1>2. PagesFine' /\ Issued'
  BY <1>e DEF Inv, TypeInv, PagesFine, LinkResolved, Issued
<1>3. Spare'
  BY <1>e, TokenFacts DEF Spare
<1>4. StoredKept'
  BY <1>e, TokenFacts DEF Inv, StoredKept
<1>5. Begun'
  BY <1>e DEF Inv, Begun, Renewing
<1>6. Waiting' /\ OneRestore'
  BY <1>e DEF Inv, Waiting, OneRestore
<1> QED
  BY <1>1, <1>2, <1>3, <1>4, <1>5, <1>6 DEF Inv, TypeInv

\* A renewal succeeds: its tokens are stored and are the tab's.
LEMMA SucceedsKeeps ==
  ASSUME Inv, NEW c \in renewals, RenewalSucceeds(c)
  PROVE  Inv' /\ c \in Renewing(c.tab)
              /\ \A u \in Tabs : u # c.tab => live'[u] = live[u]
<1> DEFINE t == c.tab
           s == Renewed(c)
           n == c.token
<1>e. /\ t # NoTab /\ c.answer = "renewed"
      /\ stored' = s
      /\ live' = [live EXCEPT ![t] = s]
      /\ timer' = Scheduled(t, s)
      /\ booting' = [booting EXCEPT ![t] = IF c.by = "restore" THEN "done" ELSE @]
      /\ renewals' = renewals \ {c}
      /\ UNCHANGED <<issued, valid, expired, over, revoking, page, fresh, loads>>
  BY DEF RenewalSucceeds
<1>n. n \in 1..issued /\ n \in 1..MaxWork /\ n \in valid /\ n \notin revoking /\ n # 0
  BY <1>e, TokenFacts
<1>t. t \in Tabs /\ c \in Renewing(t)
  BY <1>e, TokenFacts, RenewalTypes DEF Renewing
<1>s. s \in AuthSession /\ s # NoSession /\ s.refreshToken = n
  <2>1. c.of \in AuthSession
    BY TokenFacts
  <2>2. \A a \in AuthSession, k \in 1..MaxWork :
          LET b == [a EXCEPT !.token = k, !.refreshToken = k]
          IN  b \in AuthSession /\ b.refreshToken = k
    <3> SUFFICES ASSUME NEW a \in AuthSession, NEW k \in 1..MaxWork
                 PROVE  LET b == [a EXCEPT !.token = k, !.refreshToken = k]
                        IN  b \in AuthSession /\ b.refreshToken = k
      OBVIOUS
    <3>1. k \in 0..MaxWork
      BY SessionFacts
    <3>2. DOMAIN a = {"kind", "token", "refreshToken"} /\ a.kind \in {Signed, Guest}
      BY DEF AuthSession
    <3> DEFINE b == [a EXCEPT !.token = k, !.refreshToken = k]
    <3>3. /\ b = [x \in {"kind", "token", "refreshToken"} |-> b[x]]
          /\ b.kind = a.kind /\ b.token = k /\ b.refreshToken = k
      BY <3>2
    <3> HIDE DEF b
    <3>4. b \in AuthSession /\ b.refreshToken = k
      BY <3>1, <3>2, <3>3 DEF AuthSession
    <3> QED
      BY <3>4 DEF b
  <2>3. Renewed(c) \in AuthSession /\ Renewed(c).refreshToken = n
    BY <1>n, <2>1, <2>2 DEF Renewed
  <2> QED
    BY <2>3, SessionFacts
<1>i. n <= issued
  BY <1>n, TokenFacts
<1> HIDE DEF n, s
<1>l. /\ live'[t] = s /\ \A u \in Tabs \ {t} : live'[u] = live[u]
      /\ timer'[t].refreshToken = n /\ \A u \in Tabs \ {t} : timer'[u] = timer[u]
      /\ timer' \in [Tabs -> AuthSession \cup {NoSession}]
  BY <1>e, <1>s, <1>t, ScheduledFacts DEF Inv, TypeInv, TabsOK
<1>b. /\ booting' \in [Tabs -> {"mount", "restoring", "done"}]
      /\ booting'[t] # "mount" /\ \A u \in Tabs \ {t} : booting'[u] = booting[u]
  <2>1. booting[t] # "mount"
    BY <1>t DEF Inv, Begun
  <2> QED
    BY <1>e, <1>t, <2>1 DEF Inv, TypeInv, TabsOK
<1> HIDE DEF t
<1>1. TokensOK'
  BY <1>e DEF Inv, TypeInv, TokensOK
<1>2. TabsOK' /\ RenewalsOK'
  BY <1>e, <1>s, <1>l, <1>b DEF Inv, TypeInv, TabsOK, RenewalsOK
<1>3. PagesFine'
  BY <1>e DEF Inv, TypeInv, PagesFine, LinkResolved
<1>4. Issued'
  <2>1. \A u \in Tabs : live'[u].refreshToken <= issued /\ timer'[u].refreshToken <= issued
    BY <1>l, <1>s, <1>i DEF Inv, TypeInv, Issued
  <2> QED
    BY <1>e, <1>s, <1>i, <2>1 DEF Inv, TypeInv, Issued
<1>5. Spare'
  <2>1. \A u \in Tabs : /\ live'[u].refreshToken \in {live[u].refreshToken, n}
                        /\ timer'[u].refreshToken \in {timer[u].refreshToken, n}
    BY <1>l, <1>s
  <2>2. \A d \in renewals' : d.answer = "renewed" => d.token # n
    BY <1>e, TokenFacts DEF n
  <2> QED
    BY <1>e, <1>s, <2>1, <2>2, TokenFacts DEF Spare
<1>6. StoredKept'
  BY <1>e, <1>n, <1>s DEF StoredKept
<1>7. Begun'
  BY <1>e, <1>l, <1>b, <1>s DEF Inv, Begun, Renewing
<1>8. Waiting' /\ OneRestore'
  <2>1. \A d \in renewals : d.tab # NoTab => d.tab \in Tabs
    BY TokenFacts, RenewalTypes
  <2>2. Waiting'
    BY <1>e, <1>l, <1>b, <1>s, <2>1 DEF Inv, Waiting
  <2>3. OneRestore'
    BY <1>e DEF Inv, OneRestore
  <2> QED
    BY <2>2, <2>3
<1>9. Inv'
  BY <1>1, <1>2, <1>3, <1>4, <1>5, <1>6, <1>7, <1>8 DEF Inv, TypeInv
<1> QED
  BY <1>9, <1>t, <1>l DEF t

-----------------------------------------------------------------------------
(* Every step is one of these.                                             *)

\* What a guest whose tab is taken to another page can know of it.
Told(t) ==
    \/ live[t].kind # Guest \/ over[t]
    \/ loads' = loads + 1 \/ Renewing(t) # {}

TabStep(t) ==
    \/ \E x : Asks(t, x)
    \/ Resumes(t)
    \/ \E some : GivesUp(t, some)
    \/ Leaves(t) /\ Told(t)
    \/ PagesFine' /\ \E s : SignsWith(t, s)
    \/ Logout(t)

OneStep ==
    \/ TimePasses
    \/ Turned /\ PagesFine'
    \/ \E t \in Tabs : TabStep(t)
    \/ \E c \in renewals : RefreshFinds(c) \/ RefreshRotates(c) \/ RenewalSucceeds(c)
    \/ \E n \in 1..issued : Revoke(n)

\* Each step is one of the kinds above.
LEMMA StepEffect ==
  ASSUME Inv, SessionNext
  PROVE  OneStep
<1>i. TypeInv /\ Begun /\ SessionTypeOK /\ LinkResolved
  BY TypeParts DEF Inv
<1>k. Signed # Guest
  BY DEF Signed, Guest
<1>1. ASSUME NEW t \in Tabs, Restore(t) PROVE TabStep(t)
  BY <1>i, <1>1, RestoreEffect DEF TabStep
<1>2. ASSUME NEW t \in Tabs, RefreshTimerFires(t) PROVE TabStep(t)
  BY <1>i, <1>2, TimerEffect DEF TabStep
<1>3. ASSUME NEW t \in Tabs, HandleUnauthorized(t) PROVE TimePasses \/ TabStep(t)
  BY <1>i, <1>k, <1>3, UnauthorizedEffect DEF TabStep, Told
<1>4. ASSUME NEW t \in Tabs, GuestExpires(t) PROVE TimePasses
  BY <1>i, <1>4 DEF GuestExpires, TimePasses, TypeInv, TokensOK, TabsOK
<1>5. ASSUME NEW t \in Tabs, AcknowledgeSessionExpired(t) PROVE TabStep(t)
  <2>1. Leaves(t)
    BY <1>i, <1>5, KickedLeaves DEF AcknowledgeSessionExpired
  <2> QED
    BY <1>5, <2>1 DEF AcknowledgeSessionExpired, SessionExpiredDialog, TabStep, Told
<1>6. ASSUME NEW t \in Tabs, PageActs(t) PROVE (Turned /\ PagesFine') \/ TabStep(t)
  BY <1>i, <1>6, PageEffect DEF TabStep
<1>7. ASSUME NEW t \in Tabs, NEW r \in Routes, OpenPage(t, r) PROVE TabStep(t)
  BY <1>i, <1>7, OpenLeaves DEF OpenPage, TabStep, Told
<1>8. ASSUME NEW c \in renewals, RenewalFails(c) PROVE \E t \in Tabs : TabStep(t)
  <2>1. c.tab \in Tabs /\ (Leaves(c.tab) \/ GivesUp(c.tab, {c}))
    BY <1>i, <1>8, FailsEffect
  <2>2. Told(c.tab)
    BY DEF Told, Renewing
  <2> QED
    BY <2>1, <2>2 DEF TabStep
<1>9. ASSUME NEW n \in 1..issued, TokenExpires(n) PROVE TimePasses
  BY <1>i, <1>9 DEF TokenExpires, TimePasses, TypeInv, TokensOK, TabsOK
<1>10. CASE \E t \in Tabs :
              \/ Restore(t) \/ RefreshTimerFires(t) \/ HandleUnauthorized(t)
              \/ Logout(t) \/ GuestExpires(t) \/ AcknowledgeSessionExpired(t)
              \/ PageActs(t) \/ \E r \in Routes : OpenPage(t, r)
  <2>1. PICK t \in Tabs :
              \/ Restore(t) \/ RefreshTimerFires(t) \/ HandleUnauthorized(t)
              \/ Logout(t) \/ GuestExpires(t) \/ AcknowledgeSessionExpired(t)
              \/ PageActs(t) \/ \E r \in Routes : OpenPage(t, r)
    BY <1>10
  <2>2. TimePasses \/ (Turned /\ PagesFine') \/ TabStep(t)
    <3>1. CASE Logout(t)
      BY <3>1 DEF TabStep
    <3> QED
      BY <2>1, <3>1, <1>1, <1>2, <1>3, <1>4, <1>5, <1>6, <1>7
  <2> QED
    BY <2>2 DEF OneStep
<1>11. CASE \E c \in renewals : RefreshFinds(c) \/ RefreshRotates(c)
                                \/ RenewalSucceeds(c) \/ RenewalFails(c)
  BY <1>8, <1>11 DEF OneStep
<1>12. CASE \E n \in 1..issued : TokenExpires(n) \/ Revoke(n)
  BY <1>9, <1>12 DEF OneStep
<1> QED
  BY <1>10, <1>11, <1>12 DEF SessionNext, PageActs

\* The invariant holds at first,
LEMMA InvInit == SessionInit => Inv
<1> SUFFICES ASSUME SessionInit PROVE Inv
  OBVIOUS
<1>1. TokensOK /\ TabsOK /\ RenewalsOK
  BY SessionFacts DEF SessionInit, TokensOK, TabsOK, RenewalsOK
<1>2. page \in [Tabs -> Pages] /\ \A t \in Tabs : page[t] = Starting("home")
  BY PageTypes DEF SessionInit, Routes
<1>3. PagesFine
  BY <1>2 DEF PagesFine, LinkResolved, Starting
<1>4. Issued
  BY SessionFacts DEF SessionInit, Issued
<1>5. Spare /\ StoredKept /\ Begun /\ Waiting /\ OneRestore
  BY SessionFacts DEF SessionInit, Spare, StoredKept, Begun, Renewing, Waiting, OneRestore
<1> QED
  BY <1>1, <1>3, <1>4, <1>5 DEF Inv, TypeInv

\* every step keeps it,
LEMMA InvStep == Inv /\ [SessionNext]_sessionVars => Inv'
<1> SUFFICES ASSUME Inv, [SessionNext]_sessionVars PROVE Inv'
  OBVIOUS
<1>1. CASE SessionNext
  <2>1. OneStep
    BY <1>1, StepEffect
  <2>2. ASSUME NEW t \in Tabs, TabStep(t) PROVE Inv'
    BY <2>2, AsksKeeps, ResumesKeeps, GivesUpKeeps, LeavesKeeps, SignsKeeps, LogoutKeeps
       DEF TabStep
  <2>3. ASSUME NEW c \in renewals, RefreshFinds(c) \/ RefreshRotates(c) \/ RenewalSucceeds(c)
        PROVE  Inv'
    BY <2>3, FindsKeeps, RotatesKeeps, SucceedsKeeps
  <2> QED
    BY <2>1, <2>2, <2>3, TimeKeeps, TurnedKeeps, RevokeKeeps DEF OneStep
<1>2. CASE UNCHANGED sessionVars
  <2>1. TokensOK' /\ TabsOK' /\ RenewalsOK' /\ Issued'
    BY <1>2 DEF sessionVars, Inv, TypeInv, TokensOK, TabsOK, RenewalsOK, Issued
  <2>2. PagesFine'
    BY <1>2 DEF sessionVars, Inv, TypeInv, PagesFine, LinkResolved
  <2> QED
    BY <1>2, <2>1, <2>2, SameKept DEF sessionVars, TypeInv
<1> QED
  BY <1>1, <1>2

\* and so it always holds.
LEMMA InvCorrect == SessionSpec => []Inv
BY InvInit, InvStep, PTL DEF SessionSpec

-----------------------------------------------------------------------------
(* The theorems.                                                           *)

\* Whatever the tabs do, the variables have their types.
THEOREM SessionTypeCorrect == SessionSpec => []SessionTypeOK
<1>1. Inv => SessionTypeOK
  BY TypeParts DEF Inv
<1> QED
  BY <1>1, InvCorrect, PTL

\* What a reload would restore can be renewed, or a renewal that used its token
\* is not at its end (auth.tsx stores every answer of /refresh).
THEOREM RenewCorrect == SessionSpec => []StoredCanRenew
<1>1. Inv => StoredCanRenew
  BY DEF Inv, StoredKept, StoredCanRenew
<1> QED
  BY <1>1, InvCorrect, PTL

\* What changes the session of a tab.
LEMMA LiveStep ==
  ASSUME Inv, [SessionNext]_sessionVars, NEW t \in Tabs, live'[t] # live[t]
  PROVE  \/ Resumes(t)
         \/ Told(t) /\ live'[t] = NoSession
         \/ SigningIn(t)
         \/ \E c \in Renewing(t) : RenewalSucceeds(c)
<1>l. live \in [Tabs -> AuthSession \cup {NoSession}]
  BY DEF Inv, TypeInv, TabsOK
<1>1. OneStep
  BY StepEffect DEF sessionVars
<1>2. ASSUME NEW u \in Tabs, TabStep(u)
      PROVE  Resumes(t) \/ (Told(t) /\ live'[t] = NoSession) \/ SigningIn(t)
  <2>1. CASE (\E x : Asks(u, x)) \/ (\E some : GivesUp(u, some))
    BY <2>1 DEF Asks, GivesUp
  <2>2. CASE Resumes(u)
    <3>1. u = t
      BY <1>l, <2>2 DEF Resumes
    <3> QED
      BY <2>2, <3>1
  <2>3. CASE Leaves(u) /\ Told(u)
    <3>1. live' = [live EXCEPT ![u] = NoSession]
      BY <2>3 DEF Leaves, LoadsPage
    <3> QED
      BY <1>l, <2>3, <3>1
  <2>4. CASE \E s : SignsWith(u, s)
    <3>1. SigningIn(u) /\ \E s : live' = [live EXCEPT ![u] = s]
      BY <2>4 DEF SignsWith
    <3> QED
      BY <1>l, <3>1
  <2>5. CASE Logout(u)
    <3>1. live' = [live EXCEPT ![u] = NoSession] /\ Told(u)
      BY <2>5 DEF Logout, Told
    <3> QED
      BY <1>l, <3>1
  <2> QED
    BY <1>2, <2>1, <2>2, <2>3, <2>4, <2>5 DEF TabStep
<1>3. ASSUME NEW c \in renewals, RefreshFinds(c) \/ RefreshRotates(c) \/ RenewalSucceeds(c)
      PROVE  \E d \in Renewing(t) : RenewalSucceeds(d)
  <2>1. RenewalSucceeds(c)
    BY <1>3 DEF RefreshFinds, RefreshRotates
  <2>2. c.tab = t /\ c \in Renewing(t)
    BY <2>1, SucceedsKeeps
  <2> QED
    BY <2>1, <2>2
<1> QED
  BY <1>1, <1>2, <1>3 DEF OneStep, TimePasses, Turned, Revoke

\* A tab that has signed out gets a session back only at its start, from a page
\* that signs the user in, or from a renewal logout did not stop.
THEOREM SignOutCorrect == SessionSpec => SignOutSticks
<1>1. ASSUME Inv, [SessionNext]_sessionVars, NEW t \in Tabs,
             live[t] = NoSession, live'[t] # NoSession
      PROVE  booting[t] # "done" \/ SigningIn(t) \/ \E c \in Renewing(t) : c.late
  <2>1. CASE Resumes(t)
    BY <2>1 DEF Resumes
  <2>2. CASE \E c \in Renewing(t) : RenewalSucceeds(c)
    <3>1. PICK c \in Renewing(t) : RenewalSucceeds(c)
      BY <2>2
    <3>2. c \in renewals /\ c.tab = t /\ t # NoTab
      BY <3>1, TabsAssumption DEF Renewing
    <3> QED
      BY <1>1, <3>1, <3>2 DEF Inv, Waiting
  <2> QED
    BY <1>1, <2>1, <2>2, LiveStep
<1>2. ASSUME Inv, [SessionNext]_sessionVars
      PROVE  [\A t \in Tabs : live[t] = NoSession /\ live'[t] # NoSession =>
                \/ booting[t] # "done"
                \/ SigningIn(t)
                \/ \E c \in Renewing(t) : c.late]_sessionVars
  BY <1>1, <1>2
<1> QED
  BY <1>2, InvCorrect, PTL DEF SessionSpec, SignOutSticks

\* A guest's session ends with the modal, a click, a new page, another sign-in or
\* a renewal of the tab's former session: handleUnauthorized never bounces it.
THEOREM GuestCorrect == SessionSpec => GuestIsTold
<1>1. ASSUME Inv, [SessionNext]_sessionVars, NEW t \in Tabs,
             live[t].kind = Guest, live'[t] # live[t]
      PROVE  over[t] \/ (loads' = loads + 1 \/ SigningIn(t)) \/ Renewing(t) # {}
  <2>1. ~Resumes(t)
    BY <1>1 DEF Resumes, Inv, Begun, NoSession, Guest
  <2> QED
    BY <1>1, <2>1, LiveStep DEF Told
<1>2. ASSUME Inv, [SessionNext]_sessionVars
      PROVE  [\A t \in Tabs : live[t].kind = Guest /\ live'[t] # live[t] =>
                \/ over[t]
                \/ loads' = loads + 1 \/ SigningIn(t)
                \/ Renewing(t) # {}]_sessionVars
  BY <1>1, <1>2
<1> QED
  BY <1>2, InvCorrect, PTL DEF SessionSpec, GuestIsTold
=============================================================================
