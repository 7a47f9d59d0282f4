----------------------------- MODULE MailOutbox -----------------------------
(***************************************************************************)
(* The mail outbox of the general service: mails are enqueued in the       *)
(* transaction of the business change that asks for them, and workers      *)
(* claim them in batches, render them, hand them to the mail provider and  *)
(* write down what became of them (services/general/src/mailer/outbox.rs,  *)
(* worker.rs; the table mail_outbox in migrations/001_init.sql).           *)
(*                                                                         *)
(* Every process of the service runs one worker.  Each statement on the    *)
(* table is a step; what a worker knows of its batch it knows from the     *)
(* statement that claimed it.                                              *)
(***************************************************************************)
EXTENDS Naturals, Sequences

CONSTANTS
    Mail,
    Worker,
    Batch,         \* BATCH_SIZE
    LastAttempt,   \* the attempt after which mark_failed gives up: 6
    Bad            \* mails that do not render

ASSUME BatchAssumption == Batch \in Nat \ {0}
ASSUME LastAttemptAssumption == LastAttempt \in Nat \ {0}
ASSUME BadAssumption == Bad \subseteq Mail

VARIABLES
    status,        \* mail_outbox.status, "absent" before the insert
    attempts,      \* mail_outbox.attempts
    due,           \* mails with scheduled_at <= now()
    batch,         \* the claimed rows a worker has still to process
    pc,            \* "idle", "process", or what the provider said of the
                   \* head of the batch: "accepted", "refused"
    accepted,      \* history: how often a worker was told that the provider
                   \* took a mail
    lost           \* history: mails in a batch that was lost

history == <<accepted, lost>>
vars == <<status, attempts, due, batch, pc, history>>

Row == [mail : Mail, attempts : Nat]

InBatch(w, m) == \E i \in 1..Len(batch[w]) : batch[w][i].mail = m

Init ==
    /\ status = [m \in Mail |-> "absent"]
    /\ attempts = [m \in Mail |-> 0]
    /\ due = {}
    /\ batch = [w \in Worker |-> <<>>]
    /\ pc = [w \in Worker |-> "idle"]
    /\ accepted = [m \in Mail |-> 0] /\ lost = {}

-----------------------------------------------------------------------------
\* enqueue_tx, and the commit of the transaction it is part of.
Enqueue(m) ==
    /\ status[m] = "absent"
    /\ status' = [status EXCEPT ![m] = "pending"]
    /\ due' = due \cup {m}
    /\ UNCHANGED <<attempts, batch, pc, history>>

\* The time of a retry comes.
FallDue(m) ==
    /\ status[m] = "pending" /\ m \notin due
    /\ due' = due \cup {m}
    /\ UNCHANGED <<status, attempts, batch, pc, history>>

Claimable == {m \in due : status[m] = "pending"}

\* s lists mails without repetition.
Listing(s) == \A i, j \in 1..Len(s) : s[i] = s[j] => i = j

\* Faulty variant of Claim: the rows are read, and not marked.
ClaimUnmarked(w) ==
    /\ pc[w] = "idle"
    /\ \E n \in 1..Batch : \E s \in [1..n -> Claimable] :
         /\ Listing(s)
         /\ attempts' = [m \in Mail |-> IF \E i \in 1..n : s[i] = m
                                          THEN attempts[m] + 1 ELSE attempts[m]]
         /\ batch' = [batch EXCEPT ![w] =
                        [i \in 1..n |-> [mail |-> s[i], attempts |-> attempts[s[i]] + 1]]]
    /\ pc' = [pc EXCEPT ![w] = "process"]
    /\ UNCHANGED <<status, due, history>>

\* claim_batch: pending rows that are due, in whatever order they come back;
\* SKIP LOCKED may pass over rows that another statement holds.
Claim(w) ==
    /\ pc[w] = "idle"
    /\ \E n \in 1..Batch : \E s \in [1..n -> Claimable] :
         /\ Listing(s)
         /\ status' = [m \in Mail |-> IF \E i \in 1..n : s[i] = m
                                        THEN "sending" ELSE status[m]]
         /\ attempts' = [m \in Mail |-> IF \E i \in 1..n : s[i] = m
                                          THEN attempts[m] + 1 ELSE attempts[m]]
         /\ batch' = [batch EXCEPT ![w] =
                        [i \in 1..n |-> [mail |-> s[i], attempts |-> attempts[s[i]] + 1]]]
    /\ pc' = [pc EXCEPT ![w] = "process"]
    /\ UNCHANGED <<due, history>>

\* process_row: the provider takes the mail and says so ...
Accept(w) ==
    /\ pc[w] = "process" /\ Head(batch[w]).mail \notin Bad
    /\ pc' = [pc EXCEPT ![w] = "accepted"]
    /\ accepted' = [accepted EXCEPT ![Head(batch[w]).mail] = @ + 1]
    /\ UNCHANGED <<status, attempts, due, batch, lost>>

\* ... or refuses it, or is not heard.
Refuse(w) ==
    /\ pc[w] = "process" /\ Head(batch[w]).mail \notin Bad
    /\ pc' = [pc EXCEPT ![w] = "refused"]
    /\ UNCHANGED <<status, attempts, due, batch, history>>

\* On to the next row, or back to the poll.
NextRow(w) ==
    /\ batch' = [batch EXCEPT ![w] = Tail(@)]
    /\ pc' = [pc EXCEPT ![w] = IF Tail(batch[w]) = <<>> THEN "idle" ELSE "process"]

MarkSent(w) ==
    /\ pc[w] = "accepted"
    /\ status' = [status EXCEPT ![Head(batch[w]).mail] = "sent"]
    /\ NextRow(w)
    /\ UNCHANGED <<attempts, due, history>>

\* A mail that does not render fails at once (mark_failed with 99 attempts).
MarkUnrenderable(w) ==
    /\ pc[w] = "process" /\ Head(batch[w]).mail \in Bad
    /\ status' = [status EXCEPT ![Head(batch[w]).mail] = "failed"]
    /\ NextRow(w)
    /\ UNCHANGED <<attempts, due, history>>

\* Faulty variant of MarkFailed: only the time of the retry is set.
MarkFailedKeepsStatus(w) ==
    /\ pc[w] = "refused"
    /\ due' = due \ {Head(batch[w]).mail}
    /\ NextRow(w)
    /\ UNCHANGED <<status, attempts, history>>

\* mark_failed: pending again after a while, or failed for good.
MarkFailed(w) ==
    /\ pc[w] = "refused"
    /\ LET row == Head(batch[w])
       IN  IF row.attempts < LastAttempt
             THEN /\ status' = [status EXCEPT ![row.mail] = "pending"]
                  /\ due' = due \ {row.mail}
             ELSE /\ status' = [status EXCEPT ![row.mail] = "failed"]
                  /\ due' = due
    /\ NextRow(w)
    /\ UNCHANGED <<attempts, history>>

\* Faulty variant of Lose: the rows of the batch go back into the queue.
LoseReleases(w) ==
    /\ pc[w] # "idle"
    /\ status' = [m \in Mail |-> IF InBatch(w, m) THEN "pending" ELSE status[m]]
    /\ batch' = [batch EXCEPT ![w] = <<>>]
    /\ pc' = [pc EXCEPT ![w] = "idle"]
    /\ lost' = lost \cup {m \in Mail : InBatch(w, m)}
    /\ UNCHANGED <<attempts, due, accepted>>

\* The worker's process ends, or a statement fails and tick returns with the
\* rest of its batch unprocessed (the ? of worker.rs:35).
Lose(w) ==
    /\ pc[w] # "idle"
    /\ batch' = [batch EXCEPT ![w] = <<>>]
    /\ pc' = [pc EXCEPT ![w] = "idle"]
    /\ lost' = lost \cup {m \in Mail : InBatch(w, m)}
    /\ UNCHANGED <<status, attempts, due, accepted>>

Work(w) ==
    \/ Claim(w) \/ Accept(w) \/ Refuse(w)
    \/ MarkSent(w) \/ MarkUnrenderable(w) \/ MarkFailed(w)

Next ==
    \/ \E m \in Mail : Enqueue(m) \/ FallDue(m)
    \/ \E w \in Worker : Work(w) \/ Lose(w)

Spec == Init /\ [][Next]_vars

\* Time passes and the workers run.  Whether the provider takes a mail is left
\* open.
Fairness ==
    /\ \A m \in Mail : WF_vars(FallDue(m))
    /\ \A w \in Worker : WF_vars(Work(w))

FairSpec == Spec /\ Fairness

-----------------------------------------------------------------------------
(* Properties.                                                             *)

\* The types; no mail is attempted more often than the schedule of mark_failed
\* says ("give up at attempt 6").
TypeOK ==
    /\ status \in [Mail -> {"absent", "pending", "sending", "sent", "failed"}]
    /\ attempts \in [Mail -> 0..LastAttempt]
    /\ due \in SUBSET Mail
    /\ batch \in [Worker -> Seq(Row)]
    /\ pc \in [Worker -> {"idle", "process", "accepted", "refused"}]
    /\ accepted \in [Mail -> Nat]
    /\ lost \in SUBSET Mail

\* No mail is in the hands of two workers, nor twice in those of one (outbox.rs
\* claim_batch, "so no other worker picks them up").
OneClaimant ==
    \A v, w \in Worker : \A i \in 1..Len(batch[v]), j \in 1..Len(batch[w]) :
      batch[v][i].mail = batch[w][j].mail => v = w /\ i = j

\* A mail that a worker was told is on its way is not sent again, whatever dies
\* or fails between the provider's answer and mark_sent.
NoKnownDuplicate == \A m \in Mail : accepted[m] <= 1

\* Every mail comes to be sent or is given up, unless it is in a batch that is
\* lost: no refusal, no order of claims and no other mail's failure keeps it
\* waiting (worker.rs run, outbox.rs mark_failed).
MailsSettleUnlessLost ==
    \A m \in Mail :
      (status[m] = "pending") ~> (status[m] \in {"sent", "failed"} \/ m \in lost)
=============================================================================
