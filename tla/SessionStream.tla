--------------------------- MODULE SessionStream ---------------------------
(***************************************************************************)
(* What a resumable chat session promises its client, without connections, *)
(* buffers or retries: the events sent in the session are delivered in     *)
(* the order of sending, each one once.  A client may leave its session at *)
(* any time for none, and may join a fresh one, some of whose events have  *)
(* already been sent.                                                      *)
(***************************************************************************)
EXTENDS Naturals, Sequences

CONSTANT Event

VARIABLES sent,        \* the events sent in the client's session
          delivered    \* those the application has received

svars == <<sent, delivered>>

Init == sent = <<>> /\ delivered = <<>>

Send == /\ \E e \in Event : sent' = Append(sent, e)
        /\ UNCHANGED delivered

Deliver == /\ Len(delivered) < Len(sent)
           /\ delivered' = Append(delivered, sent[Len(delivered) + 1])
           /\ UNCHANGED sent

Leave == sent' = <<>> /\ delivered' = <<>>

Join == /\ sent = <<>> /\ delivered = <<>>
        /\ sent' \in Seq(Event)
        /\ UNCHANGED delivered

Next == Send \/ Deliver \/ Leave \/ Join

Spec == Init /\ [][Next]_svars
=============================================================================
