------------------------ MODULE SfuNegotiationProofs ------------------------
(***************************************************************************)
(* Proofs about the negotiation between the SFU and its clients            *)
(* (SfuNegotiation), for any clients, participant ids and capacities.      *)
(*                                                                         *)
(* The invariant has two halves.  RoomInv is about the shard's records     *)
(* alone: tracks_out, forwarding_map, pending_negotiation, pending_offer.  *)
(* ClientInv is about one client at a time, as long as nothing went wrong  *)
(* for it: View(c) puts together its end, its wires and its place at the   *)
(* shard, and Fits says what they have to do with each other.  The steps   *)
(* that keep Fits are lemmas about two views, without the variables.       *)
(***************************************************************************)
EXTENDS SfuNegotiation, SequenceTheorems, FiniteSetTheorems, TLAPS

-----------------------------------------------------------------------------
(* Counting in a queue.                                                    *)

\* One of kind op is in s.
Waits(s, op) == \E i \in 1..Len(s) : s[i].op = op

\* What Append and Tail leave where it was.
LEMMA Appended ==
  ASSUME NEW S, NEW s \in Seq(S), NEW e \in S
  PROVE  /\ Append(s, e) \in Seq(S)
         /\ Len(Append(s, e)) = Len(s) + 1
         /\ \A i \in 1..Len(s) : Append(s, e)[i] = s[i]
         /\ Append(s, e)[Len(s) + 1] = e
         /\ Append(s, e) = s \o <<e>>
         /\ \A i \in 1..Len(Append(s, e)) : i \in 1..Len(s) \/ i = Len(s) + 1
<1>1. Len(s) \in Nat
  BY LenProperties
<1> QED
  BY <1>1, AppendProperties, AppendIsConcat, SMT

LEMMA TailTaken ==
  ASSUME NEW S, NEW s \in Seq(S), s # <<>>
  PROVE  /\ Tail(s) \in Seq(S)
         /\ Len(s) \in Nat \ {0} /\ Len(Tail(s)) = Len(s) - 1
         /\ \A i \in 1..Len(Tail(s)) : i + 1 \in 1..Len(s) /\ Tail(s)[i] = s[i + 1]
         /\ Head(s) = s[1] /\ Head(s) \in S /\ 1 \in 1..Len(s)
         /\ \A i \in 1..Len(s) : i # 1 => i - 1 \in 1..Len(Tail(s)) /\ Tail(s)[i - 1] = s[i]
<1>1. Len(s) \in Nat \ {0}
  BY EmptySeq
<1>2. Tail(s) \in Seq(S) /\ Len(Tail(s)) = Len(s) - 1 /\ Head(s) \in S
  BY HeadTailProperties
<1>3. \A i \in 1..Len(Tail(s)) : Tail(s)[i] = s[i + 1]
  BY HeadTailProperties
<1>4. Head(s) = s[1]
  OBVIOUS
<1> QED
  BY <1>1, <1>2, <1>3, <1>4

\* The places counted are a finite set.
LEMMA CountFinite ==
  ASSUME NEW S, NEW s \in Seq(S), NEW op
  PROVE  /\ IsFiniteSet({i \in DOMAIN s : s[i].op = op})
         /\ Count(s, op) \in Nat
         /\ Count(s, op) = 0 <=> ~Waits(s, op)
<1>1. DOMAIN s = 1..Len(s) /\ Len(s) \in Nat
  BY LenProperties
<1>2. IsFiniteSet(1..Len(s))
  BY <1>1, FS_Interval
<1>3. IsFiniteSet({i \in DOMAIN s : s[i].op = op})
  BY <1>1, <1>2, FS_Subset
<1>4. Count(s, op) \in Nat
  BY <1>3, FS_CardinalityType DEF Count
<1>5. Count(s, op) = 0 <=> {i \in DOMAIN s : s[i].op = op} = {}
  BY <1>3, FS_EmptySet DEF Count
<1> QED
  BY <1>1, <1>3, <1>4, <1>5 DEF Waits

\* What is appended is counted ...
LEMMA CountAppend ==
  ASSUME NEW S, NEW s \in Seq(S), NEW e \in S, NEW op
  PROVE  Count(Append(s, e), op) = Count(s, op) + (IF e.op = op THEN 1 ELSE 0)
<1> DEFINE t == Append(s, e)
           I == {i \in DOMAIN s : s[i].op = op}
           J == {i \in DOMAIN t : t[i].op = op}
<1>1. /\ DOMAIN s = 1..Len(s) /\ Len(s) \in Nat
      /\ DOMAIN t = 1..(Len(s) + 1)
      /\ \A i \in 1..Len(s) : t[i] = s[i]
      /\ t[Len(s) + 1] = e
  <2>1. t \in Seq(S) /\ Len(t) = Len(s) + 1
    BY Appended
  <2>2. DOMAIN t = 1..Len(t)
    BY <2>1, LenProperties
  <2> QED
    BY <2>1, <2>2, Appended, LenProperties
<1>2. IsFiniteSet(I)
  BY CountFinite
<1>3. Len(s) + 1 \notin I
  BY <1>1
<1>c. Count(s, op) = Cardinality(I) /\ Count(t, op) = Cardinality(J)
  BY Zenon DEF Count
<1>n. Cardinality(I) \in Nat
  BY <1>2, FS_CardinalityType
<1>4. CASE e.op = op
  <2>1. J = I \cup {Len(s) + 1}
    BY <1>1, <1>4
  <2>2. Cardinality(J) = Cardinality(I) + 1
    BY <1>2, <1>3, <2>1, FS_AddElement
  <2> QED
    BY <1>4, <1>c, <2>2
<1>5. CASE e.op # op
  <2>1. J = I
    BY <1>1, <1>5
  <2> HIDE DEF I, J
  <2> QED
    BY <1>5, <1>c, <1>n, <2>1
<1> QED
  BY <1>4, <1>5

\* ... and what is taken is not.
LEMMA CountTail ==
  ASSUME NEW S, NEW s \in Seq(S), s # <<>>, NEW op
  PROVE  Count(s, op) = Count(Tail(s), op) + (IF Head(s).op = op THEN 1 ELSE 0)
<1> DEFINE t == Tail(s)
           I == {i \in DOMAIN s : s[i].op = op}
           J == {i \in DOMAIN t : t[i].op = op}
           f == [j \in J |-> j + 1]
<1>1. /\ DOMAIN s = 1..Len(s) /\ Len(s) \in Nat \ {0}
      /\ DOMAIN t = 1..(Len(s) - 1)
      /\ \A i \in 1..(Len(s) - 1) : t[i] = s[i + 1]
      /\ Head(s) = s[1]
  <2>1. t \in Seq(S) /\ Len(t) = Len(s) - 1
    BY TailTaken
  <2>2. DOMAIN t = 1..Len(t)
    BY <2>1, LenProperties
  <2> QED
    BY <2>1, <2>2, TailTaken, LenProperties
<1>2. IsFiniteSet(I) /\ IsFiniteSet(J)
  <2>1. t \in Seq(S)
    BY TailTaken
  <2> QED
    BY <2>1, CountFinite
<1>c. Count(s, op) = Cardinality(I) /\ Count(t, op) = Cardinality(J)
  BY Zenon DEF Count
<1>3. f \in Bijection(J, I \ {1})
  <2>1. f \in [J -> I \ {1}]
    BY <1>1
  <2>2. \A a, b \in J : f[a] = f[b] => a = b
    BY <1>1
  <2>3. \A i \in I \ {1} : \E j \in J : f[j] = i
    <3> SUFFICES ASSUME NEW i \in I \ {1} PROVE \E j \in J : f[j] = i
      OBVIOUS
    <3>1. i - 1 \in J /\ f[i - 1] = i
      BY <1>1
    <3> QED
      BY <3>1
  <2> QED
    BY <2>1, <2>2, <2>3 DEF Bijection, Injection, Surjection, IsInjective
<1>4. Cardinality(J) = Cardinality(I \ {1})
  BY <1>2, <1>3, FS_Bijection DEF ExistsBijection
<1>5. Cardinality(I \ {1}) = IF 1 \in I THEN Cardinality(I) - 1 ELSE Cardinality(I)
  BY <1>2, FS_RemoveElement
<1>6. Cardinality(I) \in Nat
  BY <1>2, FS_CardinalityType
<1>7. 1 \in I <=> Head(s).op = op
  BY <1>1
<1> HIDE DEF I, J
<1> QED
  BY <1>4, <1>5, <1>6, <1>7, <1>c

-----------------------------------------------------------------------------
(* Types.                                                                  *)

ToutState == {"none", "toopen", "negotiating", "open"}

RoomOK ==
    /\ member \in [Pid -> Client \cup {None}]
    /\ tin \in [Pid -> [Media -> {"none", "camera", "screen"}]]
    /\ tout \in [Pid -> [Track -> ToutState]]
    /\ lines \in [Pid -> SUBSET Track]
    /\ hints \in [Pid -> Nat]
    /\ neg \in SUBSET Pid
    /\ fwd \in SUBSET [track : Track, to : Pid]
OfferOK ==
    /\ pend \in [Pid -> [on : BOOLEAN, add : SUBSET Track, drop : SUBSET Track]]
    /\ queued \in [Pid -> Offer]
WireOK ==
    /\ toSfu \in [Client -> Seq(Command)]
    /\ drops \in 0..MaxDrops
SentOK ==
    /\ toClient \in [Client -> Seq(Message)]
    /\ \A c \in Client : Len(toClient[c]) <= WsCap
ClientOK ==
    /\ cst \in [Client -> {"idle", "joining", "in", "left"}]
    /\ sig \in [Client -> {"stable", "have-local-offer", "have-remote-offer"}]
    /\ offered \in [Client -> SUBSET Media]
    /\ share \in [Client -> {"no", "hinted", "offered", "stopped"}]
    /\ deaf \in [Client -> BOOLEAN]
    /\ views \in [Client -> SUBSET Track]
    /\ disturbed \in SUBSET Client

LEMMA TypeParts == TypeOK <=> RoomOK /\ OfferOK /\ WireOK /\ SentOK /\ ClientOK
BY Zenon DEF TypeOK, RoomOK, OfferOK, WireOK, SentOK, ClientOK, ToutState

LEMMA TypePartsPrime ==
    TypeOK' <=> RoomOK' /\ OfferOK' /\ WireOK' /\ SentOK' /\ ClientOK'
BY Zenon DEF TypeOK, RoomOK, OfferOK, WireOK, SentOK, ClientOK, ToutState

LEMMA PidOfClient == \A c \in Client : PidOf[c] \in Pid /\ c # None
BY PidOfAssumption, NoneAssumption

\* What is sent is a message, or a command.
LEMMA MessageTypes ==
    /\ \A m \in SUBSET Media : Answer(m) \in Message
    /\ \A ts \in SUBSET Track : SfuOffer(ts) \in Message
    /\ ForceDisconnected \in Message
    /\ NoClientOffer \in Offer
    /\ \A op \in {"join", "hint", "answer", "leave"} : Cmd(op) \in Command
    /\ \A c \in Client, m \in SUBSET Media, s \in SUBSET Track : OfferCmd(c, m, s) \in Command
    /\ NoOffer \in [on : BOOLEAN, add : SUBSET Track, drop : SUBSET Track]
    /\ \A x, y \in SUBSET Track :
         Outstanding(x, y) \in [on : BOOLEAN, add : SUBSET Track, drop : SUBSET Track]
BY DEF Answer, SfuOffer, ForceDisconnected, Message, NoClientOffer, Offer, Cmd, Command,
       OfferCmd, NoOffer, Outstanding

\* Messages go to whom they can, and no channel grows beyond its capacity.
LEMMA SentTypes ==
  ASSUME SentOK, NEW msgs \in [Client -> Seq(Message)], WsTrySend(msgs)
  PROVE  SentOK'
<1>1. \A c \in Client : toClient[c] \o msgs[c] \in Seq(Message)
  BY ConcatProperties DEF SentOK
<1>2. \A c \in Client : toClient'[c] = IF Hears(c) /\ Len(toClient[c] \o msgs[c]) <= WsCap
                                        THEN toClient[c] \o msgs[c] ELSE toClient[c]
  BY DEF WsTrySend
<1>3. \A c \in Client : toClient'[c] \in Seq(Message) /\ Len(toClient'[c]) <= WsCap
  BY <1>1, <1>2, Zenon DEF SentOK
<1>4. toClient' = [c \in Client |-> toClient'[c]]
  BY DEF WsTrySend
<1> QED
  BY <1>3, <1>4 DEF SentOK

LEMMA SendsTypes ==
  ASSUME toSfu \in [Client -> Seq(Command)], NEW c \in Client, NEW cmd \in Command,
         Sends(c, <<cmd>>)
  PROVE  /\ toSfu' \in [Client -> Seq(Command)]
         /\ toSfu' = [toSfu EXCEPT ![c] = Append(toSfu[c], cmd)]
<1>1. toSfu[c] \o <<cmd>> = Append(toSfu[c], cmd) /\ Append(toSfu[c], cmd) \in Seq(Command)
  BY Appended
<1>2. toSfu' = [toSfu EXCEPT ![c] = Append(toSfu[c], cmd)]
  BY <1>1, Zenon DEF Sends
<1> QED
  BY <1>1, <1>2

LEMMA TakesTypes ==
  ASSUME toSfu \in [Client -> Seq(Command)], NEW c \in Client, NEW op, Takes(c, op)
  PROVE  /\ toSfu' \in [Client -> Seq(Command)]
         /\ Head(toSfu[c]) \in Command /\ Head(toSfu[c]).offer \in Offer
<1>1. toSfu[c] # <<>> /\ toSfu' = [toSfu EXCEPT ![c] = Tail(toSfu[c])]
  BY DEF Takes
<1>2. Tail(toSfu[c]) \in Seq(Command) /\ Head(toSfu[c]) \in Command
  BY <1>1, TailTaken
<1> QED
  BY <1>1, <1>2 DEF Command

\* A message the client takes, and the reset of its queue.
LEMMA TakenTypes ==
  ASSUME SentOK, NEW c \in Client
  PROVE  /\ toClient[c] # <<>> /\ toClient' = [toClient EXCEPT ![c] = Tail(@)] => SentOK'
         /\ toClient' = [toClient EXCEPT ![c] = <<>>] => SentOK'
         /\ toClient[c] # <<>> => Head(toClient[c]) \in Message
<1>1. WsCap \in Nat \ {0}
  BY BoundAssumption
<1>2. toClient[c] # <<>> => /\ Tail(toClient[c]) \in Seq(Message)
                            /\ Len(Tail(toClient[c])) <= WsCap
                            /\ Head(toClient[c]) \in Message
  <2>1. Len(toClient[c]) \in Nat /\ Len(toClient[c]) <= WsCap
    BY LenProperties DEF SentOK
  <2> QED
    BY <1>1, <2>1, TailTaken DEF SentOK
<1>3. <<>> \in Seq(Message) /\ Len(<<>>) <= WsCap
  BY <1>1, EmptySeq
<1> QED
  BY <1>2, <1>3 DEF SentOK

\* A client's own steps keep the types.
LEMMA ClientTypes ==
  ASSUME TypeOK, NEW c \in Client, ClientStep(c)
  PROVE  TypeOK'
<1> USE DEF roomVars, offerVars, clientVars
<1>t. RoomOK /\ OfferOK /\ WireOK /\ SentOK /\ ClientOK
  BY TypeParts
<1>r. RoomOK' /\ OfferOK'
  <2>1. UNCHANGED <<roomVars, offerVars>>
    BY DEF ClientStep, ClientJoin, ShareHint, ShareOffer, ClientAnswered, ClientTakesOffer,
           ClientAnswers, ClientLeaves, ClientForced, Ends
  <2> QED
    BY <1>t, <2>1 DEF RoomOK, OfferOK
<1>d. drops' \in 0..MaxDrops
  BY <1>t DEF WireOK, ClientStep, ClientJoin, ShareHint, ShareOffer, ClientAnswered,
       ClientTakesOffer, ClientAnswers, ClientLeaves, ClientForced, Ends
<1>q. toSfu \in [Client -> Seq(Command)]
  BY <1>t DEF WireOK
<1>1. CASE ClientJoin(c)
  <2>1. WireOK'
    BY <1>1, <1>d, <1>q, SendsTypes, MessageTypes DEF ClientJoin, WireOK
  <2>2. SentOK' /\ ClientOK'
    BY <1>t, <1>1 DEF ClientJoin, SentOK, ClientOK, Media
  <2> QED
    BY <1>r, <2>1, <2>2, TypePartsPrime
<1>2. CASE ShareHint(c)
  <2>1. WireOK'
    BY <1>2, <1>d, <1>q, SendsTypes, MessageTypes DEF ShareHint, WireOK
  <2>2. SentOK' /\ ClientOK'
    BY <1>t, <1>2 DEF ShareHint, SentOK, ClientOK
  <2> QED
    BY <1>r, <2>1, <2>2, TypePartsPrime
<1>3. CASE ShareOffer(c)
  <2>a. SentOK' /\ UNCHANGED <<cst, deaf, views>>
        /\ share' = [share EXCEPT ![c] = IF share[c] = "hinted" THEN "offered" ELSE "stopped"]
    BY <1>t, <1>3 DEF ShareOffer, SentOK
  <2>1. CASE sig[c] = "have-remote-offer"
    <3>1. ClientOK' /\ WireOK'
      BY <1>t, <1>3, <2>a, <2>1, <1>d DEF ShareOffer, ClientOffers, ClientOK, WireOK
    <3> QED
      BY <1>r, <2>a, <3>1, TypePartsPrime
  <2>2. CASE sig[c] # "have-remote-offer"
    <3>1. OfferCmd(c, Media, views[c]) \in Command
      BY <1>t, MessageTypes DEF ClientOK
    <3>2. Sends(c, <<OfferCmd(c, Media, views[c])>>)
      BY <1>3, <2>2 DEF ShareOffer, ClientOffers
    <3>3. WireOK'
      BY <1>d, <1>q, <3>1, <3>2, SendsTypes DEF WireOK
    <3>4. ClientOK'
      BY <1>t, <1>3, <2>a, <2>2 DEF ShareOffer, ClientOffers, ClientOK
    <3> QED
      BY <1>r, <2>a, <3>3, <3>4, TypePartsPrime
  <2> QED
    BY <2>1, <2>2
<1>4. CASE ClientAnswered(c)
  <2>1. WireOK'
    BY <1>t, <1>4, <1>d DEF ClientAnswered, WireOK
  <2>2. SentOK'
    BY <1>t, <1>4, TakenTypes DEF ClientAnswered, Handles
  <2>3. ClientOK'
    BY <1>t, <1>4 DEF ClientAnswered, ClientOK
  <2> QED
    BY <1>r, <2>1, <2>2, <2>3, TypePartsPrime
<1>5. CASE ClientTakesOffer(c)
  <2>1. WireOK'
    BY <1>t, <1>5, <1>d DEF ClientTakesOffer, WireOK
  <2>2. SentOK'
    BY <1>t, <1>5, TakenTypes DEF ClientTakesOffer, Handles
  <2>3. Head(toClient[c]).tracks \in SUBSET Track
    BY <1>t, <1>5, TakenTypes DEF ClientTakesOffer, Handles, Message
  <2>4. ClientOK'
    BY <1>t, <1>5, <2>3 DEF ClientTakesOffer, ClientOK
  <2> QED
    BY <1>r, <2>1, <2>2, <2>4, TypePartsPrime
<1>6. CASE ClientAnswers(c)
  <2>1. WireOK'
    BY <1>6, <1>d, <1>q, SendsTypes, MessageTypes DEF ClientAnswers, WireOK
  <2>2. SentOK' /\ ClientOK'
    BY <1>t, <1>6 DEF ClientAnswers, SentOK, ClientOK
  <2> QED
    BY <1>r, <2>1, <2>2, TypePartsPrime
<1>7. CASE Ends(c)
  <2>1. WireOK'
    BY <1>7, <1>d, <1>q, SendsTypes, MessageTypes DEF Ends, WireOK
  <2>2. SentOK'
    BY <1>t, <1>7, TakenTypes DEF Ends
  <2>3. ClientOK'
    BY <1>t, <1>7 DEF Ends, ClientOK
  <2> QED
    BY <1>r, <2>1, <2>2, <2>3, TypePartsPrime
<1> QED
  BY <1>1, <1>2, <1>3, <1>4, <1>5, <1>6, <1>7 DEF ClientStep, ClientLeaves, ClientForced

\* What handle_leave says to whom.
LEMMA LeaveMessages ==
  ASSUME RoomOK, NEW p \in Pid
  PROVE  /\ DeactivationOffers(p) \in [Client -> Seq(Message)]
         /\ \A c \in Client : DeactivationOffers(p)[c] =
              IF member[PidOf[c]] = c /\ PidOf[c] \in Deactivating(p)
                THEN <<SfuOffer(lines[PidOf[c]] \ DeadLines(PidOf[c], p))>> ELSE <<>>
<1>1. \A c \in Client : SfuOffer(lines[PidOf[c]] \ DeadLines(PidOf[c], p)) \in Message
  BY MessageTypes, PidOfClient DEF RoomOK
<1>2. \A m \in Message : <<m>> \in Seq(Message)
  OBVIOUS
<1>3. <<>> \in Seq(Message)
  BY EmptySeq
<1>4. \A c \in Client : DeactivationOffers(p)[c] =
              IF member[PidOf[c]] = c /\ PidOf[c] \in Deactivating(p)
                THEN <<SfuOffer(lines[PidOf[c]] \ DeadLines(PidOf[c], p))>> ELSE <<>>
  BY Zenon DEF DeactivationOffers
<1>5. \A c \in Client : DeactivationOffers(p)[c] \in Seq(Message)
  BY <1>1, <1>2, <1>3, <1>4, Zenon
<1>6. DeactivationOffers(p) = [c \in Client |-> DeactivationOffers(p)[c]]
  BY <1>4, Zenon DEF DeactivationOffers
<1> QED
  BY <1>4, <1>5, <1>6, Zenon

\* What is left without p has the types of a room.
LEMMA WithoutTypes ==
  ASSUME RoomOK, OfferOK, NEW p \in Pid
  PROVE  /\ ToutWithout(p) \in [Pid -> [Track -> ToutState]]
         /\ PendWithout(p) \in [Pid -> [on : BOOLEAN, add : SUBSET Track, drop : SUBSET Track]]
         /\ FwdWithout(p) \in SUBSET [track : Track, to : Pid]
         /\ \A q \in Pid, t \in Track :
              ToutWithout(p)[q][t] = IF p \in {q, Origin(t)} THEN "none" ELSE tout[q][t]
         /\ \A q \in Pid : PendWithout(p)[q] =
              CASE q = p -> NoOffer
                [] q \in Deactivating(p) -> Outstanding({}, DeadLines(q, p))
                [] OTHER -> pend[q]
<1>1. ToutWithout(p) \in [Pid -> [Track -> ToutState]]
  BY DEF ToutWithout, RoomOK, ToutState
<1>2. \A q \in Pid, t \in Track :
        ToutWithout(p)[q][t] = IF p \in {q, Origin(t)} THEN "none" ELSE tout[q][t]
  BY DEF ToutWithout
<1>3. \A q \in Pid : PendWithout(p)[q] =
              CASE q = p -> NoOffer
                [] q \in Deactivating(p) -> Outstanding({}, DeadLines(q, p))
                [] OTHER -> pend[q]
  BY DEF PendWithout
<1>4. \A q \in Pid : PendWithout(p)[q] \in [on : BOOLEAN, add : SUBSET Track, drop : SUBSET Track]
  <2>1. \A q \in Pid : DeadLines(q, p) \in SUBSET Track
    BY DEF DeadLines, RoomOK
  <2>2. \A q \in Pid : Outstanding({}, DeadLines(q, p))
            \in [on : BOOLEAN, add : SUBSET Track, drop : SUBSET Track]
    BY <2>1, MessageTypes
  <2>3. \A q \in Pid : pend[q] \in [on : BOOLEAN, add : SUBSET Track, drop : SUBSET Track]
    BY DEF OfferOK
  <2> QED
    BY <1>3, <2>2, <2>3, MessageTypes, Zenon
<1>5. PendWithout(p) = [q \in Pid |-> PendWithout(p)[q]]
  BY <1>3 DEF PendWithout
<1>6. FwdWithout(p) \in SUBSET [track : Track, to : Pid]
  BY DEF FwdWithout, RoomOK
<1> QED
  BY <1>1, <1>2, <1>3, <1>4, <1>5, <1>6, Zenon

LEMMA SendAllTypes ==
  ASSUME SentOK, ClientOK, NEW msgs \in [Client -> Seq(Message)],
         NEW gone \in SUBSET (Client \cup {None}),
         SendAll(msgs, gone), UNCHANGED clientVars
  PROVE  SentOK' /\ ClientOK'
<1>1. WsTrySend(msgs) /\ disturbed' \in SUBSET Client
  BY DEF SendAll, Losing, ClientOK
<1> QED
  BY <1>1, SentTypes DEF ClientOK, clientVars

LEMMA LeaveTypes ==
  ASSUME TypeOK, NEW p \in Pid, Leave(p)
  PROVE  RoomOK' /\ OfferOK' /\ SentOK' /\ ClientOK' /\ UNCHANGED drops
<1>t. RoomOK /\ OfferOK /\ SentOK /\ ClientOK
  BY TypeParts
<1>1. OfferOK'
  BY <1>t, WithoutTypes, MessageTypes DEF Leave, OfferOK
<1>2. RoomOK'
  <2>1. NotPublished \in [Media -> {"none", "camera", "screen"}]
    BY DEF NotPublished
  <2>2. tout' \in [Pid -> [Track -> ToutState]] /\ fwd' \in SUBSET [track : Track, to : Pid]
    BY <1>t, WithoutTypes DEF Leave
  <2> QED
    BY <1>t, <2>1, <2>2 DEF Leave, RoomOK
<1>3. SentOK' /\ ClientOK'
  <2>1. SendAll(DeactivationOffers(p), {member[p]}) /\ UNCHANGED clientVars
    BY Zenon DEF Leave
  <2>2. DeactivationOffers(p) \in [Client -> Seq(Message)]
    BY <1>t, LeaveMessages
  <2>3. {member[p]} \in SUBSET (Client \cup {None})
    BY <1>t DEF RoomOK
  <2> QED
    BY <1>t, <2>1, <2>2, <2>3, SendAllTypes
<1> QED
  BY <1>1, <1>2, <1>3 DEF Leave

\* What handle_join says to whom.
JoinMessages(c) ==
    [d \in Client |->
       CASE d = c -> <<Answer({"cam"})>>
         [] d # c /\ d = member[PidOf[c]] -> <<ForceDisconnected>>
         [] OTHER -> DeactivationOffers(PidOf[c])[d]]

LEMMA JoinMessageTypes ==
  ASSUME RoomOK, NEW c \in Client
  PROVE  /\ JoinMessages(c) \in [Client -> Seq(Message)]
         /\ \A d \in Client : JoinMessages(c)[d] =
              CASE d = c -> <<Answer({"cam"})>>
                [] d # c /\ d = member[PidOf[c]] -> <<ForceDisconnected>>
                [] OTHER -> DeactivationOffers(PidOf[c])[d]
<1>1. \A d \in Client : DeactivationOffers(PidOf[c])[d] \in Seq(Message)
  BY LeaveMessages, PidOfClient
<1>2. <<Answer({"cam"})>> \in Seq(Message) /\ <<ForceDisconnected>> \in Seq(Message)
  <2>1. Answer({"cam"}) \in Message /\ ForceDisconnected \in Message
    BY MessageTypes DEF Media
  <2> QED
    BY <2>1
<1>3. \A d \in Client : JoinMessages(c)[d] =
              CASE d = c -> <<Answer({"cam"})>>
                [] d # c /\ d = member[PidOf[c]] -> <<ForceDisconnected>>
                [] OTHER -> DeactivationOffers(PidOf[c])[d]
  BY Zenon DEF JoinMessages
<1>4. \A d \in Client : JoinMessages(c)[d] \in Seq(Message)
  BY <1>1, <1>2, <1>3, Zenon
<1>5. JoinMessages(c) = [d \in Client |-> JoinMessages(c)[d]]
  BY <1>3, Zenon DEF JoinMessages
<1> QED
  BY <1>3, <1>4, <1>5, Zenon

\* What is published when p, whose client is the newcomer, comes.
Existing(p) == {t \in Track : Origin(t) # p /\ t[2] \in Published(Origin(t))}

\* handle_join, entry by entry.
Joins(c, p) ==
    /\ Takes(c, "join")
    /\ member' = [member EXCEPT ![p] = c]
    /\ tin' = [tin EXCEPT ![p] = [NotPublished EXCEPT !["cam"] = "camera"]]
    /\ \A q \in Pid, t \in Track : tout'[q][t] =
         IF (q = p /\ t \in Existing(p)) \/ (q \in Others(p) /\ t = <<p, "cam">>)
           THEN "toopen" ELSE ToutWithout(p)[q][t]
    /\ tout' \in [Pid -> [Track -> ToutState]]
    /\ lines' = [lines EXCEPT ![p] = {}]
    /\ pend' = PendWithout(p)
    /\ queued' = [queued EXCEPT ![p] = NoClientOffer]
    /\ hints' = [hints EXCEPT ![p] = 0]
    /\ neg' = (neg \ {p}) \cup Others(p) \cup (IF Existing(p) = {} THEN {} ELSE {p})
    /\ fwd' = FwdWithout(p)
    /\ SendAll(JoinMessages(c), {member[p]})
    /\ UNCHANGED <<drops, clientVars>>

LEMMA JoinEffect ==
  ASSUME RoomOK, OfferOK, NEW c \in Client, HandleJoin(c)
  PROVE  Joins(c, PidOf[c])
<1> DEFINE p == PidOf[c]
           T == [q \in Pid |->
             [t \in Track |->
               IF (q = p /\ t \in Existing(p)) \/ (q \in Others(p) /\ t = <<p, "cam">>)
                 THEN "toopen" ELSE ToutWithout(p)[q][t]]]
<1>1. tout' = T
  BY DEF HandleJoin, Existing
<1>2. T \in [Pid -> [Track -> ToutState]]
  <2>1. ToutWithout(p) \in [Pid -> [Track -> ToutState]] /\ "toopen" \in ToutState
    BY WithoutTypes, PidOfClient DEF ToutState
  <2>2. \A q \in Pid, t \in Track : ToutWithout(p)[q][t] \in ToutState
    BY <2>1
  <2> QED
    BY <2>1, <2>2, Zenon
<1>3. \A q \in Pid, t \in Track : T[q][t] =
         IF (q = p /\ t \in Existing(p)) \/ (q \in Others(p) /\ t = <<p, "cam">>)
                THEN "toopen" ELSE ToutWithout(p)[q][t]
  BY Zenon
<1>4. SendAll(JoinMessages(c), {member[p]})
  BY Zenon DEF HandleJoin, JoinMessages
<1>5. neg' = (neg \ {p}) \cup Others(p) \cup (IF Existing(p) = {} THEN {} ELSE {p})
  BY Zenon DEF HandleJoin, Existing
<1>6. /\ Takes(c, "join")
      /\ member' = [member EXCEPT ![p] = c]
      /\ tin' = [tin EXCEPT ![p] = [NotPublished EXCEPT !["cam"] = "camera"]]
      /\ lines' = [lines EXCEPT ![p] = {}]
      /\ pend' = PendWithout(p)
      /\ queued' = [queued EXCEPT ![p] = NoClientOffer]
      /\ hints' = [hints EXCEPT ![p] = 0]
      /\ fwd' = FwdWithout(p)
      /\ UNCHANGED <<drops, clientVars>>
  BY Zenon DEF HandleJoin
<1> HIDE DEF T
<1> QED
  BY <1>1, <1>2, <1>3, <1>4, <1>5, <1>6, Zenon DEF Joins

LEMMA JoinTypes ==
  ASSUME TypeOK, NEW c \in Client, HandleJoin(c)
  PROVE  TypeOK'
<1>t. RoomOK /\ OfferOK /\ SentOK /\ ClientOK /\ WireOK
  BY TypeParts
<1> DEFINE p == PidOf[c]
<1>p. p \in Pid
  BY PidOfClient
<1>e. Joins(c, p)
  BY <1>t, JoinEffect
<1> HIDE DEF p
<1>1. OfferOK'
  <2>1. pend' = PendWithout(p) /\ queued' = [queued EXCEPT ![p] = NoClientOffer]
    BY <1>t, <1>e DEF Joins
  <2> QED
    BY <1>t, <1>p, <2>1, WithoutTypes, MessageTypes DEF OfferOK
<1>2. RoomOK'
  <2>1. [NotPublished EXCEPT !["cam"] = "camera"] \in [Media -> {"none", "camera", "screen"}]
    BY DEF NotPublished, Media
  <2>2. fwd' \in SUBSET [track : Track, to : Pid]
    BY <1>t, <1>p, WithoutTypes, <1>e DEF Joins
  <2>3. member' \in [Pid -> Client \cup {None}] /\ hints' \in [Pid -> Nat]
        /\ lines' \in [Pid -> SUBSET Track]
    BY <1>t, <1>p, <1>e DEF Joins, RoomOK
  <2>4. tin' \in [Pid -> [Media -> {"none", "camera", "screen"}]]
    BY <1>t, <1>p, <2>1, <1>e DEF Joins, RoomOK
  <2>5. neg' \in SUBSET Pid
    BY <1>t, <1>p, <1>e DEF Joins, RoomOK, Others
  <2>6. tout' \in [Pid -> [Track -> ToutState]]
    BY <1>t, <1>p, <1>e DEF Joins
  <2> QED
    BY <2>2, <2>3, <2>4, <2>5, <2>6 DEF RoomOK
<1>3. SentOK' /\ ClientOK'
  <2>1. SendAll(JoinMessages(c), {member[p]}) /\ UNCHANGED clientVars
    BY <1>t, <1>e DEF Joins
  <2>2. JoinMessages(c) \in [Client -> Seq(Message)]
    BY <1>t, JoinMessageTypes
  <2>3. {member[p]} \in SUBSET (Client \cup {None})
    BY <1>t, <1>p DEF RoomOK
  <2> QED
    BY <1>t, <2>1, <2>2, <2>3, SendAllTypes
<1>4. WireOK'
  <2>1. Takes(c, "join") /\ UNCHANGED drops
    BY <1>t, <1>e DEF Joins
  <2> QED
    BY <1>t, <2>1, TakesTypes DEF WireOK
<1> QED
  BY <1>1, <1>2, <1>3, <1>4, TypePartsPrime

\* An answer to the client that takes part as p.
AnswerTo(p, media) == [d \in Client |-> IF d = member[p] THEN <<Answer(media)>> ELSE <<>>]

LEMMA AnswerTypes ==
  ASSUME NEW p \in Pid, NEW media \in SUBSET Media
  PROVE  /\ AnswerTo(p, media) \in [Client -> Seq(Message)]
         /\ \A d \in Client :
              AnswerTo(p, media)[d] = IF d = member[p] THEN <<Answer(media)>> ELSE <<>>
<1>1. <<Answer(media)>> \in Seq(Message) /\ <<>> \in Seq(Message)
  <2>1. Answer(media) \in Message
    BY MessageTypes
  <2> QED
    BY <2>1, EmptySeq
<1> QED
  BY <1>1 DEF AnswerTo

\* accept_offer that accepts, entry by entry, and one that does not.
Accepted(p, o, to, hit) ==
    LET new == o.media \ Published(p) IN
    /\ tin' = [tin EXCEPT ![p] = TaggedWith(p, new)]
    /\ hints' = [hints EXCEPT ![p] = IF new # {} /\ hints[p] > 0 THEN hints[p] - 1 ELSE hints[p]]
    /\ \A q \in Pid, t \in Track : tout'[q][t] =
         IF q \in Others(p) /\ Origin(t) = p /\ t[2] \in new /\ to[q][t] = "none"
           THEN "toopen" ELSE to[q][t]
    /\ neg' = IF new = {} THEN neg ELSE neg \cup Others(p)
    /\ WsTrySend(AnswerTo(p, o.media))
    /\ disturbed' = disturbed \cup hit \cup Losing(AnswerTo(p, o.media))
                      \cup ({member[p]} \ {o.from})
Refused(p, o, to, ls, hit) ==
    /\ o.from # member[p] \/ o.seen # ls
    /\ tout' = to
    /\ disturbed' = disturbed \cup hit
    /\ UNCHANGED <<tin, hints, neg, toClient>>

LEMMA AcceptEffect ==
  ASSUME RoomOK, NEW p \in Pid, NEW o \in Offer, NEW ls, NEW hit,
         NEW to \in [Pid -> [Track -> ToutState]], AcceptOffer(p, o, to, ls, hit)
  PROVE  /\ tout' \in [Pid -> [Track -> ToutState]]
         /\ Accepted(p, o, to, hit) \/ Refused(p, o, to, ls, hit)
<1> DEFINE new == o.media \ Published(p)
           T == [q \in Pid |-> [t \in Track |->
             IF q \in Others(p) /\ Origin(t) = p /\ t[2] \in new /\ to[q][t] = "none"
               THEN "toopen" ELSE to[q][t]]]
<1>1. T \in [Pid -> [Track -> ToutState]]
  <2>1. \A q \in Pid, t \in Track : to[q][t] \in ToutState
    OBVIOUS
  <2> QED
    BY <2>1 DEF ToutState
<1>2. \A q \in Pid, t \in Track : T[q][t] =
        IF q \in Others(p) /\ Origin(t) = p /\ t[2] \in new /\ to[q][t] = "none"
           THEN "toopen" ELSE to[q][t]
  BY Zenon
<1>3. CASE /\ MediaAdded(p, o.media, to)
           /\ WsTrySend(AnswerTo(p, o.media))
           /\ disturbed' = disturbed \cup hit \cup Losing(AnswerTo(p, o.media))
                             \cup ({member[p]} \ {o.from})
  <2>1. /\ tout' = T
        /\ tin' = [tin EXCEPT ![p] = TaggedWith(p, new)]
        /\ hints' = [hints EXCEPT ![p] = IF new # {} /\ hints[p] > 0 THEN hints[p] - 1 ELSE hints[p]]
        /\ neg' = IF new = {} THEN neg ELSE neg \cup Others(p)
    BY <1>3, Zenon DEF MediaAdded
  <2> HIDE DEF T
  <2> QED
    BY <1>1, <1>2, <1>3, <2>1, Zenon DEF Accepted
<1>4. CASE Refused(p, o, to, ls, hit)
  BY <1>4 DEF Refused
<1> HIDE DEF T
<1> QED
  BY <1>3, <1>4, Zenon DEF AcceptOffer, Refused, AnswerTo

LEMMA AcceptTypes ==
  ASSUME RoomOK, SentOK, ClientOK, NEW p \in Pid, NEW o \in Offer, NEW ls,
         NEW hit \in SUBSET Client, NEW to, member[p] \in Client,
         Accepted(p, o, to, hit) \/ Refused(p, o, to, ls, hit), UNCHANGED clientVars
  PROVE  /\ tin' \in [Pid -> [Media -> {"none", "camera", "screen"}]]
         /\ hints' \in [Pid -> Nat]
         /\ neg' \in SUBSET Pid
         /\ SentOK' /\ ClientOK'
<1>m. o.media \in SUBSET Media
  BY DEF Offer
<1>1. CASE Accepted(p, o, to, hit)
  <2> DEFINE new == o.media \ Published(p)
  <2>1. TaggedWith(p, new) \in [Media -> {"none", "camera", "screen"}]
    BY DEF TaggedWith, RoomOK
  <2>2. tin' \in [Pid -> [Media -> {"none", "camera", "screen"}]]
    BY <1>1, <2>1 DEF Accepted, RoomOK
  <2>3. hints' \in [Pid -> Nat]
    <3>1. hints[p] \in Nat /\ hints \in [Pid -> Nat]
      BY DEF RoomOK
    <3>2. \E n \in Nat : hints' = [hints EXCEPT ![p] = n]
      <4>1. hints[p] > 0 => hints[p] - 1 \in Nat
        BY <3>1
      <4> QED
        BY <1>1, <3>1, <4>1, Zenon DEF Accepted
    <3> QED
      BY <3>1, <3>2
  <2>4. neg' \in SUBSET Pid
    <3>1. neg \in SUBSET Pid /\ Others(p) \in SUBSET Pid
      BY DEF RoomOK, Others
    <3>2. neg' = neg \/ neg' = neg \cup Others(p)
      BY <1>1, Zenon DEF Accepted
    <3> QED
      BY <3>1, <3>2
  <2>5. AnswerTo(p, o.media) \in [Client -> Seq(Message)] /\ WsTrySend(AnswerTo(p, o.media))
    BY <1>1, <1>m, AnswerTypes, Zenon DEF Accepted
  <2>6. SentOK'
    BY <2>5, SentTypes
  <2>7. disturbed' \in SUBSET Client
    <3>1. Losing(AnswerTo(p, o.media)) \in SUBSET Client
      BY DEF Losing
    <3>2. disturbed \in SUBSET Client
      BY DEF ClientOK
    <3>3. disturbed' = disturbed \cup hit \cup Losing(AnswerTo(p, o.media))
                      \cup ({member[p]} \ {o.from})
      BY <1>1, Zenon DEF Accepted
    <3> QED
      BY <3>1, <3>2, <3>3
  <2>8. ClientOK'
    BY <2>7 DEF ClientOK, clientVars
  <2> QED
    BY <2>2, <2>3, <2>4, <2>6, <2>8
<1>2. CASE Refused(p, o, to, ls, hit)
  BY <1>2 DEF Refused, RoomOK, SentOK, ClientOK, clientVars
<1> QED
  BY <1>1, <1>2

LEMMA OfferTypes ==
  ASSUME TypeOK, NEW c \in Client, HandleClientOffer(c)
  PROVE  TypeOK'
<1>t. RoomOK /\ OfferOK /\ SentOK /\ ClientOK /\ WireOK
  BY TypeParts
<1> DEFINE p == PidOf[c]
           o == Head(toSfu[c]).offer
<1>p. p \in Pid
  BY PidOfClient
<1>o. Takes(c, "offer") /\ UNCHANGED <<member, lines, fwd, pend, drops, clientVars>>
  BY DEF HandleClientOffer
<1>1. WireOK' /\ o \in Offer
  BY <1>t, <1>o, TakesTypes DEF WireOK
<1>2. CASE /\ queued' = queued \/ queued' = [queued EXCEPT ![p] = o]
           /\ UNCHANGED <<tin, tout, hints, neg, toClient, disturbed>>
  <2>1. OfferOK'
    BY <1>t, <1>o, <1>p, <1>1, <1>2 DEF OfferOK
  <2>2. RoomOK' /\ SentOK' /\ ClientOK'
    BY <1>t, <1>o, <1>2 DEF RoomOK, SentOK, ClientOK, clientVars
  <2> QED
    BY <1>1, <2>1, <2>2, TypePartsPrime
<1>3. CASE InRoom(p) /\ AcceptOffer(p, o, tout, lines[p], {}) /\ UNCHANGED queued
  <2>1. tout \in [Pid -> [Track -> ToutState]] /\ member[p] \in Client
    BY <1>t, <1>p, <1>3 DEF RoomOK, InRoom
  <2>2. /\ tout' \in [Pid -> [Track -> ToutState]]
        /\ Accepted(p, o, tout, {}) \/ Refused(p, o, tout, lines[p], {})
    BY <1>t, <1>p, <1>1, <1>3, <2>1, AcceptEffect
  <2>3. {} \in SUBSET Client /\ UNCHANGED clientVars
    BY <1>o
  <2> HIDE DEF p, o
  <2>4. /\ tin' \in [Pid -> [Media -> {"none", "camera", "screen"}]]
        /\ hints' \in [Pid -> Nat]
        /\ neg' \in SUBSET Pid
        /\ SentOK' /\ ClientOK'
    BY <1>t, <1>p, <1>1, <2>1, <2>2, <2>3, AcceptTypes
  <2>5. RoomOK' /\ OfferOK'
    BY <1>t, <1>o, <1>3, <2>2, <2>4 DEF RoomOK, OfferOK
  <2> QED
    BY <1>1, <2>4, <2>5, TypePartsPrime
<1> QED
  BY <1>2, <1>3, Zenon DEF HandleClientOffer

\* What negotiate_pending_tracks says to whom.
NegotiationOffers ==
    [c \in Client |->
       IF PidOf[c] \in Offering /\ member[PidOf[c]] = c
         THEN <<SfuOffer(lines[PidOf[c]] \cup ToOpen(PidOf[c]))>> ELSE <<>>]

LEMMA NegotiationMessages ==
  ASSUME RoomOK
  PROVE  /\ NegotiationOffers \in [Client -> Seq(Message)]
         /\ \A c \in Client : NegotiationOffers[c] =
              IF PidOf[c] \in Offering /\ member[PidOf[c]] = c
                THEN <<SfuOffer(lines[PidOf[c]] \cup ToOpen(PidOf[c]))>> ELSE <<>>
<1>1. \A c \in Client : SfuOffer(lines[PidOf[c]] \cup ToOpen(PidOf[c])) \in Message
  <2>1. \A q \in Pid : lines[q] \cup ToOpen(q) \in SUBSET Track
    BY DEF RoomOK, ToOpen
  <2> QED
    BY <2>1, MessageTypes, PidOfClient
<1>2. \A m \in Message : <<m>> \in Seq(Message)
  OBVIOUS
<1>3. <<>> \in Seq(Message)
  BY EmptySeq
<1>4. \A c \in Client : NegotiationOffers[c] =
              IF PidOf[c] \in Offering /\ member[PidOf[c]] = c
                THEN <<SfuOffer(lines[PidOf[c]] \cup ToOpen(PidOf[c]))>> ELSE <<>>
  BY Zenon DEF NegotiationOffers
<1>5. \A c \in Client : NegotiationOffers[c] \in Seq(Message)
  BY <1>1, <1>2, <1>3, <1>4, Zenon
<1>6. NegotiationOffers = [c \in Client |-> NegotiationOffers[c]]
  BY <1>4, Zenon DEF NegotiationOffers
<1> QED
  BY <1>4, <1>5, <1>6, Zenon

\* negotiate_pending_tracks, entry by entry.
Negotiates ==
    /\ neg' = Retrying
    /\ tout' \in [Pid -> [Track -> ToutState]]
    /\ \A q \in Pid, t \in Track : tout'[q][t] =
         IF q \in Offering /\ tout[q][t] = "toopen" THEN "negotiating" ELSE tout[q][t]
    /\ pend' \in [Pid -> [on : BOOLEAN, add : SUBSET Track, drop : SUBSET Track]]
    /\ \A q \in Pid : pend'[q] = IF q \in Offering THEN Outstanding(ToOpen(q), {}) ELSE pend[q]
    /\ SendAll(NegotiationOffers, {})
    /\ UNCHANGED <<member, tin, lines, hints, fwd, queued, toSfu, drops, clientVars>>

LEMMA NegotiateEffect ==
  ASSUME RoomOK, OfferOK, NegotiatePendingTracks
  PROVE  Negotiates
<1>1. /\ neg' = Retrying
      /\ SendAll(NegotiationOffers, {})
      /\ UNCHANGED <<member, tin, lines, hints, fwd, queued, toSfu, drops, clientVars>>
  BY Zenon DEF NegotiatePendingTracks, NegotiationOffers
<1>2. tout' = [q \in Pid |-> [t \in Track |->
         IF q \in Offering /\ t \in ToOpen(q) THEN "negotiating" ELSE tout[q][t]]]
  BY Zenon DEF NegotiatePendingTracks
<1>3. \A q \in Pid, t \in Track : tout[q][t] \in ToutState
  BY DEF RoomOK
<1>4. tout' \in [Pid -> [Track -> ToutState]]
  BY <1>2, <1>3 DEF ToutState
<1>5. \A q \in Pid, t \in Track : tout'[q][t] =
         IF q \in Offering /\ tout[q][t] = "toopen" THEN "negotiating" ELSE tout[q][t]
  BY <1>2 DEF ToOpen
<1>6. pend' = [q \in Pid |-> IF q \in Offering THEN Outstanding(ToOpen(q), {}) ELSE pend[q]]
  BY Zenon DEF NegotiatePendingTracks
<1>7. \A q \in Pid : /\ ToOpen(q) \in SUBSET Track
                     /\ pend[q] \in [on : BOOLEAN, add : SUBSET Track, drop : SUBSET Track]
  BY DEF ToOpen, OfferOK
<1>8. pend' \in [Pid -> [on : BOOLEAN, add : SUBSET Track, drop : SUBSET Track]]
  <2>1. \A q \in Pid : Outstanding(ToOpen(q), {})
            \in [on : BOOLEAN, add : SUBSET Track, drop : SUBSET Track]
    BY <1>7, MessageTypes
  <2> QED
    BY <1>6, <1>7, <2>1, Zenon
<1> QED
  BY <1>1, <1>4, <1>5, <1>6, <1>8 DEF Negotiates

LEMMA NegotiateTypes ==
  ASSUME TypeOK, NegotiatePendingTracks
  PROVE  TypeOK'
<1>t. RoomOK /\ OfferOK /\ SentOK /\ ClientOK /\ WireOK
  BY TypeParts
<1>e. Negotiates
  BY <1>t, NegotiateEffect
<1>1. RoomOK' /\ OfferOK' /\ WireOK'
  BY <1>t, <1>e DEF Negotiates, RoomOK, OfferOK, WireOK, Retrying
<1>2. SentOK' /\ ClientOK'
  <2>1. SendAll(NegotiationOffers, {}) /\ UNCHANGED clientVars
    BY <1>e, Zenon DEF Negotiates
  <2>2. NegotiationOffers \in [Client -> Seq(Message)] /\ {} \in SUBSET (Client \cup {None})
    BY <1>t, NegotiationMessages
  <2> QED
    BY <1>t, <2>1, <2>2, SendAllTypes
<1> QED
  BY <1>1, <1>2, TypePartsPrime

\* accept_answer, entry by entry.
Answered(p, ok) ==
    /\ pend' = [pend EXCEPT ![p] = NoOffer]
    /\ lines' = IF ok THEN [lines EXCEPT ![p] = (lines[p] \cup pend[p].add) \ pend[p].drop]
                      ELSE lines
    /\ fwd' = IF ok THEN fwd \cup {[track |-> t, to |-> p] :
                                     t \in {u \in Track : tout[p][u] = "negotiating"}}
                    ELSE fwd

\* handle_answer of c in the room, where ok says whether the answer fits.
AnswerOf(c, p, ok) ==
    /\ InRoom(p)
    /\ ok => pend[p].on
    /\ pend[p].on /\ member[p] = c => ok
    /\ Answered(p, ok)
    /\ queued' = [queued EXCEPT ![p] = NoClientOffer]
    /\ \/ /\ queued[p] # NoClientOffer
          /\ \/ Accepted(p, queued[p], ToutAnswered(p, ok), {member[p]} \ {c})
             \/ Refused(p, queued[p], ToutAnswered(p, ok), lines'[p], {member[p]} \ {c})
       \/ /\ queued[p] = NoClientOffer
          /\ tout' = ToutAnswered(p, ok)
          /\ disturbed' = disturbed \cup ({member[p]} \ {c})
          /\ UNCHANGED <<tin, hints, neg, toClient>>

LEMMA ToutAnsweredTypes ==
  ASSUME RoomOK, NEW p \in Pid, NEW ok \in BOOLEAN
  PROVE  /\ ToutAnswered(p, ok) \in [Pid -> [Track -> ToutState]]
         /\ \A q \in Pid, t \in Track : ToutAnswered(p, ok)[q][t] =
              IF q = p /\ ok /\ tout[q][t] = "negotiating" THEN "open" ELSE tout[q][t]
<1>1. \A q \in Pid, t \in Track : tout[q][t] \in ToutState
  BY DEF RoomOK
<1>2. tout \in [Pid -> [Track -> ToutState]]
  BY DEF RoomOK
<1> QED
  BY <1>1, <1>2 DEF ToutAnswered, ToutState

LEMMA AnswerEffect ==
  ASSUME RoomOK, OfferOK, NEW c \in Client, HandleAnswer(c)
  PROVE  /\ Takes(c, "answer") /\ UNCHANGED <<member, drops, clientVars>>
         /\ \/ /\ ~InRoom(PidOf[c])
               /\ UNCHANGED <<tin, tout, lines, hints, neg, fwd, offerVars, toClient, disturbed>>
            \/ \E ok \in BOOLEAN : AnswerOf(c, PidOf[c], ok) /\ tout' \in [Pid -> [Track -> ToutState]]
<1> DEFINE p == PidOf[c]
<1>p. p \in Pid
  BY PidOfClient
<1>1. /\ Takes(c, "answer") /\ UNCHANGED <<member, drops, clientVars>>
  BY DEF HandleAnswer
<1>2. ASSUME InRoom(p), NEW ok \in BOOLEAN,
             ok => pend[p].on,
             pend[p].on /\ {member[p]} \ {c} = {} => ok,
             AcceptAnswer(p, ok),
             queued' = [queued EXCEPT ![p] = NoClientOffer],
             \/ /\ queued[p] # NoClientOffer
                /\ AcceptOffer(p, queued[p], ToutAnswered(p, ok), lines'[p], {member[p]} \ {c})
             \/ /\ queued[p] = NoClientOffer
                /\ tout' = ToutAnswered(p, ok)
                /\ disturbed' = disturbed \cup ({member[p]} \ {c})
                /\ UNCHANGED <<tin, hints, neg, toClient>>
      PROVE  AnswerOf(c, p, ok) /\ tout' \in [Pid -> [Track -> ToutState]]
  <2>1. pend[p].on /\ member[p] = c => ok
    BY <1>2
  <2>2. Answered(p, ok)
    BY <1>2, Zenon DEF AcceptAnswer, Answered
  <2>3. ToutAnswered(p, ok) \in [Pid -> [Track -> ToutState]] /\ queued[p] \in Offer
    BY <1>2, <1>p, ToutAnsweredTypes DEF OfferOK
  <2>4. CASE queued[p] # NoClientOffer
    <3>1. AcceptOffer(p, queued[p], ToutAnswered(p, ok), lines'[p], {member[p]} \ {c})
      BY <1>2, <2>4
    <3> HIDE DEF p
    <3>2. /\ tout' \in [Pid -> [Track -> ToutState]]
          /\ \/ Accepted(p, queued[p], ToutAnswered(p, ok), {member[p]} \ {c})
             \/ Refused(p, queued[p], ToutAnswered(p, ok), lines'[p], {member[p]} \ {c})
      BY <1>p, <2>3, <3>1, AcceptEffect
    <3> QED
      BY <1>2, <2>1, <2>2, <2>4, <3>2, Zenon DEF AnswerOf
  <2>5. CASE queued[p] = NoClientOffer
    BY <1>2, <2>1, <2>2, <2>3, <2>5, Zenon DEF AnswerOf
  <2> QED
    BY <2>4, <2>5
<1> QED
  BY <1>1, <1>2, Zenon DEF HandleAnswer

LEMMA AnswerHandledTypes ==
  ASSUME TypeOK, NEW c \in Client, HandleAnswer(c)
  PROVE  TypeOK'
<1>t. RoomOK /\ OfferOK /\ SentOK /\ ClientOK /\ WireOK
  BY TypeParts
<1> DEFINE p == PidOf[c]
<1>p. p \in Pid
  BY PidOfClient
<1>e. /\ Takes(c, "answer") /\ UNCHANGED <<member, drops, clientVars>>
      /\ \/ /\ ~InRoom(p)
            /\ UNCHANGED <<tin, tout, lines, hints, neg, fwd, offerVars, toClient, disturbed>>
         \/ \E ok \in BOOLEAN : AnswerOf(c, p, ok) /\ tout' \in [Pid -> [Track -> ToutState]]
  BY <1>t, AnswerEffect
<1> HIDE DEF p
<1>1. WireOK'
  BY <1>t, <1>e, TakesTypes DEF WireOK
<1>2. CASE UNCHANGED <<tin, tout, lines, hints, neg, fwd, offerVars, toClient, disturbed>>
  BY <1>t, <1>e, <1>1, <1>2, TypePartsPrime
     DEF RoomOK, OfferOK, SentOK, ClientOK, clientVars, offerVars
<1>3. ASSUME NEW ok \in BOOLEAN, AnswerOf(c, p, ok), tout' \in [Pid -> [Track -> ToutState]]
      PROVE  TypeOK'
  <2>1. OfferOK'
    BY <1>t, <1>p, <1>3, MessageTypes DEF AnswerOf, Answered, OfferOK
  <2>2. lines' \in [Pid -> SUBSET Track] /\ fwd' \in SUBSET [track : Track, to : Pid]
    <3>1. (lines[p] \cup pend[p].add) \ pend[p].drop \in SUBSET Track
      BY <1>t, <1>p DEF RoomOK, OfferOK
    <3>2. {[track |-> t, to |-> p] : t \in {u \in Track : tout[p][u] = "negotiating"}}
             \in SUBSET [track : Track, to : Pid]
      BY <1>p
    <3> QED
      BY <1>t, <1>p, <1>3, <3>1, <3>2 DEF AnswerOf, Answered, RoomOK
  <2>3. /\ tin' \in [Pid -> [Media -> {"none", "camera", "screen"}]]
        /\ hints' \in [Pid -> Nat]
        /\ neg' \in SUBSET Pid
        /\ SentOK' /\ ClientOK'
    <3>1. member[p] \in Client
      BY <1>t, <1>p, <1>3 DEF AnswerOf, InRoom, RoomOK
    <3>2. {member[p]} \ {c} \in SUBSET Client /\ queued[p] \in Offer /\ UNCHANGED clientVars
      BY <1>t, <1>p, <1>e, <3>1 DEF OfferOK
    <3>3. CASE \/ Accepted(p, queued[p], ToutAnswered(p, ok), {member[p]} \ {c})
               \/ Refused(p, queued[p], ToutAnswered(p, ok), lines'[p], {member[p]} \ {c})
      BY <1>t, <1>p, <3>1, <3>2, <3>3, AcceptTypes
    <3>4. CASE disturbed' = disturbed \cup ({member[p]} \ {c})
               /\ UNCHANGED <<tin, hints, neg, toClient>>
      BY <1>t, <1>e, <3>2, <3>4 DEF RoomOK, SentOK, ClientOK, clientVars
    <3> QED
      BY <1>3, <3>3, <3>4, Zenon DEF AnswerOf
  <2>4. RoomOK'
    BY <1>t, <1>e, <1>3, <2>2, <2>3 DEF RoomOK
  <2> QED
    BY <1>1, <2>1, <2>3, <2>4, TypePartsPrime
<1> QED
  BY <1>e, <1>2, <1>3

LEMMA TypeStep ==
  ASSUME TypeOK, [Next]_vars
  PROVE  TypeOK'
<1>t. RoomOK /\ OfferOK /\ SentOK /\ ClientOK /\ WireOK
  BY TypeParts
<1>1. ASSUME NEW c \in Client, ClientStep(c) PROVE TypeOK'
  BY <1>1, ClientTypes
<1>2. ASSUME NEW c \in Client, ShardStep(c) PROVE TypeOK'
  <2>1. CASE HandleLeave(c)
    <3>1. RoomOK' /\ OfferOK' /\ SentOK' /\ ClientOK' /\ UNCHANGED drops /\ Takes(c, "leave")
      BY <2>1, PidOfClient, LeaveTypes DEF HandleLeave
    <3>2. WireOK'
      BY <1>t, <3>1, TakesTypes DEF WireOK
    <3> QED
      BY <3>1, <3>2, TypePartsPrime
  <2>2. CASE HandlePublishTrack(c)
    <3>1. WireOK'
      BY <1>t, <2>2, TakesTypes DEF HandlePublishTrack, WireOK
    <3>2. RoomOK'
      BY <1>t, <2>2, PidOfClient DEF HandlePublishTrack, RoomOK
    <3>3. OfferOK' /\ SentOK' /\ ClientOK'
      BY <1>t, <2>2 DEF HandlePublishTrack, OfferOK, SentOK, ClientOK, offerVars, clientVars
    <3> QED
      BY <3>1, <3>2, <3>3, TypePartsPrime
  <2> QED
    BY <1>2, <2>1, <2>2, JoinTypes, OfferTypes, AnswerHandledTypes DEF ShardStep
<1>3. ASSUME NEW c \in Client, DropCommand(c) PROVE TypeOK'
  <2>1. WireOK'
    <3>1. Tail(toSfu[c]) \in Seq(Command)
      BY <1>t, <1>3, TailTaken DEF DropCommand, WireOK
    <3>2. drops' \in 0..MaxDrops
      BY <1>t, <1>3, BoundAssumption DEF DropCommand, WireOK
    <3> QED
      BY <1>t, <1>3, <3>1, <3>2 DEF DropCommand, WireOK
  <2>2. RoomOK' /\ OfferOK' /\ SentOK' /\ ClientOK'
    BY <1>t, <1>3 DEF DropCommand, RoomOK, OfferOK, SentOK, ClientOK, roomVars, offerVars, clientVars
  <2> QED
    BY <2>1, <2>2, TypePartsPrime
<1>4. ASSUME NEW p \in Pid, Zombie(p) PROVE TypeOK'
  <2>1. RoomOK' /\ OfferOK' /\ SentOK' /\ ClientOK' /\ UNCHANGED <<drops, toSfu>>
    BY <1>4, LeaveTypes DEF Zombie
  <2> QED
    BY <1>t, <2>1, TypePartsPrime DEF WireOK
<1>5. CASE UNCHANGED vars
  BY <1>5 DEF TypeOK, vars, roomVars, offerVars, clientVars
<1> QED
  BY <1>1, <1>2, <1>3, <1>4, <1>5, NegotiateTypes DEF Next

LEMMA InitTypes == Init => TypeOK
<1> SUFFICES ASSUME Init PROVE TypeOK
  OBVIOUS
<1>1. RoomOK
  <2>1. NotPublished \in [Media -> {"none", "camera", "screen"}]
        /\ NoTracks \in [Track -> ToutState]
    BY DEF NotPublished, NoTracks, ToutState
  <2> QED
    BY <2>1 DEF Init, RoomOK
<1>2. OfferOK
  BY MessageTypes DEF Init, OfferOK
<1>3. WireOK /\ SentOK
  <2>1. \A S : <<>> \in Seq(S) /\ Len(<<>>) = 0
    BY EmptySeq
  <2> QED
    BY <2>1, BoundAssumption DEF Init, WireOK, SentOK
<1>4. ClientOK
  BY DEF Init, ClientOK
<1> QED
  BY <1>1, <1>2, <1>3, <1>4, TypeParts

\* The records of a call keep their types whatever its clients and the shard do.
THEOREM TypeCorrect == Spec => []TypeOK
<1>1. TypeOK /\ [Next]_vars => TypeOK'
  BY TypeStep
<1> QED
  BY <1>1, InitTypes, PTL DEF Spec

-----------------------------------------------------------------------------
(* The room.                                                               *)

\* tracks_out holds tracks of the others that are published.
Assigned == \A q \in Pid, t \in Track : tout[q][t] # "none" =>
    InRoom(q) /\ Origin(t) # q /\ tin[Origin(t)][t[2]] # "none"

\* Where no answer is due, no m-line is waiting for one.
Cleared == \A p \in Pid : ~pend[p].on => pend[p] = NoOffer

\* forwarding_map, entry by entry.
Forwarded == \A q \in Pid, t \in Track :
    [track |-> t, to |-> q] \in fwd <=> tout[q][t] = "open"

\* Whoever lost nothing has an m-line for what is open, and is offered one for
\* what is negotiating; a dead m-line is of no track that is either.
OpenLines == \A p \in Pid, t \in Track : member[p] \notin disturbed =>
    /\ tout[p][t] = "open" => t \in lines[p]
    /\ tout[p][t] = "negotiating" => t \in pend[p].add
    /\ t \in pend[p].drop => tout[p][t] \notin {"open", "negotiating"}

\* NoTrackForgotten, track by track.
Remembered == \A p \in Pid, t \in Track :
    InRoom(p) /\ Origin(t) # p /\ tin[Origin(t)][t[2]] # "none" =>
      \/ tout[p][t] = "open"
      \/ tout[p][t] = "toopen" /\ p \in neg
      \/ tout[p][t] = "negotiating" /\ (t \in pend[p].add \/ member[p] \in disturbed)

RoomInv == Assigned /\ Cleared /\ Forwarded /\ OpenLines /\ Remembered /\ StashedOfferWaits

LEMMA TrackParts ==
    /\ \A q \in Pid, m \in Media : <<q, m>> \in Track /\ Origin(<<q, m>>) = q /\ <<q, m>>[2] = m
    /\ \A t \in Track : Origin(t) \in Pid /\ t[2] \in Media /\ t = <<Origin(t), t[2]>>
BY DEF Track, Origin

\* What the entries say is what the properties say.
LEMMA RoomProperties ==
  ASSUME TypeOK, Assigned, Forwarded, Remembered
  PROVE  ForwardingFollowsTracks /\ NoTrackForgotten
<1>t. RoomOK
  BY TypeParts
<1>1. \A f \in [track : Track, to : Pid] :
        f.to \in Pid /\ f.track \in Track /\ f = [track |-> f.track, to |-> f.to]
  OBVIOUS
<1>2. \A f \in [track : Track, to : Pid] : f \in fwd <=> tout[f.to][f.track] = "open"
  BY <1>1 DEF Forwarded
<1>3. fwd = {f \in [track : Track, to : Pid] : tout[f.to][f.track] = "open"}
  BY <1>t, <1>2 DEF RoomOK
<1>4. \A f \in fwd : InRoom(f.to) /\ f.track[2] \in Published(Origin(f.track))
  BY <1>t, <1>1, <1>2, TrackParts DEF RoomOK, Assigned, Published
<1>5. NoTrackForgotten
  <2> SUFFICES ASSUME NEW p \in Pid, NEW q \in Pid, NEW m \in Published(q), InRoom(p), p # q
               PROVE  \/ tout[p][<<q, m>>] = "open"
                      \/ tout[p][<<q, m>>] = "toopen" /\ p \in neg
                      \/ /\ tout[p][<<q, m>>] = "negotiating"
                         /\ <<q, m>> \in pend[p].add \/ member[p] \in disturbed
    BY Zenon DEF NoTrackForgotten
  <2>1. m \in Media /\ tin[q][m] # "none"
    BY DEF Published
  <2>2. PICK t \in Track : t = <<q, m>> /\ Origin(t) = q /\ t[2] = m
    BY <2>1, TrackParts
  <2>3. InRoom(p) /\ Origin(t) # p /\ tin[Origin(t)][t[2]] # "none"
    BY <2>1, <2>2
  <2> QED
    BY <2>2, <2>3, Zenon DEF Remembered
<1> QED
  BY <1>3, <1>4, <1>5 DEF ForwardingFollowsTracks

\* Nothing happens to the tracks; no disturbance is forgotten.
LEMMA TracksKept ==
  ASSUME RoomInv, disturbed \subseteq disturbed',
         UNCHANGED <<member, tin, tout, lines, pend, neg, fwd>>
  PROVE  Assigned' /\ Cleared' /\ Forwarded' /\ OpenLines' /\ Remembered'
<1>1. Assigned' /\ Cleared' /\ Forwarded'
  BY DEF RoomInv, Assigned, Cleared, Forwarded, InRoom
<1>2. OpenLines'
  BY DEF RoomInv, OpenLines
<1>3. Remembered'
  BY DEF RoomInv, Remembered, InRoom
<1> QED
  BY <1>1, <1>2, <1>3

\* handle_leave, entry by entry: what is left without p is what was, but for
\* the dead m-lines of those who are offered to deactivate them.
LEMMA WithoutKept ==
  ASSUME TypeOK, RoomInv, NEW p \in Pid, NEW q \in Pid
  PROVE  /\ q \in Deactivating(p) =>
              /\ q # p /\ InRoom(q) /\ ~pend[q].on /\ pend[q] = NoOffer
              /\ PendWithout(p)[q] = Outstanding({}, DeadLines(q, p))
         /\ q # p /\ q \notin Deactivating(p) => PendWithout(p)[q] = pend[q]
         /\ PendWithout(p)[p] = NoOffer
         /\ \A t \in DeadLines(q, p) : t \in Track /\ Origin(t) = p
         /\ NoOffer.add = {} /\ NoOffer.drop = {} /\ ~NoOffer.on
         /\ Outstanding({}, DeadLines(q, p)).on
         /\ Outstanding({}, DeadLines(q, p)).add = {}
         /\ Outstanding({}, DeadLines(q, p)).drop = DeadLines(q, p)
<1>t. RoomOK /\ OfferOK
  BY TypeParts
<1>1. \A r \in Pid : PendWithout(p)[r] =
              CASE r = p -> NoOffer
                [] r \in Deactivating(p) -> Outstanding({}, DeadLines(r, p))
                [] OTHER -> pend[r]
  BY <1>t, WithoutTypes
<1>2. q \in Deactivating(p) => q # p /\ InRoom(q) /\ ~pend[q].on
  BY DEF Deactivating
<1>3. q \in Deactivating(p) => pend[q] = NoOffer
  BY <1>2 DEF RoomInv, Cleared
<1>4. \A t \in DeadLines(q, p) : t \in Track /\ Origin(t) = p
  BY <1>t DEF DeadLines, RoomOK
<1>5. /\ NoOffer.add = {} /\ NoOffer.drop = {} /\ ~NoOffer.on
      /\ Outstanding({}, DeadLines(q, p)).on
      /\ Outstanding({}, DeadLines(q, p)).add = {}
      /\ Outstanding({}, DeadLines(q, p)).drop = DeadLines(q, p)
  BY DEF NoOffer, Outstanding
<1>6. q \in Deactivating(p) => PendWithout(p)[q] = Outstanding({}, DeadLines(q, p))
  BY <1>1, <1>2, Zenon
<1>7. q # p /\ q \notin Deactivating(p) => PendWithout(p)[q] = pend[q]
  BY <1>1, Zenon
<1>8. PendWithout(p)[p] = NoOffer
  BY DEF PendWithout, Deactivating
<1> QED
  BY <1>2, <1>3, <1>4, <1>5, <1>6, <1>7, <1>8

\* Room p is empty: what was in it has gone.
LEMMA LeaveRoom ==
  ASSUME TypeOK, RoomInv, NEW p \in Pid, Leave(p)
  PROVE  RoomInv'
<1>t. RoomOK /\ OfferOK
  BY TypeParts
<1>i. Assigned /\ Cleared /\ Forwarded /\ OpenLines /\ Remembered /\ StashedOfferWaits
  BY DEF RoomInv
<1>e. /\ \A q \in Pid : member'[q] = IF q = p THEN None ELSE member[q]
      /\ \A q \in Pid : tin'[q] = IF q = p THEN NotPublished ELSE tin[q]
      /\ \A q \in Pid, t \in Track : tout'[q][t] = IF p \in {q, Origin(t)} THEN "none" ELSE tout[q][t]
      /\ \A q \in Pid : lines'[q] = IF q = p THEN {} ELSE lines[q]
      /\ \A q \in Pid : queued'[q] = IF q = p THEN NoClientOffer ELSE queued[q]
      /\ \A q \in Pid : pend'[q] = PendWithout(p)[q]
      /\ neg' = neg \ {p}
      /\ fwd' = FwdWithout(p)
      /\ disturbed \subseteq disturbed'
  <2>1. tout' = ToutWithout(p)
    BY Zenon DEF Leave
  <2>2. \A q \in Pid, t \in Track : tout'[q][t] = IF p \in {q, Origin(t)} THEN "none" ELSE tout[q][t]
    BY <1>t, <2>1, WithoutTypes
  <2> QED
    BY <1>t, <2>2 DEF Leave, SendAll, RoomOK, OfferOK
<1>p. \A m \in Media : NotPublished[m] = "none"
  BY DEF NotPublished
<1>1. Assigned'
  <2> SUFFICES ASSUME NEW q \in Pid, NEW t \in Track, tout'[q][t] # "none"
               PROVE  member'[q] # None /\ Origin(t) # q /\ tin'[Origin(t)][t[2]] # "none"
    BY DEF Assigned, InRoom
  <2>1. q # p /\ Origin(t) # p /\ tout[q][t] # "none"
    BY <1>e
  <2> QED
    BY <1>e, <1>i, <2>1, TrackParts DEF Assigned, InRoom
<1>2. Cleared'
  <2> SUFFICES ASSUME NEW q \in Pid, ~pend'[q].on PROVE pend'[q] = NoOffer
    BY DEF Cleared
  <2> QED
    BY <1>e, <1>i, WithoutKept DEF Cleared
<1>3. Forwarded'
  <2> SUFFICES ASSUME NEW q \in Pid, NEW t \in Track
               PROVE  [track |-> t, to |-> q] \in fwd' <=> tout'[q][t] = "open"
    BY DEF Forwarded
  <2>1. [track |-> t, to |-> q] \in fwd'
          <=> [track |-> t, to |-> q] \in fwd /\ q # p /\ Origin(t) # p
    BY <1>e DEF FwdWithout
  <2> QED
    BY <1>e, <1>i, <2>1 DEF Forwarded
<1>4. OpenLines'
  <2> SUFFICES ASSUME NEW q \in Pid, NEW t \in Track, member'[q] \notin disturbed'
               PROVE  /\ tout'[q][t] = "open" => t \in lines'[q]
                      /\ tout'[q][t] = "negotiating" => t \in pend'[q].add
                      /\ t \in pend'[q].drop => tout'[q][t] \notin {"open", "negotiating"}
    BY DEF OpenLines
  <2>1. CASE q = p
    BY <1>e, <2>1, WithoutKept
  <2>2. CASE q # p /\ q \notin Deactivating(p)
    BY <1>e, <1>i, <2>2, WithoutKept DEF OpenLines
  <2>3. CASE q # p /\ q \in Deactivating(p)
    <3>1. /\ tout[q][t] = "open" => t \in lines[q]
          /\ tout[q][t] = "negotiating" => t \in pend[q].add
      BY <1>e, <1>i, <2>3 DEF OpenLines
    <3>2. pend[q].add = {} /\ pend'[q].add = {} /\ pend'[q].drop = DeadLines(q, p)
      BY <1>e, <2>3, WithoutKept
    <3>3. t \in DeadLines(q, p) => tout'[q][t] = "none"
      BY <1>e, WithoutKept
    <3> QED
      BY <1>e, <2>3, <3>1, <3>2, <3>3
  <2> QED
    BY <2>1, <2>2, <2>3
<1>5. Remembered'
  <2> SUFFICES ASSUME NEW q \in Pid, NEW t \in Track, member'[q] # None, Origin(t) # q,
                      tin'[Origin(t)][t[2]] # "none"
               PROVE  \/ tout'[q][t] = "open"
                      \/ tout'[q][t] = "toopen" /\ q \in neg'
                      \/ tout'[q][t] = "negotiating" /\ (t \in pend'[q].add \/ member'[q] \in disturbed')
    BY DEF Remembered, InRoom
  <2>1. q # p /\ Origin(t) # p /\ tin[Origin(t)][t[2]] # "none" /\ InRoom(q)
        /\ tout'[q][t] = tout[q][t]
    BY <1>e, <1>p, TrackParts DEF InRoom
  <2>2. \/ tout[q][t] = "open"
        \/ tout[q][t] = "toopen" /\ q \in neg
        \/ tout[q][t] = "negotiating" /\ (t \in pend[q].add \/ member[q] \in disturbed)
    BY <1>i, <2>1 DEF Remembered
  <2>3. t \in pend[q].add => t \in pend'[q].add
    BY <1>e, <2>1, WithoutKept
  <2> QED
    BY <1>e, <2>1, <2>2, <2>3
<1>6. StashedOfferWaits'
  <2> SUFFICES ASSUME NEW q \in Pid, queued'[q] # NoClientOffer PROVE pend'[q].on
    BY DEF StashedOfferWaits
  <2>1. q # p /\ pend[q].on
    BY <1>e, <1>i DEF StashedOfferWaits
  <2> QED
    BY <1>e, <2>1, WithoutKept
<1> QED
  BY <1>1, <1>2, <1>3, <1>4, <1>5, <1>6 DEF RoomInv

\* c takes the place p: the others are to be offered its camera, and it is to
\* be offered what they publish.
LEMMA JoinRoom ==
  ASSUME TypeOK, RoomInv, NEW c \in Client, NEW p \in Pid, Joins(c, p)
  PROVE  RoomInv'
<1>t. RoomOK /\ OfferOK
  BY TypeParts
<1>i. Assigned /\ Cleared /\ Forwarded /\ OpenLines /\ Remembered /\ StashedOfferWaits
  BY DEF RoomInv
<1>e. /\ \A q \in Pid : member'[q] = IF q = p THEN c ELSE member[q]
      /\ \A q \in Pid : q # p => tin'[q] = tin[q]
      /\ tin'[p]["cam"] = "camera" /\ tin'[p]["screen"] = "none"
      /\ \A q \in Pid : lines'[q] = IF q = p THEN {} ELSE lines[q]
      /\ \A q \in Pid : queued'[q] = IF q = p THEN NoClientOffer ELSE queued[q]
      /\ \A q \in Pid : pend'[q] = PendWithout(p)[q]
      /\ neg' = (neg \ {p}) \cup Others(p) \cup (IF Existing(p) = {} THEN {} ELSE {p})
      /\ fwd' = FwdWithout(p)
      /\ disturbed \subseteq disturbed'
  BY <1>t DEF Joins, SendAll, RoomOK, OfferOK, NotPublished, Media
<1>f. /\ \A t \in Track : tout'[p][t] = IF t \in Existing(p) THEN "toopen" ELSE "none"
      /\ \A q \in Pid, t \in Track : q # p => tout'[q][t] =
           IF q \in Others(p) /\ t = <<p, "cam">> THEN "toopen"
           ELSE IF Origin(t) = p THEN "none" ELSE tout[q][t]
  <2>1. \A q \in Pid, t \in Track : tout'[q][t] =
         IF (q = p /\ t \in Existing(p)) \/ (q \in Others(p) /\ t = <<p, "cam">>)
           THEN "toopen" ELSE ToutWithout(p)[q][t]
    BY DEF Joins
  <2>2. \A q \in Pid, t \in Track :
              ToutWithout(p)[q][t] = IF p \in {q, Origin(t)} THEN "none" ELSE tout[q][t]
    BY <1>t, WithoutTypes
  <2>3. p \notin Others(p)
    BY DEF Others
  <2> QED
    BY <2>1, <2>2, <2>3
<1>m. /\ Origin(<<p, "cam">>) = p /\ <<p, "cam">>[2] = "cam" /\ <<p, "cam">> \in Track
      /\ \A t \in Track : Origin(t) = p /\ t[2] = "cam" => t = <<p, "cam">>
      /\ \A t \in Track : t[2] \in {"cam", "screen"} /\ Origin(t) \in Pid
  BY DEF Track, Origin, Media
<1>x. \A t \in Track : t \in Existing(p) <=> Origin(t) # p /\ tin[Origin(t)][t[2]] # "none"
  BY TrackParts DEF Existing, Published
<1>o. \A q \in Pid : q \in Others(p) <=> q # p /\ member[q] # None
  BY DEF Others, InRoom
<1>c. c # None
  BY NoneAssumption
<1>1. Assigned'
  <2> SUFFICES ASSUME NEW q \in Pid, NEW t \in Track, tout'[q][t] # "none"
               PROVE  member'[q] # None /\ Origin(t) # q /\ tin'[Origin(t)][t[2]] # "none"
    BY DEF Assigned, InRoom
  <2>1. CASE q = p
    BY <1>e, <1>f, <1>x, <1>c, <1>m, <2>1
  <2>2. CASE q # p /\ q \in Others(p) /\ t = <<p, "cam">>
    BY <1>e, <1>o, <1>m, <2>2
  <2>3. CASE q # p /\ ~(q \in Others(p) /\ t = <<p, "cam">>)
    <3>1. tout[q][t] # "none" /\ Origin(t) # p
      BY <1>f, <2>3
    <3> QED
      BY <1>e, <1>i, <1>m, <2>3, <3>1 DEF Assigned, InRoom
  <2> QED
    BY <2>1, <2>2, <2>3
<1>2. Cleared'
  <2> SUFFICES ASSUME NEW q \in Pid, ~pend'[q].on PROVE pend'[q] = NoOffer
    BY DEF Cleared
  <2> QED
    BY <1>e, <1>i, WithoutKept DEF Cleared
<1>3. Forwarded'
  <2> SUFFICES ASSUME NEW q \in Pid, NEW t \in Track
               PROVE  [track |-> t, to |-> q] \in fwd' <=> tout'[q][t] = "open"
    BY DEF Forwarded
  <2>1. [track |-> t, to |-> q] \in fwd'
          <=> [track |-> t, to |-> q] \in fwd /\ q # p /\ Origin(t) # p
    BY <1>e DEF FwdWithout
  <2>2. [track |-> t, to |-> q] \in fwd <=> tout[q][t] = "open"
    BY <1>i DEF Forwarded
  <2> QED
    BY <1>f, <1>m, <2>1, <2>2
<1>4. OpenLines'
  <2> SUFFICES ASSUME NEW q \in Pid, NEW t \in Track, member'[q] \notin disturbed'
               PROVE  /\ tout'[q][t] = "open" => t \in lines'[q]
                      /\ tout'[q][t] = "negotiating" => t \in pend'[q].add
                      /\ t \in pend'[q].drop => tout'[q][t] \notin {"open", "negotiating"}
    BY DEF OpenLines
  <2>1. CASE q = p
    BY <1>e, <1>f, <2>1, WithoutKept
  <2>2. CASE q # p /\ q \notin Deactivating(p)
    <3>1. pend'[q] = pend[q] /\ lines'[q] = lines[q] /\ member[q] \notin disturbed
      BY <1>e, <2>2, WithoutKept
    <3>2. tout'[q][t] \in {"none", "toopen"} \/ tout'[q][t] = tout[q][t]
      BY <1>f, <2>2
    <3> QED
      BY <1>i, <3>1, <3>2 DEF OpenLines
  <2>3. CASE q # p /\ q \in Deactivating(p)
    <3>1. /\ tout[q][t] = "open" => t \in lines[q]
          /\ tout[q][t] = "negotiating" => t \in pend[q].add
      BY <1>e, <1>i, <2>3 DEF OpenLines
    <3>2. pend[q].add = {} /\ pend'[q].add = {} /\ pend'[q].drop = DeadLines(q, p)
      BY <1>e, <2>3, WithoutKept
    <3>3. t \in DeadLines(q, p) => Origin(t) = p
      BY WithoutKept
    <3>4. tout'[q][t] \in {"none", "toopen"} \/ (tout'[q][t] = tout[q][t] /\ Origin(t) # p)
      BY <1>f, <2>3
    <3> QED
      BY <1>e, <2>3, <3>1, <3>2, <3>3, <3>4
  <2> QED
    BY <2>1, <2>2, <2>3
<1>5. Remembered'
  <2> SUFFICES ASSUME NEW q \in Pid, NEW t \in Track, member'[q] # None, Origin(t) # q,
                      tin'[Origin(t)][t[2]] # "none"
               PROVE  \/ tout'[q][t] = "open"
                      \/ tout'[q][t] = "toopen" /\ q \in neg'
                      \/ tout'[q][t] = "negotiating" /\ (t \in pend'[q].add \/ member'[q] \in disturbed')
    BY DEF Remembered, InRoom
  <2>1. CASE q = p
    <3>1. t \in Existing(p)
      BY <1>e, <1>m, <1>x, <2>1
    <3> QED
      BY <1>e, <1>f, <2>1, <3>1
  <2>2. CASE q # p /\ Origin(t) = p
    <3>1. t = <<p, "cam">>
      BY <1>e, <1>m, <2>2
    <3>2. q \in Others(p)
      BY <1>e, <1>o, <2>2
    <3> QED
      BY <1>e, <1>f, <2>2, <3>1, <3>2
  <2>3. CASE q # p /\ Origin(t) # p
    <3>1. tout'[q][t] = tout[q][t] /\ tin[Origin(t)][t[2]] # "none" /\ InRoom(q)
      BY <1>e, <1>f, <1>m, <2>3 DEF InRoom
    <3>2. \/ tout[q][t] = "open"
          \/ tout[q][t] = "toopen" /\ q \in neg
          \/ tout[q][t] = "negotiating" /\ (t \in pend[q].add \/ member[q] \in disturbed)
      BY <1>i, <3>1 DEF Remembered
    <3>3. t \in pend[q].add => t \in pend'[q].add
      BY <1>e, <2>3, WithoutKept
    <3> QED
      BY <1>e, <2>3, <3>1, <3>2, <3>3
  <2> QED
    BY <2>1, <2>2, <2>3
<1>6. StashedOfferWaits'
  <2> SUFFICES ASSUME NEW q \in Pid, queued'[q] # NoClientOffer PROVE pend'[q].on
    BY DEF StashedOfferWaits
  <2>1. q # p /\ pend[q].on
    BY <1>e, <1>i DEF StashedOfferWaits
  <2> QED
    BY <1>e, <2>1, WithoutKept
<1> QED
  BY <1>1, <1>2, <1>3, <1>4, <1>5, <1>6 DEF RoomInv

\* What a client's offer adds: p publishes more, and what is new waits to be
\* offered to the others.  to is tracks_out before.
Adds(p, to) ==
    /\ \A q \in Pid, t \in Track :
         \/ tout'[q][t] = to[q][t]
         \/ /\ to[q][t] = "none" /\ tout'[q][t] = "toopen"
            /\ InRoom(q) /\ Origin(t) = p /\ Origin(t) # q /\ tin'[p][t[2]] # "none"
    /\ \A q \in Pid, m \in Media : tin[q][m] # "none" => tin'[q][m] # "none"
    /\ \A q \in Pid, m \in Media : tin[q][m] = "none" /\ tin'[q][m] # "none" =>
         q = p /\ \A r \in Pid, t \in Track : InRoom(r) /\ r # p /\ t = <<p, m>> =>
                    r \in neg' /\ (to[r][t] = "none" => tout'[r][t] = "toopen")
    /\ neg \subseteq neg'

LEMMA AcceptedAdds ==
  ASSUME RoomOK, NEW p \in Pid, NEW o, NEW to, NEW hit, Accepted(p, o, to, hit)
  PROVE  Adds(p, to) /\ disturbed \cup hit \subseteq disturbed'
<1> DEFINE new == o.media \ Published(p)
<1>e. /\ tin' = [tin EXCEPT ![p] = TaggedWith(p, new)]
      /\ \A q \in Pid, t \in Track : tout'[q][t] =
           IF q \in Others(p) /\ Origin(t) = p /\ t[2] \in new /\ to[q][t] = "none"
             THEN "toopen" ELSE to[q][t]
      /\ neg' = IF new = {} THEN neg ELSE neg \cup Others(p)
      /\ disturbed \cup hit \subseteq disturbed'
  BY DEF Accepted
<1> HIDE DEF new
<1>1. \A q \in Pid : q # p => tin'[q] = tin[q]
  BY <1>e DEF RoomOK
<1>2. \A m \in Media : tin'[p][m] = IF m \notin new THEN tin[p][m]
                                    ELSE IF hints[p] > 0 THEN "screen" ELSE "camera"
  BY <1>e DEF RoomOK, TaggedWith
<1>3. \A q \in Pid : q \in Others(p) <=> q # p /\ InRoom(q)
  BY DEF Others
<1>4. \A q \in Pid, t \in Track :
         \/ tout'[q][t] = to[q][t]
         \/ /\ to[q][t] = "none" /\ tout'[q][t] = "toopen"
            /\ InRoom(q) /\ Origin(t) = p /\ Origin(t) # q /\ tin'[p][t[2]] # "none"
  BY <1>e, <1>2, <1>3, TrackParts
<1>5. \A q \in Pid, m \in Media : tin[q][m] # "none" => tin'[q][m] # "none"
  BY <1>1, <1>2
<1>6. ASSUME NEW q \in Pid, NEW m \in Media, tin[q][m] = "none", tin'[q][m] # "none"
      PROVE  q = p /\ \A r \in Pid, t \in Track : InRoom(r) /\ r # p /\ t = <<p, m>> =>
                    r \in neg' /\ (to[r][t] = "none" => tout'[r][t] = "toopen")
  <2>1. q = p /\ m \in new
    BY <1>1, <1>2, <1>6
  <2>2. neg' = neg \cup Others(p)
    BY <1>e, <2>1
  <2> SUFFICES ASSUME NEW r \in Pid, NEW t \in Track, InRoom(r), r # p, t = <<p, m>>
               PROVE  r \in neg' /\ (to[r][t] = "none" => tout'[r][t] = "toopen")
    BY <2>1
  <2>3. r \in Others(p) /\ Origin(t) = p /\ t[2] = m
    BY <1>3, TrackParts
  <2> QED
    BY <1>e, <2>1, <2>2, <2>3
<1>7. neg \subseteq neg'
  BY <1>e
<1> QED
  BY <1>e, <1>4, <1>5, <1>6, <1>7 DEF Adds

LEMMA NothingAdded ==
  ASSUME NEW to, NEW p, tout' = to, UNCHANGED <<tin, neg>>
  PROVE  Adds(p, to)
BY DEF Adds

\* An offer is stashed, accepted or refused.
LEMMA OfferRoom ==
  ASSUME TypeOK, RoomInv, NEW p \in Pid, Adds(p, tout), disturbed \subseteq disturbed',
         UNCHANGED <<member, lines, fwd, pend>>
  PROVE  Assigned' /\ Cleared' /\ Forwarded' /\ OpenLines' /\ Remembered'
<1>i. Assigned /\ Cleared /\ Forwarded /\ OpenLines /\ Remembered
  BY DEF RoomInv
<1>a. /\ \A q \in Pid, t \in Track :
           \/ tout'[q][t] = tout[q][t]
           \/ /\ tout[q][t] = "none" /\ tout'[q][t] = "toopen"
              /\ InRoom(q) /\ Origin(t) = p /\ Origin(t) # q /\ tin'[p][t[2]] # "none"
      /\ \A q \in Pid, m \in Media : tin[q][m] # "none" => tin'[q][m] # "none"
      /\ neg \subseteq neg'
  BY DEF Adds
<1>1. Assigned'
  BY <1>i, <1>a, TrackParts DEF Assigned, InRoom
<1>2. Cleared'
  BY <1>i DEF Cleared
<1>3. Forwarded'
  <2> SUFFICES ASSUME NEW q \in Pid, NEW t \in Track
               PROVE  [track |-> t, to |-> q] \in fwd <=> tout'[q][t] = "open"
    BY DEF Forwarded
  <2>1. [track |-> t, to |-> q] \in fwd <=> tout[q][t] = "open"
    BY <1>i DEF Forwarded
  <2> QED
    BY <1>a, <2>1
<1>4. OpenLines'
  <2> SUFFICES ASSUME NEW q \in Pid, NEW t \in Track, member'[q] \notin disturbed'
               PROVE  /\ tout'[q][t] = "open" => t \in lines'[q]
                      /\ tout'[q][t] = "negotiating" => t \in pend'[q].add
                      /\ t \in pend'[q].drop => tout'[q][t] \notin {"open", "negotiating"}
    BY DEF OpenLines
  <2> QED
    BY <1>i, <1>a DEF OpenLines
<1>5. Remembered'
  <2> SUFFICES ASSUME NEW q \in Pid, NEW t \in Track, member[q] # None, Origin(t) # q,
                      tin'[Origin(t)][t[2]] # "none"
               PROVE  \/ tout'[q][t] = "open"
                      \/ tout'[q][t] = "toopen" /\ q \in neg'
                      \/ tout'[q][t] = "negotiating" /\ (t \in pend[q].add \/ member[q] \in disturbed')
    BY DEF Remembered, InRoom
  <2>1. CASE tin[Origin(t)][t[2]] = "none"
    <3>1. Origin(t) = p /\ q \in neg' /\ (tout[q][t] = "none" => tout'[q][t] = "toopen")
      <4>1. PICK m \in Media : m = t[2] /\ Origin(t) \in Pid /\ t = <<Origin(t), m>>
        BY TrackParts
      <4>2. Origin(t) = p /\ \A r \in Pid, u \in Track : InRoom(r) /\ r # p /\ u = <<p, m>> =>
                    r \in neg' /\ (tout[r][u] = "none" => tout'[r][u] = "toopen")
        BY <2>1, <4>1 DEF Adds
      <4> QED
        BY <4>1, <4>2 DEF InRoom
    <3>2. tout[q][t] = "none"
      BY <1>i, <2>1 DEF Assigned
    <3> QED
      BY <3>1, <3>2
  <2>2. CASE tin[Origin(t)][t[2]] # "none"
    <3>1. \/ tout[q][t] = "open"
          \/ tout[q][t] = "toopen" /\ q \in neg
          \/ tout[q][t] = "negotiating" /\ (t \in pend[q].add \/ member[q] \in disturbed)
      BY <1>i, <2>2 DEF Remembered, InRoom
    <3> QED
      BY <1>a, <3>1
  <2> QED
    BY <2>1, <2>2
<1> QED
  BY <1>1, <1>2, <1>3, <1>4, <1>5

\* An answer opens what was negotiated, and forgets the offer; one that does
\* not fit is of another client, or of nobody's.
LEMMA AnswerRoom ==
  ASSUME TypeOK, RoomInv, NEW c \in Client, NEW p \in Pid, NEW ok \in BOOLEAN,
         AnswerOf(c, p, ok), UNCHANGED member
  PROVE  RoomInv'
<1>t. RoomOK /\ OfferOK
  BY TypeParts
<1>i. Assigned /\ Cleared /\ Forwarded /\ OpenLines /\ Remembered /\ StashedOfferWaits
  BY DEF RoomInv
<1> DEFINE to == ToutAnswered(p, ok)
<1>b. \A q \in Pid, t \in Track :
        to[q][t] = IF q = p /\ ok /\ tout[q][t] = "negotiating" THEN "open" ELSE tout[q][t]
  BY <1>t, ToutAnsweredTypes
<1>d. Adds(p, to) /\ disturbed \subseteq disturbed' /\ {member[p]} \ {c} \subseteq disturbed'
  <2>1. CASE Accepted(p, queued[p], to, {member[p]} \ {c})
    BY <1>t, <2>1, AcceptedAdds
  <2>2. CASE Refused(p, queued[p], to, lines'[p], {member[p]} \ {c})
    BY <2>2, NothingAdded DEF Refused
  <2>3. CASE /\ tout' = to
             /\ disturbed' = disturbed \cup ({member[p]} \ {c})
             /\ UNCHANGED <<tin, hints, neg, toClient>>
    BY <2>3, NothingAdded
  <2> QED
    BY <2>1, <2>2, <2>3, Zenon DEF AnswerOf
<1> HIDE DEF to
<1>e. /\ InRoom(p)
      /\ ok => pend[p].on
      /\ pend[p].on /\ member[p] = c => ok
      /\ \A q \in Pid : pend'[q] = IF q = p THEN NoOffer ELSE pend[q]
      /\ \A q \in Pid : lines'[q] = IF q = p /\ ok THEN (lines[p] \cup pend[p].add) \ pend[p].drop
                                    ELSE lines[q]
      /\ fwd' = IF ok THEN fwd \cup {[track |-> t, to |-> p] :
                                     t \in {u \in Track : tout[p][u] = "negotiating"}}
                    ELSE fwd
      /\ \A q \in Pid : queued'[q] = IF q = p THEN NoClientOffer ELSE queued[q]
  BY <1>t DEF AnswerOf, Answered, RoomOK, OfferOK
<1>a. /\ \A q \in Pid, t \in Track :
           \/ tout'[q][t] = to[q][t]
           \/ /\ to[q][t] = "none" /\ tout'[q][t] = "toopen"
              /\ InRoom(q) /\ Origin(t) = p /\ Origin(t) # q /\ tin'[p][t[2]] # "none"
      /\ \A q \in Pid, m \in Media : tin[q][m] # "none" => tin'[q][m] # "none"
      /\ neg \subseteq neg'
  BY <1>d DEF Adds
<1>n. NoOffer.add = {} /\ NoOffer.drop = {}
  BY DEF NoOffer
<1>z. ~ok => member[p] \in disturbed' \/ pend[p].add = {}
  BY <1>d, <1>e, <1>i, <1>n DEF Cleared
<1>1. Assigned'
  <2> SUFFICES ASSUME NEW q \in Pid, NEW t \in Track, tout'[q][t] # "none"
               PROVE  member[q] # None /\ Origin(t) # q /\ tin'[Origin(t)][t[2]] # "none"
    BY DEF Assigned, InRoom
  <2>1. CASE tout'[q][t] = to[q][t]
    <3>1. tout[q][t] # "none"
      BY <1>b, <2>1
    <3> QED
      BY <1>a, <1>i, <3>1, TrackParts DEF Assigned, InRoom
  <2> QED
    BY <1>a, <2>1 DEF InRoom
<1>2. Cleared'
  BY <1>e, <1>i DEF Cleared
<1>3. Forwarded'
  <2> SUFFICES ASSUME NEW q \in Pid, NEW t \in Track
               PROVE  [track |-> t, to |-> q] \in fwd' <=> tout'[q][t] = "open"
    BY DEF Forwarded
  <2>1. tout'[q][t] = "open" <=> tout[q][t] = "open" \/ (q = p /\ ok /\ tout[q][t] = "negotiating")
    BY <1>a, <1>b
  <2>2. [track |-> t, to |-> q] \in fwd <=> tout[q][t] = "open"
    BY <1>i DEF Forwarded
  <2>3. [track |-> t, to |-> q] \in {[track |-> u, to |-> p] :
                                     u \in {v \in Track : tout[p][v] = "negotiating"}}
          <=> q = p /\ tout[q][t] = "negotiating"
    OBVIOUS
  <2> QED
    BY <1>e, <2>1, <2>2, <2>3
<1>4. OpenLines'
  <2> SUFFICES ASSUME NEW q \in Pid, NEW t \in Track, member[q] \notin disturbed'
               PROVE  /\ tout'[q][t] = "open" => t \in lines'[q]
                      /\ tout'[q][t] = "negotiating" => t \in pend'[q].add
                      /\ t \in pend'[q].drop => tout'[q][t] \notin {"open", "negotiating"}
    BY DEF OpenLines
  <2>1. /\ tout[q][t] = "open" => t \in lines[q]
        /\ tout[q][t] = "negotiating" => t \in pend[q].add
        /\ t \in pend[q].drop => tout[q][t] \notin {"open", "negotiating"}
    BY <1>d, <1>i DEF OpenLines
  <2>2. CASE q = p
    BY <1>a, <1>b, <1>e, <1>n, <1>z, <2>1, <2>2
  <2>3. CASE q # p
    BY <1>a, <1>b, <1>e, <2>1, <2>3
  <2> QED
    BY <2>2, <2>3
<1>5. Remembered'
  <2> SUFFICES ASSUME NEW q \in Pid, NEW t \in Track, member[q] # None, Origin(t) # q,
                      tin'[Origin(t)][t[2]] # "none"
               PROVE  \/ tout'[q][t] = "open"
                      \/ tout'[q][t] = "toopen" /\ q \in neg'
                      \/ tout'[q][t] = "negotiating" /\ (t \in pend'[q].add \/ member[q] \in disturbed')
    BY DEF Remembered, InRoom
  <2>1. CASE tin[Origin(t)][t[2]] = "none"
    <3>1. Origin(t) = p /\ q \in neg' /\ (to[q][t] = "none" => tout'[q][t] = "toopen")
      <4>1. PICK m \in Media : m = t[2] /\ Origin(t) \in Pid /\ t = <<Origin(t), m>>
        BY TrackParts
      <4>2. Origin(t) = p /\ \A r \in Pid, u \in Track : InRoom(r) /\ r # p /\ u = <<p, m>> =>
                    r \in neg' /\ (to[r][u] = "none" => tout'[r][u] = "toopen")
        BY <1>d, <2>1, <4>1 DEF Adds
      <4> QED
        BY <4>1, <4>2 DEF InRoom
    <3>2. tout[q][t] = "none"
      BY <1>i, <2>1 DEF Assigned
    <3> QED
      BY <1>b, <3>1, <3>2
  <2>2. CASE tin[Origin(t)][t[2]] # "none"
    <3>1. \/ tout[q][t] = "open"
          \/ tout[q][t] = "toopen" /\ q \in neg
          \/ tout[q][t] = "negotiating" /\ (t \in pend[q].add \/ member[q] \in disturbed)
      BY <1>i, <2>2 DEF Remembered, InRoom
    <3>2. CASE q = p
      BY <1>a, <1>b, <1>d, <1>e, <1>z, <3>1, <3>2
    <3>3. CASE q # p
      BY <1>a, <1>b, <1>d, <1>e, <3>1, <3>3
    <3> QED
      BY <3>2, <3>3
  <2> QED
    BY <2>1, <2>2
<1>6. StashedOfferWaits'
  BY <1>e, <1>i DEF StashedOfferWaits
<1> QED
  BY <1>1, <1>2, <1>3, <1>4, <1>5, <1>6 DEF RoomInv

\* Whoever owes no answer is offered all that waits.
LEMMA NegotiateRoom ==
  ASSUME TypeOK, RoomInv, Negotiates
  PROVE  RoomInv'
<1>i. Assigned /\ Cleared /\ Forwarded /\ OpenLines /\ Remembered /\ StashedOfferWaits
  BY DEF RoomInv
<1>e. /\ \A q \in Pid, t \in Track : tout'[q][t] =
           IF q \in Offering /\ tout[q][t] = "toopen" THEN "negotiating" ELSE tout[q][t]
      /\ \A q \in Pid : q \notin Offering => pend'[q] = pend[q]
      /\ \A q \in Pid : q \in Offering => pend'[q].on /\ pend'[q].add = ToOpen(q) /\ pend'[q].drop = {}
      /\ neg' = Retrying /\ disturbed \subseteq disturbed'
      /\ UNCHANGED <<member, tin, lines, fwd, queued>>
  BY DEF Negotiates, SendAll, Outstanding
<1>o. \A q \in Pid : /\ q \in Offering <=> q \in neg /\ InRoom(q) /\ ~pend[q].on /\ ToOpen(q) # {}
                     /\ \A t \in Track : t \in ToOpen(q) <=> tout[q][t] = "toopen"
                     /\ q \in Retrying <=> q \in neg /\ InRoom(q) /\ pend[q].on
  BY DEF Offering, ToOpen, Retrying
<1>n. \A q \in Pid : q \in Offering => pend[q].add = {} /\ pend[q].drop = {}
  BY <1>i, <1>o DEF Cleared, NoOffer
<1>1. Assigned'
  BY <1>e, <1>i DEF Assigned, InRoom
<1>2. Cleared'
  BY <1>e, <1>i DEF Cleared
<1>3. Forwarded'
  <2> SUFFICES ASSUME NEW q \in Pid, NEW t \in Track
               PROVE  [track |-> t, to |-> q] \in fwd <=> tout'[q][t] = "open"
    BY <1>e DEF Forwarded
  <2>1. [track |-> t, to |-> q] \in fwd <=> tout[q][t] = "open"
    BY <1>i DEF Forwarded
  <2> QED
    BY <1>e, <2>1
<1>4. OpenLines'
  <2> SUFFICES ASSUME NEW q \in Pid, NEW t \in Track, member[q] \notin disturbed'
               PROVE  /\ tout'[q][t] = "open" => t \in lines[q]
                      /\ tout'[q][t] = "negotiating" => t \in pend'[q].add
                      /\ t \in pend'[q].drop => tout'[q][t] \notin {"open", "negotiating"}
    BY <1>e DEF OpenLines
  <2>1. /\ tout[q][t] = "open" => t \in lines[q]
        /\ tout[q][t] = "negotiating" => t \in pend[q].add
        /\ t \in pend[q].drop => tout[q][t] \notin {"open", "negotiating"}
    BY <1>e, <1>i DEF OpenLines
  <2> QED
    BY <1>e, <1>n, <1>o, <2>1
<1>5. Remembered'
  <2> SUFFICES ASSUME NEW q \in Pid, NEW t \in Track, InRoom(q), Origin(t) # q,
                      tin[Origin(t)][t[2]] # "none"
               PROVE  \/ tout'[q][t] = "open"
                      \/ tout'[q][t] = "toopen" /\ q \in neg'
                      \/ tout'[q][t] = "negotiating" /\ (t \in pend'[q].add \/ member[q] \in disturbed')
    BY <1>e DEF Remembered, InRoom
  <2>1. \/ tout[q][t] = "open"
        \/ tout[q][t] = "toopen" /\ q \in neg
        \/ tout[q][t] = "negotiating" /\ (t \in pend[q].add \/ member[q] \in disturbed)
    BY <1>i DEF Remembered
  <2> QED
    BY <1>e, <1>n, <1>o, <2>1
<1>6. StashedOfferWaits'
  BY <1>e, <1>i DEF StashedOfferWaits
<1> QED
  BY <1>1, <1>2, <1>3, <1>4, <1>5, <1>6 DEF RoomInv

LEMMA RoomStep ==
  ASSUME TypeOK, RoomInv, [Next]_vars
  PROVE  RoomInv'
<1>t. RoomOK /\ OfferOK /\ WireOK
  BY TypeParts
<1>k. ASSUME disturbed \subseteq disturbed', UNCHANGED <<member, tin, tout, lines, pend, neg, fwd>>,
             UNCHANGED queued
      PROVE  RoomInv'
  <2>1. StashedOfferWaits'
    BY <1>k DEF RoomInv, StashedOfferWaits
  <2> QED
    BY <1>k, <2>1, TracksKept DEF RoomInv
<1>1. ASSUME NEW c \in Client, ClientStep(c) PROVE RoomInv'
  <2>1. disturbed \subseteq disturbed'
    BY <1>1 DEF ClientStep, ClientJoin, ShareHint, ShareOffer, ClientOffers, ClientAnswered,
       ClientTakesOffer, ClientAnswers, ClientLeaves, ClientForced, Ends
  <2>2. UNCHANGED <<roomVars, offerVars>>
    BY <1>1 DEF ClientStep, ClientJoin, ShareHint, ShareOffer, ClientAnswered, ClientTakesOffer,
           ClientAnswers, ClientLeaves, ClientForced, Ends
  <2> QED
    BY <1>k, <2>1, <2>2 DEF roomVars, offerVars
<1>2. ASSUME NEW c \in Client, ShardStep(c) PROVE RoomInv'
  <2>p. PidOf[c] \in Pid
    BY PidOfClient
  <2>1. CASE HandleJoin(c)
    BY <1>t, <2>1, <2>p, JoinEffect, JoinRoom
  <2>2. CASE HandleLeave(c)
    BY <2>2, <2>p, LeaveRoom DEF HandleLeave
  <2>3. CASE HandlePublishTrack(c)
    BY <1>k, <2>3 DEF HandlePublishTrack, offerVars
  <2>4. CASE HandleClientOffer(c)
    <3> DEFINE p == PidOf[c]
               o == Head(toSfu[c]).offer
    <3>0. UNCHANGED <<member, lines, fwd, pend>> /\ o \in Offer
      BY <1>t, <2>4, TakesTypes DEF HandleClientOffer, WireOK
    <3>1. CASE UNCHANGED <<tin, tout, hints, neg, queued, toClient, disturbed>>
      BY <1>k, <3>0, <3>1
    <3>2. CASE InRoom(p) /\ MustStash(p) /\ queued' = [queued EXCEPT ![p] = o]
               /\ UNCHANGED <<tin, tout, hints, neg, toClient, disturbed>>
      <4>1. Assigned' /\ Cleared' /\ Forwarded' /\ OpenLines' /\ Remembered'
        BY <3>0, <3>2, TracksKept
      <4>2. StashedOfferWaits'
        BY <1>t, <3>0, <3>2, <2>p DEF RoomInv, StashedOfferWaits, MustStash, OfferOK
      <4> QED
        BY <4>1, <4>2 DEF RoomInv
    <3>3. CASE AcceptOffer(p, o, tout, lines[p], {}) /\ UNCHANGED queued
      <4>1. tout \in [Pid -> [Track -> ToutState]]
        BY <1>t DEF RoomOK
      <4> HIDE DEF o, p
      <4>2. Accepted(p, o, tout, {}) \/ Refused(p, o, tout, lines[p], {})
        BY <1>t, <2>p, <3>0, <3>3, <4>1, AcceptEffect DEF p
      <4>3. Adds(p, tout) /\ disturbed \subseteq disturbed'
        <5>1. CASE Accepted(p, o, tout, {})
          BY <1>t, <2>p, <5>1, AcceptedAdds DEF p
        <5>2. CASE Refused(p, o, tout, lines[p], {})
          BY <5>2, NothingAdded DEF Refused
        <5> QED
          BY <4>2, <5>1, <5>2
      <4>4. Assigned' /\ Cleared' /\ Forwarded' /\ OpenLines' /\ Remembered'
        BY <2>p, <3>0, <4>3, OfferRoom DEF p
      <4>5. StashedOfferWaits'
        BY <3>0, <3>3 DEF RoomInv, StashedOfferWaits
      <4> QED
        BY <4>4, <4>5 DEF RoomInv
    <3> QED
      BY <2>4, <3>1, <3>2, <3>3, Zenon DEF HandleClientOffer
  <2>5. CASE HandleAnswer(c)
    <3>1. CASE ~InRoom(PidOf[c])
               /\ UNCHANGED <<tin, tout, lines, hints, neg, fwd, offerVars, toClient, disturbed>>
      <4>1. UNCHANGED member
        BY <1>t, <2>5, AnswerEffect
      <4> QED
        BY <1>k, <3>1, <4>1 DEF offerVars
    <3>2. ASSUME NEW ok \in BOOLEAN, AnswerOf(c, PidOf[c], ok) PROVE RoomInv'
      <4>1. UNCHANGED member
        BY <1>t, <2>5, AnswerEffect
      <4> QED
        BY <2>p, <3>2, <4>1, AnswerRoom
    <3> QED
      BY <1>t, <2>5, <3>1, <3>2, AnswerEffect
  <2> QED
    BY <1>2, <2>1, <2>2, <2>3, <2>4, <2>5 DEF ShardStep
<1>3. ASSUME NEW c \in Client, DropCommand(c) PROVE RoomInv'
  BY <1>3, <1>k DEF DropCommand, roomVars, offerVars
<1>4. ASSUME NEW p \in Pid, Zombie(p) PROVE RoomInv'
  BY <1>4, LeaveRoom DEF Zombie
<1>5. CASE UNCHANGED vars
  BY <1>5, <1>k DEF vars, roomVars, offerVars
<1>6. CASE NegotiatePendingTracks
  BY <1>t, <1>6, NegotiateEffect, NegotiateRoom
<1> QED
  BY <1>1, <1>2, <1>3, <1>4, <1>5, <1>6 DEF Next

LEMMA InitRoom == Init => RoomInv
<1> SUFFICES ASSUME Init PROVE RoomInv
  OBVIOUS
<1>e. /\ \A p \in Pid : member[p] = None /\ pend[p] = NoOffer /\ queued[p] = NoClientOffer
      /\ \A p \in Pid, t \in Track : tout[p][t] = "none"
      /\ fwd = {}
  BY DEF Init, NoTracks
<1>1. Assigned /\ Cleared /\ Forwarded /\ StashedOfferWaits
  BY <1>e DEF Assigned, Cleared, Forwarded, StashedOfferWaits
<1>2. OpenLines
  <2>1. NoOffer.drop = {}
    BY DEF NoOffer
  <2> QED
    BY <1>e, <2>1 DEF OpenLines
<1>3. Remembered
  BY <1>e DEF Remembered, InRoom
<1> QED
  BY <1>1, <1>2, <1>3 DEF RoomInv

\* However joins, leaves, offers and answers follow each other, a track that is
\* published is forwarded to everyone else in the call, part of the offer under
\* way to them, or due to be negotiated.
THEOREM TracksCorrect == Spec => []NoTrackForgotten
<1>1. TypeOK /\ RoomInv /\ [Next]_vars => TypeOK' /\ RoomInv'
  BY TypeStep, RoomStep
<1>2. TypeOK /\ RoomInv => NoTrackForgotten
  BY RoomProperties DEF RoomInv
<1> QED
  BY <1>1, <1>2, InitTypes, InitRoom, PTL DEF Spec

-----------------------------------------------------------------------------
(* A client and its place in the room.                                     *)

\* What there is of a client: at its end, on the wires, and at the place of its
\* participant id.
View(c) == [down |-> toClient[c], up |-> toSfu[c], sig |-> sig[c], offered |-> offered[c],
            share |-> share[c], deaf |-> deaf[c], views |-> views[c],
            lines |-> lines[PidOf[c]], pend |-> pend[PidOf[c]], queued |-> queued[PidOf[c]],
            tin |-> tin[PidOf[c]], hints |-> hints[PidOf[c]]]

Typed(v) ==
    /\ v.down \in Seq(Message) /\ v.up \in Seq(Command)
    /\ v.offered \in SUBSET Media /\ v.views \in SUBSET Track /\ v.lines \in SUBSET Track
    /\ v.pend \in [on : BOOLEAN, add : SUBSET Track, drop : SUBSET Track]
    /\ v.queued \in Offer /\ v.hints \in Nat

Bit(yes) == IF yes THEN 1 ELSE 0

\* An offer of the SFU is outstanding: on its way, being answered, or answered.
OneOut(v) ==
    Count(v.down, "offer") + Count(v.up, "answer") + Bit(v.sig = "have-remote-offer")
      = Bit(v.pend.on)

\* The client waits for an answer if an offer of its is on its way, stashed, or
\* answered; it may wait for ever, if another client has displaced the offer.
OneIn(c, v) ==
    Count(v.down, "answer") + Count(v.up, "offer") + Bit(v.queued.from = c)
      <= Bit(v.sig = "have-local-offer")

\* The m-lines once the outstanding offer is answered, and the client's offer.
Target(v) == (v.lines \cup v.pend.add) \ v.pend.drop
Own(c, v) == [from |-> c, media |-> Media, seen |-> v.views]

\* What is on its way is up to date, and so is what the client sees.
DownSays(v) == \A i \in 1..Len(v.down) :
    /\ v.down[i].op = "answer" => v.down[i].media = v.offered
    /\ v.down[i].op = "offer" => v.down[i].tracks = Target(v)
UpSays(c, v) ==
    /\ \A i \in 1..Len(v.up) :
         v.up[i].op = "offer" => v.offered = Media /\ v.up[i].offer = Own(c, v)
    /\ v.queued.from = c => v.offered = Media /\ v.queued = Own(c, v)
Sees(v) == v.views = IF Waits(v.down, "offer") THEN v.lines ELSE Target(v)

\* A screen is hinted at before it is offered, and tagged as one.
Tagged(v) == v.tin["cam"] = "camera" /\ v.tin["screen"] \in {"none", "screen"}
Shares(c, v) ==
    /\ v.offered \in {{"cam"}, Media}
    /\ v.share = "no" => v.offered = {"cam"}
    /\ v.offered = Media /\ v.tin["screen"] = "none" =>
         v.sig = "have-local-offer" /\ ~Waits(v.down, "answer")
Hinted(c, v) ==
    /\ v.share # "no" /\ v.tin["screen"] = "none" => v.hints > 0 \/ Waits(v.up, "hint")
    /\ \A i, j \in 1..Len(v.up) : v.up[i].op = "hint" /\ v.up[j].op = "offer" => i < j
    /\ v.queued.from = c => ~Waits(v.up, "hint")

Fits(c, v) ==
    ~v.deaf /\ OneOut(v) /\ OneIn(c, v) /\ DownSays(v) /\ UpSays(c, v) /\ Sees(v)
      /\ Tagged(v) /\ Shares(c, v) /\ Hinted(c, v)

LEMMA BitValues == \A yes \in BOOLEAN : Bit(yes) \in {0, 1} /\ (Bit(yes) = 1 <=> yes)
BY DEF Bit

\* Counting what is sent and what is taken.
LEMMA QueueAppend ==
  ASSUME NEW S, NEW s \in Seq(S), NEW e \in S, NEW op
  PROVE  /\ Count(s, op) \in Nat /\ (Count(s, op) = 0 <=> ~Waits(s, op))
         /\ Count(Append(s, e), op) = Count(s, op) + Bit(e.op = op)
         /\ Waits(Append(s, e), op) <=> Waits(s, op) \/ e.op = op
<1>1. Append(s, e) \in Seq(S)
  BY Appended
<1>2. Count(Append(s, e), op) = Count(s, op) + Bit(e.op = op)
  BY CountAppend DEF Bit
<1>3. Count(s, op) \in Nat /\ (Count(s, op) = 0 <=> ~Waits(s, op))
  BY CountFinite
<1>4. Count(Append(s, e), op) = 0 <=> ~Waits(Append(s, e), op)
  BY <1>1, CountFinite
<1>5. Waits(Append(s, e), op) <=> Waits(s, op) \/ e.op = op
  BY <1>2, <1>3, <1>4 DEF Bit
<1> QED
  BY <1>2, <1>3, <1>5

LEMMA QueueTail ==
  ASSUME NEW S, NEW s \in Seq(S), s # <<>>, NEW op
  PROVE  /\ Count(s, op) \in Nat /\ (Count(s, op) = 0 <=> ~Waits(s, op))
         /\ Count(s, op) = Count(Tail(s), op) + Bit(Head(s).op = op)
         /\ Waits(s, op) <=> Waits(Tail(s), op) \/ Head(s).op = op
         /\ Count(Tail(s), op) \in Nat /\ (Count(Tail(s), op) = 0 <=> ~Waits(Tail(s), op))
<1>1. Tail(s) \in Seq(S)
  BY TailTaken
<1>2. Count(s, op) = Count(Tail(s), op) + Bit(Head(s).op = op)
  BY CountTail DEF Bit
<1>3. /\ Count(Tail(s), op) \in Nat /\ (Count(Tail(s), op) = 0 <=> ~Waits(Tail(s), op))
      /\ Count(s, op) \in Nat /\ (Count(s, op) = 0 <=> ~Waits(s, op))
  BY <1>1, CountFinite
<1>4. Waits(s, op) <=> Waits(Tail(s), op) \/ Head(s).op = op
  BY <1>2, <1>3 DEF Bit
<1> QED
  BY <1>2, <1>3, <1>4

\* case "offer": the client takes the SFU's offer while it owes nothing.
LEMMA FitsTakesOffer ==
  ASSUME NEW c \in Client, NEW v, NEW w, Typed(v), Typed(w), Fits(c, v),
         v.sig = "stable", v.down # <<>>, Head(v.down).op = "offer",
         w.down = Tail(v.down), w.sig = "have-remote-offer", w.views = Head(v.down).tracks,
         w.up = v.up, w.offered = v.offered, w.share = v.share, w.deaf = v.deaf,
         w.lines = v.lines, w.pend = v.pend, w.queued = v.queued, w.tin = v.tin,
         w.hints = v.hints
  PROVE  Fits(c, w)
<1>c. /\ Count(v.down, "offer") = Count(w.down, "offer") + 1 /\ Count(w.down, "offer") \in Nat
      /\ Count(v.down, "answer") = Count(w.down, "answer") /\ Count(w.down, "answer") \in Nat
      /\ Count(v.up, "answer") \in Nat /\ Count(v.up, "offer") \in Nat
      /\ Count(v.up, "offer") = 0 <=> ~Waits(v.up, "offer")
      /\ Count(w.down, "offer") = 0 <=> ~Waits(w.down, "offer")
      /\ Waits(v.down, "answer") <=> Waits(w.down, "answer")
  <2>1. \A op : Count(v.down, op) = Count(w.down, op) + Bit(Head(v.down).op = op)
                /\ Count(w.down, op) \in Nat
                /\ (Waits(v.down, op) <=> Waits(w.down, op) \/ Head(v.down).op = op)
                /\ (Count(w.down, op) = 0 <=> ~Waits(w.down, op))
    BY QueueTail DEF Typed
  <2>2. \A op : Count(v.up, op) \in Nat /\ (Count(v.up, op) = 0 <=> ~Waits(v.up, op))
    BY CountFinite DEF Typed
  <2> QED
    BY <2>1, <2>2 DEF Bit
<1>d. /\ \A i \in 1..Len(w.down) : i + 1 \in 1..Len(v.down) /\ w.down[i] = v.down[i + 1]
      /\ 1 \in 1..Len(v.down) /\ Head(v.down) = v.down[1]
  BY TailTaken DEF Typed
<1>b. /\ Bit(v.sig = "have-remote-offer") = 0 /\ Bit(w.sig = "have-remote-offer") = 1
      /\ Bit(v.sig = "have-local-offer") = 0 /\ Bit(w.sig = "have-local-offer") = 0
      /\ Bit(v.queued.from = c) \in {0, 1} /\ (Bit(v.queued.from = c) = 1 <=> v.queued.from = c)
      /\ Bit(v.pend.on) \in {0, 1}
  BY DEF Bit
<1>1. OneOut(w) /\ Count(w.down, "offer") = 0
  BY <1>b, <1>c DEF Fits, OneOut
<1>2. OneIn(c, w) /\ Count(v.up, "offer") = 0 /\ v.queued.from # c
  BY <1>b, <1>c DEF Fits, OneIn
<1>3. DownSays(w) /\ w.views = Target(w)
  BY <1>d DEF Fits, DownSays, Target
<1>4. UpSays(c, w)
  BY <1>2, <1>c DEF UpSays, Waits
<1>5. Sees(w)
  BY <1>1, <1>3, <1>c DEF Sees
<1>6. Tagged(w) /\ Hinted(c, w) /\ ~w.deaf
  BY DEF Fits, Tagged, Hinted
<1>7. Shares(c, w)
  BY DEF Fits, Shares
<1> QED
  BY <1>1, <1>2, <1>3, <1>4, <1>5, <1>6, <1>7 DEF Fits

\* ... and answers it.
LEMMA FitsAnswers ==
  ASSUME NEW c \in Client, NEW v, NEW w, Typed(v), Typed(w), Fits(c, v),
         v.sig = "have-remote-offer", w.sig = "stable", w.up = Append(v.up, Cmd("answer")),
         w.down = v.down, w.offered = v.offered, w.share = v.share, w.deaf = v.deaf,
         w.views = v.views, w.lines = v.lines, w.pend = v.pend, w.queued = v.queued,
         w.tin = v.tin, w.hints = v.hints
  PROVE  Fits(c, w)
<1>m. Cmd("answer") \in Command /\ Cmd("answer").op = "answer"
  BY MessageTypes DEF Cmd
<1>c. /\ Count(w.up, "answer") = Count(v.up, "answer") + 1 /\ Count(v.up, "answer") \in Nat
      /\ Count(w.up, "offer") = Count(v.up, "offer") /\ Count(v.up, "offer") \in Nat
      /\ Count(v.down, "offer") \in Nat /\ Count(v.down, "answer") \in Nat
      /\ Waits(v.up, "hint") <=> Waits(w.up, "hint")
  <2>1. \A op : Count(w.up, op) = Count(v.up, op) + Bit(Cmd("answer").op = op)
                /\ Count(v.up, op) \in Nat
                /\ (Waits(w.up, op) <=> Waits(v.up, op) \/ Cmd("answer").op = op)
    BY <1>m, QueueAppend DEF Typed
  <2>2. \A op : Count(v.down, op) \in Nat
    BY CountFinite DEF Typed
  <2> QED
    BY <1>m, <2>1, <2>2 DEF Bit
<1>d. /\ \A i \in 1..Len(w.up) : i \in 1..Len(v.up) \/ i = Len(v.up) + 1
      /\ \A i \in 1..Len(v.up) : w.up[i] = v.up[i]
      /\ w.up[Len(v.up) + 1].op = "answer"
  BY <1>m, Appended DEF Typed
<1>b. /\ Bit(v.sig = "have-remote-offer") = 1 /\ Bit(w.sig = "have-remote-offer") = 0
      /\ Bit(v.sig = "have-local-offer") = 0 /\ Bit(w.sig = "have-local-offer") = 0
  BY DEF Bit
<1>1. OneOut(w)
  BY <1>b, <1>c DEF Fits, OneOut
<1>2. OneIn(c, w)
  BY <1>b, <1>c DEF Fits, OneIn
<1>3. DownSays(w) /\ Sees(w) /\ Tagged(w) /\ ~w.deaf
  BY DEF Fits, DownSays, Sees, Target, Tagged
<1>4. UpSays(c, w)
  BY <1>d DEF Fits, UpSays, Own
<1>5. Shares(c, w)
  BY DEF Fits, Shares
<1>6. Hinted(c, w)
  BY <1>c, <1>d DEF Fits, Hinted
<1> QED
  BY <1>1, <1>2, <1>3, <1>4, <1>5, <1>6 DEF Fits

\* case "answer": it answers what the client has offered.
LEMMA FitsAnswered ==
  ASSUME NEW c \in Client, NEW v, NEW w, Typed(v), Typed(w), Fits(c, v),
         v.down # <<>>, Head(v.down).op = "answer",
         w.down = Tail(v.down), w.sig = "stable",
         w.views = v.views, w.up = v.up, w.offered = v.offered, w.share = v.share,
         w.deaf = v.deaf, w.lines = v.lines, w.pend = v.pend, w.queued = v.queued,
         w.tin = v.tin, w.hints = v.hints
  PROVE  Fits(c, w) /\ v.sig = "have-local-offer" /\ Head(v.down).media = v.offered
<1>c. /\ Count(v.down, "answer") = Count(w.down, "answer") + 1 /\ Count(w.down, "answer") \in Nat
      /\ Count(v.down, "offer") = Count(w.down, "offer") /\ Count(w.down, "offer") \in Nat
      /\ Count(v.up, "answer") \in Nat /\ Count(v.up, "offer") \in Nat
      /\ Waits(v.down, "answer")
      /\ Waits(v.down, "offer") <=> Waits(w.down, "offer")
  <2>1. \A op : Count(v.down, op) = Count(w.down, op) + Bit(Head(v.down).op = op)
                /\ Count(w.down, op) \in Nat
                /\ (Waits(v.down, op) <=> Waits(w.down, op) \/ Head(v.down).op = op)
    BY QueueTail DEF Typed
  <2>2. \A op : Count(v.up, op) \in Nat
    BY CountFinite DEF Typed
  <2> QED
    BY <2>1, <2>2 DEF Bit
<1>d. /\ \A i \in 1..Len(w.down) : i + 1 \in 1..Len(v.down) /\ w.down[i] = v.down[i + 1]
      /\ 1 \in 1..Len(v.down) /\ Head(v.down) = v.down[1]
  BY TailTaken DEF Typed
<1>b. /\ Bit(v.sig = "have-local-offer") \in {0, 1} /\ Bit(w.sig = "have-local-offer") = 0
      /\ Bit(v.sig = "have-local-offer") = 1 => v.sig = "have-local-offer"
      /\ v.sig = "have-local-offer" => Bit(v.sig = "have-remote-offer") = 0
      /\ Bit(w.sig = "have-remote-offer") = 0
      /\ Bit(v.queued.from = c) \in {0, 1}
  BY DEF Bit
<1>0. v.sig = "have-local-offer" /\ OneIn(c, w)
  BY <1>b, <1>c DEF Fits, OneIn
<1>1. OneOut(w)
  BY <1>0, <1>b, <1>c DEF Fits, OneOut
<1>2. DownSays(w) /\ Head(v.down).media = v.offered
  BY <1>d DEF Fits, DownSays, Target
<1>3. UpSays(c, w) /\ Tagged(w) /\ Hinted(c, w) /\ ~w.deaf
  BY DEF Fits, UpSays, Own, Tagged, Hinted
<1>4. Sees(w)
  BY <1>c DEF Fits, Sees, Target
<1>5. Shares(c, w)
  BY <1>c DEF Fits, Shares
<1> QED
  BY <1>0, <1>1, <1>2, <1>3, <1>4, <1>5 DEF Fits

\* publishScreen hints first ...
LEMMA FitsHints ==
  ASSUME NEW c \in Client, NEW v, NEW w, Typed(v), Typed(w), Fits(c, v),
         v.share = "no", w.share # "no", w.up = Append(v.up, Cmd("hint")),
         w.down = v.down, w.sig = v.sig, w.offered = v.offered, w.deaf = v.deaf,
         w.views = v.views, w.lines = v.lines, w.pend = v.pend, w.queued = v.queued,
         w.tin = v.tin, w.hints = v.hints
  PROVE  Fits(c, w)
<1>m. Cmd("hint") \in Command /\ Cmd("hint").op = "hint" /\ Media # {"cam"}
  <2>1. "screen" \in Media /\ "screen" \notin {"cam"}
    BY DEF Media
  <2>2. Cmd("hint") \in Command /\ Cmd("hint").op = "hint"
    BY MessageTypes DEF Cmd
  <2> QED
    BY <2>1, <2>2
<1>c. /\ Count(w.up, "answer") = Count(v.up, "answer")
      /\ Count(w.up, "offer") = Count(v.up, "offer")
      /\ Waits(w.up, "hint")
  <2>1. \A op : Count(w.up, op) = Count(v.up, op) + Bit(Cmd("hint").op = op)
                /\ Count(v.up, op) \in Nat
                /\ (Waits(w.up, op) <=> Waits(v.up, op) \/ Cmd("hint").op = op)
    BY <1>m, QueueAppend DEF Typed
  <2> QED
    BY <1>m, <2>1 DEF Bit
<1>d. /\ \A i \in 1..Len(w.up) : i \in 1..Len(v.up) \/ i = Len(v.up) + 1
      /\ \A i \in 1..Len(v.up) : w.up[i] = v.up[i]
      /\ w.up[Len(v.up) + 1].op = "hint"
  BY <1>m, Appended DEF Typed
<1>0. v.offered = {"cam"}
  BY DEF Fits, Shares
<1>1. OneOut(w) /\ OneIn(c, w)
  BY <1>c DEF Fits, OneOut, OneIn
<1>2. DownSays(w) /\ Sees(w) /\ Tagged(w) /\ ~w.deaf
  BY DEF Fits, DownSays, Sees, Target, Tagged
<1>3. UpSays(c, w)
  BY <1>d DEF Fits, UpSays, Own
<1>4. Shares(c, w)
  BY DEF Fits, Shares
<1>5. Hinted(c, w)
  <2>1. \A i \in 1..Len(w.up) : w.up[i].op # "offer"
    BY <1>0, <1>3, <1>m DEF UpSays
  <2>2. v.queued.from # c
    BY <1>0, <1>m DEF Fits, UpSays
  <2> QED
    BY <1>c, <2>1, <2>2 DEF Hinted
<1> QED
  BY <1>1, <1>2, <1>3, <1>4, <1>5 DEF Fits

\* ... and offers then, while nothing of its is under way.
LEMMA FitsOffers ==
  ASSUME NEW c \in Client, NEW v, NEW w, Typed(v), Typed(w), Fits(c, v),
         v.sig = "stable", v.share # "no", w.share # "no", w.sig = "have-local-offer",
         w.offered = Media, w.up = Append(v.up, OfferCmd(c, Media, v.views)),
         w.down = v.down, w.deaf = v.deaf, w.views = v.views, w.lines = v.lines,
         w.pend = v.pend, w.queued = v.queued, w.tin = v.tin, w.hints = v.hints
  PROVE  Fits(c, w)
<1> DEFINE e == OfferCmd(c, Media, v.views)
<1>m. e \in Command /\ e.op = "offer" /\ e.offer = Own(c, w)
  BY MessageTypes DEF OfferCmd, Own, Typed
<1>c. /\ Count(w.up, "answer") = Count(v.up, "answer") /\ Count(v.up, "answer") \in Nat
      /\ Count(w.up, "offer") = Count(v.up, "offer") + 1 /\ Count(v.up, "offer") \in Nat
      /\ Count(v.down, "offer") \in Nat /\ Count(v.down, "answer") \in Nat
      /\ Count(v.up, "offer") = 0 <=> ~Waits(v.up, "offer")
      /\ Count(v.down, "answer") = 0 <=> ~Waits(v.down, "answer")
      /\ Waits(v.up, "hint") <=> Waits(w.up, "hint")
  <2> HIDE DEF e
  <2>1. \A op : Count(w.up, op) = Count(v.up, op) + Bit(e.op = op)
                /\ Count(v.up, op) \in Nat /\ (Count(v.up, op) = 0 <=> ~Waits(v.up, op))
                /\ (Waits(w.up, op) <=> Waits(v.up, op) \/ e.op = op)
    BY <1>m, QueueAppend DEF Typed, e
  <2>2. \A op : Count(v.down, op) \in Nat /\ (Count(v.down, op) = 0 <=> ~Waits(v.down, op))
    BY CountFinite DEF Typed
  <2> QED
    BY <1>m, <2>1, <2>2 DEF Bit
<1>d. /\ \A i \in 1..Len(w.up) : i \in 1..Len(v.up) \/ i = Len(v.up) + 1
      /\ \A i \in 1..Len(v.up) : w.up[i] = v.up[i]
      /\ w.up[Len(v.up) + 1] = e
      /\ Len(v.up) \in Nat
  BY <1>m, Appended, LenProperties DEF Typed
<1> HIDE DEF e
<1>b. /\ Bit(v.sig = "have-remote-offer") = 0 /\ Bit(w.sig = "have-remote-offer") = 0
      /\ Bit(v.sig = "have-local-offer") = 0 /\ Bit(w.sig = "have-local-offer") = 1
      /\ Bit(v.queued.from = c) \in {0, 1} /\ (Bit(v.queued.from = c) = 1 <=> v.queued.from = c)
  BY DEF Bit
<1>1. OneOut(w)
  BY <1>b, <1>c DEF Fits, OneOut
<1>2. OneIn(c, w) /\ Count(v.up, "offer") = 0 /\ Count(v.down, "answer") = 0 /\ v.queued.from # c
  BY <1>b, <1>c DEF Fits, OneIn
<1>3. DownSays(w)
  BY <1>2, <1>c DEF Fits, DownSays, Target, Waits
<1>4. Sees(w) /\ Tagged(w) /\ ~w.deaf
  BY DEF Fits, Sees, Target, Tagged
<1>5. UpSays(c, w)
  BY <1>2, <1>c, <1>d, <1>m DEF UpSays, Waits
<1>6. Shares(c, w)
  BY <1>2, <1>c DEF Fits, Shares
<1>7. Hinted(c, w)
  <2>1. \A i \in 1..Len(v.up) : v.up[i].op # "offer"
    BY <1>2, <1>c DEF Waits
  <2>2. \A i, j \in 1..Len(w.up) : w.up[i].op = "hint" /\ w.up[j].op = "offer" => i < j
    BY <1>d, <1>m, <2>1
  <2> QED
    BY <1>2, <1>c, <2>2 DEF Fits, Hinted
<1> QED
  BY <1>1, <1>2, <1>3, <1>4, <1>5, <1>6, <1>7 DEF Fits

\* A newcomer fits: the SFU has answered its offer of a camera.
LEMMA FitsSeated ==
  ASSUME NEW c \in Client, NEW w, Typed(w),
         w.down = <<Answer({"cam"})>>, w.up = <<>>, w.sig = "have-local-offer",
         w.offered = {"cam"}, w.share = "no", w.deaf = FALSE, w.views = {}, w.lines = {},
         w.pend = NoOffer, w.queued = NoClientOffer,
         w.tin["cam"] = "camera", w.tin["screen"] = "none"
  PROVE  Fits(c, w)
<1> DEFINE a == Answer({"cam"})
<1>m. a \in Message /\ a.op = "answer" /\ a.media = {"cam"} /\ Media # {"cam"}
  <2>1. "screen" \in Media /\ "screen" \notin {"cam"}
    BY DEF Media
  <2>2. a \in Message
    BY MessageTypes DEF Media
  <2>3. a.op = "answer" /\ a.media = {"cam"}
    BY DEF Answer
  <2> QED
    BY <2>1, <2>2, <2>3
<1> HIDE DEF a
<1>0. <<>> \in Seq(Message) /\ <<>> \in Seq(Command) /\ Len(<<>>) = 0 /\ w.down = Append(<<>>, a)
  BY EmptySeq DEF a
<1>e. \A op : ~Waits(<<>>, op)
  BY <1>0 DEF Waits
<1>c. /\ Count(w.down, "answer") = 1 /\ Count(w.down, "offer") = 0
      /\ Count(w.up, "answer") = 0 /\ Count(w.up, "offer") = 0
      /\ ~Waits(w.down, "offer")
  <2>1. \A op : /\ Count(w.down, op) = Count(<<>>, op) + Bit(a.op = op)
                /\ Waits(w.down, op) <=> Waits(<<>>, op) \/ a.op = op
    <3>1. PICK z \in Seq(Message) : z = <<>>
      BY <1>0
    <3>2. \A op : /\ Count(Append(z, a), op) = Count(z, op) + Bit(a.op = op)
                  /\ Waits(Append(z, a), op) <=> Waits(z, op) \/ a.op = op
      BY <1>m, QueueAppend
    <3> QED
      BY <1>0, <3>1, <3>2, Zenon
  <2>2. \A op : Count(<<>>, op) = 0
    BY <1>0, <1>e, CountFinite
  <2> QED
    BY <1>e, <1>m, <2>1, <2>2 DEF Bit
<1>d. \A i \in 1..Len(w.down) : w.down[i] = a
  BY <1>0
<1>n. c # None /\ NoClientOffer.from = None /\ NoOffer.add = {} /\ NoOffer.drop = {} /\ ~NoOffer.on
  BY NoneAssumption DEF NoClientOffer, NoOffer
<1>1. OneOut(w)
  BY <1>c, <1>n DEF OneOut, Bit
<1>2. OneIn(c, w)
  BY <1>c, <1>n DEF OneIn, Bit
<1>3. DownSays(w)
  BY <1>d, <1>m DEF DownSays
<1>4. UpSays(c, w) /\ Hinted(c, w)
  BY <1>0, <1>n DEF UpSays, Hinted
<1>5. Sees(w)
  BY <1>c, <1>n DEF Sees, Target
<1>6. Tagged(w) /\ Shares(c, w)
  BY <1>m DEF Tagged, Shares
<1> QED
  BY <1>1, <1>2, <1>3, <1>4, <1>5, <1>6 DEF Fits

\* handle_publish_track of its hint.
LEMMA FitsHintHandled ==
  ASSUME NEW c \in Client, NEW v, NEW w, Typed(v), Typed(w), Fits(c, v),
         v.up # <<>>, Head(v.up).op = "hint", w.up = Tail(v.up), w.hints = v.hints + 1,
         w.down = v.down, w.sig = v.sig, w.offered = v.offered, w.share = v.share,
         w.deaf = v.deaf, w.views = v.views, w.lines = v.lines, w.pend = v.pend,
         w.queued = v.queued, w.tin = v.tin
  PROVE  Fits(c, w)
<1>c. /\ Count(w.up, "answer") = Count(v.up, "answer")
      /\ Count(w.up, "offer") = Count(v.up, "offer")
      /\ Waits(w.up, "hint") => Waits(v.up, "hint")
  <2>1. \A op : Count(v.up, op) = Count(w.up, op) + Bit(Head(v.up).op = op)
                /\ Count(w.up, op) \in Nat
                /\ (Waits(v.up, op) <=> Waits(w.up, op) \/ Head(v.up).op = op)
    BY QueueTail DEF Typed
  <2> QED
    BY <2>1 DEF Bit
<1>d. \A i \in 1..Len(w.up) : i + 1 \in 1..Len(v.up) /\ w.up[i] = v.up[i + 1]
  BY TailTaken DEF Typed
<1>1. OneOut(w) /\ OneIn(c, w)
  BY <1>c DEF Fits, OneOut, OneIn
<1>2. DownSays(w) /\ Sees(w) /\ Tagged(w) /\ ~w.deaf
  BY DEF Fits, DownSays, Sees, Target, Tagged
<1>3. UpSays(c, w)
  BY <1>d DEF Fits, UpSays, Own
<1>4. Shares(c, w)
  BY DEF Fits, Shares
<1>5. Hinted(c, w)
  <2>1. \A i, j \in 1..Len(w.up) : w.up[i].op = "hint" /\ w.up[j].op = "offer" => i < j
    <3> SUFFICES ASSUME NEW i \in 1..Len(w.up), NEW j \in 1..Len(w.up),
                        w.up[i].op = "hint", w.up[j].op = "offer"
                 PROVE  i < j
      OBVIOUS
    <3>1. i + 1 < j + 1
      BY <1>d DEF Fits, Hinted
    <3> QED
      BY <3>1
  <2>2. w.hints > 0
    BY DEF Typed
  <2> QED
    BY <1>c, <2>1, <2>2 DEF Fits, Hinted
<1> QED
  BY <1>1, <1>2, <1>3, <1>4, <1>5 DEF Fits

\* What another client of its user does to its place: a hint, or an offer that
\* is stashed where its own was.
LEMMA FitsDisplaced ==
  ASSUME NEW c \in Client, NEW v, NEW w, Typed(v), Typed(w), Fits(c, v),
         w.hints \in {v.hints, v.hints + 1},
         w.queued = v.queued \/ w.queued.from # c,
         w.up = v.up, w.down = v.down, w.sig = v.sig, w.offered = v.offered,
         w.share = v.share, w.deaf = v.deaf, w.views = v.views, w.lines = v.lines,
         w.pend = v.pend, w.tin = v.tin
  PROVE  Fits(c, w)
<1>c. /\ Count(v.down, "answer") \in Nat /\ Count(v.up, "offer") \in Nat
      /\ Bit(w.queued.from = c) <= Bit(v.queued.from = c)
      /\ Bit(w.queued.from = c) \in Nat /\ Bit(v.queued.from = c) \in Nat
      /\ Bit(v.sig = "have-local-offer") \in Nat
  <2>1. Count(v.down, "answer") \in Nat /\ Count(v.up, "offer") \in Nat
    BY CountFinite DEF Typed
  <2> QED
    BY <2>1 DEF Bit
<1>1. OneOut(w)
  BY DEF Fits, OneOut
<1>2. OneIn(c, w)
  BY <1>c DEF Fits, OneIn
<1>3. DownSays(w) /\ Sees(w) /\ Tagged(w) /\ ~w.deaf
  BY DEF Fits, DownSays, Sees, Target, Tagged
<1>4. UpSays(c, w)
  BY DEF Fits, UpSays, Own
<1>5. Shares(c, w)
  BY DEF Fits, Shares
<1>6. Hinted(c, w)
  <2>1. v.hints > 0 => w.hints > 0
    BY DEF Typed
  <2> QED
    BY <2>1 DEF Fits, Hinted
<1> QED
  BY <1>1, <1>2, <1>3, <1>4, <1>5, <1>6 DEF Fits

\* handle_client_offer, while an answer is due: its offer is stashed.
LEMMA FitsStashed ==
  ASSUME NEW c \in Client, NEW v, NEW w, Typed(v), Typed(w), Fits(c, v),
         v.up # <<>>, Head(v.up).op = "offer", w.up = Tail(v.up), w.queued = Head(v.up).offer,
         w.hints = v.hints, w.down = v.down, w.sig = v.sig, w.offered = v.offered,
         w.share = v.share, w.deaf = v.deaf, w.views = v.views, w.lines = v.lines,
         w.pend = v.pend, w.tin = v.tin
  PROVE  Fits(c, w)
<1>c. /\ Count(w.up, "answer") = Count(v.up, "answer")
      /\ Count(v.up, "offer") = Count(w.up, "offer") + 1 /\ Count(w.up, "offer") \in Nat
      /\ Count(v.down, "answer") \in Nat
      /\ Waits(w.up, "hint") => Waits(v.up, "hint")
  <2>1. \A op : Count(v.up, op) = Count(w.up, op) + Bit(Head(v.up).op = op)
                /\ Count(w.up, op) \in Nat
                /\ (Waits(v.up, op) <=> Waits(w.up, op) \/ Head(v.up).op = op)
    BY QueueTail DEF Typed
  <2>2. Count(v.down, "answer") \in Nat
    BY CountFinite DEF Typed
  <2> QED
    BY <2>1, <2>2 DEF Bit
<1>d. /\ \A i \in 1..Len(w.up) : i + 1 \in 1..Len(v.up) /\ w.up[i] = v.up[i + 1]
      /\ 1 \in 1..Len(v.up) /\ Head(v.up) = v.up[1] /\ Len(v.up) \in Nat
  BY TailTaken DEF Typed
<1>0. v.offered = Media /\ Head(v.up).offer = Own(c, v) /\ w.queued.from = c
  BY <1>d DEF Fits, UpSays, Own
<1>b. /\ Bit(w.queued.from = c) = 1 /\ Bit(v.queued.from = c) \in {0, 1}
      /\ Bit(v.sig = "have-local-offer") \in {0, 1}
  BY <1>0 DEF Bit
<1>h. ~Waits(v.up, "hint")
  BY <1>d DEF Fits, Hinted, Waits
<1>1. OneOut(w)
  BY <1>c DEF Fits, OneOut
<1>2. OneIn(c, w)
  BY <1>b, <1>c DEF Fits, OneIn
<1>3. DownSays(w) /\ Sees(w) /\ Tagged(w) /\ ~w.deaf
  BY DEF Fits, DownSays, Sees, Target, Tagged
<1>4. UpSays(c, w)
  BY <1>0, <1>d DEF Fits, UpSays, Own
<1>5. Shares(c, w)
  BY DEF Fits, Shares
<1>6. Hinted(c, w)
  BY <1>c, <1>h DEF Fits, Hinted, Waits
<1> QED
  BY <1>1, <1>2, <1>3, <1>4, <1>5, <1>6 DEF Fits

\* accept_offer of its offer, which was the next command or was stashed, while
\* no answer is due: the screen is tagged as it was hinted, and the answer is
\* of what was offered.
LEMMA FitsAccepted ==
  ASSUME NEW c \in Client, NEW v, NEW w, Typed(v), Typed(w), Fits(c, v), v.pend = NoOffer,
         \/ /\ v.up # <<>> /\ Head(v.up).op = "offer" /\ w.up = Tail(v.up)
            /\ w.queued = v.queued
         \/ /\ v.queued.from = c /\ w.queued = NoClientOffer /\ w.up = v.up,
         w.down = Append(v.down, Answer(Media)),
         w.tin["cam"] = v.tin["cam"],
         w.tin["screen"] = IF v.tin["screen"] # "none" THEN v.tin["screen"]
                           ELSE IF v.hints > 0 THEN "screen" ELSE "camera",
         w.sig = v.sig, w.offered = v.offered, w.share = v.share, w.deaf = v.deaf,
         w.views = v.views, w.lines = v.lines, w.pend = v.pend
  PROVE  Fits(c, w)
<1> DEFINE a == Answer(Media)
<1>m. a \in Message /\ a.op = "answer" /\ a.media = Media /\ Media # {"cam"}
  <2>1. "screen" \in Media /\ "screen" \notin {"cam"}
    BY DEF Media
  <2>2. a \in Message
    BY MessageTypes
  <2>3. a.op = "answer" /\ a.media = Media
    BY DEF Answer
  <2> QED
    BY <2>1, <2>2, <2>3
<1> HIDE DEF a
<1>n. c # None /\ NoClientOffer.from = None /\ NoOffer.add = {} /\ NoOffer.drop = {} /\ ~NoOffer.on
  BY NoneAssumption DEF NoClientOffer, NoOffer
<1>c. /\ Count(w.down, "answer") = Count(v.down, "answer") + 1 /\ Count(v.down, "answer") \in Nat
      /\ Count(w.down, "offer") = Count(v.down, "offer") /\ Count(v.down, "offer") \in Nat
      /\ Waits(w.down, "offer") <=> Waits(v.down, "offer")
  <2>1. \A op : Count(w.down, op) = Count(v.down, op) + Bit(a.op = op)
                /\ Count(v.down, op) \in Nat
                /\ (Waits(w.down, op) <=> Waits(v.down, op) \/ a.op = op)
    BY <1>m, QueueAppend DEF Typed, a
  <2> QED
    BY <1>m, <2>1 DEF Bit
<1>d. /\ \A i \in 1..Len(w.down) : i \in 1..Len(v.down) \/ i = Len(v.down) + 1
      /\ \A i \in 1..Len(v.down) : w.down[i] = v.down[i]
      /\ w.down[Len(v.down) + 1] = a
  BY <1>m, Appended DEF Typed, a
<1>u. /\ Count(w.up, "answer") = Count(v.up, "answer")
      /\ Count(v.up, "offer") + Bit(v.queued.from = c)
           = Count(w.up, "offer") + Bit(w.queued.from = c) + 1
      /\ Count(w.up, "offer") \in Nat /\ Bit(w.queued.from = c) \in Nat
      /\ v.offered = Media /\ ~Waits(v.up, "hint") /\ ~Waits(w.up, "hint")
      /\ \A i \in 1..Len(w.up) : w.up[i].op = "offer" => w.up[i].offer = Own(c, v)
      /\ w.queued.from = c => w.queued = v.queued
  <2>1. CASE v.up # <<>> /\ Head(v.up).op = "offer" /\ w.up = Tail(v.up) /\ w.queued = v.queued
    <3>1. \A op : Count(v.up, op) = Count(w.up, op) + Bit(Head(v.up).op = op)
                  /\ Count(w.up, op) \in Nat
                  /\ (Waits(v.up, op) <=> Waits(w.up, op) \/ Head(v.up).op = op)
      BY <2>1, QueueTail DEF Typed
    <3>2. /\ \A i \in 1..Len(w.up) : i + 1 \in 1..Len(v.up) /\ w.up[i] = v.up[i + 1]
          /\ 1 \in 1..Len(v.up) /\ Head(v.up) = v.up[1] /\ Len(v.up) \in Nat
      BY <2>1, TailTaken DEF Typed
    <3>3. v.offered = Media
      BY <2>1, <3>2 DEF Fits, UpSays
    <3>4. ~Waits(v.up, "hint")
      BY <2>1, <3>2 DEF Fits, Hinted, Waits
    <3>5. \A i \in 1..Len(w.up) : w.up[i].op = "offer" => w.up[i].offer = Own(c, v)
      BY <3>2 DEF Fits, UpSays
    <3> QED
      BY <2>1, <3>1, <3>3, <3>4, <3>5 DEF Bit
  <2>2. CASE v.queued.from = c /\ w.queued = NoClientOffer /\ w.up = v.up
    <3>1. v.offered = Media /\ ~Waits(v.up, "hint") /\ Count(v.up, "offer") \in Nat
      BY <2>2, CountFinite DEF Fits, UpSays, Hinted, Typed
    <3>2. \A i \in 1..Len(w.up) : w.up[i].op = "offer" => w.up[i].offer = Own(c, v)
      BY <2>2 DEF Fits, UpSays
    <3>3. Bit(v.queued.from = c) = 1 /\ Bit(w.queued.from = c) = 0
      BY <1>n, <2>2 DEF Bit
    <3> QED
      BY <1>n, <2>2, <3>1, <3>2, <3>3
  <2> QED
    BY <2>1, <2>2
<1>s. v.tin["screen"] = "none" => v.hints > 0
  BY <1>u, <1>m DEF Fits, Shares, Hinted
<1>1. OneOut(w)
  BY <1>c, <1>u DEF Fits, OneOut
<1>2. OneIn(c, w)
  <2>1. Bit(v.sig = "have-local-offer") \in Nat
    BY DEF Bit
  <2>2. Count(v.down, "answer") + Count(v.up, "offer") + Bit(v.queued.from = c)
          <= Bit(v.sig = "have-local-offer")
    BY DEF Fits, OneIn
  <2>3. /\ Count(w.down, "answer") = Count(v.down, "answer") + 1 /\ Count(v.down, "answer") \in Nat
        /\ Count(v.up, "offer") + Bit(v.queued.from = c)
             = Count(w.up, "offer") + Bit(w.queued.from = c) + 1
        /\ Count(w.up, "offer") \in Nat /\ Bit(w.queued.from = c) \in Nat
    BY <1>c, <1>u
  <2>4. Count(v.up, "offer") \in Nat /\ Bit(v.queued.from = c) \in Nat
    <3>1. Count(v.up, "offer") \in Nat
      BY CountFinite DEF Typed
    <3> QED
      BY <3>1 DEF Bit
  <2>5. Count(w.down, "answer") + Count(w.up, "offer") + Bit(w.queued.from = c)
          <= Bit(v.sig = "have-local-offer")
    BY <2>1, <2>2, <2>3, <2>4
  <2> QED
    BY <2>5 DEF OneIn
<1>3. DownSays(w)
  BY <1>d, <1>m, <1>u DEF Fits, DownSays, Target
<1>4. UpSays(c, w)
  BY <1>u DEF Fits, UpSays, Own
<1>5. Sees(w)
  BY <1>c DEF Fits, Sees, Target
<1>6. Tagged(w) /\ w.tin["screen"] # "none" /\ ~w.deaf
  BY <1>s DEF Fits, Tagged
<1>7. Shares(c, w)
  BY <1>6, <1>u DEF Fits, Shares
<1>8. Hinted(c, w)
  BY <1>6, <1>u DEF Hinted, Waits
<1> QED
  BY <1>1, <1>2, <1>3, <1>4, <1>5, <1>6, <1>7, <1>8 DEF Fits

\* handle_answer of its answer: what was offered is agreed.
LEMMA FitsOpened ==
  ASSUME NEW c \in Client, NEW v, NEW w, Typed(v), Typed(w), Fits(c, v),
         v.up # <<>>, Head(v.up).op = "answer", w.up = Tail(v.up),
         w.pend = NoOffer, w.lines = Target(v),
         w.queued = v.queued, w.hints = v.hints, w.down = v.down, w.sig = v.sig,
         w.offered = v.offered, w.share = v.share, w.deaf = v.deaf, w.views = v.views,
         w.tin = v.tin
  PROVE  Fits(c, w)
<1>c. /\ Count(v.up, "answer") = Count(w.up, "answer") + 1 /\ Count(w.up, "answer") \in Nat
      /\ Count(v.up, "offer") = Count(w.up, "offer")
      /\ Waits(v.up, "hint") <=> Waits(w.up, "hint")
      /\ Count(v.down, "offer") \in Nat /\ (Count(v.down, "offer") = 0 <=> ~Waits(v.down, "offer"))
  <2>1. \A op : Count(v.up, op) = Count(w.up, op) + Bit(Head(v.up).op = op)
                /\ Count(w.up, op) \in Nat
                /\ (Waits(v.up, op) <=> Waits(w.up, op) \/ Head(v.up).op = op)
    BY QueueTail DEF Typed
  <2>2. Count(v.down, "offer") \in Nat /\ (Count(v.down, "offer") = 0 <=> ~Waits(v.down, "offer"))
    BY CountFinite DEF Typed
  <2> QED
    BY <2>1, <2>2 DEF Bit
<1>d. \A i \in 1..Len(w.up) : i + 1 \in 1..Len(v.up) /\ w.up[i] = v.up[i + 1]
  BY TailTaken DEF Typed
<1>n. /\ NoOffer.add = {} /\ NoOffer.drop = {} /\ ~NoOffer.on
      /\ Bit(w.pend.on) = 0 /\ Bit(v.pend.on) \in {0, 1}
      /\ Bit(w.sig = "have-remote-offer") \in {0, 1}
  BY DEF NoOffer, Bit
<1>1. OneOut(w) /\ ~Waits(w.down, "offer")
  BY <1>c, <1>n DEF Fits, OneOut
<1>t. Target(w) = Target(v) /\ w.views = Target(v)
  BY <1>1, <1>n DEF Fits, Sees, Target
<1>2. OneIn(c, w)
  BY <1>c DEF Fits, OneIn
<1>3. DownSays(w) /\ Sees(w) /\ Tagged(w) /\ ~w.deaf
  BY <1>t DEF Fits, DownSays, Sees, Tagged
<1>4. UpSays(c, w)
  BY <1>d DEF Fits, UpSays, Own
<1>5. Shares(c, w)
  BY DEF Fits, Shares
<1>6. Hinted(c, w)
  <2>1. \A i, j \in 1..Len(w.up) : w.up[i].op = "hint" /\ w.up[j].op = "offer" => i < j
    <3> SUFFICES ASSUME NEW i \in 1..Len(w.up), NEW j \in 1..Len(w.up),
                        w.up[i].op = "hint", w.up[j].op = "offer"
                 PROVE  i < j
      OBVIOUS
    <3>1. i + 1 < j + 1
      BY <1>d DEF Fits, Hinted
    <3> QED
      BY <3>1
  <2> QED
    BY <1>c, <2>1 DEF Fits, Hinted
<1> QED
  BY <1>1, <1>2, <1>3, <1>4, <1>5, <1>6 DEF Fits

\* An offer of the SFU, made while none is outstanding.
LEMMA FitsOffered ==
  ASSUME NEW c \in Client, NEW v, NEW w, Typed(v), Typed(w), Fits(c, v),
         v.pend = NoOffer, w.pend.on, w.down = Append(v.down, SfuOffer(Target(w))),
         w.lines = v.lines, w.up = v.up, w.queued = v.queued, w.hints = v.hints,
         w.sig = v.sig, w.offered = v.offered, w.share = v.share, w.deaf = v.deaf,
         w.views = v.views, w.tin = v.tin
  PROVE  Fits(c, w)
<1> DEFINE e == SfuOffer(Target(w))
<1>m. e \in Message /\ e.op = "offer" /\ e.tracks = Target(w)
  <2>1. Target(w) \in SUBSET Track
    BY DEF Typed, Target
  <2>2. e \in Message
    BY <2>1, MessageTypes
  <2> QED
    BY <2>2 DEF SfuOffer
<1> HIDE DEF e
<1>c. /\ Count(w.down, "offer") = Count(v.down, "offer") + 1 /\ Count(v.down, "offer") \in Nat
      /\ Count(w.down, "answer") = Count(v.down, "answer")
      /\ Count(v.up, "answer") \in Nat
      /\ Count(v.down, "offer") = 0 <=> ~Waits(v.down, "offer")
      /\ Waits(w.down, "offer") /\ (Waits(w.down, "answer") <=> Waits(v.down, "answer"))
  <2>1. \A op : Count(w.down, op) = Count(v.down, op) + Bit(e.op = op)
                /\ Count(v.down, op) \in Nat /\ (Count(v.down, op) = 0 <=> ~Waits(v.down, op))
                /\ (Waits(w.down, op) <=> Waits(v.down, op) \/ e.op = op)
    BY <1>m, QueueAppend DEF Typed, e
  <2>2. Count(v.up, "answer") \in Nat
    BY CountFinite DEF Typed
  <2> QED
    BY <1>m, <2>1, <2>2 DEF Bit
<1>d. /\ \A i \in 1..Len(w.down) : i \in 1..Len(v.down) \/ i = Len(v.down) + 1
      /\ \A i \in 1..Len(v.down) : w.down[i] = v.down[i]
      /\ w.down[Len(v.down) + 1] = e
  BY <1>m, Appended DEF Typed, e
<1>n. /\ NoOffer.add = {} /\ NoOffer.drop = {} /\ Bit(v.pend.on) = 0 /\ Bit(w.pend.on) = 1
      /\ Bit(v.sig = "have-remote-offer") \in {0, 1}
  BY DEF NoOffer, Bit
<1>1. OneOut(w) /\ ~Waits(v.down, "offer")
  <2>1. Count(v.down, "offer") + Count(v.up, "answer") + Bit(v.sig = "have-remote-offer") = 0
    BY <1>n DEF Fits, OneOut
  <2>2. Count(v.down, "offer") = 0 /\ Count(v.up, "answer") = 0
        /\ Bit(v.sig = "have-remote-offer") = 0
    BY <1>c, <1>n, <2>1
  <2>3. Count(w.down, "offer") = 1 /\ Count(w.up, "answer") = 0
        /\ Bit(w.sig = "have-remote-offer") = 0
    BY <1>c, <2>2
  <2>4. OneOut(w)
    BY <2>3 DEF OneOut, Bit
  <2> QED
    BY <1>c, <2>2, <2>4
<1>2. OneIn(c, w)
  BY <1>c DEF Fits, OneIn
<1>3. DownSays(w)
  BY <1>1, <1>d, <1>m DEF Fits, DownSays, Waits
<1>4. Sees(w)
  BY <1>1, <1>c, <1>n DEF Fits, Sees, Target
<1>5. UpSays(c, w) /\ Tagged(w) /\ Hinted(c, w) /\ ~w.deaf
  BY DEF Fits, UpSays, Own, Tagged, Hinted
<1>6. Shares(c, w)
  BY <1>c DEF Fits, Shares
<1> QED
  BY <1>1, <1>2, <1>3, <1>4, <1>5, <1>6 DEF Fits

-----------------------------------------------------------------------------
(* The clients of a room.                                                  *)

\* A client that has not started.
Untouched == \A c \in Client : cst[c] = "idle" =>
    /\ toSfu[c] = <<>> /\ toClient[c] = <<>> /\ sig[c] = "stable" /\ share[c] = "no"
    /\ views[c] = {} /\ deaf[c] = FALSE

\* Who takes part does so under the id of its user, and has started.
Seated == \A p \in Pid : InRoom(p) => PidOf[member[p]] = p /\ cst[member[p]] # "idle"

\* An offer says whose it is.
Signed == \A c \in Client : \A i \in 1..Len(toSfu[c]) :
    toSfu[c][i].op = "offer" => toSfu[c][i].offer.from = c

\* Nothing went wrong for it yet.
Smooth(c) == Listening(c) /\ c \notin disturbed

\* It waits for the answer to its join.
Arriving(c) ==
    /\ cst[c] = "joining" /\ sig[c] = "have-local-offer" /\ offered[c] = {"cam"}
    /\ toSfu[c] = <<Cmd("join")>> /\ toClient[c] = <<>>
    /\ share[c] = "no" /\ views[c] = {} /\ deaf[c] = FALSE

Good(c) == IF member[PidOf[c]] = c THEN \A v : v = View(c) => Fits(c, v) ELSE Arriving(c)

ClientInv == \A c \in Client : Smooth(c) => Good(c)

SeatInv == Untouched /\ Seated /\ Signed

LEMMA ViewTypes ==
  ASSUME TypeOK, NEW c \in Client, NEW v, v = View(c)
  PROVE  Typed(v)
<1>t. RoomOK /\ OfferOK /\ WireOK /\ SentOK /\ ClientOK /\ PidOf[c] \in Pid
  BY TypeParts, PidOfClient
<1>f. /\ v.down = toClient[c] /\ v.up = toSfu[c] /\ v.offered = offered[c] /\ v.views = views[c]
      /\ v.lines = lines[PidOf[c]] /\ v.pend = pend[PidOf[c]] /\ v.queued = queued[PidOf[c]]
      /\ v.hints = hints[PidOf[c]]
  BY DEF View
<1> QED
  BY <1>t, <1>f DEF Typed, RoomOK, OfferOK, WireOK, SentOK, ClientOK

LEMMA ViewTypesPrime ==
  ASSUME TypeOK', NEW c \in Client, NEW v, v = View(c)'
  PROVE  Typed(v)
<1>t. RoomOK' /\ OfferOK' /\ WireOK' /\ SentOK' /\ ClientOK' /\ PidOf[c] \in Pid
  BY TypePartsPrime, PidOfClient
<1>f. /\ v.down = toClient'[c] /\ v.up = toSfu'[c] /\ v.offered = offered'[c] /\ v.views = views'[c]
      /\ v.lines = lines'[PidOf[c]] /\ v.pend = pend'[PidOf[c]] /\ v.queued = queued'[PidOf[c]]
      /\ v.hints = hints'[PidOf[c]]
  BY DEF View
<1> QED
  BY <1>t, <1>f DEF Typed, RoomOK, OfferOK, WireOK, SentOK, ClientOK

\* The client's end is as it was, and so are its wires.
EndKept(c) ==
    /\ toSfu'[c] = toSfu[c] /\ toClient'[c] = toClient[c] /\ cst'[c] = cst[c] /\ sig'[c] = sig[c]
    /\ offered'[c] = offered[c] /\ share'[c] = share[c] /\ deaf'[c] = deaf[c]
    /\ views'[c] = views[c]

\* Its place is.
PlaceKept(p) ==
    /\ lines'[p] = lines[p] /\ pend'[p] = pend[p] /\ queued'[p] = queued[p] /\ tin'[p] = tin[p]
    /\ hints'[p] = hints[p]

LEMMA GoodKept ==
  ASSUME NEW c \in Client, Good(c), EndKept(c),
         member'[PidOf[c]] = c <=> member[PidOf[c]] = c,
         member[PidOf[c]] = c => PlaceKept(PidOf[c])
  PROVE  Good(c)'
<1>1. CASE member[PidOf[c]] = c
  <2>1. \A v : v = View(c)' => v = View(c)
    BY <1>1 DEF View, EndKept, PlaceKept
  <2>2. \A v : v = View(c)' => Fits(c, v)
    BY <1>1, <2>1 DEF Good
  <2> QED
    BY <1>1, <2>2 DEF Good
<1>2. CASE member[PidOf[c]] # c
  <2>1. Arriving(c)'
    BY <1>2 DEF Good, Arriving, EndKept
  <2> QED
    BY <1>2, <2>1 DEF Good
<1> QED
  BY <1>1, <1>2

\* What a client that listens is sent.
LEMMA SentTo ==
  ASSUME SentOK, NEW msgs \in [Client -> Seq(Message)], WsTrySend(msgs), NEW c \in Client
  PROVE  /\ msgs[c] = <<>> \/ ~Listening(c) => toClient'[c] = toClient[c]
         /\ \A e \in Message : msgs[c] = <<e>> /\ Hears(c) /\ c \notin Losing(msgs) =>
              toClient'[c] = Append(toClient[c], e)
<1>t. toClient[c] \in Seq(Message) /\ WsCap \in Nat
  BY BoundAssumption DEF SentOK
<1>1. toClient'[c] = IF Hears(c) /\ Len(toClient[c] \o msgs[c]) <= WsCap
                        THEN toClient[c] \o msgs[c] ELSE toClient[c]
  BY DEF WsTrySend
<1>2. msgs[c] = <<>> => toClient[c] \o msgs[c] = toClient[c]
  BY <1>t, ConcatEmptySeq
<1>3. ASSUME NEW e \in Message, msgs[c] = <<e>>
      PROVE  toClient[c] \o msgs[c] = Append(toClient[c], e)
  <2>1. Append(toClient[c], e) = toClient[c] \o <<e>>
    BY <1>t, Appended
  <2> QED
    BY <1>3, <2>1, Zenon
<1>4. toClient[c] \o msgs[c] \in Seq(Message)
  BY <1>t, ConcatProperties
<1>5. Len(toClient[c] \o msgs[c]) \in Nat
  BY <1>4, LenProperties
<1>6. c \notin Losing(msgs) => Len(toClient[c] \o msgs[c]) <= WsCap
  BY <1>t, <1>5 DEF Losing
<1>7. ~Listening(c) => ~Hears(c)
  BY DEF Hears
<1> QED
  BY <1>1, <1>2, <1>3, <1>6, <1>7, Zenon

\* The commands of the others stay where they are.
LEMMA TakenFrom ==
  ASSUME WireOK, NEW d \in Client, NEW op, Takes(d, op), NEW c \in Client
  PROVE  /\ c # d => toSfu'[c] = toSfu[c]
         /\ c = d => toSfu[c] # <<>> /\ Head(toSfu[c]).op = op /\ toSfu'[c] = Tail(toSfu[c])
BY DEF WireOK, Takes

\* Nobody who has not started is touched, and nobody speaks for another.
LEMMA SeatStep ==
  ASSUME TypeOK, SeatInv, [Next]_vars
  PROVE  SeatInv'
<1>t. RoomOK /\ OfferOK /\ WireOK /\ SentOK /\ ClientOK
  BY TypeParts
<1>i. Untouched /\ Seated /\ Signed
  BY DEF SeatInv
\* What happens to the wires.
<1> DEFINE Wire(c) ==
      /\ \/ toSfu'[c] = toSfu[c]
         \/ toSfu[c] # <<>> /\ toSfu'[c] = Tail(toSfu[c])
         \/ cst'[c] # "idle" /\ \E e \in Command :
              toSfu'[c] = Append(toSfu[c], e) /\ (e.op = "offer" => e.offer.from = c)
      /\ cst'[c] = "idle" => cst[c] = "idle" /\ sig'[c] = sig[c] /\ share'[c] = share[c]
                             /\ views'[c] = views[c] /\ deaf'[c] = deaf[c]
                             /\ toClient'[c] = toClient[c]
<1>w. ASSUME \A c \in Client : Wire(c) PROVE Untouched' /\ Signed'
  <2>1. Untouched'
    <3> SUFFICES ASSUME NEW c \in Client, cst'[c] = "idle"
                 PROVE  /\ toSfu'[c] = <<>> /\ toClient'[c] = <<>> /\ sig'[c] = "stable"
                        /\ share'[c] = "no" /\ views'[c] = {} /\ deaf'[c] = FALSE
      BY DEF Untouched
    <3> QED
      BY <1>i, <1>w DEF Untouched
  <2>2. ASSUME NEW c \in Client, NEW i \in 1..Len(toSfu'[c]), toSfu'[c][i].op = "offer"
        PROVE  toSfu'[c][i].offer.from = c
    <3>0. toSfu[c] \in Seq(Command)
      BY <1>t DEF WireOK
    <3>s. \A j \in 1..Len(toSfu[c]) : toSfu[c][j].op = "offer" => toSfu[c][j].offer.from = c
      BY <1>i DEF Signed
    <3>1. CASE toSfu'[c] = toSfu[c]
      BY <2>2, <3>1, <3>s
    <3>2. CASE toSfu[c] # <<>> /\ toSfu'[c] = Tail(toSfu[c])
      <4>1. \A j \in 1..Len(Tail(toSfu[c])) :
              j + 1 \in 1..Len(toSfu[c]) /\ Tail(toSfu[c])[j] = toSfu[c][j + 1]
        BY <3>0, <3>2, TailTaken
      <4> QED
        BY <2>2, <3>2, <3>s, <4>1
    <3>3. ASSUME NEW e \in Command, toSfu'[c] = Append(toSfu[c], e), e.op = "offer" => e.offer.from = c
          PROVE  toSfu'[c][i].offer.from = c
      <4> DEFINE s == Append(toSfu[c], e)
      <4>1. /\ \A j \in 1..Len(toSfu[c]) : s[j] = toSfu[c][j]
            /\ s[Len(toSfu[c]) + 1] = e
            /\ \A j \in 1..Len(s) : j \in 1..Len(toSfu[c]) \/ j = Len(toSfu[c]) + 1
        BY <3>0, Appended
      <4>2. i \in 1..Len(s) /\ s[i].op = "offer" /\ toSfu'[c] = s
        BY <2>2, <3>3
      <4> HIDE DEF s
      <4> QED
        BY <3>3, <3>s, <4>1, <4>2
    <3> QED
      BY <1>w, <3>1, <3>2, <3>3
  <2> QED
    BY <2>1, <2>2 DEF Signed
<1>s. ASSUME UNCHANGED member, \A c \in Client : cst'[c] = "idle" => cst[c] = "idle"
      PROVE  Seated'
  <2>1. \A p \in Pid : InRoom(p) => member[p] \in Client
    BY <1>t DEF RoomOK, InRoom
  <2> QED
    BY <1>i, <1>s, <2>1 DEF Seated, InRoom
<1>v. ASSUME NEW p \in Pid, NEW m \in Client \cup {None}, UNCHANGED cst,
             member' = [member EXCEPT ![p] = m],
             m # None => PidOf[m] = p /\ cst[m] # "idle"
      PROVE  Seated'
  BY <1>t, <1>i, <1>v DEF RoomOK, Seated, InRoom
\* What a client that has not started is sent.
<1>m. ASSUME NEW msgs \in [Client -> Seq(Message)], WsTrySend(msgs)
      PROVE  \A c \in Client : cst[c] = "idle" => toClient'[c] = toClient[c]
  BY <1>t, <1>m, SentTo DEF Listening
<1>1. ASSUME NEW d \in Client, ClientStep(d) PROVE SeatInv'
  <2>1. ASSUME NEW c \in Client, c # d PROVE Wire(c)
    <3>1. toSfu'[c] = toSfu[c] /\ cst'[c] = cst[c] /\ sig'[c] = sig[c] /\ share'[c] = share[c]
          /\ views'[c] = views[c] /\ deaf'[c] = deaf[c] /\ toClient'[c] = toClient[c]
      BY <1>1, <1>t, <2>1 DEF ClientStep, ClientJoin, ShareHint, ShareOffer, ClientOffers, Sends,
         ClientAnswered, ClientTakesOffer, ClientAnswers, ClientLeaves, ClientForced, Ends,
         WireOK, SentOK, ClientOK
    <3> QED
      BY <3>1
  <2>2. cst'[d] # "idle"
    BY <1>1, <1>t DEF ClientStep, ClientJoin, ShareHint, ShareOffer, ClientAnswered,
       ClientTakesOffer, ClientAnswers, ClientLeaves, ClientForced, Ends, Handles, Hears, Listening,
       ClientOK
  <2>3. \/ toSfu'[d] = toSfu[d]
        \/ \E e \in Command :
              toSfu'[d] = Append(toSfu[d], e) /\ (e.op = "offer" => e.offer.from = d)
    <3>q. toSfu \in [Client -> Seq(Command)]
      BY <1>t DEF WireOK
    <3>1. CASE \E op \in {"join", "hint", "answer", "leave"} : Sends(d, <<Cmd(op)>>)
      <4>1. PICK op \in {"join", "hint", "answer", "leave"} : Sends(d, <<Cmd(op)>>)
        BY <3>1
      <4>2. Cmd(op) \in Command /\ Cmd(op).op # "offer"
        <5>1. Cmd(op) \in Command
          BY MessageTypes
        <5> QED
          BY <5>1 DEF Cmd
      <4>3. toSfu' = [toSfu EXCEPT ![d] = Append(toSfu[d], Cmd(op))]
        BY <3>q, <4>1, <4>2, SendsTypes
      <4> QED
        BY <3>q, <4>2, <4>3
    <3>2. CASE Sends(d, <<OfferCmd(d, Media, views[d])>>)
      <4>1. OfferCmd(d, Media, views[d]) \in Command
        BY <1>t, MessageTypes DEF ClientOK
      <4>2. toSfu' = [toSfu EXCEPT ![d] = Append(toSfu[d], OfferCmd(d, Media, views[d]))]
        BY <3>q, <3>2, <4>1, SendsTypes
      <4>3. OfferCmd(d, Media, views[d]).offer.from = d
        BY DEF OfferCmd
      <4> QED
        BY <3>q, <4>1, <4>2, <4>3
    <3>3. CASE toSfu' = toSfu
      BY <3>3
    <3> QED
      BY <1>1, <3>1, <3>2, <3>3 DEF ClientStep, ClientJoin, ShareHint, ShareOffer, ClientOffers,
         ClientAnswered, ClientTakesOffer, ClientAnswers, ClientLeaves, ClientForced, Ends
  <2>4. Wire(d)
    BY <2>2, <2>3
  <2>5. UNCHANGED member
    BY <1>1 DEF ClientStep, ClientJoin, ShareHint, ShareOffer, ClientAnswered, ClientTakesOffer,
       ClientAnswers, ClientLeaves, ClientForced, Ends, roomVars
  <2>6. \A c \in Client : Wire(c)
    BY <2>1, <2>4
  <2>7. Seated'
    BY <1>s, <2>5, <2>6
  <2> HIDE DEF Wire
  <2> QED
    BY <1>w, <2>6, <2>7 DEF SeatInv
\* What the shard does: it takes a command, or none, and says something.
<1>h. ASSUME UNCHANGED clientVars,
             \/ UNCHANGED toSfu
             \/ \E d \in Client : toSfu[d] # <<>> /\ toSfu' = [toSfu EXCEPT ![d] = Tail(@)],
             UNCHANGED toClient \/ \E msgs \in [Client -> Seq(Message)] : WsTrySend(msgs)
      PROVE  Untouched' /\ Signed'
  <2>1. \A c \in Client : cst[c] = "idle" => toClient'[c] = toClient[c]
    BY <1>h, <1>m
  <2>2. \A c \in Client : toSfu'[c] = toSfu[c] \/ (toSfu[c] # <<>> /\ toSfu'[c] = Tail(toSfu[c]))
    BY <1>h, <1>t DEF WireOK
  <2>3. \A c \in Client : Wire(c)
    BY <1>h, <2>1, <2>2 DEF clientVars
  <2> HIDE DEF Wire
  <2> QED
    BY <1>w, <2>3
<1>2. ASSUME NEW d \in Client, ShardStep(d) PROVE SeatInv'
  <2>p. PidOf[d] \in Pid
    BY PidOfClient
  <2>1. CASE HandleJoin(d)
    <3>1. Joins(d, PidOf[d])
      BY <1>t, <2>1, JoinEffect
    <3>2. /\ Takes(d, "join") /\ UNCHANGED clientVars /\ member' = [member EXCEPT ![PidOf[d]] = d]
          /\ WsTrySend(JoinMessages(d))
      BY <3>1 DEF Joins, SendAll
    <3>3. JoinMessages(d) \in [Client -> Seq(Message)]
      BY <1>t, JoinMessageTypes
    <3>4. Untouched' /\ Signed'
      BY <1>h, <3>2, <3>3 DEF Takes
    <3>5. cst[d] # "idle" /\ UNCHANGED cst
      BY <1>i, <3>2 DEF Takes, Untouched, clientVars
    <3>6. Seated'
      BY <1>v, <2>p, <3>2, <3>5
    <3> QED
      BY <3>4, <3>6 DEF SeatInv
  <2>2. CASE HandleLeave(d)
    <3>1. /\ Takes(d, "leave") /\ UNCHANGED clientVars
          /\ member' = [member EXCEPT ![PidOf[d]] = None]
          /\ WsTrySend(DeactivationOffers(PidOf[d]))
      BY <2>2 DEF HandleLeave, Leave, SendAll
    <3>2. DeactivationOffers(PidOf[d]) \in [Client -> Seq(Message)]
      BY <1>t, <2>p, LeaveMessages
    <3>3. Untouched' /\ Signed'
      BY <1>h, <3>1, <3>2 DEF Takes
    <3>4. Seated'
      BY <1>v, <2>p, <3>1 DEF clientVars
    <3> QED
      BY <3>3, <3>4 DEF SeatInv
  <2>3. CASE HandlePublishTrack(d)
    <3>1. Takes(d, "hint") /\ UNCHANGED <<clientVars, toClient, member>>
      BY <2>3 DEF HandlePublishTrack
    <3>2. Untouched' /\ Signed'
      BY <1>h, <3>1 DEF Takes
    <3> QED
      BY <1>s, <3>1, <3>2 DEF SeatInv, clientVars
  <2>4. CASE HandleClientOffer(d)
    <3>1. Takes(d, "offer") /\ UNCHANGED <<clientVars, member>>
      BY <2>4 DEF HandleClientOffer
    <3>2. Head(toSfu[d]).offer.media \in SUBSET Media
      BY <1>t, <3>1, TakesTypes DEF WireOK, Offer
    <3>3. UNCHANGED toClient \/ WsTrySend(AnswerTo(PidOf[d], Head(toSfu[d]).offer.media))
      BY <2>4, Zenon DEF HandleClientOffer, AcceptOffer, AnswerTo
    <3>4. UNCHANGED toClient \/ \E msgs \in [Client -> Seq(Message)] : WsTrySend(msgs)
      BY <2>p, <3>2, <3>3, AnswerTypes
    <3>5. Untouched' /\ Signed'
      BY <1>h, <3>1, <3>4 DEF Takes
    <3> QED
      BY <1>s, <3>1, <3>5 DEF SeatInv, clientVars
  <2>5. CASE HandleAnswer(d)
    <3>1. Takes(d, "answer") /\ UNCHANGED <<clientVars, member>>
      BY <1>t, <2>5, AnswerEffect
    <3>2. queued[PidOf[d]].media \in SUBSET Media
      BY <1>t, <2>p DEF OfferOK, Offer
    <3>3. UNCHANGED toClient \/ WsTrySend(AnswerTo(PidOf[d], queued[PidOf[d]].media))
      BY <2>5, Zenon DEF HandleAnswer, AcceptOffer, AnswerTo
    <3>4. UNCHANGED toClient \/ \E msgs \in [Client -> Seq(Message)] : WsTrySend(msgs)
      BY <2>p, <3>2, <3>3, AnswerTypes
    <3>5. Untouched' /\ Signed'
      BY <1>h, <3>1, <3>4 DEF Takes
    <3> QED
      BY <1>s, <3>1, <3>5 DEF SeatInv, clientVars
  <2> QED
    BY <1>2, <2>1, <2>2, <2>3, <2>4, <2>5 DEF ShardStep
<1>3. ASSUME NEW d \in Client, DropCommand(d) PROVE SeatInv'
  <2>1. UNCHANGED <<clientVars, toClient, member>> /\ toSfu[d] # <<>>
        /\ toSfu' = [toSfu EXCEPT ![d] = Tail(@)]
    BY <1>3 DEF DropCommand, roomVars
  <2>2. Untouched' /\ Signed'
    BY <1>h, <2>1
  <2> QED
    BY <1>s, <2>1, <2>2 DEF SeatInv, clientVars
<1>4. ASSUME NEW p \in Pid, Zombie(p) PROVE SeatInv'
  <2>1. /\ UNCHANGED <<clientVars, toSfu>>
        /\ member' = [member EXCEPT ![p] = None]
        /\ WsTrySend(DeactivationOffers(p))
    BY <1>4 DEF Zombie, Leave, SendAll
  <2>2. DeactivationOffers(p) \in [Client -> Seq(Message)]
    BY <1>t, LeaveMessages
  <2>3. Untouched' /\ Signed'
    BY <1>h, <2>1, <2>2
  <2>4. Seated'
    BY <1>v, <2>1 DEF clientVars
  <2> QED
    BY <2>3, <2>4 DEF SeatInv
<1>5. CASE UNCHANGED vars
  <2>1. UNCHANGED <<clientVars, toSfu, toClient, member>>
    BY <1>5 DEF vars, roomVars
  <2>2. Untouched' /\ Signed'
    BY <1>h, <2>1
  <2> QED
    BY <1>s, <2>1, <2>2 DEF SeatInv, clientVars
<1>6. CASE NegotiatePendingTracks
  <2>1. UNCHANGED <<clientVars, toSfu, member>> /\ WsTrySend(NegotiationOffers)
    BY <1>t, <1>6, NegotiateEffect DEF Negotiates, SendAll
  <2>2. NegotiationOffers \in [Client -> Seq(Message)]
    BY <1>t, NegotiationMessages
  <2>3. Untouched' /\ Signed'
    BY <1>h, <2>1, <2>2
  <2> QED
    BY <1>s, <2>1, <2>3 DEF SeatInv, clientVars
<1> QED
  BY <1>1, <1>2, <1>3, <1>4, <1>5, <1>6 DEF Next

\* A client's own step.
LEMMA OwnStep ==
  ASSUME TypeOK, TypeOK', SeatInv, NEW c \in Client, ClientStep(c),
         Smooth(c) => Good(c), Smooth(c)'
  PROVE  Good(c)'
<1>t. RoomOK /\ OfferOK /\ WireOK /\ SentOK /\ ClientOK /\ PidOf[c] \in Pid
  BY TypeParts, PidOfClient
<1>q. toSfu \in [Client -> Seq(Command)] /\ toSfu[c] \in Seq(Command)
  BY <1>t DEF WireOK
<1>s. cst'[c] \in {"joining", "in"} /\ c \notin disturbed'
  BY DEF Smooth, Listening
<1>r. UNCHANGED <<member, lines, pend, queued, tin, hints>>
  BY DEF ClientStep, ClientJoin, ShareHint, ShareOffer, ClientAnswered, ClientTakesOffer,
         ClientAnswers, ClientLeaves, ClientForced, Ends, roomVars, offerVars
<1>j. CASE ClientJoin(c)
  <2>1. /\ cst[c] = "idle" /\ cst'[c] = "joining" /\ sig'[c] = "have-local-offer"
        /\ offered'[c] = {"cam"} /\ share'[c] = share[c] /\ deaf'[c] = deaf[c]
        /\ views'[c] = views[c] /\ toClient'[c] = toClient[c]
        /\ toSfu'[c] = toSfu[c] \o <<Cmd("join")>>
    BY <1>t, <1>j DEF ClientJoin, Sends, WireOK, ClientOK
  <2>2. /\ toSfu[c] = <<>> /\ toClient[c] = <<>> /\ share[c] = "no" /\ views[c] = {}
        /\ deaf[c] = FALSE
    BY <2>1 DEF SeatInv, Untouched
  <2>3. toSfu'[c] = <<Cmd("join")>>
    <3>1. <<Cmd("join")>> \in Seq(Command)
      BY MessageTypes
    <3>2. <<>> \o <<Cmd("join")>> = <<Cmd("join")>>
      BY <3>1, ConcatEmptySeq
    <3> QED
      BY <2>1, <2>2, <3>2, Zenon
  <2>4. Arriving(c)'
    BY <2>1, <2>2, <2>3 DEF Arriving
  <2>5. member[PidOf[c]] # c
    BY <1>t, <2>1, NoneAssumption DEF SeatInv, Seated, InRoom
  <2> QED
    BY <1>r, <2>4, <2>5 DEF Good
<1>n. ASSUME ~ClientJoin(c)
      PROVE  Smooth(c) /\ UNCHANGED member
  <2>1. Listening(c) /\ disturbed \subseteq disturbed'
    BY <1>n DEF ClientStep, ShareHint, ShareOffer, ClientOffers, ClientAnswered, ClientTakesOffer,
         ClientAnswers, ClientLeaves, ClientForced, Ends, Handles, Hears, Listening
  <2> QED
    BY <1>r, <1>s, <2>1 DEF Smooth
\* The newcomer has nothing to do but to wait.
<1>a. ASSUME Arriving(c), ~ClientJoin(c) PROVE FALSE
  <2>1. cst[c] = "joining" /\ sig[c] = "have-local-offer" /\ toClient[c] = <<>> /\ share[c] = "no"
    BY <1>a DEF Arriving
  <2>2. ~ClientLeaves(c) /\ ~ClientForced(c)
    BY <1>t, <1>s DEF ClientLeaves, ClientForced, Ends, ClientOK
  <2> QED
    BY <1>a, <2>1, <2>2 DEF ClientStep, ShareHint, ShareOffer, ClientAnswered, ClientTakesOffer,
         ClientAnswers, Handles
<1>m. ASSUME member[PidOf[c]] = c, ~ClientJoin(c) PROVE Good(c)'
  <2>0. \A v : v = View(c) => Fits(c, v)
    BY <1>m, <1>n DEF Good
  <2>v. PICK v : v = View(c)
    OBVIOUS
  <2>1. SUFFICES ASSUME NEW w, w = View(c)' PROVE Fits(c, w)
    BY <1>m, <1>r DEF Good
  <2>2. Typed(v) /\ Typed(w) /\ Fits(c, v)
    BY <2>0, <2>v, <2>1, ViewTypes, ViewTypesPrime
  <2>3. /\ v.down = toClient[c] /\ v.up = toSfu[c] /\ v.sig = sig[c] /\ v.offered = offered[c]
        /\ v.share = share[c] /\ v.deaf = deaf[c] /\ v.views = views[c]
    BY <2>v DEF View
  <2>4. /\ w.down = toClient'[c] /\ w.up = toSfu'[c] /\ w.sig = sig'[c] /\ w.offered = offered'[c]
        /\ w.share = share'[c] /\ w.deaf = deaf'[c] /\ w.views = views'[c]
    BY <2>1 DEF View
  <2>5. /\ w.lines = v.lines /\ w.pend = v.pend /\ w.queued = v.queued /\ w.tin = v.tin
        /\ w.hints = v.hints
    BY <1>r, <2>v, <2>1 DEF View
  <2>a. CASE ShareHint(c)
    <3>1. /\ share[c] = "no" /\ share'[c] = "hinted" /\ Sends(c, <<Cmd("hint")>>)
          /\ UNCHANGED <<toClient, sig, offered, deaf, views>>
      BY <1>t, <2>a DEF ShareHint, ClientOK
    <3>2. Cmd("hint") \in Command
      BY MessageTypes
    <3>3. toSfu'[c] = Append(toSfu[c], Cmd("hint"))
      BY <1>q, <3>1, <3>2, SendsTypes
    <3> QED
      BY <2>2, <2>3, <2>4, <2>5, <3>1, <3>3, FitsHints
  <2>b. CASE ShareOffer(c)
    <3>1. /\ share[c] \in {"hinted", "offered"} /\ share'[c] \in {"offered", "stopped"}
          /\ ClientOffers(c) /\ UNCHANGED <<toClient, deaf, views>>
      BY <1>t, <2>b DEF ShareOffer, ClientOK
    <3>2. /\ sig[c] = "stable" /\ sig'[c] = "have-local-offer" /\ offered'[c] = Media
          /\ Sends(c, <<OfferCmd(c, Media, views[c])>>)
      BY <1>t, <1>s, <3>1 DEF ClientOffers, ClientOK
    <3>3. OfferCmd(c, Media, views[c]) \in Command
      BY <1>t, MessageTypes DEF ClientOK
    <3>4. toSfu'[c] = Append(toSfu[c], OfferCmd(c, Media, views[c]))
      BY <1>q, <3>2, <3>3, SendsTypes
    <3>5. v.share # "no" /\ w.share # "no"
      BY <2>3, <2>4, <3>1
    <3> QED
      BY <2>2, <2>3, <2>4, <2>5, <3>1, <3>2, <3>4, <3>5, FitsOffers
  <2>c. CASE ClientAnswered(c)
    <3>1. /\ toClient[c] # <<>> /\ Head(toClient[c]).op = "answer"
          /\ UNCHANGED <<toSfu, offered, share, views>>
      BY <2>c DEF ClientAnswered, Handles
    \* What becomes of it if the answer is the one it waits for.
    <3>2. PICK u : u = [v EXCEPT !.down = Tail(toClient[c]), !.sig = "stable"]
      OBVIOUS
    <3>3. /\ u.down = Tail(toClient[c]) /\ u.sig = "stable" /\ u.up = v.up /\ u.offered = v.offered
          /\ u.share = v.share /\ u.deaf = v.deaf /\ u.views = v.views /\ u.lines = v.lines
          /\ u.pend = v.pend /\ u.queued = v.queued /\ u.tin = v.tin /\ u.hints = v.hints
      BY <2>v, <3>2 DEF View
    <3>4. Typed(u)
      <4>1. Tail(toClient[c]) \in Seq(Message)
        BY <1>t, <3>1, TailTaken DEF SentOK
      <4> QED
        BY <2>2, <3>3, <4>1 DEF Typed
    <3>5. sig[c] = "have-local-offer" /\ Head(toClient[c]).media = offered[c]
      <4>1. v.down # <<>> /\ Head(v.down).op = "answer" /\ u.down = Tail(v.down)
        BY <2>3, <3>1, <3>3
      <4>2. v.sig = "have-local-offer" /\ Head(v.down).media = v.offered
        BY <2>2, <3>3, <3>4, <4>1, FitsAnswered
      <4> QED
        BY <2>3, <4>2
    <3>6. /\ sig'[c] = "stable" /\ toClient'[c] = Tail(toClient[c]) /\ deaf'[c] = deaf[c]
      BY <1>t, <2>c, <3>5 DEF ClientAnswered, ClientOK, SentOK
    <3> QED
      BY <2>2, <2>3, <2>4, <2>5, <3>1, <3>6, FitsAnswered
  <2>d. CASE ClientTakesOffer(c)
    <3>1. /\ toClient[c] # <<>> /\ Head(toClient[c]).op = "offer"
          /\ toClient'[c] = Tail(toClient[c]) /\ sig[c] = "stable" /\ sig'[c] = "have-remote-offer"
          /\ views'[c] = Head(toClient[c]).tracks
          /\ UNCHANGED <<toSfu, offered, share, deaf>>
      BY <1>t, <1>s, <2>d DEF ClientTakesOffer, Handles, ClientOK, SentOK
    <3> QED
      BY <2>2, <2>3, <2>4, <2>5, <3>1, FitsTakesOffer
  <2>e. CASE ClientAnswers(c)
    <3>1. /\ sig[c] = "have-remote-offer" /\ sig'[c] = "stable" /\ Sends(c, <<Cmd("answer")>>)
          /\ UNCHANGED <<toClient, offered, share, deaf, views>>
      BY <1>t, <2>e DEF ClientAnswers, ClientOK
    <3>2. Cmd("answer") \in Command
      BY MessageTypes
    <3>3. toSfu'[c] = Append(toSfu[c], Cmd("answer"))
      BY <1>q, <3>1, <3>2, SendsTypes
    <3> QED
      BY <2>2, <2>3, <2>4, <2>5, <3>1, <3>3, FitsAnswers
  <2>f. ~ClientLeaves(c) /\ ~ClientForced(c)
    BY <1>t, <1>s DEF ClientLeaves, ClientForced, Ends, ClientOK
  <2> QED
    BY <1>m, <2>a, <2>b, <2>c, <2>d, <2>e, <2>f DEF ClientStep
<1> QED
  BY <1>j, <1>n, <1>a, <1>m DEF Good

\* Somebody else's step.
LEMMA OtherStep ==
  ASSUME TypeOK, NEW c \in Client, NEW d \in Client, c # d, ClientStep(d), Good(c)
  PROVE  Good(c)'
<1>t. WireOK /\ SentOK /\ ClientOK
  BY TypeParts
<1>1. EndKept(c)
  BY <1>t DEF EndKept, ClientStep, ClientJoin, ShareHint, ShareOffer, ClientOffers, Sends,
     ClientAnswered, ClientTakesOffer, ClientAnswers, ClientLeaves, ClientForced, Ends,
     WireOK, SentOK, ClientOK
<1>2. UNCHANGED <<roomVars, offerVars>>
  BY DEF ClientStep, ClientJoin, ShareHint, ShareOffer, ClientAnswered, ClientTakesOffer,
     ClientAnswers, ClientLeaves, ClientForced, Ends
<1> QED
  BY <1>1, <1>2, GoodKept DEF PlaceKept, roomVars, offerVars

\* A place from which p has gone, or to which p comes: its client is offered to
\* deactivate the dead m-lines, or nothing.
LEMMA DeactivatedGood ==
  ASSUME TypeOK, TypeOK', RoomInv, NEW c \in Client, NEW p \in Pid, NEW q \in Pid,
         q = PidOf[c], q # p, Good(c), Smooth(c), member[q] = c, member'[q] = c,
         NEW msgs \in [Client -> Seq(Message)], WsTrySend(msgs),
         c \notin Losing(msgs), msgs[c] = DeactivationOffers(p)[c],
         UNCHANGED clientVars, toSfu'[c] = toSfu[c],
         lines'[q] = lines[q], queued'[q] = queued[q], tin'[q] = tin[q], hints'[q] = hints[q],
         pend'[q] = PendWithout(p)[q]
  PROVE  Good(c)'
<1>t. RoomOK /\ OfferOK /\ SentOK /\ ClientOK
  BY TypeParts
<1>1. msgs[c] = IF q \in Deactivating(p) THEN <<SfuOffer(lines[q] \ DeadLines(q, p))>> ELSE <<>>
  BY <1>t, LeaveMessages
<1>2. CASE q \notin Deactivating(p)
  <2>1. toClient'[c] = toClient[c]
    BY <1>t, <1>1, <1>2, SentTo
  <2>2. pend'[q] = pend[q]
    BY <1>2, WithoutKept
  <2>3. EndKept(c) /\ PlaceKept(q)
    BY <2>1, <2>2 DEF EndKept, PlaceKept, clientVars
  <2> QED
    BY <2>3, GoodKept
<1>3. CASE q \in Deactivating(p)
  <2> DEFINE e == SfuOffer(lines[q] \ DeadLines(q, p))
  <2>0. \A v : v = View(c) => Fits(c, v)
    BY DEF Good
  <2>v. PICK v : v = View(c)
    OBVIOUS
  <2>1. SUFFICES ASSUME NEW w, w = View(c)' PROVE Fits(c, w)
    BY DEF Good
  <2>2. Typed(v) /\ Typed(w) /\ Fits(c, v)
    BY <2>0, <2>v, <2>1, ViewTypes, ViewTypesPrime
  <2>3. Hears(c)
    BY <2>2, <2>v DEF Fits, Hears, Smooth, View
  <2>4. e \in Message
    <3>1. lines[q] \ DeadLines(q, p) \in SUBSET Track
      BY <1>t DEF RoomOK
    <3> QED
      BY <3>1, MessageTypes
  <2>5. toClient'[c] = Append(toClient[c], e)
    BY <1>t, <1>1, <1>3, <2>3, <2>4, SentTo
  <2>6. /\ pend[q] = NoOffer /\ pend'[q].on /\ pend'[q].add = {}
        /\ pend'[q].drop = DeadLines(q, p)
    BY <1>3, WithoutKept
  <2>7. /\ w.down = Append(v.down, e) /\ w.lines = v.lines /\ w.up = v.up /\ w.queued = v.queued
        /\ w.hints = v.hints /\ w.sig = v.sig /\ w.offered = v.offered /\ w.share = v.share
        /\ w.deaf = v.deaf /\ w.views = v.views /\ w.tin = v.tin
        /\ v.pend = NoOffer /\ w.pend = pend'[q] /\ v.lines = lines[q]
    BY <2>v, <2>1, <2>5, <2>6 DEF View, clientVars
  <2>8. Target(w) = lines[q] \ DeadLines(q, p)
    BY <2>6, <2>7 DEF Target
  <2> QED
    BY <2>2, <2>6, <2>7, <2>8, FitsOffered
<1> QED
  BY <1>2, <1>3

\* A client that has no place is sent nothing but the answer to its join.
LEMMA ArrivingKept ==
  ASSUME SentOK, NEW c \in Client, Good(c), member[PidOf[c]] # c, member'[PidOf[c]] # c,
         NEW msgs \in [Client -> Seq(Message)], WsTrySend(msgs), msgs[c] = <<>>,
         UNCHANGED clientVars, toSfu'[c] = toSfu[c]
  PROVE  Good(c)'
<1>1. toClient'[c] = toClient[c]
  BY SentTo
<1>2. EndKept(c)
  BY <1>1 DEF EndKept, clientVars
<1> QED
  BY <1>2, GoodKept

\* p leaves.
LEMMA LeaveGood ==
  ASSUME TypeOK, TypeOK', RoomInv, SeatInv, NEW p \in Pid, Leave(p), NEW c \in Client,
         Smooth(c), Good(c), Smooth(c)', toSfu'[c] = toSfu[c]
  PROVE  Good(c)'
<1>t. RoomOK /\ OfferOK /\ SentOK /\ ClientOK /\ PidOf[c] \in Pid
  BY TypeParts, PidOfClient
<1>e. /\ member' = [member EXCEPT ![p] = None]
      /\ tin' = [tin EXCEPT ![p] = NotPublished]
      /\ lines' = [lines EXCEPT ![p] = {}]
      /\ pend' = PendWithout(p)
      /\ queued' = [queued EXCEPT ![p] = NoClientOffer]
      /\ hints' = [hints EXCEPT ![p] = 0]
      /\ WsTrySend(DeactivationOffers(p))
      /\ disturbed' = disturbed \cup Losing(DeactivationOffers(p)) \cup ({member[p]} \ {None})
      /\ UNCHANGED clientVars
  BY DEF Leave, SendAll
<1>g. c \notin Losing(DeactivationOffers(p)) /\ c # member[p] /\ c # None
  BY <1>e, NoneAssumption DEF Smooth
<1>m. /\ DeactivationOffers(p) \in [Client -> Seq(Message)]
      /\ member[PidOf[c]] # c => DeactivationOffers(p)[c] = <<>>
  BY <1>t, LeaveMessages
<1>1. CASE member[PidOf[c]] # c
  <2>1. member'[PidOf[c]] # c
    BY <1>t, <1>e, <1>g, <1>1 DEF RoomOK
  <2> QED
    BY <1>t, <1>e, <1>m, <1>1, <2>1, ArrivingKept
<1>2. CASE member[PidOf[c]] = c
  <2>1. PidOf[c] # p
    BY <1>g, <1>2
  <2>2. /\ member'[PidOf[c]] = c /\ lines'[PidOf[c]] = lines[PidOf[c]]
        /\ queued'[PidOf[c]] = queued[PidOf[c]] /\ tin'[PidOf[c]] = tin[PidOf[c]]
        /\ hints'[PidOf[c]] = hints[PidOf[c]] /\ pend'[PidOf[c]] = PendWithout(p)[PidOf[c]]
    BY <1>t, <1>e, <1>2, <2>1 DEF RoomOK, OfferOK
  <2> QED
    BY <1>t, <1>e, <1>g, <1>m, <1>2, <2>1, <2>2, DeactivatedGood
<1> QED
  BY <1>1, <1>2

\* d joins.
LEMMA JoinGood ==
  ASSUME TypeOK, TypeOK', RoomInv, SeatInv, NEW d \in Client, HandleJoin(d), NEW c \in Client,
         Smooth(c), Good(c), Smooth(c)'
  PROVE  Good(c)'
<1> DEFINE p == PidOf[d]
<1>t. RoomOK /\ OfferOK /\ WireOK /\ SentOK /\ ClientOK /\ PidOf[c] \in Pid /\ p \in Pid
  BY TypeParts, PidOfClient
<1>j. Joins(d, p)
  BY <1>t, JoinEffect
<1> HIDE DEF p
<1>e. /\ Takes(d, "join")
      /\ member' = [member EXCEPT ![p] = d]
      /\ tin' = [tin EXCEPT ![p] = [NotPublished EXCEPT !["cam"] = "camera"]]
      /\ lines' = [lines EXCEPT ![p] = {}]
      /\ pend' = PendWithout(p)
      /\ queued' = [queued EXCEPT ![p] = NoClientOffer]
      /\ hints' = [hints EXCEPT ![p] = 0]
      /\ WsTrySend(JoinMessages(d))
      /\ disturbed' = disturbed \cup Losing(JoinMessages(d)) \cup ({member[p]} \ {None})
      /\ UNCHANGED clientVars
  BY <1>j DEF Joins, SendAll
<1>g. c \notin Losing(JoinMessages(d)) /\ c # member[p] /\ c # None
  BY <1>e, NoneAssumption DEF Smooth
<1>m. /\ JoinMessages(d) \in [Client -> Seq(Message)]
      /\ JoinMessages(d)[c] = IF c = d THEN <<Answer({"cam"})>> ELSE DeactivationOffers(p)[c]
      /\ member[PidOf[c]] # c => DeactivationOffers(p)[c] = <<>>
  <2>1. JoinMessages(d) \in [Client -> Seq(Message)]
        /\ JoinMessages(d)[c] =
              CASE c = d -> <<Answer({"cam"})>>
                [] c # d /\ c = member[p] -> <<ForceDisconnected>>
                [] OTHER -> DeactivationOffers(p)[c]
    BY <1>t, JoinMessageTypes DEF p
  <2>2. member[PidOf[c]] # c => DeactivationOffers(p)[c] = <<>>
    BY <1>t, LeaveMessages
  <2> QED
    BY <1>g, <2>1, <2>2
<1>1. CASE c = d
  <2>1. member[p] # c /\ PidOf[c] = p
    BY <1>g, <1>1 DEF p
  <2>2. Arriving(c)
    BY <2>1 DEF Good
  <2>3. SUFFICES ASSUME NEW w, w = View(c)' PROVE Fits(c, w)
    BY <1>t, <1>1, <1>e, <2>1 DEF Good, RoomOK
  <2>4. Typed(w)
    BY <2>3, ViewTypesPrime
  <2>5. toSfu'[c] = <<>>
    <3>1. toSfu'[c] = Tail(toSfu[c]) /\ toSfu[c] = <<Cmd("join")>>
      BY <1>t, <1>e, <1>1, <2>2, TakenFrom DEF Arriving
    <3> QED
      BY <3>1
  <2>6. toClient'[c] = <<Answer({"cam"})>>
    <3>1. toClient[c] = <<>> /\ Hears(c)
      BY <2>2 DEF Arriving, Hears, Listening
    <3>2. Answer({"cam"}) \in Message
      BY MessageTypes DEF Media
    <3>3. toClient'[c] = Append(toClient[c], Answer({"cam"}))
      BY <1>t, <1>e, <1>g, <1>m, <1>1, <3>1, <3>2, SentTo
    <3>4. Append(<<>>, Answer({"cam"})) = <<Answer({"cam"})>>
      OBVIOUS
    <3> QED
      BY <3>1, <3>3, <3>4, Zenon
  <2>7. /\ w.down = <<Answer({"cam"})>> /\ w.up = <<>> /\ w.sig = "have-local-offer"
        /\ w.offered = {"cam"} /\ w.share = "no" /\ w.deaf = FALSE /\ w.views = {}
    BY <1>e, <2>2, <2>3, <2>5, <2>6 DEF View, Arriving, clientVars
  <2>8. /\ w.lines = {} /\ w.pend = NoOffer /\ w.queued = NoClientOffer
    BY <1>t, <1>e, <2>1, <2>3, WithoutKept DEF View, RoomOK, OfferOK
  <2>9. w.tin["cam"] = "camera" /\ w.tin["screen"] = "none"
    BY <1>t, <1>e, <2>1, <2>3 DEF View, RoomOK, NotPublished, Media
  <2> QED
    BY <2>4, <2>7, <2>8, <2>9, FitsSeated
<1>2. CASE c # d
  <2>s. toSfu'[c] = toSfu[c]
    BY <1>t, <1>e, <1>2, TakenFrom
  <2>1. CASE member[PidOf[c]] # c
    <3>1. member'[PidOf[c]] # c
      BY <1>t, <1>e, <1>2, <2>1 DEF RoomOK
    <3> QED
      BY <1>t, <1>e, <1>m, <1>2, <2>s, <2>1, <3>1, ArrivingKept
  <2>2. CASE member[PidOf[c]] = c
    <3>1. PidOf[c] # p
      BY <1>g, <2>2
    <3>2. /\ member'[PidOf[c]] = c /\ lines'[PidOf[c]] = lines[PidOf[c]]
          /\ queued'[PidOf[c]] = queued[PidOf[c]] /\ tin'[PidOf[c]] = tin[PidOf[c]]
          /\ hints'[PidOf[c]] = hints[PidOf[c]] /\ pend'[PidOf[c]] = PendWithout(p)[PidOf[c]]
      BY <1>t, <1>e, <2>2, <3>1 DEF RoomOK, OfferOK
    <3> QED
      BY <1>t, <1>e, <1>g, <1>m, <1>2, <2>s, <2>2, <3>1, <3>2, DeactivatedGood
  <2> QED
    BY <2>1, <2>2
<1> QED
  BY <1>1, <1>2

\* d's hint.
LEMMA HintGood ==
  ASSUME TypeOK, TypeOK', SeatInv, NEW d \in Client, HandlePublishTrack(d), NEW c \in Client,
         Good(c)
  PROVE  Good(c)'
<1>t. RoomOK /\ OfferOK /\ WireOK /\ SentOK /\ ClientOK /\ PidOf[c] \in Pid /\ PidOf[d] \in Pid
  BY TypeParts, PidOfClient
<1>e. /\ Takes(d, "hint")
      /\ hints' = IF InRoom(PidOf[d]) THEN [hints EXCEPT ![PidOf[d]] = hints[PidOf[d]] + 1] ELSE hints
      /\ UNCHANGED <<member, tin, lines, pend, queued, toClient, clientVars>>
  BY DEF HandlePublishTrack, offerVars
<1>h. hints'[PidOf[c]] \in {hints[PidOf[c]], hints[PidOf[c]] + 1}
  BY <1>t, <1>e DEF RoomOK
<1>1. CASE member[PidOf[c]] # c
  <2>1. Arriving(c)
    BY <1>1 DEF Good
  <2>2. c # d
    <3>1. toSfu[c] = <<Cmd("join")>> /\ Head(<<Cmd("join")>>) = Cmd("join")
      BY <2>1 DEF Arriving
    <3>2. Head(toSfu[c]).op = "join"
      BY <3>1 DEF Cmd
    <3> QED
      BY <1>e, <3>2 DEF Takes
  <2>3. EndKept(c)
    BY <1>t, <1>e, <2>2, TakenFrom DEF EndKept, clientVars
  <2> QED
    BY <1>e, <1>1, <2>3, GoodKept
<1>2. CASE member[PidOf[c]] = c
  <2>0. \A v : v = View(c) => Fits(c, v)
    BY <1>2 DEF Good
  <2>v. PICK v : v = View(c)
    OBVIOUS
  <2>1. SUFFICES ASSUME NEW w, w = View(c)' PROVE Fits(c, w)
    BY <1>e, <1>2 DEF Good
  <2>2. Typed(v) /\ Typed(w) /\ Fits(c, v)
    BY <2>0, <2>v, <2>1, ViewTypes, ViewTypesPrime
  <2>3. /\ w.down = v.down /\ w.sig = v.sig /\ w.offered = v.offered /\ w.share = v.share
        /\ w.deaf = v.deaf /\ w.views = v.views /\ w.lines = v.lines /\ w.pend = v.pend
        /\ w.queued = v.queued /\ w.tin = v.tin
        /\ w.up = toSfu'[c] /\ v.up = toSfu[c] /\ w.hints = hints'[PidOf[c]]
        /\ v.hints = hints[PidOf[c]]
    BY <1>e, <2>v, <2>1 DEF View, clientVars
  <2>4. CASE c = d
    <3>1. toSfu[c] # <<>> /\ Head(toSfu[c]).op = "hint" /\ toSfu'[c] = Tail(toSfu[c])
      BY <1>t, <1>e, <2>4, TakenFrom
    <3>2. hints'[PidOf[c]] = hints[PidOf[c]] + 1
      BY <1>t, <1>e, <1>2, <2>4, NoneAssumption DEF RoomOK, InRoom
    <3> QED
      BY <2>2, <2>3, <3>1, <3>2, FitsHintHandled
  <2>5. CASE c # d
    <3>1. toSfu'[c] = toSfu[c]
      BY <1>t, <1>e, <2>5, TakenFrom
    <3> QED
      BY <1>h, <2>2, <2>3, <3>1, FitsDisplaced
  <2> QED
    BY <2>4, <2>5
<1> QED
  BY <1>1, <1>2

\* Nobody but the newcomer's command is a join.
LEMMA ArrivingJoins ==
  ASSUME NEW c \in Client, Arriving(c), NEW op, Takes(c, op)
  PROVE  op = "join"
<1>1. toSfu[c] = <<Cmd("join")>> /\ Head(<<Cmd("join")>>) = Cmd("join")
  BY DEF Arriving
<1>2. Head(toSfu[c]).op = "join"
  BY <1>1 DEF Cmd
<1> QED
  BY <1>2 DEF Takes

\* Nothing is outstanding: what the client sees is what has an m-line.
LEMMA SeesLines ==
  ASSUME NEW v, NEW c, Fits(c, v), v.pend = NoOffer, v.lines \in SUBSET Track
  PROVE  v.views = v.lines
<1>1. NoOffer.add = {} /\ NoOffer.drop = {}
  BY DEF NoOffer
<1> QED
  BY <1>1 DEF Fits, Sees, Target

\* The place p's own client makes an offer that is accepted.
LEMMA AcceptedOwn ==
  ASSUME TypeOK, NEW c \in Client, NEW p \in Pid, member[p] = c, NEW o \in Offer,
         o.media = Media, NEW to, NEW hit, Accepted(p, o, to, hit), c \notin disturbed', Hears(c)
  PROVE  /\ toClient'[c] = Append(toClient[c], Answer(Media))
         /\ tin[p]["cam"] = "camera" => tin'[p]["cam"] = "camera"
         /\ tin'[p]["screen"] = IF tin[p]["screen"] # "none" THEN tin[p]["screen"]
                                ELSE IF hints[p] > 0 THEN "screen" ELSE "camera"
<1>t. RoomOK /\ SentOK
  BY TypeParts
<1> DEFINE new == Media \ Published(p)
<1>e. /\ tin' = [tin EXCEPT ![p] = TaggedWith(p, new)]
      /\ WsTrySend(AnswerTo(p, Media))
      /\ c \notin Losing(AnswerTo(p, Media))
  BY DEF Accepted
<1> HIDE DEF new
<1>1. AnswerTo(p, Media) \in [Client -> Seq(Message)] /\ AnswerTo(p, Media)[c] = <<Answer(Media)>>
      /\ Answer(Media) \in Message
  <2>1. Media \in SUBSET Media
    OBVIOUS
  <2> QED
    BY <2>1, AnswerTypes, MessageTypes
<1>2. toClient'[c] = Append(toClient[c], Answer(Media))
  BY <1>t, <1>e, <1>1, SentTo
<1>3. \A m \in Media : tin'[p][m] = IF m \notin new THEN tin[p][m]
                                    ELSE IF hints[p] > 0 THEN "screen" ELSE "camera"
  BY <1>t, <1>e DEF RoomOK, TaggedWith
<1>4. \A m \in Media : m \in new <=> tin[p][m] = "none"
  BY DEF new, Published
<1>5. "cam" \in Media /\ "screen" \in Media
  BY DEF Media
<1> QED
  BY <1>2, <1>3, <1>4, <1>5

\* Nobody but the client whose place it is hears of it.
LEMMA NotAnswered ==
  ASSUME RoomOK, SentOK, NEW p \in Pid, NEW o \in Offer, NEW to, NEW ls, NEW hit,
         Accepted(p, o, to, hit) \/ Refused(p, o, to, ls, hit), NEW c \in Client, c # member[p]
  PROVE  /\ toClient'[c] = toClient[c]
         /\ \A q \in Pid : q # p => tin'[q] = tin[q] /\ hints'[q] = hints[q]
<1>1. CASE Accepted(p, o, to, hit)
  <2>0. o.media \in SUBSET Media
    BY DEF Offer
  <2>t. /\ AnswerTo(p, o.media) \in [Client -> Seq(Message)]
        /\ \A d \in Client :
              AnswerTo(p, o.media)[d] = IF d = member[p] THEN <<Answer(o.media)>> ELSE <<>>
    BY <2>0, AnswerTypes, Zenon
  <2>1. AnswerTo(p, o.media) \in [Client -> Seq(Message)] /\ AnswerTo(p, o.media)[c] = <<>>
    BY <2>t
  <2>2. WsTrySend(AnswerTo(p, o.media))
    BY <1>1 DEF Accepted
  <2>3. \A q \in Pid : q # p => tin'[q] = tin[q] /\ hints'[q] = hints[q]
    BY <1>1 DEF Accepted, RoomOK
  <2> QED
    BY <2>1, <2>2, <2>3, SentTo
<1>2. CASE Refused(p, o, to, ls, hit)
  BY <1>2 DEF Refused
<1> QED
  BY <1>1, <1>2

\* d's offer.
LEMMA OfferGood ==
  ASSUME TypeOK, TypeOK', RoomInv, SeatInv, NEW d \in Client, HandleClientOffer(d),
         NEW c \in Client, Smooth(c), Good(c), Smooth(c)'
  PROVE  Good(c)'
<1> DEFINE p == PidOf[d]
           o == Head(toSfu[d]).offer
<1>t. RoomOK /\ OfferOK /\ WireOK /\ SentOK /\ ClientOK /\ PidOf[c] \in Pid /\ p \in Pid
  BY TypeParts, PidOfClient
<1>e. /\ Takes(d, "offer")
      /\ UNCHANGED <<member, lines, fwd, pend, drops, clientVars>>
  BY DEF HandleClientOffer
<1>o. o \in Offer /\ o.media \in SUBSET Media /\ o.from = d
  <2>1. o \in Offer
    BY <1>t, <1>e, TakesTypes DEF WireOK
  <2>2. toSfu[d] # <<>> /\ Head(toSfu[d]).op = "offer" /\ toSfu[d] \in Seq(Command)
    BY <1>t, <1>e DEF Takes, WireOK
  <2>3. 1 \in 1..Len(toSfu[d]) /\ Head(toSfu[d]) = toSfu[d][1]
    BY <2>2, TailTaken
  <2> QED
    BY <2>1, <2>2, <2>3 DEF SeatInv, Signed, Offer
<1>a. CASE UNCHANGED <<tin, tout, hints, neg, queued, toClient, disturbed>>
           /\ ~(InRoom(p) /\ c = d)
  <2>1. CASE c = d
    <3>1. member[PidOf[c]] # c
      BY <1>a, <2>1, NoneAssumption DEF InRoom
    <3>2. Arriving(c)
      BY <3>1 DEF Good
    <3> QED
      BY <1>e, <2>1, <3>2, ArrivingJoins
  <2>2. CASE c # d
    <3>1. EndKept(c)
      BY <1>t, <1>a, <1>e, <2>2, TakenFrom DEF EndKept, clientVars
    <3>2. PlaceKept(PidOf[c])
      BY <1>a, <1>e DEF PlaceKept
    <3> QED
      BY <1>e, <3>1, <3>2, GoodKept
  <2> QED
    BY <2>1, <2>2
<1>b. CASE InRoom(p) /\ MustStash(p) /\ queued' = [queued EXCEPT ![p] = o]
           /\ UNCHANGED <<tin, tout, hints, neg, toClient, disturbed>>
  <2>1. CASE member[PidOf[c]] # c
    <3>1. Arriving(c)
      BY <2>1 DEF Good
    <3>2. c # d
      BY <1>e, <3>1, ArrivingJoins
    <3>3. EndKept(c)
      BY <1>t, <1>b, <1>e, <3>2, TakenFrom DEF EndKept, clientVars
    <3> QED
      BY <1>e, <2>1, <3>3, GoodKept
  <2>2. CASE member[PidOf[c]] = c
    <3>0. \A v : v = View(c) => Fits(c, v)
      BY <2>2 DEF Good
    <3>v. PICK v : v = View(c)
      OBVIOUS
    <3>1. SUFFICES ASSUME NEW w, w = View(c)' PROVE Fits(c, w)
      BY <1>e, <2>2 DEF Good
    <3>2. Typed(v) /\ Typed(w) /\ Fits(c, v)
      BY <3>0, <3>v, <3>1, ViewTypes, ViewTypesPrime
    <3>3. /\ w.down = v.down /\ w.sig = v.sig /\ w.offered = v.offered /\ w.share = v.share
          /\ w.deaf = v.deaf /\ w.views = v.views /\ w.lines = v.lines /\ w.pend = v.pend
          /\ w.hints = v.hints /\ w.tin = v.tin
          /\ w.up = toSfu'[c] /\ v.up = toSfu[c] /\ w.queued = queued'[PidOf[c]]
          /\ v.queued = queued[PidOf[c]]
      BY <1>b, <1>e, <3>v, <3>1 DEF View, clientVars
    <3>4. CASE c = d
      <4>1. toSfu[c] # <<>> /\ Head(toSfu[c]).op = "offer" /\ toSfu'[c] = Tail(toSfu[c])
        BY <1>t, <1>e, <3>4, TakenFrom
      <4>2. queued'[PidOf[c]] = Head(toSfu[c]).offer
        BY <1>t, <1>b, <3>4 DEF OfferOK
      <4> QED
        BY <3>2, <3>3, <4>1, <4>2, FitsStashed
    <3>5. CASE c # d
      <4>1. toSfu'[c] = toSfu[c]
        BY <1>t, <1>e, <3>5, TakenFrom
      <4>2. queued'[PidOf[c]] = queued[PidOf[c]] \/ queued'[PidOf[c]].from # c
        BY <1>t, <1>b, <1>o, <3>5 DEF OfferOK
      <4> QED
        BY <3>2, <3>3, <4>1, <4>2, FitsDisplaced
    <3> QED
      BY <3>4, <3>5
  <2> QED
    BY <2>1, <2>2
<1>c. CASE InRoom(p) /\ ~MustStash(p) /\ AcceptOffer(p, o, tout, lines[p], {}) /\ UNCHANGED queued
  <2>0. Accepted(p, o, tout, {}) \/ Refused(p, o, tout, lines[p], {})
    <3>1. tout \in [Pid -> [Track -> ToutState]]
      BY <1>t DEF RoomOK
    <3> HIDE DEF p, o
    <3> QED
      BY <1>t, <1>o, <1>c, <3>1, AcceptEffect
  <2>1. CASE member[PidOf[c]] # c
    <3>1. Arriving(c)
      BY <2>1 DEF Good
    <3>2. c # d
      BY <1>e, <3>1, ArrivingJoins
    <3>3. c # member[p]
      BY <1>t, <1>c, <2>1 DEF SeatInv, Seated
    <3>4. toClient'[c] = toClient[c]
      <4> HIDE DEF p, o
      <4> QED
        BY <1>t, <1>o, <2>0, <3>3, NotAnswered
    <3>5. EndKept(c)
      BY <1>t, <1>e, <3>2, <3>4, TakenFrom DEF EndKept, clientVars
    <3> QED
      BY <1>e, <2>1, <3>5, GoodKept
  <2>2. CASE member[PidOf[c]] = c /\ c = d
    <3>0. \A v : v = View(c) => Fits(c, v)
      BY <2>2 DEF Good
    <3>v. PICK v : v = View(c)
      OBVIOUS
    <3>1. SUFFICES ASSUME NEW w, w = View(c)' PROVE Fits(c, w)
      BY <1>e, <2>2 DEF Good
    <3>2. Typed(v) /\ Typed(w) /\ Fits(c, v)
      BY <3>0, <3>v, <3>1, ViewTypes, ViewTypesPrime
    <3>3. /\ w.sig = v.sig /\ w.offered = v.offered /\ w.share = v.share
          /\ w.deaf = v.deaf /\ w.views = v.views /\ w.lines = v.lines /\ w.pend = v.pend
          /\ w.queued = v.queued
          /\ w.down = toClient'[c] /\ v.down = toClient[c] /\ w.up = toSfu'[c] /\ v.up = toSfu[c]
          /\ w.tin = tin'[p] /\ v.tin = tin[p] /\ v.hints = hints[p]
          /\ v.pend = pend[p] /\ v.lines = lines[p]
      BY <1>c, <1>e, <2>2, <3>v, <3>1 DEF View, clientVars
    <3>4. v.pend = NoOffer
      BY <1>t, <1>c, <3>3 DEF RoomInv, Cleared, MustStash
    <3>5. toSfu[c] # <<>> /\ Head(toSfu[c]).op = "offer" /\ toSfu'[c] = Tail(toSfu[c])
      BY <1>t, <1>e, <2>2, TakenFrom
    <3>6. o = Own(c, v)
      <4>1. 1 \in 1..Len(v.up) /\ Head(v.up) = v.up[1]
        BY <3>2, <3>3, <3>5, TailTaken DEF Typed
      <4> QED
        BY <2>2, <3>2, <3>3, <3>5, <4>1 DEF Fits, UpSays
    <3>7. o.media = Media /\ o.from = c /\ o.seen = lines[p]
      BY <3>2, <3>3, <3>4, <3>6, SeesLines DEF Own, Typed
    <3>8. Accepted(p, o, tout, {})
      BY <2>0, <2>2, <3>7 DEF Refused
    <3>9. Hears(c) /\ c \notin disturbed'
      BY <3>2, <3>v DEF Fits, Hears, Smooth, View
    <3>10. /\ toClient'[c] = Append(toClient[c], Answer(Media))
           /\ tin[p]["cam"] = "camera" => tin'[p]["cam"] = "camera"
           /\ tin'[p]["screen"] = IF tin[p]["screen"] # "none" THEN tin[p]["screen"]
                                  ELSE IF hints[p] > 0 THEN "screen" ELSE "camera"
      <4> HIDE DEF o
      <4> QED
        BY <1>t, <1>o, <2>2, <3>7, <3>8, <3>9, AcceptedOwn
    <3>11. v.tin["cam"] = "camera"
      BY <3>2 DEF Fits, Tagged
    <3> QED
      BY <3>2, <3>3, <3>4, <3>5, <3>10, <3>11, FitsAccepted
  <2>3. CASE member[PidOf[c]] = c /\ c # d
    <3>1. toSfu'[c] = toSfu[c]
      BY <1>t, <1>e, <2>3, TakenFrom
    <3>2. CASE PidOf[c] = p
      <4>1. Refused(p, o, tout, lines[p], {})
        BY <1>o, <2>0, <2>3, <3>2 DEF Accepted, Smooth
      <4>2. EndKept(c) /\ PlaceKept(PidOf[c])
        BY <1>c, <1>e, <3>1, <4>1 DEF Refused, EndKept, PlaceKept, clientVars
      <4> QED
        BY <1>e, <4>2, GoodKept
    <3>3. CASE PidOf[c] # p
      <4>1. c # member[p]
        BY <1>t, <1>c, <3>3 DEF SeatInv, Seated
      <4>2. toClient'[c] = toClient[c] /\ tin'[PidOf[c]] = tin[PidOf[c]]
            /\ hints'[PidOf[c]] = hints[PidOf[c]]
        <5> HIDE DEF p, o
        <5> QED
          BY <1>t, <1>o, <2>0, <3>3, <4>1, NotAnswered
      <4>3. EndKept(c) /\ PlaceKept(PidOf[c])
        BY <1>c, <1>e, <3>1, <4>2 DEF EndKept, PlaceKept, clientVars
      <4> QED
        BY <1>e, <4>3, GoodKept
    <3> QED
      BY <3>2, <3>3
  <2> QED
    BY <2>1, <2>2, <2>3
<1> QED
  <2>1. CASE ~InRoom(p)
    <3>1. UNCHANGED <<tin, tout, hints, neg, queued, toClient, disturbed>>
      BY <2>1, Zenon DEF HandleClientOffer
    <3> QED
      BY <1>a, <2>1, <3>1
  <2>2. CASE InRoom(p)
    BY <1>b, <1>c, <2>2, Zenon DEF HandleClientOffer
  <2> QED
    BY <2>1, <2>2

\* d's answer, and the others.
LEMMA AnswerOthers ==
  ASSUME TypeOK, NEW d \in Client, HandleAnswer(d), NEW c \in Client, c # member[PidOf[d]]
  PROVE  /\ toClient'[c] = toClient[c]
         /\ \A q \in Pid : q # PidOf[d] => PlaceKept(q)
<1> DEFINE p == PidOf[d]
<1>t. RoomOK /\ OfferOK /\ SentOK /\ p \in Pid
  BY TypeParts, PidOfClient
<1>1. CASE UNCHANGED <<tin, tout, lines, hints, neg, fwd, offerVars, toClient, disturbed>>
  BY <1>1 DEF PlaceKept, offerVars
<1>2. CASE \E ok \in BOOLEAN : AnswerOf(d, p, ok)
  <2>1. PICK ok \in BOOLEAN : AnswerOf(d, p, ok)
    BY <1>2
  <2>2. /\ Answered(p, ok)
        /\ queued' = [queued EXCEPT ![p] = NoClientOffer]
        /\ queued[p] \in Offer
    BY <1>t, <2>1 DEF AnswerOf, OfferOK
  <2>3. \A q \in Pid : q # p =>
           lines'[q] = lines[q] /\ pend'[q] = pend[q] /\ queued'[q] = queued[q]
    BY <1>t, <2>2 DEF Answered, RoomOK, OfferOK
  <2>4. /\ toClient'[c] = toClient[c]
        /\ \A q \in Pid : q # p => tin'[q] = tin[q] /\ hints'[q] = hints[q]
    <3>1. CASE UNCHANGED <<tin, hints, neg, toClient>>
      BY <3>1
    <3>2. CASE \E to, ls, hit : Accepted(p, queued[p], to, hit)
                                \/ Refused(p, queued[p], to, ls, hit)
      <4>1. PICK to, ls, hit : Accepted(p, queued[p], to, hit)
                               \/ Refused(p, queued[p], to, ls, hit)
        BY <3>2
      <4> HIDE DEF p
      <4>2. c # member[p]
        BY DEF p
      <4> QED
        BY <1>t, <2>2, <4>1, <4>2, NotAnswered
    <3> QED
      BY <2>1, <3>1, <3>2, Zenon DEF AnswerOf
  <2> QED
    BY <2>3, <2>4 DEF PlaceKept
<1> QED
  BY <1>t, <1>1, <1>2, AnswerEffect

\* The answer of the client whose place it is, and the offer stashed meanwhile.
LEMMA AnswerOwn ==
  ASSUME TypeOK, TypeOK', RoomInv, NEW c \in Client, HandleAnswer(c), member[PidOf[c]] = c,
         Smooth(c)', NEW v, v = View(c), Fits(c, v), NEW w, w = View(c)'
  PROVE  Fits(c, w)
<1> DEFINE p == PidOf[c]
<1>t. RoomOK /\ OfferOK /\ WireOK /\ SentOK /\ p \in Pid /\ c # None
  BY TypeParts, PidOfClient
<1>e. Takes(c, "answer") /\ UNCHANGED <<member, drops, clientVars>>
  BY <1>t, AnswerEffect
<1>k. PICK ok \in BOOLEAN : AnswerOf(c, p, ok)
  <2>1. InRoom(p)
    BY <1>t DEF InRoom
  <2> QED
    BY <1>t, <2>1, AnswerEffect
<1>v. /\ v.down = toClient[c] /\ v.up = toSfu[c] /\ v.pend = pend[p] /\ v.queued = queued[p]
      /\ v.lines = lines[p] /\ v.tin = tin[p] /\ v.hints = hints[p] /\ v.sig = sig[c]
      /\ v.deaf = deaf[c] /\ Typed(v)
  BY ViewTypes DEF View
<1>w. /\ w.down = toClient'[c] /\ w.up = toSfu'[c] /\ w.pend = pend'[p] /\ w.queued = queued'[p]
      /\ w.lines = lines'[p] /\ w.tin = tin'[p] /\ w.hints = hints'[p] /\ w.sig = v.sig
      /\ w.offered = v.offered /\ w.share = v.share /\ w.deaf = v.deaf /\ w.views = v.views
      /\ Typed(w)
  BY <1>e, ViewTypesPrime DEF View, clientVars
<1>u. /\ toSfu[c] # <<>> /\ Head(toSfu[c]).op = "answer" /\ toSfu'[c] = Tail(toSfu[c])
  BY <1>t, <1>e, TakenFrom
<1>on. pend[p].on
  <2>1. Count(v.up, "answer") = Count(Tail(v.up), "answer") + 1
        /\ Count(Tail(v.up), "answer") \in Nat
    BY <1>u, <1>v, QueueTail DEF Typed, Bit
  <2>2. Count(v.down, "offer") \in Nat
    BY <1>v, CountFinite DEF Typed
  <2> QED
    BY <1>v, <2>1, <2>2 DEF Fits, OneOut, Bit
<1>ok. ok
  BY <1>k, <1>on DEF AnswerOf
<1>a. /\ lines'[p] = Target(v) /\ pend'[p] = NoOffer /\ queued'[p] = NoClientOffer
  BY <1>t, <1>k, <1>ok, <1>v DEF AnswerOf, Answered, Target, RoomOK, OfferOK
\* The answer by itself.
<1> DEFINE u == [down |-> v.down, up |-> w.up, sig |-> v.sig, offered |-> v.offered,
                 share |-> v.share, deaf |-> v.deaf, views |-> v.views,
                 lines |-> w.lines, pend |-> w.pend, queued |-> v.queued,
                 tin |-> v.tin, hints |-> v.hints]
<1>f. /\ u.down = v.down /\ u.up = w.up /\ u.sig = v.sig /\ u.offered = v.offered
      /\ u.share = v.share /\ u.deaf = v.deaf /\ u.views = v.views /\ u.lines = w.lines
      /\ u.pend = w.pend /\ u.queued = v.queued /\ u.tin = v.tin /\ u.hints = v.hints
  OBVIOUS
<1> HIDE DEF u
<1>ut. Typed(u)
  BY <1>f, <1>v, <1>w DEF Typed
<1>uf. Fits(c, u)
  BY <1>a, <1>f, <1>u, <1>ut, <1>v, <1>w, FitsOpened
<1>x. /\ Head(v.up).op = "answer" /\ u.pend = NoOffer /\ u.views = u.lines
      /\ queued[p].from = c => queued[p] = Own(c, u)
      /\ NoClientOffer.from # c
  <2>1. u.views = u.lines
    BY <1>a, <1>f, <1>ut, <1>uf, <1>w, SeesLines DEF Typed
  <2>2. queued[p].from = c => queued[p] = Own(c, u)
    BY <1>f, <1>uf, <1>v DEF Fits, UpSays
  <2> QED
    BY <1>a, <1>f, <1>t, <1>u, <1>v, <1>w, <2>1, <2>2 DEF NoClientOffer
<1>1. CASE UNCHANGED <<tin, hints, neg, toClient>> /\ queued[p] = NoClientOffer
  BY <1>1, <1>a, <1>f, <1>ut, <1>uf, <1>v, <1>w, FitsDisplaced
<1>2. CASE Refused(p, queued[p], ToutAnswered(p, ok), lines'[p], {member[p]} \ {c})
  <2>1. queued[p].from # c
    BY <1>2, <1>a, <1>f, <1>w, <1>x DEF Refused, Own
  <2> QED
    BY <1>2, <1>a, <1>f, <1>ut, <1>uf, <1>v, <1>w, <1>x, FitsDisplaced DEF Refused
<1>3. CASE Accepted(p, queued[p], ToutAnswered(p, ok), {member[p]} \ {c})
  <2>1. queued[p].from = c
    BY <1>3 DEF Accepted, Smooth
  <2>2. queued[p] = Own(c, u) /\ queued[p].media = Media /\ queued[p] \in Offer
    BY <1>t, <1>x, <2>1 DEF Own, OfferOK
  <2>3. Hears(c) /\ c \notin disturbed'
    BY <1>e, <1>v DEF Fits, Hears, Smooth, Listening, clientVars
  <2>4. /\ toClient'[c] = Append(toClient[c], Answer(Media))
        /\ tin[p]["cam"] = "camera" => tin'[p]["cam"] = "camera"
        /\ tin'[p]["screen"] = IF tin[p]["screen"] # "none" THEN tin[p]["screen"]
                               ELSE IF hints[p] > 0 THEN "screen" ELSE "camera"
    <3>1. \E to, hit : Accepted(p, queued[p], to, hit)
      BY <1>3
    <3> HIDE DEF p
    <3> QED
      BY <1>t, <2>2, <2>3, <3>1, AcceptedOwn DEF p
  <2>5. v.tin["cam"] = "camera"
    BY DEF Fits, Tagged
  <2>6. /\ w.down = Append(u.down, Answer(Media)) /\ w.tin["cam"] = u.tin["cam"]
        /\ w.tin["screen"] = IF u.tin["screen"] # "none" THEN u.tin["screen"]
                             ELSE IF u.hints > 0 THEN "screen" ELSE "camera"
        /\ u.queued.from = c /\ w.queued = NoClientOffer
    BY <1>a, <1>f, <1>v, <1>w, <2>1, <2>4, <2>5
  <2> QED
    BY <1>a, <1>f, <1>ut, <1>uf, <1>w, <2>6, FitsAccepted
<1> QED
  BY <1>1, <1>2, <1>3, <1>k, Zenon DEF AnswerOf

\* d's answer.
LEMMA AnswerGood ==
  ASSUME TypeOK, TypeOK', RoomInv, SeatInv, NEW d \in Client, HandleAnswer(d),
         NEW c \in Client, Smooth(c), Good(c), Smooth(c)'
  PROVE  Good(c)'
<1> DEFINE p == PidOf[d]
<1>t. RoomOK /\ OfferOK /\ WireOK /\ SentOK /\ p \in Pid /\ PidOf[c] \in Pid /\ c # None
  BY TypeParts, PidOfClient
<1>e. Takes(d, "answer") /\ UNCHANGED <<member, drops, clientVars>>
  BY <1>t, AnswerEffect
<1>1. CASE member[PidOf[c]] # c \/ PidOf[c] # p
  <2>1. c # d
    <3>1. CASE member[PidOf[c]] # c
      BY <1>e, <3>1, ArrivingJoins DEF Good
    <3>2. CASE PidOf[c] # p
      BY <3>2
    <3> QED
      BY <1>1, <3>1, <3>2
  <2>2. c # member[p]
    BY <1>1, <1>t DEF SeatInv, Seated, InRoom
  <2>3. toClient'[c] = toClient[c] /\ (PidOf[c] # p => PlaceKept(PidOf[c]))
    BY <1>t, <2>2, AnswerOthers
  <2>4. EndKept(c)
    BY <1>e, <1>t, <2>1, <2>3, TakenFrom DEF EndKept, clientVars
  <2> QED
    BY <1>1, <1>e, <2>3, <2>4, GoodKept
<1>2. CASE member[PidOf[c]] = c /\ PidOf[c] = p /\ c # d
  <2>1. PICK ok \in BOOLEAN : AnswerOf(d, p, ok)
    BY <1>2, <1>t, AnswerEffect DEF InRoom
  <2>2. c \in {member[p]} \ {d} /\ {member[p]} \ {d} \subseteq disturbed'
    BY <1>2, <2>1 DEF AnswerOf, Accepted, Refused
  <2> QED
    BY <2>2 DEF Smooth
<1>3. CASE member[PidOf[c]] = c /\ c = d
  <2>1. \A v : v = View(c) => Fits(c, v)
    BY <1>3 DEF Good
  <2>2. PICK v : v = View(c)
    OBVIOUS
  <2>3. \A w : w = View(c)' => Fits(c, w)
    BY <1>3, <2>1, <2>2, AnswerOwn
  <2> QED
    BY <1>3, <1>e, <2>3 DEF Good
<1> QED
  BY <1>1, <1>2, <1>3

\* negotiate_pending_tracks.
LEMMA NegotiateGood ==
  ASSUME TypeOK, TypeOK', RoomInv, NegotiatePendingTracks, NEW c \in Client, Smooth(c), Good(c),
         Smooth(c)'
  PROVE  Good(c)'
<1> DEFINE p == PidOf[c]
<1>t. RoomOK /\ OfferOK /\ SentOK /\ p \in Pid
  BY TypeParts, PidOfClient
<1>e. /\ \A q \in Pid : pend'[q] = IF q \in Offering THEN Outstanding(ToOpen(q), {}) ELSE pend[q]
      /\ WsTrySend(NegotiationOffers)
      /\ c \notin Losing(NegotiationOffers)
      /\ UNCHANGED <<member, tin, lines, hints, fwd, queued, toSfu, drops, clientVars>>
  BY <1>t, NegotiateEffect DEF Negotiates, SendAll, Smooth
<1>m. /\ NegotiationOffers \in [Client -> Seq(Message)]
      /\ NegotiationOffers[c] = IF p \in Offering /\ member[p] = c
           THEN <<SfuOffer(lines[p] \cup ToOpen(p))>> ELSE <<>>
  BY <1>t, NegotiationMessages
<1>1. CASE member[p] # c
  BY <1>1, <1>e, <1>m, <1>t, ArrivingKept
<1>2. CASE member[p] = c /\ p \notin Offering
  <2>1. toClient'[c] = toClient[c]
    BY <1>2, <1>e, <1>m, <1>t, SentTo
  <2>2. EndKept(c) /\ PlaceKept(p)
    BY <1>2, <1>e, <1>t, <2>1 DEF EndKept, PlaceKept, clientVars
  <2> QED
    BY <1>2, <1>e, <2>2, GoodKept
<1>3. CASE member[p] = c /\ p \in Offering
  <2>0. \A v : v = View(c) => Fits(c, v)
    BY <1>3 DEF Good
  <2>v. PICK v : v = View(c)
    OBVIOUS
  <2>1. SUFFICES ASSUME NEW w, w = View(c)' PROVE Fits(c, w)
    BY <1>e, <1>3 DEF Good
  <2>2. Typed(v) /\ Typed(w) /\ Fits(c, v)
    BY <2>0, <2>v, <2>1, ViewTypes, ViewTypesPrime
  <2>3. /\ w.up = v.up /\ w.sig = v.sig /\ w.offered = v.offered /\ w.share = v.share
        /\ w.deaf = v.deaf /\ w.views = v.views /\ w.lines = v.lines /\ w.queued = v.queued
        /\ w.tin = v.tin /\ w.hints = v.hints
        /\ w.down = toClient'[c] /\ v.down = toClient[c] /\ w.pend = pend'[p] /\ v.pend = pend[p]
        /\ v.lines = lines[p] /\ v.deaf = deaf[c]
    BY <1>e, <2>v, <2>1 DEF View, clientVars
  <2>4. v.pend = NoOffer
    BY <1>t, <1>3, <2>3 DEF RoomInv, Cleared, Offering
  <2>5. w.pend = Outstanding(ToOpen(p), {})
    BY <1>t, <1>e, <1>3, <2>3
  <2>6. w.pend.on /\ Target(w) = lines[p] \cup ToOpen(p)
    BY <2>3, <2>5 DEF Outstanding, Target
  <2>7. Hears(c)
    BY <2>2, <2>3 DEF Fits, Hears, Smooth
  <2>8. SfuOffer(lines[p] \cup ToOpen(p)) \in Message
    <3>1. lines[p] \cup ToOpen(p) \in SUBSET Track
      BY <1>t DEF RoomOK, ToOpen
    <3> QED
      BY <3>1, MessageTypes
  <2>9. w.down = Append(v.down, SfuOffer(Target(w)))
    <3>1. NegotiationOffers[c] = <<SfuOffer(lines[p] \cup ToOpen(p))>>
      BY <1>m, <1>3
    <3>2. toClient'[c] = Append(toClient[c], SfuOffer(lines[p] \cup ToOpen(p)))
      BY <1>e, <1>m, <1>t, <2>7, <2>8, <3>1, SentTo, Zenon
    <3> QED
      BY <2>3, <2>6, <3>2
  <2> QED
    BY <2>2, <2>3, <2>4, <2>6, <2>9, FitsOffered
<1> QED
  BY <1>1, <1>2, <1>3

\* Nobody gets over what went wrong for it, and the shard does not move the
\* clients.
LEMMA ShardStepSmooth ==
  ASSUME NEW d \in Client, ShardStep(d), NEW c \in Client, Smooth(c)'
  PROVE  Smooth(c)
<1>1. UNCHANGED clientVars
  BY DEF ShardStep, HandleJoin, HandleLeave, Leave, HandlePublishTrack, HandleClientOffer,
         HandleAnswer
<1>2. disturbed \subseteq disturbed'
  <2>1. CASE HandleJoin(d) \/ HandleLeave(d)
    BY <2>1 DEF HandleJoin, HandleLeave, Leave, SendAll
  <2>2. CASE HandlePublishTrack(d)
    BY <2>2 DEF HandlePublishTrack
  <2>3. ASSUME NEW p, NEW o, NEW to, NEW ls, NEW hit, AcceptOffer(p, o, to, ls, hit)
        PROVE  disturbed \subseteq disturbed'
    BY <2>3 DEF AcceptOffer
  <2>4. CASE HandleClientOffer(d)
    BY <2>4, <2>3 DEF HandleClientOffer
  <2>5. CASE HandleAnswer(d)
    BY <2>5, <2>3 DEF HandleAnswer
  <2> QED
    BY <2>1, <2>2, <2>4, <2>5 DEF ShardStep
<1> QED
  BY <1>1, <1>2 DEF Smooth, Listening, clientVars

LEMMA OthersStepSmooth ==
  ASSUME ClientOK, NEW d \in Client, ClientStep(d), NEW c \in Client, c # d, Smooth(c)'
  PROVE  Smooth(c)
<1>1. cst'[c] = cst[c]
  BY DEF ClientStep, ClientJoin, ShareHint, ShareOffer, ClientAnswered, ClientTakesOffer,
         ClientAnswers, ClientLeaves, ClientForced, Ends, ClientOK
<1>2. disturbed \subseteq disturbed'
  BY DEF ClientStep, ClientJoin, ShareHint, ShareOffer, ClientOffers, ClientAnswered,
         ClientTakesOffer, ClientAnswers, ClientLeaves, ClientForced, Ends
<1> QED
  BY <1>1, <1>2 DEF Smooth, Listening

LEMMA ClientInvStep ==
  ASSUME TypeOK, TypeOK', RoomInv, SeatInv, ClientInv, [Next]_vars
  PROVE  ClientInv'
<1> SUFFICES ASSUME NEW c \in Client, Smooth(c)' PROVE Good(c)'
  BY DEF ClientInv
<1>t. RoomOK /\ WireOK /\ ClientOK /\ PidOf[c] \in Pid /\ c # None
  BY TypeParts, PidOfClient
<1>g. Smooth(c) => Good(c)
  BY DEF ClientInv
<1>1. ASSUME NEW d \in Client, ClientStep(d) PROVE Good(c)'
  <2>1. CASE c = d
    BY <1>1, <1>g, <2>1, OwnStep
  <2>2. CASE c # d
    BY <1>1, <1>g, <1>t, <2>2, OtherStep, OthersStepSmooth
  <2> QED
    BY <2>1, <2>2
<1>2. ASSUME NEW d \in Client, ShardStep(d) PROVE Good(c)'
  <2>g. Smooth(c) /\ Good(c)
    BY <1>2, <1>g, ShardStepSmooth
  <2>1. CASE HandleJoin(d)
    BY <2>g, <2>1, JoinGood
  <2>2. CASE HandleLeave(d)
    <3>1. Takes(d, "leave") /\ Leave(PidOf[d]) /\ PidOf[d] \in Pid
      BY <2>2, PidOfClient DEF HandleLeave
    <3>2. c # d
      <4>1. CASE member[PidOf[c]] = c
        BY <1>t, <3>1, <4>1 DEF Leave, SendAll, Smooth
      <4>2. CASE member[PidOf[c]] # c
        BY <2>g, <3>1, <4>2, ArrivingJoins DEF Good
      <4> QED
        BY <4>1, <4>2
    <3>3. toSfu'[c] = toSfu[c]
      BY <1>t, <3>1, <3>2, TakenFrom
    <3> QED
      BY <2>g, <3>1, <3>3, LeaveGood
  <2>3. CASE HandlePublishTrack(d)
    BY <2>g, <2>3, HintGood
  <2>4. CASE HandleClientOffer(d)
    BY <2>g, <2>4, OfferGood
  <2>5. CASE HandleAnswer(d)
    BY <2>g, <2>5, AnswerGood
  <2> QED
    BY <1>2, <2>1, <2>2, <2>3, <2>4, <2>5 DEF ShardStep
<1>3. ASSUME NEW d \in Client, DropCommand(d) PROVE Good(c)'
  <2>1. Smooth(c) /\ c # d
    BY <1>3 DEF DropCommand, Smooth, Listening, clientVars
  <2>2. EndKept(c) /\ PlaceKept(PidOf[c])
    BY <1>3, <1>t, <2>1 DEF DropCommand, EndKept, PlaceKept, clientVars, roomVars, offerVars, WireOK
  <2>3. member' = member
    BY <1>3 DEF DropCommand, roomVars
  <2> QED
    BY <1>g, <2>1, <2>2, <2>3, GoodKept
<1>4. CASE NegotiatePendingTracks
  <2>1. Smooth(c)
    BY <1>4 DEF NegotiatePendingTracks, SendAll, Smooth, Listening, clientVars
  <2> QED
    BY <1>4, <1>g, <2>1, NegotiateGood
<1>5. ASSUME NEW p \in Pid, Zombie(p) PROVE Good(c)'
  <2>1. Smooth(c)
    BY <1>5 DEF Zombie, Leave, SendAll, Smooth, Listening, clientVars
  <2> QED
    BY <1>5, <1>g, <2>1, LeaveGood DEF Zombie
<1>6. CASE UNCHANGED vars
  <2>1. Smooth(c) /\ EndKept(c) /\ PlaceKept(PidOf[c]) /\ member' = member
    BY <1>6 DEF vars, roomVars, offerVars, clientVars, Smooth, Listening, EndKept, PlaceKept
  <2> QED
    BY <1>g, <2>1, GoodKept
<1> QED
  BY <1>1, <1>2, <1>3, <1>4, <1>5, <1>6 DEF Next

LEMMA InitClients == Init => SeatInv /\ ClientInv
<1> SUFFICES ASSUME Init PROVE SeatInv /\ ClientInv
  OBVIOUS
<1>1. Untouched /\ Seated
  BY DEF Init, Untouched, Seated, InRoom
<1>2. Signed
  <2>1. \A c \in Client : Len(toSfu[c]) = 0
    BY EmptySeq DEF Init
  <2> QED
    BY <2>1 DEF Signed
<1>3. ClientInv
  BY DEF Init, ClientInv, Smooth, Listening
<1> QED
  BY <1>1, <1>2, <1>3 DEF SeatInv

\* The inductive invariant.
SfuInv == TypeOK /\ RoomInv /\ SeatInv /\ ClientInv

LEMMA InitSfu == Init => SfuInv
BY InitTypes, InitRoom, InitClients DEF SfuInv

LEMMA SfuStep == SfuInv /\ [Next]_vars => SfuInv'
BY TypeStep, RoomStep, SeatStep, ClientInvStep DEF SfuInv

\* A member to whom nothing happened fits its place.
LEMMA MemberFits ==
  ASSUME SfuInv, NEW p \in Pid, InRoom(p), Listening(member[p]), member[p] \notin disturbed
  PROVE  /\ member[p] \in Client /\ PidOf[member[p]] = p
         /\ \A v : v = View(member[p]) => Fits(member[p], v) /\ Typed(v)
<1>1. member[p] \in Client
  BY TypeParts DEF SfuInv, RoomOK, InRoom
<1>2. PidOf[member[p]] = p
  BY DEF SfuInv, SeatInv, Seated
<1>3. Good(member[p])
  BY <1>1 DEF SfuInv, ClientInv, Smooth
<1> QED
  BY <1>1, <1>2, <1>3, ViewTypes DEF Good, SfuInv

\* The SFU waits for an answer exactly while an offer of its is under way, no
\* client offer stays stashed without one, and forwarding_map is what
\* tracks_out says.
THEOREM NegotiationCorrect == Spec => []NegotiationConsistent
<1>1. SfuInv => OneOfferUnderWay
  <2> SUFFICES ASSUME SfuInv, NEW p \in Pid, InRoom(p), member[p] \notin disturbed,
                      Listening(member[p])
               PROVE  Count(toClient[member[p]], "offer") + Count(toSfu[member[p]], "answer")
                        + (IF sig[member[p]] = "have-remote-offer" THEN 1 ELSE 0)
                      = (IF pend[p].on THEN 1 ELSE 0)
    BY DEF OneOfferUnderWay
  <2>1. PICK v : v = View(member[p])
    OBVIOUS
  <2>2. OneOut(v) /\ PidOf[member[p]] = p
    BY <2>1, MemberFits DEF Fits
  <2>3. v.down = toClient[member[p]] /\ v.up = toSfu[member[p]] /\ v.sig = sig[member[p]]
        /\ v.pend = pend[p]
    BY <2>1, <2>2 DEF View
  <2> QED
    BY <2>2, <2>3 DEF OneOut, Bit
<1>2. SfuInv => ForwardingFollowsTracks /\ StashedOfferWaits
  BY RoomProperties DEF SfuInv, RoomInv
<1>3. SfuInv => NegotiationConsistent
  BY <1>1, <1>2 DEF NegotiationConsistent
<1> QED
  BY <1>3, InitSfu, SfuStep, PTL DEF Spec

\* Two participants whose offers never crossed and who lost nothing see, once
\* nothing is under way, whatever the other offers, and a screen as a screen.
THEOREM SeenCorrect == Spec => []EveryoneIsSeen
<1>1. ASSUME SfuInv, NEW p \in Pid, NEW q \in Pid, p # q, AtRest(p), AtRest(q),
             {member[p], member[q]} \cap disturbed = {}
      PROVE  /\ \A m \in offered[member[q]] :
                  /\ <<q, m>> \in views[member[p]]
                  /\ [track |-> <<q, m>>, to |-> p] \in fwd
                  /\ tin[q][m] = (IF m = "cam" THEN "camera" ELSE "screen")
             /\ ~deaf[member[p]]
  <2>1. /\ InRoom(p) /\ Listening(member[p]) /\ p \notin neg /\ ~pend[p].on
        /\ InRoom(q) /\ Listening(member[q]) /\ sig[member[q]] = "stable"
        /\ member[p] \notin disturbed /\ member[q] \notin disturbed
    BY <1>1 DEF AtRest
  <2>2. PICK v : v = View(member[p])
    OBVIOUS
  <2>3. PICK w : w = View(member[q])
    OBVIOUS
  <2>4. Fits(member[p], v) /\ Typed(v) /\ PidOf[member[p]] = p
    BY <1>1, <2>1, <2>2, MemberFits
  <2>5. Fits(member[q], w) /\ Typed(w) /\ PidOf[member[q]] = q
    BY <1>1, <2>1, <2>3, MemberFits
  <2>6. v.pend = pend[p] /\ v.lines = lines[p] /\ v.views = views[member[p]] /\ v.deaf = deaf[member[p]]
    BY <2>2, <2>4 DEF View
  <2>7. w.sig = sig[member[q]] /\ w.offered = offered[member[q]] /\ w.tin = tin[q]
    BY <2>3, <2>5 DEF View
  <2>8. pend[p] = NoOffer
    BY <1>1, <2>1 DEF SfuInv, RoomInv, Cleared
  <2>9. views[member[p]] = lines[p] /\ ~deaf[member[p]]
    BY <2>4, <2>6, <2>8, SeesLines DEF Fits, Typed
  <2>10. ASSUME NEW m \in offered[member[q]]
         PROVE  m \in Media /\ tin[q][m] = (IF m = "cam" THEN "camera" ELSE "screen")
    <3>1. m = "cam" \/ (m = "screen" /\ w.offered = Media)
      BY <2>5, <2>7, <2>10 DEF Fits, Shares, Media
    <3>2. w.tin["cam"] = "camera" /\ (m = "screen" => w.tin["screen"] = "screen")
      BY <2>1, <2>5, <2>7, <3>1 DEF Fits, Shares, Tagged
    <3> QED
      BY <2>7, <3>1, <3>2 DEF Media
  <2>11. ASSUME NEW m \in offered[member[q]]
         PROVE  <<q, m>> \in lines[p] /\ [track |-> <<q, m>>, to |-> p] \in fwd
    <3>1. <<q, m>> \in Track /\ Origin(<<q, m>>) = q /\ <<q, m>>[2] = m
      BY <2>10, TrackParts
    <3>2. tin[q][m] # "none"
      BY <2>10
    <3>3. <<q, m>> \notin pend[p].add
      BY <2>8 DEF NoOffer
    <3>4. tout[p][<<q, m>>] = "open"
      BY <1>1, <2>1, <3>1, <3>2, <3>3 DEF SfuInv, RoomInv, Remembered
    <3> QED
      BY <1>1, <2>1, <3>1, <3>4 DEF SfuInv, RoomInv, OpenLines, Forwarded
  <2> QED
    BY <2>9, <2>10, <2>11
<1>2. SfuInv => EveryoneIsSeen
  BY <1>1 DEF EveryoneIsSeen
<1> QED
  BY <1>2, InitSfu, SfuStep, PTL DEF Spec
=============================================================================
