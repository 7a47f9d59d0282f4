-------------------------- MODULE VoiceSessionsProofs --------------------------
(***************************************************************************)
(* Proofs about VoiceSessions.  The inductive invariant has a part for     *)
(* each place that knows of a call: the REST map (IndexInv), the end of a  *)
(* handler (EndInv), the shard's channel (JoinInv, HeardInv), and the two  *)
(* subjects of the hub (ShownInv, MarkInv).  What a queue will have said   *)
(* once it is empty (Says, Marked, Told) takes the place of the queue.     *)
(***************************************************************************)
EXTENDS VoiceSessions, SequenceTheorems, TLAPS

\* The other connections of its user.
Others(c) == {d \in Conn : UserOf[d] = UserOf[c] /\ d # c}

\* It takes part, or its handler has not come to its end.
Active(c) == client[c] \in {"asked", "open"} \/ Busy(c)

\* Where a handler is while a slot can be its connection's.
Holding == {"registered", "running", "muting", "unmuting", "leaving", "cleanup"}

\* A handler begins with the WebSocket.
Resting == \A c \in Conn : client[c] \in {"idle", "asked"} => pc[c] = "idle"

\* Who has asked was given a session, and that session a channel.
Named == \A c \in Conn : client[c] # "idle" => cs[c] \in Conn /\ chanOf[cs[c]] \in Channel

\* A session is named by a connection that has asked.
Unnamed == \A s \in Conn : client[s] = "idle" => chanOf[s] = None

\* A session in the map belongs to a channel.
InMap == \A s \in sessions : chanOf[s] \in Channel

\* Whoever is in a slot is there for its user and its own session, the session
\* is in the map, and the handler has not yet come to FreeSlot.
Held == \A s \in Conn, u \in User : slot[s][u] # None =>
          /\ s \in sessions /\ UserOf[slot[s][u]] = u /\ cs[slot[s][u]] = s
          /\ pc[slot[s][u]] \in Holding

\* The REST map, its index and the slots.
IndexInv == Resting /\ Named /\ Unnamed /\ InMap /\ Held /\ SessionIndex

\* A handler on its way out, or with a Leave before it, has no client any more.
EndInv ==
    \A c \in Conn :
      /\ pc[c] \in {"leaving", "cleanup", "farewell", "done"} => client[c] = "gone"
      /\ \A i \in 1..Len(inbound[c]) : inbound[c][i] = "leave" => client[c] = "gone"

\* A join of the connection is in the shard's channel.
JoinsWaiting(c) == \E i \in 1..Len(sfuq) : sfuq[i].op = "join" /\ sfuq[i].conn = c

\* A command in the channel speaks of the user and the session of its connection.
Commanded == \A i \in 1..Len(sfuq) :
    /\ sfuq[i].user = UserOf[sfuq[i].conn] /\ sfuq[i].sid = cs[sfuq[i].conn]
    /\ client[sfuq[i].conn] # "idle"

\* The microphone is off before there is a WebSocket.
Closed == \A c \in Conn : client[c] \in {"idle", "asked"} => mic[c] = "off"

\* Before its Join, a connection has sent nothing and the SFU knows nothing of it.
Unjoined == \A c \in Conn : client[c] # "gone" /\ mic[c] = "off" =>
    inbound[c] = <<>> /\ c \notin answered /\ ~JoinsWaiting(c)

\* A Join not yet read is the first frame, and the only one there was.
JoinsOnce == \A c \in Conn : \A i \in 1..Len(inbound[c]) : inbound[c][i] = "join" =>
    i = 1 /\ c \notin answered /\ ~JoinsWaiting(c)

\* A connection joins once.
JoinInv == Commanded /\ Closed /\ Unjoined /\ JoinsOnce

\* Once the hub has consumed voice.occupancy, it shows the user in that channel.
Says(u, ch) ==
    \/ \E i \in 1..Len(occq) :
         /\ occq[i].user = u /\ occq[i].channel = ch
         /\ \A j \in (i+1)..Len(occq) : occq[j].user # u
    \/ (\A i \in 1..Len(occq) : occq[i].user # u) /\ occ[u] = ch

\* Of a user who never overlapped, at most one connection is active.
OneInv == \A c \in Conn : UserOf[c] \notin overlapped /\ Active(c) =>
            \A d \in Others(c) : ~Active(d)

\* From PublishJoined until FreeSlot the hub is told of the call.
ShownInv == \A c \in Conn : UserOf[c] \notin overlapped /\ pc[c] \in Holding \ {"registered"} =>
            Says(UserOf[c], chanOf[cs[c]])

\* After the join of such a connection no command of its user is in the channel;
\* once it was answered there is none at all, and the SFU has its participant.
HeardInv == \A c \in Conn : UserOf[c] \notin overlapped /\ client[c] = "open" =>
    /\ \A i \in 1..Len(sfuq) : sfuq[i].op = "join" /\ sfuq[i].conn = c =>
         \A j \in (i+1)..Len(sfuq) : sfuq[j].user # UserOf[c]
    /\ c \in answered =>
         /\ sfu[cs[c]][UserOf[c]] = c
         /\ \A j \in 1..Len(sfuq) : sfuq[j].user # UserOf[c]

\* Once the hub has consumed voice.mute, the mark of the user says b.
Marked(u, b) ==
    \/ \E i \in 1..Len(muteq) :
         /\ muteq[i].user = u /\ muteq[i].muted = ~b
         /\ \A j \in (i+1)..Len(muteq) : muteq[j].user # u
    \/ (\A i \in 1..Len(muteq) : muteq[i].user # u) /\ (u \in micOn <=> b)

\* The frame that says so.
Word(b) == IF b THEN "unmute" ELSE "mute"

\* What was said last of the microphone, on the wire, in the handler or to the
\* hub, is b.
Told(c, b) ==
    \/ \E i \in 1..Len(inbound[c]) :
         /\ inbound[c][i] = Word(b)
         /\ \A j \in (i+1)..Len(inbound[c]) : inbound[c][j] \notin {"mute", "unmute"}
    \/ /\ \A i \in 1..Len(inbound[c]) : inbound[c][i] \notin {"mute", "unmute"}
       /\ \/ pc[c] = IF b THEN "unmuting" ELSE "muting"
          \/ pc[c] \notin {"muting", "unmuting"} /\ Marked(UserOf[c], b)

\* The only connection its user ever opened has told what its microphone is, and
\* nothing that waits for the hub says that he left.
MarkInv == \A c \in Conn :
    client[c] # "gone" /\ (\A d \in Others(c) : client[d] = "idle") =>
      /\ \A b \in BOOLEAN : (b <=> mic[c] = "on") => Told(c, b)
      /\ \A i \in 1..Len(occq) : occq[i].user = UserOf[c] => occq[i].channel # None

-----------------------------------------------------------------------------
(* Queues, slots and types.                                                *)

\* What is sent comes behind what is there.
LEMMA OneSent ==
    ASSUME NEW S, NEW q \in Seq(S), NEW m \in S
    PROVE  /\ Append(q, m) \in Seq(S) /\ Len(Append(q, m)) = Len(q) + 1
           /\ Append(q, m)[Len(q) + 1] = m
           /\ \A i \in 1..Len(q) : Append(q, m)[i] = q[i]
  BY AppendProperties

\* What is taken was the first.
LEMMA OneTaken ==
    ASSUME NEW S, NEW q \in Seq(S), q # <<>>
    PROVE  /\ Tail(q) \in Seq(S) /\ Len(Tail(q)) = Len(q) - 1 /\ Len(q) >= 1
           /\ Head(q) \in S /\ Head(q) = q[1]
           /\ \A i \in 1..Len(Tail(q)) : Tail(q)[i] = q[i+1] /\ i+1 \in 1..Len(q)
  BY HeadTailProperties

\* A frame of a client.
Frame == {"join", "mute", "unmute", "leave"}

\* SendToSfu puts one command of the connection into the channel, or drops it.
LEMMA Sending ==
    ASSUME TypeOK, NEW op \in {"join", "leave"}, NEW c \in Conn, cs[c] \in Conn,
           SendToSfu(op, c)
    PROVE  /\ sfuq' \in Seq(Command) /\ Len(sfuq') <= SfuCap
           /\ \/ sfuq' = sfuq
              \/ \E m \in Command : /\ sfuq' = Append(sfuq, m)
                                    /\ m.op = op /\ m.conn = c /\ m.sid = cs[c]
                                    /\ m.user = UserOf[c]
  <1> DEFINE m == [op |-> op, conn |-> c, sid |-> cs[c], user |-> UserOf[c]]
  <1>1. /\ m \in Command /\ m.op = op /\ m.conn = c /\ m.sid = cs[c] /\ m.user = UserOf[c]
    BY UserOfAssumption DEF Command
  <1>2. sfuq \in Seq(Command) /\ Len(sfuq) <= SfuCap /\ Len(sfuq) \in Nat /\ SfuCap \in Nat
    <2>1. sfuq \in Seq(Command) /\ Len(sfuq) <= SfuCap
      BY DEF TypeOK
    <2>2. Len(sfuq) \in Nat
      BY <2>1
    <2> QED
      BY <2>1, <2>2, CapAssumption
  <1>3. sfuq' = IF Len(sfuq) < SfuCap THEN Append(sfuq, m) ELSE sfuq
    BY DEF SendToSfu
  <1> HIDE DEF m
  <1>4. CASE Len(sfuq) < SfuCap
    <2>1. sfuq' = Append(sfuq, m) /\ sfuq' \in Seq(Command) /\ Len(sfuq') = Len(sfuq) + 1
      BY <1>1, <1>2, <1>3, <1>4, OneSent
    <2> QED
      BY <1>1, <1>2, <1>4, <2>1
  <1>5. CASE ~(Len(sfuq) < SfuCap)
    BY <1>2, <1>3, <1>5
  <1> QED
    BY <1>4, <1>5

\* A queue that got shorter still fits.
LEMMA Shorter == \A m \in Nat, n \in Nat, k \in Nat : m = n - 1 /\ n <= k => m <= k
  OBVIOUS

\* Writing one slot leaves the others alone.
LEMMA Entered ==
    ASSUME NEW f \in [Conn -> [User -> Conn \cup {None}]], NEW s \in Conn, NEW u \in User,
           NEW x \in Conn \cup {None}
    PROVE  /\ [f EXCEPT ![s][u] = x] \in [Conn -> [User -> Conn \cup {None}]]
           /\ [f EXCEPT ![s][u] = x][s][u] = x
           /\ \A t \in Conn, v \in User : t # s \/ v # u => [f EXCEPT ![s][u] = x][t][v] = f[t][v]
  OBVIOUS

\* A connection in a slot.
LEMMA SlotEntered ==
    ASSUME TypeOK, NEW c \in Conn, cs[c] \in Conn
    PROVE  [slot EXCEPT ![cs[c]][UserOf[c]] = c] \in [Conn -> [User -> Conn \cup {None}]]
  <1>1. slot \in [Conn -> [User -> Conn \cup {None}]]
    BY DEF TypeOK
  <1>2. UserOf[c] \in User /\ c \in Conn \cup {None}
    BY UserOfAssumption
  <1> QED
    BY <1>1, <1>2, Entered

\* Every step keeps the types.
LEMMA TypeStep ==
    ASSUME TypeOK, IndexInv, Next
    PROVE  TypeOK'
  <1> USE DEF TypeOK
  <1>0. /\ \A c \in Conn : UserOf[c] \in User
        /\ \A c \in Conn : client[c] # "idle" => cs[c] \in Conn
        /\ \A c \in Conn : pc[c] # "idle" => client[c] # "idle"
    BY UserOfAssumption DEF IndexInv, Named, Resting
  <1>16. inbound \in [Conn -> Seq(Frame)]
    BY DEF Frame
  <1>1. ASSUME NEW c \in Conn, NEW ch \in Channel, CreateSession(c, ch) PROVE TypeOK'
    <2>1. /\ client' \in [Conn -> {"idle", "asked", "open", "gone"}]
          /\ overlapped' \in SUBSET User /\ cs' \in [Conn -> Conn \cup {None}]
          /\ sessionOf' \in [Channel -> Conn \cup {None}]
          /\ sessions' \in SUBSET Conn
          /\ chanOf' \in [Conn -> Channel \cup {None}]
          /\ slot' = slot
      <3>1. client' \in [Conn -> {"idle", "asked", "open", "gone"}]
        BY <1>1 DEF CreateSession
      <3>2. overlapped' \in SUBSET User
        BY <1>0, <1>1 DEF CreateSession
      <3>3. CASE sessionOf[ch] # None
        <4>1. cs' = [cs EXCEPT ![c] = sessionOf[ch]] /\ UNCHANGED restVars
          BY <1>1, <3>3 DEF CreateSession
        <4>2. sessionOf[ch] \in Conn
          BY <3>3
        <4>3. cs' \in [Conn -> Conn \cup {None}]
          BY <4>1, <4>2
        <4> QED
          BY <3>1, <3>2, <4>1, <4>3 DEF restVars
      <3>4. CASE sessionOf[ch] = None
        <4>1. /\ cs' = [cs EXCEPT ![c] = c]
              /\ sessionOf' = [sessionOf EXCEPT ![ch] = c]
              /\ sessions' = sessions \cup {c}
              /\ chanOf' = [chanOf EXCEPT ![c] = ch]
              /\ slot' = slot
          BY <1>1, <3>4 DEF CreateSession
        <4> QED
          BY <3>1, <3>2, <4>1
      <3> QED
        BY <3>3, <3>4
    <2> QED
      BY <1>1, <2>1 DEF CreateSession, sfuVars, hubVars
  <1>2. ASSUME NEW c \in Conn, OpenWebSocket(c) PROVE TypeOK'
    <2>1. /\ client' \in [Conn -> {"idle", "asked", "open", "gone"}]
          /\ pc' \in [Conn -> Handling \cup {"idle", "done"}]
      BY <1>2 DEF OpenWebSocket, Handling
    <2> QED
      BY <1>2, <2>1 DEF OpenWebSocket, restVars, askedFor, sfuVars, hubVars
  <1>3. ASSUME NEW c \in Conn, SendJoin(c) \/ ToggleMic(c) PROVE TypeOK'
    <2>1. mic' \in [Conn -> {"off", "joined", "on", "off again"}]
      BY <1>3 DEF SendJoin, ToggleMic
    <2>2. \E f \in Frame : inbound' = [inbound EXCEPT ![c] = Append(inbound[c], f)]
      BY <1>3 DEF SendJoin, ToggleMic, Sends, Frame
    <2>3. inbound' \in [Conn -> Seq(Frame)]
      <3>1. \A f \in Frame : Append(inbound[c], f) \in Seq(Frame)
        BY <1>16, OneSent
      <3> QED
        BY <1>16, <2>2, <3>1
    <2> QED
      BY <1>3, <2>1, <2>3 DEF SendJoin, ToggleMic, restVars, askedFor, sfuVars, hubVars, Frame
  <1>4. ASSUME NEW c \in Conn, Disconnect(c) \/ Vanish(c) \/ ForceDisconnected(c) PROVE TypeOK'
    <2>1. /\ mic' \in [Conn -> {"off", "joined", "on", "off again"}]
          /\ client' \in [Conn -> {"idle", "asked", "open", "gone"}]
          /\ kicked' \in SUBSET Conn
      BY <1>4 DEF Disconnect, Vanish, ForceDisconnected, Goes, sfuVars
    <2>2. inbound' = inbound \/ \E f \in Frame : inbound' = [inbound EXCEPT ![c] = Append(inbound[c], f)]
      BY <1>4 DEF Disconnect, Vanish, ForceDisconnected, Sends, Frame
    <2>3. inbound' \in [Conn -> Seq(Frame)]
      <3>1. \A f \in Frame : Append(inbound[c], f) \in Seq(Frame)
        BY <1>16, OneSent
      <3> QED
        BY <1>16, <2>2, <3>1
    <2> QED
      BY <1>4, <2>1, <2>3 DEF Disconnect, Vanish, ForceDisconnected, restVars, askedFor, sfuVars,
                              hubVars, Frame
  <1>5. ASSUME NEW c \in Conn, Register(c) PROVE TypeOK'
    <2>2. /\ slot' \in [Conn -> [User -> Conn \cup {None}]]
          /\ client' \in [Conn -> {"idle", "asked", "open", "gone"}]
          /\ pc' \in [Conn -> Handling \cup {"idle", "done"}]
      <3>1. pc' \in [Conn -> Handling \cup {"idle", "done"}]
        <4>1. \E p \in {"registered", "done"} : pc' = [pc EXCEPT ![c] = p]
          BY <1>5 DEF Register
        <4> QED
          BY <4>1 DEF Handling
      <3>2. client' \in [Conn -> {"idle", "asked", "open", "gone"}]
        BY <1>5 DEF Register
      <3>3. slot' \in [Conn -> [User -> Conn \cup {None}]]
        <4>1. slot' = slot \/ (cs[c] \in sessions /\ slot' = [slot EXCEPT ![cs[c]][UserOf[c]] = c])
          BY <1>5 DEF Register
        <4>2. CASE cs[c] \in sessions /\ slot' = [slot EXCEPT ![cs[c]][UserOf[c]] = c]
          <5>1. cs[c] \in Conn
            BY <4>2
          <5>2. [slot EXCEPT ![cs[c]][UserOf[c]] = c] \in [Conn -> [User -> Conn \cup {None}]]
            BY <5>1, SlotEntered
          <5> QED
            BY <4>2, <5>2, Zenon
        <4> QED
          BY <4>1, <4>2
      <3> QED
        BY <3>1, <3>2, <3>3
    <2> QED
      BY <1>5, <2>2 DEF Register, restVars, askedFor, sfuVars, hubVars
  <1>6. ASSUME NEW c \in Conn, PublishJoined(c) \/ PublishLeft(c) PROVE TypeOK'
    <2>1. \E ch \in Channel \cup {None} :
             occq' = Append(occq, [user |-> UserOf[c], channel |-> ch])
      <3>1. pc[c] # "idle"
        BY <1>6 DEF PublishJoined, PublishLeft
      <3>2. chanOf[cs[c]] \in Channel \cup {None}
        BY <1>0, <3>1
      <3> QED
        BY <1>6, <3>2 DEF PublishJoined, PublishLeft, PublishOccupancy
    <2>2. \A ch \in Channel \cup {None} : [user |-> UserOf[c], channel |-> ch] \in Occupancy
      BY <1>0 DEF Occupancy
    <2>3. occq' \in Seq(Occupancy)
      <3>1. PICK m \in Occupancy : occq' = Append(occq, m)
        BY <2>1, <2>2
      <3> QED
        BY <3>1, OneSent
    <2>4. pc' \in [Conn -> Handling \cup {"idle", "done"}]
      BY <1>6 DEF PublishJoined, PublishLeft, Handling
    <2> QED
      BY <1>6, <2>3, <2>4 DEF PublishJoined, PublishLeft, restVars, clientVars, askedFor, sfuVars
  <1>7. ASSUME NEW c \in Conn, HandleJoin(c) \/ HandleMute(c) \/ HandleLeave(c) PROVE TypeOK'
    <2>1. pc[c] = "running" /\ inbound[c] # <<>> /\ inbound' = [inbound EXCEPT ![c] = Tail(inbound[c])]
      BY <1>7 DEF HandleJoin, HandleMute, HandleLeave, Takes
    <2>2. inbound' \in [Conn -> Seq(Frame)]
      BY <2>1, OneTaken DEF Frame
    <2>3. sfuq' \in Seq(Command) /\ Len(sfuq') <= SfuCap
      <3>1. cs[c] \in Conn
        BY <1>0, <2>1
      <3>2. sfuq' = sfuq \/ SendToSfu("join", c) \/ SendToSfu("leave", c)
        BY <1>7 DEF HandleJoin, HandleMute, HandleLeave, sfuVars
      <3> QED
        BY <3>1, <3>2, Sending
    <2>4. /\ pc' \in [Conn -> Handling \cup {"idle", "done"}]
          /\ kicked' \in SUBSET Conn
      BY <1>7 DEF HandleJoin, HandleMute, HandleLeave, Handling, sfuVars
    <2> QED
      BY <1>7, <2>2, <2>3, <2>4
      DEF HandleJoin, HandleMute, HandleLeave, restVars, clientVars, askedFor, sfuVars, hubVars, Frame
  <1>8. ASSUME NEW c \in Conn, PublishMute(c) PROVE TypeOK'
    <2>1. [user |-> UserOf[c], muted |-> pc[c] = "muting"] \in Mute
      <3>1. (pc[c] = "muting") \in BOOLEAN
        OBVIOUS
      <3> QED
        BY <1>0, <3>1 DEF Mute
    <2>2. muteq' \in Seq(Mute)
      BY <1>8, <2>1, OneSent DEF PublishMute
    <2>3. pc' \in [Conn -> Handling \cup {"idle", "done"}]
      BY <1>8 DEF PublishMute, Handling
    <2> QED
      BY <1>8, <2>2, <2>3 DEF PublishMute, restVars, clientVars, askedFor, sfuVars
  <1>9. ASSUME NEW c \in Conn, LoopEnds(c) PROVE TypeOK'
    <2>1. inbound' \in [Conn -> Seq(Frame)]
      <3>1. <<>> \in Seq(Frame)
        BY EmptySeq
      <3> QED
        BY <1>9, <1>16, <3>1 DEF LoopEnds
    <2>2. pc' \in [Conn -> Handling \cup {"idle", "done"}] /\ kicked' \in SUBSET Conn
      BY <1>9 DEF LoopEnds, Handling
    <2> QED
      BY <1>9, <2>1, <2>2 DEF LoopEnds, restVars, clientVars, askedFor, hubVars, Frame
  <1>10. ASSUME NEW c \in Conn, LeaveSfu(c) PROVE TypeOK'
    <2>1. sfuq' \in Seq(Command) /\ Len(sfuq') <= SfuCap
      <3>1. cs[c] \in Conn
        BY <1>0, <1>10 DEF LeaveSfu
      <3> QED
        BY <1>10, <3>1, Sending DEF LeaveSfu
    <2>2. pc' \in [Conn -> Handling \cup {"idle", "done"}]
      BY <1>10 DEF LeaveSfu, Handling
    <2> QED
      BY <1>10, <2>1, <2>2 DEF LeaveSfu, restVars, clientVars, askedFor, hubVars
  <1>11. ASSUME NEW c \in Conn, FreeSlot(c) PROVE TypeOK'
    <2>1. cs[c] \in Conn /\ UserOf[c] \in User
      BY <1>0, <1>11 DEF FreeSlot
    <2>2. /\ slot' \in [Conn -> [User -> Conn \cup {None}]]
          /\ sessions' \in SUBSET Conn /\ sessionOf' \in [Channel -> Conn \cup {None}]
          /\ chanOf' = chanOf
      <3>1. CASE UNCHANGED restVars
        BY <3>1 DEF restVars
      <3>2. CASE RemoveFrom(cs[c], UserOf[c])
        <4>1. slot' \in [Conn -> [User -> Conn \cup {None}]]
          BY <2>1, <3>2 DEF RemoveFrom
        <4>2. sessions' \in SUBSET Conn /\ sessionOf' \in [Channel -> Conn \cup {None}]
          BY <2>1, <3>2 DEF RemoveFrom
        <4> QED
          BY <3>2, <4>1, <4>2 DEF RemoveFrom
      <3> QED
        BY <1>11, <3>1, <3>2 DEF FreeSlot
    <2>3. pc' \in [Conn -> Handling \cup {"idle", "done"}]
      BY <1>11 DEF FreeSlot, Handling
    <2> QED
      BY <1>11, <2>2, <2>3 DEF FreeSlot, clientVars, askedFor, sfuVars, hubVars
  <1>12. CASE SfuJoin \/ SfuLeave
    <2> DEFINE m == Head(sfuq)
    <2>1. sfuq # <<>> /\ sfuq' = Tail(sfuq)
      BY <1>12 DEF SfuJoin, SfuLeave, TakesCommand
    <2>2. m \in Command /\ sfuq' \in Seq(Command) /\ Len(sfuq') <= SfuCap
      <3>1. /\ Tail(sfuq) \in Seq(Command) /\ Len(Tail(sfuq)) = Len(sfuq) - 1 /\ m \in Command
        BY <2>1, OneTaken
      <3> QED
        <4>1. Len(sfuq) \in Nat
          BY LenProperties
        <4>2. Len(sfuq) <= SfuCap /\ SfuCap \in Nat
          BY CapAssumption
        <4>3. Len(Tail(sfuq)) <= SfuCap
          <5>1. Len(Tail(sfuq)) \in Nat
            BY <3>1, LenProperties
          <5> QED
            BY <3>1, <4>1, <4>2, <5>1, Shorter, Zenon
        <4> QED
          BY <2>1, <3>1, <4>3
    <2>3. m.sid \in Conn /\ m.conn \in Conn /\ m.user \in User
      BY <2>2 DEF Command
    <2>4. /\ \/ kicked' = kicked
             \/ kicked' = kicked \cup {sfu[m.sid][m.user]} /\ sfu[m.sid][m.user] # None
          /\ answered' \in {answered, answered \cup {m.conn}}
          /\ \E x \in {m.conn, None} : sfu' = [sfu EXCEPT ![m.sid][m.user] = x]
      BY <1>12 DEF SfuJoin, SfuLeave
    <2> HIDE DEF m
    <2>5. sfu' \in [Conn -> [User -> Conn \cup {None}]]
      <3>1. PICK x \in {m.conn, None} : sfu' = [sfu EXCEPT ![m.sid][m.user] = x]
        BY <2>4
      <3>2. x \in Conn \cup {None}
        BY <2>3, <3>1
      <3> QED
        BY <2>3, <3>1, <3>2, Entered
    <2>6. kicked' \in SUBSET Conn /\ answered' \in SUBSET Conn
      <3>1. sfu[m.sid][m.user] \in Conn \cup {None}
        <4>1. sfu[m.sid] \in [User -> Conn \cup {None}]
          BY <2>3
        <4> QED
          BY <2>3, <4>1
      <3> QED
        BY <2>3, <2>4, <3>1
    <2> QED
      BY <1>12, <2>2, <2>5, <2>6 DEF SfuJoin, SfuLeave, restVars, clientVars, askedFor, hubVars
  <1>13. ASSUME NEW s \in Conn, NEW u \in User, SfuZombie(s, u) PROVE TypeOK'
    <2>1. sfu' \in [Conn -> [User -> Conn \cup {None}]]
      BY <1>13 DEF SfuZombie
    <2> QED
      BY <1>13, <2>1 DEF SfuZombie, restVars, clientVars, askedFor, hubVars
  <1>14. CASE OccupancyBus
    <2>1. Head(occq) \in Occupancy /\ occq' \in Seq(Occupancy)
      BY <1>14, OneTaken DEF OccupancyBus
    <2>2. /\ occ' = [occ EXCEPT ![Head(occq).user] = Head(occq).channel]
          /\ micOn' \in {micOn, micOn \ {Head(occq).user}}
      BY <1>14 DEF OccupancyBus
    <2>3. occ' \in [User -> Channel \cup {None}] /\ micOn' \in SUBSET User
      BY <2>1, <2>2 DEF Occupancy
    <2> QED
      BY <1>14, <2>1, <2>3 DEF OccupancyBus, restVars, clientVars, askedFor, sfuVars
  <1>15. CASE MuteBus
    <2>1. Head(muteq) \in Mute /\ muteq' \in Seq(Mute)
      BY <1>15, OneTaken DEF MuteBus
    <2>2. micOn' \in {micOn \cup {Head(muteq).user}, micOn \ {Head(muteq).user}}
      BY <1>15 DEF MuteBus
    <2>3. micOn' \in SUBSET User
      BY <2>1, <2>2 DEF Mute
    <2> QED
      BY <1>15, <2>1, <2>3 DEF MuteBus, restVars, clientVars, askedFor, sfuVars
  <1> QED
    BY <1>1, <1>2, <1>3, <1>4, <1>5, <1>6, <1>7, <1>8, <1>9, <1>10, <1>11, <1>12, <1>13, <1>14,
       <1>15 DEF Next, Handler

-----------------------------------------------------------------------------
(* The map, its index and the slots.                                       *)

\* What a step may do to the map, the sessions asked for, the clients and the
\* handlers.
LEMMA Moves ==
    ASSUME TypeOK, Next
    PROVE  \/ UNCHANGED <<restVars, client, cs, pc>>
           \/ \E c \in Conn :
                /\ UNCHANGED <<restVars, cs, pc>> /\ client[c] \in {"asked", "open"}
                /\ client' = [client EXCEPT ![c] = "gone"]
           \/ \E c \in Conn, p \in Handling \cup {"done"} :
                /\ UNCHANGED <<restVars, client, cs>> /\ pc[c] \in Handling
                /\ pc' = [pc EXCEPT ![c] = p]
                /\ pc[c] \in Holding => p \in Holding
           \/ \E c \in Conn :
                \/ \E ch \in Channel : CreateSession(c, ch)
                \/ OpenWebSocket(c) \/ Register(c) \/ FreeSlot(c)
  <1> USE DEF clientVars, askedFor, sfuVars, hubVars, Handling, Holding
  <1>1. ASSUME NEW c \in Conn, SendJoin(c) \/ ToggleMic(c) \/ HandleJoin(c)
        PROVE  UNCHANGED <<restVars, client, cs, pc>>
    BY <1>1 DEF SendJoin, ToggleMic, HandleJoin
  <1>2. CASE SfuJoin \/ SfuLeave \/ (\E s \in Conn, u \in User : SfuZombie(s, u))
             \/ OccupancyBus \/ MuteBus
    BY <1>2 DEF SfuJoin, SfuLeave, SfuZombie, OccupancyBus, MuteBus
  <1>3. ASSUME NEW c \in Conn, Disconnect(c) \/ Vanish(c) \/ ForceDisconnected(c)
        PROVE  /\ UNCHANGED <<restVars, cs, pc>> /\ client[c] \in {"asked", "open"}
               /\ client' = [client EXCEPT ![c] = "gone"]
    BY <1>3 DEF Disconnect, Vanish, ForceDisconnected, Goes
  <1>4. ASSUME NEW c \in Conn,
               PublishJoined(c) \/ HandleMute(c) \/ PublishMute(c) \/ HandleLeave(c)
                 \/ LoopEnds(c) \/ LeaveSfu(c) \/ PublishLeft(c)
        PROVE  \E p \in Handling \cup {"done"} :
                /\ UNCHANGED <<restVars, client, cs>> /\ pc[c] \in Handling
                /\ pc' = [pc EXCEPT ![c] = p]
                /\ pc[c] \in Holding => p \in Holding
    BY <1>4 DEF PublishJoined, HandleMute, Takes, PublishMute, HandleLeave, LoopEnds, LeaveSfu,
                PublishLeft
  <1> QED
    BY <1>1, <1>2, <1>3, <1>4 DEF Next, Handler

\* Every step keeps the map, its index and the slots in agreement.
LEMMA IndexStep ==
    ASSUME TypeOK, IndexInv, Next
    PROVE  IndexInv'
  <1>0. /\ None \notin Conn /\ None \notin Channel
        /\ \A c \in Conn : UserOf[c] \in User
    BY NoneAssumption, UserOfAssumption
  <1>t. /\ sessionOf \in [Channel -> Conn \cup {None}] /\ sessions \in SUBSET Conn
        /\ chanOf \in [Conn -> Channel \cup {None}]
        /\ client \in [Conn -> {"idle", "asked", "open", "gone"}]
        /\ cs \in [Conn -> Conn \cup {None}]
        /\ pc \in [Conn -> Handling \cup {"idle", "done"}]
    BY DEF TypeOK
  <1>s. slot \in [Conn -> [User -> Conn \cup {None}]]
    BY DEF TypeOK
  <1>i. Resting /\ Named /\ Unnamed /\ InMap /\ Held /\ SessionIndex
    BY DEF IndexInv
  <1>h. ASSUME NEW s \in Conn, NEW u \in User, slot[s][u] # None
        PROVE  /\ slot[s][u] \in Conn /\ s \in sessions /\ UserOf[slot[s][u]] = u
               /\ cs[slot[s][u]] = s /\ pc[slot[s][u]] \in Holding
    BY <1>s, <1>i, <1>h DEF Held
  <1>1. CASE UNCHANGED <<restVars, client, cs, pc>>
    BY <1>1, <1>i DEF restVars, IndexInv, Resting, Named, Unnamed, InMap, Held, SessionIndex
  <1>2. ASSUME NEW c \in Conn,
               UNCHANGED <<restVars, cs, pc>>, client[c] \in {"asked", "open"},
               client' = [client EXCEPT ![c] = "gone"]
        PROVE  IndexInv'
    <2>1. UNCHANGED <<sessionOf, sessions, chanOf, slot, cs, pc>>
      BY <1>2 DEF restVars
    <2>2. \A d \in Conn : client'[d] = IF d = c THEN "gone" ELSE client[d]
      BY <1>2, <1>t
    <2>3. Resting' /\ Named' /\ Unnamed'
      BY <1>2, <1>i, <2>1, <2>2 DEF Resting, Named, Unnamed
    <2>4. InMap' /\ Held' /\ SessionIndex'
      BY <1>i, <2>1 DEF InMap, Held, SessionIndex
    <2> QED
      BY <2>3, <2>4 DEF IndexInv
  <1>3. ASSUME NEW c \in Conn, NEW p \in Handling \cup {"done"},
               UNCHANGED <<restVars, client, cs>>, pc[c] \in Handling,
               pc' = [pc EXCEPT ![c] = p],
               pc[c] \in Holding => p \in Holding
        PROVE  IndexInv'
    <2>1. UNCHANGED <<sessionOf, sessions, chanOf, slot, client, cs>>
      BY <1>3 DEF restVars
    <2>2. \A d \in Conn : pc'[d] = IF d = c THEN p ELSE pc[d]
      BY <1>3, <1>t
    <2>3. Resting'
      BY <1>3, <1>i, <2>1, <2>2 DEF Resting, Handling
    <2>4. Held'
      BY <1>3, <1>h, <2>1, <2>2 DEF Held
    <2>5. Named' /\ Unnamed' /\ InMap' /\ SessionIndex'
      BY <1>i, <2>1 DEF Named, Unnamed, InMap, SessionIndex
    <2> QED
      BY <2>3, <2>4, <2>5 DEF IndexInv
  <1>4. ASSUME NEW c \in Conn, NEW ch \in Channel, CreateSession(c, ch) PROVE IndexInv'
    <2>1. /\ client[c] = "idle" /\ client' = [client EXCEPT ![c] = "asked"]
          /\ pc' = pc /\ slot' = slot
      BY <1>4 DEF CreateSession, restVars
    <2>2. chanOf[c] = None /\ c \notin sessions /\ pc[c] = "idle"
      BY <1>0, <1>i, <2>1 DEF Unnamed, InMap, Resting
    <2>3. \A s \in Conn, u \in User : slot[s][u] # None => slot[s][u] # c /\ s # c
      BY <1>h, <2>2 DEF Holding
    <2>4. \A d \in Conn : client'[d] = IF d = c THEN "asked" ELSE client[d]
      BY <1>t, <2>1
    <2>5. Resting'
      BY <1>i, <2>1, <2>2, <2>4 DEF Resting
    <2>6. CASE sessionOf[ch] # None
      <3>1. UNCHANGED <<sessionOf, sessions, chanOf>> /\ cs' = [cs EXCEPT ![c] = sessionOf[ch]]
        BY <1>4, <2>6 DEF CreateSession, restVars
      <3>2. sessionOf[ch] \in Conn /\ chanOf[sessionOf[ch]] = ch
        BY <1>t, <1>i, <2>6 DEF SessionIndex
      <3>3. \A d \in Conn : cs'[d] = IF d = c THEN sessionOf[ch] ELSE cs[d]
        BY <1>t, <3>1
      <3>4. Named' /\ Unnamed'
        BY <1>i, <2>2, <2>4, <3>1, <3>2, <3>3 DEF Named, Unnamed
      <3>5. InMap' /\ SessionIndex'
        BY <1>i, <3>1 DEF InMap, SessionIndex
      <3>6. Held'
        BY <1>h, <2>1, <2>3, <3>1, <3>3 DEF Held
      <3> QED
        BY <2>5, <3>4, <3>5, <3>6 DEF IndexInv
    <2>7. CASE sessionOf[ch] = None
      <3>1. /\ cs' = [cs EXCEPT ![c] = c]
            /\ sessionOf' = [sessionOf EXCEPT ![ch] = c]
            /\ sessions' = sessions \cup {c}
            /\ chanOf' = [chanOf EXCEPT ![c] = ch]
        BY <1>4, <2>7 DEF CreateSession
      <3>2. /\ \A d \in Conn : cs'[d] = IF d = c THEN c ELSE cs[d]
            /\ \A d \in Conn : chanOf'[d] = IF d = c THEN ch ELSE chanOf[d]
            /\ \A k \in Channel : sessionOf'[k] = IF k = ch THEN c ELSE sessionOf[k]
        BY <1>t, <3>1
      <3>3. Named'
        BY <1>0, <1>i, <2>2, <2>4, <3>2 DEF Named
      <3>4. Unnamed'
        BY <1>i, <2>4, <3>2 DEF Unnamed
      <3>5. InMap'
        BY <1>t, <1>i, <3>1, <3>2 DEF InMap
      <3>6. Held'
        BY <1>h, <2>1, <2>3, <3>1, <3>2 DEF Held
      <3>7. SessionIndex'
        <4>1. ASSUME NEW k \in Channel, sessionOf'[k] # None
              PROVE  sessionOf'[k] \in sessions' /\ chanOf'[sessionOf'[k]] = k
          <5>1. CASE k = ch
            BY <3>1, <3>2, <5>1
          <5>2. CASE k # ch
            <6>1. sessionOf'[k] = sessionOf[k] /\ sessionOf[k] \in sessions /\ chanOf[sessionOf[k]] = k
              BY <1>i, <3>2, <4>1, <5>2 DEF SessionIndex
            <6> QED
              BY <1>t, <2>2, <3>1, <3>2, <6>1
          <5> QED
            BY <5>1, <5>2
        <4>2. ASSUME NEW s \in sessions' PROVE sessionOf'[chanOf'[s]] = s
          <5>1. CASE s = c
            BY <3>2, <5>1
          <5>2. CASE s # c
            <6>1. s \in sessions /\ s \in Conn /\ sessionOf[chanOf[s]] = s /\ chanOf[s] \in Channel
              BY <1>t, <1>i, <3>1, <4>2, <5>2 DEF SessionIndex, InMap
            <6>2. chanOf[s] # ch
              BY <1>0, <2>7, <6>1
            <6> QED
              BY <3>2, <5>2, <6>1, <6>2
          <5> QED
            BY <5>1, <5>2
        <4> QED
          BY <4>1, <4>2 DEF SessionIndex
      <3> QED
        BY <2>5, <3>3, <3>4, <3>5, <3>6, <3>7 DEF IndexInv
    <2> QED
      BY <2>6, <2>7
  <1>5. ASSUME NEW c \in Conn, OpenWebSocket(c) PROVE IndexInv'
    <2>1. UNCHANGED <<sessionOf, sessions, chanOf, slot, cs>> /\ client[c] = "asked"
      BY <1>5 DEF OpenWebSocket, restVars, askedFor
    <2>2. PICK k \in {"open", "gone"} : client' = [client EXCEPT ![c] = k]
      BY <1>5 DEF OpenWebSocket
    <2>3. PICK p \in {"found", "done"} : pc' = [pc EXCEPT ![c] = p]
      BY <1>5 DEF OpenWebSocket
    <2>4. /\ \A d \in Conn : client'[d] = IF d = c THEN k ELSE client[d]
          /\ \A d \in Conn : pc'[d] = IF d = c THEN p ELSE pc[d]
      BY <1>t, <2>2, <2>3
    <2>5. pc[c] = "idle"
      BY <1>i, <2>1 DEF Resting
    <2>6. \A s \in Conn, u \in User : slot[s][u] # None => slot[s][u] # c
      BY <1>h, <2>5 DEF Holding
    <2>7. Resting'
      BY <1>i, <2>4 DEF Resting
    <2>8. Named' /\ Unnamed' /\ InMap' /\ SessionIndex'
      BY <1>i, <2>1, <2>4 DEF Named, Unnamed, InMap, SessionIndex
    <2>9. Held'
      BY <1>h, <2>1, <2>4, <2>6 DEF Held
    <2> QED
      BY <2>7, <2>8, <2>9 DEF IndexInv
  <1>6. ASSUME NEW c \in Conn, Register(c) PROVE IndexInv'
    <2>0. UNCHANGED <<sessionOf, sessions, chanOf, cs>> /\ pc[c] = "found"
      BY <1>6 DEF Register, askedFor
    <2>1. client[c] \notin {"idle", "asked"} /\ cs[c] \in Conn /\ UserOf[c] \in User
      BY <1>0, <1>i, <2>0 DEF Resting, Named
    <2>2. CASE cs[c] \in sessions
      <3>1. /\ slot' = [slot EXCEPT ![cs[c]][UserOf[c]] = c]
            /\ pc' = [pc EXCEPT ![c] = "registered"] /\ client' = client
        BY <1>6, <2>2 DEF Register
      <3>2. \A d \in Conn : pc'[d] = IF d = c THEN "registered" ELSE pc[d]
        BY <1>t, <3>1
      <3>3. /\ slot'[cs[c]][UserOf[c]] = c
            /\ \A s \in Conn, u \in User : s # cs[c] \/ u # UserOf[c] => slot'[s][u] = slot[s][u]
        BY <1>s, <2>1, <3>1, Entered
      <3>4. ASSUME NEW s \in Conn, NEW u \in User, slot'[s][u] # None
            PROVE  /\ s \in sessions /\ UserOf[slot'[s][u]] = u /\ cs[slot'[s][u]] = s
                   /\ pc'[slot'[s][u]] \in Holding
        <4>1. CASE s = cs[c] /\ u = UserOf[c]
          BY <2>2, <3>2, <3>3, <4>1 DEF Holding
        <4>2. CASE s # cs[c] \/ u # UserOf[c]
          <5>1. slot'[s][u] = slot[s][u]
            BY <3>3, <4>2
          <5>2. slot[s][u] # c
            BY <1>h, <2>0, <3>4, <5>1 DEF Holding
          <5> QED
            BY <1>h, <3>2, <3>4, <5>1, <5>2
        <4> QED
          BY <4>1, <4>2
      <3>5. Held'
        BY <2>0, <3>4 DEF Held
      <3>6. Resting'
        BY <1>i, <2>1, <3>1, <3>2 DEF Resting
      <3>7. Named' /\ Unnamed' /\ InMap' /\ SessionIndex'
        BY <1>i, <2>0, <3>1 DEF Named, Unnamed, InMap, SessionIndex
      <3> QED
        BY <3>5, <3>6, <3>7 DEF IndexInv
    <2>3. CASE cs[c] \notin sessions
      <3>1. /\ slot' = slot
            /\ pc' = [pc EXCEPT ![c] = "done"] /\ client' = [client EXCEPT ![c] = "gone"]
        BY <1>6, <2>3 DEF Register
      <3>2. /\ \A d \in Conn : pc'[d] = IF d = c THEN "done" ELSE pc[d]
            /\ \A d \in Conn : client'[d] = IF d = c THEN "gone" ELSE client[d]
        BY <1>t, <3>1
      <3>3. \A s \in Conn, u \in User : slot[s][u] # None => slot[s][u] # c
        BY <1>h, <2>0 DEF Holding
      <3>4. Held'
        BY <1>h, <2>0, <3>1, <3>2, <3>3 DEF Held
      <3>5. Resting'
        BY <1>i, <3>2 DEF Resting
      <3>6. Named' /\ Unnamed' /\ InMap' /\ SessionIndex'
        BY <1>i, <2>0, <2>1, <3>2 DEF Named, Unnamed, InMap, SessionIndex
      <3> QED
        BY <3>4, <3>5, <3>6 DEF IndexInv
    <2> QED
      BY <2>2, <2>3
  <1>7. ASSUME NEW c \in Conn, FreeSlot(c) PROVE IndexInv'
    <2> DEFINE s0 == cs[c]
               u0 == UserOf[c]
    <2>0. /\ UNCHANGED <<chanOf, cs, client>> /\ pc[c] = "cleanup"
          /\ pc' = [pc EXCEPT ![c] = "farewell"]
      BY <1>7 DEF FreeSlot, RemoveFrom, restVars, clientVars, askedFor
    <2>1. /\ s0 \in Conn /\ u0 \in User /\ client[c] \notin {"idle", "asked"}
      BY <1>0, <1>i, <2>0 DEF Resting, Named
    <2>2. \A d \in Conn : pc'[d] = IF d = c THEN "farewell" ELSE pc[d]
      BY <1>t, <2>0
    <2>3. Resting' /\ Named' /\ Unnamed'
      BY <1>i, <2>0, <2>1, <2>2 DEF Resting, Named, Unnamed
    <2> HIDE DEF s0, u0
    <2>4. CASE slot[s0][u0] = c
      <3>0. RemoveFrom(s0, u0)
        BY <1>7, <2>4 DEF FreeSlot, s0, u0
      <3>1. s0 \in sessions
        BY <1>0, <1>h, <2>1, <2>4
      <3>2. /\ slot'[s0][u0] = None
            /\ \A s \in Conn, u \in User : s # s0 \/ u # u0 => slot'[s][u] = slot[s][u]
        BY <1>s, <2>1, <3>0, Entered DEF RemoveFrom
      <3>3. ASSUME NEW s \in Conn, NEW u \in User, slot'[s][u] # None
            PROVE  /\ slot'[s][u] = slot[s][u] /\ (s # s0 \/ u # u0)
                   /\ s \in sessions /\ UserOf[slot'[s][u]] = u /\ cs[slot'[s][u]] = s
                   /\ pc'[slot'[s][u]] \in Holding
        <4>1. (s # s0 \/ u # u0) /\ slot'[s][u] = slot[s][u]
          BY <3>2, <3>3
        <4>2. /\ slot[s][u] \in Conn /\ UserOf[slot[s][u]] = u /\ cs[slot[s][u]] = s
              /\ s \in sessions /\ pc[slot[s][u]] \in Holding
          BY <1>h, <3>3, <4>1
        <4>3. slot[s][u] # c
          BY <4>1, <4>2 DEF s0, u0
        <4> QED
          BY <2>2, <4>1, <4>2, <4>3
      <3>4. CASE Empties(s0, u0)
        <4>1. sessions' = sessions \ {s0} /\ sessionOf' = [sessionOf EXCEPT ![chanOf[s0]] = None]
          BY <3>0, <3>4 DEF RemoveFrom
        <4>2. \A k \in Channel : sessionOf'[k] = IF k = chanOf[s0] THEN None ELSE sessionOf[k]
          BY <1>t, <4>1
        <4>3. \A s \in Conn, u \in User : slot'[s][u] # None => s # s0
          BY <3>3, <3>4 DEF Empties
        <4>4. chanOf[s0] \in Channel /\ sessionOf[chanOf[s0]] = s0
          BY <1>i, <3>1 DEF InMap, SessionIndex
        <4>5. SessionIndex'
          <5>1. ASSUME NEW k \in Channel, sessionOf'[k] # None
                PROVE  sessionOf'[k] \in sessions' /\ chanOf'[sessionOf'[k]] = k
            <6>1. k # chanOf[s0] /\ sessionOf'[k] = sessionOf[k]
              BY <4>2, <5>1
            <6>2. sessionOf[k] \in sessions /\ chanOf[sessionOf[k]] = k
              BY <1>i, <5>1, <6>1 DEF SessionIndex
            <6> QED
              BY <2>0, <4>1, <6>1, <6>2
          <5>2. ASSUME NEW s \in sessions' PROVE sessionOf'[chanOf'[s]] = s
            <6>1. s \in sessions /\ s # s0 /\ sessionOf[chanOf[s]] = s /\ chanOf[s] \in Channel
              BY <1>i, <4>1, <5>2 DEF SessionIndex, InMap
            <6>2. chanOf[s] # chanOf[s0]
              BY <4>4, <6>1
            <6> QED
              BY <2>0, <4>2, <6>1, <6>2
          <5> QED
            BY <5>1, <5>2 DEF SessionIndex
        <4>6. Held'
          BY <2>0, <3>3, <4>1, <4>3 DEF Held
        <4>7. InMap'
          BY <1>i, <2>0, <4>1 DEF InMap
        <4> QED
          BY <2>3, <4>5, <4>6, <4>7 DEF IndexInv
      <3>5. CASE ~Empties(s0, u0)
        <4>1. UNCHANGED <<sessions, sessionOf>>
          BY <3>0, <3>5 DEF RemoveFrom
        <4>2. Held'
          BY <2>0, <3>3, <4>1 DEF Held
        <4>3. InMap' /\ SessionIndex'
          BY <1>i, <2>0, <4>1 DEF InMap, SessionIndex
        <4> QED
          BY <2>3, <4>2, <4>3 DEF IndexInv
      <3> QED
        BY <3>4, <3>5
    <2>5. CASE slot[s0][u0] # c
      <3>1. UNCHANGED <<sessionOf, sessions, slot>>
        BY <1>7, <2>5 DEF FreeSlot, restVars, s0, u0
      <3>2. ASSUME NEW s \in Conn, NEW u \in User, slot[s][u] # None
            PROVE  slot[s][u] # c
        <4>1. UserOf[slot[s][u]] = u /\ cs[slot[s][u]] = s
          BY <1>h, <3>2
        <4> QED
          BY <2>5, <4>1 DEF s0, u0
      <3>3. Held'
        BY <1>h, <2>0, <2>2, <3>1, <3>2 DEF Held
      <3>4. InMap' /\ SessionIndex'
        BY <1>i, <2>0, <3>1 DEF InMap, SessionIndex
      <3> QED
        BY <2>3, <3>3, <3>4 DEF IndexInv
    <2> QED
      BY <2>4, <2>5
  <1> QED
    BY <1>1, <1>2, <1>3, <1>4, <1>5, <1>6, <1>7, Moves

\* Only a client that is gone has a Leave on the wire, and a handler that leaves.
LEMMA EndStep ==
    ASSUME TypeOK, IndexInv, EndInv, Next
    PROVE  EndInv'
  <1>0. inbound \in [Conn -> Seq(Frame)]
    BY DEF TypeOK, Frame
  <1>a. /\ client \in [Conn -> {"idle", "asked", "open", "gone"}]
        /\ pc \in [Conn -> Handling \cup {"idle", "done"}]
    BY DEF TypeOK
  <1>b. Resting
    BY DEF IndexInv
  <1>c. \A c \in Conn : Len(inbound[c]) \in Nat
    BY <1>0, LenProperties
  <1> USE DEF EndInv
  <1>1. ASSUME NEW c \in Conn, \E ch \in Channel : CreateSession(c, ch) PROVE EndInv'
    BY <1>a, <1>b, <1>1 DEF CreateSession, Resting
  <1>2. ASSUME NEW c \in Conn, OpenWebSocket(c) PROVE EndInv'
    BY <1>a, <1>b, <1>2 DEF OpenWebSocket, Resting
  <1>3. ASSUME NEW c \in Conn, SendJoin(c) \/ ToggleMic(c) PROVE EndInv'
    <2>1. PICK f \in Frame \ {"leave"} : inbound' = [inbound EXCEPT ![c] = Append(inbound[c], f)]
      BY <1>3 DEF SendJoin, ToggleMic, Sends, Frame
    <2>2. UNCHANGED <<client, pc>>
      BY <1>3 DEF SendJoin, ToggleMic
    <2>3. /\ Len(inbound'[c]) = Len(inbound[c]) + 1 /\ inbound'[c][Len(inbound[c]) + 1] = f
          /\ \A i \in 1..Len(inbound[c]) : inbound'[c][i] = inbound[c][i]
      BY <1>0, <2>1, OneSent
    <2>4. \A d \in Conn \ {c} : inbound'[d] = inbound[d]
      BY <1>0, <2>1
    <2>5. ASSUME NEW i \in 1..Len(inbound'[c]), inbound'[c][i] = "leave" PROVE client[c] = "gone"
      <3>1. i \in 1..Len(inbound[c])
        BY <1>c, <2>1, <2>3, <2>5
      <3> QED
        BY <2>3, <2>5, <3>1
    <2> QED
      BY <2>2, <2>4, <2>5
  <1>4. ASSUME NEW c \in Conn, Disconnect(c) \/ Vanish(c) \/ ForceDisconnected(c) PROVE EndInv'
    <2>1. client' = [client EXCEPT ![c] = "gone"] /\ pc' = pc
      BY <1>4 DEF Disconnect, Vanish, ForceDisconnected, Goes
    <2>2. \A d \in Conn \ {c} : inbound'[d] = inbound[d]
      BY <1>0, <1>4 DEF Disconnect, Vanish, ForceDisconnected, Sends
    <2>3. \A d \in Conn : client'[d] = IF d = c THEN "gone" ELSE client[d]
      BY <1>a, <2>1
    <2> QED
      BY <2>1, <2>2, <2>3
  <1>5. ASSUME NEW c \in Conn, Register(c) PROVE EndInv'
    BY <1>a, <1>5 DEF Register
  <1>6. ASSUME NEW c \in Conn,
               PublishJoined(c) \/ PublishMute(c) \/ LeaveSfu(c) \/ FreeSlot(c) \/ PublishLeft(c)
        PROVE  EndInv'
    <2>1. UNCHANGED <<client, inbound>>
      BY <1>6 DEF PublishJoined, PublishMute, LeaveSfu, FreeSlot, PublishLeft, clientVars
    <2>2. \/ pc' = [pc EXCEPT ![c] = "running"]
          \/ /\ pc[c] \in {"leaving", "cleanup", "farewell"}
             /\ \E p \in {"cleanup", "farewell", "done"} : pc' = [pc EXCEPT ![c] = p]
      BY <1>6 DEF PublishJoined, PublishMute, LeaveSfu, FreeSlot, PublishLeft
    <2>3. \A d \in Conn \ {c} : pc'[d] = pc[d]
      BY <1>a, <2>2
    <2>4. pc'[c] = "running" \/ client[c] = "gone"
      BY <1>a, <2>2
    <2> QED
      BY <2>1, <2>3, <2>4
  <1>7. ASSUME NEW c \in Conn, HandleJoin(c) \/ HandleMute(c) \/ HandleLeave(c) PROVE EndInv'
    <2>1. /\ inbound[c] # <<>> /\ inbound' = [inbound EXCEPT ![c] = Tail(inbound[c])]
          /\ client' = client
      BY <1>7 DEF HandleJoin, HandleMute, HandleLeave, Takes, clientVars
    <2>2. /\ Len(inbound'[c]) = Len(inbound[c]) - 1 /\ Len(inbound[c]) >= 1
          /\ Head(inbound[c]) = inbound[c][1]
          /\ \A i \in 1..Len(inbound'[c]) : inbound'[c][i] = inbound[c][i+1] /\ i+1 \in 1..Len(inbound[c])
      BY <1>0, <2>1, OneTaken
    <2>3. \A d \in Conn \ {c} : inbound'[d] = inbound[d]
      BY <1>0, <2>1
    <2>4. \/ pc' = pc
          \/ \E p \in {"muting", "unmuting"} : pc' = [pc EXCEPT ![c] = p]
          \/ pc' = [pc EXCEPT ![c] = "leaving"] /\ client[c] = "gone"
      <3>1. CASE HandleJoin(c) \/ HandleMute(c)
        BY <3>1 DEF HandleJoin, HandleMute
      <3>2. CASE HandleLeave(c)
        <4>1. Head(inbound[c]) = "leave" /\ pc' = [pc EXCEPT ![c] = "leaving"]
          BY <3>2 DEF HandleLeave, Takes
        <4>2. 1 \in 1..Len(inbound[c])
          BY <1>0, <2>2
        <4> QED
          BY <2>2, <4>1, <4>2
      <3> QED
        BY <1>7, <3>1, <3>2
    <2>5. \A d \in Conn \ {c} : pc'[d] = pc[d]
      BY <1>a, <2>4
    <2>6. pc'[c] \in {"leaving", "cleanup", "farewell", "done"} => client[c] = "gone"
      BY <1>a, <2>4
    <2>7. \A i \in 1..Len(inbound'[c]) : inbound'[c][i] = "leave" => client[c] = "gone"
      BY <2>2
    <2> QED
      BY <2>1, <2>3, <2>5, <2>6, <2>7
  <1>8. ASSUME NEW c \in Conn, LoopEnds(c) PROVE EndInv'
    <2>1. /\ client[c] = "gone" /\ client' = client /\ pc' = [pc EXCEPT ![c] = "leaving"]
          /\ inbound' = [inbound EXCEPT ![c] = <<>>]
      BY <1>8 DEF LoopEnds, clientVars
    <2> QED
      BY <1>0, <2>1
  <1>9. CASE SfuJoin \/ SfuLeave \/ (\E s \in Conn, u \in User : SfuZombie(s, u))
             \/ OccupancyBus \/ MuteBus
    BY <1>9 DEF SfuJoin, SfuLeave, SfuZombie, OccupancyBus, MuteBus, clientVars
  <1> QED
    BY <1>1, <1>2, <1>3, <1>4, <1>5, <1>6, <1>7, <1>8, <1>9 DEF Next, Handler

-----------------------------------------------------------------------------
(* One Join of each connection.                                            *)

\* A command of the connection got into the shard's channel.
Appends(c, op) ==
    \E m \in Command : /\ sfuq' = Append(sfuq, m)
                       /\ m.op = op /\ m.conn = c /\ m.sid = cs[c] /\ m.user = UserOf[c]

\* The channel when a command got into it ...
LEMMA Appended ==
    ASSUME TypeOK, NEW c \in Conn, NEW op \in {"join", "leave"}, Appends(c, op)
    PROVE  /\ Len(sfuq') = Len(sfuq) + 1 /\ Len(sfuq) \in Nat
           /\ \A i \in 1..Len(sfuq) : sfuq'[i] = sfuq[i] /\ sfuq[i] \in Command
           /\ sfuq'[Len(sfuq) + 1].op = op /\ sfuq'[Len(sfuq) + 1].conn = c
           /\ sfuq'[Len(sfuq) + 1].sid = cs[c] /\ sfuq'[Len(sfuq) + 1].user = UserOf[c]
           /\ \A d \in Conn : JoinsWaiting(d)' <=> JoinsWaiting(d) \/ (op = "join" /\ d = c)
  <1>1. sfuq \in Seq(Command)
    BY DEF TypeOK
  <1>2. PICK m \in Command : /\ sfuq' = Append(sfuq, m)
                             /\ m.op = op /\ m.conn = c /\ m.sid = cs[c] /\ m.user = UserOf[c]
    BY DEF Appends
  <1>3. /\ Len(sfuq') = Len(sfuq) + 1 /\ sfuq'[Len(sfuq) + 1] = m
        /\ \A i \in 1..Len(sfuq) : sfuq'[i] = sfuq[i]
    BY <1>1, <1>2, OneSent
  <1>4. Len(sfuq) \in Nat /\ \A i \in 1..Len(sfuq) : sfuq[i] \in Command
    BY <1>1
  <1>5. \A i \in 1..(Len(sfuq) + 1) : i \in 1..Len(sfuq) \/ i = Len(sfuq) + 1
    BY <1>4
  <1>6. \A i \in 1..Len(sfuq) : i \in 1..(Len(sfuq) + 1)
    BY <1>4
  <1>7. Len(sfuq) + 1 \in 1..(Len(sfuq) + 1)
    BY <1>4
  <1>8. ASSUME NEW d \in Conn
        PROVE  JoinsWaiting(d)' <=> JoinsWaiting(d) \/ (op = "join" /\ d = c)
    BY <1>2, <1>3, <1>5, <1>6, <1>7 DEF JoinsWaiting
  <1> QED
    BY <1>2, <1>3, <1>4, <1>8

\* ... and when the shard took one.
LEMMA Taken ==
    ASSUME TypeOK, sfuq # <<>>, sfuq' = Tail(sfuq)
    PROVE  /\ Len(sfuq') = Len(sfuq) - 1 /\ Len(sfuq) \in Nat \ {0} /\ Len(sfuq') \in Nat
           /\ Head(sfuq) = sfuq[1] /\ Head(sfuq) \in Command
           /\ \A i \in 1..Len(sfuq') : sfuq'[i] = sfuq[i+1] /\ i+1 \in 1..Len(sfuq)
           /\ \A i \in 1..Len(sfuq) : sfuq[i] \in Command
           /\ \A d \in Conn : JoinsWaiting(d)' => JoinsWaiting(d)
           /\ \A d \in Conn : Head(sfuq).op = "join" /\ Head(sfuq).conn = d => JoinsWaiting(d)
  <1>1. sfuq \in Seq(Command)
    BY DEF TypeOK
  <1>2. /\ Len(sfuq') = Len(sfuq) - 1 /\ Len(sfuq) >= 1 /\ sfuq' \in Seq(Command)
        /\ Head(sfuq) \in Command /\ Head(sfuq) = sfuq[1]
        /\ \A i \in 1..Len(sfuq') : sfuq'[i] = sfuq[i+1] /\ i+1 \in 1..Len(sfuq)
    BY <1>1, OneTaken
  <1>3. Len(sfuq) \in Nat /\ Len(sfuq') \in Nat /\ \A i \in 1..Len(sfuq) : sfuq[i] \in Command
    BY <1>1, <1>2
  <1>4. 1 \in 1..Len(sfuq)
    BY <1>2, <1>3
  <1>5. \A d \in Conn : JoinsWaiting(d)' => JoinsWaiting(d)
    BY <1>2 DEF JoinsWaiting
  <1>6. \A d \in Conn : Head(sfuq).op = "join" /\ Head(sfuq).conn = d => JoinsWaiting(d)
    BY <1>2, <1>4 DEF JoinsWaiting
  <1> QED
    BY <1>2, <1>3, <1>5, <1>6

\* The wire of a connection when a frame was sent ...
LEMMA FrameSent ==
    ASSUME TypeOK, NEW c \in Conn, NEW f \in Frame,
           inbound' = [inbound EXCEPT ![c] = Append(@, f)]
    PROVE  /\ Len(inbound'[c]) = Len(inbound[c]) + 1 /\ Len(inbound[c]) \in Nat
           /\ \A i \in 1..Len(inbound[c]) : inbound'[c][i] = inbound[c][i]
           /\ inbound'[c][Len(inbound[c]) + 1] = f
           /\ \A d \in Conn \ {c} : inbound'[d] = inbound[d]
           /\ \A i \in 1..Len(inbound'[c]) : i \in 1..Len(inbound[c]) \/ i = Len(inbound[c]) + 1
  <1>1. inbound \in [Conn -> Seq(Frame)]
    BY DEF TypeOK, Frame
  <1>2. inbound[c] \in Seq(Frame) /\ inbound'[c] = Append(inbound[c], f)
        /\ \A d \in Conn \ {c} : inbound'[d] = inbound[d]
    BY <1>1
  <1>3. /\ Len(inbound'[c]) = Len(inbound[c]) + 1 /\ inbound'[c][Len(inbound[c]) + 1] = f
        /\ \A i \in 1..Len(inbound[c]) : inbound'[c][i] = inbound[c][i]
    BY <1>2, OneSent
  <1>4. Len(inbound[c]) \in Nat
    BY <1>2, LenProperties
  <1> QED
    BY <1>2, <1>3, <1>4

\* ... and when the handler took one.
LEMMA FrameTaken ==
    ASSUME TypeOK, NEW c \in Conn, inbound[c] # <<>>,
           inbound' = [inbound EXCEPT ![c] = Tail(@)]
    PROVE  /\ Len(inbound'[c]) = Len(inbound[c]) - 1 /\ Len(inbound[c]) \in Nat \ {0}
           /\ Head(inbound[c]) = inbound[c][1] /\ 1 \in 1..Len(inbound[c])
           /\ \A i \in 1..Len(inbound'[c]) :
                /\ inbound'[c][i] = inbound[c][i+1] /\ i+1 \in 1..Len(inbound[c]) /\ i+1 # 1
           /\ \A d \in Conn \ {c} : inbound'[d] = inbound[d]
  <1>1. inbound \in [Conn -> Seq(Frame)]
    BY DEF TypeOK, Frame
  <1>2. inbound[c] \in Seq(Frame) /\ inbound'[c] = Tail(inbound[c])
        /\ \A d \in Conn \ {c} : inbound'[d] = inbound[d]
    BY <1>1
  <1>3. /\ Len(inbound'[c]) = Len(inbound[c]) - 1 /\ Len(inbound[c]) >= 1
        /\ Head(inbound[c]) = inbound[c][1]
        /\ \A i \in 1..Len(inbound'[c]) : inbound'[c][i] = inbound[c][i+1] /\ i+1 \in 1..Len(inbound[c])
    <2> DEFINE q == inbound[c]
    <2>1. q \in Seq(Frame) /\ q # <<>> /\ inbound'[c] = Tail(q)
      BY <1>2
    <2> HIDE DEF q
    <2>2. /\ Len(Tail(q)) = Len(q) - 1 /\ Len(q) >= 1 /\ Head(q) = q[1]
          /\ \A i \in 1..Len(Tail(q)) : Tail(q)[i] = q[i+1] /\ i+1 \in 1..Len(q)
      BY <2>1, OneTaken
    <2>3. /\ Len(inbound'[c]) = Len(q) - 1 /\ Len(q) >= 1 /\ Head(q) = q[1]
          /\ \A i \in 1..Len(inbound'[c]) : inbound'[c][i] = q[i+1] /\ i+1 \in 1..Len(q)
      BY <2>1, <2>2
    <2> QED
      BY <2>3 DEF q
  <1>4. Len(inbound[c]) \in Nat
    BY <1>2, LenProperties
  <1> QED
    BY <1>2, <1>3, <1>4

\* A handler tells the SFU of its own connection.
LEMMA Tells ==
    ASSUME TypeOK, IndexInv, NEW c \in Conn, NEW op \in {"join", "leave"},
           pc[c] # "idle", SendToSfu(op, c)
    PROVE  sfuq' = sfuq \/ Appends(c, op)
  <1>1. cs[c] \in Conn
    BY DEF TypeOK, IndexInv, Named, Resting
  <1> QED
    BY <1>1, Sending DEF Appends

\* Every step keeps a connection to one Join.
LEMMA JoinStep ==
    ASSUME TypeOK, IndexInv, EndInv, JoinInv, Next
    PROVE  JoinInv'
  <1>t. /\ client \in [Conn -> {"idle", "asked", "open", "gone"}]
        /\ mic \in [Conn -> {"off", "joined", "on", "off again"}]
        /\ cs \in [Conn -> Conn \cup {None}] /\ answered \in SUBSET Conn
    BY DEF TypeOK
  <1>u. \A i \in 1..Len(sfuq) : sfuq[i].conn \in Conn
    <2>1. sfuq \in Seq(Command)
      BY DEF TypeOK
    <2>2. \A i \in 1..Len(sfuq) : sfuq[i] \in Command
      BY <2>1
    <2> QED
      BY <2>2 DEF Command
  <1>r. \A c \in Conn : pc[c] # "idle" => client[c] \notin {"idle", "asked"}
    BY DEF IndexInv, Resting
  <1>i. Commanded /\ Closed /\ Unjoined /\ JoinsOnce
    BY DEF JoinInv
  <1>1. ASSUME NEW c \in Conn, \E ch \in Channel : CreateSession(c, ch) PROVE JoinInv'
    <2>1. /\ client[c] = "idle" /\ client' = [client EXCEPT ![c] = "asked"]
          /\ UNCHANGED <<mic, inbound, sfuq, answered>>
          /\ \E s : cs' = [cs EXCEPT ![c] = s]
      BY <1>1 DEF CreateSession, sfuVars
    <2>2. /\ \A d \in Conn : client'[d] = IF d = c THEN "asked" ELSE client[d]
          /\ \A d \in Conn \ {c} : cs'[d] = cs[d]
      BY <1>t, <2>1
    <2>3. Commanded'
      BY <1>u, <1>i, <2>1, <2>2 DEF Commanded
    <2>4. Closed'
      BY <1>i, <2>1, <2>2 DEF Closed
    <2>5. Unjoined'
      BY <1>i, <2>1, <2>2 DEF Unjoined, JoinsWaiting
    <2>6. JoinsOnce'
      BY <1>i, <2>1 DEF JoinsOnce, JoinsWaiting
    <2> QED
      BY <2>3, <2>4, <2>5, <2>6 DEF JoinInv
  <1>2. ASSUME NEW c \in Conn, OpenWebSocket(c) PROVE JoinInv'
    <2>1. /\ client[c] = "asked" /\ UNCHANGED <<mic, inbound, sfuq, answered, cs>>
      BY <1>2 DEF OpenWebSocket, sfuVars, askedFor
    <2>2. PICK k \in {"open", "gone"} : client' = [client EXCEPT ![c] = k]
      BY <1>2 DEF OpenWebSocket
    <2>3. \A d \in Conn : client'[d] = IF d = c THEN k ELSE client[d]
      BY <1>t, <2>2
    <2>4. Commanded' /\ Closed'
      BY <1>u, <1>i, <2>1, <2>3 DEF Commanded, Closed
    <2>5. Unjoined' /\ JoinsOnce'
      BY <1>i, <2>1, <2>3 DEF Unjoined, JoinsOnce, JoinsWaiting
    <2> QED
      BY <2>4, <2>5 DEF JoinInv
  <1>3. ASSUME NEW c \in Conn, SendJoin(c) PROVE JoinInv'
    <2>1. /\ client[c] = "open" /\ mic[c] = "off" /\ mic' = [mic EXCEPT ![c] = "joined"]
          /\ inbound' = [inbound EXCEPT ![c] = Append(@, "join")]
          /\ UNCHANGED <<client, sfuq, answered, cs>>
      BY <1>3 DEF SendJoin, Sends, sfuVars, askedFor
    <2>2. inbound[c] = <<>> /\ c \notin answered /\ ~JoinsWaiting(c)
      BY <1>i, <2>1 DEF Unjoined
    <2>3. /\ Len(inbound'[c]) = 1 /\ \A d \in Conn \ {c} : inbound'[d] = inbound[d]
      <3>1. "join" \in Frame
        BY DEF Frame
      <3>2. /\ Len(inbound'[c]) = Len(inbound[c]) + 1
            /\ \A d \in Conn \ {c} : inbound'[d] = inbound[d]
        BY <2>1, <3>1, FrameSent
      <3>3. Len(<<>>) = 0
        OBVIOUS
      <3> QED
        BY <2>2, <3>2, <3>3
    <2>4. \A d \in Conn : mic'[d] = IF d = c THEN "joined" ELSE mic[d]
      BY <1>t, <2>1
    <2>5. Commanded' /\ Closed'
      BY <1>u, <1>i, <2>1, <2>4 DEF Commanded, Closed
    <2>6. Unjoined'
      BY <1>i, <2>1, <2>3, <2>4 DEF Unjoined, JoinsWaiting
    <2>7. JoinsOnce'
      <3>1. ~JoinsWaiting(c)' /\ \A d \in Conn : JoinsWaiting(d)' <=> JoinsWaiting(d)
        BY <2>1, <2>2 DEF JoinsWaiting
      <3>2. \A i \in 1..Len(inbound'[c]) : i = 1
        BY <2>3
      <3>3. \A d \in Conn \ {c} : \A i \in 1..Len(inbound'[d]) : inbound'[d][i] = "join" =>
               i = 1 /\ d \notin answered' /\ ~JoinsWaiting(d)'
        BY <1>i, <2>1, <2>3, <3>1 DEF JoinsOnce
      <3> QED
        BY <2>1, <2>2, <3>1, <3>2, <3>3 DEF JoinsOnce
    <2> QED
      BY <2>5, <2>6, <2>7 DEF JoinInv
  <1>4. ASSUME NEW c \in Conn, NEW f \in Frame \ {"join"}, NEW k \in {"on", "off again", "off"},
               inbound' = inbound \/ inbound' = [inbound EXCEPT ![c] = Append(@, f)],
               mic' = [mic EXCEPT ![c] = k],
               \/ k # "off" /\ client' = client /\ client[c] = "open" /\ mic[c] # "off"
               \/ k = "off" /\ client' = [client EXCEPT ![c] = "gone"],
               UNCHANGED <<sfuq, answered, cs>>
        PROVE  JoinInv'
    <2>1. /\ \A d \in Conn : mic'[d] = IF d = c THEN k ELSE mic[d]
          /\ \A d \in Conn \ {c} : client'[d] = client[d]
          /\ \A d \in Conn : client[d] # "idle" => client'[d] # "idle"
          /\ client'[c] \in {"open", "gone"}
          /\ client'[c] = "open" => mic'[c] # "off"
      BY <1>t, <1>4
    <2>2. \A d \in Conn \ {c} : inbound'[d] = inbound[d]
      BY <1>4, FrameSent
    <2>3. \A i \in 1..Len(inbound'[c]) : inbound'[c][i] = "join" =>
             i \in 1..Len(inbound[c]) /\ inbound[c][i] = "join"
      BY <1>4, FrameSent
    <2>4. Commanded' /\ Closed'
      BY <1>u, <1>i, <1>4, <2>1 DEF Commanded, Closed
    <2>7. \A d \in Conn : JoinsWaiting(d)' <=> JoinsWaiting(d)
      BY <1>4 DEF JoinsWaiting
    <2>8. answered' = answered
      BY <1>4
    <2>5. Unjoined'
      <3> SUFFICES ASSUME NEW d \in Conn, client'[d] # "gone", mic'[d] = "off"
                   PROVE  inbound'[d] = <<>> /\ d \notin answered' /\ ~JoinsWaiting(d)'
        BY DEF Unjoined
      <3>1. d # c
        BY <2>1
      <3>2. client[d] # "gone" /\ mic[d] = "off" /\ inbound'[d] = inbound[d]
        BY <2>1, <2>2, <3>1
      <3> QED
        BY <1>i, <2>7, <2>8, <3>2 DEF Unjoined
    <2>6. JoinsOnce'
      <3> SUFFICES ASSUME NEW d \in Conn, NEW i \in 1..Len(inbound'[d]), inbound'[d][i] = "join"
                   PROVE  i = 1 /\ d \notin answered' /\ ~JoinsWaiting(d)'
        BY DEF JoinsOnce
      <3>1. i \in 1..Len(inbound[d]) /\ inbound[d][i] = "join"
        BY <2>2, <2>3
      <3> QED
        BY <1>i, <2>7, <2>8, <3>1 DEF JoinsOnce
    <2> QED
      BY <2>4, <2>5, <2>6 DEF JoinInv
  <1>5. ASSUME NEW c \in Conn, ToggleMic(c) PROVE JoinInv'
    <2>1. \E f \in Frame \ {"join"}, k \in {"on", "off again"} :
            /\ inbound' = [inbound EXCEPT ![c] = Append(@, f)]
            /\ mic' = [mic EXCEPT ![c] = k]
      BY <1>5 DEF ToggleMic, Sends, Frame
    <2>2. client' = client /\ client[c] = "open" /\ mic[c] # "off" /\ UNCHANGED <<sfuq, answered, cs>>
      BY <1>5 DEF ToggleMic, sfuVars, askedFor
    <2> QED
      BY <1>4, <2>1, <2>2
  <1>6. ASSUME NEW c \in Conn, Disconnect(c) \/ Vanish(c) \/ ForceDisconnected(c) PROVE JoinInv'
    <2>1. \E f \in Frame \ {"join"} :
            inbound' = inbound \/ inbound' = [inbound EXCEPT ![c] = Append(@, f)]
      BY <1>6 DEF Disconnect, Vanish, ForceDisconnected, Sends, Frame
    <2>2. /\ client' = [client EXCEPT ![c] = "gone"] /\ mic' = [mic EXCEPT ![c] = "off"]
          /\ UNCHANGED <<sfuq, answered, cs>>
      BY <1>6 DEF Disconnect, Vanish, ForceDisconnected, Goes, sfuVars, askedFor
    <2> QED
      BY <1>4, <2>1, <2>2
  <1>7. ASSUME NEW c \in Conn, Register(c) PROVE JoinInv'
    <2>1. UNCHANGED <<mic, inbound, sfuq, answered, cs>>
      BY <1>7 DEF Register, sfuVars, askedFor
    <2>2. client' = client \/ client' = [client EXCEPT ![c] = "gone"]
      BY <1>7 DEF Register
    <2>3. \A d \in Conn : client'[d] = client[d] \/ client'[d] = "gone"
      BY <1>t, <2>2
    <2>4. Commanded' /\ Closed'
      BY <1>u, <1>i, <2>1, <2>3 DEF Commanded, Closed
    <2>5. Unjoined' /\ JoinsOnce'
      BY <1>i, <2>1, <2>3 DEF Unjoined, JoinsOnce, JoinsWaiting
    <2> QED
      BY <2>4, <2>5 DEF JoinInv
  <1>8. ASSUME NEW c \in Conn, NEW op \in {"join", "leave"},
               UNCHANGED <<client, mic, cs, answered>>, pc[c] # "idle",
               sfuq' = sfuq \/ Appends(c, op),
               \/ inbound' = inbound /\ op = "leave"
               \/ /\ inbound[c] # <<>> /\ inbound' = [inbound EXCEPT ![c] = Tail(@)]
                  /\ op = "join" => Head(inbound[c]) = "join"
        PROVE  JoinInv'
    <2>1. client[c] \notin {"idle", "asked"}
      BY <1>r, <1>8
    <2>2. Closed'
      BY <1>i, <1>8 DEF Closed
    <2>3. Commanded'
      <3>1. CASE sfuq' = sfuq
        BY <1>i, <1>8, <3>1 DEF Commanded
      <3>2. CASE Appends(c, op)
        <4> SUFFICES ASSUME NEW i \in 1..Len(sfuq')
                     PROVE  /\ sfuq'[i].user = UserOf[sfuq'[i].conn]
                            /\ sfuq'[i].sid = cs[sfuq'[i].conn]
                            /\ client[sfuq'[i].conn] # "idle"
          BY <1>8 DEF Commanded
        <4>1. i \in 1..Len(sfuq) \/ i = Len(sfuq) + 1
          BY <3>2, Appended
        <4> QED
          BY <1>i, <2>1, <3>2, <4>1, Appended DEF Commanded
      <3> QED
        BY <1>8, <3>1, <3>2
    <2>4. \A d \in Conn : JoinsWaiting(d)' => JoinsWaiting(d) \/ (op = "join" /\ d = c)
      <3>1. CASE sfuq' = sfuq
        BY <3>1 DEF JoinsWaiting
      <3>2. CASE Appends(c, op)
        BY <3>2, Appended
      <3> QED
        BY <1>8, <3>1, <3>2
    <2>5. CASE inbound' = inbound /\ op = "leave"
      <3>1. Unjoined' /\ JoinsOnce'
        BY <1>i, <1>8, <2>4, <2>5 DEF Unjoined, JoinsOnce
      <3> QED
        BY <2>2, <2>3, <3>1 DEF JoinInv
    <2>6. CASE /\ inbound[c] # <<>> /\ inbound' = [inbound EXCEPT ![c] = Tail(@)]
               /\ op = "join" => Head(inbound[c]) = "join"
      <3>1. \A d \in Conn \ {c} : inbound'[d] = inbound[d]
        BY <2>6, FrameTaken
      <3>2. \A i \in 1..Len(inbound'[c]) : inbound'[c][i] # "join"
        <4> SUFFICES ASSUME NEW i \in 1..Len(inbound'[c])
                     PROVE  inbound'[c][i] # "join"
          OBVIOUS
        <4>1. inbound'[c][i] = inbound[c][i+1] /\ i+1 \in 1..Len(inbound[c]) /\ i+1 # 1
          BY <2>6, FrameTaken
        <4> QED
          BY <1>i, <4>1 DEF JoinsOnce
      <3>3. Unjoined'
        BY <1>i, <1>8, <2>4, <2>6, <3>1 DEF Unjoined
      <3>4. JoinsOnce'
        BY <1>i, <1>8, <2>4, <3>1, <3>2 DEF JoinsOnce
      <3> QED
        BY <2>2, <2>3, <3>3, <3>4 DEF JoinInv
    <2> QED
      BY <1>8, <2>5, <2>6
  <1>9. ASSUME NEW c \in Conn, HandleJoin(c) PROVE JoinInv'
    <2>1. /\ pc[c] = "running" /\ inbound[c] # <<>> /\ Head(inbound[c]) = "join"
          /\ inbound' = [inbound EXCEPT ![c] = Tail(@)] /\ SendToSfu("join", c)
          /\ UNCHANGED <<client, mic, cs, answered>>
      BY <1>9 DEF HandleJoin, Takes, clientVars, askedFor
    <2> QED
      BY <1>8, <2>1, Tells
  <1>10. ASSUME NEW c \in Conn, HandleMute(c) \/ HandleLeave(c) PROVE JoinInv'
    <2>1. /\ pc[c] = "running" /\ inbound[c] # <<>>
          /\ inbound' = [inbound EXCEPT ![c] = Tail(@)]
          /\ sfuq' = sfuq \/ SendToSfu("leave", c)
      BY <1>10 DEF HandleMute, HandleLeave, Takes, sfuVars
    <2>2. UNCHANGED <<client, mic, cs, answered>>
      BY <1>10 DEF HandleMute, HandleLeave, clientVars, askedFor, sfuVars
    <2>3. sfuq' = sfuq \/ Appends(c, "leave")
      BY <2>1, Tells
    <2> QED
      BY <1>8, <2>1, <2>2, <2>3
  <1>11. ASSUME NEW c \in Conn, LeaveSfu(c) PROVE JoinInv'
    <2>1. /\ pc[c] = "leaving" /\ inbound' = inbound /\ SendToSfu("leave", c)
          /\ UNCHANGED <<client, mic, cs, answered>>
      BY <1>11 DEF LeaveSfu, clientVars, askedFor
    <2> QED
      BY <1>8, <2>1, Tells
  <1>12. ASSUME UNCHANGED <<client, mic, cs, answered, sfuq>>,
                inbound' = inbound
                  \/ \E c \in Conn : client[c] = "gone" /\ inbound' = [inbound EXCEPT ![c] = <<>>]
         PROVE JoinInv'
    <2>1. \A d \in Conn : inbound'[d] = inbound[d] \/ (client[d] = "gone" /\ inbound'[d] = <<>>)
      BY <1>12 DEF TypeOK
    <2>2. \A d \in Conn : JoinsWaiting(d)' <=> JoinsWaiting(d)
      BY <1>12 DEF JoinsWaiting
    <2>3. Commanded' /\ Closed'
      BY <1>i, <1>12 DEF Commanded, Closed
    <2>4. Unjoined'
      BY <1>i, <1>12, <2>1, <2>2 DEF Unjoined
    <2>5. JoinsOnce'
      <3> SUFFICES ASSUME NEW d \in Conn, NEW i \in 1..Len(inbound'[d]), inbound'[d][i] = "join"
                   PROVE  i = 1 /\ d \notin answered /\ ~JoinsWaiting(d)
        BY <1>12, <2>2 DEF JoinsOnce
      <3>1. inbound'[d] = inbound[d]
        <4>1. \A j \in 1..Len(<<>>) : FALSE
          OBVIOUS
        <4> QED
          BY <2>1, <4>1
      <3> QED
        BY <1>i, <3>1 DEF JoinsOnce
    <2> QED
      BY <2>3, <2>4, <2>5 DEF JoinInv
  <1>13. ASSUME NEW c \in Conn, LoopEnds(c) PROVE JoinInv'
    <2>1. /\ UNCHANGED <<client, mic, cs, answered, sfuq>>
          /\ client[c] = "gone" /\ inbound' = [inbound EXCEPT ![c] = <<>>]
      BY <1>13 DEF LoopEnds, clientVars, askedFor
    <2> QED
      BY <1>12, <2>1
  <1>14. ASSUME NEW c \in Conn,
                PublishJoined(c) \/ PublishMute(c) \/ FreeSlot(c) \/ PublishLeft(c)
         PROVE  JoinInv'
    <2>1. UNCHANGED <<client, mic, cs, answered, sfuq, inbound>>
      BY <1>14 DEF PublishJoined, PublishMute, FreeSlot, PublishLeft, clientVars, askedFor, sfuVars
    <2> QED
      BY <1>12, <2>1
  <1>15. CASE (\E s \in Conn, u \in User : SfuZombie(s, u)) \/ OccupancyBus \/ MuteBus
    <2>1. UNCHANGED <<client, mic, cs, answered, sfuq, inbound>>
      BY <1>15 DEF SfuZombie, OccupancyBus, MuteBus, clientVars, askedFor, sfuVars
    <2> QED
      BY <1>12, <2>1
  <1>16. CASE SfuJoin \/ SfuLeave
    <2>1. /\ sfuq # <<>> /\ sfuq' = Tail(sfuq) /\ UNCHANGED <<client, mic, cs, inbound>>
          /\ \/ answered' = answered
             \/ Head(sfuq).op = "join" /\ answered' = answered \cup {Head(sfuq).conn}
      BY <1>16 DEF SfuJoin, SfuLeave, TakesCommand, clientVars, askedFor
    <2>2. Commanded'
      BY <1>i, <2>1, Taken DEF Commanded
    <2>3. Closed'
      BY <1>i, <2>1 DEF Closed
    <2>4. ASSUME NEW d \in Conn, ~JoinsWaiting(d), d \notin answered
          PROVE  d \notin answered' /\ ~JoinsWaiting(d)'
      BY <2>1, <2>4, Taken
    <2>5. Unjoined' /\ JoinsOnce'
      BY <1>i, <2>1, <2>4 DEF Unjoined, JoinsOnce
    <2> QED
      BY <2>2, <2>3, <2>5 DEF JoinInv
  <1> QED
    BY <1>1, <1>2, <1>3, <1>5, <1>6, <1>7, <1>9, <1>10, <1>11, <1>13, <1>14, <1>15, <1>16
    DEF Next, Handler

-----------------------------------------------------------------------------
(* Users whose connections follow one another.                             *)

\* Only POST /sessions can be the moment of an overlap.
LEMMA Overlapping ==
    ASSUME Next
    PROVE  \/ overlapped' = overlapped
           \/ \E c \in Conn, ch \in Channel : CreateSession(c, ch)
  <1>1. ASSUME NEW c \in Conn, OpenWebSocket(c) \/ SendJoin(c) \/ ToggleMic(c) \/ Disconnect(c)
                 \/ Vanish(c) \/ ForceDisconnected(c)
        PROVE  overlapped' = overlapped
    BY <1>1 DEF OpenWebSocket, SendJoin, ToggleMic, Disconnect, Vanish, ForceDisconnected, askedFor
  <1>2. ASSUME NEW c \in Conn, Handler(c) PROVE overlapped' = overlapped
    BY <1>2 DEF Handler, Register, PublishJoined, HandleJoin, HandleMute, PublishMute, HandleLeave,
                LoopEnds, LeaveSfu, FreeSlot, PublishLeft, clientVars, askedFor
  <1>3. CASE SfuJoin \/ SfuLeave \/ (\E s \in Conn, u \in User : SfuZombie(s, u))
             \/ OccupancyBus \/ MuteBus
    BY <1>3 DEF SfuJoin, SfuLeave, SfuZombie, OccupancyBus, MuteBus, clientVars, askedFor
  <1> QED
    BY <1>1, <1>2, <1>3 DEF Next

\* Only POST /sessions makes a connection active.
LEMMA ActiveMoves ==
    ASSUME TypeOK, IndexInv, Next
    PROVE  \/ \E c \in Conn, ch \in Channel : CreateSession(c, ch)
           \/ \A d \in Conn : Active(d)' => Active(d)
  <1>t. /\ client \in [Conn -> {"idle", "asked", "open", "gone"}]
        /\ pc \in [Conn -> Handling \cup {"idle", "done"}]
    BY DEF TypeOK
  <1>1. CASE UNCHANGED <<restVars, client, cs, pc>>
    BY <1>1 DEF Active, Busy
  <1>2. ASSUME NEW c \in Conn, pc' = pc, client[c] \in {"asked", "open"},
               client' = [client EXCEPT ![c] = "gone"]
        PROVE  \A d \in Conn : Active(d)' => Active(d)
    BY <1>2, <1>t DEF Active, Busy
  <1>3. ASSUME NEW c \in Conn, NEW p \in Handling \cup {"done"},
               client' = client, pc[c] \in Handling, pc' = [pc EXCEPT ![c] = p]
        PROVE  \A d \in Conn : Active(d)' => Active(d)
    BY <1>3, <1>t DEF Active, Busy
  <1>4. ASSUME NEW c \in Conn, OpenWebSocket(c) PROVE \A d \in Conn : Active(d)' => Active(d)
    <2>1. /\ Active(c) /\ \A d \in Conn \ {c} : client'[d] = client[d] /\ pc'[d] = pc[d]
      BY <1>4, <1>t DEF OpenWebSocket, Active
    <2> QED
      BY <2>1 DEF Active, Busy
  <1>5. ASSUME NEW c \in Conn, Register(c) PROVE \A d \in Conn : Active(d)' => Active(d)
    <2>1. /\ Active(c) /\ \A d \in Conn \ {c} : client'[d] = client[d] /\ pc'[d] = pc[d]
      BY <1>5, <1>t DEF Register, Active, Busy, Handling
    <2> QED
      BY <2>1 DEF Active, Busy
  <1>6. ASSUME NEW c \in Conn, FreeSlot(c) PROVE \A d \in Conn : Active(d)' => Active(d)
    <2>1. /\ Active(c) /\ \A d \in Conn \ {c} : client'[d] = client[d] /\ pc'[d] = pc[d]
      BY <1>6, <1>t DEF FreeSlot, clientVars, Active, Busy, Handling
    <2> QED
      BY <2>1 DEF Active, Busy
  <1> QED
    BY Moves, <1>1, <1>2, <1>3, <1>4, <1>5, <1>6

\* A connection that becomes active while none of its user is leaves one.
LEMMA OneStep ==
    ASSUME TypeOK, IndexInv, OneInv, Next
    PROVE  OneInv' /\ \A u \in User : u \in overlapped => u \in overlapped'
  <1>1. ASSUME NEW c \in Conn, NEW ch \in Channel, CreateSession(c, ch)
        PROVE  OneInv' /\ \A u \in User : u \in overlapped => u \in overlapped'
    <2>1. /\ client[c] = "idle" /\ client' = [client EXCEPT ![c] = "asked"] /\ pc' = pc
          /\ client \in [Conn -> {"idle", "asked", "open", "gone"}]
      BY <1>1 DEF CreateSession, TypeOK
    <2>2. \A d \in Conn \ {c} : Active(d)' <=> Active(d)
      BY <2>1 DEF Active, Busy
    <2>3. \/ overlapped' = overlapped \cup {UserOf[c]}
          \/ overlapped' = overlapped /\ \A d \in Conn : UserOf[d] = UserOf[c] => ~Active(d)
      BY <1>1 DEF CreateSession, Active
    <2>4. \A u \in User : u \in overlapped => u \in overlapped'
      BY <2>3
    <2>5. OneInv'
      <3> SUFFICES ASSUME NEW d \in Conn, UserOf[d] \notin overlapped', Active(d)',
                          NEW e \in Conn, UserOf[e] = UserOf[d], e # d
                   PROVE  ~Active(e)'
        BY DEF OneInv, Others
      <3>1. UserOf[d] \notin overlapped
        BY <2>3
      <3>2. CASE d = c
        BY <2>2, <2>3, <3>2
      <3>3. CASE d # c
        <4>1. Active(d)
          BY <2>2, <3>3
        <4>2. e # c
          BY <2>3, <4>1
        <4>3. ~Active(e)
          BY <3>1, <4>1 DEF OneInv, Others
        <4> QED
          BY <2>2, <4>2, <4>3
      <3> QED
        BY <3>2, <3>3
    <2> QED
      BY <2>4, <2>5
  <1>2. CASE ~(\E c \in Conn, ch \in Channel : CreateSession(c, ch))
    <2>1. overlapped' = overlapped /\ \A d \in Conn : Active(d)' => Active(d)
      BY <1>2, Overlapping, ActiveMoves
    <2> QED
      BY <2>1 DEF OneInv, Others
  <1> QED
    BY <1>1, <1>2

\* A message about one user says nothing of another.
LEMMA SaysSent ==
    ASSUME TypeOK, NEW m \in Occupancy, occq' = Append(occq, m), occ' = occ
    PROVE  /\ Says(m.user, m.channel)'
           /\ \A u \in User, ch \in Channel : u # m.user /\ Says(u, ch) => Says(u, ch)'
  <1>1. occq \in Seq(Occupancy) /\ Len(occq) \in Nat
    <2>1. occq \in Seq(Occupancy)
      BY DEF TypeOK
    <2> QED
      BY <2>1, LenProperties
  <1>2. /\ Len(occq') = Len(occq) + 1 /\ occq'[Len(occq) + 1] = m
        /\ \A i \in 1..Len(occq) : occq'[i] = occq[i]
    BY <1>1, OneSent
  <1>3. /\ Len(occq) + 1 \in 1..Len(occq')
        /\ \A j \in (Len(occq) + 1 + 1)..Len(occq') : FALSE
        /\ \A i \in 1..Len(occq) : i \in 1..Len(occq')
        /\ \A i \in 1..Len(occq) : \A j \in (i+1)..Len(occq') : j = Len(occq) + 1 \/ j \in (i+1)..Len(occq)
        /\ \A i \in 1..Len(occq) : \A j \in (i+1)..Len(occq) : j \in 1..Len(occq)
        /\ \A j \in 1..Len(occq') : j = Len(occq) + 1 \/ j \in 1..Len(occq)
    BY <1>1, <1>2
  <1>4. Says(m.user, m.channel)'
    BY <1>2, <1>3 DEF Says
  <1>5. ASSUME NEW u \in User, NEW ch \in Channel, u # m.user, Says(u, ch)
        PROVE  Says(u, ch)'
    <2>1. CASE \E i \in 1..Len(occq) :
                 /\ occq[i].user = u /\ occq[i].channel = ch
                 /\ \A j \in (i+1)..Len(occq) : occq[j].user # u
      <3>1. PICK i \in 1..Len(occq) : /\ occq[i].user = u /\ occq[i].channel = ch
                                      /\ \A j \in (i+1)..Len(occq) : occq[j].user # u
        BY <2>1
      <3>2. i \in 1..Len(occq') /\ occq'[i].user = u /\ occq'[i].channel = ch
        BY <1>2, <1>3, <3>1
      <3>3. \A j \in (i+1)..Len(occq') : occq'[j].user # u
        BY <1>2, <1>3, <1>5, <3>1
      <3> QED
        BY <3>2, <3>3 DEF Says
    <2>2. CASE (\A i \in 1..Len(occq) : occq[i].user # u) /\ occ[u] = ch
      <3>1. \A i \in 1..Len(occq') : occq'[i].user # u
        BY <1>2, <1>3, <1>5, <2>2
      <3> QED
        BY <2>2, <3>1 DEF Says
    <2> QED
      BY <1>5, <2>1, <2>2 DEF Says
  <1> QED
    BY <1>4, <1>5

\* The places of a queue when the first is taken.
LEMMA Shifted ==
    \A n \in Nat, k \in Nat : n = k - 1 =>
      \A i \in 1..k : \/ i = 1 /\ \A j \in 1..n : j+1 \in (i+1)..k
                      \/ /\ i-1 \in 1..n /\ i = (i-1) + 1
                         /\ \A j \in ((i-1)+1)..n : j+1 \in (i+1)..k
  OBVIOUS

\* The hub does what voice.occupancy says.
LEMMA SaysTaken ==
    ASSUME TypeOK, OccupancyBus, NEW u \in User, NEW ch \in Channel, Says(u, ch)
    PROVE  Says(u, ch)'
  <1>1. /\ occq \in Seq(Occupancy) /\ occq # <<>> /\ occq' = Tail(occq)
        /\ occ' = [occ EXCEPT ![Head(occq).user] = Head(occq).channel]
        /\ occ \in [User -> Channel \cup {None}]
    BY DEF TypeOK, OccupancyBus
  <1>2. /\ occq' \in Seq(Occupancy) /\ Len(occq') = Len(occq) - 1 /\ Head(occq) = occq[1]
        /\ \A i \in 1..Len(occq') : occq'[i] = occq[i+1] /\ i+1 \in 1..Len(occq)
        /\ Head(occq) \in Occupancy /\ Len(occq) >= 1
    BY <1>1, OneTaken
  <1>3. Len(occq') \in Nat /\ Len(occq) \in Nat
    BY <1>1, <1>2, LenProperties
  <1>4. /\ occ'[Head(occq).user] = Head(occq).channel
        /\ u # Head(occq).user => occ'[u] = occ[u]
    BY <1>1, <1>2 DEF Occupancy
  <1>5. CASE \E i \in 1..Len(occq) :
                 /\ occq[i].user = u /\ occq[i].channel = ch
                 /\ \A j \in (i+1)..Len(occq) : occq[j].user # u
    <2>1. PICK i \in 1..Len(occq) : /\ occq[i].user = u /\ occq[i].channel = ch
                                    /\ \A j \in (i+1)..Len(occq) : occq[j].user # u
      BY <1>5
    <2>2. \/ i = 1 /\ \A j \in 1..Len(occq') : j+1 \in (i+1)..Len(occq)
          \/ /\ i-1 \in 1..Len(occq') /\ i = (i-1) + 1
             /\ \A j \in ((i-1)+1)..Len(occq') : j+1 \in (i+1)..Len(occq)
      BY <1>2, <1>3, Shifted, Zenon
    <2>3. CASE i = 1 /\ \A j \in 1..Len(occq') : j+1 \in (i+1)..Len(occq)
      <3>1. \A j \in 1..Len(occq') : occq'[j].user # u
        BY <1>2, <2>1, <2>3
      <3>2. occ'[u] = ch
        BY <1>2, <1>4, <2>1, <2>3
      <3> QED
        BY <3>1, <3>2 DEF Says
    <2>4. CASE /\ i-1 \in 1..Len(occq') /\ i = (i-1) + 1
               /\ \A j \in ((i-1)+1)..Len(occq') : j+1 \in (i+1)..Len(occq)
      <3>1. occq'[i-1].user = u /\ occq'[i-1].channel = ch
        BY <1>2, <2>1, <2>4
      <3>2. \A j \in ((i-1)+1)..Len(occq') : j \in 1..Len(occq')
        BY <1>3, <2>4
      <3>3. \A j \in ((i-1)+1)..Len(occq') : occq'[j].user # u
        BY <1>2, <2>1, <2>4, <3>2
      <3> QED
        BY <2>4, <3>1, <3>3 DEF Says
    <2> QED
      BY <2>2, <2>3, <2>4
  <1>6. CASE (\A i \in 1..Len(occq) : occq[i].user # u) /\ occ[u] = ch
    <2>1. 1 \in 1..Len(occq)
      BY <1>2, <1>3
    <2>2. occ'[u] = ch
      BY <1>2, <1>4, <1>6, <2>1
    <2>3. \A i \in 1..Len(occq') : occq'[i].user # u
      BY <1>2, <1>6
    <2> QED
      BY <2>2, <2>3 DEF Says
  <1> QED
    BY <1>5, <1>6 DEF Says

-----------------------------------------------------------------------------
(* Shown.                                                                  *)

\* The call of a connection stays what it is.
LEMMA CallStays ==
    ASSUME TypeOK, IndexInv, Next, NEW c \in Conn, client[c] # "idle"
    PROVE  cs'[c] = cs[c] /\ chanOf'[cs'[c]] = chanOf[cs[c]]
  <1>t. /\ cs \in [Conn -> Conn \cup {None}] /\ chanOf \in [Conn -> Channel \cup {None}]
        /\ cs[c] \in Conn /\ chanOf[cs[c]] \in Channel /\ None \notin Channel
        /\ \A s \in Conn : client[s] = "idle" => chanOf[s] = None
    BY NoneAssumption DEF TypeOK, IndexInv, Named, Unnamed
  <1>1. ASSUME NEW d \in Conn, NEW ch \in Channel, CreateSession(d, ch)
        PROVE  cs'[c] = cs[c] /\ chanOf'[cs'[c]] = chanOf[cs[c]]
    <2>1. client[d] = "idle" /\ d # c /\ d # cs[c]
      BY <1>1, <1>t DEF CreateSession
    <2>2. /\ \E x : cs' = [cs EXCEPT ![d] = x]
          /\ chanOf' = chanOf \/ chanOf' = [chanOf EXCEPT ![d] = ch]
      BY <1>1 DEF CreateSession, restVars
    <2> QED
      BY <1>t, <2>1, <2>2
  <1>2. ASSUME NEW d \in Conn, OpenWebSocket(d) \/ Register(d) \/ FreeSlot(d)
        PROVE  cs' = cs /\ chanOf' = chanOf
    BY <1>2 DEF OpenWebSocket, Register, FreeSlot, RemoveFrom, restVars, clientVars, askedFor
  <1> QED
    BY Moves, <1>1, <1>2 DEF restVars

\* Who writes to voice.occupancy, and who reads it.
LEMMA Publishing ==
    ASSUME Next
    PROVE  \/ UNCHANGED <<occq, occ>>
           \/ \E c \in Conn : PublishJoined(c) \/ PublishLeft(c)
           \/ OccupancyBus
  <1>1. ASSUME NEW c \in Conn, (\E ch \in Channel : CreateSession(c, ch))
                 \/ OpenWebSocket(c) \/ SendJoin(c) \/ ToggleMic(c) \/ Disconnect(c)
                 \/ Vanish(c) \/ ForceDisconnected(c)
        PROVE  UNCHANGED <<occq, occ>>
    BY <1>1 DEF CreateSession, OpenWebSocket, SendJoin, ToggleMic, Disconnect, Vanish,
                ForceDisconnected, hubVars
  <1>2. ASSUME NEW c \in Conn, Register(c) \/ HandleJoin(c) \/ HandleMute(c) \/ PublishMute(c)
                 \/ HandleLeave(c) \/ LoopEnds(c) \/ LeaveSfu(c) \/ FreeSlot(c)
        PROVE  UNCHANGED <<occq, occ>>
    BY <1>2 DEF Register, HandleJoin, HandleMute, PublishMute, HandleLeave,
                LoopEnds, LeaveSfu, FreeSlot, hubVars
  <1>3. CASE SfuJoin \/ SfuLeave \/ (\E s \in Conn, u \in User : SfuZombie(s, u)) \/ MuteBus
    BY <1>3 DEF SfuJoin, SfuLeave, SfuZombie, MuteBus, hubVars
  <1> QED
    BY <1>1, <1>2, <1>3 DEF Next, Handler

\* The loop begins with PublishJoined.
LEMMA Shows ==
    ASSUME Next, TypeOK, NEW c \in Conn, pc'[c] \in Holding \ {"registered"}
    PROVE  pc[c] \in Holding \ {"registered"} \/ PublishJoined(c)
  <1>t. pc \in [Conn -> Handling \cup {"idle", "done"}]
    BY DEF TypeOK
  <1>1. ASSUME NEW d \in Conn, (\E ch \in Channel : CreateSession(d, ch))
                 \/ OpenWebSocket(d) \/ SendJoin(d) \/ ToggleMic(d) \/ Disconnect(d)
                 \/ Vanish(d) \/ ForceDisconnected(d)
        PROVE  pc[c] \in Holding \ {"registered"}
    BY <1>1, <1>t DEF CreateSession, OpenWebSocket, SendJoin, ToggleMic, Disconnect, Vanish,
                ForceDisconnected, Holding
  <1>2. ASSUME NEW d \in Conn, Handler(d)
        PROVE  pc[c] \in Holding \ {"registered"} \/ PublishJoined(c)
    <2>1. CASE d = c
      BY <1>2, <1>t, <2>1 DEF Handler, Register, HandleJoin, HandleMute, Takes, PublishMute,
                HandleLeave, LoopEnds, LeaveSfu, FreeSlot, PublishLeft, Holding
    <2>2. CASE d # c
      <3>1. pc' = pc \/ \E p : pc' = [pc EXCEPT ![d] = p]
        BY <1>2 DEF Handler, Register, PublishJoined, HandleJoin, HandleMute, Takes, PublishMute,
                HandleLeave, LoopEnds, LeaveSfu, FreeSlot, PublishLeft
      <3> QED
        BY <1>t, <2>2, <3>1
    <2> QED
      BY <2>1, <2>2
  <1>3. CASE SfuJoin \/ SfuLeave \/ (\E s \in Conn, u \in User : SfuZombie(s, u))
             \/ OccupancyBus \/ MuteBus
    BY <1>3 DEF SfuJoin, SfuLeave, SfuZombie, OccupancyBus, MuteBus
  <1> QED
    BY <1>1, <1>2, <1>3 DEF Next

\* Every step keeps the hub told: a connection of the same user that publishes
\* would be active beside this one.
LEMMA ShownStep ==
    ASSUME TypeOK, IndexInv, OneInv, ShownInv, Next
    PROVE  ShownInv'
  <1> SUFFICES ASSUME NEW c \in Conn, UserOf[c] \notin overlapped',
                      pc'[c] \in Holding \ {"registered"}
               PROVE  Says(UserOf[c], chanOf[cs[c]])'
    BY DEF ShownInv
  <1>t. UserOf[c] \in User /\ \A d \in Conn : UserOf[d] \in User
    BY UserOfAssumption
  <1>1. UserOf[c] \notin overlapped
    BY <1>t, OneStep
  <1>2. pc[c] \in Holding /\ (pc[c] # "registered" \/ PublishJoined(c))
    BY Shows DEF PublishJoined, Holding
  <1>3. /\ client[c] # "idle" /\ Active(c)
    BY <1>2 DEF IndexInv, Resting, Active, Busy, Holding, Handling
  <1>4. chanOf[cs[c]]' = chanOf[cs[c]] /\ chanOf[cs[c]] \in Channel
    BY <1>3, CallStays DEF IndexInv, Named
  <1>5. CASE PublishJoined(c)
    <2>1. PICK k \in Channel : k = chanOf[cs[c]]
      BY <1>4
    <2>2. occq' = Append(occq, [user |-> UserOf[c], channel |-> k]) /\ occ' = occ
      BY <1>5, <2>1 DEF PublishJoined, PublishOccupancy
    <2>3. [user |-> UserOf[c], channel |-> k] \in Occupancy
      BY <1>t DEF Occupancy
    <2>4. PICK m \in Occupancy : /\ occq' = Append(occq, m) /\ m.user = UserOf[c]
                                 /\ m.channel = k /\ occ' = occ
      BY <2>2, <2>3
    <2>5. Says(m.user, m.channel)'
      BY <2>4, SaysSent
    <2>6. k = chanOf[cs[c]]'
      BY <1>4, <2>1
    <2> QED
      BY <2>4, <2>5, <2>6 DEF Says
  <1>6. CASE pc[c] # "registered"
    <2>1. Says(UserOf[c], chanOf[cs[c]])
      BY <1>1, <1>2, <1>6 DEF ShownInv
    <2> DEFINE u == UserOf[c]
               ch == chanOf[cs[c]]
    <2>2. /\ u \in User /\ ch \in Channel /\ Says(u, ch)
      BY <1>t, <1>4, <2>1
    <2>3. CASE UNCHANGED <<occq, occ>>
      BY <1>4, <2>1, <2>3 DEF Says
    <2>4. CASE OccupancyBus
      <3>1. \A v \in User, k \in Channel : Says(v, k) => Says(v, k)'
        BY <2>4, SaysTaken
      <3> QED
        BY <1>4, <2>2, <3>1 DEF Says
    <2>5. ASSUME NEW d \in Conn, PublishJoined(d) \/ PublishLeft(d)
          PROVE  Says(UserOf[c], chanOf[cs[c]])'
      <3>1. Active(d) /\ pc[d] \in {"registered", "farewell"}
        BY <2>5 DEF PublishJoined, PublishLeft, Active, Busy, Handling
      <3>2. d # c
        BY <1>2, <1>6, <3>1 DEF Holding
      <3>3. UserOf[d] # UserOf[c]
        BY <1>1, <1>3, <3>1, <3>2 DEF OneInv, Others
      <3>4. client[d] # "idle"
        BY <3>1 DEF IndexInv, Resting
      <3>5. PICK k \in Channel \cup {None} :
               occq' = Append(occq, [user |-> UserOf[d], channel |-> k]) /\ occ' = occ
        BY <2>5, <3>4 DEF PublishJoined, PublishLeft, PublishOccupancy, IndexInv, Named
      <3>6. [user |-> UserOf[d], channel |-> k] \in Occupancy
        BY <1>t DEF Occupancy
      <3>7. PICK m \in Occupancy : occq' = Append(occq, m) /\ m.user = UserOf[d] /\ occ' = occ
        BY <3>5, <3>6
      <3>8. \A v \in User, x \in Channel : v # m.user /\ Says(v, x) => Says(v, x)'
        BY <3>7, SaysSent
      <3>9. Says(u, ch)'
        BY <1>4, <2>2, <3>3, <3>7, <3>8 DEF Says
      <3> QED
        BY <3>9
    <2> QED
      BY Publishing, <2>3, <2>4, <2>5
  <1> QED
    BY <1>2, <1>5, <1>6

-----------------------------------------------------------------------------
(* Heard.                                                                  *)

\* Who writes to the shard's channel, and who reads it.
LEMMA Commands ==
    ASSUME TypeOK, IndexInv, Next
    PROVE  \/ UNCHANGED <<sfuq, sfu, answered>>
           \/ \E c \in Conn : HandleJoin(c) \/ HandleLeave(c) \/ LeaveSfu(c)
           \/ SfuJoin \/ SfuLeave
           \/ \E s \in Conn, u \in User : SfuZombie(s, u)
  <1>1. ASSUME NEW c \in Conn, (\E ch \in Channel : CreateSession(c, ch))
                 \/ OpenWebSocket(c) \/ SendJoin(c) \/ ToggleMic(c) \/ Disconnect(c)
                 \/ Vanish(c) \/ ForceDisconnected(c)
        PROVE  UNCHANGED <<sfuq, sfu, answered>>
    BY <1>1 DEF CreateSession, OpenWebSocket, SendJoin, ToggleMic, Disconnect, Vanish,
                ForceDisconnected, sfuVars
  <1>2. ASSUME NEW c \in Conn, Register(c) \/ PublishJoined(c) \/ HandleMute(c) \/ PublishMute(c)
                 \/ LoopEnds(c) \/ FreeSlot(c) \/ PublishLeft(c)
        PROVE  UNCHANGED <<sfuq, sfu, answered>>
    BY <1>2 DEF Register, PublishJoined, HandleMute, PublishMute, LoopEnds, FreeSlot, PublishLeft,
                sfuVars
  <1>3. CASE OccupancyBus \/ MuteBus
    BY <1>3 DEF OccupancyBus, MuteBus, sfuVars
  <1> QED
    BY <1>1, <1>2, <1>3 DEF Next, Handler

\* A WebSocket is opened by OpenWebSocket.
LEMMA Opens ==
    ASSUME TypeOK, Next, NEW c \in Conn, client'[c] = "open"
    PROVE  client[c] = "open" \/ (client[c] = "asked" /\ OpenWebSocket(c))
  <1>t. /\ client \in [Conn -> {"idle", "asked", "open", "gone"}]
        /\ pc \in [Conn -> Handling \cup {"idle", "done"}]
    BY DEF TypeOK
  <1>1. ASSUME NEW d \in Conn, \/ \E ch \in Channel : CreateSession(d, ch)
                               \/ Register(d) \/ FreeSlot(d)
        PROVE  client[c] = "open"
    BY <1>1, <1>t DEF CreateSession, Register, FreeSlot, clientVars
  <1>2. ASSUME NEW d \in Conn, OpenWebSocket(d)
        PROVE  client[c] = "open" \/ (client[c] = "asked" /\ OpenWebSocket(c))
    BY <1>2, <1>t DEF OpenWebSocket
  <1>3. ASSUME NEW d \in Conn, client' = [client EXCEPT ![d] = "gone"]
        PROVE  client[c] = "open"
    BY <1>3, <1>t
  <1> QED
    BY Moves, <1>1, <1>2, <1>3

\* Every step keeps the participant of a connection that was answered: a second
\* join, a leave or a zombie would each need another active connection of its
\* user, or this one gone.
LEMMA HeardStep ==
    ASSUME TypeOK, IndexInv, EndInv, JoinInv, OneInv, HeardInv, Next
    PROVE  HeardInv'
  <1> SUFFICES ASSUME NEW c \in Conn, UserOf[c] \notin overlapped', client'[c] = "open"
               PROVE  /\ \A i \in 1..Len(sfuq') : sfuq'[i].op = "join" /\ sfuq'[i].conn = c =>
                           \A j \in (i+1)..Len(sfuq') : sfuq'[j].user # UserOf[c]
                      /\ c \in answered' =>
                           /\ sfu'[cs'[c]][UserOf[c]] = c
                           /\ \A j \in 1..Len(sfuq') : sfuq'[j].user # UserOf[c]
    BY DEF HeardInv
  <1>t. /\ UserOf[c] \in User /\ c # None
        /\ cs \in [Conn -> Conn \cup {None}]
        /\ sfu \in [Conn -> [User -> Conn \cup {None}]]
    BY UserOfAssumption, NoneAssumption DEF TypeOK
  <1>1. UserOf[c] \notin overlapped
    BY <1>t, OneStep
  <1>2. client[c] \in {"asked", "open"} /\ Active(c)
    BY Opens DEF Active
  <1>3. cs'[c] = cs[c] /\ cs[c] \in Conn
    BY <1>2, CallStays DEF IndexInv, Named
  <1>c. Commanded /\ Closed /\ Unjoined /\ JoinsOnce
    BY DEF JoinInv
  <1>4. CASE OpenWebSocket(c)
    <2>1. client[c] = "asked" /\ UNCHANGED <<sfuq, answered>>
      BY <1>4 DEF OpenWebSocket, sfuVars
    <2>2. c \notin answered /\ ~JoinsWaiting(c)
      BY <1>c, <2>1 DEF Closed, Unjoined
    <2> QED
      BY <2>1, <2>2 DEF JoinsWaiting
  <1>5. CASE client[c] = "open"
    <2>1. \A i \in 1..Len(sfuq) : sfuq[i].op = "join" /\ sfuq[i].conn = c =>
            \A j \in (i+1)..Len(sfuq) : sfuq[j].user # UserOf[c]
      BY <1>1, <1>5 DEF HeardInv
    <2>2. c \in answered => /\ sfu[cs[c]][UserOf[c]] = c
                            /\ \A j \in 1..Len(sfuq) : sfuq[j].user # UserOf[c]
      BY <1>1, <1>5 DEF HeardInv
    <2>3. CASE UNCHANGED <<sfuq, sfu, answered>>
      BY <1>3, <2>1, <2>2, <2>3
    <2>4. ASSUME NEW s \in Conn, NEW u \in User, SfuZombie(s, u)
          PROVE  /\ \A i \in 1..Len(sfuq') : sfuq'[i].op = "join" /\ sfuq'[i].conn = c =>
                      \A j \in (i+1)..Len(sfuq') : sfuq'[j].user # UserOf[c]
                 /\ c \in answered' =>
                      /\ sfu'[cs'[c]][UserOf[c]] = c
                      /\ \A j \in 1..Len(sfuq') : sfuq'[j].user # UserOf[c]
      <3>1. /\ UNCHANGED <<sfuq, answered>> /\ client[sfu[s][u]] = "gone"
            /\ sfu' = [sfu EXCEPT ![s][u] = None]
        BY <2>4 DEF SfuZombie
      <3>2. \A x \in Conn, v \in User : x # s \/ v # u => sfu'[x][v] = sfu[x][v]
        BY <1>t, <3>1, Entered
      <3> QED
        BY <1>t, <1>3, <1>5, <2>1, <2>2, <3>1, <3>2
    <2>5. ASSUME NEW d \in Conn, NEW op \in {"join", "leave"}, Appends(d, op),
                 UNCHANGED <<sfu, answered>>,
                 UserOf[d] = UserOf[c] => d = c /\ op = "join" /\ c \notin answered /\ ~JoinsWaiting(c)
          PROVE  /\ \A i \in 1..Len(sfuq') : sfuq'[i].op = "join" /\ sfuq'[i].conn = c =>
                      \A j \in (i+1)..Len(sfuq') : sfuq'[j].user # UserOf[c]
                 /\ c \in answered' =>
                      /\ sfu'[cs'[c]][UserOf[c]] = c
                      /\ \A j \in 1..Len(sfuq') : sfuq'[j].user # UserOf[c]
      <3>1. /\ Len(sfuq') = Len(sfuq) + 1 /\ Len(sfuq) \in Nat
            /\ \A i \in 1..Len(sfuq) : sfuq'[i] = sfuq[i]
            /\ sfuq'[Len(sfuq) + 1].user = UserOf[d] /\ sfuq'[Len(sfuq) + 1].conn = d
        BY <2>5, Appended
      <3>2. /\ \A j \in 1..Len(sfuq') : j = Len(sfuq) + 1 \/ j \in 1..Len(sfuq)
            /\ \A i \in 1..Len(sfuq) : \A j \in (i+1)..Len(sfuq') :
                 j = Len(sfuq) + 1 \/ (j \in (i+1)..Len(sfuq) /\ j \in 1..Len(sfuq))
            /\ \A j \in (Len(sfuq) + 1 + 1)..Len(sfuq') : FALSE
        BY <3>1
      <3>3. ASSUME NEW i \in 1..Len(sfuq'), sfuq'[i].op = "join", sfuq'[i].conn = c,
                   NEW j \in (i+1)..Len(sfuq')
            PROVE  sfuq'[j].user # UserOf[c]
        <4>1. CASE i = Len(sfuq) + 1
          BY <3>2, <4>1
        <4>2. CASE i \in 1..Len(sfuq)
          <5>1. sfuq[i].op = "join" /\ sfuq[i].conn = c
            BY <3>1, <3>3, <4>2
          <5>2. UserOf[d] # UserOf[c]
            BY <2>5, <4>2, <5>1 DEF JoinsWaiting
          <5>3. CASE j = Len(sfuq) + 1
            BY <3>1, <5>2, <5>3
          <5>4. CASE j \in (i+1)..Len(sfuq) /\ j \in 1..Len(sfuq)
            BY <2>1, <3>1, <4>2, <5>1, <5>4
          <5> QED
            BY <3>2, <4>2, <5>3, <5>4
        <4> QED
          BY <3>2, <4>1, <4>2
      <3>4. ASSUME c \in answered', NEW j \in 1..Len(sfuq') PROVE sfuq'[j].user # UserOf[c]
        BY <2>2, <2>5, <3>1, <3>2, <3>4
      <3>5. c \in answered' => sfu'[cs'[c]][UserOf[c]] = c
        BY <1>3, <2>2, <2>5
      <3> QED
        BY <3>3, <3>4, <3>5
    <2>6. ASSUME NEW d \in Conn, HandleJoin(d) \/ HandleLeave(d) \/ LeaveSfu(d)
          PROVE  \/ UNCHANGED <<sfuq, sfu, answered>>
                 \/ \E op \in {"join", "leave"} :
                      /\ Appends(d, op) /\ UNCHANGED <<sfu, answered>>
                      /\ UserOf[d] = UserOf[c] =>
                           d = c /\ op = "join" /\ c \notin answered /\ ~JoinsWaiting(c)
      <3>1. /\ pc[d] \in {"running", "leaving"} /\ UNCHANGED <<sfu, answered>>
        BY <2>6 DEF HandleJoin, HandleLeave, LeaveSfu, Takes
      <3>2. Active(d) /\ pc[d] # "idle"
        BY <3>1 DEF Active, Busy, Handling
      <3>3. UserOf[d] = UserOf[c] => d = c
        BY <1>1, <1>2, <3>2 DEF OneInv, Others
      <3>4. CASE HandleJoin(d)
        <4>1. /\ inbound[d] # <<>> /\ Head(inbound[d]) = "join" /\ SendToSfu("join", d)
              /\ inbound' = [inbound EXCEPT ![d] = Tail(@)]
          BY <3>4 DEF HandleJoin, Takes
        <4>2. inbound[d][1] = "join" /\ 1 \in 1..Len(inbound[d])
          BY <4>1, FrameTaken
        <4>3. d \notin answered /\ ~JoinsWaiting(d)
          BY <1>c, <4>2 DEF JoinsOnce
        <4>4. sfuq' = sfuq \/ Appends(d, "join")
          BY <3>2, <4>1, Tells
        <4> QED
          BY <3>1, <3>3, <4>3, <4>4
      <3>5. CASE HandleLeave(d) \/ LeaveSfu(d)
        <4>1. d # c
          <5>1. CASE HandleLeave(d)
            <6>1. /\ inbound[d] # <<>> /\ Head(inbound[d]) = "leave"
                  /\ inbound' = [inbound EXCEPT ![d] = Tail(@)]
              BY <5>1 DEF HandleLeave, Takes
            <6>2. inbound[d][1] = "leave" /\ 1 \in 1..Len(inbound[d])
              BY <6>1, FrameTaken
            <6>3. client[d] = "gone"
              BY <6>2 DEF EndInv
            <6> QED
              BY <1>5, <6>3
          <5>2. CASE LeaveSfu(d)
            <6>1. client[d] = "gone"
              BY <5>2 DEF LeaveSfu, EndInv
            <6> QED
              BY <1>5, <6>1
          <5> QED
            BY <3>5, <5>1, <5>2
        <4>2. SendToSfu("leave", d)
          BY <3>5 DEF HandleLeave, LeaveSfu
        <4>3. sfuq' = sfuq \/ Appends(d, "leave")
          BY <3>2, <4>2, Tells
        <4> QED
          BY <3>1, <3>3, <4>1, <4>3
      <3> QED
        BY <2>6, <3>4, <3>5
    <2>7. CASE SfuJoin \/ SfuLeave
      <3>1. /\ sfuq # <<>> /\ sfuq' = Tail(sfuq)
        BY <2>7 DEF SfuJoin, SfuLeave, TakesCommand
      <3>2. PICK m \in Command : m = Head(sfuq)
        BY <3>1, Taken
      <3>3. /\ m.sid \in Conn /\ m.conn \in Conn /\ m.user \in User
        BY <3>2 DEF Command
      <3>4. \/ /\ m.op = "join" /\ answered' = answered \cup {m.conn}
               /\ sfu' = [sfu EXCEPT ![m.sid][m.user] = m.conn]
            \/ /\ answered' = answered /\ sfu' = [sfu EXCEPT ![m.sid][m.user] = None]
        BY <2>7, <3>2 DEF SfuJoin, SfuLeave, TakesCommand
      <3>5. /\ Len(sfuq') = Len(sfuq) - 1 /\ Len(sfuq) \in Nat \ {0} /\ Len(sfuq') \in Nat
            /\ m = sfuq[1]
            /\ \A i \in 1..Len(sfuq') : sfuq'[i] = sfuq[i+1] /\ i+1 \in 1..Len(sfuq)
        BY <3>1, <3>2, Taken
      <3>6. /\ 1 \in 1..Len(sfuq)
            /\ \A i \in 1..Len(sfuq') : \A j \in (i+1)..Len(sfuq') :
                 j \in 1..Len(sfuq') /\ j+1 \in ((i+1)+1)..Len(sfuq)
            /\ \A j \in 1..Len(sfuq') : j+1 \in (1+1)..Len(sfuq)
        BY <3>5
      <3>7. m.user = UserOf[m.conn] /\ m.sid = cs[m.conn]
        BY <1>c, <3>5, <3>6 DEF Commanded
      <3>8. /\ sfu'[m.sid][m.user] \in {m.conn, None}
            /\ \A x \in Conn, v \in User : x # m.sid \/ v # m.user => sfu'[x][v] = sfu[x][v]
        BY <1>t, <3>3, <3>4, Entered
      <3>9. \A i \in 1..Len(sfuq') : sfuq'[i].op = "join" /\ sfuq'[i].conn = c =>
              \A j \in (i+1)..Len(sfuq') : sfuq'[j].user # UserOf[c]
        BY <2>1, <3>5, <3>6
      <3>10. CASE c \in answered
        <4>1. /\ sfu[cs[c]][UserOf[c]] = c /\ m.user # UserOf[c]
              /\ \A j \in 1..Len(sfuq) : sfuq[j].user # UserOf[c]
          BY <2>2, <3>5, <3>6, <3>10
        <4>2. sfu'[cs'[c]][UserOf[c]] = c
          BY <1>t, <1>3, <3>8, <4>1
        <4>3. \A j \in 1..Len(sfuq') : sfuq'[j].user # UserOf[c]
          BY <3>5, <4>1
        <4> QED
          BY <3>9, <4>2, <4>3
      <3>11. CASE c \notin answered /\ c \in answered'
        <4>1. m.op = "join" /\ m.conn = c /\ sfu' = [sfu EXCEPT ![m.sid][m.user] = m.conn]
          BY <3>4, <3>11
        <4>2. sfu'[cs'[c]][UserOf[c]] = c
          BY <1>t, <1>3, <3>3, <3>7, <4>1, Entered
        <4>3. \A j \in (1+1)..Len(sfuq) : sfuq[j].user # UserOf[c]
          BY <2>1, <3>5, <3>6, <4>1
        <4>4. \A j \in 1..Len(sfuq') : sfuq'[j].user # UserOf[c]
          BY <3>5, <3>6, <4>3
        <4> QED
          BY <3>9, <4>2, <4>4
      <3> QED
        BY <3>9, <3>10, <3>11
    <2> QED
      BY Commands, <2>3, <2>4, <2>5, <2>6, <2>7
  <1> QED
    BY Opens, <1>4, <1>5

-----------------------------------------------------------------------------
(* What was told of a microphone.                                          *)

\* A mark of one user says nothing of another.
LEMMA MarkedSent ==
    ASSUME TypeOK, NEW m \in Mute, muteq' = Append(muteq, m), micOn' = micOn
    PROVE  /\ \A b \in BOOLEAN : m.muted = ~b => Marked(m.user, b)'
           /\ \A u \in User, b \in BOOLEAN : u # m.user /\ Marked(u, b) => Marked(u, b)'
  <1>1. muteq \in Seq(Mute) /\ Len(muteq) \in Nat
    <2>1. muteq \in Seq(Mute)
      BY DEF TypeOK
    <2> QED
      BY <2>1, LenProperties
  <1>2. /\ Len(muteq') = Len(muteq) + 1 /\ muteq'[Len(muteq) + 1] = m
        /\ \A i \in 1..Len(muteq) : muteq'[i] = muteq[i]
    BY <1>1, OneSent
  <1>3. /\ Len(muteq) + 1 \in 1..Len(muteq')
        /\ \A j \in (Len(muteq) + 1 + 1)..Len(muteq') : FALSE
        /\ \A i \in 1..Len(muteq) : i \in 1..Len(muteq')
        /\ \A i \in 1..Len(muteq) : \A j \in (i+1)..Len(muteq') : j = Len(muteq) + 1 \/ j \in (i+1)..Len(muteq)
        /\ \A i \in 1..Len(muteq) : \A j \in (i+1)..Len(muteq) : j \in 1..Len(muteq)
        /\ \A j \in 1..Len(muteq') : j = Len(muteq) + 1 \/ j \in 1..Len(muteq)
    BY <1>1, <1>2
  <1>4. ASSUME NEW b \in BOOLEAN, m.muted = ~b PROVE Marked(m.user, b)'
    BY <1>2, <1>3, <1>4 DEF Marked
  <1>5. ASSUME NEW u \in User, NEW b \in BOOLEAN, u # m.user, Marked(u, b)
        PROVE  Marked(u, b)'
    <2>1. CASE \E i \in 1..Len(muteq) :
                 /\ muteq[i].user = u /\ muteq[i].muted = ~b
                 /\ \A j \in (i+1)..Len(muteq) : muteq[j].user # u
      <3>1. PICK i \in 1..Len(muteq) : /\ muteq[i].user = u /\ muteq[i].muted = ~b
                                       /\ \A j \in (i+1)..Len(muteq) : muteq[j].user # u
        BY <2>1
      <3>2. i \in 1..Len(muteq') /\ muteq'[i].user = u /\ muteq'[i].muted = ~b
        BY <1>2, <1>3, <3>1
      <3>3. \A j \in (i+1)..Len(muteq') : muteq'[j].user # u
        BY <1>2, <1>3, <1>5, <3>1
      <3> QED
        BY <3>2, <3>3 DEF Marked
    <2>2. CASE (\A i \in 1..Len(muteq) : muteq[i].user # u) /\ (u \in micOn <=> b)
      <3>1. \A i \in 1..Len(muteq') : muteq'[i].user # u
        BY <1>2, <1>3, <1>5, <2>2
      <3> QED
        BY <2>2, <3>1 DEF Marked
    <2> QED
      BY <1>5, <2>1, <2>2 DEF Marked
  <1> QED
    BY <1>4, <1>5

\* The hub does what voice.mute says.
LEMMA MarkedTaken ==
    ASSUME TypeOK, MuteBus, NEW u \in User, NEW b \in BOOLEAN, Marked(u, b)
    PROVE  Marked(u, b)'
  <1>1. /\ muteq \in Seq(Mute) /\ muteq # <<>> /\ muteq' = Tail(muteq)
        /\ micOn' = IF Head(muteq).muted THEN micOn \ {Head(muteq).user}
                                         ELSE micOn \cup {Head(muteq).user}
    BY DEF TypeOK, MuteBus
  <1>2. /\ muteq' \in Seq(Mute) /\ Len(muteq') = Len(muteq) - 1 /\ Head(muteq) = muteq[1]
        /\ \A i \in 1..Len(muteq') : muteq'[i] = muteq[i+1] /\ i+1 \in 1..Len(muteq)
        /\ Head(muteq) \in Mute /\ Len(muteq) >= 1
    BY <1>1, OneTaken
  <1>3. Len(muteq') \in Nat /\ Len(muteq) \in Nat
    BY <1>1, <1>2, LenProperties
  <1>4. /\ Head(muteq).user \in micOn' <=> ~Head(muteq).muted
        /\ u # Head(muteq).user => (u \in micOn' <=> u \in micOn)
    BY <1>1, <1>2 DEF Mute
  <1>5. CASE \E i \in 1..Len(muteq) :
                 /\ muteq[i].user = u /\ muteq[i].muted = ~b
                 /\ \A j \in (i+1)..Len(muteq) : muteq[j].user # u
    <2>1. PICK i \in 1..Len(muteq) : /\ muteq[i].user = u /\ muteq[i].muted = ~b
                                     /\ \A j \in (i+1)..Len(muteq) : muteq[j].user # u
      BY <1>5
    <2>2. \/ i = 1 /\ \A j \in 1..Len(muteq') : j+1 \in (i+1)..Len(muteq)
          \/ /\ i-1 \in 1..Len(muteq') /\ i = (i-1) + 1
             /\ \A j \in ((i-1)+1)..Len(muteq') : j+1 \in (i+1)..Len(muteq)
      BY <1>2, <1>3, Shifted, Zenon
    <2>3. CASE i = 1 /\ \A j \in 1..Len(muteq') : j+1 \in (i+1)..Len(muteq)
      <3>1. \A j \in 1..Len(muteq') : muteq'[j].user # u
        BY <1>2, <2>1, <2>3
      <3>2. u \in micOn' <=> b
        BY <1>2, <1>4, <2>1, <2>3
      <3> QED
        BY <3>1, <3>2 DEF Marked
    <2>4. CASE /\ i-1 \in 1..Len(muteq') /\ i = (i-1) + 1
               /\ \A j \in ((i-1)+1)..Len(muteq') : j+1 \in (i+1)..Len(muteq)
      <3>1. muteq'[i-1].user = u /\ muteq'[i-1].muted = ~b
        BY <1>2, <2>1, <2>4
      <3>2. \A j \in ((i-1)+1)..Len(muteq') : j \in 1..Len(muteq')
        BY <1>3, <2>4
      <3>3. \A j \in ((i-1)+1)..Len(muteq') : muteq'[j].user # u
        BY <1>2, <2>1, <2>4, <3>2
      <3> QED
        BY <2>4, <3>1, <3>3 DEF Marked
    <2> QED
      BY <2>2, <2>3, <2>4
  <1>6. CASE (\A i \in 1..Len(muteq) : muteq[i].user # u) /\ (u \in micOn <=> b)
    <2>1. 1 \in 1..Len(muteq)
      BY <1>2, <1>3
    <2>2. u \in micOn' <=> b
      BY <1>2, <1>4, <1>6, <2>1
    <2>3. \A i \in 1..Len(muteq') : muteq'[i].user # u
      BY <1>2, <1>6
    <2> QED
      BY <2>2, <2>3 DEF Marked
  <1> QED
    BY <1>5, <1>6 DEF Marked

\* What was told stays told while nobody speaks.
LEMMA ToldStays ==
    ASSUME NEW c \in Conn, NEW b \in BOOLEAN, Told(c, b), inbound'[c] = inbound[c],
           \/ pc'[c] = pc[c]
           \/ pc[c] \notin {"muting", "unmuting"} /\ pc'[c] \notin {"muting", "unmuting"},
           Marked(UserOf[c], b) => Marked(UserOf[c], b)'
    PROVE  Told(c, b)'
  BY DEF Told

\* A frame about the microphone is the last word; others change nothing.
LEMMA ToldSent ==
    ASSUME TypeOK, NEW c \in Conn, NEW f \in Frame,
           inbound' = [inbound EXCEPT ![c] = Append(@, f)], UNCHANGED <<pc, muteq, micOn>>
    PROVE  /\ \A b \in BOOLEAN : f = Word(b) => Told(c, b)'
           /\ \A b \in BOOLEAN : f \notin {"mute", "unmute"} /\ Told(c, b) => Told(c, b)'
  <1> DEFINE n == Len(inbound[c])
  <1>1. /\ Len(inbound'[c]) = n + 1 /\ n \in Nat
        /\ \A i \in 1..n : inbound'[c][i] = inbound[c][i]
        /\ inbound'[c][n + 1] = f
    BY FrameSent
  <1> HIDE DEF n
  <1>2. /\ n + 1 \in 1..(n+1)
        /\ \A j \in (n + 1 + 1)..(n+1) : FALSE
        /\ \A i \in 1..n : i \in 1..(n+1)
        /\ \A i \in 1..n : \A j \in (i+1)..(n+1) : j = n + 1 \/ (j \in (i+1)..n /\ j \in 1..n)
        /\ \A j \in 1..(n+1) : j = n + 1 \/ j \in 1..n
    BY <1>1
  <1>3. ASSUME NEW b \in BOOLEAN, f = Word(b) PROVE Told(c, b)'
    <2>1. \E i \in 1..Len(inbound'[c]) :
            /\ inbound'[c][i] = Word(b)
            /\ \A j \in (i+1)..Len(inbound'[c]) : inbound'[c][j] \notin {"mute", "unmute"}
      BY <1>1, <1>2, <1>3
    <2> QED
      BY <2>1 DEF Told, Word
  <1>4. ASSUME NEW b \in BOOLEAN, f \notin {"mute", "unmute"}, Told(c, b) PROVE Told(c, b)'
    <2>1. CASE \E i \in 1..n : /\ inbound[c][i] = Word(b)
                               /\ \A j \in (i+1)..n : inbound[c][j] \notin {"mute", "unmute"}
      <3>1. PICK i \in 1..n : /\ inbound[c][i] = Word(b)
                              /\ \A j \in (i+1)..n : inbound[c][j] \notin {"mute", "unmute"}
        BY <2>1
      <3>2. i \in 1..Len(inbound'[c]) /\ inbound'[c][i] = Word(b)
        BY <1>1, <1>2, <3>1
      <3>3. \A j \in (i+1)..Len(inbound'[c]) : inbound'[c][j] \notin {"mute", "unmute"}
        BY <1>1, <1>2, <1>4, <3>1
      <3>4. \E k \in 1..Len(inbound'[c]) :
              /\ inbound'[c][k] = Word(b)
              /\ \A j \in (k+1)..Len(inbound'[c]) : inbound'[c][j] \notin {"mute", "unmute"}
        BY <3>2, <3>3
      <3> QED
        BY <3>4 DEF Told, Word
    <2>2. CASE /\ \A i \in 1..n : inbound[c][i] \notin {"mute", "unmute"}
               /\ \/ pc[c] = IF b THEN "unmuting" ELSE "muting"
                  \/ pc[c] \notin {"muting", "unmuting"} /\ Marked(UserOf[c], b)
      <3>1. \A i \in 1..Len(inbound'[c]) : inbound'[c][i] \notin {"mute", "unmute"}
        BY <1>1, <1>2, <1>4, <2>2
      <3>2. Marked(UserOf[c], b)' <=> Marked(UserOf[c], b)
        BY DEF Marked
      <3> QED
        BY <2>2, <3>1, <3>2 DEF Told
    <2> QED
      BY <1>4, <2>1, <2>2 DEF Told, n
  <1> QED
    BY <1>3, <1>4

\* The handler that takes the last word carries it on.
LEMMA ToldTaken ==
    ASSUME TypeOK, NEW c \in Conn, NEW b \in BOOLEAN, Told(c, b), inbound[c] # <<>>,
           inbound' = [inbound EXCEPT ![c] = Tail(@)], UNCHANGED <<muteq, micOn>>,
           pc[c] = "running",
           \/ Head(inbound[c]) \notin {"mute", "unmute"} /\ pc' = pc
           \/ Head(inbound[c]) = "mute" /\ pc' = [pc EXCEPT ![c] = "muting"]
           \/ Head(inbound[c]) = "unmute" /\ pc' = [pc EXCEPT ![c] = "unmuting"]
    PROVE  Told(c, b)'
  <1> DEFINE n == Len(inbound[c])
             k == Len(inbound'[c])
  <1>t. pc \in [Conn -> Handling \cup {"idle", "done"}]
    BY DEF TypeOK
  <1>1. /\ k = n - 1 /\ n \in Nat \ {0} /\ Head(inbound[c]) = inbound[c][1] /\ 1 \in 1..n
        /\ \A i \in 1..k : inbound'[c][i] = inbound[c][i+1] /\ i+1 \in 1..n
    BY FrameTaken
  <1> HIDE DEF n, k
  <1>2. k \in Nat
    BY <1>1
  <1>3. CASE \E i \in 1..n : /\ inbound[c][i] = Word(b)
                             /\ \A j \in (i+1)..n : inbound[c][j] \notin {"mute", "unmute"}
    <2>1. PICK i \in 1..n : /\ inbound[c][i] = Word(b)
                            /\ \A j \in (i+1)..n : inbound[c][j] \notin {"mute", "unmute"}
      BY <1>3
    <2>2. \/ i = 1 /\ \A j \in 1..k : j+1 \in (i+1)..n
          \/ /\ i-1 \in 1..k /\ i = (i-1) + 1
             /\ \A j \in ((i-1)+1)..k : j+1 \in (i+1)..n
      BY <1>1, <1>2, Shifted, Zenon
    <2>3. CASE i = 1 /\ \A j \in 1..k : j+1 \in (i+1)..n
      <3>1. \A j \in 1..k : inbound'[c][j] \notin {"mute", "unmute"}
        BY <1>1, <2>1, <2>3
      <3>2. pc'[c] = IF b THEN "unmuting" ELSE "muting"
        BY <1>t, <1>1, <2>1, <2>3 DEF Word
      <3> QED
        BY <3>1, <3>2 DEF Told, k
    <2>4. CASE /\ i-1 \in 1..k /\ i = (i-1) + 1
               /\ \A j \in ((i-1)+1)..k : j+1 \in (i+1)..n
      <3>1. inbound'[c][i-1] = Word(b)
        BY <1>1, <2>1, <2>4
      <3>2. \A j \in ((i-1)+1)..k : j \in 1..k
        BY <1>2, <2>4
      <3>3. \A j \in ((i-1)+1)..k : inbound'[c][j] \notin {"mute", "unmute"}
        BY <1>1, <2>1, <2>4, <3>2
      <3>4. \E x \in 1..Len(inbound'[c]) :
              /\ inbound'[c][x] = Word(b)
              /\ \A j \in (x+1)..Len(inbound'[c]) : inbound'[c][j] \notin {"mute", "unmute"}
        BY <2>4, <3>1, <3>3 DEF k
      <3> QED
        BY <3>4 DEF Told, Word
    <2> QED
      BY <2>2, <2>3, <2>4
  <1>4. CASE /\ \A i \in 1..n : inbound[c][i] \notin {"mute", "unmute"}
             /\ \/ pc[c] = IF b THEN "unmuting" ELSE "muting"
                \/ pc[c] \notin {"muting", "unmuting"} /\ Marked(UserOf[c], b)
    <2>1. pc' = pc /\ Marked(UserOf[c], b)
      BY <1>1, <1>4
    <2>2. \A j \in 1..k : inbound'[c][j] \notin {"mute", "unmute"}
      BY <1>1, <1>4
    <2>3. Marked(UserOf[c], b)'
      BY <2>1 DEF Marked
    <2> QED
      BY <2>1, <2>2, <2>3 DEF Told, k
  <1> QED
    BY <1>3, <1>4 DEF Told, n

-----------------------------------------------------------------------------
(* Marked.                                                                 *)

\* Another connection touches neither the wire, the handler nor the microphone.
LEMMA Elsewhere ==
    ASSUME TypeOK, NEW c \in Conn, NEW d \in Conn, d # c,
           \/ \E ch \in Channel : CreateSession(d, ch)
           \/ OpenWebSocket(d) \/ SendJoin(d) \/ ToggleMic(d) \/ Disconnect(d)
           \/ Vanish(d) \/ ForceDisconnected(d) \/ Handler(d)
    PROVE  /\ inbound'[c] = inbound[c] /\ pc'[c] = pc[c] /\ mic'[c] = mic[c]
           /\ UNCHANGED <<muteq, micOn>> \/ PublishMute(d)
  <1>t. /\ pc \in [Conn -> Handling \cup {"idle", "done"}]
        /\ mic \in [Conn -> {"off", "joined", "on", "off again"}]
        /\ inbound \in [Conn -> Seq(Frame)]
    BY DEF TypeOK, Frame
  <1>1. CASE (\E ch \in Channel : CreateSession(d, ch)) \/ OpenWebSocket(d)
    BY <1>1, <1>t DEF CreateSession, OpenWebSocket, hubVars
  <1>2. CASE SendJoin(d) \/ ToggleMic(d)
    BY <1>2, <1>t DEF SendJoin, ToggleMic, Sends, hubVars
  <1>3. CASE Disconnect(d) \/ Vanish(d) \/ ForceDisconnected(d)
    BY <1>3, <1>t DEF Disconnect, Vanish, ForceDisconnected, Goes, Sends, hubVars
  <1>4. CASE Register(d) \/ PublishJoined(d) \/ LeaveSfu(d) \/ FreeSlot(d) \/ PublishLeft(d)
    BY <1>4, <1>t DEF Register, PublishJoined, LeaveSfu, FreeSlot, PublishLeft, clientVars, hubVars
  <1>5. CASE HandleJoin(d) \/ HandleMute(d) \/ HandleLeave(d) \/ LoopEnds(d)
    BY <1>5, <1>t DEF HandleJoin, HandleMute, HandleLeave, LoopEnds, Takes, clientVars, hubVars
  <1>6. CASE PublishMute(d)
    BY <1>6, <1>t DEF PublishMute, clientVars
  <1> QED
    BY <1>1, <1>2, <1>3, <1>4, <1>5, <1>6 DEF Handler

\* Who is gone stays gone, who has asked has asked.
LEMMA Alone ==
    ASSUME TypeOK, Next, NEW c \in Conn
    PROVE  /\ client'[c] # "gone" => client[c] # "gone"
           /\ client'[c] = "idle" => client[c] = "idle"
  <1>t. client \in [Conn -> {"idle", "asked", "open", "gone"}]
    BY DEF TypeOK
  <1>1. ASSUME NEW d \in Conn, \/ \E ch \in Channel : CreateSession(d, ch)
                               \/ OpenWebSocket(d) \/ Register(d) \/ FreeSlot(d)
        PROVE  /\ client'[c] # "gone" => client[c] # "gone"
               /\ client'[c] = "idle" => client[c] = "idle"
    BY <1>1, <1>t DEF CreateSession, OpenWebSocket, Register, FreeSlot, clientVars
  <1>2. ASSUME NEW d \in Conn, client' = [client EXCEPT ![d] = "gone"]
        PROVE  /\ client'[c] # "gone" => client[c] # "gone"
               /\ client'[c] = "idle" => client[c] = "idle"
    BY <1>2, <1>t
  <1> QED
    BY Moves, <1>1, <1>2

\* Nothing on voice.occupancy says that the user of a single connection left.
LEMMA StaysIn ==
    ASSUME TypeOK, IndexInv, EndInv, MarkInv, Next, NEW c \in Conn,
           client[c] # "gone", \A d \in Others(c) : client[d] = "idle",
           NEW i \in 1..Len(occq'), occq'[i].user = UserOf[c]
    PROVE  occq'[i].channel # None
  <1>t. occq \in Seq(Occupancy) /\ None \notin Channel
    BY NoneAssumption DEF TypeOK
  <1>1. \A j \in 1..Len(occq) : occq[j].user = UserOf[c] => occq[j].channel # None
    BY DEF MarkInv
  <1>2. CASE UNCHANGED <<occq, occ>>
    BY <1>1, <1>2
  <1>3. CASE OccupancyBus
    <2>1. occq'[i] = occq[i+1] /\ i+1 \in 1..Len(occq)
      BY <1>t, <1>3, OneTaken DEF OccupancyBus
    <2> QED
      BY <1>1, <2>1
  <1>4. ASSUME NEW d \in Conn, PublishJoined(d) \/ PublishLeft(d)
        PROVE  occq'[i].channel # None
    <2>1. UserOf[d] \in User /\ client[d] # "idle" /\ pc[d] \in {"registered", "farewell"}
      BY <1>4, UserOfAssumption DEF IndexInv, Resting, PublishJoined, PublishLeft
    <2>2. chanOf[cs[d]] \in Channel
      BY <2>1 DEF IndexInv, Named
    <2>3. PICK k \in Channel \cup {None} :
            /\ occq' = Append(occq, [user |-> UserOf[d], channel |-> k])
            /\ k = None => PublishLeft(d)
      BY <1>t, <1>4, <2>2 DEF PublishJoined, PublishLeft, PublishOccupancy
    <2>4. [user |-> UserOf[d], channel |-> k] \in Occupancy
      BY <2>1 DEF Occupancy
    <2>5. PICK m \in Occupancy : occq' = Append(occq, m) /\ m.user = UserOf[d] /\ m.channel = k
      BY <2>3, <2>4
    <2>6. Len(occq) \in Nat
      BY <1>t, LenProperties
    <2>7. /\ Len(occq') = Len(occq) + 1 /\ occq'[Len(occq) + 1] = m
          /\ \A j \in 1..Len(occq) : occq'[j] = occq[j]
      BY <1>t, <2>5, OneSent
    <2>8. CASE i \in 1..Len(occq)
      BY <1>1, <2>7, <2>8
    <2>9. CASE i = Len(occq) + 1
      <3>1. UserOf[d] = UserOf[c]
        BY <2>5, <2>7, <2>9
      <3>2. d = c
        BY <2>1, <3>1 DEF Others
      <3>3. ~PublishLeft(d)
        BY <3>2 DEF PublishLeft, EndInv
      <3> QED
        BY <2>3, <2>5, <2>7, <2>9, <3>3
    <2> QED
      BY <2>6, <2>7, <2>8, <2>9
  <1> QED
    BY Publishing, <1>2, <1>3, <1>4

\* Every step keeps the microphone told.
LEMMA MarkStep ==
    ASSUME TypeOK, IndexInv, EndInv, MarkInv, Next
    PROVE  MarkInv'
  <1> SUFFICES ASSUME NEW c \in Conn, client'[c] # "gone",
                      \A d \in Others(c) : client'[d] = "idle"
               PROVE  /\ \A b \in BOOLEAN : (b <=> mic'[c] = "on") => Told(c, b)'
                      /\ \A i \in 1..Len(occq') : occq'[i].user = UserOf[c] => occq'[i].channel # None
    BY DEF MarkInv, Others
  <1>t. /\ pc \in [Conn -> Handling \cup {"idle", "done"}]
        /\ mic \in [Conn -> {"off", "joined", "on", "off again"}]
        /\ inbound \in [Conn -> Seq(Frame)]
        /\ client \in [Conn -> {"idle", "asked", "open", "gone"}]
    BY DEF TypeOK, Frame
  <1>u. UserOf[c] \in User /\ \A d \in Conn : UserOf[d] \in User
    BY UserOfAssumption
  <1>1. client[c] # "gone" /\ \A d \in Others(c) : client[d] = "idle"
    BY Alone DEF Others
  <1>2. \A i \in 1..Len(occq') : occq'[i].user = UserOf[c] => occq'[i].channel # None
    BY <1>1, StaysIn
  <1>3. SUFFICES ASSUME NEW b \in BOOLEAN, b <=> mic'[c] = "on"
                 PROVE  Told(c, b)'
    BY <1>2
  <1>4. /\ (b <=> mic[c] = "on") => Told(c, b)
        /\ \A i \in 1..Len(occq) : occq[i].user = UserOf[c] => occq[i].channel # None
    BY <1>1 DEF MarkInv
  <1>5. ASSUME mic'[c] = mic[c] PROVE Told(c, b)
    BY <1>3, <1>4, <1>5
  <1>6. ASSUME NEW d \in Conn, d # c,
               \/ \E ch \in Channel : CreateSession(d, ch)
               \/ OpenWebSocket(d) \/ SendJoin(d) \/ ToggleMic(d) \/ Disconnect(d)
               \/ Vanish(d) \/ ForceDisconnected(d) \/ Handler(d)
        PROVE  Told(c, b)'
    <2>1. /\ inbound'[c] = inbound[c] /\ pc'[c] = pc[c] /\ mic'[c] = mic[c]
          /\ UNCHANGED <<muteq, micOn>> \/ PublishMute(d)
      BY <1>6, Elsewhere
    <2>2. CASE UNCHANGED <<muteq, micOn>>
      <3>1. Marked(UserOf[c], b) => Marked(UserOf[c], b)'
        BY <2>2 DEF Marked
      <3> QED
        BY <1>5, <2>1, <3>1, ToldStays
    <2>3. CASE PublishMute(d)
      <3>1. UserOf[d] # UserOf[c]
        BY <1>1, <1>6, <2>3 DEF PublishMute, IndexInv, Resting, Others
      <3>2. [user |-> UserOf[d], muted |-> pc[d] = "muting"] \in Mute
        <4>1. (pc[d] = "muting") \in BOOLEAN
          OBVIOUS
        <4> QED
          BY <1>u, <4>1 DEF Mute
      <3>3. PICK m \in Mute : muteq' = Append(muteq, m) /\ m.user = UserOf[d] /\ micOn' = micOn
        BY <2>3, <3>2 DEF PublishMute
      <3>4. \A u \in User, x \in BOOLEAN : u # m.user /\ Marked(u, x) => Marked(u, x)'
        BY <3>3, MarkedSent
      <3>5. Marked(UserOf[c], b) => Marked(UserOf[c], b)'
        BY <1>u, <3>1, <3>3, <3>4
      <3> QED
        BY <1>5, <2>1, <3>5, ToldStays
    <2> QED
      BY <2>1, <2>2, <2>3
  <1>7. CASE (\E ch \in Channel : CreateSession(c, ch)) \/ OpenWebSocket(c) \/ Register(c)
             \/ PublishJoined(c)
    <2>1. /\ UNCHANGED <<inbound, mic, muteq, micOn>>
          /\ \/ pc'[c] = pc[c]
             \/ pc[c] \notin {"muting", "unmuting"} /\ pc'[c] \notin {"muting", "unmuting"}
      <3>1. CASE (\E ch \in Channel : CreateSession(c, ch)) \/ PublishJoined(c)
        BY <1>t, <3>1 DEF CreateSession, PublishJoined, clientVars, hubVars
      <3>2. CASE Register(c)
        BY <1>t, <3>2 DEF Register, hubVars
      <3>3. CASE OpenWebSocket(c)
        <4>1. pc[c] = "idle"
          BY <3>3 DEF OpenWebSocket, IndexInv, Resting
        <4> QED
          BY <1>t, <3>3, <4>1 DEF OpenWebSocket, hubVars
      <3> QED
        BY <1>7, <3>1, <3>2, <3>3
    <2>2. Marked(UserOf[c], b) => Marked(UserOf[c], b)'
      BY <2>1 DEF Marked
    <2> QED
      BY <1>5, <2>1, <2>2, ToldStays
  <1>8. CASE SendJoin(c)
    <2>1. /\ inbound' = [inbound EXCEPT ![c] = Append(@, "join")] /\ UNCHANGED <<pc, muteq, micOn>>
          /\ mic[c] = "off" /\ mic'[c] = "joined" /\ "join" \in Frame
      BY <1>t, <1>8 DEF SendJoin, Sends, hubVars, Frame
    <2>2. Told(c, b)
      BY <1>3, <1>4, <2>1
    <2> QED
      BY <2>1, <2>2, ToldSent
  <1>9. CASE ToggleMic(c)
    <2>1. PICK x \in BOOLEAN : /\ inbound' = [inbound EXCEPT ![c] = Append(@, Word(x))]
                               /\ x = (mic'[c] = "on")
      <3>1. \/ mic'[c] = "on" /\ inbound' = [inbound EXCEPT ![c] = Append(@, "unmute")]
            \/ mic'[c] = "off again" /\ inbound' = [inbound EXCEPT ![c] = Append(@, "mute")]
        BY <1>t, <1>9 DEF ToggleMic, Sends
      <3> QED
        BY <3>1 DEF Word
    <2>2. UNCHANGED <<pc, muteq, micOn>> /\ Word(x) \in Frame
      BY <1>9 DEF ToggleMic, hubVars, Frame, Word
    <2>3. x = b
      BY <1>3, <2>1
    <2> QED
      BY <2>1, <2>2, <2>3, ToldSent
  <1>10. CASE Disconnect(c) \/ Vanish(c) \/ ForceDisconnected(c)
    BY <1>t, <1>10 DEF Disconnect, Vanish, ForceDisconnected, Goes
  <1>11. CASE HandleJoin(c) \/ HandleMute(c)
    <2>1. /\ pc[c] = "running" /\ inbound[c] # <<>>
          /\ inbound' = [inbound EXCEPT ![c] = Tail(@)] /\ UNCHANGED <<mic, muteq, micOn>>
          /\ \/ Head(inbound[c]) \notin {"mute", "unmute"} /\ pc' = pc
             \/ Head(inbound[c]) = "mute" /\ pc' = [pc EXCEPT ![c] = "muting"]
             \/ Head(inbound[c]) = "unmute" /\ pc' = [pc EXCEPT ![c] = "unmuting"]
      BY <1>11 DEF HandleJoin, HandleMute, Takes, clientVars, hubVars
    <2>2. Told(c, b)
      BY <1>5, <2>1
    <2> QED
      BY <2>1, <2>2, ToldTaken
  <1>12. CASE PublishMute(c)
    <2>1. /\ pc[c] \in {"muting", "unmuting"} /\ pc'[c] = "running" /\ UNCHANGED <<mic, inbound, micOn>>
          /\ muteq' = Append(muteq, [user |-> UserOf[c], muted |-> pc[c] = "muting"])
      BY <1>t, <1>12 DEF PublishMute, clientVars
    <2>2. PICK x \in BOOLEAN : x = (pc[c] = "unmuting")
      OBVIOUS
    <2>3. [user |-> UserOf[c], muted |-> ~x] \in Mute
      BY <1>u DEF Mute
    <2>4. (pc[c] = "muting") = ~x
      BY <2>1, <2>2
    <2>5. PICK m \in Mute : muteq' = Append(muteq, m) /\ m.user = UserOf[c] /\ m.muted = ~x
      BY <2>1, <2>3, <2>4
    <2>6. Marked(m.user, x)'
      BY <2>1, <2>5, MarkedSent
    <2>7. Marked(UserOf[c], x)'
      BY <2>5, <2>6 DEF Marked
    <2>8. CASE \A i \in 1..Len(inbound[c]) : inbound[c][i] \notin {"mute", "unmute"}
      <3>1. x = b
        <4>1. \A i \in 1..Len(inbound[c]) : inbound[c][i] # Word(b)
          BY <2>8 DEF Word
        <4>2. pc[c] = IF b THEN "unmuting" ELSE "muting"
          BY <1>5, <2>1, <4>1 DEF Told
        <4> QED
          BY <2>2, <4>2
      <3> QED
        BY <2>1, <2>7, <2>8, <3>1 DEF Told
    <2>9. CASE ~(\A i \in 1..Len(inbound[c]) : inbound[c][i] \notin {"mute", "unmute"})
      <3>1. \E i \in 1..Len(inbound[c]) :
               /\ inbound[c][i] = Word(b)
               /\ \A j \in (i+1)..Len(inbound[c]) : inbound[c][j] \notin {"mute", "unmute"}
        BY <1>5, <2>1, <2>9 DEF Told
      <3> QED
        BY <2>1, <3>1 DEF Told, Word
    <2> QED
      BY <2>8, <2>9
  <1>13. CASE HandleLeave(c) \/ LoopEnds(c) \/ LeaveSfu(c) \/ FreeSlot(c) \/ PublishLeft(c)
    <2>1. client' = client
      BY <1>13 DEF HandleLeave, LoopEnds, LeaveSfu, FreeSlot, PublishLeft, clientVars
    <2>2. CASE HandleLeave(c)
      <3>1. /\ inbound[c] # <<>> /\ Head(inbound[c]) = "leave"
            /\ inbound' = [inbound EXCEPT ![c] = Tail(@)]
        BY <2>2 DEF HandleLeave, Takes
      <3>2. inbound[c][1] = "leave" /\ 1 \in 1..Len(inbound[c])
        BY <3>1, FrameTaken
      <3> QED
        BY <1>1, <3>2 DEF EndInv
    <2>3. CASE LoopEnds(c) \/ LeaveSfu(c) \/ FreeSlot(c) \/ PublishLeft(c)
      BY <1>1, <2>3 DEF LoopEnds, LeaveSfu, FreeSlot, PublishLeft, EndInv
    <2> QED
      BY <1>13, <2>2, <2>3
  <1>14. CASE SfuJoin \/ SfuLeave \/ (\E s \in Conn, u \in User : SfuZombie(s, u))
    <2>1. UNCHANGED <<mic, inbound, pc, muteq, micOn>>
      BY <1>14 DEF SfuJoin, SfuLeave, SfuZombie, clientVars, hubVars
    <2>2. Marked(UserOf[c], b) => Marked(UserOf[c], b)'
      BY <2>1 DEF Marked
    <2> QED
      BY <1>5, <2>1, <2>2, ToldStays
  <1>15. CASE MuteBus
    <2>1. UNCHANGED <<mic, inbound, pc>>
      BY <1>15 DEF MuteBus, clientVars
    <2>2. Marked(UserOf[c], b) => Marked(UserOf[c], b)'
      BY <1>u, <1>15, MarkedTaken
    <2> QED
      BY <1>5, <2>1, <2>2, ToldStays
  <1>16. CASE OccupancyBus
    <2>1. /\ UNCHANGED <<mic, inbound, pc, muteq>> /\ occq # <<>>
          /\ micOn' = IF Head(occq).channel = None THEN micOn \ {Head(occq).user} ELSE micOn
      BY <1>16 DEF OccupancyBus, clientVars
    <2>2. Head(occq) = occq[1] /\ 1 \in 1..Len(occq)
      <3>1. occq \in Seq(Occupancy)
        BY DEF TypeOK
      <3>2. Head(occq) = occq[1] /\ Len(occq) >= 1 /\ Len(occq) \in Nat
        BY <2>1, <3>1, OneTaken, LenProperties
      <3> QED
        BY <3>2
    <2>3. UserOf[c] \in micOn' <=> UserOf[c] \in micOn
      BY <1>4, <2>1, <2>2
    <2>4. Marked(UserOf[c], b) => Marked(UserOf[c], b)'
      BY <2>1, <2>3 DEF Marked
    <2> QED
      BY <1>5, <2>1, <2>4, ToldStays
  <1>17. Told(c, b)'
    <2>1. ASSUME NEW d \in Conn,
               \/ \E ch \in Channel : CreateSession(d, ch)
               \/ OpenWebSocket(d) \/ SendJoin(d) \/ ToggleMic(d) \/ Disconnect(d)
               \/ Vanish(d) \/ ForceDisconnected(d) \/ Handler(d)
          PROVE  Told(c, b)'
      <3>1. CASE d = c
        BY <2>1, <3>1, <1>7, <1>8, <1>9, <1>10, <1>11, <1>12, <1>13 DEF Handler
      <3> QED
        BY <2>1, <3>1, <1>6
    <2> QED
      BY <2>1, <1>14, <1>15, <1>16 DEF Next
  <1> QED
    BY <1>2, <1>17

-----------------------------------------------------------------------------
(* The invariant and the theorems.                                         *)

\* The inductive invariant.
VoiceInv ==
    TypeOK /\ IndexInv /\ EndInv /\ JoinInv /\ OneInv /\ ShownInv /\ HeardInv /\ MarkInv

\* It holds of the beginning ...
LEMMA VoiceStarts == Init => VoiceInv
  <1> SUFFICES ASSUME Init PROVE VoiceInv
    OBVIOUS
  <1> USE DEF Init
  <1>e. /\ \A S : <<>> \in Seq(S)
        /\ Len(<<>>) = 0 /\ \A i \in 1..Len(<<>>) : FALSE
    BY EmptySeq
  <1>1. TypeOK
    <2>1. inbound \in [Conn -> Seq({"join", "mute", "unmute", "leave"})]
      BY <1>e
    <2>2. sfuq \in Seq(Command) /\ Len(sfuq) <= SfuCap /\ occq \in Seq(Occupancy) /\ muteq \in Seq(Mute)
      BY <1>e, CapAssumption
    <2> QED
      BY <2>1, <2>2 DEF TypeOK
  <1>2. IndexInv
    BY DEF IndexInv, Resting, Named, Unnamed, InMap, Held, SessionIndex
  <1>3. EndInv
    BY <1>e DEF EndInv
  <1>4. JoinInv
    BY <1>e DEF JoinInv, Commanded, Closed, Unjoined, JoinsOnce, JoinsWaiting
  <1>5. OneInv /\ ShownInv /\ HeardInv
    BY DEF OneInv, ShownInv, HeardInv, Active, Busy, Handling, Holding
  <1>6. MarkInv
    <2>1. \A c \in Conn : UserOf[c] \in User
      BY UserOfAssumption
    <2>2. ASSUME NEW c \in Conn PROVE Told(c, FALSE)
      BY <1>e, <2>1 DEF Told, Marked
    <2>3. ASSUME NEW c \in Conn, NEW b \in BOOLEAN, b <=> mic[c] = "on" PROVE Told(c, b)
      <3>1. b = FALSE
        BY <2>3
      <3> QED
        BY <2>2, <3>1
    <2> QED
      BY <1>e, <2>3 DEF MarkInv
  <1> QED
    BY <1>1, <1>2, <1>3, <1>4, <1>5, <1>6 DEF VoiceInv

\* ... of a step that changes nothing ...
LEMMA VoiceStutters == VoiceInv /\ UNCHANGED vars => VoiceInv'
  <1> SUFFICES ASSUME VoiceInv, UNCHANGED vars PROVE VoiceInv'
    OBVIOUS
  <1> USE DEF vars, restVars, clientVars, askedFor, sfuVars, hubVars
  <1>0. TypeOK'
    BY DEF VoiceInv, TypeOK
  <1>1. IndexInv'
    <2>1. Resting' /\ Named' /\ Unnamed' /\ InMap'
      BY DEF VoiceInv, IndexInv, Resting, Named, Unnamed, InMap
    <2>2. Held'
      BY DEF VoiceInv, IndexInv, Held
    <2>3. SessionIndex'
      BY DEF VoiceInv, IndexInv, SessionIndex
    <2> QED
      BY <2>1, <2>2, <2>3 DEF IndexInv
  <1>2. EndInv' /\ JoinInv'
    BY DEF VoiceInv, EndInv, JoinInv, Commanded, Closed, Unjoined, JoinsOnce, JoinsWaiting
  <1>3. OneInv' /\ ShownInv' /\ HeardInv'
    BY DEF VoiceInv, OneInv, Active, Busy, Others, ShownInv, Says, HeardInv
  <1>4. MarkInv'
    <2>1. /\ client' = client /\ inbound' = inbound /\ pc' = pc /\ mic' = mic
          /\ occq' = occq /\ muteq' = muteq /\ micOn' = micOn
      OBVIOUS
    <2>2. \A c \in Conn, b \in BOOLEAN : Told(c, b)' <=> Told(c, b)
      <3>1. \A u \in User, b \in BOOLEAN : Marked(u, b)' <=> Marked(u, b)
        BY <2>1 DEF Marked
      <3> QED
        BY <2>1, <3>1, UserOfAssumption DEF Told
    <2>3. MarkInv
      BY DEF VoiceInv
    <2> QED
      BY <2>1, <2>2, <2>3 DEF MarkInv, Others
  <1> QED
    BY <1>0, <1>1, <1>2, <1>3, <1>4 DEF VoiceInv

\* ... after every step ...
LEMMA VoiceSteps == VoiceInv /\ [Next]_vars => VoiceInv'
  <1> SUFFICES ASSUME VoiceInv, Next PROVE VoiceInv'
    BY VoiceStutters
  <1>1. TypeOK /\ IndexInv /\ EndInv /\ JoinInv /\ OneInv /\ ShownInv /\ HeardInv /\ MarkInv
    BY DEF VoiceInv
  <1>2. TypeOK' /\ IndexInv' /\ EndInv' /\ JoinInv'
    BY <1>1, TypeStep, IndexStep, EndStep, JoinStep
  <1>3. OneInv' /\ ShownInv' /\ HeardInv' /\ MarkInv'
    BY <1>1, OneStep, ShownStep, HeardStep, MarkStep
  <1> QED
    BY <1>2, <1>3 DEF VoiceInv

\* ... and therefore always.
LEMMA VoiceHolds == Spec => []VoiceInv
  BY VoiceStarts, VoiceSteps, PTL DEF Spec

\* The types hold, and the shard's channel never exceeds its capacity (sfu/mod.rs
\* SfuPool::send).
THEOREM TypeCorrect == Spec => []TypeOK
  <1>1. VoiceInv => TypeOK
    BY DEF VoiceInv
  <1> QED
    BY <1>1, VoiceHolds, PTL

\* A channel leads to a session exactly when that session is in the map and is
\* the channel's (sessions.rs create_session, ws.rs cleanup).
THEOREM IndexCorrect == Spec => []SessionIndex
  <1>1. VoiceInv => SessionIndex
    BY DEF VoiceInv, IndexInv
  <1> QED
    BY <1>1, VoiceHolds, PTL

\* When nothing is under way, whoever is in a slot is in its loop with a client
\* that stays.
LEMMA AtRest ==
    ASSUME VoiceInv, Quiet, NEW s \in Conn, NEW u \in User, slot[s][u] # None
    PROVE  \E c \in Conn :
             /\ c = slot[s][u] /\ UserOf[c] = u /\ cs[c] = s
             /\ pc[c] = "running" /\ client[c] = "open" /\ inbound[c] = <<>>
  <1>1. slot \in [Conn -> [User -> Conn \cup {None}]]
    BY DEF VoiceInv, TypeOK
  <1>2. PICK c \in Conn : c = slot[s][u]
    BY <1>1
  <1>3. UserOf[c] = u /\ cs[c] = s /\ pc[c] \in Holding
    BY <1>2 DEF VoiceInv, IndexInv, Held
  <1>4. pc[c] = "running" /\ client[c] = "open" /\ inbound[c] = <<>>
    BY <1>3 DEF Quiet, Holding
  <1> QED
    BY <1>2, <1>3, <1>4

\* A user whose connections followed one another is, when nothing is under way,
\* shown in the channel he is in and heard there (ws.rs publish_occupancy and
\* sfu_send_or_drop, sfu/mod.rs handle_join, voice_occupancy_bus.rs).
THEOREM PresentCorrect == Spec => []OrderlyUserPresent
  <1>e. \A i \in 1..Len(<<>>) : FALSE
    OBVIOUS
  <1>1. ASSUME VoiceInv, Quiet, NEW u \in User \ overlapped PROVE Shown(u)
    <2> SUFFICES ASSUME NEW s \in Conn, slot[s][u] # None
                 PROVE  \E t \in Conn : slot[t][u] # None /\ occ[u] = chanOf[t]
      BY DEF Shown
    <2>1. PICK c \in Conn : /\ c = slot[s][u] /\ UserOf[c] = u /\ cs[c] = s
                            /\ pc[c] = "running" /\ client[c] = "open"
      BY <1>1, AtRest
    <2>2. Says(u, chanOf[s])
      BY <1>1, <2>1 DEF VoiceInv, ShownInv, Holding
    <2>3. occ[u] = chanOf[s]
      BY <1>1, <1>e, <2>2 DEF Quiet, Says
    <2> QED
      BY <2>3
  <1>2. ASSUME VoiceInv, Quiet, NEW u \in User \ overlapped, NEW s \in Conn, slot[s][u] \in answered
        PROVE  sfu[s][u] = slot[s][u]
    <2>1. slot[s][u] # None
      BY <1>2, NoneAssumption DEF VoiceInv, TypeOK
    <2>2. PICK c \in Conn : /\ c = slot[s][u] /\ UserOf[c] = u /\ cs[c] = s /\ client[c] = "open"
      BY <1>2, <2>1, AtRest
    <2> QED
      BY <1>2, <2>2 DEF VoiceInv, HeardInv
  <1>3. VoiceInv => OrderlyUserPresent
    BY <1>1, <1>2 DEF OrderlyUserPresent, OrderlyUserShown, OrderlyUserHeard
  <1> QED
    BY <1>3, VoiceHolds, PTL

\* The mark of a user in a call by his first and only connection says, when
\* nothing is under way, what his microphone is (ws.rs MuteChanged,
\* voice_mute_bus.rs, voice_occupancy_bus.rs).
THEOREM MicCorrect == Spec => []MicMarkFollowsMic
  <1>e. \A i \in 1..Len(<<>>) : FALSE
    OBVIOUS
  <1>1. ASSUME VoiceInv, Quiet, NEW s \in Conn, NEW u \in User, slot[s][u] # None,
               \A d \in Conn : UserOf[d] = u /\ d # slot[s][u] => client[d] = "idle"
        PROVE  u \in micOn <=> mic[slot[s][u]] = "on"
    <2>1. PICK c \in Conn : /\ c = slot[s][u] /\ UserOf[c] = u
                            /\ pc[c] = "running" /\ client[c] = "open" /\ inbound[c] = <<>>
      BY <1>1, AtRest
    <2>2. PICK b \in BOOLEAN : b <=> mic[c] = "on"
      OBVIOUS
    <2>3. \A d \in Others(c) : client[d] = "idle"
      BY <1>1, <2>1 DEF Others
    <2>4. Told(c, b)
      BY <1>1, <2>1, <2>2, <2>3 DEF VoiceInv, MarkInv
    <2>5. Marked(u, b)
      BY <1>e, <2>1, <2>4 DEF Told
    <2>6. u \in micOn <=> b
      BY <1>1, <1>e, <2>5 DEF Quiet, Marked
    <2> QED
      BY <2>1, <2>2, <2>6
  <1>2. VoiceInv => MicMarkFollowsMic
    BY <1>1 DEF MicMarkFollowsMic
  <1> QED
    BY <1>2, VoiceHolds, PTL

\* A step that empties a session's slots takes it off the map.
LEMMA NoneLeftEmpty ==
    ASSUME VoiceInv, Next, NEW s \in sessions, NEW u \in User, slot[s][u] # None
    PROVE  s \notin sessions' \/ \E v \in User : slot'[s][v] # None
  <1>t. slot \in [Conn -> [User -> Conn \cup {None}]] /\ sessions \in SUBSET Conn
    BY DEF VoiceInv, TypeOK
  <1>i. TypeOK /\ IndexInv /\ None \notin Conn
    BY NoneAssumption DEF VoiceInv
  <1>1. CASE slot' = slot
    BY <1>1
  <1>2. ASSUME NEW c \in Conn, Register(c)
        PROVE  \E v \in User : slot'[s][v] # None
    <2>1. slot' = slot \/ (cs[c] \in sessions /\ slot' = [slot EXCEPT ![cs[c]][UserOf[c]] = c])
      BY <1>2 DEF Register
    <2>2. CASE cs[c] \in sessions /\ slot' = [slot EXCEPT ![cs[c]][UserOf[c]] = c]
      <3>1. cs[c] \in Conn /\ UserOf[c] \in User /\ c \in Conn \cup {None} /\ c # None
        BY <1>t, <1>i, <2>2, UserOfAssumption
      <3>2. /\ slot'[cs[c]][UserOf[c]] = c
            /\ \A x \in Conn, v \in User : x # cs[c] \/ v # UserOf[c] => slot'[x][v] = slot[x][v]
        BY <1>t, <2>2, <3>1, Entered
      <3>3. slot'[s][u] # None
        BY <1>t, <3>1, <3>2
      <3> QED
        BY <3>3
    <2> QED
      BY <2>1, <2>2
  <1>3. ASSUME NEW c \in Conn, FreeSlot(c)
        PROVE  s \notin sessions' \/ \E v \in User : slot'[s][v] # None
    <2>1. cs[c] \in Conn /\ UserOf[c] \in User
      BY <1>i, <1>3, UserOfAssumption DEF FreeSlot, IndexInv, Resting, Named
    <2>2. slot' = slot \/ RemoveFrom(cs[c], UserOf[c])
      BY <1>3 DEF FreeSlot, restVars
    <2>3. CASE RemoveFrom(cs[c], UserOf[c])
      <3>1. slot' = [slot EXCEPT ![cs[c]][UserOf[c]] = None]
        BY <2>3 DEF RemoveFrom
      <3>2. \A x \in Conn, v \in User : x # cs[c] \/ v # UserOf[c] => slot'[x][v] = slot[x][v]
        BY <1>t, <2>1, <3>1, Entered
      <3>3. CASE Empties(cs[c], UserOf[c])
        <4>1. cs[c] \notin sessions'
          BY <2>3, <3>3 DEF RemoveFrom
        <4>2. s # cs[c] => slot'[s][u] # None
          BY <1>t, <3>2
        <4> QED
          BY <4>1, <4>2
      <3>4. CASE ~Empties(cs[c], UserOf[c])
        <4>1. PICK v \in User \ {UserOf[c]} : slot[cs[c]][v] # None
          BY <3>4 DEF Empties
        <4>2. slot'[cs[c]][v] # None
          BY <2>1, <3>2, <4>1
        <4>3. s # cs[c] => slot'[s][u] # None
          BY <1>t, <3>2
        <4> QED
          BY <4>1, <4>2, <4>3
      <3> QED
        BY <3>3, <3>4
    <2> QED
      BY <1>1, <2>2, <2>3
  <1>4. ASSUME NEW c \in Conn, (\E ch \in Channel : CreateSession(c, ch)) \/ OpenWebSocket(c)
        PROVE  slot' = slot
    BY <1>4 DEF CreateSession, OpenWebSocket, restVars
  <1> QED
    BY <1>i, Moves, <1>1, <1>2, <1>3, <1>4 DEF restVars

\* A session that has participants ends with the last of them (ws.rs cleanup,
\* "session destroyed").
THEOREM EndsCorrect == Spec => SessionEndsWithLast
  <1>1. VoiceInv /\ [Next]_vars =>
          [\A s \in sessions :
             (\E u \in User : slot[s][u] # None) =>
               s \notin sessions' \/ \E u \in User : slot'[s][u] # None]_vars
    BY NoneLeftEmpty
  <1> QED
    BY <1>1, VoiceHolds, PTL DEF Spec, SessionEndsWithLast
=============================================================================
