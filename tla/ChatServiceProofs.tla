------------------------- MODULE ChatServiceProofs -------------------------
(***************************************************************************)
(* Proofs about the chat service: about ChatGateway, for every set of      *)
(* connections, every capacity and every number of events; about           *)
(* ChatAccess, for all channels, users, groups and checks; and about the   *)
(* two together.                                                           *)
(***************************************************************************)
EXTENDS ChatService, SequenceTheorems, TLAPS

-----------------------------------------------------------------------------
(* The gateway: type correctness.                                          *)

\* A control frame and a numbered frame are frames.
LEMMA FrameType ==
    /\ \A op \in {"hello", "ready", "resumed", "invalid", "close"} :
         \A sid \in Conn \cup {None} : Ctl(op, sid) \in Frame
    /\ \A n \in Nat, e \in 1..MaxPublish : EventFrame(n, e) \in Frame
BY DEF Ctl, EventFrame, Frame, ControlFrame, NumberedFrame

\* What replay_from hands to the replay loop is a sequence of frames.
LEMMA ReplayType ==
    ASSUME NEW s \in Conn, events[s] \in Seq(Numbered),
           NEW n \in 0..Len(events[s]), NEW pos \in [1..n -> 1..Len(events[s])]
    PROVE  ReplayFrames(s, pos) \in Seq(Frame)
  <1>1. \A i \in 1..n : events[s][pos[i]] \in Numbered
    BY ElementOfSeq
  <1>2. n \in Nat /\ DOMAIN pos = 1..n
    OBVIOUS
  <1>3. ReplayFrames(s, pos) \in [1..n -> Frame]
    BY <1>1, <1>2, FrameType DEF ReplayFrames, Numbered
  <1> QED
    BY <1>2, <1>3, SeqDef

\* The initial state has the types.
LEMMA TypeInit == Init => TypeOK
  BY NoneAssumption, CapAssumption
  DEF Init, TypeOK, HandlerState, OverCapacity, Bytes, SessionOrNone, Command, NoCommand

\* The commands and the states of a handler, as the actions below need them.
LEMMA CommandType == /\ NoCommand \in Command
                     /\ \A sid \in Conn \cup {None}, n \in Nat :
                          [op |-> "resume", sid |-> sid, seq |-> n] \in Command
                     /\ [op |-> "identify", sid |-> None, seq |-> 0] \in Command
BY DEF NoCommand, Command

\* Taking a frame from the wire leaves frames on it, and the frame is one.
LEMMA TakesType ==
    ASSUME TypeOK, NEW op, Takes(op)
    PROVE  /\ out' \in [Conn -> Seq(Frame)]
           /\ Head(out[ws]) \in Frame
           /\ ws \in Conn
BY DEF TypeOK, Takes, SessionOrNone

\* Whatever is sent on a connection, its queue stays a sequence of frames.
LEMMA SentType ==
    ASSUME TypeOK, NEW c \in Conn, NEW frames \in Seq(Frame), Sent(c, frames)
    PROVE  out' \in [Conn -> Seq(Frame)]
BY DEF TypeOK, Sent

\* A handler that returns keeps the types of what it touches.
LEMMA ReturnsType ==
    ASSUME TypeOK, NEW c \in Conn, NEW frames \in Seq(Frame), Returns(c, frames)
    PROVE  /\ out' \in [Conn -> Seq(Frame)]
           /\ pc' \in [Conn -> HandlerState]
           /\ inbox' \in [Conn -> Seq(1..MaxPublish)]
           /\ tosend' \in [Conn -> Seq(Frame)]
  <1>1. Append(frames, Ctl("close", None)) \in Seq(Frame)
    BY FrameType
  <1>2. out' \in [Conn -> Seq(Frame)]
    BY <1>1, SentType DEF Returns
  <1>3. pc' \in [Conn -> HandlerState]
    BY DEF Returns, TypeOK, HandlerState
  <1>4. inbox' \in [Conn -> Seq(1..MaxPublish)] /\ tosend' \in [Conn -> Seq(Frame)]
    BY DEF Returns, TypeOK
  <1> QED
    BY <1>2, <1>3, <1>4

\* A refused authentication keeps the types (send_invalid_session).
LEMMA RejectType ==
    ASSUME TypeOK, NEW c \in Conn, Reject(c)
    PROVE  TypeOK'
  <1>1. <<Ctl("invalid", None)>> \in Seq(Frame)
    BY FrameType
  <1>2. Returns(c, <<Ctl("invalid", None)>>)
    BY DEF Reject
  <1>3. /\ out' \in [Conn -> Seq(Frame)]
        /\ pc' \in [Conn -> HandlerState]
        /\ inbox' \in [Conn -> Seq(1..MaxPublish)]
        /\ tosend' \in [Conn -> Seq(Frame)]
    BY <1>1, <1>2, ReturnsType
  <1> QED
    BY <1>3, CommandType DEF Reject, TypeOK, sessionVars, clientVars

\* The eviction loop always finds a suffix that fits, at the latest the empty
\* one, and the suffix is again a buffer within its capacities.
LEMMA PushType ==
    ASSUME TypeOK, NEW s \in Conn, NEW n \in Nat, NEW e \in 1..MaxPublish,
           Push(s, n, e)
    PROVE  /\ events' \in [Conn -> Seq(Numbered)]
           /\ \A t \in Conn : ~OverCapacity(events'[t])
           /\ lastSeq' \in [Conn -> Nat]
           /\ log' \in [Conn -> Seq(1..MaxPublish)]
  <1> DEFINE b == Append(events[s], [s |-> n, e |-> e])
  <1>1. b \in Seq(Numbered)
    <2>1. events[s] \in Seq(Numbered) /\ [s |-> n, e |-> e] \in Numbered
      BY DEF TypeOK, Numbered
    <2> QED
      BY <2>1, AppendProperties
  <1>2. PICK k \in 1..(Len(b) + 1) :
          /\ Evicted(b, k)
          /\ events' = [events EXCEPT ![s] = SubSeq(b, k, Len(b))]
    BY DEF Push
  <1>3. SubSeq(b, k, Len(b)) \in Seq(Numbered)
    BY <1>1, SubSeqProperties
  <1>4. ~OverCapacity(SubSeq(b, k, Len(b)))
    BY <1>2 DEF Evicted
  <1> HIDE DEF b
  <1>5. events' \in [Conn -> Seq(Numbered)]
    BY <1>2, <1>3 DEF TypeOK
  <1>6. \A t \in Conn : ~OverCapacity(events'[t])
    BY <1>2, <1>4 DEF TypeOK
  <1>7. lastSeq' \in [Conn -> Nat] /\ log' \in [Conn -> Seq(1..MaxPublish)]
    BY DEF TypeOK, Push
  <1> QED
    BY <1>5, <1>6, <1>7

\* The actions of NATS, the client, the reaper and the process keep the types.
LEMMA TypeEnvironment ==
    ASSUME TypeOK,
           \/ Publish \/ ConnectionLost \/ Disconnect \/ Receive \/ Reap \/ Restart
           \/ \E c \in Conn : Connect(c) \/ Reconnect(c)
           \/ \E s \in Conn : TtlElapses(s)
    PROVE  TypeOK'
  <1>1. CASE Publish
    <2>1. published + 1 \in 1..MaxPublish /\ published' \in 0..MaxPublish
      BY <1>1, CapAssumption DEF Publish, TypeOK
    <2>2. \A c \in Conn : /\ inbox[c] \in Seq(1..MaxPublish)
                          /\ Append(inbox[c], published + 1) \in Seq(1..MaxPublish)
      BY <2>1, AppendProperties DEF TypeOK
    <2>3. inbox' \in [Conn -> Seq(1..MaxPublish)]
      BY <1>1, <2>2 DEF Publish
    <2> QED
      BY <1>1, <2>1, <2>3 DEF Publish, TypeOK, sessionVars, clientVars
  <1>2. CASE ConnectionLost
    <2>1. /\ up' \in [Conn -> BOOLEAN] /\ ws' \in SessionOrNone
          /\ cst' = "reconnecting"
      BY <1>2 DEF ConnectionLost, TypeOK, SessionOrNone
    <2> QED
      BY <1>2, <2>1 DEF ConnectionLost, TypeOK, sessionVars, handlerVars
  <1>3. CASE Disconnect
    <2>1. /\ up' \in [Conn -> BOOLEAN]
          /\ ws' \in SessionOrNone /\ sessionId' \in SessionOrNone
          /\ cst' = "disconnected" /\ clientSeq' = 0 /\ got' \in Seq(1..MaxPublish)
      BY <1>3 DEF Disconnect, TypeOK, SessionOrNone
    <2> QED
      BY <1>3, <2>1 DEF Disconnect, TypeOK, sessionVars, handlerVars
  <1>4. CASE Receive
    <2> USE DEF SessionOrNone, sessionVars
    <2>1. CASE HandleHello
      <3>1. out' \in [Conn -> Seq(Frame)] /\ ws \in Conn
        BY <2>1, TakesType DEF HandleHello
      <3>2. [op |-> "resume", sid |-> sessionId, seq |-> clientSeq] \in Command
        BY CommandType DEF TypeOK
      <3>3. cmd' \in [Conn -> Command]
        BY <2>1, <3>1, <3>2, CommandType DEF HandleHello, TypeOK
      <3> QED
        BY <2>1, <3>1, <3>3 DEF HandleHello, TypeOK
    <2>2. CASE HandleReady
      <3>1. out' \in [Conn -> Seq(Frame)] /\ Head(out[ws]) \in Frame
        BY <2>2, TakesType DEF HandleReady
      <3>2. Head(out[ws]).sid \in SessionOrNone
        BY <3>1 DEF Frame, ControlFrame, NumberedFrame
      <3>3. sessionId' \in SessionOrNone /\ got' \in Seq(1..MaxPublish)
        BY <2>2, <3>2 DEF HandleReady
      <3> QED
        BY <2>2, <3>1, <3>3 DEF HandleReady, TypeOK
    <2>3. CASE HandleResumed
      BY <2>3, TakesType DEF HandleResumed, TypeOK
    <2>4. CASE HandleDispatch
      <3>1. out' \in [Conn -> Seq(Frame)] /\ Head(out[ws]) \in Frame
        BY <2>4, TakesType DEF HandleDispatch
      <3>2. Head(out[ws]) \in NumberedFrame
        BY <2>4, <3>1 DEF HandleDispatch, Takes, Frame, ControlFrame
      <3>3. clientSeq' \in Nat /\ Head(out[ws]).e \in 1..MaxPublish
        BY <2>4, <3>2 DEF HandleDispatch, NumberedFrame
      <3>4. got' \in Seq(1..MaxPublish)
        BY <2>4, <3>3, AppendProperties DEF HandleDispatch, TypeOK
      <3> QED
        BY <2>4, <3>1, <3>3, <3>4 DEF HandleDispatch, TypeOK
    <2>5. CASE HandleInvalid
      <3>1. out' \in [Conn -> Seq(Frame)]
        BY <2>5, TakesType DEF HandleInvalid
      <3>2. /\ sessionId' \in SessionOrNone /\ clientSeq' \in Nat
            /\ got' \in Seq(1..MaxPublish)
        BY <2>5 DEF HandleInvalid
      <3> QED
        BY <2>5, <3>1, <3>2 DEF HandleInvalid, TypeOK
    <2>6. CASE HandleClose
      BY <2>6, TakesType DEF HandleClose, TypeOK
    <2> QED
      BY <1>4, <2>1, <2>2, <2>3, <2>4, <2>5, <2>6 DEF Receive
  <1>5. CASE Reap
    BY <1>5 DEF Reap, TypeOK, handlerVars, clientVars
  <1>6. CASE Restart
    <2>1. /\ store' \in SUBSET Conn
          /\ pc' \in [Conn -> HandlerState]
          /\ writer' \in [Conn -> BOOLEAN] /\ up' \in [Conn -> BOOLEAN]
      BY <1>6 DEF Restart, TypeOK, HandlerState
    <2>2. /\ out' \in [Conn -> Seq(Frame)] /\ tosend' \in [Conn -> Seq(Frame)]
          /\ inbox' \in [Conn -> Seq(1..MaxPublish)]
      BY <1>6 DEF Restart
    <2>3. /\ ws' \in SessionOrNone
          /\ cst' \in {"disconnected", "connecting", "identifying", "resuming",
                       "connected", "reconnecting"}
      BY <1>6 DEF Restart, TypeOK, SessionOrNone
    <2> QED
      BY <1>6, <2>1, <2>2, <2>3 DEF Restart, TypeOK
  <1>7. CASE \E c \in Conn : Connect(c) \/ Reconnect(c)
    <2>1. PICK c \in Conn : OpenWebSocket(c)
      BY <1>7 DEF Connect, Reconnect
    <2>2. out' \in [Conn -> Seq(Frame)]
      BY <2>1, FrameType DEF OpenWebSocket, TypeOK
    <2>3. pc' \in [Conn -> HandlerState]
      BY <2>1 DEF OpenWebSocket, TypeOK, HandlerState, Handling
    <2>4. /\ ws' \in SessionOrNone
          /\ up' \in [Conn -> BOOLEAN] /\ writer' \in [Conn -> BOOLEAN]
          /\ cst' \in {"disconnected", "connecting", "identifying", "resuming",
                       "connected", "reconnecting"}
      BY <2>1 DEF OpenWebSocket, TypeOK, SessionOrNone
    <2> QED
      BY <2>1, <2>2, <2>3, <2>4 DEF OpenWebSocket, TypeOK, sessionVars
  <1>8. CASE \E s \in Conn : TtlElapses(s)
    BY <1>8 DEF TtlElapses, TypeOK, handlerVars, clientVars
  <1> QED
    BY <1>1, <1>2, <1>3, <1>4, <1>5, <1>6, <1>7, <1>8

\* A handler past its authentication holds a session, so that it never looks
\* into the state of "no session".
HandlerHasSession ==
    \A c \in Conn : pc[c] \in Handling \ {"auth"} => sess[c] \in Conn

\* Every step keeps a session in the hands of a handler past authentication.
LEMMA HasSessionStep ==
    ASSUME TypeOK, HandlerHasSession, [Next]_vars
    PROVE  HandlerHasSession'
  <1> USE DEF sessionVars, handlerVars, clientVars
  <1> DEFINE Past == Handling \ {"auth"}
  <1>1. CASE UNCHANGED vars
    BY <1>1 DEF vars, HandlerHasSession
  <1>2. CASE Publish \/ ConnectionLost \/ Disconnect \/ Receive \/ Reap
               \/ \E s \in Conn : TtlElapses(s)
    <2>1. pc' = pc /\ sess' = sess
      BY <1>2 DEF Publish, ConnectionLost, Disconnect, Receive, HandleHello, HandleReady,
            HandleResumed, HandleDispatch, HandleInvalid, HandleClose, Reap, TtlElapses
    <2> QED
      BY <2>1 DEF HandlerHasSession
  <1>3. CASE Restart
    BY <1>3 DEF Restart, HandlerHasSession, Running, Handling
  <1>4. CASE \E c \in Conn : Connect(c) \/ Reconnect(c)
    <2>1. PICK c \in Conn : /\ pc' = [pc EXCEPT ![c] = "auth"]
                            /\ sess' = sess
      BY <1>4 DEF Connect, Reconnect, OpenWebSocket
    <2> QED
      BY <2>1 DEF HandlerHasSession, TypeOK
  <1>5. CASE \E c \in Conn : Handler(c)
    <2>1. PICK c \in Conn : Handler(c)
      BY <1>5
    <2>2. CASE Identify(c)
      BY <2>2 DEF Identify, Returns, HandlerHasSession, TypeOK, Handling
    <2>3. CASE ResumeLookup(c)
      BY <2>3 DEF ResumeLookup, HandlerHasSession, TypeOK
    <2>4. CASE \/ ResumeReplay(c) \/ MarkConnected(c) \/ ReadLastSeq(c) \/ SendReplay(c)
               \/ Subscribe(c) \/ Dispatch(c) \/ Unblock(c)
      <3>1. /\ sess' = sess /\ pc[c] \in Past
            /\ \A d \in Conn \ {c} : pc'[d] = pc[d]
        <4>1. CASE ResumeReplay(c) \/ MarkConnected(c) \/ ReadLastSeq(c) \/ Subscribe(c)
          BY <4>1 DEF ResumeReplay, MarkConnected, ReadLastSeq, Subscribe, TypeOK, Handling
        <4>2. CASE SendReplay(c)
          BY <4>2 DEF SendReplay, Returns, TypeOK, Handling
        <4>3. CASE Dispatch(c)
          BY <4>3 DEF Dispatch, Cleanup, Returns, TypeOK, Handling
        <4>4. CASE Unblock(c)
          BY <4>4 DEF Unblock, Cleanup, Returns, TypeOK, Handling
        <4> QED
          BY <2>4, <4>1, <4>2, <4>3, <4>4
      <3> QED
        BY <3>1 DEF HandlerHasSession
    <2>5. CASE \/ AuthTimeout(c) \/ IdentifyRejected(c) \/ ResumeNotFound(c) \/ ResumeGap(c)
               \/ SubscribeFails(c) \/ ReadFails(c) \/ HeartbeatTimeout(c)
      <3>1. sess' = sess /\ pc' = [pc EXCEPT ![c] = "done"] /\ "done" \notin Handling
        BY <2>5 DEF AuthTimeout, IdentifyRejected, ResumeNotFound, ResumeGap, Reject,
              SubscribeFails, ReadFails, HeartbeatTimeout, Cleanup, Returns, Handling
      <3> QED
        BY <3>1 DEF HandlerHasSession, TypeOK
    <2>6. CASE WriterFails(c) \/ FrameLost(c)
      BY <2>6 DEF WriterFails, FrameLost, HandlerHasSession
    <2> QED
      BY <2>1, <2>2, <2>3, <2>4, <2>5, <2>6 DEF Handler
  <1> QED
    BY <1>1, <1>2, <1>3, <1>4, <1>5 DEF Next

\* Every step of a connection handler keeps the types.
LEMMA TypeHandler ==
    ASSUME TypeOK, HandlerHasSession, NEW c \in Conn, Handler(c)
    PROVE  TypeOK'
  <1> USE DEF sessionVars, clientVars
  <1>0. /\ pc \in [Conn -> HandlerState]
        /\ \A p \in {"replay", "mark", "lastseq", "sending", "subscribe", "live",
                     "blocked", "done"} : [pc EXCEPT ![c] = p] \in [Conn -> HandlerState]
    BY DEF TypeOK, HandlerState, Handling
  <1>r. ASSUME Returns(c, <<>>)
        PROVE  /\ out' \in [Conn -> Seq(Frame)] /\ pc' \in [Conn -> HandlerState]
               /\ inbox' \in [Conn -> Seq(1..MaxPublish)]
               /\ tosend' \in [Conn -> Seq(Frame)]
    <2>1. <<>> \in Seq(Frame)
      OBVIOUS
    <2> QED
      BY <1>r, <2>1, ReturnsType
  <1>1. CASE AuthTimeout(c) \/ IdentifyRejected(c) \/ ResumeNotFound(c) \/ ResumeGap(c)
    BY <1>1, RejectType DEF AuthTimeout, IdentifyRejected, ResumeNotFound, ResumeGap
  <1>2. CASE Identify(c)
    <2>1. /\ cmd' \in [Conn -> Command]
          /\ store' \in SUBSET Conn
          /\ disc' \in [Conn -> {"connected", "recent", "expired"}]
          /\ sess' \in [Conn -> SessionOrNone]
          /\ seq' \in [Conn -> Nat]
      BY <1>2, CommandType DEF Identify, TypeOK, SessionOrNone
    <2>2. /\ out' \in [Conn -> Seq(Frame)] /\ pc' \in [Conn -> HandlerState]
          /\ inbox' \in [Conn -> Seq(1..MaxPublish)]
          /\ tosend' \in [Conn -> Seq(Frame)]
      <3>1. CASE writer[c]
        <4>1. <<Ctl("ready", c)>> \in Seq(Frame)
          BY FrameType
        <4>2. out' \in [Conn -> Seq(Frame)]
          BY <1>2, <3>1, <4>1, SentType DEF Identify
        <4>3. pc' \in [Conn -> HandlerState]
          BY <1>2, <1>0, <3>1 DEF Identify
        <4>4. inbox' = inbox /\ tosend' = tosend
          BY <1>2, <3>1 DEF Identify
        <4> QED
          BY <4>2, <4>3, <4>4 DEF TypeOK
      <3>2. CASE ~writer[c]
        <4>1. Returns(c, <<>>)
          BY <1>2, <3>2 DEF Identify
        <4> QED
          BY <4>1, <1>r
      <3> QED
        BY <3>1, <3>2
    <2> QED
      BY <1>2, <2>1, <2>2 DEF Identify, TypeOK
  <1>3. CASE ResumeLookup(c)
    <2>1. sess' \in [Conn -> SessionOrNone] /\ pc' \in [Conn -> HandlerState]
      BY <1>0, <1>3 DEF ResumeLookup, TypeOK, SessionOrNone
    <2> QED
      BY <1>3, <2>1 DEF ResumeLookup, TypeOK
  <1>4. CASE ResumeReplay(c)
    <2>0. PICK n \in 0..Len(events[sess[c]]) :
            \E pos \in [1..n -> 1..Len(events[sess[c]])] :
              tosend' = [tosend EXCEPT ![c] = ReplayFrames(sess[c], pos)]
      BY <1>4 DEF ResumeReplay
    <2>1. PICK pos \in [1..n -> 1..Len(events[sess[c]])] :
            tosend' = [tosend EXCEPT ![c] = ReplayFrames(sess[c], pos)]
      BY <2>0
    <2>2. sess[c] \in Conn /\ events[sess[c]] \in Seq(Numbered)
      BY <1>4 DEF ResumeReplay, HandlerHasSession, Handling, TypeOK
    <2>3. ReplayFrames(sess[c], pos) \in Seq(Frame)
      BY <2>2, ReplayType
    <2>4. tosend' \in [Conn -> Seq(Frame)]
      BY <2>1, <2>3 DEF TypeOK
    <2>5. cmd' \in [Conn -> Command] /\ pc' \in [Conn -> HandlerState]
      BY <1>0, <1>4, CommandType DEF ResumeReplay, TypeOK
    <2> QED
      BY <1>4, <2>4, <2>5 DEF ResumeReplay, TypeOK
  <1>5. CASE MarkConnected(c)
    <2>1. /\ pc' \in [Conn -> HandlerState]
          /\ disc' \in [Conn -> {"connected", "recent", "expired"}]
      BY <1>0, <1>5 DEF MarkConnected, TypeOK
    <2> QED
      BY <1>5, <2>1 DEF MarkConnected, TypeOK
  <1>6. CASE ReadLastSeq(c)
    <2>1. lastSeq[sess[c]] \in Nat
      BY <1>6 DEF ReadLastSeq, HandlerHasSession, Handling, TypeOK
    <2>2. pc' \in [Conn -> HandlerState] /\ seq' \in [Conn -> Nat]
      BY <1>0, <1>6, <2>1 DEF ReadLastSeq, TypeOK
    <2> QED
      BY <1>6, <2>2 DEF ReadLastSeq, TypeOK
  <1>7. CASE SendReplay(c)
    <2>1. CASE ~writer[c]
      <3>1. Returns(c, <<>>)
        BY <1>7, <2>1 DEF SendReplay
      <3>2. /\ out' \in [Conn -> Seq(Frame)] /\ pc' \in [Conn -> HandlerState]
            /\ inbox' \in [Conn -> Seq(1..MaxPublish)]
            /\ tosend' \in [Conn -> Seq(Frame)]
        BY <3>1, <1>r
      <3> QED
        BY <1>7, <3>2 DEF SendReplay, TypeOK
    <2>2. CASE writer[c] /\ tosend[c] # <<>>
      <3>1. <<Head(tosend[c])>> \in Seq(Frame) /\ Tail(tosend[c]) \in Seq(Frame)
        BY <2>2 DEF TypeOK
      <3>2. out' \in [Conn -> Seq(Frame)]
        BY <1>7, <2>2, <3>1, SentType DEF SendReplay
      <3>3. tosend' \in [Conn -> Seq(Frame)]
        BY <1>7, <2>2, <3>1 DEF SendReplay, TypeOK
      <3> QED
        BY <1>7, <2>2, <3>2, <3>3 DEF SendReplay, TypeOK
    <2>3. CASE writer[c] /\ tosend[c] = <<>>
      <3>1. <<Ctl("resumed", None)>> \in Seq(Frame)
        BY FrameType
      <3>2. out' \in [Conn -> Seq(Frame)]
        BY <1>7, <2>3, <3>1, SentType DEF SendReplay
      <3>3. pc' \in [Conn -> HandlerState]
        BY <1>0, <1>7, <2>3 DEF SendReplay
      <3> QED
        BY <1>7, <2>3, <3>2, <3>3 DEF SendReplay, TypeOK
    <2> QED
      BY <2>1, <2>2, <2>3
  <1>8. CASE Subscribe(c)
    <2>1. pc' \in [Conn -> HandlerState]
      BY <1>0, <1>8 DEF Subscribe, TypeOK
    <2> QED
      BY <1>8, <2>1 DEF Subscribe, TypeOK
  <1>9. CASE SubscribeFails(c)
    <2>1. PICK k \in 0..Len(out[c]) :
            out' = [out EXCEPT ![c] = Append(SubSeq(@, 1, k), Ctl("close", None))]
      BY <1>9 DEF SubscribeFails
    <2>2. out[c] \in Seq(Frame) /\ SubSeq(out[c], 1, k) \in Seq(Frame)
      BY SubSeqProperties DEF TypeOK
    <2>3. out' \in [Conn -> Seq(Frame)]
      BY <2>1, <2>2, FrameType DEF TypeOK
    <2>4. pc' \in [Conn -> HandlerState]
      BY <1>0, <1>9 DEF SubscribeFails
    <2> QED
      BY <1>9, <2>3, <2>4 DEF SubscribeFails, TypeOK
  <1>10. CASE Dispatch(c)
    <2> DEFINE n == seq[c] + 1
               e == Head(inbox[c])
    <2>0. inbox[c] \in Seq(1..MaxPublish) /\ inbox[c] # <<>> /\ seq[c] \in Nat
      BY <1>10 DEF Dispatch, TypeOK
    <2>1. n \in Nat /\ e \in 1..MaxPublish /\ Tail(inbox[c]) \in Seq(1..MaxPublish)
      <3>1. n \in Nat
        BY <2>0
      <3>2. \A q \in Seq(1..MaxPublish) :
              q # <<>> => Head(q) \in 1..MaxPublish /\ Tail(q) \in Seq(1..MaxPublish)
        BY HeadTailProperties
      <3> QED
        BY <2>0, <3>1, <3>2
    <2>2. sess[c] \in Conn
      BY <1>10 DEF Dispatch, HandlerHasSession, Handling
    <2>3. Push(sess[c], n, e)
      BY <1>10 DEF Dispatch
    <2>4. /\ events' \in [Conn -> Seq(Numbered)]
          /\ \A t \in Conn : ~OverCapacity(events'[t])
          /\ lastSeq' \in [Conn -> Nat]
          /\ log' \in [Conn -> Seq(1..MaxPublish)]
      <3> HIDE DEF n, e
      <3> QED BY <2>1, <2>2, <2>3, PushType
    <2>5. <<EventFrame(n, e)>> \in Seq(Frame)
      BY <2>1, FrameType
    <2>6. /\ out' \in [Conn -> Seq(Frame)] /\ pc' \in [Conn -> HandlerState]
          /\ inbox' \in [Conn -> Seq(1..MaxPublish)]
          /\ tosend' \in [Conn -> Seq(Frame)]
          /\ disc' \in [Conn -> {"connected", "recent", "expired"}]
      <3>1. CASE /\ Sent(c, <<EventFrame(n, e)>>)
                 /\ inbox' = [inbox EXCEPT ![c] = Tail(@)]
                 /\ UNCHANGED <<pc, tosend, disc>>
        <4>1. out' \in [Conn -> Seq(Frame)]
          BY <3>1, <2>5, SentType
        <4>2. inbox' \in [Conn -> Seq(1..MaxPublish)]
          BY <3>1, <2>1 DEF TypeOK
        <4> QED
          BY <3>1, <4>1, <4>2 DEF TypeOK
      <3>2. CASE /\ pc' = [pc EXCEPT ![c] = "blocked"]
                 /\ tosend' = [tosend EXCEPT ![c] = <<EventFrame(n, e)>>]
                 /\ inbox' = [inbox EXCEPT ![c] = Tail(@)]
                 /\ UNCHANGED <<out, disc>>
        <4>1. tosend' \in [Conn -> Seq(Frame)]
          BY <3>2, <2>5 DEF TypeOK
        <4>2. inbox' \in [Conn -> Seq(1..MaxPublish)]
          BY <3>2, <2>1 DEF TypeOK
        <4> QED
          BY <3>2, <1>0, <4>1, <4>2 DEF TypeOK
      <3>3. CASE Cleanup(c)
        <4>1. Returns(c, <<>>)
          BY <3>3 DEF Cleanup
        <4> QED
          BY <3>3, <4>1, <1>r DEF Cleanup, TypeOK
      <3> QED
        BY <1>10, <3>1, <3>2, <3>3 DEF Dispatch
    <2>7. seq' \in [Conn -> Nat]
      BY <1>10, <2>1 DEF Dispatch, TypeOK
    <2> QED
      BY <1>10, <2>4, <2>6, <2>7 DEF Dispatch, TypeOK
  <1>11. CASE Unblock(c)
    <2>1. CASE writer[c]
      <3>1. out' \in [Conn -> Seq(Frame)]
        BY <1>11, <2>1, SentType DEF Unblock, TypeOK
      <3>2. pc' \in [Conn -> HandlerState]
        BY <1>0, <1>11, <2>1 DEF Unblock
      <3>3. tosend' \in [Conn -> Seq(Frame)]
        <4>1. tosend' = [tosend EXCEPT ![c] = <<>>]
          BY <1>11, <2>1 DEF Unblock
        <4>2. <<>> \in Seq(Frame) /\ tosend \in [Conn -> Seq(Frame)]
          BY DEF TypeOK
        <4> QED
          BY <4>1, <4>2
      <3> QED
        BY <1>11, <2>1, <3>1, <3>2, <3>3 DEF Unblock, TypeOK
    <2>2. CASE ~writer[c]
      <3>1. Returns(c, <<>>) /\ disc' = [disc EXCEPT ![sess[c]] = "recent"]
        BY <1>11, <2>2 DEF Unblock, Cleanup
      <3>2. /\ out' \in [Conn -> Seq(Frame)] /\ pc' \in [Conn -> HandlerState]
            /\ inbox' \in [Conn -> Seq(1..MaxPublish)]
            /\ tosend' \in [Conn -> Seq(Frame)]
            /\ disc' \in [Conn -> {"connected", "recent", "expired"}]
        BY <3>1, <1>r DEF TypeOK
      <3> QED
        BY <1>11, <3>2 DEF Unblock, TypeOK
    <2> QED
      BY <2>1, <2>2
  <1>12. CASE ReadFails(c) \/ HeartbeatTimeout(c)
    <2>1. Returns(c, <<>>) /\ disc' = [disc EXCEPT ![sess[c]] = "recent"]
      BY <1>12 DEF ReadFails, HeartbeatTimeout, Cleanup
    <2>2. /\ out' \in [Conn -> Seq(Frame)] /\ pc' \in [Conn -> HandlerState]
          /\ inbox' \in [Conn -> Seq(1..MaxPublish)]
          /\ tosend' \in [Conn -> Seq(Frame)]
          /\ disc' \in [Conn -> {"connected", "recent", "expired"}]
      BY <2>1, <1>r DEF TypeOK
    <2> QED
      BY <1>12, <2>2 DEF ReadFails, HeartbeatTimeout, TypeOK
  <1>13. CASE WriterFails(c)
    <2>1. out' \in [Conn -> Seq(Frame)] /\ writer' \in [Conn -> BOOLEAN]
      BY <1>13 DEF WriterFails, TypeOK
    <2> QED
      BY <1>13, <2>1 DEF WriterFails, TypeOK
  <1>14. CASE FrameLost(c)
    <2>1. out' \in [Conn -> Seq(Frame)]
      BY <1>14 DEF FrameLost, TypeOK
    <2> QED
      BY <1>14, <2>1 DEF FrameLost, TypeOK
  <1> QED
    BY <1>1, <1>2, <1>3, <1>4, <1>5, <1>6, <1>7, <1>8, <1>9, <1>10, <1>11, <1>12, <1>13, <1>14
    DEF Handler

\* The types are right throughout, also when a handler outlives its connection,
\* and a replay buffer never exceeds MAX_EVENTS or MAX_BYTES (session.rs push).
THEOREM TypeCorrect == Spec => []TypeOK
  <1> DEFINE TypeInv == TypeOK /\ HandlerHasSession
  <1>1. Init => TypeInv
    BY TypeInit DEF Init, HandlerHasSession, Handling
  <1>2. TypeInv /\ [Next]_vars => TypeInv'
    <2> SUFFICES ASSUME TypeInv, [Next]_vars PROVE TypeInv'
      OBVIOUS
    <2>1. CASE UNCHANGED vars
      BY <2>1, HasSessionStep DEF vars, sessionVars, handlerVars, clientVars, TypeOK
    <2>2. CASE Next
      BY <2>2, TypeEnvironment, TypeHandler, HasSessionStep DEF Next
    <2> QED
      BY <2>1, <2>2
  <1>3. TypeInv => TypeOK
    OBVIOUS
  <1> HIDE DEF TypeInv
  <1> QED
    BY <1>1, <1>2, <1>3, PTL DEF Spec

-----------------------------------------------------------------------------
(* The session invariant, for a server that has noticed the end of a       *)
(* client's old connection before the client opens the next one.           *)

Marked == {"lastseq", "sending", "subscribe", "live", "blocked"}
Numbering == {"sending", "subscribe", "live", "blocked"}

\* One handler at a time works for the client ...
OneHandler == \A c, d \in Conn : Running(c) /\ Running(d) => c = d

\* ... a connection that has not authenticated has no session yet ...
FreshConnection ==
    \A c \in Conn : pc[c] \in {"idle", "auth"} =>
      c \notin store /\ log[c] = <<>> /\ \A d \in Conn : sess[d] # c

\* ... a handler's own counter agrees with the session it numbers for ...
SeqInStep == \A c \in Conn : pc[c] \in Numbering => seq[c] = lastSeq[sess[c]]

\* ... and the session it has marked connected stays so.
MarkedIsConnected ==
    \A c \in Conn : pc[c] \in Marked /\ sess[c] \in store
                      => disc[sess[c]] = "connected"

HandlerInv == /\ HandlerHasSession /\ OneHandler /\ FreshConnection
              /\ SeqInStep /\ MarkedIsConnected /\ BufferIsTailOfLog

SessionInv == TypeOK /\ HandlerInv

\* What the eviction leaves of a tail of the log, after the event numbered
\* next was appended to both, is a tail of the log.
LEMMA PushKeepsTail ==
    ASSUME TypeOK, BufferIsTailOfLog, NEW s \in Conn, NEW e \in 1..MaxPublish,
           Push(s, lastSeq[s] + 1, e)
    PROVE  BufferIsTailOfLog'
  <1> DEFINE L == lastSeq[s]
             K == Len(events[s])
             b == Append(events[s], [s |-> L + 1, e |-> e])
             newLog == Append(log[s], e)
  <1>1. /\ events[s] \in Seq(Numbered) /\ log[s] \in Seq(1..MaxPublish)
        /\ L \in Nat /\ K \in Nat /\ K <= L /\ Len(log[s]) = L
    BY DEF TypeOK, BufferIsTailOfLog
  <1>2. \A j \in 1..K : events[s][j] = [s |-> L - K + j, e |-> log[s][L - K + j]]
    BY DEF BufferIsTailOfLog
  <1>3. /\ Len(b) = K + 1 /\ b[K + 1] = [s |-> L + 1, e |-> e]
        /\ \A j \in 1..K : b[j] = events[s][j]
    BY <1>1
  <1>4. /\ Len(newLog) = L + 1 /\ newLog[L + 1] = e
        /\ \A m \in 1..L : newLog[m] = log[s][m]
    BY <1>1
  <1>5. b \in Seq(Numbered)
    <2>1. [s |-> L + 1, e |-> e] \in Numbered
      BY <1>1 DEF Numbered
    <2> QED
      BY <2>1, <1>1, AppendProperties
  <1>6. PICK k \in 1..(Len(b) + 1) :
          events' = [events EXCEPT ![s] = SubSeq(b, k, Len(b))]
    BY DEF Push
  <1>7. /\ lastSeq' = [lastSeq EXCEPT ![s] = L + 1]
        /\ log' = [log EXCEPT ![s] = newLog]
    BY DEF Push
  <1> HIDE DEF b, newLog, L, K
  <1>8. \A j \in 1..(K + 1) : b[j] = [s |-> L - K + j, e |-> newLog[L - K + j]]
    <2> SUFFICES ASSUME NEW j \in 1..(K + 1)
                 PROVE  b[j] = [s |-> L - K + j, e |-> newLog[L - K + j]]
      OBVIOUS
    <2>1. CASE j = K + 1
      <3>1. L - K + j = L + 1
        BY <2>1, <1>1
      <3> QED
        BY <2>1, <3>1, <1>3, <1>4
    <2>2. CASE j \in 1..K
      <3>1. L - K + j \in 1..L
        BY <2>2, <1>1
      <3> QED
        BY <2>2, <3>1, <1>2, <1>3, <1>4
    <2> QED
      BY <2>1, <2>2, <1>1
  <1> DEFINE w == SubSeq(b, k, Len(b))
  <1>9. /\ k \in 1..(K + 2)
        /\ Len(w) = K + 2 - k
        /\ \A i \in 1..(K + 2 - k) : w[i] = b[k + i - 1]
    <2>1. k \in 1..(K + 2)
      BY <1>1, <1>3
    <2>2. k \in 1..(Len(b) + 1) /\ Len(b) \in Nat
      BY <1>1, <1>3
    <2>3. Len(w) = Len(b) - k + 1 /\ \A i \in 1..(Len(b) - k + 1) : w[i] = b[k + i - 1]
      BY <1>5, <2>2, SubSeqProperties
    <2>4. Len(b) - k + 1 = K + 2 - k
      BY <1>1, <1>3, <2>1
    <2> QED
      BY <2>1, <2>3, <2>4
  <1> HIDE DEF w
  <1>10. \A i \in 1..Len(w) : w[i] = [s |-> (L + 1) - Len(w) + i,
                                      e |-> newLog[(L + 1) - Len(w) + i]]
    <2> SUFFICES ASSUME NEW i \in 1..(K + 2 - k)
                 PROVE  w[i] = [s |-> (L + 1) - Len(w) + i,
                                e |-> newLog[(L + 1) - Len(w) + i]]
      BY <1>9
    <2>1. k + i - 1 \in 1..(K + 1)
      BY <1>1, <1>9
    <2>2. L - K + (k + i - 1) = (L + 1) - Len(w) + i
      BY <1>1, <1>9
    <2> QED
      BY <2>1, <2>2, <1>8, <1>9
  <1>11. Len(w) <= L + 1
    BY <1>1, <1>9
  <1>12. /\ events'[s] = w /\ lastSeq'[s] = L + 1 /\ log'[s] = newLog
         /\ \A t \in Conn \ {s} : /\ events'[t] = events[t] /\ log'[t] = log[t]
                                  /\ lastSeq'[t] = lastSeq[t]
    BY <1>6, <1>7 DEF TypeOK, w
  <1>13. ASSUME NEW t \in Conn
         PROVE  /\ lastSeq'[t] = Len(log'[t])
                /\ Len(events'[t]) <= lastSeq'[t]
                /\ \A i \in 1..Len(events'[t]) :
                     events'[t][i] = [s |-> lastSeq'[t] - Len(events'[t]) + i,
                                      e |-> log'[t][lastSeq'[t] - Len(events'[t]) + i]]
    <2>1. CASE t = s
      BY <2>1, <1>4, <1>10, <1>11, <1>12
    <2>2. CASE t # s
      BY <2>2, <1>12 DEF BufferIsTailOfLog
    <2> QED
      BY <2>1, <2>2
  <1> QED
    BY <1>13 DEF BufferIsTailOfLog

-----------------------------------------------------------------------------
(* The steps, sorted by what they do to handlers and sessions.             *)

sessionState == <<events, lastSeq, log>>

\* Nothing happens to a handler or to what it knows, except that sessions may
\* leave the map and a countdown may run in one that is disconnected.
Quiet == /\ UNCHANGED <<pc, sess, seq, sessionState>>
         /\ store' \subseteq store
         /\ \A s \in Conn : disc[s] = "connected" => disc'[s] = "connected"

\* Handler c returns, and may start the countdown of its session.
Leaves(c) == /\ pc[c] \in Handling
             /\ pc' = [pc EXCEPT ![c] = "done"]
             /\ UNCHANGED <<sess, seq, store, sessionState>>
             /\ \/ disc' = disc
                \/ /\ pc[c] # "auth"
                   /\ disc' = [disc EXCEPT ![sess[c]] = "recent"]

\* Handler c goes on from a step p to a step q that asks no more of it.
Advances(c, p, q) == /\ pc[c] = p
                     /\ pc' = [pc EXCEPT ![c] = q]
                     /\ UNCHANGED <<sess, seq, store, disc, sessionState>>
                     /\ p \in Handling \ {"auth"} /\ q \in Handling \ {"auth"}
                     /\ q \in Marked => p \in Marked
                     /\ q \in Numbering => p \in Numbering

\* A step that touches no buffer, number or log keeps the tails.
LEMMA TailUnchanged ==
    ASSUME BufferIsTailOfLog, UNCHANGED sessionState
    PROVE  BufferIsTailOfLog'
BY DEF BufferIsTailOfLog, sessionState

\* Steps that leave handlers alone keep the handler invariant ...
LEMMA QuietStep ==
    ASSUME TypeOK, HandlerInv, Quiet
    PROVE  HandlerInv'
  <1>1. BufferIsTailOfLog'
    BY TailUnchanged DEF HandlerInv, Quiet
  <1>2. OneHandler' /\ HandlerHasSession' /\ FreshConnection'
    BY DEF HandlerInv, Quiet, OneHandler, Running, HandlerHasSession,
           FreshConnection, sessionState
  <1>3. SeqInStep'
    BY DEF HandlerInv, Quiet, SeqInStep, sessionState
  <1>4. MarkedIsConnected'
    BY DEF HandlerInv, Quiet, MarkedIsConnected, TypeOK
  <1> QED
    BY <1>1, <1>2, <1>3, <1>4 DEF HandlerInv

\* ... and so does the return of a handler, on whichever path ...
LEMMA LeaveStep ==
    ASSUME TypeOK, HandlerInv, NEW c \in Conn, Leaves(c)
    PROVE  HandlerInv'
  <1>1. BufferIsTailOfLog'
    BY TailUnchanged DEF HandlerInv, Leaves
  <1>2. /\ pc'[c] = "done" /\ \A d \in Conn \ {c} : pc'[d] = pc[d]
        /\ \A d \in Conn \ {c} : pc[d] \notin Handling
    BY DEF Leaves, TypeOK, HandlerInv, OneHandler, Running
  <1>3. "done" \notin Handling /\ "done" \notin {"idle", "auth"}
        /\ Marked \subseteq Handling /\ Numbering \subseteq Handling
    BY DEF Handling, Marked, Numbering
  <1>4. OneHandler' /\ HandlerHasSession' /\ SeqInStep' /\ MarkedIsConnected'
    BY <1>2, <1>3 DEF OneHandler, Running, HandlerHasSession, SeqInStep, MarkedIsConnected
  <1>5. FreshConnection'
    BY <1>2, <1>3 DEF HandlerInv, Leaves, FreshConnection, sessionState
  <1> QED
    BY <1>1, <1>4, <1>5 DEF HandlerInv

\* ... and a handler that goes on without touching its session.
LEMMA AdvanceStep ==
    ASSUME TypeOK, HandlerInv, NEW c \in Conn, NEW p, NEW q, Advances(c, p, q)
    PROVE  HandlerInv'
  <1>1. BufferIsTailOfLog'
    BY TailUnchanged DEF HandlerInv, Advances
  <1>2. pc'[c] = q /\ \A d \in Conn \ {c} : pc'[d] = pc[d]
    BY DEF Advances, TypeOK
  <1>3. q \notin {"idle", "auth"}
    BY DEF Advances, Handling
  <1>4. OneHandler' /\ HandlerHasSession'
    BY <1>2 DEF HandlerInv, Advances, OneHandler, Running, HandlerHasSession
  <1>5. SeqInStep' /\ MarkedIsConnected'
    BY <1>2 DEF HandlerInv, Advances, SeqInStep, MarkedIsConnected, sessionState
  <1>6. FreshConnection'
    BY <1>2, <1>3 DEF HandlerInv, Advances, FreshConnection, sessionState
  <1> QED
    BY <1>1, <1>4, <1>5, <1>6 DEF HandlerInv

\* The initial state satisfies the session invariant.
LEMMA InvInit == Init => SessionInv
  <1> SUFFICES ASSUME Init PROVE SessionInv
    OBVIOUS
  <1>1. TypeOK
    BY TypeInit
  <1>2. HandlerHasSession /\ OneHandler /\ FreshConnection /\ SeqInStep /\ MarkedIsConnected
    BY NoneAssumption
    DEF Init, Handling, Running, Marked, Numbering, HandlerHasSession, OneHandler,
        FreshConnection, SeqInStep, MarkedIsConnected
  <1>3. BufferIsTailOfLog
    BY DEF Init, BufferIsTailOfLog
  <1> QED
    BY <1>1, <1>2, <1>3 DEF SessionInv, HandlerInv

\* The steps that no handler takes.
LEMMA InvEnvironment ==
    ASSUME HalfOpen = FALSE, SessionInv,
           \/ Publish \/ ConnectionLost \/ Disconnect \/ Receive \/ Reap \/ Restart
           \/ \E c \in Conn : Connect(c) \/ Reconnect(c)
           \/ \E s \in Conn : TtlElapses(s)
    PROVE  HandlerInv'
  <1> USE DEF SessionInv, sessionVars, handlerVars, clientVars, sessionState
  <1>1. CASE Publish \/ ConnectionLost \/ Disconnect
    <2>1. Quiet
      BY <1>1 DEF Quiet, Publish, ConnectionLost, Disconnect
    <2> QED
      BY <2>1, QuietStep
  <1>2. CASE Receive
    <2>1. Quiet
      BY <1>2 DEF Quiet, Receive, HandleHello, HandleReady, HandleResumed,
                  HandleDispatch, HandleInvalid, HandleClose
    <2> QED
      BY <2>1, QuietStep
  <1>3. CASE Reap
    <2>1. Quiet
      BY <1>3 DEF Quiet, Reap
    <2> QED
      BY <2>1, QuietStep
  <1>4. CASE \E s \in Conn : TtlElapses(s)
    <2>1. Quiet
      BY <1>4 DEF Quiet, TtlElapses, TypeOK
    <2> QED
      BY <2>1, QuietStep
  <1>5. CASE Restart
    <2>1. BufferIsTailOfLog'
      BY <1>5, TailUnchanged DEF HandlerInv, Restart
    <2>2. store' = {} /\ \A c \in Conn : /\ pc'[c] \notin Handling
                                         /\ pc'[c] = "done" \/ pc'[c] = pc[c]
      BY <1>5 DEF Restart, Running, Handling
    <2>3. Marked \subseteq Handling /\ Numbering \subseteq Handling
      BY DEF Marked, Numbering, Handling
    <2>4. OneHandler' /\ HandlerHasSession' /\ SeqInStep' /\ MarkedIsConnected'
      BY <2>2, <2>3
      DEF OneHandler, Running, HandlerHasSession, SeqInStep, MarkedIsConnected
    <2>5. FreshConnection'
      BY <1>5, <2>2 DEF HandlerInv, FreshConnection, Restart
    <2> QED
      BY <2>1, <2>4, <2>5 DEF HandlerInv
  <1>6. CASE \E c \in Conn : Connect(c) \/ Reconnect(c)
    <2>1. PICK c \in Conn : OpenWebSocket(c)
      BY <1>6 DEF Connect, Reconnect
    <2>2. BufferIsTailOfLog'
      BY <2>1, TailUnchanged DEF HandlerInv, OpenWebSocket
    <2>3. /\ pc'[c] = "auth" /\ pc[c] = "idle"
          /\ \A d \in Conn \ {c} : pc'[d] = pc[d]
          /\ \A d \in Conn : pc[d] \notin Handling
      BY <2>1 DEF OpenWebSocket, TypeOK, Running
    <2>4. Marked \subseteq Handling \ {"auth"} /\ Numbering \subseteq Handling \ {"auth"}
      BY DEF Marked, Numbering, Handling
    <2>5. OneHandler' /\ HandlerHasSession' /\ SeqInStep' /\ MarkedIsConnected'
      BY <2>3, <2>4
      DEF OneHandler, Running, HandlerHasSession, SeqInStep, MarkedIsConnected
    <2>6. FreshConnection'
      BY <2>1, <2>3 DEF HandlerInv, FreshConnection, OpenWebSocket
    <2> QED
      BY <2>2, <2>5, <2>6 DEF HandlerInv
  <1> QED
    BY <1>1, <1>2, <1>3, <1>4, <1>5, <1>6

\* The steps of a handler.
LEMMA InvHandler ==
    ASSUME SessionInv, NEW c \in Conn, Handler(c)
    PROVE  HandlerInv'
  <1> USE DEF SessionInv, sessionVars, handlerVars, clientVars, sessionState
  <1>0. Running(c) => \A d \in Conn \ {c} : pc[d] \notin Handling
    BY DEF HandlerInv, OneHandler, Running
  <1>m. Marked \subseteq Handling \ {"auth"} /\ Numbering \subseteq Marked
    BY DEF Marked, Numbering, Handling
  <1>1. CASE AuthTimeout(c) \/ IdentifyRejected(c) \/ ResumeNotFound(c) \/ ResumeGap(c)
    <2>1. Leaves(c)
      BY <1>1 DEF AuthTimeout, IdentifyRejected, ResumeNotFound, ResumeGap, Reject,
                  Returns, Leaves, Handling
    <2> QED
      BY <2>1, LeaveStep
  <1>2. CASE Identify(c)
    <2>1. /\ pc[c] = "auth" /\ sess'[c] = c /\ seq'[c] = 0 /\ disc'[c] = "connected"
          /\ \A d \in Conn \ {c} : pc'[d] = pc[d] /\ sess'[d] = sess[d] /\ seq'[d] = seq[d]
          /\ store' = store \cup {c}
          /\ UNCHANGED sessionState
      BY <1>2 DEF Identify, Returns, TypeOK
    <2>2. pc'[c] \in {"subscribe", "done"}
      BY <1>2 DEF Identify, Returns, TypeOK
    <2>3. /\ \A d \in Conn \ {c} : pc'[d] \notin Handling
          /\ pc'[c] \notin {"idle", "auth"}
      BY <1>0, <2>1, <2>2 DEF Running, Handling
    <2>4. BufferIsTailOfLog'
      BY <2>1, TailUnchanged DEF HandlerInv
    <2>5. lastSeq'[c] = 0
      BY <2>1 DEF HandlerInv, FreshConnection, BufferIsTailOfLog
    <2>6. OneHandler' /\ HandlerHasSession' /\ SeqInStep' /\ MarkedIsConnected'
      BY <1>m, <2>1, <2>3, <2>5
      DEF OneHandler, Running, HandlerHasSession, SeqInStep, MarkedIsConnected
    <2>7. FreshConnection'
      BY <2>1, <2>3 DEF HandlerInv, FreshConnection
    <2> QED
      BY <2>4, <2>6, <2>7 DEF HandlerInv
  <1>3. CASE ResumeLookup(c)
    <2>1. /\ pc[c] = "auth" /\ pc'[c] = "replay"
          /\ sess'[c] \in store /\ sess'[c] \in Conn
          /\ \A d \in Conn \ {c} : pc'[d] = pc[d] /\ sess'[d] = sess[d]
          /\ UNCHANGED <<store, disc, seq, sessionState>>
      BY <1>3 DEF ResumeLookup, TypeOK
    <2>2. /\ "replay" \in Handling \ {"auth"} /\ "replay" \notin Marked
          /\ \A d \in Conn \ {c} : pc'[d] \notin Handling
      BY <1>0, <2>1 DEF Running, Handling, Marked
    <2>3. BufferIsTailOfLog'
      BY <2>1, TailUnchanged DEF HandlerInv
    <2>4. OneHandler' /\ HandlerHasSession' /\ SeqInStep' /\ MarkedIsConnected'
      BY <1>m, <2>1, <2>2
      DEF OneHandler, Running, HandlerHasSession, SeqInStep, MarkedIsConnected
    <2>5. FreshConnection'
      BY <2>1 DEF HandlerInv, FreshConnection
    <2> QED
      BY <2>3, <2>4, <2>5 DEF HandlerInv
  <1>4. CASE ResumeReplay(c)
    <2>1. Advances(c, "replay", "mark")
      BY <1>4 DEF ResumeReplay, Advances, Handling, Marked, Numbering
    <2> QED
      BY <2>1, AdvanceStep
  <1>5. CASE MarkConnected(c)
    <2>1. /\ pc[c] = "mark" /\ pc'[c] = "lastseq"
          /\ disc' = [disc EXCEPT ![sess[c]] = "connected"]
          /\ \A d \in Conn \ {c} : pc'[d] = pc[d]
          /\ UNCHANGED <<store, sess, seq, sessionState>>
      BY <1>5 DEF MarkConnected, TypeOK
    <2>2. /\ "mark" \in Handling \ {"auth"} /\ "lastseq" \in Handling \ {"auth"}
          /\ "lastseq" \notin Numbering
          /\ \A d \in Conn \ {c} : pc'[d] \notin Handling
      BY <1>0, <2>1 DEF Running, Handling, Numbering
    <2>3. BufferIsTailOfLog'
      BY <2>1, TailUnchanged DEF HandlerInv
    <2>4. sess[c] \in Conn /\ disc'[sess[c]] = "connected"
      BY <2>1, <2>2 DEF HandlerInv, HandlerHasSession, TypeOK
    <2>5. OneHandler' /\ HandlerHasSession' /\ SeqInStep' /\ MarkedIsConnected'
      BY <1>m, <2>1, <2>2, <2>4
      DEF OneHandler, Running, HandlerHasSession, SeqInStep, MarkedIsConnected
    <2>6. FreshConnection'
      BY <2>1 DEF HandlerInv, FreshConnection
    <2> QED
      BY <2>3, <2>5, <2>6 DEF HandlerInv
  <1>6. CASE ReadLastSeq(c)
    <2>1. /\ pc[c] = "lastseq" /\ pc'[c] = "sending" /\ seq'[c] = lastSeq[sess[c]]
          /\ \A d \in Conn \ {c} : pc'[d] = pc[d] /\ seq'[d] = seq[d]
          /\ UNCHANGED <<store, disc, sess, sessionState>>
      BY <1>6 DEF ReadLastSeq, TypeOK
    <2>2. /\ "lastseq" \in Marked /\ "sending" \in Handling \ {"auth"}
          /\ \A d \in Conn \ {c} : pc'[d] \notin Handling
      BY <1>0, <2>1 DEF Running, Handling, Marked
    <2>3. BufferIsTailOfLog'
      BY <2>1, TailUnchanged DEF HandlerInv
    <2>4. HandlerHasSession' /\ OneHandler' /\ SeqInStep'
      BY <1>m, <2>1, <2>2
      DEF HandlerInv, OneHandler, Running, HandlerHasSession, SeqInStep
    <2>5. MarkedIsConnected'
      BY <1>m, <2>1, <2>2 DEF HandlerInv, MarkedIsConnected
    <2>6. FreshConnection'
      BY <2>1 DEF HandlerInv, FreshConnection
    <2> QED
      BY <2>3, <2>4, <2>5, <2>6 DEF HandlerInv
  <1>7. CASE SendReplay(c)
    <2>1. CASE ~writer[c]
      <3>1. Leaves(c)
        BY <1>7, <2>1 DEF SendReplay, Returns, Leaves, Handling
      <3> QED
        BY <3>1, LeaveStep
    <2>2. CASE writer[c] /\ tosend[c] # <<>>
      <3>1. Quiet
        BY <1>7, <2>2 DEF SendReplay, Quiet
      <3> QED
        BY <3>1, QuietStep
    <2>3. CASE writer[c] /\ tosend[c] = <<>>
      <3>1. Advances(c, "sending", "subscribe")
        BY <1>7, <2>3 DEF SendReplay, Advances, Handling, Marked, Numbering
      <3> QED
        BY <3>1, AdvanceStep
    <2> QED
      BY <2>1, <2>2, <2>3
  <1>8. CASE Subscribe(c)
    <2>1. Advances(c, "subscribe", "live")
      BY <1>8 DEF Subscribe, Advances, Handling, Marked, Numbering
    <2> QED
      BY <2>1, AdvanceStep
  <1>9. CASE SubscribeFails(c)
    <2>1. Leaves(c)
      BY <1>9 DEF SubscribeFails, Leaves, Handling
    <2> QED
      BY <2>1, LeaveStep
  <1>10. CASE Dispatch(c)
    <2> DEFINE n == lastSeq[sess[c]] + 1
               e == Head(inbox[c])
    <2>1. pc[c] = "live" /\ inbox[c] # <<>> /\ "live" \in Numbering
      BY <1>10 DEF Dispatch, Numbering
    <2>2. sess[c] \in Conn /\ seq[c] = lastSeq[sess[c]]
      BY <1>m, <2>1 DEF HandlerInv, HandlerHasSession, SeqInStep
    <2>3. e \in 1..MaxPublish
      <3>1. inbox[c] \in Seq(1..MaxPublish)
        BY DEF TypeOK
      <3>2. \A q \in Seq(1..MaxPublish) : q # <<>> => Head(q) \in 1..MaxPublish
        BY HeadTailProperties
      <3> QED
        BY <2>1, <3>1, <3>2
    <2>4. Push(sess[c], n, e) /\ seq' = [seq EXCEPT ![c] = n]
      BY <1>10, <2>2 DEF Dispatch
    <2>5. BufferIsTailOfLog'
      BY <2>2, <2>3, <2>4, PushKeepsTail DEF HandlerInv
    <2>6. /\ UNCHANGED <<store, sess>>
          /\ \A d \in Conn \ {c} : pc'[d] = pc[d]
          /\ \/ pc'[c] \in {"live", "blocked"} /\ disc' = disc
             \/ pc'[c] = "done"
      BY <1>10, <2>1 DEF Dispatch, Cleanup, Returns, TypeOK
    <2>7. seq'[c] = n /\ lastSeq'[sess[c]] = n
      BY <2>2, <2>4 DEF Push, TypeOK
    <2>8. \A s \in Conn \ {sess[c]} : log'[s] = log[s]
      BY <2>4 DEF Push, TypeOK
    <2>9. /\ "live" \in Handling \ {"auth"} /\ "live" \in Marked
          /\ {"live", "blocked"} \subseteq Handling \ {"auth"}
          /\ "done" \notin Handling /\ "done" \notin {"idle", "auth"}
          /\ \A d \in Conn \ {c} : pc'[d] \notin Handling
      BY <1>0, <2>1, <2>6 DEF Running, Handling, Marked
    <2>10. OneHandler' /\ HandlerHasSession' /\ SeqInStep'
      BY <1>m, <2>2, <2>6, <2>7, <2>9 DEF OneHandler, Running, HandlerHasSession, SeqInStep
    <2>11. MarkedIsConnected'
      BY <1>m, <2>1, <2>6, <2>9 DEF HandlerInv, MarkedIsConnected
    <2>12. FreshConnection'
      <3>1. \A d \in Conn : pc'[d] \in {"idle", "auth"} => /\ pc[d] \in {"idle", "auth"}
                                                           /\ d # sess[c]
        BY <2>6, <2>9, <2>1 DEF HandlerInv, FreshConnection
      <3> QED
        BY <2>6, <2>8, <3>1 DEF HandlerInv, FreshConnection
    <2> QED
      BY <2>5, <2>10, <2>11, <2>12 DEF HandlerInv
  <1>11. CASE Unblock(c)
    <2>1. CASE writer[c]
      <3>1. Advances(c, "blocked", "live")
        BY <1>11, <2>1 DEF Unblock, Advances, Handling, Marked, Numbering
      <3> QED
        BY <3>1, AdvanceStep
    <2>2. CASE ~writer[c]
      <3>1. Leaves(c)
        BY <1>11, <2>2 DEF Unblock, Cleanup, Returns, Leaves, Handling
      <3> QED
        BY <3>1, LeaveStep
    <2> QED
      BY <2>1, <2>2
  <1>12. CASE ReadFails(c) \/ HeartbeatTimeout(c)
    <2>1. Leaves(c)
      BY <1>12 DEF ReadFails, HeartbeatTimeout, Cleanup, Returns, Leaves, Handling
    <2> QED
      BY <2>1, LeaveStep
  <1>13. CASE WriterFails(c) \/ FrameLost(c)
    <2>1. Quiet
      BY <1>13 DEF WriterFails, FrameLost, Quiet
    <2> QED
      BY <2>1, QuietStep
  <1> QED
    BY <1>1, <1>2, <1>3, <1>4, <1>5, <1>6, <1>7, <1>8, <1>9, <1>10, <1>11, <1>12, <1>13
    DEF Handler

\* Every step keeps the session invariant.
LEMMA InvStep ==
    ASSUME HalfOpen = FALSE, SessionInv, [Next]_vars
    PROVE  SessionInv'
  <1>1. CASE UNCHANGED vars
    <2>1. TypeOK'
      BY <1>1 DEF SessionInv, vars, sessionVars, handlerVars, clientVars, TypeOK
    <2>2. Quiet
      BY <1>1 DEF vars, sessionVars, handlerVars, clientVars, Quiet, sessionState
    <2> QED
      BY <2>1, <2>2, QuietStep DEF SessionInv
  <1>2. CASE \E c \in Conn : Handler(c)
    <2>1. PICK c \in Conn : Handler(c)
      BY <1>2
    <2>2. TypeOK'
      BY <2>1, TypeHandler DEF SessionInv, HandlerInv
    <2> QED
      BY <2>1, <2>2, InvHandler DEF SessionInv
  <1>3. CASE \/ Publish \/ ConnectionLost \/ Disconnect \/ Receive \/ Reap \/ Restart
             \/ \E c \in Conn : Connect(c) \/ Reconnect(c)
             \/ \E s \in Conn : TtlElapses(s)
    BY <1>3, TypeEnvironment, InvEnvironment DEF SessionInv
  <1> QED
    BY <1>1, <1>2, <1>3 DEF Next

\* The session invariant holds throughout, whatever the capacities are.
THEOREM SessionInvariant == ASSUME HalfOpen = FALSE PROVE Spec => []SessionInv
  <1>1. Init => SessionInv
    BY InvInit
  <1>2. SessionInv /\ [Next]_vars => SessionInv'
    BY InvStep
  <1> QED
    BY <1>1, <1>2, PTL DEF Spec

\* The replay buffer of every session is, at all times, a contiguous tail of
\* what the session dispatched (session.rs push, gateway.rs RESUME), as long as
\* the server notices the end of a connection before its client opens the next.
THEOREM BufferCorrect == ASSUME HalfOpen = FALSE PROVE Spec => []BufferIsTailOfLog
  <1>1. SessionInv => BufferIsTailOfLog
    BY DEF SessionInv, HandlerInv
  <1> QED
    BY <1>1, SessionInvariant, PTL

\* Only the reaper and the end of the process take sessions out of the map.
LEMMA StoreGrows ==
    ASSUME Next, ~Reap, ~Restart
    PROVE  store \subseteq store'
  <1> USE DEF sessionVars, handlerVars, clientVars
  <1>1. CASE Publish \/ ConnectionLost \/ Disconnect \/ Receive
    BY <1>1 DEF Publish, ConnectionLost, Disconnect, Receive, HandleHello, HandleReady,
                HandleResumed, HandleDispatch, HandleInvalid, HandleClose
  <1>2. CASE \E c \in Conn : Connect(c) \/ Reconnect(c)
    BY <1>2 DEF Connect, Reconnect, OpenWebSocket
  <1>3. CASE \E s \in Conn : TtlElapses(s)
    BY <1>3 DEF TtlElapses
  <1>4. CASE \E c \in Conn : Handler(c)
    <2>1. PICK c \in Conn : Handler(c)
      BY <1>4
    <2> QED
      BY <2>1 DEF Handler, AuthTimeout, Identify, IdentifyRejected, ResumeLookup,
           ResumeNotFound, ResumeReplay, ResumeGap, MarkConnected, ReadLastSeq, SendReplay,
           Subscribe, SubscribeFails, Dispatch, Unblock, ReadFails, HeartbeatTimeout,
           WriterFails, FrameLost, Reject
  <1> QED
    BY <1>1, <1>2, <1>3, <1>4 DEF Next

\* The reaper never takes a session from a handler that has marked it
\* connected (session.rs reap_expired).
THEOREM ReaperCorrect == ASSUME HalfOpen = FALSE PROVE Spec => NoLiveSessionReaped
  <1> DEFINE P == \A c \in Conn :
                    /\ pc[c] \in Handling \ {"auth", "replay", "mark"}
                    /\ pc'[c] \in Handling
                    /\ sess[c] \in store
                    => sess[c] \in store'
  <1>1. SessionInv /\ [Next]_vars => [P]_vars
    <2> SUFFICES ASSUME SessionInv, Next, NEW c \in Conn,
                        pc[c] \in Handling \ {"auth", "replay", "mark"},
                        pc'[c] \in Handling, sess[c] \in store
                 PROVE  sess[c] \in store'
      OBVIOUS
    <2>1. CASE Reap
      <3>1. pc[c] \in Marked
        BY DEF Marked, Handling
      <3> QED
        BY <2>1, <3>1 DEF SessionInv, HandlerInv, MarkedIsConnected, Reap
    <2>2. CASE Restart
      BY <2>2 DEF Restart, Running, Handling
    <2>3. CASE ~Reap /\ ~Restart
      BY <2>3, StoreGrows
    <2> QED
      BY <2>1, <2>2, <2>3
  <1> HIDE DEF P
  <1>2. Spec => [][Next]_vars
    BY DEF Spec
  <1>3. Spec => [][P]_vars
    BY <1>1, <1>2, SessionInvariant, PTL
  <1> QED
    BY <1>3 DEF NoLiveSessionReaped, P

-----------------------------------------------------------------------------
(* Delivery: what is on its way continues the client.                     *)

\* The frames that carry a number and an event (ServerFrame::Dispatch).
IsEvent(f) == f.op = "event"

\* A frame of this kind is somewhere in the queue.
Holds(F, op) == \E i \in 1..Len(F) : F[i].op = op

\* The numbered frames of F rise, each above from, and none is missing before
\* another: received in order, they continue a client whose last_seq is from.
Follows(F, from) ==
    \A i \in 1..Len(F) : IsEvent(F[i]) =>
      /\ F[i].s > from
      /\ \A j \in 1..(i-1) : IsEvent(F[j]) => F[j].s < F[i].s
      /\ F[i].s > from + 1 =>
           \E j \in 1..(i-1) : IsEvent(F[j]) /\ F[j].s = F[i].s - 1

\* Received in order, the frames of F take a client from number from to n.
Reaches(F, from, n) ==
    n = from \/ \E j \in 1..Len(F) : IsEvent(F[j]) /\ F[j].s = n

\* Every numbered frame carries the event that has its number in the log l.
FromLog(F, l) ==
    \A i \in 1..Len(F) : IsEvent(F[i]) => F[i].s \in 1..Len(l) /\ F[i].e = l[F[i].s]

\* All numbers on the wire are natural.
LEMMA FrameNumber == \A f \in Frame : f.s \in Nat
BY DEF Frame, ControlFrame, NumberedFrame, IsEvent

\* The head and the tail of a queue, index by index.
LEMMA TailShift ==
    ASSUME NEW F \in Seq(Frame), F # <<>>
    PROVE  /\ Tail(F) \in Seq(Frame) /\ Head(F) = F[1] /\ Head(F) \in Frame
           /\ Len(Tail(F)) = Len(F) - 1 /\ Len(F) \in Nat \ {0}
           /\ \A i \in 1..Len(Tail(F)) : Tail(F)[i] = F[i+1] /\ i + 1 \in 1..Len(F)
  OBVIOUS

\* Receiving a control frame leaves what the rest of the queue continues, and
\* what it reaches.
LEMMA TailControl ==
    ASSUME NEW F \in Seq(Frame), F # <<>>, NEW from \in Nat, NEW n \in Nat,
           Follows(F, from), ~IsEvent(Head(F))
    PROVE  /\ Follows(Tail(F), from)
           /\ Reaches(F, from, n) => Reaches(Tail(F), from, n)
  <1> DEFINE T == Tail(F)
  <1>1. /\ T \in Seq(Frame) /\ Head(F) = F[1] /\ Len(T) = Len(F) - 1 /\ Len(F) \in Nat \ {0}
        /\ \A i \in 1..Len(T) : T[i] = F[i+1] /\ i + 1 \in 1..Len(F)
    BY TailShift
  <1>2. \A i \in 1..Len(F) : IsEvent(F[i]) => i - 1 \in 1..Len(T) /\ T[i-1] = F[i]
    <2> SUFFICES ASSUME NEW i \in 1..Len(F), IsEvent(F[i])
                 PROVE  i - 1 \in 1..Len(T) /\ T[i-1] = F[i]
      OBVIOUS
    <2>1. i # 1
      BY <1>1
    <2>2. i - 1 \in 1..Len(T) /\ (i - 1) + 1 = i
      BY <1>1, <2>1
    <2> QED
      BY <1>1, <2>2
  <1> HIDE DEF T
  <1>3. Follows(T, from)
    <2> SUFFICES ASSUME NEW i \in 1..Len(T), IsEvent(T[i])
                 PROVE  /\ T[i].s > from
                        /\ \A j \in 1..(i-1) : IsEvent(T[j]) => T[j].s < T[i].s
                        /\ T[i].s > from + 1 =>
                             \E j \in 1..(i-1) : IsEvent(T[j]) /\ T[j].s = T[i].s - 1
      BY DEF Follows
    <2>1. T[i] = F[i+1] /\ i + 1 \in 1..Len(F)
      BY <1>1
    <2>2. \A j \in 1..(i-1) : T[j] = F[j+1] /\ j + 1 \in 1..((i+1)-1)
      BY <1>1
    <2>3. ASSUME T[i].s > from + 1
          PROVE  \E j \in 1..(i-1) : IsEvent(T[j]) /\ T[j].s = T[i].s - 1
      <3>1. PICK k \in 1..((i+1)-1) : IsEvent(F[k]) /\ F[k].s = F[i+1].s - 1
        BY <2>1, <2>3 DEF Follows
      <3>2. k - 1 \in 1..(i-1) /\ T[k-1] = F[k]
        BY <1>1, <1>2, <2>1, <3>1
      <3> QED
        BY <3>1, <3>2, <2>1
    <2> QED
      BY <2>1, <2>2, <2>3 DEF Follows
  <1>4. Reaches(F, from, n) => Reaches(T, from, n)
    BY <1>1, <1>2 DEF Reaches
  <1> QED
    BY <1>3, <1>4 DEF T

\* Receiving a numbered frame: it has the next number, and the rest continues
\* from it.
LEMMA TailEvent ==
    ASSUME NEW F \in Seq(Frame), F # <<>>, NEW from \in Nat, NEW n \in Nat,
           Follows(F, from), IsEvent(Head(F))
    PROVE  /\ Head(F).s = from + 1
           /\ Follows(Tail(F), from + 1)
           /\ Reaches(F, from, n) /\ n # from => Reaches(Tail(F), from + 1, n)
  <1> DEFINE T == Tail(F)
  <1>1. /\ T \in Seq(Frame) /\ Head(F) = F[1] /\ Len(T) = Len(F) - 1 /\ Len(F) \in Nat \ {0}
        /\ \A i \in 1..Len(T) : T[i] = F[i+1] /\ i + 1 \in 1..Len(F)
        /\ Head(F) \in Frame
    BY TailShift
  <1>2. \A i \in 1..Len(F) : i # 1 => i - 1 \in 1..Len(T) /\ T[i-1] = F[i]
    <2> SUFFICES ASSUME NEW i \in 1..Len(F), i # 1
                 PROVE  i - 1 \in 1..Len(T) /\ T[i-1] = F[i]
      OBVIOUS
    <2>2. i - 1 \in 1..Len(T) /\ (i - 1) + 1 = i
      BY <1>1
    <2> QED
      BY <1>1, <2>2
  <1> HIDE DEF T
  <1>5. F[1].s = from + 1
    <2>1. F[1].s > from /\ ~(F[1].s > from + 1)
      BY <1>1 DEF Follows
    <2> QED
      BY <1>1, <2>1, FrameNumber
  <1>3. Follows(T, from + 1)
    <2> SUFFICES ASSUME NEW i \in 1..Len(T), IsEvent(T[i])
                 PROVE  /\ T[i].s > from + 1
                        /\ \A j \in 1..(i-1) : IsEvent(T[j]) => T[j].s < T[i].s
                        /\ T[i].s > (from + 1) + 1 =>
                             \E j \in 1..(i-1) : IsEvent(T[j]) /\ T[j].s = T[i].s - 1
      BY DEF Follows
    <2>1. T[i] = F[i+1] /\ i + 1 \in 1..Len(F) /\ T[i].s \in Nat
      BY <1>1, FrameNumber
    <2>2. \A j \in 1..(i-1) : T[j] = F[j+1] /\ j + 1 \in 1..((i+1)-1)
      BY <1>1
    <2>4. T[i].s > from + 1
      <3>1. 1 \in 1..((i+1)-1)
        OBVIOUS
      <3> QED
        BY <1>1, <1>5, <2>1, <3>1 DEF Follows
    <2>3. ASSUME T[i].s > (from + 1) + 1
          PROVE  \E j \in 1..(i-1) : IsEvent(T[j]) /\ T[j].s = T[i].s - 1
      <3>1. PICK k \in 1..((i+1)-1) : IsEvent(F[k]) /\ F[k].s = F[i+1].s - 1
        BY <2>1, <2>3 DEF Follows
      <3>3. k # 1
        BY <3>1, <1>5, <2>1, <2>3
      <3>2. k - 1 \in 1..(i-1) /\ T[k-1] = F[k]
        BY <1>1, <1>2, <2>1, <3>1, <3>3
      <3> QED
        BY <3>1, <3>2, <2>1
    <2> QED
      BY <2>1, <2>2, <2>3, <2>4 DEF Follows
  <1>4. Reaches(F, from, n) /\ n # from => Reaches(T, from + 1, n)
    BY <1>1, <1>2, <1>5 DEF Reaches
  <1> QED
    BY <1>1, <1>3, <1>4, <1>5 DEF T

\* What is left of a queue still carries the events of the log.
LEMMA TailLog ==
    ASSUME NEW F \in Seq(Frame), F # <<>>, NEW l, FromLog(F, l)
    PROVE  FromLog(Tail(F), l)
  BY TailShift DEF FromLog

\* A control frame sent disturbs none of the three.
LEMMA AppendControl ==
    ASSUME NEW F \in Seq(Frame), NEW f \in Frame, ~IsEvent(f),
           NEW from \in Nat, NEW n \in Nat, NEW l
    PROVE  /\ Follows(F, from) => Follows(Append(F, f), from)
           /\ Reaches(F, from, n) => Reaches(Append(F, f), from, n)
           /\ FromLog(F, l) => FromLog(Append(F, f), l)
  <1> DEFINE A == Append(F, f)
  <1>1. /\ Len(A) = Len(F) + 1 /\ Len(F) \in Nat /\ A[Len(A)] = f
        /\ \A i \in 1..Len(F) : A[i] = F[i] /\ i \in 1..Len(A)
        /\ \A i \in 1..Len(A) : i = Len(A) \/ i \in 1..Len(F)
    OBVIOUS
  <1> HIDE DEF A
  <1>2. \A i \in 1..Len(A) : IsEvent(A[i]) =>
          i \in 1..Len(F) /\ A[i] = F[i] /\ 1..(i-1) \subseteq 1..Len(F)
    BY <1>1
  <1>3. Follows(F, from) => Follows(A, from)
    BY <1>1, <1>2 DEF Follows
  <1>4. Reaches(F, from, n) => Reaches(A, from, n)
    BY <1>1 DEF Reaches
  <1>5. FromLog(F, l) => FromLog(A, l)
    BY <1>2 DEF FromLog
  <1> QED
    BY <1>3, <1>4, <1>5 DEF A

\* An event pushed under the next number of the session and sent: the queue
\* continues the client, reaches the new number and carries the new log.
LEMMA AppendEvent ==
    ASSUME NEW F \in Seq(Frame), NEW from \in Nat,
           NEW l \in Seq(1..MaxPublish), NEW e \in 1..MaxPublish,
           Follows(F, from), Reaches(F, from, Len(l)), FromLog(F, l), from <= Len(l)
    PROVE  LET A == Append(F, EventFrame(Len(l) + 1, e))
           IN  /\ Follows(A, from)
               /\ Reaches(A, from, Len(l) + 1)
               /\ FromLog(A, Append(l, e))
  <1> DEFINE n == Len(l)
             f == EventFrame(n + 1, e)
             A == Append(F, f)
             m == Append(l, e)
  <1>1. n \in Nat /\ f \in Frame /\ IsEvent(f) /\ f.s = n + 1 /\ f.e = e
    BY FrameType DEF EventFrame, IsEvent
  <1>2. Len(m) = n + 1 /\ m[n+1] = e /\ \A i \in 1..n : m[i] = l[i]
    OBVIOUS
  <1> HIDE DEF n, f, m
  <1>3. /\ Len(A) = Len(F) + 1 /\ Len(F) \in Nat /\ A[Len(A)] = f
        /\ \A i \in 1..Len(F) : /\ A[i] = F[i] /\ i \in 1..Len(A) /\ F[i] \in Frame
                                /\ 1..(i-1) \subseteq 1..Len(F)
        /\ \A i \in 1..Len(A) : i = Len(A) \/ i \in 1..Len(F)
    BY <1>1
  <1> HIDE DEF A
  <1>4. \A i \in 1..Len(F) : IsEvent(F[i]) => F[i].s < n + 1
    BY <1>1, <1>3, FrameNumber DEF FromLog, n
  <1>5. Follows(A, from)
    <2> SUFFICES ASSUME NEW i \in 1..Len(A), IsEvent(A[i])
                 PROVE  /\ A[i].s > from
                        /\ \A j \in 1..(i-1) : IsEvent(A[j]) => A[j].s < A[i].s
                        /\ A[i].s > from + 1 =>
                             \E j \in 1..(i-1) : IsEvent(A[j]) /\ A[j].s = A[i].s - 1
      BY DEF Follows
    <2>1. CASE i \in 1..Len(F)
      BY <2>1, <1>3 DEF Follows
    <2>2. CASE i = Len(A)
      <3>1. A[i] = f /\ 1..(i-1) = 1..Len(F)
        BY <2>2, <1>3
      <3>2. f.s > from
        BY <1>1 DEF n
      <3>3. \A j \in 1..(i-1) : IsEvent(A[j]) => A[j].s < A[i].s
        BY <3>1, <1>1, <1>3, <1>4
      <3>4. f.s > from + 1 => \E j \in 1..Len(F) : IsEvent(A[j]) /\ A[j].s = f.s - 1
        BY <1>1, <1>3 DEF Reaches, n
      <3> QED
        BY <3>1, <3>2, <3>3, <3>4
    <2> QED
      BY <1>3, <2>1, <2>2
  <1>6. Reaches(A, from, n + 1)
    BY <1>1, <1>3 DEF Reaches
  <1>7. FromLog(A, m)
    BY <1>1, <1>2, <1>3 DEF FromLog, n
  <1> QED
    BY <1>5, <1>6, <1>7 DEF A, f, n, m

\* A queue cut short (the frames a closing connection still delivers) keeps
\* what it continues and what it carries; it only may reach less.
LEMMA PrefixKeeps ==
    ASSUME NEW F \in Seq(Frame), NEW k \in 0..Len(F), NEW from \in Nat, NEW l
    PROVE  LET P == SubSeq(F, 1, k)
           IN  /\ Follows(F, from) => Follows(P, from)
               /\ FromLog(F, l) => FromLog(P, l)
               /\ \A op : Holds(P, op) => Holds(F, op)
  <1> DEFINE P == SubSeq(F, 1, k)
  <1>1. /\ Len(P) = k /\ k \in Nat
        /\ \A i \in 1..k : P[i] = F[i] /\ i \in 1..Len(F) /\ 1..(i-1) \subseteq 1..k
    OBVIOUS
  <1> HIDE DEF P
  <1>2. Follows(F, from) => Follows(P, from)
    BY <1>1 DEF Follows
  <1>3. (FromLog(F, l) => FromLog(P, l)) /\ \A op : Holds(P, op) => Holds(F, op)
    BY <1>1 DEF FromLog, Holds
  <1> QED
    BY <1>2, <1>3 DEF P

\* What replay_from gives for a client at after, no Gap being found, continues
\* that client without a hole up to last_seq, with the events of the log: the
\* buffer is a contiguous tail of it (session.rs replay_from).
LEMMA ReplayFollows ==
    ASSUME TypeOK, BufferIsTailOfLog, NEW s \in Conn, NEW after \in Nat,
           after <= lastSeq[s], ~Gap(s, after),
           NEW n \in 0..Len(events[s]), NEW pos \in [1..n -> 1..Len(events[s])],
           Replays(s, after, pos)
    PROVE  LET F == ReplayFrames(s, pos)
           IN  /\ F \in Seq(Frame)
               /\ \A i \in 1..Len(F) : IsEvent(F[i])
               /\ Follows(F, after)
               /\ Reaches(F, after, lastSeq[s])
               /\ FromLog(F, log[s])
  <1> DEFINE F == ReplayFrames(s, pos)
             B == events[s]
             K == Len(B)
             L == lastSeq[s]
  <1>1. /\ B \in Seq(Numbered) /\ K \in Nat /\ L \in Nat /\ K <= L /\ Len(log[s]) = L
        /\ \A i \in 1..K : B[i].s = L - K + i /\ B[i].e = log[s][L - K + i]
    <2>1. B \in Seq(Numbered) /\ K \in Nat /\ L \in Nat
      BY DEF TypeOK
    <2>2. K <= L /\ Len(log[s]) = L
      BY DEF BufferIsTailOfLog
    <2>3. \A i \in 1..K : B[i] = [s |-> L - K + i, e |-> log[s][L - K + i]]
      BY DEF BufferIsTailOfLog
    <2>4. ASSUME NEW i \in 1..K
          PROVE  B[i].s = L - K + i /\ B[i].e = log[s][L - K + i]
      <3>1. B[i] = [s |-> L - K + i, e |-> log[s][L - K + i]]
        BY <2>3
      <3> HIDE DEF B, K, L
      <3> QED
        BY <3>1
    <2> HIDE DEF B, L
    <2> QED
      BY <2>1, <2>2, <2>4
  <1>2. after + 1 >= L - K + 1
    <2>1. CASE B = <<>>
      BY <2>1, <1>1 DEF Gap, MinSeq
    <2>2. CASE B # <<>>
      <3>1. 1 \in 1..K
        BY <2>2, <1>1
      <3> QED
        BY <2>2, <3>1, <1>1 DEF Gap, MinSeq
    <2> QED
      BY <2>1, <2>2
  <1>3. F \in Seq(Frame)
    BY <1>1, ReplayType
  <1>4. /\ Len(F) = n /\ n \in Nat
        /\ \A i \in 1..n : /\ F[i] = EventFrame(B[pos[i]].s, B[pos[i]].e)
                           /\ pos[i] \in 1..K
    BY DEF ReplayFrames
  <1>5. \A i \in 1..n : /\ IsEvent(F[i])
                         /\ F[i].s = L - K + pos[i] /\ F[i].e = log[s][L - K + pos[i]]
    <2> SUFFICES ASSUME NEW i \in 1..n
                 PROVE  /\ IsEvent(F[i]) /\ F[i].s = L - K + pos[i]
                        /\ F[i].e = log[s][L - K + pos[i]]
      OBVIOUS
    <2>1. F[i] = EventFrame(B[pos[i]].s, B[pos[i]].e) /\ pos[i] \in 1..K
      BY <1>4
    <2>2. B[pos[i]].s = L - K + pos[i] /\ B[pos[i]].e = log[s][L - K + pos[i]]
      BY <1>1, <2>1
    <2> QED
      BY <2>1, <2>2 DEF EventFrame, IsEvent
  <1>6. \A p \in 1..K : L - K + p > after <=> \E i \in 1..n : pos[i] = p
    <2>1. {pos[i] : i \in 1..n} = {p \in 1..K : L - K + p > after}
      BY <1>1 DEF Replays, Newer
    <2> QED
      BY <2>1
  <1>7. \A i, j \in 1..n : i < j => pos[i] < pos[j]
    BY DEF Replays
  <1> HIDE DEF F, B, K, L
  <1>8. Follows(F, after)
    <2> SUFFICES ASSUME NEW i \in 1..n
                 PROVE  /\ F[i].s > after
                        /\ \A j \in 1..(i-1) : F[j].s < F[i].s
                        /\ F[i].s > after + 1 =>
                             \E j \in 1..(i-1) : IsEvent(F[j]) /\ F[j].s = F[i].s - 1
      BY <1>4 DEF Follows
    <2>1. F[i].s > after
      BY <1>4, <1>5, <1>6
    <2>2. \A j \in 1..(i-1) : F[j].s < F[i].s
      BY <1>1, <1>4, <1>5, <1>7
    <2>3. ASSUME F[i].s > after + 1
          PROVE  \E j \in 1..(i-1) : IsEvent(F[j]) /\ F[j].s = F[i].s - 1
      <3>1. pos[i] - 1 \in 1..K /\ L - K + (pos[i] - 1) > after
        BY <1>1, <1>2, <1>4, <1>5, <2>3
      <3>2. PICK j \in 1..n : pos[j] = pos[i] - 1
        BY <1>6, <3>1
      <3>3. j < i
        BY <1>4, <1>7, <3>1, <3>2
      <3>4. F[j].s = L - K + pos[j] /\ IsEvent(F[j]) /\ F[i].s = L - K + pos[i]
        BY <1>5, <3>2
      <3>5. F[j].s = F[i].s - 1
        BY <1>1, <1>4, <3>2, <3>4
      <3>6. j \in 1..(i-1)
        BY <1>4, <3>3
      <3> QED
        BY <3>4, <3>5, <3>6
    <2> QED
      BY <2>1, <2>2, <2>3
  <1>9. Reaches(F, after, L)
    <2>1. CASE L = after
      BY <2>1 DEF Reaches
    <2>2. CASE L # after
      <3>1. K \in 1..K /\ L - K + K > after
        BY <2>2, <1>1, <1>2 DEF L
      <3>2. PICK j \in 1..n : pos[j] = K
        BY <1>6, <3>1
      <3>3. IsEvent(F[j]) /\ F[j].s = L /\ j \in 1..Len(F)
        BY <1>1, <1>4, <1>5, <3>2
      <3> QED
        BY <3>3 DEF Reaches
    <2> QED
      BY <2>1, <2>2
  <1>10. FromLog(F, log[s])
    <2> SUFFICES ASSUME NEW i \in 1..n
                 PROVE  F[i].s \in 1..L /\ F[i].e = log[s][F[i].s]
      BY <1>1, <1>4 DEF FromLog
    <2>1. F[i].s = L - K + pos[i] /\ F[i].e = log[s][L - K + pos[i]] /\ pos[i] \in 1..K
      BY <1>4, <1>5
    <2> QED
      BY <1>1, <2>1
  <1> QED
    BY <1>3, <1>4, <1>5, <1>8, <1>9, <1>10 DEF F, L

\* The states of a handler between a resume accepted and its subscription.
Replaying == {"mark", "lastseq", "sending"}

\* The states of a handler that delivers a session to its client.
InSession == Replaying \cup {"subscribe", "live", "blocked"}

\* All that the client of c has still to receive: the frames handed to the
\* writer, then those the handler is about to hand to it.
Pipe(c) == out[c] \o tosend[c]

\* The client's socket is a connection that is up, whose handler runs, and the
\* only one whose handler runs.
LinkUp == ws # None => /\ up[ws] /\ writer[ws] /\ pc[ws] # "idle"
                       /\ \A d \in Conn : Running(d) => d = ws

\* A connection not yet accepted carries nothing, and only a replay or a
\* dispatch that waits for room has frames left to send.
QueuesEmpty == \A c \in Conn :
   /\ pc[c] = "idle" => out[c] = <<>> /\ cmd[c] = NoCommand
   /\ tosend[c] # <<>> => pc[c] \in Replaying \cup {"blocked"}

\* What the client has received of its session is the beginning of what was
\* numbered in it, as far as its last_seq (gateway client, clientSeq).
ClientPrefix ==
   IF sessionId = None THEN clientSeq = 0 /\ got = <<>>
   ELSE /\ Len(got) = clientSeq /\ clientSeq <= Len(log[sessionId])
        /\ \A i \in 1..clientSeq : got[i] = log[sessionId][i]

\* A handler that has not answered yet: before its command it has sent nothing
\* but hello, and the command is identify from a client without a session or
\* resume with the session and the number the client really is at.
Asking == ws # None =>
   /\ pc[ws] = "auth" => \/ out[ws] = <<>>
                         \/ out[ws] = <<Ctl("hello", None)>> /\ cmd[ws] = NoCommand
   /\ pc[ws] = "auth" /\ cmd[ws].op = "identify" => sessionId = None
   /\ pc[ws] = "auth" /\ cmd[ws].op = "resume" => cmd[ws].sid = sessionId
   /\ pc[ws] \in {"auth","replay"} /\ cmd[ws].op = "resume" => cmd[ws].seq = clientSeq
   /\ pc[ws] = "replay" => out[ws] = <<>> /\ sess[ws] = sessionId /\ cmd[ws].op = "resume"

\* What is on its way in c continues the client: it is numbered for the
\* client's own session (or starts with the ready that names it), continues
\* clientSeq, reaches last_seq while the handler is in the session, and hello and
\* invalid travel in connections that carry neither events nor ready.
Carries(c) ==
    LET F == Pipe(c)
    IN  /\ pc[c] \in InSession \/ Holds(F, "event") =>
             \/ sessionId = sess[c] /\ sessionId # None
             \/ sessionId = None /\ F # <<>> /\ F[1].op = "ready"
        /\ Holds(F, "event") => FromLog(F, log[sess[c]])
        /\ pc[c] \in InSession => Reaches(F, clientSeq, lastSeq[sess[c]])
        /\ Follows(F, clientSeq)
        /\ \A i \in 1..Len(F) : F[i].op = "ready" =>
              i = 1 /\ F[i].sid = sess[c] /\ sess[c] \in Conn /\ sessionId = None
        /\ Holds(F, "hello") \/ Holds(F, "invalid") =>
              ~Holds(F, "event") /\ ~Holds(F, "ready") /\ pc[c] \in {"auth", "done"}

\* It does so in the connection the client listens to.
PipeOfSession == ws # None => Carries(ws)

\* A step of a handler touches nothing of another connection
LEMMA HandlerIsLocal ==
    ASSUME TypeOK, NEW c \in Conn, Handler(c)
    PROVE  /\ Running(c)
           /\ UNCHANGED <<up, clientVars>>
           /\ pc'[c] \notin {"idle", "auth"} \/ pc'[c] = pc[c]
           /\ up[c] => writer'[c] = writer[c]
           /\ \A d \in Conn \ {c} : /\ pc'[d] = pc[d] /\ sess'[d] = sess[d]
                                    /\ out'[d] = out[d] /\ tosend'[d] = tosend[d]
                                    /\ cmd'[d] = cmd[d] /\ writer'[d] = writer[d]
  <1> USE DEF sessionVars, handlerVars, clientVars, Running, Handling
  <1>1. CASE AuthTimeout(c) \/ IdentifyRejected(c) \/ ResumeNotFound(c) \/ ResumeGap(c)
    BY <1>1
    DEF AuthTimeout, IdentifyRejected, ResumeNotFound, ResumeGap, Reject, Returns, Sent,
        TypeOK
  <1>2. CASE Identify(c)
    BY <1>2 DEF Identify, Returns, Sent, TypeOK
  <1>3. CASE ResumeLookup(c)
    BY <1>3 DEF ResumeLookup, TypeOK
  <1>4. CASE ResumeReplay(c)
    BY <1>4 DEF ResumeReplay, TypeOK
  <1>5. CASE MarkConnected(c) \/ ReadLastSeq(c)
    BY <1>5 DEF MarkConnected, ReadLastSeq, TypeOK
  <1>6. CASE SendReplay(c)
    BY <1>6 DEF SendReplay, Returns, Sent, TypeOK
  <1>7. CASE Subscribe(c) \/ SubscribeFails(c)
    BY <1>7 DEF Subscribe, SubscribeFails, TypeOK
  <1>8. CASE Dispatch(c)
    BY <1>8 DEF Dispatch, Cleanup, Returns, Sent, TypeOK
  <1>9. CASE Unblock(c)
    BY <1>9 DEF Unblock, Cleanup, Returns, Sent, TypeOK
  <1>10. CASE ReadFails(c) \/ HeartbeatTimeout(c)
    BY <1>10 DEF ReadFails, HeartbeatTimeout, Cleanup, Returns, Sent, TypeOK
  <1>11. CASE WriterFails(c) \/ FrameLost(c)
    BY <1>11 DEF WriterFails, FrameLost, TypeOK
  <1> QED
    BY <1>1, <1>2, <1>3, <1>4, <1>5, <1>6, <1>7, <1>8, <1>9, <1>10, <1>11 DEF Handler

\* LinkUp is kept by every step: without half-open connections.
LEMMA LinkUpStep ==
    ASSUME HalfOpen = FALSE, TypeOK, LinkUp, [Next]_vars
    PROVE  LinkUp'
  <1> USE DEF sessionVars, handlerVars, clientVars, LinkUp, Running
  <1>1. CASE \/ Publish \/ Receive \/ Reap \/ UNCHANGED vars
             \/ \E s \in Conn : TtlElapses(s)
    BY <1>1
    DEF vars, Publish, Reap, TtlElapses, Receive, HandleHello, HandleReady, HandleResumed,
        HandleDispatch, HandleInvalid, HandleClose
  <1>2. CASE ConnectionLost \/ Disconnect \/ Restart
    BY <1>2 DEF ConnectionLost, Disconnect, Restart
  <1>3. CASE \E c \in Conn : Connect(c) \/ Reconnect(c)
    BY <1>3 DEF Connect, Reconnect, OpenWebSocket, TypeOK
  <1>4. CASE \E c \in Conn : Handler(c)
    <2>1. PICK c \in Conn : Handler(c)
      BY <1>4
    <2>2. \A d \in Conn : Running(d)' => Running(d)
      BY <2>1, HandlerIsLocal
    <2> QED
      BY <2>1, <2>2, HandlerIsLocal DEF TypeOK, SessionOrNone, Handling
  <1> QED
    BY <1>1, <1>2, <1>3, <1>4 DEF Next

\* QueuesEmpty is kept by every step.
LEMMA QueuesEmptyStep ==
    ASSUME TypeOK, QueuesEmpty, LinkUp, [Next]_vars
    PROVE  QueuesEmpty'
  <1> USE DEF sessionVars, handlerVars, clientVars, Running
  <1>1. CASE \/ Publish \/ ConnectionLost \/ Disconnect \/ Reap \/ UNCHANGED vars
             \/ \E s \in Conn : TtlElapses(s)
    BY <1>1 DEF vars, Publish, Reap, TtlElapses, ConnectionLost, Disconnect, QueuesEmpty
  <1>2. CASE Receive
    <2>1. ws \in Conn /\ pc[ws] # "idle" /\ pc' = pc /\ tosend' = tosend
           /\ \A d \in Conn \ {ws} : out'[d] = out[d] /\ cmd'[d] = cmd[d]
      BY <1>2
      DEF Receive, HandleHello, HandleReady, HandleResumed, HandleDispatch, HandleInvalid,
          HandleClose, Takes, LinkUp, TypeOK, SessionOrNone
    <2> QED
      BY <2>1 DEF QueuesEmpty
  <1>3. CASE Restart
    BY <1>3 DEF Restart, QueuesEmpty
  <1>4. CASE \E c \in Conn : Connect(c) \/ Reconnect(c)
    BY <1>4 DEF Connect, Reconnect, OpenWebSocket, TypeOK, QueuesEmpty, Replaying
  <1>5. CASE \E c \in Conn : Handler(c)
    <2>1. PICK c \in Conn : Handler(c)
      BY <1>5
    <2>2. pc'[c] # "idle"
      BY <2>1, HandlerIsLocal DEF Handling
    <2>3. tosend'[c] # <<>> => pc'[c] \in Replaying \cup {"blocked"}
      <3> USE DEF QueuesEmpty, Replaying
      <3>1. CASE AuthTimeout(c) \/ IdentifyRejected(c) \/ ResumeNotFound(c) \/ ResumeGap(c)
        BY <3>1
        DEF AuthTimeout, IdentifyRejected, ResumeNotFound, ResumeGap, Reject, Returns,
            TypeOK
      <3>2. CASE Identify(c)
        BY <3>2 DEF Identify, Returns, TypeOK
      <3>3. CASE ResumeLookup(c)
        BY <3>3 DEF ResumeLookup, TypeOK
      <3>4. CASE ResumeReplay(c)
        BY <3>4 DEF ResumeReplay, TypeOK
      <3>5. CASE MarkConnected(c) \/ ReadLastSeq(c)
        BY <3>5 DEF MarkConnected, ReadLastSeq, TypeOK
      <3>6. CASE SendReplay(c)
        BY <3>6 DEF SendReplay, Returns, TypeOK
      <3>7. CASE Subscribe(c) \/ SubscribeFails(c)
        BY <3>7 DEF Subscribe, SubscribeFails, TypeOK
      <3>8. CASE Dispatch(c)
        BY <3>8 DEF Dispatch, Cleanup, Returns, TypeOK
      <3>9. CASE Unblock(c)
        BY <3>9 DEF Unblock, Cleanup, Returns, TypeOK
      <3>10. CASE ReadFails(c) \/ HeartbeatTimeout(c)
        BY <3>10 DEF ReadFails, HeartbeatTimeout, Cleanup, Returns, TypeOK
      <3>11. CASE WriterFails(c) \/ FrameLost(c)
        BY <3>11 DEF WriterFails, FrameLost, TypeOK
      <3> QED
        BY <2>1, <3>1, <3>2, <3>3, <3>4, <3>5, <3>6, <3>7, <3>8, <3>9, <3>10, <3>11
        DEF Handler
    <2> QED
      BY <2>1, <2>2, <2>3, HandlerIsLocal DEF QueuesEmpty
  <1> QED
    BY <1>1, <1>2, <1>3, <1>4, <1>5 DEF Next

\* What is on its way is a sequence of frames.
LEMMA PipeType == TypeOK => \A c \in Conn : Pipe(c) \in Seq(Frame)
  BY DEF TypeOK, Pipe

\* Taking the head of the first part of a concatenation.
LEMMA TailConcat ==
    ASSUME NEW S, NEW a \in Seq(S), NEW b \in Seq(S), a # <<>>
    PROVE  /\ Head(a \o b) = Head(a) /\ (a \o b)[1] = Head(a) /\ a \o b # <<>>
           /\ Tail(a \o b) = Tail(a) \o b
  <1>1. /\ Tail(a \o b) \in Seq(S) /\ Tail(a) \o b \in Seq(S)
        /\ Len(Tail(a \o b)) = Len(a) + Len(b) - 1
        /\ Len(Tail(a) \o b) = Len(a) + Len(b) - 1
    OBVIOUS
  <1>2. \A i \in 1..(Len(a) + Len(b) - 1) : Tail(a \o b)[i] = (Tail(a) \o b)[i]
    OBVIOUS
  <1>3. Tail(a \o b) = Tail(a) \o b
    BY <1>1, <1>2, SeqEqual
  <1> QED
    BY <1>3

\* A frame that moves from the second part of a concatenation to the first.
LEMMA HeadMoves ==
    ASSUME NEW S, NEW a \in Seq(S), NEW b \in Seq(S), b # <<>>
    PROVE  (a \o <<Head(b)>>) \o Tail(b) = a \o b
  <1>1. <<Head(b)>> \in Seq(S) /\ Tail(b) \in Seq(S) /\ <<Head(b)>> \o Tail(b) = b
    OBVIOUS
  <1>2. (a \o <<Head(b)>>) \o Tail(b) = a \o (<<Head(b)>> \o Tail(b))
    <2> DEFINE h == <<Head(b)>>
               t == Tail(b)
    <2>1. h \in Seq(S) /\ t \in Seq(S)
      BY <1>1
    <2> HIDE DEF h, t
    <2>2. (a \o h) \o t = a \o (h \o t)
      BY <2>1, ConcatAssociative
    <2> QED
      BY <2>2 DEF h, t
  <1> QED
    BY <1>1, <1>2

\* The client takes the head of what is on its way.
LEMMA PipeTakes ==
    ASSUME TypeOK, NEW op, Takes(op), tosend' = tosend
    PROVE  /\ ws \in Conn /\ Pipe(ws) \in Seq(Frame) /\ Pipe(ws) # <<>>
           /\ Head(Pipe(ws)) = Head(out[ws]) /\ Pipe(ws)[1] = Head(out[ws])
           /\ Head(out[ws]).op = op
           /\ out'[ws] \o tosend'[ws] = Tail(Pipe(ws))
  <1>1. ws \in Conn /\ out[ws] \in Seq(Frame) /\ tosend[ws] \in Seq(Frame) /\ out[ws] # <<>>
    BY DEF TypeOK, SessionOrNone, Takes
  <1>2. out'[ws] = Tail(out[ws]) /\ tosend'[ws] = tosend[ws]
    BY <1>1 DEF Takes, TypeOK
  <1>3. /\ Head(out[ws] \o tosend[ws]) = Head(out[ws])
        /\ (out[ws] \o tosend[ws])[1] = Head(out[ws])
        /\ out[ws] \o tosend[ws] # <<>> /\ out[ws] \o tosend[ws] \in Seq(Frame)
        /\ Tail(out[ws] \o tosend[ws]) = Tail(out[ws]) \o tosend[ws]
    BY <1>1, TailConcat, ConcatProperties
  <1> QED
    BY <1>1, <1>2, <1>3 DEF Pipe, Takes

\* ClientPrefix is kept: the frame the client counts is the next one of its
\* log (handleDispatch stores d.seq, handleReady starts from nothing).
LEMMA ClientPrefixStep ==
    ASSUME SessionInv, ClientPrefix, PipeOfSession, [Next]_vars
    PROVE  ClientPrefix'
  <1> USE DEF sessionVars, handlerVars, clientVars
  <1>1. CASE UNCHANGED <<sessionId, clientSeq, got, log>>
    BY <1>1 DEF ClientPrefix
  <1>2. CASE sessionId' = None /\ clientSeq' = 0 /\ got' = <<>>
    BY <1>2 DEF ClientPrefix
  <1>3. CASE HandleReady
    <2>1. /\ ws \in Conn /\ Pipe(ws) \in Seq(Frame) /\ Pipe(ws) # <<>>
          /\ Pipe(ws)[1] = Head(out[ws]) /\ Head(out[ws]).op = "ready"
      BY <1>3, PipeTakes DEF HandleReady, SessionInv
    <2>2. Head(out[ws]).sid \in Conn /\ sessionId = None
      BY <2>1, NoneAssumption DEF PipeOfSession, Carries
    <2>3. /\ sessionId' \in Conn /\ sessionId' # None /\ got' = <<>> /\ clientSeq' = 0
          /\ log' = log
      BY <1>3, <2>2, NoneAssumption DEF HandleReady, ClientPrefix
    <2>4. Len(log[sessionId']) \in Nat /\ log'[sessionId'] = log[sessionId']
      BY <2>3 DEF SessionInv, TypeOK
    <2> QED
      BY <2>3, <2>4 DEF ClientPrefix
  <1>4. CASE HandleDispatch
    <2> DEFINE F == Pipe(ws)
    <2>1. /\ ws \in Conn /\ F \in Seq(Frame) /\ F # <<>>
          /\ Head(F) = Head(out[ws]) /\ F[1] = Head(F) /\ Head(F).op = "event"
      BY <1>4, PipeTakes DEF HandleDispatch, SessionInv
    <2>2. 1 \in 1..Len(F) /\ IsEvent(F[1])
      BY <2>1 DEF IsEvent
    <2>3. Holds(F, "event")
      BY <2>2 DEF Holds, IsEvent
    <2>4. sessionId = sess[ws] /\ sessionId # None
      BY <2>1, <2>3, NoneAssumption DEF PipeOfSession, Carries
    <2>5. F[1].s = clientSeq + 1
      <3>1. Follows(F, clientSeq) /\ clientSeq \in Nat
        BY <2>1, NoneAssumption DEF PipeOfSession, Carries, SessionInv, TypeOK
      <3> HIDE DEF F
      <3> QED
        BY <2>1, <2>2, <3>1, TailEvent
    <2>6. F[1].s \in 1..Len(log[sessionId]) /\ F[1].e = log[sessionId][F[1].s]
      BY <2>1, <2>2, <2>3, <2>4, NoneAssumption DEF PipeOfSession, Carries, FromLog
    <2>7. clientSeq' = clientSeq + 1 /\ got' = Append(got, log[sessionId][clientSeq + 1])
          /\ UNCHANGED <<log, sessionId>>
      BY <1>4, <2>1, <2>5, <2>6 DEF HandleDispatch
    <2>8. got \in Seq(1..MaxPublish) /\ clientSeq \in Nat
      BY DEF SessionInv, TypeOK
    <2> HIDE DEF F
    <2>9. CASE sessionId = None
      BY <2>1, <2>3, <2>4, <2>9
    <2>10. CASE sessionId # None
      <3>1. Len(got) = clientSeq /\ \A i \in 1..clientSeq : got[i] = log[sessionId][i]
        BY <2>10 DEF ClientPrefix
      <3>2. clientSeq + 1 <= Len(log[sessionId])
        BY <2>5, <2>6, <2>8
      <3>3. Len(got') = clientSeq' /\ \A i \in 1..clientSeq' : got'[i] = log[sessionId][i]
        BY <2>7, <2>8, <3>1
      <3> QED
        BY <2>7, <2>10, <3>2, <3>3 DEF ClientPrefix
    <2> QED
      BY <2>9, <2>10
  <1>5. CASE \E c \in Conn : Dispatch(c)
    <2>1. PICK c \in Conn : Dispatch(c)
      BY <1>5
    <2>2. UNCHANGED <<sessionId, clientSeq, got>>
      BY <2>1 DEF Dispatch
    <2>3. PICK n, e : log' = [log EXCEPT ![sess[c]] = Append(@, e)]
      BY <2>1 DEF Dispatch, Push
    <2>4. sess[c] \in Conn
      BY <2>1 DEF Dispatch, SessionInv, HandlerInv, HandlerHasSession, Handling
    <2>5. CASE sessionId = None
      BY <2>2, <2>5 DEF ClientPrefix
    <2>6. CASE sessionId # None
      <3>1. sessionId \in Conn /\ log[sessionId] \in Seq(1..MaxPublish) /\ clientSeq \in Nat
        BY <2>6 DEF SessionInv, TypeOK, SessionOrNone
      <3>2. \/ log'[sessionId] = log[sessionId]
            \/ log'[sessionId] = Append(log[sessionId], e)
        BY <2>3, <3>1 DEF SessionInv, TypeOK
      <3>3. /\ Len(log'[sessionId]) >= Len(log[sessionId])
            /\ \A i \in 1..Len(log[sessionId]) : log'[sessionId][i] = log[sessionId][i]
        BY <3>1, <3>2
      <3> QED
        BY <2>2, <2>6, <3>1, <3>3 DEF ClientPrefix
    <2> QED
      BY <2>5, <2>6
  <1>6. CASE \/ Publish \/ ConnectionLost \/ Reap \/ Restart \/ UNCHANGED vars
             \/ \E s \in Conn : TtlElapses(s)
    BY <1>6, <1>1 DEF Publish, ConnectionLost, Reap, Restart, TtlElapses, vars
  <1>7. CASE \E c \in Conn : Connect(c) \/ Reconnect(c)
    BY <1>7, <1>1 DEF Connect, Reconnect, OpenWebSocket
  <1>8. CASE Disconnect \/ HandleInvalid
    BY <1>8, <1>2 DEF Disconnect, HandleInvalid
  <1>9. CASE HandleHello \/ HandleResumed \/ HandleClose
    BY <1>9, <1>1 DEF HandleHello, HandleResumed, HandleClose
  <1>10. ASSUME NEW c \in Conn, Handler(c), ~Dispatch(c) PROVE ClientPrefix'
    <2>1. UNCHANGED <<sessionId, clientSeq, got, log>>
      BY <1>10
      DEF Handler, AuthTimeout, Identify, IdentifyRejected, ResumeLookup, ResumeNotFound,
          ResumeReplay, ResumeGap, MarkConnected, ReadLastSeq, SendReplay, Subscribe,
          SubscribeFails, Unblock, ReadFails, HeartbeatTimeout, WriterFails, FrameLost,
          Reject
    <2> QED
      BY <2>1, <1>1
  <1> QED
    BY <1>3, <1>4, <1>5, <1>6, <1>7, <1>8, <1>9, <1>10 DEF Next, Receive

\* Asking is kept: Receive answers hello with what the client is at.
LEMMA AskingStep ==
    ASSUME HalfOpen = FALSE, TypeOK, LinkUp, QueuesEmpty, Asking, [Next]_vars
    PROVE  Asking'
  <1> USE DEF sessionVars, handlerVars, clientVars
  <1>1. CASE Publish \/ Reap \/ UNCHANGED vars \/ \E s \in Conn : TtlElapses(s)
    BY <1>1 DEF Publish, Reap, TtlElapses, vars, Asking
  <1>2. CASE ConnectionLost \/ Disconnect \/ Restart \/ HandleClose
    BY <1>2 DEF ConnectionLost, Disconnect, Restart, HandleClose, Asking
  <1>3. CASE \E c \in Conn : Connect(c) \/ Reconnect(c)
    BY <1>3 DEF Connect, Reconnect, OpenWebSocket, TypeOK, QueuesEmpty, Asking, NoCommand
  <1>4. CASE HandleHello
    <2>0. Takes("hello") /\ UNCHANGED <<pc, sess, ws, sessionId, clientSeq>>
      BY <1>4 DEF HandleHello
    <2>1. ws \in Conn /\ ws # None /\ out[ws] # <<>>
          /\ out' = [out EXCEPT ![ws] = Tail(out[ws])]
      BY <2>0, TakesType DEF Takes
    <2>2. out'[ws] = Tail(out[ws])
      BY <2>1 DEF TypeOK
    <2>3. pc[ws] # "replay"
      BY <2>1 DEF Asking
    <2>4. pc[ws] = "auth" => out'[ws] = <<>>
      <3>1. pc[ws] = "auth" => out[ws] = <<Ctl("hello", None)>>
        BY <2>1 DEF Asking
      <3>2. \A f : Tail(<<f>>) = <<>>
        OBVIOUS
      <3> QED
        BY <2>2, <3>1, <3>2
    <2>5. IF sessionId # None
          THEN cmd'[ws] = [op |-> "resume", sid |-> sessionId, seq |-> clientSeq]
          ELSE cmd'[ws] = [op |-> "identify", sid |-> None, seq |-> 0]
      BY <1>4, <2>1 DEF HandleHello, TypeOK
    <2>6. \/ sessionId # None /\ cmd'[ws].op = "resume" /\ cmd'[ws].sid = sessionId
             /\ cmd'[ws].seq = clientSeq
          \/ sessionId = None /\ cmd'[ws].op = "identify"
      BY <2>5
    <2> QED
      BY <2>0, <2>1, <2>3, <2>4, <2>6 DEF Asking
  <1>5. CASE HandleReady \/ HandleResumed \/ HandleDispatch \/ HandleInvalid
    <2>1. ws \in Conn /\ pc[ws] \notin {"auth", "replay"}
      BY <1>5
      DEF HandleReady, HandleResumed, HandleDispatch, HandleInvalid, Takes, Asking, TypeOK,
          SessionOrNone, Ctl
    <2> QED
      BY <1>5, <2>1 DEF HandleReady, HandleResumed, HandleDispatch, HandleInvalid, Asking
  <1>6. CASE \E c \in Conn : Handler(c)
    <2>1. PICK c \in Conn : Handler(c)
      BY <1>6
    <2>2. Running(c) /\ UNCHANGED <<up, clientVars>> /\ (ws # None => c = ws)
      BY <2>1, HandlerIsLocal DEF LinkUp
    <2>3. CASE ResumeLookup(c)
      BY <2>2, <2>3 DEF ResumeLookup, Asking, TypeOK, NoCommand
    <2>4. CASE WriterFails(c) \/ FrameLost(c)
      BY <2>2, <2>4 DEF WriterFails, FrameLost, Asking, LinkUp
    <2>5. CASE ~ResumeLookup(c) /\ ~WriterFails(c) /\ ~FrameLost(c)
      <3>1. pc'[c] \notin {"auth", "replay"}
        BY <2>1, <2>5
        DEF Handler, AuthTimeout, Identify, IdentifyRejected, ResumeNotFound, ResumeReplay,
            ResumeGap, MarkConnected, ReadLastSeq, SendReplay, Subscribe, SubscribeFails,
            Dispatch, Cleanup, Unblock, ReadFails, HeartbeatTimeout, Reject, Returns, TypeOK
      <3> QED
        BY <2>2, <3>1 DEF Asking
    <2> QED
      BY <2>3, <2>4, <2>5
  <1> QED
    BY <1>1, <1>2, <1>3, <1>4, <1>5, <1>6 DEF Next, Receive

\* What the rest of a queue holds, the queue holds, and not at its head.
LEMMA HoldsTail ==
    ASSUME NEW F \in Seq(Frame), F # <<>>, NEW op, Holds(Tail(F), op)
    PROVE  Holds(F, op) /\ \E i \in 2..Len(F) : F[i].op = op
  BY TailShift DEF Holds

\* What a queue holds after a frame was added.
LEMMA HoldsAppend ==
    ASSUME NEW F \in Seq(Frame), NEW f \in Frame, NEW op
    PROVE  Holds(Append(F, f), op) <=> Holds(F, op) \/ f.op = op
  <1> DEFINE A == Append(F, f)
  <1>1. /\ Len(A) = Len(F) + 1 /\ Len(F) \in Nat /\ A[Len(A)] = f
        /\ \A i \in 1..Len(F) : A[i] = F[i] /\ i \in 1..Len(A)
        /\ \A i \in 1..Len(A) : i = Len(A) \/ i \in 1..Len(F)
    OBVIOUS
  <1> HIDE DEF A
  <1>2. Holds(A, op) <=> Holds(F, op) \/ f.op = op
    BY <1>1 DEF Holds
  <1> QED
    BY <1>2 DEF A

\* A queue without events continues every client and carries every log.
LEMMA NoEvents ==
    ASSUME NEW F, ~Holds(F, "event")
    PROVE  /\ \A from : Follows(F, from)
           /\ \A l : FromLog(F, l)
  BY DEF Holds, Follows, FromLog, IsEvent

\* What the empty queue and a queue of one frame hold.
LEMMA Singles ==
    /\ \A op : ~Holds(<<>>, op)
    /\ \A f, op : Holds(<<f>>, op) <=> f.op = op
  BY DEF Holds

\* The step touches neither the session of c, its log nor the client's state.
Same(c) == /\ sess'[c] = sess[c]
           /\ UNCHANGED <<log, lastSeq, sessionId, clientSeq>>
           /\ pc'[c] \in InSession => pc[c] \in InSession

\* A step that leaves what is on its way in c keeps Carries.
LEMMA PipeStill ==
    ASSUME TypeOK, NEW c \in Conn, Carries(c), Pipe(c)' = Pipe(c), Same(c),
           \/ pc'[c] \in {"auth", "done"}
           \/ ~Holds(Pipe(c), "hello") /\ ~Holds(Pipe(c), "invalid")
    PROVE  Carries(c)'
  BY DEF Carries, Same

\* A control frame sent at the end of a replay, or to close, keeps Carries.
LEMMA PipeGets ==
    ASSUME TypeOK, NEW c \in Conn, Carries(c), Same(c),
           NEW f \in Frame, f.op \in {"resumed", "close"},
           Pipe(c)' = Append(Pipe(c), f),
           \/ pc'[c] \in {"auth", "done"}
           \/ ~Holds(Pipe(c), "hello") /\ ~Holds(Pipe(c), "invalid")
    PROVE  Carries(c)'
  <1> DEFINE F == Pipe(c)
             A == Append(F, f)
  <1>1. F \in Seq(Frame) /\ clientSeq \in Nat /\ ~IsEvent(f)
    BY PipeType DEF IsEvent, TypeOK
  <1> HIDE DEF F
  <1>2. /\ Len(A) = Len(F) + 1 /\ Len(F) \in Nat /\ A[Len(A)] = f /\ A # <<>>
        /\ \A i \in 1..Len(F) : A[i] = F[i] /\ i \in 1..Len(A)
        /\ \A i \in 1..Len(A) : i = Len(A) \/ i \in 1..Len(F)
        /\ F # <<>> => A[1] = F[1]
    BY <1>1
  <1>3. \A op : op \notin {"resumed", "close"} => (Holds(A, op) <=> Holds(F, op))
    BY <1>1, HoldsAppend
  <1>4. /\ Follows(F, clientSeq) => Follows(A, clientSeq)
        /\ FromLog(F, log[sess[c]]) => FromLog(A, log[sess[c]])
        /\ Reaches(F, clientSeq, lastSeq[sess[c]]) =>
             Reaches(A, clientSeq, lastSeq[sess[c]])
    <2>1. \A n : Reaches(F, clientSeq, n) => Reaches(A, clientSeq, n)
      BY <1>2 DEF Reaches
    <2> QED
      BY <1>1, <2>1, AppendControl, 0 \in Nat
  <1> HIDE DEF A
  <1>5. Pipe(c)' = A /\ Pipe(c) = F
    BY DEF A, F
  <1>6. \A i \in 1..Len(A) : A[i].op = "ready" => i \in 1..Len(F) /\ A[i] = F[i]
    BY <1>2
  <1> QED
    BY <1>2, <1>3, <1>4, <1>5, <1>6 DEF Carries, Same

\* A connection that carries no event and is in no session satisfies Carries.
LEMMA PipeBegins ==
    ASSUME NEW c \in Conn, ~Holds(Pipe(c)', "event"), ~Holds(Pipe(c)', "ready"),
           pc'[c] \notin InSession,
           \/ pc'[c] \in {"auth", "done"}
           \/ ~Holds(Pipe(c)', "hello") /\ ~Holds(Pipe(c)', "invalid")
    PROVE  Carries(c)'
  BY NoEvents DEF Carries, Holds

\* Carries is kept when the client receives a frame.
LEMMA PipeReceive ==
    ASSUME SessionInv, ClientPrefix, NEW c \in Conn, ws = c, ws' = c, Carries(c), Receive
    PROVE  Carries(c)'
  <1> USE DEF sessionVars
  <1> DEFINE F == Pipe(c)
             T == Tail(F)
  <1>0. ~HandleClose
    BY NoneAssumption DEF HandleClose
  <1>1. /\ F \in Seq(Frame) /\ F # <<>>
        /\ Head(F) = Head(out[c]) /\ F[1] = Head(F) /\ out'[c] \o tosend'[c] = T
    BY <1>0, PipeTakes
    DEF SessionInv, Receive, HandleHello, HandleReady, HandleResumed, HandleDispatch,
        HandleInvalid
  <1>2. Carries(c)
    OBVIOUS
  <1>3. UNCHANGED <<pc, sess, log, lastSeq>>
    BY <1>0
    DEF Receive, HandleHello, HandleReady, HandleResumed, HandleDispatch, HandleInvalid
  <1>5. Pipe(c)' = T /\ Pipe(c) = F
    BY <1>1 DEF Pipe
  <1>6. /\ T \in Seq(Frame)
        /\ \A i \in 1..Len(T) : T[i] = F[i+1] /\ i + 1 \in 2..Len(F)
    BY <1>1, TailShift
  <1>7. \A op : Holds(T, op) => Holds(F, op)
    BY <1>1, HoldsTail
  <1>8. 1 \in 1..Len(F)
    BY <1>1
  <1>9. ~Holds(T, "ready")
    BY <1>2, <1>5, <1>6 DEF Carries, Holds
  <1>10. clientSeq \in Nat /\ Follows(F, clientSeq)
    BY <1>2, <1>5 DEF Carries, SessionInv, TypeOK
  <1> HIDE DEF F, T
  <1>11. FromLog(F, log[sess[c]]) => FromLog(T, log[sess[c]])
    BY <1>1, TailLog DEF T
  <1>12. CASE HandleHello \/ HandleInvalid
    <2>1. Holds(F, "hello") \/ Holds(F, "invalid")
      BY <1>1, <1>8, <1>12 DEF HandleHello, HandleInvalid, Takes, Holds
    <2>2. ~Holds(F, "event") /\ pc[c] \in {"auth", "done"}
      BY <1>2, <1>5, <2>1 DEF Carries
    <2>3. ~Holds(T, "event") /\ pc'[c] \in {"auth", "done"}
      BY <1>3, <1>7, <2>2
    <2> QED
      BY <1>5, <1>9, <2>3, PipeBegins DEF InSession, Replaying
  <1>13. CASE HandleReady
    <2>1. F[1].op = "ready" /\ ~IsEvent(Head(F))
      BY <1>1, <1>13 DEF HandleReady, Takes, IsEvent
    <2>2. sessionId = None /\ F[1].sid = sess[c] /\ sess[c] \in Conn
      BY <1>2, <1>5, <1>8, <2>1 DEF Carries
    <2>3. sessionId' = sess[c] /\ sessionId' # None /\ clientSeq' = clientSeq
      BY <1>1, <1>13, <2>2, NoneAssumption DEF HandleReady
    <2>4. /\ Follows(T, clientSeq)
          /\ \A n \in Nat : Reaches(F, clientSeq, n) => Reaches(T, clientSeq, n)
      BY <1>1, <1>10, <2>1, TailControl DEF T
    <2>5. lastSeq[sess[c]] \in Nat
      BY <2>2 DEF SessionInv, TypeOK
    <2>6. ~Holds(F, "hello") /\ ~Holds(F, "invalid")
      BY <1>2, <1>5, <1>8, <2>1 DEF Carries, Holds
    <2>7. \A i \in 1..Len(T) : T[i].op # "ready"
      BY <1>9 DEF Holds
    <2> QED
      BY <1>2, <1>3, <1>5, <1>7, <1>11, <2>3, <2>4, <2>5, <2>6, <2>7 DEF Carries
  <1>14. CASE HandleResumed
    <2>1. F[1].op = "resumed" /\ ~IsEvent(Head(F))
      BY <1>1, <1>14 DEF HandleResumed, Takes, IsEvent
    <2>3. UNCHANGED <<sessionId, clientSeq>>
      BY <1>14 DEF HandleResumed
    <2>4. /\ Follows(T, clientSeq)
          /\ \A n \in Nat : Reaches(F, clientSeq, n) => Reaches(T, clientSeq, n)
      BY <1>1, <1>10, <2>1, TailControl DEF T
    <2>5. pc[c] \in InSession => lastSeq[sess[c]] \in Nat
      BY DEF SessionInv, HandlerInv, HandlerHasSession, InSession, Replaying, Handling,
             TypeOK
    <2>7. \A i \in 1..Len(T) : T[i].op # "ready"
      BY <1>9 DEF Holds
    <2> QED
      BY <1>2, <1>3, <1>5, <1>7, <1>11, <2>1, <2>3, <2>4, <2>5, <2>7 DEF Carries
  <1>15. CASE HandleDispatch
    <2>1. F[1].op = "event" /\ IsEvent(Head(F)) /\ Holds(F, "event")
      BY <1>1, <1>8, <1>15 DEF HandleDispatch, Takes, IsEvent, Holds
    <2>2. sessionId = sess[c] /\ sessionId # None /\ FromLog(F, log[sess[c]])
      BY <1>2, <1>5, <2>1 DEF Carries
    <2>3. /\ Head(F).s = clientSeq + 1
          /\ Follows(T, clientSeq + 1)
          /\ \A n \in Nat : n # clientSeq /\ Reaches(F, clientSeq, n) =>
                             Reaches(T, clientSeq + 1, n)
      BY <1>1, <1>10, <2>1, TailEvent DEF T
    <2>4. sessionId' = sessionId /\ clientSeq' = clientSeq + 1
      BY <1>1, <1>15, <2>3 DEF HandleDispatch
    <2>5. lastSeq[sess[c]] \in Nat /\ lastSeq[sess[c]] # clientSeq
      <3>1. sess[c] \in Conn
        BY <2>2 DEF SessionInv, TypeOK, SessionOrNone
      <3>2. F[1].s \in 1..Len(log[sess[c]]) /\ lastSeq[sess[c]] = Len(log[sess[c]])
        BY <1>8, <2>1, <2>2, <3>1, <1>1
        DEF FromLog, SessionInv, HandlerInv, BufferIsTailOfLog
      <3> QED
        BY <3>1, <3>2, <2>3, <1>1, <1>10 DEF SessionInv, TypeOK
    <2>6. ~Holds(F, "hello") /\ ~Holds(F, "invalid")
      BY <1>2, <1>5, <2>1 DEF Carries
    <2>7. \A i \in 1..Len(T) : T[i].op # "ready"
      BY <1>9 DEF Holds
    <2> QED
      BY <1>2, <1>3, <1>5, <1>7, <1>11, <2>2, <2>3, <2>4, <2>5, <2>6, <2>7 DEF Carries
  <1> QED
    BY <1>0, <1>12, <1>13, <1>14, <1>15 DEF Receive

\* Carries is kept by every step of the handler of c (gateway.rs handle_socket).
LEMMA PipeHandler ==
    ASSUME SessionInv, LinkUp, QueuesEmpty, ClientPrefix, Asking,
           NEW c \in Conn, ws = c, Carries(c), Handler(c)
    PROVE  Carries(c)'
  <1> USE DEF sessionVars, clientVars
  <1> DEFINE F == Pipe(c)
  <1>0. /\ F \in Seq(Frame) /\ out[c] \in Seq(Frame) /\ tosend[c] \in Seq(Frame)
        /\ clientSeq \in Nat
        /\ up[c] /\ writer[c] /\ ws # None
    BY PipeType, NoneAssumption DEF LinkUp, SessionInv, TypeOK
  <1>t. tosend[c] # <<>> => pc[c] \in {"mark", "lastseq", "sending", "blocked"}
    BY DEF QueuesEmpty, Replaying
  <1>e. tosend[c] = <<>> => F = out[c]
    BY <1>0, ConcatEmptySeq DEF Pipe
  <1>f. \A op \in {"resumed", "close", "invalid", "ready"} :
          /\ Ctl(op, None) \in Frame /\ Ctl(op, None).op = op
          /\ Ctl(op, c) \in Frame /\ Ctl(op, c).op = op /\ Ctl(op, c).sid = c
    BY FrameType DEF Ctl
  <1>1. CASE AuthTimeout(c) \/ IdentifyRejected(c) \/ ResumeNotFound(c) \/ ResumeGap(c)
    <2>1. pc[c] \in {"auth", "replay"} /\ Reject(c)
      BY <1>1 DEF AuthTimeout, IdentifyRejected, ResumeNotFound, ResumeGap
    <2>2. out[c] = <<>> \/ out[c] = <<Ctl("hello", None)>>
      BY <2>1, <1>0 DEF Asking
    <2>3. ~Holds(out[c], "event") /\ ~Holds(out[c], "ready")
      BY <2>2, Singles DEF Ctl
    <2>4. /\ out'[c] = out[c] \o Append(<<Ctl("invalid", None)>>, Ctl("close", None))
          /\ tosend'[c] = <<>> /\ pc'[c] = "done"
      BY <1>0, <2>1 DEF Reject, Returns, Sent, SessionInv, TypeOK
    <2> DEFINE I == Append(out[c], Ctl("invalid", None))
    <2>5. Pipe(c)' = Append(I, Ctl("close", None))
      <3>1. \A f, g \in Frame : (out[c] \o Append(<<f>>, g)) \o <<>>
                                  = Append(Append(out[c], f), g)
        BY <1>0
      <3> QED
        BY <3>1, <1>f, <2>4 DEF Pipe
    <2>6. ~Holds(Pipe(c)', "event") /\ ~Holds(Pipe(c)', "ready")
      <3>1. I \in Seq(Frame)
        BY <1>0, <1>f
      <3>2. \A op \in {"event", "ready"} : ~Holds(I, op)
        BY <1>0, <1>f, <2>3, HoldsAppend
      <3> HIDE DEF I
      <3>3. \A op \in {"event", "ready"} : ~Holds(Append(I, Ctl("close", None)), op)
        BY <1>f, <3>1, <3>2, HoldsAppend
      <3> QED
        BY <2>5, <3>3
    <2> QED
      BY <2>4, <2>6, PipeBegins DEF InSession, Replaying
  <1>2. CASE Identify(c)
    <2>1. pc[c] = "auth" /\ out[c] = <<>> /\ tosend[c] = <<>> /\ sessionId = None
      BY <1>0, <1>2, <1>t DEF Identify, Asking, NoCommand
    <2>2. /\ out'[c] = <<Ctl("ready", c)>> /\ tosend'[c] = <<>> /\ sess'[c] = c
          /\ pc'[c] = "subscribe"
      BY <1>0, <1>2, <2>1 DEF Identify, Sent, SessionInv, TypeOK
    <2>3. Pipe(c)' = <<Ctl("ready", c)>>
      BY <2>2, <1>f DEF Pipe
    <2>4. /\ UNCHANGED <<sessionId, clientSeq, lastSeq, log>> /\ clientSeq = 0
          /\ lastSeq[c] = 0
      BY <1>2, <2>1
      DEF Identify, ClientPrefix, SessionInv, HandlerInv, FreshConnection, BufferIsTailOfLog
    <2>5. \A op : Holds(Pipe(c)', op) <=> op = "ready"
      BY <2>3, <1>f, Singles
    <2>6. /\ Len(Pipe(c)') = 1 /\ Pipe(c)'[1].op = "ready" /\ Pipe(c)'[1].sid = c
          /\ Pipe(c)' # <<>>
      BY <2>3, <1>f
    <2>7. Follows(Pipe(c)', 0)
      BY <2>5, NoEvents
    <2> QED
      BY <2>1, <2>2, <2>4, <2>5, <2>6, <2>7 DEF Carries, Reaches
  <1>3. CASE ResumeLookup(c)
    <2>1. out[c] = <<>> /\ tosend[c] = <<>>
      BY <1>0, <1>3, <1>t DEF ResumeLookup, Asking, NoCommand
    <2>2. Pipe(c)' = <<>> /\ pc'[c] = "replay"
      BY <1>3, <2>1 DEF ResumeLookup, Pipe, SessionInv, TypeOK
    <2> QED
      BY <2>2, Singles, PipeBegins DEF InSession, Replaying
  <1>4. CASE ResumeReplay(c)
    <2>0. /\ pc[c] = "replay" /\ out[c] = <<>> /\ sess[c] = sessionId
          /\ cmd[c].seq = clientSeq
          /\ ~Gap(sess[c], clientSeq)
      BY <1>0, <1>4 DEF ResumeReplay, Asking
    <2>1. /\ sess[c] \in Conn /\ sessionId # None /\ clientSeq <= lastSeq[sess[c]]
          /\ BufferIsTailOfLog /\ TypeOK
      BY <2>0, NoneAssumption
      DEF SessionInv, HandlerInv, HandlerHasSession, Handling, ClientPrefix,
          BufferIsTailOfLog
    <2>2. PICK n \in 0..Len(events[sess[c]]) :
            \E pos \in [1..n -> 1..Len(events[sess[c]])] :
              /\ Replays(sess[c], clientSeq, pos)
              /\ tosend' = [tosend EXCEPT ![c] = ReplayFrames(sess[c], pos)]
      BY <1>4, <2>0 DEF ResumeReplay
    <2>3. PICK pos \in [1..n -> 1..Len(events[sess[c]])] :
              /\ Replays(sess[c], clientSeq, pos)
              /\ tosend' = [tosend EXCEPT ![c] = ReplayFrames(sess[c], pos)]
      BY <2>2
    <2> DEFINE R == ReplayFrames(sess[c], pos)
    <2>4. /\ R \in Seq(Frame) /\ \A i \in 1..Len(R) : IsEvent(R[i])
          /\ Follows(R, clientSeq) /\ Reaches(R, clientSeq, lastSeq[sess[c]])
          /\ FromLog(R, log[sess[c]])
      BY <1>0, <2>0, <2>1, <2>3, ReplayFollows
    <2> HIDE DEF R
    <2>5. Pipe(c)' = R
      <3>1. out'[c] = <<>> /\ tosend'[c] = R
        BY <1>4, <2>0, <2>3 DEF ResumeReplay, SessionInv, TypeOK, R
      <3> QED
        BY <3>1, <2>4, ConcatEmptySeq DEF Pipe
    <2>6. UNCHANGED <<sessionId, clientSeq, lastSeq, log, sess>>
      BY <1>4 DEF ResumeReplay
    <2>7. \A op : op # "event" => ~Holds(R, op)
      BY <2>4 DEF Holds, IsEvent
    <2> QED
      BY <2>0, <2>1, <2>4, <2>5, <2>6, <2>7 DEF Carries, Holds
  <1>5. CASE MarkConnected(c) \/ ReadLastSeq(c) \/ Subscribe(c)
    <2>1. Same(c) /\ pc[c] \in InSession
      BY <1>5 DEF MarkConnected, ReadLastSeq, Subscribe, Same, InSession, Replaying
    <2>2. Pipe(c)' = F
      BY <1>5 DEF MarkConnected, ReadLastSeq, Subscribe, Pipe
    <2>3. ~Holds(F, "hello") /\ ~Holds(F, "invalid")
      BY <2>1 DEF Carries, InSession, Replaying
    <2> QED
      BY <2>1, <2>2, <2>3, PipeStill DEF SessionInv
  <1>6. CASE SendReplay(c)
    <2>1. Same(c) /\ pc[c] = "sending"
      BY <1>6, <1>0 DEF SendReplay, Same, InSession, Replaying, SessionInv, TypeOK
    <2>3. ~Holds(F, "hello") /\ ~Holds(F, "invalid")
      BY <2>1 DEF Carries, InSession, Replaying
    <2>4. CASE tosend[c] # <<>>
      <3>1. out'[c] = out[c] \o <<Head(tosend[c])>> /\ tosend'[c] = Tail(tosend[c])
        BY <1>0, <1>6, <2>4 DEF SendReplay, Sent, SessionInv, TypeOK
      <3>2. (out[c] \o <<Head(tosend[c])>>) \o Tail(tosend[c]) = out[c] \o tosend[c]
        BY <1>0, <2>4, HeadMoves
      <3>3. Pipe(c)' = F
        BY <3>1, <3>2 DEF Pipe
      <3> QED
        BY <2>1, <2>3, <3>3, PipeStill DEF SessionInv
    <2>5. CASE tosend[c] = <<>>
      <3>1. out'[c] = out[c] \o <<Ctl("resumed", None)>> /\ tosend'[c] = <<>>
        BY <1>0, <1>6, <2>5 DEF SendReplay, Sent, SessionInv, TypeOK
      <3>2. Pipe(c)' = Append(F, Ctl("resumed", None))
        BY <1>0, <1>e, <1>f, <2>5, <3>1 DEF Pipe
      <3> QED
        BY <1>f, <2>1, <2>3, <3>2, PipeGets DEF SessionInv
    <2> QED
      BY <2>4, <2>5
  <1>7. CASE SubscribeFails(c)
    <2>1. /\ pc[c] = "subscribe" /\ tosend[c] = <<>> /\ pc'[c] = "done" /\ tosend' = tosend
          /\ UNCHANGED <<sess, log, lastSeq, sessionId, clientSeq>>
      BY <1>7, <1>t DEF SubscribeFails, SessionInv, TypeOK
    <2>2. PICK k \in 0..Len(out[c]) :
            out' = [out EXCEPT ![c] = Append(SubSeq(@, 1, k), Ctl("close", None))]
      BY <1>7 DEF SubscribeFails
    <2> DEFINE P == SubSeq(F, 1, k)
               A == Append(P, Ctl("close", None))
    <2>3. /\ Pipe(c)' = A /\ P \in Seq(Frame) /\ k \in 0..Len(F) /\ Len(P) = k
          /\ \A i \in 1..k : P[i] = F[i]
      <3>1. F = out[c]
        BY <1>e, <2>1
      <3>2. out'[c] = A /\ tosend'[c] = <<>>
        BY <2>1, <2>2, <3>1 DEF SessionInv, TypeOK
      <3>3. P \in Seq(Frame) /\ k \in 0..Len(F) /\ Len(P) = k /\ \A i \in 1..k : P[i] = F[i]
        BY <1>0, <3>1
      <3>4. A \in Seq(Frame)
        BY <3>3, <1>f
      <3> QED
        BY <3>2, <3>3, <3>4, ConcatEmptySeq DEF Pipe
    <2>4. /\ Follows(F, clientSeq) => Follows(P, clientSeq)
          /\ FromLog(F, log[sess[c]]) => FromLog(P, log[sess[c]])
          /\ \A op : Holds(P, op) => Holds(F, op)
      BY <1>0, <2>3, PrefixKeeps
    <2> HIDE DEF F, P
    <2>5. /\ Follows(P, clientSeq) => Follows(A, clientSeq)
          /\ FromLog(P, log[sess[c]]) => FromLog(A, log[sess[c]])
          /\ \A op : Holds(A, op) <=> Holds(P, op) \/ op = "close"
      <3>1. /\ Ctl("close", None) \in Frame /\ ~IsEvent(Ctl("close", None))
            /\ Ctl("close", None).op = "close"
        BY <1>f DEF IsEvent
      <3>2. \A op : Holds(A, op) <=> Holds(P, op) \/ op = "close"
        BY <2>3, <3>1, HoldsAppend
      <3> QED
        BY <1>0, <2>3, <3>1, <3>2, AppendControl, 0 \in Nat
    <2>6. /\ A # <<>> /\ (P # <<>> => A[1] = F[1] /\ F # <<>>)
          /\ \A i \in 1..Len(A) : A[i].op = "ready" => i \in 1..Len(F) /\ A[i] = F[i]
      BY <1>0, <1>f, <2>3
    <2>7. Holds(P, "event") => P # <<>>
      BY Singles
    <2>8. pc'[c] \notin InSession /\ F = Pipe(c)
      BY <2>1 DEF F, InSession, Replaying
    <2> HIDE DEF A
    <2> QED
      BY <2>1, <2>3, <2>4, <2>5, <2>6, <2>7, <2>8 DEF Carries
  <1>8. CASE Dispatch(c)
    <2> DEFINE s == sess[c]
               e == Head(inbox[c])
               f == EventFrame(Len(log[s]) + 1, e)
    <2>1. pc[c] = "live" /\ inbox[c] # <<>> /\ tosend[c] = <<>> /\ pc[c] \in InSession
      BY <1>8, <1>t DEF Dispatch, InSession, Replaying
    <2>2. /\ s \in Conn /\ seq[c] = lastSeq[s] /\ lastSeq[s] = Len(log[s])
          /\ log[s] \in Seq(1..MaxPublish)
      BY <2>1
      DEF SessionInv, HandlerInv, HandlerHasSession, SeqInStep, BufferIsTailOfLog, Handling,
          Numbering, TypeOK
    <2>3. e \in 1..MaxPublish
      <3>1. inbox[c] \in Seq(1..MaxPublish)
        BY DEF SessionInv, TypeOK
      <3>2. \A q \in Seq(1..MaxPublish) : q # <<>> => Head(q) \in 1..MaxPublish
        BY HeadTailProperties
      <3> QED
        BY <2>1, <3>1, <3>2
    <2>4. /\ lastSeq'[s] = Len(log[s]) + 1 /\ log'[s] = Append(log[s], e) /\ sess' = sess
          /\ UNCHANGED <<sessionId, clientSeq>>
      <3>1. Push(s, seq[c] + 1, e) /\ sess' = sess /\ UNCHANGED <<sessionId, clientSeq>>
        BY <1>8 DEF Dispatch
      <3> QED
        BY <2>2, <3>1 DEF Push, SessionInv, TypeOK
    <2>5. f \in Frame /\ f.op = "event"
      <3>1. f.op = "event"
        BY DEF EventFrame
      <3>2. Len(log[s]) + 1 \in Nat
        BY <2>2
      <3> HIDE DEF e, s
      <3> QED
        BY <2>3, <3>1, <3>2, FrameType
    <2>6. /\ Pipe(c)' = Append(F, f)
          /\ pc'[c] \in InSession
      <3>1. \/ out'[c] = out[c] \o <<f>> /\ tosend'[c] = <<>> /\ pc'[c] = "live"
            \/ out'[c] = out[c] /\ tosend'[c] = <<f>> /\ pc'[c] = "blocked"
        <4>1. f = EventFrame(seq[c] + 1, e)
          BY <2>2
        <4>2. \/ Sent(c, <<f>>) /\ UNCHANGED <<pc, tosend>>
              \/ /\ out' = out /\ tosend' = [tosend EXCEPT ![c] = <<f>>]
                 /\ pc' = [pc EXCEPT ![c] = "blocked"]
          BY <1>0, <1>8, <4>1 DEF Dispatch
        <4> HIDE DEF f
        <4> QED
          BY <1>0, <2>1, <4>2 DEF Sent, SessionInv, TypeOK
      <3> HIDE DEF f
      <3>2. /\ F = out[c] /\ (out[c] \o <<f>>) \o <<>> = Append(out[c], f)
            /\ out[c] \o <<f>> = Append(out[c], f)
        BY <1>0, <1>e, <2>1, <2>5
      <3>3. Pipe(c)' = Append(F, f)
        BY <3>1, <3>2 DEF Pipe
      <3> QED
        BY <3>1, <3>3 DEF InSession, Replaying
    <2> DEFINE A == Append(F, f)
    <2>7. /\ \/ sessionId = s /\ sessionId # None
             \/ sessionId = None /\ F # <<>> /\ F[1].op = "ready"
          /\ Follows(F, clientSeq) /\ Reaches(F, clientSeq, Len(log[s]))
          /\ FromLog(F, log[s])
          /\ ~Holds(F, "hello") /\ ~Holds(F, "invalid")
      <3>1. pc[c] \notin {"auth", "done"}
        BY <2>1
      <3>2. ~Holds(F, "event") => FromLog(F, log[s])
        BY NoEvents
      <3> HIDE DEF F
      <3>3. Pipe(c) = F
        BY DEF F
      <3>4. /\ \/ sessionId = s /\ sessionId # None
               \/ sessionId = None /\ F # <<>> /\ F[1].op = "ready"
            /\ Follows(F, clientSeq) /\ Reaches(F, clientSeq, lastSeq[s])
        BY <2>1, <3>3 DEF Carries
      <3>5. FromLog(F, log[s]) /\ ~Holds(F, "hello") /\ ~Holds(F, "invalid")
        BY <3>1, <3>2, <3>3 DEF Carries
      <3> QED
        BY <2>2, <3>4, <3>5
    <2>8. clientSeq <= Len(log[s])
      BY <1>0, <2>2, <2>7 DEF ClientPrefix
    <2>9. /\ Follows(A, clientSeq) /\ Reaches(A, clientSeq, Len(log[s]) + 1)
          /\ FromLog(A, Append(log[s], e))
      <3> HIDE DEF F, s, e
      <3> QED
        BY <1>0, <2>2, <2>3, <2>7, <2>8, AppendEvent DEF f
    <2> HIDE DEF f
    <2>10. \A op : Holds(A, op) <=> Holds(F, op) \/ op = "event"
      BY <1>0, <2>5, HoldsAppend
    <2>11. /\ A # <<>>
           /\ F # <<>> => A[1] = F[1]
           /\ \A i \in 1..Len(A) : A[i].op = "ready" => i \in 1..Len(F) /\ A[i] = F[i]
      <3>1. F \in Seq(Frame) /\ f.op # "ready"
        BY <1>0, <2>5
      <3> HIDE DEF F
      <3>2. /\ Len(A) = Len(F) + 1 /\ Len(F) \in Nat /\ A[Len(A)] = f
            /\ \A i \in 1..Len(F) : A[i] = F[i]
        BY <3>1
      <3>3. F # <<>> => 1 \in 1..Len(F)
        BY <3>1
      <3>4. A # <<>>
        BY <3>1, <3>2
      <3> HIDE DEF A
      <3> QED
        BY <3>1, <3>2, <3>3, <3>4
    <2> HIDE DEF A
    <2>12. Pipe(c)' = A /\ Pipe(c) = F
      BY <2>6 DEF A
    <2>13. \A i \in 1..Len(F) : F[i].op = "ready" =>
             i = 1 /\ F[i].sid = s /\ s \in Conn /\ sessionId = None
      BY DEF Carries
    <2> HIDE DEF F
    <2> QED
      BY <2>2, <2>4, <2>6, <2>7, <2>9, <2>10, <2>11, <2>12, <2>13 DEF Carries
  <1>9. CASE Unblock(c)
    <2>1. Same(c) /\ pc[c] \in InSession
      BY <1>9, <1>0 DEF Unblock, Same, InSession, Replaying
    <2>2. out'[c] = out[c] \o tosend[c] /\ tosend'[c] = <<>>
      BY <1>9, <1>0 DEF Unblock, Sent, SessionInv, TypeOK
    <2>3. Pipe(c)' = F
      BY <1>0, <2>2, ConcatEmptySeq DEF Pipe
    <2>4. ~Holds(F, "hello") /\ ~Holds(F, "invalid")
      BY <2>1 DEF Carries, InSession, Replaying
    <2> QED
      BY <2>1, <2>3, <2>4, PipeStill DEF SessionInv
  <1>10. CASE HeartbeatTimeout(c)
    <2>1. pc[c] = "live" /\ tosend[c] = <<>> /\ pc'[c] = "done" /\ Same(c)
      BY <1>10, <1>t
      DEF HeartbeatTimeout, Cleanup, Returns, SessionInv, TypeOK, Same, InSession, Replaying
    <2>2. out'[c] = out[c] \o <<Ctl("close", None)>> /\ tosend'[c] = <<>>
      BY <1>0, <1>10 DEF HeartbeatTimeout, Cleanup, Returns, Sent, SessionInv, TypeOK
    <2>3. Pipe(c)' = Append(F, Ctl("close", None))
      BY <1>0, <1>e, <1>f, <2>1, <2>2 DEF Pipe
    <2> QED
      BY <1>f, <2>1, <2>3, PipeGets DEF SessionInv
  <1>11. CASE ReadFails(c) \/ WriterFails(c) \/ FrameLost(c)
    BY <1>0, <1>11 DEF ReadFails, WriterFails, FrameLost
  <1> QED
    BY <1>1, <1>2, <1>3, <1>4, <1>5, <1>6, <1>7, <1>8, <1>9, <1>10, <1>11 DEF Handler

\* The connection the client listens to keeps continuing it.
LEMMA PipeStep ==
    ASSUME HalfOpen = FALSE, SessionInv, LinkUp, QueuesEmpty, ClientPrefix, Asking,
           PipeOfSession, [Next]_vars
    PROVE  PipeOfSession'
  <1> USE DEF sessionVars, handlerVars, clientVars
  <1>1. CASE ws' = None
    BY <1>1 DEF PipeOfSession
  <1>2. CASE \E c \in Conn : Connect(c) \/ Reconnect(c)
    <2>1. PICK c \in Conn : OpenWebSocket(c)
      BY <1>2 DEF Connect, Reconnect
    <2>2. /\ out'[c] = <<Ctl("hello", None)>> /\ tosend'[c] = <<>> /\ pc'[c] = "auth"
          /\ ws' = c
      BY <2>1 DEF OpenWebSocket, QueuesEmpty, Replaying, SessionInv, TypeOK
    <2>3. Pipe(c)' = <<Ctl("hello", None)>>
      BY <2>2 DEF Pipe
    <2>4. Carries(c)'
      BY <2>2, <2>3, Singles, PipeBegins DEF Ctl, InSession, Replaying
    <2> QED
      BY <2>2, <2>4 DEF PipeOfSession
  <1>3. CASE \E c \in Conn : Handler(c)
    <2>1. PICK c \in Conn : Handler(c)
      BY <1>3
    <2>2. ws' = ws /\ (ws # None => c = ws)
      BY <2>1, HandlerIsLocal DEF LinkUp, SessionInv
    <2> QED
      BY <1>1, <2>1, <2>2, PipeHandler DEF PipeOfSession
  <1>4. CASE Receive /\ ws' # None
    <2>1. ws \in Conn /\ ws' = ws
      BY <1>4
      DEF Receive, HandleHello, HandleReady, HandleResumed, HandleDispatch, HandleInvalid,
          HandleClose, Takes, SessionInv, TypeOK, SessionOrNone
    <2>2. PICK c \in Conn : c = ws
      BY <2>1
    <2> QED
      BY <1>4, <2>1, <2>2, NoneAssumption, PipeReceive DEF PipeOfSession
  <1>5. CASE Publish \/ Reap \/ UNCHANGED vars \/ \E s \in Conn : TtlElapses(s)
    <2>1. UNCHANGED <<out, tosend, pc, sess, log, lastSeq, sessionId, clientSeq, ws>>
      BY <1>5 DEF Publish, Reap, TtlElapses, vars
    <2>2. ASSUME NEW c \in Conn, Carries(c) PROVE Carries(c)'
      BY <2>1, <2>2, PipeStill DEF SessionInv, Carries, Same, Pipe
    <2>3. ws \in Conn \cup {None}
      BY DEF SessionInv, TypeOK, SessionOrNone
    <2> QED
      BY <2>1, <2>2, <2>3 DEF PipeOfSession
  <1>6. CASE ConnectionLost \/ Disconnect \/ Restart
    BY <1>1, <1>6 DEF ConnectionLost, Disconnect, Restart
  <1> QED
    BY <1>1, <1>2, <1>3, <1>4, <1>5, <1>6 DEF Next

\* The inductive invariant behind exactly-once delivery.
DeliveryInv == /\ SessionInv
               /\ LinkUp
               /\ QueuesEmpty
               /\ ClientPrefix
               /\ Asking
               /\ PipeOfSession

\* It holds at the start.
LEMMA DeliveryInit == Init => DeliveryInv
  <1> SUFFICES ASSUME Init PROVE DeliveryInv
    OBVIOUS
  <1>1. SessionInv
    BY InvInit
  <1>2. LinkUp /\ QueuesEmpty /\ ClientPrefix /\ Asking /\ PipeOfSession
    BY DEF Init, LinkUp, QueuesEmpty, ClientPrefix, Asking, PipeOfSession
  <1> QED
    BY <1>1, <1>2 DEF DeliveryInv

\* Every step keeps it, without half-open connections.
LEMMA DeliveryStep ==
    ASSUME HalfOpen = FALSE, DeliveryInv, [Next]_vars
    PROVE  DeliveryInv'
  <1> USE DEF DeliveryInv
  <1>1. SessionInv' BY InvStep
  <1>2. LinkUp' BY LinkUpStep DEF SessionInv
  <1>3. QueuesEmpty' BY QueuesEmptyStep DEF SessionInv
  <1>4. ClientPrefix' BY ClientPrefixStep
  <1>5. Asking' BY AskingStep DEF SessionInv
  <1>6. PipeOfSession' BY PipeStep
  <1> QED
    BY <1>1, <1>2, <1>3, <1>4, <1>5, <1>6

\* At all times the frames on their way to the client continue, without a hole
\* and up to the session's last_seq, what it has received (gateway.rs, session.rs
\* replay_from, client.ts handleDispatch).
THEOREM DeliveryInvariant == ASSUME HalfOpen = FALSE PROVE Spec => []DeliveryInv
  <1>1. Init => DeliveryInv
    BY DeliveryInit
  <1>2. DeliveryInv /\ [Next]_vars => DeliveryInv'
    BY DeliveryStep
  <1> QED
    BY <1>1, <1>2, PTL DEF Spec

\* The first n elements of a sequence.
LEMMA PrefixIsPrefix ==
    ASSUME NEW S, NEW l \in Seq(S), NEW n \in Nat, n <= Len(l)
    PROVE  /\ SubSeq(l, 1, n) \in Seq(S) /\ Len(SubSeq(l, 1, n)) = n
           /\ \A i \in 1..n : SubSeq(l, 1, n)[i] = l[i]
  OBVIOUS

\* Within a session the client receives every event published while the session
\* was subscribed once, in order, across any number of reconnections and
\* resumes, as long as connections end on both sides.
THEOREM DeliveryCorrect == ASSUME HalfOpen = FALSE PROVE Spec => []ExactlyOnceInSession
  <1>1. DeliveryInv => ExactlyOnceInSession
    <2> SUFFICES ASSUME DeliveryInv, sessionId # None
                 PROVE  got = SubSeq(log[sessionId], 1, clientSeq)
      BY DEF ExactlyOnceInSession
    <2>1. /\ got \in Seq(1..MaxPublish) /\ clientSeq \in Nat
          /\ log[sessionId] \in Seq(1..MaxPublish)
      BY DEF DeliveryInv, SessionInv, TypeOK, SessionOrNone
    <2>2. /\ Len(got) = clientSeq /\ clientSeq <= Len(log[sessionId])
          /\ \A i \in 1..clientSeq : got[i] = log[sessionId][i]
      BY DEF DeliveryInv, ClientPrefix
    <2> DEFINE S == SubSeq(log[sessionId], 1, clientSeq)
    <2>3. /\ S \in Seq(1..MaxPublish) /\ Len(S) = clientSeq
          /\ \A i \in 1..clientSeq : S[i] = log[sessionId][i]
      BY <2>1, <2>2, PrefixIsPrefix
    <2> HIDE DEF S
    <2>4. got = S
      BY <2>1, <2>2, <2>3, SeqEqual
    <2> QED
      BY <2>4 DEF S
  <1> QED
    BY <1>1, DeliveryInvariant, PTL

\* The initial states of the gateway are initial states of the stream.
LEMMA StreamInit == Init => Stream!Init
BY DEF Init, Stream!Init

\* Every step of the gateway is a step of the abstract stream (an event written,
\* read, a session begun or lost), or leaves what it speaks of alone.
LEMMA StreamStep ==
    ASSUME DeliveryInv, DeliveryInv', [Next]_vars
    PROVE  [Stream!Next]_(Stream!svars)
  <1> USE DEF sessionVars, handlerVars, clientVars, DeliveryInv
  <1> DEFINE sent == IF sessionId = None THEN <<>> ELSE log[sessionId]
  <1>1. CASE sessionId' = None
    <2>1. got' = <<>>
      BY <1>1 DEF ClientPrefix
    <2> QED
      BY <1>1, <2>1 DEF Stream!Next, Stream!Leave
  <1>2. CASE UNCHANGED <<sessionId, got, log>>
    BY <1>2 DEF Stream!svars
  <1>3. CASE HandleReady /\ sessionId' # None
    <2>1. /\ ws \in Conn /\ Pipe(ws) \in Seq(Frame) /\ Pipe(ws) # <<>>
          /\ Pipe(ws)[1] = Head(out[ws]) /\ Head(out[ws]).op = "ready"
      BY <1>3, PipeTakes DEF HandleReady, SessionInv
    <2>2. sessionId = None
      BY <2>1, NoneAssumption DEF PipeOfSession, Carries
    <2>3. got = <<>> /\ got' = <<>>
      BY <1>3, <2>2 DEF ClientPrefix, HandleReady
    <2>4. log'[sessionId'] \in Seq(1..MaxPublish)
      BY <1>3 DEF SessionInv, TypeOK, SessionOrNone
    <2> QED
      BY <1>3, <2>2, <2>3, <2>4 DEF Stream!Next, Stream!Join
  <1>4. CASE HandleDispatch /\ sessionId' # None
    <2>1. sessionId' = sessionId /\ log' = log /\ got' = Append(got, Head(out[ws]).e)
      BY <1>4 DEF HandleDispatch
    <2>2. /\ got \in Seq(1..MaxPublish) /\ log[sessionId] \in Seq(1..MaxPublish)
      BY <1>4, <2>1 DEF SessionInv, TypeOK, SessionOrNone
    <2>3. /\ Len(got') <= Len(log[sessionId])
          /\ \A i \in 1..Len(got') : got'[i] = log[sessionId][i]
      BY <1>4, <2>1 DEF ClientPrefix
    <2>4. Len(got') = Len(got) + 1 /\ got'[Len(got) + 1] = Head(out[ws]).e
      BY <2>1, <2>2
    <2>5. Len(got) < Len(log[sessionId]) /\ got' = Append(got, log[sessionId][Len(got) + 1])
      BY <2>1, <2>2, <2>3, <2>4
    <2> QED
      BY <1>4, <2>1, <2>5 DEF Stream!Next, Stream!Deliver
  <1>5. CASE (\E c \in Conn : Dispatch(c)) /\ sessionId' # None
    <2>1. PICK c \in Conn : Dispatch(c)
      BY <1>5
    <2>2. /\ UNCHANGED <<sessionId, got>>
          /\ log' = [log EXCEPT ![sess[c]] = Append(@, Head(inbox[c]))]
          /\ pc[c] = "live" /\ inbox[c] # <<>>
      BY <2>1 DEF Dispatch, Push
    <2>3. Head(inbox[c]) \in 1..MaxPublish
      <3>1. inbox[c] \in Seq(1..MaxPublish)
        BY DEF SessionInv, TypeOK
      <3>2. \A q \in Seq(1..MaxPublish) : q # <<>> => Head(q) \in 1..MaxPublish
        BY HeadTailProperties
      <3> QED
        BY <2>2, <3>1, <3>2
    <2>4. sessionId \in Conn
      BY <1>5, <2>2 DEF SessionInv, TypeOK, SessionOrNone
    <2>5. \/ log'[sessionId] = log[sessionId]
          \/ log'[sessionId] = Append(log[sessionId], Head(inbox[c]))
      BY <2>2, <2>4 DEF SessionInv, TypeOK
    <2>6. CASE log'[sessionId] = log[sessionId]
      BY <1>5, <2>2, <2>6 DEF Stream!svars
    <2>7. CASE log'[sessionId] = Append(log[sessionId], Head(inbox[c]))
      BY <1>5, <2>2, <2>3, <2>7 DEF Stream!Next, Stream!Send
    <2> QED
      BY <2>5, <2>6, <2>7
  <1>6. CASE \/ Publish \/ ConnectionLost \/ Reap \/ Restart \/ UNCHANGED vars
             \/ \E s \in Conn : TtlElapses(s)
    BY <1>6, <1>2 DEF Publish, ConnectionLost, Reap, Restart, TtlElapses, vars
  <1>7. CASE \E c \in Conn : Connect(c) \/ Reconnect(c)
    BY <1>7, <1>2 DEF Connect, Reconnect, OpenWebSocket
  <1>8. CASE Disconnect \/ HandleInvalid
    BY <1>8, <1>1 DEF Disconnect, HandleInvalid
  <1>9. CASE HandleHello \/ HandleResumed \/ HandleClose
    BY <1>9, <1>2 DEF HandleHello, HandleResumed, HandleClose
  <1>10. ASSUME NEW c \in Conn, Handler(c), ~Dispatch(c)
         PROVE  UNCHANGED <<sessionId, got, log>>
    BY <1>10
    DEF Handler, AuthTimeout, Identify, IdentifyRejected, ResumeLookup, ResumeNotFound,
        ResumeReplay, ResumeGap, MarkConnected, ReadLastSeq, SendReplay, Subscribe,
        SubscribeFails, Unblock, ReadFails, HeartbeatTimeout, WriterFails, FrameLost, Reject
  <1> QED
    BY <1>1, <1>2, <1>3, <1>4, <1>5, <1>6, <1>7, <1>8, <1>9, <1>10 DEF Next, Receive

\* The gateway, its session store and the client implement the SessionStream
\* they promise: a reader that reads what was written, in order, from where it
\* stopped.
THEOREM StreamRefined == ASSUME HalfOpen = FALSE PROVE Spec => ImplementsStream
  <1>1. Init => Stream!Init
    BY StreamInit
  <1>2. DeliveryInv /\ DeliveryInv' /\ [Next]_vars => [Stream!Next]_(Stream!svars)
    BY StreamStep
  <1>3. Spec => [][Next]_vars /\ Init
    BY DEF Spec
  <1> QED
    BY <1>1, <1>2, <1>3, DeliveryInvariant, PTL DEF ImplementsStream, Stream!Spec

-----------------------------------------------------------------------------
(* The permission check.  What a check has read so far is still so, or the *)
(* check is marked as raced: with that a stored answer is right, and from  *)
(* then on every change of its key leaves something behind that explains a *)
(* difference.                                                             *)

\* What a check knows at a stage.
ReadSoFar(c) ==
    LET k == checks[c].key IN
    /\ checks[c].stage = "participants" => k.room \in rooms \cap Direct
    /\ checks[c].stage \in {"groups", "rows"} => k.room \in rooms \ Direct
    /\ checks[c].stage = "rows" => Admins \notin memberOf[k.user]
    /\ checks[c].stage = "store" => checks[c].allowed = May(k)

ReadsHold ==
    \A c \in Checks : checks[c] # NoCheck /\ ~checks[c].raced => ReadSoFar(c)

Announced(k) ==
    \/ \E o \in owed : k \in KeysOf(o.room, o.user)
    \/ \E i \in DOMAIN subject : k \in KeysOf(subject[i].room, subject[i].user)

Explained(k) == k \in tainted \/ k \in found \/ k.room \in opening \/ Announced(k)

AccessInv == AccessTypeOK /\ ReadsHold /\ StaleIsExplained

-----------------------------------------------------------------------------
\* The statement with its reasons under one name.
LEMMA StaleMeans ==
  StaleIsExplained <=> \A k \in Key : cache[k] \notin {"none", Answer(k)} => Explained(k)
BY DEF StaleIsExplained, Explained, Announced

\* KeysOf selects among the keys.
LEMMA KeysOfKeys ==
  ASSUME NEW R, R \subseteq Rooms, NEW U, U \subseteq Users
  PROVE  /\ KeysOf(R, U) \subseteq Key
         /\ \A k \in Key : k \in KeysOf(R, U) <=> k.room \in R /\ k.user \in U
BY DEF KeysOf, Key

\* Initially nothing is cached.
LEMMA AccessInvInit == AccessInit => AccessInv
<1> SUFFICES ASSUME AccessInit PROVE AccessInv
  OBVIOUS
<1>1. AccessTypeOK
  <2>1. rows \in [Rooms -> [Groups -> Bits]]
    BY DEF AccessInit, Bits
  <2>2. cache \in [Key -> {"none", "yes", "no"}]
    BY DEF AccessInit
  <2>3. checks \in [Checks -> Check \cup {NoCheck}]
    BY DEF AccessInit
  <2>4. memberOf \in [Users -> SUBSET Groups]
    BY AccessAssumption DEF AccessInit
  <2> QED BY <2>1, <2>2, <2>3, <2>4 DEF AccessInit, AccessTypeOK
<1>2. ReadsHold
  BY DEF AccessInit, ReadsHold
<1>3. StaleIsExplained
  BY DEF AccessInit, StaleIsExplained
<1> QED BY <1>1, <1>2, <1>3 DEF AccessInv

\* A key none of whose rows change is answered as before.
SameAnswer(k) ==
    /\ k.room \in rooms <=> k.room \in rooms'
    /\ memberOf'[k.user] = memberOf[k.user]
    /\ May(k)' <=> May(k)

\* A change keeps what checks know, with what it touches marked.
LEMMA ChangeKeeps ==
  ASSUME AccessInv, NEW keys, Changes(keys), \A k \in Key \ keys : SameAnswer(k)
  PROVE  /\ ReadsHold'
         /\ checks' \in [Checks -> Check \cup {NoCheck}]
         /\ changes' \in Nat
<1>1. /\ checks \in [Checks -> Check \cup {NoCheck}] /\ changes \in Nat
      /\ ReadsHold
  BY DEF AccessInv, AccessTypeOK
<1>2. \A c \in Checks :
         checks'[c] = IF checks[c].stage \notin {"none", "channel"} /\ checks[c].key \in keys
                      THEN [checks[c] EXCEPT !.raced = TRUE] ELSE checks[c]
  BY DEF Changes
<1>3. \A c \in Checks : checks[c] = NoCheck => checks'[c] = NoCheck
  BY <1>2 DEF NoCheck
<1>4. \A c \in Checks : checks[c] # NoCheck =>
         /\ checks[c] \in Check
         /\ [checks[c] EXCEPT !.raced = TRUE] \in Check
         /\ checks'[c] \in Check
         /\ checks'[c].stage = checks[c].stage /\ checks'[c].key = checks[c].key
         /\ checks'[c].allowed = checks[c].allowed
         /\ checks[c].raced => checks'[c].raced
         /\ checks[c].stage # "channel" /\ checks[c].key \in keys => checks'[c].raced
  <2> SUFFICES ASSUME NEW c \in Checks, checks[c] # NoCheck
               PROVE  /\ checks[c] \in Check
                      /\ [checks[c] EXCEPT !.raced = TRUE] \in Check
                      /\ checks'[c] \in Check
                      /\ checks'[c].stage = checks[c].stage /\ checks'[c].key = checks[c].key
                      /\ checks'[c].allowed = checks[c].allowed
                      /\ checks[c].raced => checks'[c].raced
                      /\ checks[c].stage # "channel" /\ checks[c].key \in keys => checks'[c].raced
    OBVIOUS
  <2>1. checks[c] \in Check
    BY <1>1
  <2>2. [checks[c] EXCEPT !.raced = TRUE] \in Check
    BY <2>1 DEF Check
  <2>3. checks[c].stage # "none"
    BY <2>1 DEF Check
  <2> QED BY <1>2, <2>1, <2>2, <2>3 DEF Check
<1>5. checks' \in [Checks -> Check \cup {NoCheck}]
  <2>1. checks' = [c \in Checks |-> checks'[c]]
    BY DEF Changes
  <2> QED BY <1>3, <1>4, <2>1
<1>6. ReadsHold'
  <2> SUFFICES ASSUME NEW c \in Checks, checks'[c] # NoCheck, ~checks'[c].raced
               PROVE  ReadSoFar(c)'
    BY DEF ReadsHold
  <2>1. checks[c] # NoCheck /\ checks[c] \in Check /\ ~checks[c].raced
    BY <1>3, <1>4
  <2>2. ReadSoFar(c)
    BY <1>1, <2>1 DEF ReadsHold
  <2>3. CASE checks[c].stage = "channel"
    BY <1>4, <2>1, <2>3 DEF ReadSoFar
  <2>4. CASE checks[c].stage # "channel"
    <3>1. checks[c].key \in Key \ keys
      BY <1>4, <2>1, <2>4 DEF Check
    <3>2. SameAnswer(checks[c].key)
      BY <3>1
    <3>3. checks'[c].key = checks[c].key /\ checks'[c].stage = checks[c].stage
          /\ checks'[c].allowed = checks[c].allowed
      BY <1>4, <2>1
    <3> QED BY <2>2, <3>2, <3>3 DEF ReadSoFar, SameAnswer, May, Effective
  <2> QED BY <2>3, <2>4
<1> QED BY <1>1, <1>5, <1>6 DEF Changes

\* A change that is announced.
LEMMA OwesKeeps ==
  ASSUME AccessInv, NEW R, R \subseteq Rooms, NEW U, U \subseteq Users, Owes(R, U),
         \A k \in Key \ KeysOf(R, U) : SameAnswer(k),
         rooms' \subseteq Rooms, unborn' \subseteq Rooms \ rooms',
         opening' \subseteq Rooms, roles' \subseteq Groups,
         memberOf' \in [Users -> SUBSET Groups],
         rows' \in [Rooms -> [Groups -> Bits]],
         \A r \in opening \ opening' : r \in R /\ U = Users
  PROVE  AccessInv'
<1>1. Changes(KeysOf(R, U))
      /\ owed' = owed \cup {[n |-> changes + 1, room |-> R, user |-> U]}
      /\ UNCHANGED <<subject, found, cache, tainted>>
  BY DEF Owes
<1>2. ReadsHold' /\ checks' \in [Checks -> Check \cup {NoCheck}] /\ changes' \in Nat
  BY <1>1, ChangeKeeps
<1>3. [n |-> changes + 1, room |-> R, user |-> U] \in Change
  BY DEF AccessInv, AccessTypeOK, Change
<1>4. AccessTypeOK'
  BY <1>1, <1>2, <1>3 DEF AccessInv, AccessTypeOK
<1>5. StaleIsExplained'
  <2> SUFFICES ASSUME NEW k \in Key, cache'[k] \notin {"none", Answer(k)'}
               PROVE  Explained(k)'
    BY DEF StaleIsExplained, Explained, Announced
  <2>1. CASE k \in KeysOf(R, U)
    <3> DEFINE said == [n |-> changes + 1, room |-> R, user |-> U]
    <3>1. said \in owed'
      BY <1>1
    <3>2. said.room = R /\ said.user = U
      OBVIOUS
    <3>3. k \in KeysOf(said.room, said.user)
      BY <2>1, <3>2
    <3> QED BY <3>1, <3>3 DEF Explained, Announced
  <2>2. CASE k \notin KeysOf(R, U)
    <3>1. Answer(k)' = Answer(k)
      BY <2>2 DEF SameAnswer, Answer
    <3>2. Explained(k)
      BY <1>1, <3>1, StaleMeans DEF AccessInv
    <3>3. k.room \in opening => k.room \in opening'
      BY <2>2, KeysOfKeys DEF Key
    <3> QED BY <1>1, <3>2, <3>3 DEF Explained, Announced
  <2> QED BY <2>1, <2>2
<1> QED BY <1>2, <1>4, <1>5 DEF AccessInv

\* A change that is not.
LEMMA SilentKeeps ==
  ASSUME AccessInv, NEW keys \in SUBSET Key, Silent(keys), \A k \in Key \ keys : SameAnswer(k),
         rooms' \subseteq Rooms, roles' \subseteq Groups,
         memberOf' \in [Users -> SUBSET Groups],
         rows' \in [Rooms -> [Groups -> Bits]],
         UNCHANGED opening, unborn' \subseteq Rooms \ rooms'
  PROVE  AccessInv'
<1>1. Changes(keys) /\ tainted' = tainted \cup Held(keys)
      /\ UNCHANGED <<owed, subject, found, cache>>
  BY DEF Silent, wireVars
<1>2. ReadsHold' /\ checks' \in [Checks -> Check \cup {NoCheck}] /\ changes' \in Nat
  BY <1>1, ChangeKeeps
<1>3. AccessTypeOK'
  BY <1>1, <1>2 DEF AccessInv, AccessTypeOK, Held
<1>4. StaleIsExplained'
  <2> SUFFICES ASSUME NEW k \in Key, cache'[k] \notin {"none", Answer(k)'}
               PROVE  Explained(k)'
    BY DEF StaleIsExplained, Explained, Announced
  <2>1. CASE k \in keys
    BY <1>1, <2>1 DEF Explained, Held
  <2>2. CASE k \notin keys
    <3>1. Answer(k)' = Answer(k)
      BY <2>2 DEF SameAnswer, Answer
    <3>2. Explained(k)
      BY <1>1, <3>1, StaleMeans DEF AccessInv
    <3> QED BY <1>1, <3>2 DEF Explained, Announced
  <2> QED BY <2>1, <2>2
<1> QED BY <1>2, <1>3, <1>4 DEF AccessInv

-----------------------------------------------------------------------------
(* The hub's requests.                                                     *)

\* Requests about a room.
LEMMA RoomStep ==
  ASSUME AccessInv, NEW r \in Rooms,
         \/ \E g \in Groups, bits \in Bits : SetPermission(r, g, bits)
         \/ DeleteRoom(r) \/ CreateRoom(r) \/ OpenRoom(r) \/ OpenDm(r)
  PROVE  AccessInv'
<1>1. AccessTypeOK /\ {r} \subseteq Rooms /\ Users \subseteq Users
  BY DEF AccessInv
<1>2. \A k \in Key \ KeysOf({r}, Users) :
         k.room \in Rooms /\ k.room # r /\ k.user \in Users
  BY KeysOfKeys DEF Key
<1>3. ASSUME NEW g \in Groups, NEW bits \in Bits, SetPermission(r, g, bits)
      PROVE  AccessInv'
  <2>1. /\ rows' = [rows EXCEPT ![r] = [rows[r] EXCEPT ![g] = bits]]
        /\ Owes({r}, Users) /\ UNCHANGED <<rooms, unborn, opening, roles, memberOf>>
    BY <1>3 DEF SetPermission
  <2>2. rows' \in [Rooms -> [Groups -> Bits]]
        /\ \A x \in Rooms \ {r} : rows'[x] = rows[x]
    BY <1>1, <2>1 DEF AccessTypeOK
  <2>3. \A k \in Key \ KeysOf({r}, Users) : SameAnswer(k)
    BY <1>2, <2>1, <2>2 DEF SameAnswer, May, Effective
  <2> QED BY <1>1, <2>1, <2>2, <2>3, OwesKeeps DEF AccessTypeOK
<1>4. CASE DeleteRoom(r)
  <2>1. /\ rooms' = rooms \ {r}
        /\ rows' = [rows EXCEPT ![r] = [g \in Groups |-> "none"]]
        /\ Silent(KeysOf({r}, Users)) /\ UNCHANGED <<unborn, opening, roles, memberOf>>
    BY <1>4 DEF DeleteRoom
  <2>2. rows' \in [Rooms -> [Groups -> Bits]]
        /\ \A x \in Rooms \ {r} : rows'[x] = rows[x]
    BY <1>1, <2>1 DEF AccessTypeOK, Bits
  <2>3. \A k \in Key \ KeysOf({r}, Users) : SameAnswer(k)
    BY <1>2, <2>1, <2>2 DEF SameAnswer, May, Effective
  <2>4. KeysOf({r}, Users) \in SUBSET Key
    BY <1>1, KeysOfKeys
  <2> QED BY <1>1, <2>1, <2>2, <2>3, <2>4, SilentKeeps DEF AccessTypeOK
<1>5. CASE CreateRoom(r)
  <2>1. /\ unborn' = unborn \ {r} /\ rooms' = rooms \cup {r}
        /\ opening' = opening \cup {r}
        /\ Changes(KeysOf({r}, Users))
        /\ UNCHANGED <<roles, memberOf, rows, owed, subject, found, cache, tainted>>
    BY <1>5 DEF CreateRoom, wireVars
  <2>2. \A k \in Key \ KeysOf({r}, Users) : SameAnswer(k)
    BY <1>2, <2>1 DEF SameAnswer, May, Effective
  <2>3. ReadsHold' /\ checks' \in [Checks -> Check \cup {NoCheck}] /\ changes' \in Nat
    BY <2>1, <2>2, ChangeKeeps
  <2>4. AccessTypeOK'
    BY <1>1, <2>1, <2>3 DEF AccessTypeOK
  <2>5. StaleIsExplained'
    <3> SUFFICES ASSUME NEW k \in Key, cache'[k] \notin {"none", Answer(k)'}
                 PROVE  Explained(k)'
      BY DEF StaleIsExplained, Explained, Announced
    <3>1. CASE k \in KeysOf({r}, Users)
      BY <1>1, <2>1, <3>1, KeysOfKeys DEF Explained
    <3>2. CASE k \notin KeysOf({r}, Users)
      <4>1. Answer(k)' = Answer(k)
        BY <2>2, <3>2 DEF SameAnswer, Answer
      <4>2. Explained(k)
        BY <2>1, <4>1, StaleMeans DEF AccessInv
      <4> QED BY <2>1, <4>2 DEF Explained, Announced
    <3> QED BY <3>1, <3>2
  <2> QED BY <2>3, <2>4, <2>5 DEF AccessInv
<1>6. CASE OpenRoom(r)
  <2>1. PICK bits \in {rows[r][Everyone], "allow"} :
           rows' = [rows EXCEPT ![r] = [rows[r] EXCEPT ![Everyone] = bits]]
    BY <1>6 DEF OpenRoom
  <2>2. /\ opening' = opening \ {r} /\ Owes({r}, Users)
        /\ UNCHANGED <<rooms, unborn, roles, memberOf>>
    BY <1>6 DEF OpenRoom
  <2>3. bits \in Bits
    BY <1>1, AccessAssumption DEF AccessTypeOK, Bits
  <2>4. rows' \in [Rooms -> [Groups -> Bits]]
        /\ \A x \in Rooms \ {r} : rows'[x] = rows[x]
    BY <1>1, <2>1, <2>3 DEF AccessTypeOK
  <2>5. \A k \in Key \ KeysOf({r}, Users) : SameAnswer(k)
    BY <1>2, <2>2, <2>4 DEF SameAnswer, May, Effective
  <2> QED BY <1>1, <2>2, <2>4, <2>5, OwesKeeps DEF AccessTypeOK
<1>7. CASE OpenDm(r)
  <2>1. /\ unborn' = unborn \ {r} /\ rooms' = rooms \cup {r}
        /\ Owes({r}, Users) /\ UNCHANGED <<opening, roles, memberOf, rows>>
    BY <1>7 DEF OpenDm
  <2>2. \A k \in Key \ KeysOf({r}, Users) : SameAnswer(k)
    BY <1>2, <2>1 DEF SameAnswer, May, Effective
  <2> QED BY <1>1, <2>1, <2>2, OwesKeeps DEF AccessTypeOK
<1> QED BY <1>3, <1>4, <1>5, <1>6, <1>7

\* create_channel breaks off.
LEMMA OpenRoomFailsStep ==
  ASSUME AccessInv, NEW r \in Rooms, OpenRoomFails(r)
  PROVE  AccessInv'
<1>1. /\ opening' = opening \ {r}
      /\ tainted' = tainted \cup Held(KeysOf({r}, Users))
      /\ UNCHANGED <<rooms, unborn, roles, memberOf, rows, owed, subject, found,
                     cache, checks, changes>>
  BY DEF OpenRoomFails, wireVars
<1>2. KeysOf({r}, Users) \subseteq Key
      /\ \A k \in Key : k.room = r => k \in KeysOf({r}, Users)
  BY DEF KeysOf, Key
<1>3. AccessTypeOK'
  BY <1>1, <1>2 DEF AccessInv, AccessTypeOK, Held
<1>4. ReadsHold'
  BY <1>1 DEF AccessInv, ReadsHold, ReadSoFar, May, Effective
<1>5. StaleIsExplained'
  <2> SUFFICES ASSUME NEW k \in Key, cache'[k] \notin {"none", Answer(k)'}
               PROVE  Explained(k)'
    BY DEF StaleIsExplained, Explained, Announced
  <2>1. Answer(k)' = Answer(k)
    BY <1>1 DEF Answer, May, Effective
  <2>2. Explained(k)
    BY <1>1, <2>1, StaleMeans DEF AccessInv
  <2> QED BY <1>1, <1>2, <2>2 DEF Explained, Announced, Held
<1> QED BY <1>3, <1>4, <1>5 DEF AccessInv

\* Requests about a member.
LEMMA MemberStep ==
  ASSUME AccessInv, NEW u \in Users,
         \/ \E g \in Groups : AddToGroup(u, g) \/ RemoveFromGroup(u, g) \/ JoinHub(u, g)
         \/ Kick(u)
  PROVE  AccessInv'
<1>1. AccessTypeOK /\ {u} \subseteq Users /\ Rooms \subseteq Rooms
  BY DEF AccessInv
<1>2. PICK G \in SUBSET Groups : memberOf' = [memberOf EXCEPT ![u] = G]
  <2>1. memberOf[u] \in SUBSET Groups
    BY <1>1 DEF AccessTypeOK
  <2>2. \A g \in Groups : /\ memberOf[u] \cup {g} \in SUBSET Groups
                          /\ memberOf[u] \cup {Everyone, g} \in SUBSET Groups
                          /\ memberOf[u] \ {g} \in SUBSET Groups
    BY <2>1, AccessAssumption
  <2> QED BY <2>2 DEF AddToGroup, RemoveFromGroup, Kick, JoinHub
<1>3. /\ Owes(Rooms, {u}) \/ Silent(KeysOf(Rooms, {u}))
      /\ UNCHANGED <<rooms, unborn, opening, roles, rows>>
  BY DEF AddToGroup, RemoveFromGroup, Kick, JoinHub
<1>4. memberOf' \in [Users -> SUBSET Groups]
      /\ \A v \in Users \ {u} : memberOf'[v] = memberOf[v]
  BY <1>1, <1>2 DEF AccessTypeOK
<1>5. \A k \in Key \ KeysOf(Rooms, {u}) : k.user \in Users \ {u} /\ k.room \in Rooms
  BY <1>1, KeysOfKeys DEF Key
<1>6. \A k \in Key \ KeysOf(Rooms, {u}) : SameAnswer(k)
  BY <1>3, <1>4, <1>5 DEF SameAnswer, May, Effective
<1>7. KeysOf(Rooms, {u}) \in SUBSET Key
  BY <1>1, KeysOfKeys
<1> QED BY <1>1, <1>3, <1>4, <1>6, <1>7, OwesKeeps, SilentKeeps DEF AccessTypeOK

\* A group is deleted.
LEMMA GroupStep ==
  ASSUME AccessInv, NEW g \in Groups, DeleteGroup(g)
  PROVE  AccessInv'
<1>1. AccessTypeOK
  BY DEF AccessInv
<1>2. /\ roles' = roles \ {g}
      /\ memberOf' = [u \in Users |-> memberOf[u] \ {g}]
      /\ rows' = [r \in Rooms |-> [rows[r] EXCEPT ![g] = "none"]]
      /\ Silent(Key) /\ UNCHANGED <<rooms, unborn, opening>>
  BY DEF DeleteGroup
<1>3. memberOf' \in [Users -> SUBSET Groups]
  BY <1>1, <1>2 DEF AccessTypeOK
<1>4. rows' \in [Rooms -> [Groups -> Bits]]
  <2>1. \A r \in Rooms : [rows[r] EXCEPT ![g] = "none"] \in [Groups -> Bits]
    BY <1>1 DEF AccessTypeOK, Bits
  <2> QED BY <1>2, <2>1
<1> QED BY <1>1, <1>2, <1>3, <1>4, SilentKeeps DEF AccessTypeOK

-----------------------------------------------------------------------------
(* Announcements, checks and time.                                         *)

\* Where the tables and the checks rest, the answers do.
LEMMA RestKeeps ==
  ASSUME AccessInv, UNCHANGED <<rowVars, checks>>
  PROVE  ReadsHold' /\ \A k \in Key : Answer(k)' = Answer(k)
<1>1. UNCHANGED <<rooms, memberOf, rows, checks>>
  BY DEF rowVars
<1>2. ReadsHold'
  BY <1>1 DEF AccessInv, ReadsHold, ReadSoFar, May, Effective
<1>3. \A k \in Key : Answer(k)' = Answer(k)
  BY <1>1 DEF Answer, May, Effective
<1> QED BY <1>2, <1>3

\* An announcement on its way.
LEMMA InvalidationStep ==
  ASSUME AccessInv, Invalidation
  PROVE  AccessInv'
<1>1. AccessTypeOK /\ StaleIsExplained
  BY DEF AccessInv
<1>2. UNCHANGED <<rowVars, checks, changes>>
  BY DEF Invalidation, Announce, Forgotten, Scan, ScanFails, Delete, DeleteFails
<1>3. ReadsHold' /\ \A k \in Key : Answer(k)' = Answer(k)
  BY <1>2, RestKeeps
<1>4. subject \in Seq(Change) /\ opening' = opening
  BY <1>1, <1>2 DEF AccessTypeOK, rowVars
<1> SUFFICES AccessTypeOK' /\ StaleIsExplained'
  BY <1>3 DEF AccessInv
<1>5. ASSUME NEW o \in owed, Announce(o)
      PROVE  AccessTypeOK' /\ StaleIsExplained'
  <2>1. /\ owed' = owed \ {o} /\ subject' = Append(subject, o)
        /\ UNCHANGED <<found, cache, tainted>> /\ o \in Change
    BY <1>1, <1>5 DEF Announce, AccessTypeOK
  <2>2. /\ subject' \in Seq(Change)
        /\ \A i \in DOMAIN subject : i \in DOMAIN subject' /\ subject'[i] = subject[i]
        /\ \E i \in DOMAIN subject' : subject'[i] = o
    <3>1. /\ subject' \in Seq(Change) /\ Len(subject') = Len(subject) + 1
          /\ subject'[Len(subject) + 1] = o /\ Len(subject) \in Nat
          /\ \A i \in 1..Len(subject) : subject'[i] = subject[i]
          /\ DOMAIN subject = 1..Len(subject) /\ DOMAIN subject' = 1..Len(subject')
      BY <1>4, <2>1
    <3> QED BY <3>1
  <2>3. \A k \in Key : Announced(k) => Announced(k)'
    BY <2>1, <2>2 DEF Announced
  <2>4. AccessTypeOK'
    BY <1>1, <1>2, <2>1, <2>2 DEF AccessTypeOK, rowVars
  <2>5. StaleIsExplained'
    BY <1>1, <1>3, <1>4, <2>1, <2>3, StaleMeans DEF StaleIsExplained, Explained, Announced
  <2> QED BY <2>4, <2>5
<1>6. ASSUME NEW o \in owed, Forgotten(o)
      PROVE  AccessTypeOK' /\ StaleIsExplained'
  <2>1. /\ owed' = owed \ {o} /\ tainted' = tainted \cup Held(KeysOf(o.room, o.user))
        /\ UNCHANGED <<subject, found, cache>> /\ o.room \subseteq Rooms
        /\ o.user \subseteq Users
    BY <1>1, <1>6 DEF Forgotten, AccessTypeOK, Change
  <2>2. KeysOf(o.room, o.user) \subseteq Key
    BY <2>1, KeysOfKeys
  <2>3. AccessTypeOK'
    BY <1>1, <1>2, <2>1, <2>2 DEF AccessTypeOK, rowVars, Held
  <2>4. ASSUME NEW k \in Key, cache[k] # "none", Explained(k)
        PROVE  Explained(k)'
    BY <1>4, <2>1, <2>4 DEF Explained, Announced, Held
  <2>5. StaleIsExplained'
    BY <1>1, <1>3, <2>1, <2>4, StaleMeans DEF StaleIsExplained, Explained, Announced
  <2> QED BY <2>3, <2>5
<1> DEFINE swept == KeysOf(Head(subject).room, Head(subject).user)
<1>7. ASSUME subject # <<>>, subject' = Tail(subject)
      PROVE  /\ subject' \in Seq(Change) /\ swept \subseteq Key
             /\ \A i \in DOMAIN subject :
                   subject[i] = Head(subject) \/ \E j \in DOMAIN subject' : subject'[j] = subject[i]
  <2>1. /\ subject' \in Seq(Change) /\ Len(subject') = Len(subject) - 1
        /\ Head(subject) = subject[1] /\ Head(subject) \in Change
        /\ Len(subject) \in Nat \ {0}
        /\ DOMAIN subject = 1..Len(subject) /\ DOMAIN subject' = 1..Len(subject')
        /\ \A j \in 1..Len(subject') : subject'[j] = subject[j + 1]
    BY <1>4, <1>7
  <2>2. swept \subseteq Key
    <3>1. Head(subject).room \subseteq Rooms /\ Head(subject).user \subseteq Users
      BY <2>1 DEF Change
    <3> QED BY <3>1, KeysOfKeys
  <2>3. ASSUME NEW i \in DOMAIN subject, i # 1
        PROVE  \E j \in DOMAIN subject' : subject'[j] = subject[i]
    <3>1. i - 1 \in DOMAIN subject' /\ subject'[i - 1] = subject[i]
      BY <2>1, <2>3
    <3> QED BY <3>1
  <2> QED BY <2>1, <2>2, <2>3
<1>8. CASE Scan
  <2>1. /\ subject # <<>> /\ found = {} /\ subject' = Tail(subject)
        /\ found' = Held(swept) /\ UNCHANGED <<owed, cache, tainted>>
    BY <1>8 DEF Scan
  <2>2. AccessTypeOK'
    BY <1>1, <1>2, <1>7, <2>1 DEF AccessTypeOK, rowVars, Held
  <2>3. ASSUME NEW k \in Key, cache[k] # "none", Explained(k)
        PROVE  Explained(k)'
    <3>1. CASE k \in swept
      BY <2>1, <2>3, <3>1 DEF Explained, Held
    <3>2. CASE k \notin swept
      BY <1>4, <1>7, <2>1, <2>3, <3>2 DEF Explained, Announced
    <3> QED BY <3>1, <3>2
  <2>4. StaleIsExplained'
    BY <1>1, <1>3, <2>1, <2>3, StaleMeans DEF StaleIsExplained, Explained, Announced
  <2> QED BY <2>2, <2>4
<1>9. CASE ScanFails
  <2>1. /\ subject # <<>> /\ subject' = Tail(subject)
        /\ tainted' = tainted \cup Held(swept) /\ UNCHANGED <<owed, found, cache>>
    BY <1>9 DEF ScanFails
  <2>2. AccessTypeOK'
    BY <1>1, <1>2, <1>7, <2>1 DEF AccessTypeOK, rowVars, Held
  <2>3. ASSUME NEW k \in Key, cache[k] # "none", Explained(k)
        PROVE  Explained(k)'
    <3>1. CASE k \in swept
      BY <2>1, <2>3, <3>1 DEF Explained, Held
    <3>2. CASE k \notin swept
      BY <1>4, <1>7, <2>1, <2>3, <3>2 DEF Explained, Announced
    <3> QED BY <3>1, <3>2
  <2>4. StaleIsExplained'
    BY <1>1, <1>3, <2>1, <2>3, StaleMeans DEF StaleIsExplained, Explained, Announced
  <2> QED BY <2>2, <2>4
<1>10. CASE Delete
  <2>1. /\ found' = {} /\ tainted' = tainted \ found /\ UNCHANGED <<owed, subject>>
        /\ \A k \in Key : cache'[k] = IF k \in found THEN "none" ELSE cache[k]
        /\ cache' \in [Key -> {"none", "yes", "no"}]
    BY <1>1, <1>10 DEF Delete, AccessTypeOK
  <2>2. AccessTypeOK'
    BY <1>1, <1>2, <2>1 DEF AccessTypeOK, rowVars
  <2>3. ASSUME NEW k \in Key, k \notin found, Explained(k)
        PROVE  Explained(k)'
    BY <1>4, <2>1, <2>3 DEF Explained, Announced
  <2>4. StaleIsExplained'
    BY <1>1, <1>3, <2>1, <2>3, StaleMeans DEF StaleIsExplained, Explained, Announced
  <2> QED BY <2>2, <2>4
<1>11. CASE DeleteFails
  <2>1. /\ found' = {} /\ tainted' = tainted \cup Held(found)
        /\ UNCHANGED <<owed, subject, cache>>
    BY <1>11 DEF DeleteFails
  <2>2. AccessTypeOK'
    BY <1>1, <1>2, <2>1 DEF AccessTypeOK, rowVars, Held
  <2>3. ASSUME NEW k \in Key, cache[k] # "none", Explained(k)
        PROVE  Explained(k)'
    BY <1>4, <2>1, <2>3 DEF Explained, Announced, Held
  <2>4. StaleIsExplained'
    BY <1>1, <1>3, <2>1, <2>3, StaleMeans DEF StaleIsExplained, Explained, Announced
  <2> QED BY <2>2, <2>4
<1> QED BY <1>5, <1>6, <1>8, <1>9, <1>10, <1>11 DEF Invalidation

\* A check that rests keeps what it knows while the tables rest.
LEMMA SameReads ==
  ASSUME NEW c \in Checks, UNCHANGED <<rooms, memberOf, rows>>,
         checks'[c] = checks[c], ReadSoFar(c)
  PROVE  ReadSoFar(c)'
<1>1. checks'[c].key = checks[c].key /\ checks'[c].stage = checks[c].stage
      /\ checks'[c].allowed = checks[c].allowed
  OBVIOUS
<1> QED BY <1>1 DEF ReadSoFar, May, Effective

\* A check goes on while nothing else moves: what it has read is kept.
LEMMA OneCheckMoves ==
  ASSUME AccessInv, NEW c \in Checks, NEW new \in Check \cup {NoCheck},
         checks' = [checks EXCEPT ![c] = new],
         UNCHANGED <<rowVars, wireVars, cache, tainted>>, changes' \in Nat,
         new # NoCheck /\ ~new.raced => ReadSoFar(c)'
  PROVE  AccessInv'
<1>1. AccessTypeOK /\ StaleIsExplained /\ ReadsHold
  BY DEF AccessInv
<1>2. /\ UNCHANGED <<rooms, unborn, opening, roles, memberOf, rows, owed, subject,
                     found, cache, tainted>>
  BY DEF rowVars, wireVars
<1>3. \A d \in Checks : checks'[d] = IF d = c THEN new ELSE checks[d]
  BY <1>1 DEF AccessTypeOK
<1>4. AccessTypeOK'
  BY <1>1, <1>2 DEF AccessTypeOK
<1>5. ReadsHold'
  <2> SUFFICES ASSUME NEW d \in Checks, checks'[d] # NoCheck, ~checks'[d].raced
               PROVE  ReadSoFar(d)'
    BY DEF ReadsHold
  <2>1. CASE d = c
    BY <1>3, <2>1
  <2>2. CASE d # c
    <3>1. checks'[d] = checks[d]
      BY <1>3, <2>2
    <3>2. ReadSoFar(d)
      BY <1>1, <3>1 DEF ReadsHold
    <3> QED BY <1>2, <3>1, <3>2, SameReads
  <2> QED BY <2>1, <2>2
<1>6. StaleIsExplained'
  <2>1. \A k \in Key : Answer(k)' = Answer(k)
    BY <1>2 DEF Answer, May, Effective
  <2>2. \A k \in Key : Explained(k)' <=> Explained(k)
    BY <1>2 DEF Explained, Announced
  <2> QED BY <1>1, <1>2, <2>1, <2>2, StaleMeans
          DEF StaleIsExplained, Explained, Announced
<1> QED BY <1>4, <1>5, <1>6 DEF AccessInv

\* A check begins, also when GET fails.
LEMMA BeginStep ==
  ASSUME AccessInv, NEW c \in Checks, NEW k \in Key, BeginCheck(c, k) \/ GetFails(c, k)
  PROVE  AccessInv'
<1> DEFINE new == [stage |-> "channel", key |-> k, allowed |-> FALSE, raced |-> FALSE]
<1>1. new \in Check /\ new.stage = "channel"
  BY DEF Check
<1>2. /\ checks' = [checks EXCEPT ![c] = new] /\ changes' \in Nat
      /\ UNCHANGED <<rowVars, wireVars, cache, tainted>>
  BY DEF BeginCheck, GetFails, AccessInv, AccessTypeOK
<1>3. checks'[c] = new
  BY <1>2 DEF AccessInv, AccessTypeOK
<1> HIDE DEF new
<1>4. ReadSoFar(c)'
  BY <1>1, <1>3 DEF ReadSoFar
<1> QED BY <1>1, <1>2, <1>4, OneCheckMoves

\* One of its queries is answered.
LEMMA ReadStep ==
  ASSUME AccessInv, NEW c \in Checks,
         ReadChannel(c) \/ ReadParticipants(c) \/ ReadGroups(c) \/ ReadRows(c)
  PROVE  AccessInv'
<1> DEFINE k == checks[c].key
<1>1. /\ checks \in [Checks -> Check \cup {NoCheck}] /\ changes \in Nat
      /\ rooms \subseteq Rooms
  BY DEF AccessInv, AccessTypeOK
<1>2. checks[c] \in Check /\ checks[c] # NoCheck
  <2>1. checks[c].stage # "none"
    BY DEF ReadChannel, ReadParticipants, ReadGroups, ReadRows
  <2> QED BY <1>1, <2>1 DEF NoCheck
<1>3. ~checks[c].raced => ReadSoFar(c)
  BY <1>2 DEF AccessInv, ReadsHold
<1>4. ASSUME NEW st \in {"participants", "groups", "rows", "store"},
             NEW answer \in BOOLEAN, To(c, st, answer),
             ~checks[c].raced =>
               /\ st = "participants" => k.room \in rooms \cap Direct
               /\ st \in {"groups", "rows"} => k.room \in rooms \ Direct
               /\ st = "rows" => Admins \notin memberOf[k.user]
               /\ st = "store" => answer = May(k)
      PROVE  AccessInv'
  <2> DEFINE new == [checks[c] EXCEPT !.stage = st, !.allowed = answer]
  <2>1. checks' = [checks EXCEPT ![c] = new]
        /\ UNCHANGED <<rowVars, wireVars, cache, changes, tainted>>
    BY <1>1, <1>4 DEF To
  <2>2. /\ new \in Check /\ new.stage = st /\ new.allowed = answer
        /\ new.key = k /\ new.raced = checks[c].raced
    BY <1>2 DEF Check
  <2>3. checks'[c] = new
    BY <1>1, <2>1
  <2> HIDE DEF new
  <2>4. UNCHANGED <<rooms, memberOf, rows>>
    BY <2>1 DEF rowVars
  <2>5. May(k)' = May(k)
    BY <2>2, <2>3, <2>4 DEF May, Effective
  <2>6. ~new.raced => ReadSoFar(c)'
    BY <1>4, <2>2, <2>3, <2>4, <2>5 DEF ReadSoFar
  <2> QED BY <1>1, <2>1, <2>2, <2>6, OneCheckMoves
<1>5. CASE ReadChannel(c)
  <2>1. CASE k.room \notin rooms
    <3>1. To(c, "store", FALSE)
      BY <1>5, <2>1 DEF ReadChannel
    <3>2. May(k) = FALSE
      BY <2>1 DEF May
    <3> QED BY <1>4, <3>1, <3>2
  <2>2. CASE k.room \in rooms \cap Direct
    <3>1. To(c, "participants", FALSE)
      BY <1>5, <2>2 DEF ReadChannel
    <3> QED BY <1>4, <2>2, <3>1
  <2>3. CASE k.room \in rooms \ Direct
    <3>1. To(c, "groups", FALSE)
      BY <1>5, <2>3 DEF ReadChannel
    <3> QED BY <1>4, <2>3, <3>1
  <2> QED BY <2>1, <2>2, <2>3
<1>6. CASE ReadParticipants(c)
  <2>1. To(c, "store", May(k))
    BY <1>6 DEF ReadParticipants
  <2>2. May(k) \in BOOLEAN
    BY DEF May
  <2> QED BY <1>4, <2>1, <2>2
<1>7. CASE ReadGroups(c)
  <2>1. checks[c].stage = "groups"
    BY <1>7 DEF ReadGroups
  <2>2. ~checks[c].raced => k.room \in rooms \ Direct
    BY <1>3, <2>1 DEF ReadSoFar
  <2>3. CASE Admins \in memberOf[k.user]
    <3>1. To(c, "store", TRUE)
      BY <1>7, <2>3 DEF ReadGroups
    <3>2. ~checks[c].raced => May(k) = TRUE
      BY <2>2, <2>3 DEF May
    <3> QED BY <1>4, <3>1, <3>2
  <2>4. CASE Admins \notin memberOf[k.user]
    <3>1. To(c, "rows", FALSE)
      BY <1>7, <2>4 DEF ReadGroups
    <3> QED BY <1>4, <2>2, <2>4, <3>1
  <2> QED BY <2>3, <2>4
<1>8. CASE ReadRows(c)
  <2>1. checks[c].stage = "rows" /\ To(c, "store", Effective(k))
    BY <1>8 DEF ReadRows
  <2>2. ~checks[c].raced => k.room \in rooms \ Direct /\ Admins \notin memberOf[k.user]
    BY <1>3, <2>1 DEF ReadSoFar
  <2>3. ~checks[c].raced => Effective(k) = May(k)
    BY <2>2 DEF May, Effective
  <2>4. Effective(k) \in BOOLEAN
    BY DEF Effective
  <2> QED BY <1>4, <2>1, <2>3, <2>4
<1> QED BY <1>5, <1>6, <1>7, <1>8

\* One of them fails, or the answer is not stored.
LEMMA FailStep ==
  ASSUME AccessInv, NEW c \in Checks, QueryFails(c) \/ StoreFails(c)
  PROVE  AccessInv'
<1>1. checks \in [Checks -> Check \cup {NoCheck}] /\ changes \in Nat
  BY DEF AccessInv, AccessTypeOK
<1>2. CASE QueryFails(c)
  <2> DEFINE new == [checks[c] EXCEPT !.stage = "store", !.allowed = FALSE, !.raced = TRUE]
  <2>1. checks[c] \in Check
    BY <1>1, <1>2 DEF QueryFails, NoCheck
  <2>2. new \in Check /\ new.raced
    BY <2>1 DEF Check
  <2>3. checks' = [checks EXCEPT ![c] = new]
    BY <1>1, <1>2 DEF QueryFails
  <2>4. changes' \in Nat /\ UNCHANGED <<rowVars, wireVars, cache, tainted>>
    BY <1>1, <1>2 DEF QueryFails
  <2> HIDE DEF new
  <2> QED BY <2>2, <2>3, <2>4, OneCheckMoves
<1>3. CASE StoreFails(c)
  BY <1>1, <1>3, OneCheckMoves DEF StoreFails
<1> QED BY <1>2, <1>3

\* The answer is stored.
LEMMA StoreStep ==
  ASSUME AccessInv, NEW c \in Checks, Store(c)
  PROVE  AccessInv'
<1> DEFINE k == checks[c].key
           value == IF checks[c].allowed THEN "yes" ELSE "no"
<1>1. AccessTypeOK /\ StaleIsExplained /\ ReadsHold
  BY DEF AccessInv
<1>2. checks[c] \in Check /\ checks[c] # NoCheck /\ k \in Key /\ checks[c].stage = "store"
  BY <1>1 DEF Store, AccessTypeOK, NoCheck, Check
<1>3. /\ cache' = [cache EXCEPT ![k] = value]
      /\ tainted' = IF checks[c].raced THEN tainted \cup {k} ELSE tainted \ {k}
      /\ checks' = [checks EXCEPT ![c] = NoCheck]
      /\ UNCHANGED <<rooms, unborn, opening, roles, memberOf, rows, owed, subject,
                     found, changes>>
  BY DEF Store, rowVars, wireVars
<1>4. AccessTypeOK'
  BY <1>1, <1>2, <1>3 DEF AccessTypeOK
<1>5. ReadsHold'
  <2> SUFFICES ASSUME NEW d \in Checks, checks'[d] # NoCheck, ~checks'[d].raced
               PROVE  ReadSoFar(d)'
    BY DEF ReadsHold
  <2>1. checks'[d] = checks[d]
    BY <1>1, <1>3 DEF AccessTypeOK
  <2>2. ReadSoFar(d)
    BY <1>1, <2>1 DEF ReadsHold
  <2> QED BY <1>3, <2>1, <2>2, SameReads
<1>6. StaleIsExplained'
  <2> SUFFICES ASSUME NEW x \in Key, cache'[x] \notin {"none", Answer(x)'}
               PROVE  Explained(x)'
    BY DEF StaleIsExplained, Explained, Announced
  <2>1. Answer(x)' = Answer(x)
    BY <1>3 DEF Answer, May, Effective
  <2>2. CASE x # k
    <3>1. cache'[x] = cache[x]
      BY <1>1, <1>3, <2>2 DEF AccessTypeOK
    <3>2. Explained(x)
      BY <1>1, <2>1, <3>1, StaleMeans
    <3> QED BY <1>3, <2>2, <3>2 DEF Explained, Announced
  <2>3. CASE x = k
    <3>1. CASE checks[c].raced
      BY <1>3, <2>3, <3>1 DEF Explained
    <3>2. CASE ~checks[c].raced
      <4>1. checks[c].allowed = May(k)
        BY <1>1, <1>2, <3>2 DEF ReadsHold, ReadSoFar
      <4>2. cache'[k] = Answer(k)
        BY <1>1, <1>2, <1>3, <4>1 DEF AccessTypeOK, Answer
      <4> QED BY <2>1, <2>3, <4>2
    <3> QED BY <3>1, <3>2
  <2> QED BY <2>2, <2>3
<1> QED BY <1>4, <1>5, <1>6 DEF AccessInv

\* An entry expires.
LEMMA ExpiresStep ==
  ASSUME AccessInv, NEW k \in Key, Expires(k)
  PROVE  AccessInv'
<1>1. AccessTypeOK /\ StaleIsExplained
  BY DEF AccessInv
<1>2. /\ cache' = [cache EXCEPT ![k] = "none"] /\ tainted' = tainted \ {k}
      /\ UNCHANGED <<rowVars, wireVars, checks, changes>>
  BY DEF Expires
<1>3. ReadsHold' /\ \A x \in Key : Answer(x)' = Answer(x)
  BY <1>2, RestKeeps
<1>4. AccessTypeOK'
  BY <1>1, <1>2 DEF AccessTypeOK, rowVars, wireVars
<1>5. StaleIsExplained'
  <2> SUFFICES ASSUME NEW x \in Key, cache'[x] \notin {"none", Answer(x)'}
               PROVE  Explained(x)'
    BY DEF StaleIsExplained, Explained, Announced
  <2>1. x # k /\ cache'[x] = cache[x]
    BY <1>1, <1>2 DEF AccessTypeOK
  <2>2. Explained(x)
    BY <1>1, <1>3, <2>1, StaleMeans
  <2> QED BY <1>2, <2>1, <2>2 DEF Explained, Announced, rowVars, wireVars
<1> QED BY <1>3, <1>4, <1>5 DEF AccessInv

-----------------------------------------------------------------------------
\* Every step keeps the invariant.
LEMMA InvNext == AccessInv /\ [AccessNext]_accessVars => AccessInv'
<1> SUFFICES ASSUME AccessInv, [AccessNext]_accessVars PROVE AccessInv'
  OBVIOUS
<1>1. CASE UNCHANGED accessVars
  <2>1. UNCHANGED <<rowVars, wireVars, cache, checks, changes, tainted>>
    BY <1>1 DEF accessVars
  <2>2. ReadsHold' /\ \A k \in Key : Answer(k)' = Answer(k)
    BY <2>1, RestKeeps
  <2>3. AccessTypeOK'
    BY <2>1 DEF AccessInv, AccessTypeOK, rowVars, wireVars
  <2>4. StaleIsExplained'
    BY <2>1, <2>2 DEF AccessInv, StaleIsExplained, rowVars, wireVars
  <2> QED BY <2>2, <2>3, <2>4 DEF AccessInv
<1>2. CASE HubRequest
  BY <1>2, RoomStep, OpenRoomFailsStep, MemberStep, GroupStep DEF HubRequest
<1>3. CASE Invalidation
  BY <1>3, InvalidationStep
<1>4. ASSUME NEW c \in Checks,
             \/ \E k \in Key : BeginCheck(c, k) \/ GetFails(c, k)
             \/ CheckGoesOn(c) \/ QueryFails(c)
      PROVE  AccessInv'
  BY <1>4, BeginStep, ReadStep, StoreStep, FailStep DEF CheckGoesOn
<1>5. ASSUME NEW k \in Key, Expires(k) PROVE AccessInv'
  BY <1>5, ExpiresStep
<1> QED BY <1>1, <1>2, <1>3, <1>4, <1>5 DEF AccessNext

\* Every reachable state satisfies the invariant.
LEMMA Reached == AccessSpec => []AccessInv
BY AccessInvInit, InvNext, PTL DEF AccessSpec

\* The variables of the permission check keep their types, whatever the number
\* of users, channels, groups, checks and changes.
THEOREM AccessTypeCorrect == AccessSpec => []AccessTypeOK
<1>1. AccessInv => AccessTypeOK
  BY DEF AccessInv
<1> QED BY <1>1, Reached, PTL

\* A cached answer that is not what the tables say is about to be swept, or was
\* stored by a check that raced or failed, or its change was never announced
\* (access.rs, acl_consumer.rs, acl_publish.rs and the hub's requests): for any
\* number of channels, users, groups, checks under way and changes.
THEOREM StaleCorrect == AccessSpec => []StaleIsExplained
<1>1. AccessInv => StaleIsExplained
  BY DEF AccessInv
<1> QED BY <1>1, Reached, PTL

\* A check none of whose rows changed while it ran stores what the tables say,
\* though its three queries are no transaction (access.rs check_uncached).
THEOREM Unraced ==
  AccessSpec => [](\A c \in Checks :
     checks[c].stage = "store" /\ ~checks[c].raced =>
        checks[c].allowed = May(checks[c].key))
<1>1. AccessInv => \A c \in Checks :
         checks[c].stage = "store" /\ ~checks[c].raced =>
            checks[c].allowed = May(checks[c].key)
  <2> SUFFICES ASSUME AccessInv, NEW c \in Checks, checks[c].stage = "store",
                      ~checks[c].raced
               PROVE  checks[c].allowed = May(checks[c].key)
    OBVIOUS
  <2>1. checks[c] # NoCheck
    BY DEF NoCheck
  <2> QED BY <2>1 DEF AccessInv, ReadsHold, ReadSoFar
<1> QED BY <1>1, Reached, PTL

-----------------------------------------------------------------------------
(* Both.                                                                   *)

\* What holds of each half alone holds of both: the service's behaviours are
\* behaviours of the gateway, and of the check.
LEMMA HalvesAlone == ServiceSpec => Spec /\ AccessSpec
<1>1. ServiceInit => Init /\ AccessInit
  BY DEF ServiceInit
<1>2. [ServiceNext]_serviceVars => [Next]_vars /\ [AccessNext]_accessVars
  BY DEF ServiceNext, GatewayMoves, AccessMoves, serviceVars
<1> QED BY <1>1, <1>2, PTL DEF ServiceSpec, Spec, AccessSpec

\* The promises of both halves in one state, as an event meets them: a session's
\* buffer is the tail of what was numbered in it, what the application got is
\* what was numbered up to its last sequence number, and an answer of the check
\* that the tables would not give has a reason.
THEOREM ServiceCorrect ==
  ASSUME HalfOpen = FALSE
  PROVE  ServiceSpec => [](BufferIsTailOfLog /\ ExactlyOnceInSession /\ StaleIsExplained)
BY HalvesAlone, BufferCorrect, DeliveryCorrect, StaleCorrect, PTL
=============================================================================
