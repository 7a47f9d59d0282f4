---------------------------- MODULE ChatGateway ----------------------------
(***************************************************************************)
(* The chat gateway's resumable sessions: the handler task of every        *)
(* WebSocket connection (services/chat/src/gateway.rs), the session store  *)
(* with its replay ring-buffers and its reaper (services/chat/src/         *)
(* session.rs, main.rs) and the client that reconnects and resumes         *)
(* (packages/sdk-chat/src/client.ts).                                      *)
(*                                                                         *)
(* One client is modelled, over as many connections as Conn has; handlers  *)
(* of different clients share nothing but the map.  A connection is one    *)
(* TCP connection with its handler task; a session is named by the         *)
(* connection whose IDENTIFY created it (the code draws a fresh UUID).     *)
(* An event is one hub event that this user may read, numbered in the      *)
(* order in which NATS delivers it.                                        *)
(*                                                                         *)
(* The mpsc channel of a connection, its writer task and the socket are    *)
(* one FIFO, out[c]; the NATS subscription and the dispatch channel are    *)
(* one FIFO, inbox[c]: nobody looks between the two halves.                *)
(***************************************************************************)
EXTENDS Naturals, Sequences, FiniteSets

CONSTANTS
    Conn,        \* connections that may be opened
    None,        \* no connection, no session
    MaxEvents,   \* MAX_EVENTS: capacity of a replay buffer, in events
    MaxBytes,    \* MAX_BYTES: capacity of a replay buffer, in bytes
    OutCap,      \* capacity of the out_tx channel
    MaxPublish,  \* bound: number of events published
    SizeOf,      \* SizeOf[e]: serialized size of event e
    HalfOpen     \* may a handler outlive the connection its client gave up?

ASSUME NoneAssumption == None \notin Conn
ASSUME CapAssumption ==
    /\ MaxEvents \in Nat \ {0} /\ MaxBytes \in Nat
    /\ OutCap \in Nat \ {0} /\ MaxPublish \in Nat
ASSUME SizeAssumption == SizeOf \in [1..MaxPublish -> Nat]
ASSUME HalfOpenAssumption == HalfOpen \in BOOLEAN

VARIABLES
    published,   \* events published so far on hub.{id}.channel.>
    store,       \* SessionStore: the sessions in the map
    events,      \* SessionInner.events: ring-buffer of numbered events
    lastSeq,     \* SessionInner.last_seq
    disc,        \* SessionInner.disconnected_at, as "connected" (None),
                 \* "recent" or "expired" (older than SESSION_TTL)
    pc,          \* where the handler of a connection is
    sess,        \* the SessionHandle a handler holds
    seq,         \* run_session's own sequence counter
    inbox,       \* events on their way from NATS to the handler's loop
    tosend,      \* frames the handler is sending: the replay, or the one
                 \* frame for which dispatch waits
    out,         \* frames queued for or travelling to the client
    writer,      \* is the writer task (the receiver of out_tx) alive?
    up,          \* does the socket still carry frames?
    cmd,         \* IDENTIFY or RESUME on its way to the handler
    cst,         \* ChatClient._state
    ws,          \* ChatClient.ws
    sessionId,   \* ChatClient.sessionId
    clientSeq,   \* ChatClient.lastSeq
    log,         \* history: events ever dispatched in a session
    got          \* history: events the client received in its session

sessionVars == <<store, events, lastSeq, disc, log>>
handlerVars == <<pc, sess, seq, inbox, tosend, out, writer>>
clientVars  == <<cst, ws, sessionId, clientSeq, got>>
vars == <<published, sessionVars, handlerVars, up, cmd, clientVars>>

-----------------------------------------------------------------------------
(* Frames and commands.  Only dispatched events carry a number.            *)

ControlFrame == [op  : {"hello", "ready", "resumed", "invalid", "close"},
                 sid : Conn \cup {None}, s : {0}, e : {0}]
NumberedFrame == [op : {"event"}, sid : {None}, s : Nat, e : 1..MaxPublish]
Frame == ControlFrame \cup NumberedFrame

Ctl(op, sid) == [op |-> op, sid |-> sid, s |-> 0, e |-> 0]
EventFrame(n, e) == [op |-> "event", sid |-> None, s |-> n, e |-> e]

Command == [op : {"none", "identify", "resume"}, sid : Conn \cup {None}, seq : Nat]
NoCommand == [op |-> "none", sid |-> None, seq |-> 0]

Numbered == [s : Nat, e : 1..MaxPublish]     \* BufferedEvent

Handling == {"auth", "replay", "mark", "lastseq", "sending", "subscribe",
             "live", "blocked"}
HandlerState == Handling \cup {"idle", "done"}
Running(c) == pc[c] \in Handling
Subscribed(c) == pc[c] \in {"live", "blocked"}

-----------------------------------------------------------------------------
(* The replay buffer.                                                      *)

Bytes(b) ==
    LET sum[i \in 0..Len(b)] ==
          IF i = 0 THEN 0 ELSE sum[i-1] + SizeOf[b[i].e]
    IN  IF b = <<>> THEN 0 ELSE sum[Len(b)]

OverCapacity(b) == Len(b) > MaxEvents \/ Bytes(b) > MaxBytes

\* The eviction loop stops at the first suffix within both capacities.
Evicted(b, k) ==
    /\ ~OverCapacity(SubSeq(b, k, Len(b)))
    /\ \A j \in 1..(k-1) : OverCapacity(SubSeq(b, j, Len(b)))

\* SessionInner::push: append, renumber last_seq, evict the oldest.
Push(s, n, e) ==
    /\ LET b == Append(events[s], [s |-> n, e |-> e])
       IN  \E k \in 1..(Len(b) + 1) :
             /\ Evicted(b, k)
             /\ events' = [events EXCEPT ![s] = SubSeq(b, k, Len(b))]
    /\ lastSeq' = [lastSeq EXCEPT ![s] = n]
    /\ log' = [log EXCEPT ![s] = Append(@, e)]

\* SessionInner::replay_from: the oldest number still held ...
MinSeq(s) == IF events[s] = <<>> THEN lastSeq[s] + 1 ELSE events[s][1].s

\* Faulty variant of Gap: the event just before the buffer is overlooked.
GapOffByOne(s, after) == after <= lastSeq[s] /\ after + 2 < MinSeq(s)

\* ... is there a gap between what the client has and the buffer ...
Gap(s, after) == after <= lastSeq[s] /\ after + 1 < MinSeq(s)

\* Faulty variant of Newer: the last event the client has is sent again.
NewerInclusive(s, after) ==
    {i \in 1..Len(events[s]) : after <= lastSeq[s] /\ events[s][i].s >= after}

\* ... and, when there is none, where in the buffer the events to replay are.
\* A client that is ahead of the session gets nothing.
Newer(s, after) ==
    {i \in 1..Len(events[s]) : after <= lastSeq[s] /\ events[s][i].s > after}

\* The filter keeps the order of the buffer: pos lists the places of Newer.
Replays(s, after, pos) ==
    /\ \A i, j \in DOMAIN pos : i < j => pos[i] < pos[j]
    /\ {pos[i] : i \in DOMAIN pos} = Newer(s, after)

ReplayFrames(s, pos) ==
    [i \in DOMAIN pos |-> EventFrame(events[s][pos[i]].s, events[s][pos[i]].e)]

-----------------------------------------------------------------------------
Init ==
    /\ published = 0
    /\ store = {}
    /\ events  = [s \in Conn |-> <<>>]
    /\ lastSeq = [s \in Conn |-> 0]
    /\ disc    = [s \in Conn |-> "connected"]
    /\ log     = [s \in Conn |-> <<>>]
    /\ pc      = [c \in Conn |-> "idle"]
    /\ sess    = [c \in Conn |-> None]
    /\ seq     = [c \in Conn |-> 0]
    /\ inbox   = [c \in Conn |-> <<>>]
    /\ tosend  = [c \in Conn |-> <<>>]
    /\ out     = [c \in Conn |-> <<>>]
    /\ writer  = [c \in Conn |-> FALSE]
    /\ up      = [c \in Conn |-> FALSE]
    /\ cmd     = [c \in Conn |-> NoCommand]
    /\ cst = "disconnected" /\ ws = None
    /\ sessionId = None /\ clientSeq = 0 /\ got = <<>>

-----------------------------------------------------------------------------
(* NATS: an event reaches the handlers that are subscribed now.            *)

Publish ==
    /\ published < MaxPublish
    /\ published' = published + 1
    /\ inbox' = [c \in Conn |-> IF Subscribed(c)
                                  THEN Append(inbox[c], published + 1)
                                  ELSE inbox[c]]
    /\ UNCHANGED <<sessionVars, pc, sess, seq, tosend, out, writer, up, cmd,
                   clientVars>>

-----------------------------------------------------------------------------
(* The client.                                                             *)

\* openWebSocket, and handle_connection up to its HELLO.  Without HalfOpen
\* the server has noticed the end of every earlier connection by now.
OpenWebSocket(c) ==
    /\ ws = None
    /\ pc[c] = "idle"
    /\ ~HalfOpen => \A d \in Conn : ~Running(d)
    /\ ws' = c
    /\ cst' = IF sessionId # None THEN "resuming" ELSE "connecting"
    /\ up' = [up EXCEPT ![c] = TRUE]
    /\ writer' = [writer EXCEPT ![c] = TRUE]
    /\ out' = [out EXCEPT ![c] = <<Ctl("hello", None)>>]
    /\ pc' = [pc EXCEPT ![c] = "auth"]
    /\ UNCHANGED <<published, sessionVars, sess, seq, inbox, tosend, cmd,
                   sessionId, clientSeq, got>>

\* connect(): the application starts the client.
Connect(c) == cst = "disconnected" /\ OpenWebSocket(c)

\* scheduleReconnect's timer fires.
Reconnect(c) == cst = "reconnecting" /\ OpenWebSocket(c)

\* The socket dies under the client, or the client closes it after a missed
\* heartbeat ACK or on RECONNECT: ws.onclose.
ConnectionLost ==
    /\ ws # None
    /\ up' = [up EXCEPT ![ws] = FALSE]
    /\ ws' = None
    /\ cst' = "reconnecting"
    /\ UNCHANGED <<published, sessionVars, handlerVars, cmd, sessionId,
                   clientSeq, got>>

\* disconnect(): forget the session, close without onclose.
Disconnect ==
    /\ cst # "disconnected"
    /\ cst' = "disconnected"
    /\ ws' = None
    /\ up' = IF ws = None THEN up ELSE [up EXCEPT ![ws] = FALSE]
    /\ sessionId' = None /\ clientSeq' = 0 /\ got' = <<>>
    /\ UNCHANGED <<published, sessionVars, handlerVars, cmd>>

\* ws.onmessage: the next frame, of kind op, is taken from the wire.
Takes(op) ==
    /\ ws # None
    /\ out[ws] # <<>>
    /\ Head(out[ws]).op = op
    /\ out' = [out EXCEPT ![ws] = Tail(@)]

\* handleHello: RESUME when there is a session to resume, else IDENTIFY.
HandleHello ==
    /\ Takes("hello")
    /\ IF sessionId # None
         THEN /\ cst' = "resuming"
              /\ cmd' = [cmd EXCEPT ![ws] =
                           [op |-> "resume", sid |-> sessionId, seq |-> clientSeq]]
         ELSE /\ cst' = "identifying"
              /\ cmd' = [cmd EXCEPT ![ws] =
                           [op |-> "identify", sid |-> None, seq |-> 0]]
    /\ UNCHANGED <<published, sessionVars, pc, sess, seq, inbox, tosend, writer,
                   up, ws, sessionId, clientSeq, got>>

HandleReady ==
    /\ Takes("ready")
    /\ sessionId' = Head(out[ws]).sid
    /\ cst' = "connected"
    /\ got' = <<>>
    /\ UNCHANGED <<published, sessionVars, pc, sess, seq, inbox, tosend, writer,
                   up, cmd, ws, clientSeq>>

HandleResumed ==
    /\ Takes("resumed")
    /\ cst' = "connected"
    /\ UNCHANGED <<published, sessionVars, pc, sess, seq, inbox, tosend, writer,
                   up, cmd, ws, sessionId, clientSeq, got>>

\* A numbered dispatch: remember its number, hand its event to the handlers.
HandleDispatch ==
    /\ Takes("event")
    /\ clientSeq' = Head(out[ws]).s
    /\ got' = Append(got, Head(out[ws]).e)
    /\ UNCHANGED <<published, sessionVars, pc, sess, seq, inbox, tosend, writer,
                   up, cmd, cst, ws, sessionId>>

\* INVALID_SESSION with d = false, the only form the server sends.
HandleInvalid ==
    /\ Takes("invalid")
    /\ sessionId' = None /\ clientSeq' = 0 /\ got' = <<>>
    /\ UNCHANGED <<published, sessionVars, pc, sess, seq, inbox, tosend, writer,
                   up, cmd, cst, ws>>

\* The server's close frame: onclose schedules a reconnect.
HandleClose ==
    /\ Takes("close")
    /\ up' = [up EXCEPT ![ws] = FALSE]
    /\ ws' = None
    /\ cst' = "reconnecting"
    /\ UNCHANGED <<published, sessionVars, pc, sess, seq, inbox, tosend, writer,
                   cmd, sessionId, clientSeq, got>>

Receive == HandleHello \/ HandleReady \/ HandleResumed \/ HandleDispatch
             \/ HandleInvalid \/ HandleClose

-----------------------------------------------------------------------------
(* The connection handler.                                                 *)

HasRoom(c) == Len(out[c]) < OutCap

\* A send on out_tx by a live writer; a dead one makes it fail.
Sent(c, frames) == out' = [out EXCEPT ![c] = IF writer[c] THEN @ \o frames ELSE @]

\* Return from the handler: out_tx is dropped, so the writer task drains what
\* is queued and ends with a close frame.
Returns(c, frames) ==
    /\ Sent(c, Append(frames, Ctl("close", None)))
    /\ pc' = [pc EXCEPT ![c] = "done"]
    /\ inbox' = [inbox EXCEPT ![c] = <<>>]
    /\ tosend' = [tosend EXCEPT ![c] = <<>>]

\* send_invalid_session and return.
Reject(c) ==
    /\ Returns(c, <<Ctl("invalid", None)>>)
    /\ cmd' = [cmd EXCEPT ![c] = NoCommand]
    /\ UNCHANGED <<published, sessionVars, sess, seq, writer, up, clientVars>>

\* wait_for_auth gave up: 10 s passed, or the socket failed.
AuthTimeout(c) == pc[c] = "auth" /\ Reject(c)

\* IDENTIFY with a valid token: a new session, READY.
Identify(c) ==
    /\ pc[c] = "auth" /\ cmd[c].op = "identify"
    /\ cmd' = [cmd EXCEPT ![c] = NoCommand]
    /\ store' = store \cup {c}
    /\ disc' = [disc EXCEPT ![c] = "connected"]
    /\ sess' = [sess EXCEPT ![c] = c]
    /\ seq' = [seq EXCEPT ![c] = 0]
    /\ IF writer[c]
         THEN /\ HasRoom(c)
              /\ Sent(c, <<Ctl("ready", c)>>)
              /\ pc' = [pc EXCEPT ![c] = "subscribe"]
              /\ UNCHANGED <<inbox, tosend>>
         ELSE Returns(c, <<>>)
    /\ UNCHANGED <<published, events, lastSeq, log, writer, up, clientVars>>

\* IDENTIFY with a token that does not verify.
IdentifyRejected(c) ==
    /\ pc[c] = "auth" /\ cmd[c].op = "identify"
    /\ Reject(c)

\* RESUME: sessions.get(session_id) finds the session ...
ResumeLookup(c) ==
    /\ pc[c] = "auth" /\ cmd[c].op = "resume"
    /\ cmd[c].sid \in store
    /\ sess' = [sess EXCEPT ![c] = cmd[c].sid]
    /\ pc' = [pc EXCEPT ![c] = "replay"]
    /\ UNCHANGED <<published, sessionVars, seq, inbox, tosend, out, writer, up,
                   cmd, clientVars>>

\* ... or does not.
ResumeNotFound(c) ==
    /\ pc[c] = "auth" /\ cmd[c].op = "resume"
    /\ cmd[c].sid \notin store
    /\ Reject(c)

\* session.replay_from(seq) under the session's lock.
ResumeReplay(c) ==
    /\ pc[c] = "replay"
    /\ ~Gap(sess[c], cmd[c].seq)
    /\ \E n \in 0..Len(events[sess[c]]) :
         \E pos \in [1..n -> 1..Len(events[sess[c]])] :
           /\ Replays(sess[c], cmd[c].seq, pos)
           /\ tosend' = [tosend EXCEPT ![c] = ReplayFrames(sess[c], pos)]
    /\ cmd' = [cmd EXCEPT ![c] = NoCommand]
    /\ pc' = [pc EXCEPT ![c] = "mark"]
    /\ UNCHANGED <<published, sessionVars, sess, seq, inbox, out, writer, up,
                   clientVars>>

ResumeGap(c) ==
    /\ pc[c] = "replay"
    /\ Gap(sess[c], cmd[c].seq)
    /\ Reject(c)

\* Faulty variant of MarkConnected: the countdown is not stopped.
MarkConnectedNot(c) ==
    /\ pc[c] = "mark"
    /\ pc' = [pc EXCEPT ![c] = "lastseq"]
    /\ UNCHANGED <<published, sessionVars, sess, seq, inbox, tosend, out, writer,
                   up, cmd, clientVars>>

\* session.mark_connected(), a second critical section.
MarkConnected(c) ==
    /\ pc[c] = "mark"
    /\ disc' = [disc EXCEPT ![sess[c]] = "connected"]
    /\ pc' = [pc EXCEPT ![c] = "lastseq"]
    /\ UNCHANGED <<published, store, events, lastSeq, log, sess, seq,
                   inbox, tosend, out, writer, up, cmd, clientVars>>

\* Faulty variant of ReadLastSeq: a resumed session numbers from 1 again.
ReadLastSeqZero(c) ==
    /\ pc[c] = "lastseq"
    /\ seq' = [seq EXCEPT ![c] = 0]
    /\ pc' = [pc EXCEPT ![c] = "sending"]
    /\ UNCHANGED <<published, sessionVars, sess, inbox, tosend, out, writer, up,
                   cmd, clientVars>>

\* session.last_seq(), a third one.
ReadLastSeq(c) ==
    /\ pc[c] = "lastseq"
    /\ seq' = [seq EXCEPT ![c] = lastSeq[sess[c]]]
    /\ pc' = [pc EXCEPT ![c] = "sending"]
    /\ UNCHANGED <<published, sessionVars, sess, inbox, tosend, out, writer, up,
                   cmd, clientVars>>

\* The replay loop, then RESUMED.  A failed send returns at once: the session
\* stays marked connected.
SendReplay(c) ==
    /\ pc[c] = "sending"
    /\ IF ~writer[c]
         THEN Returns(c, <<>>)
         ELSE /\ HasRoom(c)
              /\ IF tosend[c] # <<>>
                   THEN /\ Sent(c, <<Head(tosend[c])>>)
                        /\ tosend' = [tosend EXCEPT ![c] = Tail(@)]
                        /\ pc' = pc
                   ELSE /\ Sent(c, <<Ctl("resumed", None)>>)
                        /\ pc' = [pc EXCEPT ![c] = "subscribe"]
                        /\ tosend' = tosend
              /\ inbox' = inbox
    /\ UNCHANGED <<published, sessionVars, sess, seq, writer, up, cmd, clientVars>>

\* run_session: the NATS subscription.
Subscribe(c) ==
    /\ pc[c] = "subscribe"
    /\ pc' = [pc EXCEPT ![c] = "live"]
    /\ UNCHANGED <<published, store, events, lastSeq, disc, log, sess, seq,
                   inbox, tosend, out, writer, up, cmd, clientVars>>

\* The subscription fails: the writer task is aborted, with whatever it has
\* not written, and the session stays marked connected.
SubscribeFails(c) ==
    /\ pc[c] = "subscribe"
    /\ pc' = [pc EXCEPT ![c] = "done"]
    /\ \E k \in 0..Len(out[c]) :
         out' = [out EXCEPT ![c] = Append(SubSeq(@, 1, k), Ctl("close", None))]
    /\ UNCHANGED <<published, sessionVars, sess, seq, inbox, tosend, writer, up,
                   cmd, clientVars>>

\* The end of run_session: unsubscribe, mark_disconnected, drain, close.
Cleanup(c) ==
    /\ disc' = [disc EXCEPT ![sess[c]] = "recent"]
    /\ Returns(c, <<>>)

\* One turn of the loop on dispatch_rx: number the event, buffer it, send it.
\* Buffering comes first; the send may wait for room, or fail.
Dispatch(c) ==
    /\ pc[c] = "live"
    /\ inbox[c] # <<>>
    /\ LET n == seq[c] + 1
           e == Head(inbox[c])
       IN  /\ seq' = [seq EXCEPT ![c] = n]
           /\ Push(sess[c], n, e)
           /\ \/ /\ writer[c] /\ HasRoom(c)
                 /\ Sent(c, <<EventFrame(n, e)>>)
                 /\ inbox' = [inbox EXCEPT ![c] = Tail(@)]
                 /\ UNCHANGED <<pc, tosend, disc>>
              \/ /\ writer[c] /\ ~HasRoom(c)
                 /\ pc' = [pc EXCEPT ![c] = "blocked"]
                 /\ tosend' = [tosend EXCEPT ![c] = <<EventFrame(n, e)>>]
                 /\ inbox' = [inbox EXCEPT ![c] = Tail(@)]
                 /\ UNCHANGED <<out, disc>>
              \/ ~writer[c] /\ Cleanup(c)
    /\ UNCHANGED <<published, store, sess, writer, up, cmd, clientVars>>

\* Faulty variant of Unblock: the failure of the send is not noticed.
UnblockOnlyWithRoom(c) ==
    /\ pc[c] = "blocked"
    /\ writer[c] /\ HasRoom(c)
    /\ Sent(c, tosend[c])
    /\ tosend' = [tosend EXCEPT ![c] = <<>>]
    /\ pc' = [pc EXCEPT ![c] = "live"]
    /\ UNCHANGED <<published, sessionVars, inbox, sess, seq, writer, up, cmd,
                   clientVars>>

\* Faulty variant of Unblock: a frame that found no room is thrown away.
UnblockDrops(c) ==
    /\ pc[c] = "blocked"
    /\ tosend' = [tosend EXCEPT ![c] = <<>>]
    /\ pc' = [pc EXCEPT ![c] = "live"]
    /\ UNCHANGED <<published, sessionVars, inbox, out, sess, seq, writer, up, cmd,
                   clientVars>>

\* dispatch's send gets room, or fails.
Unblock(c) ==
    /\ pc[c] = "blocked"
    /\ IF writer[c]
         THEN /\ HasRoom(c)
              /\ Sent(c, tosend[c])
              /\ tosend' = [tosend EXCEPT ![c] = <<>>]
              /\ pc' = [pc EXCEPT ![c] = "live"]
              /\ UNCHANGED <<inbox, disc>>
         ELSE Cleanup(c)
    /\ UNCHANGED <<published, store, events, lastSeq, log, sess, seq,
                   writer, up, cmd, clientVars>>

\* The loop ends: the socket fails or closes ...
ReadFails(c) ==
    /\ pc[c] = "live" /\ ~up[c]
    /\ Cleanup(c)
    /\ UNCHANGED <<published, store, events, lastSeq, log, sess, seq,
                   writer, up, cmd, clientVars>>

\* ... or no heartbeat came for HEARTBEAT_TIMEOUT_MS.
HeartbeatTimeout(c) ==
    /\ pc[c] = "live"
    /\ Cleanup(c)
    /\ UNCHANGED <<published, store, events, lastSeq, log, sess, seq,
                   writer, up, cmd, clientVars>>

\* writer_task: a write on a dead socket fails, and the task ends.  (Once the
\* handler has returned, nobody can tell what its writer does.)
WriterFails(c) ==
    /\ Running(c) /\ writer[c] /\ ~up[c] /\ out[c] # <<>>
    /\ writer' = [writer EXCEPT ![c] = FALSE]
    /\ out' = [out EXCEPT ![c] = <<>>]
    /\ UNCHANGED <<published, sessionVars, pc, sess, seq, inbox, tosend, up, cmd,
                   clientVars>>

\* ... unless the kernel took the frame, which then goes nowhere.
FrameLost(c) ==
    /\ Running(c) /\ writer[c] /\ ~up[c] /\ out[c] # <<>>
    /\ out' = [out EXCEPT ![c] = Tail(@)]
    /\ UNCHANGED <<published, sessionVars, pc, sess, seq, inbox, tosend, writer,
                   up, cmd, clientVars>>

Handler(c) ==
    \/ AuthTimeout(c) \/ Identify(c) \/ IdentifyRejected(c)
    \/ ResumeLookup(c) \/ ResumeNotFound(c) \/ ResumeReplay(c) \/ ResumeGap(c)
    \/ MarkConnected(c) \/ ReadLastSeq(c) \/ SendReplay(c)
    \/ Subscribe(c) \/ SubscribeFails(c)
    \/ Dispatch(c) \/ Unblock(c) \/ ReadFails(c) \/ HeartbeatTimeout(c)
    \/ WriterFails(c) \/ FrameLost(c)

-----------------------------------------------------------------------------
(* The session store's reaper, and the end of the process.                 *)

\* SESSION_TTL passes after the disconnect of s.
TtlElapses(s) ==
    /\ s \in store /\ disc[s] = "recent"
    /\ disc' = [disc EXCEPT ![s] = "expired"]
    /\ UNCHANGED <<published, store, events, lastSeq, log, handlerVars, up,
                   cmd, clientVars>>

\* reap_expired, every 60 s.
Reap ==
    /\ \E s \in store : disc[s] = "expired"
    /\ store' = {s \in store : disc[s] # "expired"}
    /\ UNCHANGED <<published, events, lastSeq, disc, log, handlerVars, up,
                   cmd, clientVars>>

\* The chat process restarts: sessions and handlers are in memory only.
Restart ==
    /\ \E c \in Conn : Running(c)
    /\ store' = {}
    /\ pc' = [c \in Conn |-> IF Running(c) THEN "done" ELSE pc[c]]
    /\ writer' = [c \in Conn |-> FALSE]
    /\ out' = [c \in Conn |-> <<>>]
    /\ inbox' = [c \in Conn |-> <<>>]
    /\ tosend' = [c \in Conn |-> <<>>]
    /\ up' = [c \in Conn |-> FALSE]
    /\ ws' = None
    /\ cst' = IF ws = None THEN cst ELSE "reconnecting"
    /\ UNCHANGED <<published, events, lastSeq, disc, log, sess, seq, cmd,
                   sessionId, clientSeq, got>>

-----------------------------------------------------------------------------
Next ==
    \/ Publish
    \/ \E c \in Conn : Connect(c) \/ Reconnect(c)
    \/ ConnectionLost \/ Disconnect
    \/ Receive
    \/ \E c \in Conn : Handler(c)
    \/ \E s \in Conn : TtlElapses(s)
    \/ Reap \/ Restart

Spec == Init /\ [][Next]_vars

\* What tokio, the browser and the timers see to: a handler that can take its
\* next step takes it, its authentication deadline passes, a frame that has
\* arrived is handled, a scheduled reconnect happens, and the reaper runs.
\* Failures (of a subscription, a token, a heartbeat, the socket) are never
\* forced.
Progress(c) ==
    \/ Identify(c) \/ ResumeLookup(c) \/ ResumeNotFound(c)
    \/ ResumeReplay(c) \/ ResumeGap(c) \/ MarkConnected(c) \/ ReadLastSeq(c)
    \/ SendReplay(c) \/ Subscribe(c) \/ Dispatch(c) \/ Unblock(c) \/ ReadFails(c)

Fairness ==
    /\ \A c \in Conn : WF_vars(Progress(c)) /\ WF_vars(AuthTimeout(c))
                          /\ WF_vars(WriterFails(c) \/ FrameLost(c))
    /\ WF_vars(Receive)
    /\ WF_vars(\E c \in Conn : Reconnect(c))
    /\ \A s \in Conn : WF_vars(TtlElapses(s))
    /\ WF_vars(Reap)

FairSpec == Spec /\ Fairness

-----------------------------------------------------------------------------
(* Properties.                                                             *)

SessionOrNone == Conn \cup {None}

\* The types, with the promise of session.rs that a buffer holds at most
\* MAX_EVENTS events and MAX_BYTES bytes.
TypeOK ==
    /\ published \in 0..MaxPublish
    /\ store \in SUBSET Conn
    /\ events \in [Conn -> Seq(Numbered)]
    /\ \A s \in Conn : ~OverCapacity(events[s])
    /\ lastSeq \in [Conn -> Nat]
    /\ disc \in [Conn -> {"connected", "recent", "expired"}]
    /\ pc \in [Conn -> HandlerState]
    /\ sess \in [Conn -> SessionOrNone]
    /\ seq \in [Conn -> Nat]
    /\ inbox \in [Conn -> Seq(1..MaxPublish)]
    /\ tosend \in [Conn -> Seq(Frame)]
    /\ out \in [Conn -> Seq(Frame)]
    /\ writer \in [Conn -> BOOLEAN]
    /\ up \in [Conn -> BOOLEAN]
    /\ cmd \in [Conn -> Command]
    /\ cst \in {"disconnected", "connecting", "identifying", "resuming",
                "connected", "reconnecting"}
    /\ ws \in SessionOrNone /\ sessionId \in SessionOrNone
    /\ clientSeq \in Nat
    /\ log \in [Conn -> Seq(1..MaxPublish)]
    /\ got \in Seq(1..MaxPublish)

\* The replay buffer of a session is a contiguous tail of everything the
\* session ever dispatched, under the numbers it was dispatched with, however
\* often handlers hand the session over to each other and whatever is evicted
\* (session.rs push, gateway.rs RESUME).
BufferIsTailOfLog ==
    \A s \in Conn :
      /\ lastSeq[s] = Len(log[s])
      /\ Len(events[s]) <= lastSeq[s]
      /\ \A i \in 1..Len(events[s]) :
           LET n == lastSeq[s] - Len(events[s]) + i
           IN  events[s][i] = [s |-> n, e |-> log[s][n]]

\* Over any number of lost connections and resumes the application receives
\* the events a session dispatched in order, each of them once and none left
\* out, and lastSeq is the number of the last of them (gateway.rs, client.ts).
ExactlyOnceInSession ==
    sessionId # None => got = SubSeq(log[sessionId], 1, clientSeq)

\* The reaper never takes a session from the handler that has marked it
\* connected: only the end of the process does (session.rs reap_expired).
NoLiveSessionReaped ==
    [][\A c \in Conn :
         /\ pc[c] \in Handling \ {"auth", "replay", "mark"}
         /\ pc'[c] \in Handling
         /\ sess[c] \in store
         => sess[c] \in store']_vars

\* A handler whose connection is gone comes to its end, also when it waits
\* for room in a channel nobody reads (gateway.rs run_session's cleanup).
DeadHandlersFinish ==
    \A c \in Conn : (Running(c) /\ ~up[c]) ~> (pc[c] = "done")

\* An event that was numbered in the client's session reaches the client,
\* unless it leaves the session or has no connection left to try (a bound of
\* the model).
DispatchedIsDelivered ==
    \A s \in Conn : \A n \in 1..MaxPublish :
      (sessionId = s /\ lastSeq[s] >= n)
        ~> \/ sessionId # s
           \/ clientSeq >= n
           \/ ws = None /\ \A c \in Conn : pc[c] # "idle"

\* What the resume protocol promises, as a stream that is delivered in order.
Stream == INSTANCE SessionStream
            WITH Event <- 1..MaxPublish,
                 sent <- IF sessionId = None THEN <<>> ELSE log[sessionId],
                 delivered <- got

\* The gateway, its store and its client together implement that stream.
ImplementsStream == Stream!Spec
=============================================================================
