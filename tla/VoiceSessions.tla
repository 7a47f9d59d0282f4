--------------------------- MODULE VoiceSessions ---------------------------
(***************************************************************************)
(* Who is in which call, and who seems to be: the call sessions and their  *)
(* WebSocket handlers in the video service (services/video/src/api/        *)
(* sessions.rs, ws.rs), the participants of the SFU (sfu/mod.rs), and the  *)
(* hub's two buses that keep the sidebar's roster and microphone marks in  *)
(* Redis (services/hub/src/voice_occupancy_bus.rs, voice_mute_bus.rs).     *)
(*                                                                         *)
(* The same facts live in four places: the REST map (slot), the SFU (sfu), *)
(* the occupancy hash (occ) and the mute hash (micOn).  A handler changes  *)
(* the first itself and the others through queues: the command channel of  *)
(* the SFU shard, and one NATS subject for each hash, each with a consumer *)
(* on a NATS connection of its own.                                        *)
(*                                                                         *)
(* A connection is one attempt of a user to take part in one channel: the  *)
(* POST /sessions, the WebSocket and its handler.  A session is named by   *)
(* the connection whose POST created it (the code draws a UUID); all       *)
(* sessions are on one shard and one hub.  The participant id is a function*)
(* of session and user, so a slot is named by the two.                     *)
(***************************************************************************)
EXTENDS Naturals, Sequences

CONSTANTS
    Conn,        \* connections that may be opened
    User,
    UserOf,      \* the user of a connection
    Channel,     \* voice channels of the hub
    None,
    SfuCap,      \* capacity of a shard's command channel
    Backlog,     \* bound: messages waiting on a subject of the hub
    Toggles      \* bound: how often the microphone of a connection goes on or off

ASSUME NoneAssumption == None \notin Conn \cup Channel
ASSUME UserOfAssumption == UserOf \in [Conn -> User]
ASSUME CapAssumption == SfuCap \in Nat \ {0} /\ Backlog \in Nat \ {0}
ASSUME TogglesAssumption == Toggles \in [Conn -> 0..2]

VARIABLES
    sessionOf,   \* AppStateInner.channel_to_session
    sessions,    \* AppStateInner.sessions: the sessions in the map
    chanOf,      \* Session.channel_id
    slot,        \* Session.participants: the connection whose ws_tx is in the
                 \* slot of a user
    client,      \* the user's end: "idle", "asked" (POST answered), "open"
                 \* (WebSocket), "gone"
    mic,         \* the user's end: "off" (before its Join), "joined",
                 \* then the microphone "on" and "off again"
    inbound,     \* frames from the client to the handler
    kicked,      \* connections with a ForceDisconnected on its way to the client
    pc,          \* where the handler of a connection is
    cs,          \* the session a connection asked for
    overlapped,  \* history: users who asked for a connection while another of
                 \* theirs, or its handler, had not come to its end
    sfuq,        \* the shard's command channel
    sfu,         \* SfuSession.participants: the connection that joined
    answered,    \* connections to which the SFU has sent its Answer
    occq,        \* voice.occupancy: messages not yet consumed by the hub
    muteq,       \* voice.mute: messages not yet consumed by the hub
    occ,         \* voice_occupancy hash: the channel of a user
    micOn        \* voice_mute hash: users whose entry says "not muted"

restVars   == <<sessionOf, sessions, chanOf, slot>>
askedFor   == <<cs, overlapped>>
clientVars == <<client, mic, askedFor>>
sfuVars    == <<sfuq, sfu, answered, kicked>>
hubVars    == <<occq, muteq, occ, micOn>>
vars == <<restVars, clientVars, inbound, pc, sfuVars, hubVars>>

-----------------------------------------------------------------------------
Command == [op : {"join", "leave"}, conn : Conn, sid : Conn, user : User]
Occupancy == [user : User, channel : Channel \cup {None}]
Mute == [user : User, muted : BOOLEAN]

Handling == {"found", "registered", "running", "muting", "unmuting", "leaving",
             "cleanup", "farewell"}
Busy(c) == pc[c] \in Handling
Loops(c) == pc[c] \in {"running", "muting", "unmuting"}

\* SfuPool::send: try_send, drop on full.
SendToSfu(op, c) ==
    sfuq' = IF Len(sfuq) < SfuCap
              THEN Append(sfuq, [op |-> op, conn |-> c, sid |-> cs[c],
                                 user |-> UserOf[c]])
              ELSE sfuq

PublishOccupancy(c, channel) ==
    occq' = Append(occq, [user |-> UserOf[c], channel |-> channel])

Init ==
    /\ sessionOf = [ch \in Channel |-> None]
    /\ sessions = {} /\ chanOf = [s \in Conn |-> None]
    /\ slot = [s \in Conn |-> [u \in User |-> None]]
    /\ client = [c \in Conn |-> "idle"]
    /\ mic = [c \in Conn |-> "off"]
    /\ cs = [c \in Conn |-> None] /\ overlapped = {}
    /\ inbound = [c \in Conn |-> <<>>]
    /\ kicked = {}
    /\ pc = [c \in Conn |-> "idle"]
    /\ sfuq = <<>> /\ sfu = [s \in Conn |-> [u \in User |-> None]] /\ answered = {}
    /\ occq = <<>> /\ muteq = <<>>
    /\ occ = [u \in User |-> None] /\ micOn = {}

-----------------------------------------------------------------------------
(* The client.                                                             *)

\* joinVoice: POST /sessions, answered by create_session: the session of the
\* channel, or a new one.
CreateSession(c, ch) ==
    /\ client[c] = "idle"
    /\ client' = [client EXCEPT ![c] = "asked"]
    /\ overlapped' =
         IF \E d \in Conn : UserOf[d] = UserOf[c] /\ (client[d] \in {"asked", "open"} \/ Busy(d))
           THEN overlapped \cup {UserOf[c]} ELSE overlapped
    /\ IF sessionOf[ch] # None
         THEN /\ cs' = [cs EXCEPT ![c] = sessionOf[ch]]
              /\ UNCHANGED restVars
         ELSE /\ cs' = [cs EXCEPT ![c] = c]
              /\ sessionOf' = [sessionOf EXCEPT ![ch] = c]
              /\ sessions' = sessions \cup {c}
              /\ chanOf' = [chanOf EXCEPT ![c] = ch]
              /\ slot' = slot
    /\ UNCHANGED <<mic, inbound, pc, sfuVars, hubVars>>

\* connectWebSocket, and ws_upgrade up to the first look at the session.
OpenWebSocket(c) ==
    /\ client[c] = "asked"
    /\ IF cs[c] \in sessions
         THEN /\ client' = [client EXCEPT ![c] = "open"]
              /\ pc' = [pc EXCEPT ![c] = "found"]
         ELSE /\ client' = [client EXCEPT ![c] = "gone"]
              /\ pc' = [pc EXCEPT ![c] = "done"]
    /\ UNCHANGED <<restVars, mic, askedFor, inbound, sfuVars, hubVars>>

\* The client sends a frame: its Join with the SDP offer (once), its
\* microphone going on or off.
Sends(c, frame) == inbound' = [inbound EXCEPT ![c] = Append(@, frame)]

SendJoin(c) ==
    /\ client[c] = "open" /\ mic[c] = "off"
    /\ mic' = [mic EXCEPT ![c] = "joined"]
    /\ Sends(c, "join")
    /\ UNCHANGED <<restVars, client, askedFor, pc, sfuVars, hubVars>>

ToggleMic(c) ==
    /\ client[c] = "open"
    /\ \/ /\ mic[c] = "joined" /\ Toggles[c] >= 1
          /\ mic' = [mic EXCEPT ![c] = "on"] /\ Sends(c, "unmute")
       \/ /\ mic[c] = "on" /\ Toggles[c] = 2
          /\ mic' = [mic EXCEPT ![c] = "off again"] /\ Sends(c, "mute")
    /\ UNCHANGED <<restVars, client, askedFor, pc, sfuVars, hubVars>>

\* The page is gone, and its microphone with it.
Goes(c) ==
    /\ client' = [client EXCEPT ![c] = "gone"]
    /\ mic' = [mic EXCEPT ![c] = "off"]

\* disconnect(): a Leave, then the socket is closed.
Disconnect(c) ==
    /\ client[c] = "open"
    /\ Goes(c)
    /\ Sends(c, "leave")
    /\ UNCHANGED <<restVars, askedFor, pc, sfuVars, hubVars>>

\* The page or its network dies.
Vanish(c) ==
    /\ client[c] \in {"asked", "open"}
    /\ Goes(c)
    /\ UNCHANGED <<restVars, askedFor, inbound, pc, sfuVars, hubVars>>

\* force_disconnected: the client closes its socket.
ForceDisconnected(c) ==
    /\ c \in kicked /\ pc[c] = "running" /\ client[c] = "open"
    /\ Goes(c)
    /\ kicked' = kicked \ {c}
    /\ UNCHANGED <<restVars, askedFor, inbound, pc, sfuq, sfu, answered,
                   hubVars>>

-----------------------------------------------------------------------------
(* handle_ws.                                                              *)

\* The second critical section: enter the slot, whoever holds it; or find that
\* the session is gone by now, and return.
Register(c) ==
    /\ pc[c] = "found"
    /\ IF cs[c] \in sessions
         THEN /\ slot' = [slot EXCEPT ![cs[c]][UserOf[c]] = c]
              /\ pc' = [pc EXCEPT ![c] = "registered"]
              /\ client' = client
         ELSE /\ slot' = slot
              /\ pc' = [pc EXCEPT ![c] = "done"]
              /\ client' = [client EXCEPT ![c] = "gone"]
    /\ UNCHANGED <<sessionOf, sessions, chanOf, mic, askedFor, inbound, sfuVars,
                   hubVars>>

\* publish_occupancy(Some(channel_id)), the channel read before Register.
PublishJoined(c) ==
    /\ pc[c] = "registered"
    /\ Len(occq) < Backlog
    /\ PublishOccupancy(c, chanOf[cs[c]])
    /\ pc' = [pc EXCEPT ![c] = "running"]
    /\ UNCHANGED <<restVars, clientVars, inbound, sfuVars, muteq, occ, micOn>>

\* The loop takes the next frame.
Takes(c, frame) ==
    /\ pc[c] = "running"
    /\ inbound[c] # <<>> /\ Head(inbound[c]) = frame
    /\ inbound' = [inbound EXCEPT ![c] = Tail(@)]

HandleJoin(c) ==
    /\ Takes(c, "join")
    /\ SendToSfu("join", c)
    /\ UNCHANGED <<restVars, clientVars, pc, sfu, answered, kicked, hubVars>>

\* MuteChanged: the slot under the lock, then the publication.
HandleMute(c) ==
    /\ \/ Takes(c, "mute") /\ pc' = [pc EXCEPT ![c] = "muting"]
       \/ Takes(c, "unmute") /\ pc' = [pc EXCEPT ![c] = "unmuting"]
    /\ UNCHANGED <<restVars, clientVars, sfuVars, hubVars>>

PublishMute(c) ==
    /\ pc[c] \in {"muting", "unmuting"}
    /\ Len(muteq) < Backlog
    /\ muteq' = Append(muteq, [user |-> UserOf[c], muted |-> pc[c] = "muting"])
    /\ pc' = [pc EXCEPT ![c] = "running"]
    /\ UNCHANGED <<restVars, clientVars, inbound, sfuVars, occq, occ, micOn>>

HandleLeave(c) ==
    /\ Takes(c, "leave")
    /\ SendToSfu("leave", c)
    /\ pc' = [pc EXCEPT ![c] = "leaving"]
    /\ kicked' = kicked \ {c}
    /\ UNCHANGED <<restVars, clientVars, sfu, answered, hubVars>>

\* The socket ends or fails, or the idle watchdog fires: break.
LoopEnds(c) ==
    /\ pc[c] = "running" /\ client[c] = "gone"
    /\ pc' = [pc EXCEPT ![c] = "leaving"]
    /\ inbound' = [inbound EXCEPT ![c] = <<>>]
    /\ kicked' = kicked \ {c}
    /\ UNCHANGED <<restVars, clientVars, sfuq, sfu, answered, hubVars>>

\* Cleanup tells the SFU, without asking whose the slot is ...
LeaveSfu(c) ==
    /\ pc[c] = "leaving"
    /\ SendToSfu("leave", c)
    /\ pc' = [pc EXCEPT ![c] = "cleanup"]
    /\ UNCHANGED <<restVars, clientVars, inbound, sfu, answered, kicked, hubVars>>

Empties(s, u) == \A v \in User \ {u} : slot[s][v] = None

\* Faulty variant of RemoveFrom: the index keeps pointing to the session.
RemoveFromMapOnly(s, u) ==
    /\ slot' = [slot EXCEPT ![s][u] = None]
    /\ sessions' = IF Empties(s, u) THEN sessions \ {s} ELSE sessions
    /\ UNCHANGED <<chanOf, sessionOf>>

\* Faulty variant of RemoveFrom: a session outlives its participants.
RemoveFromNeverEnds(s, u) ==
    /\ slot' = [slot EXCEPT ![s][u] = None]
    /\ UNCHANGED <<sessions, chanOf, sessionOf>>

\* The session goes when its last participant does.
RemoveFrom(s, u) ==
    /\ slot' = [slot EXCEPT ![s][u] = None]
    /\ IF Empties(s, u)
         THEN /\ sessions' = sessions \ {s}
              /\ sessionOf' = [sessionOf EXCEPT ![chanOf[s]] = None]
         ELSE UNCHANGED <<sessions, sessionOf>>
    /\ UNCHANGED chanOf

\* ... frees the slot if it is still this connection's (still_ours) ...
FreeSlot(c) ==
    /\ pc[c] = "cleanup"
    /\ IF slot[cs[c]][UserOf[c]] = c
         THEN RemoveFrom(cs[c], UserOf[c])
         ELSE UNCHANGED restVars
    /\ pc' = [pc EXCEPT ![c] = "farewell"]
    /\ UNCHANGED <<clientVars, inbound, sfuVars, hubVars>>

\* ... and tells the hub, again without asking.
PublishLeft(c) ==
    /\ pc[c] = "farewell"
    /\ Len(occq) < Backlog
    /\ PublishOccupancy(c, None)
    /\ pc' = [pc EXCEPT ![c] = "done"]
    /\ UNCHANGED <<restVars, clientVars, inbound, sfuVars, muteq, occ, micOn>>

-----------------------------------------------------------------------------
(* The SFU.                                                                *)

TakesCommand(op) ==
    /\ sfuq # <<>> /\ Head(sfuq).op = op
    /\ sfuq' = Tail(sfuq)

\* handle_join: kick the participant in the slot, then either enter the new
\* one and answer, or refuse its offer.
SfuJoin ==
    /\ TakesCommand("join")
    /\ LET m == Head(sfuq)
           old == sfu[m.sid][m.user]
       IN  /\ kicked' = IF old # None /\ Loops(old) THEN kicked \cup {old} ELSE kicked
           /\ \/ /\ sfu' = [sfu EXCEPT ![m.sid][m.user] = m.conn]
                 /\ answered' = answered \cup {m.conn}
              \/ /\ sfu' = [sfu EXCEPT ![m.sid][m.user] = None]
                 /\ answered' = answered
    /\ UNCHANGED <<restVars, clientVars, inbound, pc, hubVars>>

\* handle_leave: whoever is in the slot goes.
SfuLeave ==
    /\ TakesCommand("leave")
    /\ LET m == Head(sfuq)
       IN  sfu' = [sfu EXCEPT ![m.sid][m.user] = None]
    /\ UNCHANGED <<restVars, clientVars, inbound, pc, answered, kicked, hubVars>>

\* Faulty variant of SfuZombie: the participant stays in its slot.
SfuZombieKept(s, u) ==
    /\ sfu[s][u] # None
    /\ client[sfu[s][u]] = "gone"
    /\ UNCHANGED vars

\* Faulty variant of SfuZombie: silence alone is enough.
SfuZombieHasty(s, u) ==
    /\ sfu[s][u] # None
    /\ sfu' = [sfu EXCEPT ![s][u] = None]
    /\ UNCHANGED <<restVars, clientVars, inbound, pc, sfuq, answered, kicked,
                   hubVars>>

\* tick: ICE is disconnected and nothing was heard for zombie_timeout.
SfuZombie(s, u) ==
    /\ sfu[s][u] # None
    /\ client[sfu[s][u]] = "gone"
    /\ sfu' = [sfu EXCEPT ![s][u] = None]
    /\ UNCHANGED <<restVars, clientVars, inbound, pc, sfuq, answered, kicked,
                   hubVars>>

-----------------------------------------------------------------------------
(* The hub.                                                                *)

\* Faulty variant of OccupancyBus: joining, too, starts from defaults.
OccupancyBusClears ==
    /\ occq # <<>>
    /\ occq' = Tail(occq)
    /\ occ' = [occ EXCEPT ![Head(occq).user] = Head(occq).channel]
    /\ micOn' = micOn \ {Head(occq).user}
    /\ UNCHANGED <<restVars, clientVars, inbound, pc, sfuVars, muteq>>

\* voice_occupancy_bus::run.  (That the two hashes are cleared one after the
\* other is the same as some order with the mute bus.)
OccupancyBus ==
    /\ occq # <<>>
    /\ occq' = Tail(occq)
    /\ LET m == Head(occq)
       IN  /\ occ' = [occ EXCEPT ![m.user] = m.channel]
           /\ micOn' = IF m.channel = None THEN micOn \ {m.user} ELSE micOn
    /\ UNCHANGED <<restVars, clientVars, inbound, pc, sfuVars, muteq>>

\* voice_mute_bus::run.
MuteBus ==
    /\ muteq # <<>>
    /\ muteq' = Tail(muteq)
    /\ LET m == Head(muteq)
       IN  micOn' = IF m.muted THEN micOn \ {m.user} ELSE micOn \cup {m.user}
    /\ UNCHANGED <<restVars, clientVars, inbound, pc, sfuVars, occq, occ>>

-----------------------------------------------------------------------------
Handler(c) ==
    \/ Register(c) \/ PublishJoined(c)
    \/ HandleJoin(c) \/ HandleMute(c) \/ PublishMute(c) \/ HandleLeave(c)
    \/ LoopEnds(c) \/ LeaveSfu(c) \/ FreeSlot(c) \/ PublishLeft(c)

Next ==
    \/ \E c \in Conn :
         \/ \E ch \in Channel : CreateSession(c, ch)
         \/ OpenWebSocket(c) \/ SendJoin(c) \/ ToggleMic(c) \/ Disconnect(c)
         \/ Vanish(c) \/ ForceDisconnected(c)
         \/ Handler(c)
    \/ SfuJoin \/ SfuLeave
    \/ \E s \in Conn, u \in User : SfuZombie(s, u)
    \/ OccupancyBus \/ MuteBus

Spec == Init /\ [][Next]_vars

\* tokio runs the handlers, the shard threads and the buses; the watchdog ends
\* the loop of a client that is gone; the tick finds the zombies.
Fairness ==
    /\ \A c \in Conn : WF_vars(Handler(c))
    /\ WF_vars(SfuJoin \/ SfuLeave)
    /\ \A s \in Conn, u \in User : WF_vars(SfuZombie(s, u))
    /\ WF_vars(OccupancyBus) /\ WF_vars(MuteBus)

FairSpec == Spec /\ Fairness

-----------------------------------------------------------------------------
(* Properties.                                                             *)

\* The types, with the promise that the shard's channel is bounded.
TypeOK ==
    /\ sessionOf \in [Channel -> Conn \cup {None}]
    /\ sessions \in SUBSET Conn
    /\ chanOf \in [Conn -> Channel \cup {None}]
    /\ slot \in [Conn -> [User -> Conn \cup {None}]]
    /\ client \in [Conn -> {"idle", "asked", "open", "gone"}]
    /\ mic \in [Conn -> {"off", "joined", "on", "off again"}]
    /\ cs \in [Conn -> Conn \cup {None}] /\ overlapped \in SUBSET User
    /\ inbound \in [Conn -> Seq({"join", "mute", "unmute", "leave"})]
    /\ kicked \in SUBSET Conn
    /\ pc \in [Conn -> Handling \cup {"idle", "done"}]
    /\ sfuq \in Seq(Command) /\ Len(sfuq) <= SfuCap
    /\ sfu \in [Conn -> [User -> Conn \cup {None}]]
    /\ answered \in SUBSET Conn
    /\ occq \in Seq(Occupancy) /\ muteq \in Seq(Mute)
    /\ occ \in [User -> Channel \cup {None}]
    /\ micOn \in SUBSET User

\* A channel leads to a session exactly when that session is in the map and is
\* the channel's: no channel is stuck on a session that has ended, and no two
\* calls go on in one channel (sessions.rs create_session, ws.rs cleanup).
SessionIndex ==
    /\ \A ch \in Channel : sessionOf[ch] # None =>
         sessionOf[ch] \in sessions /\ chanOf[sessionOf[ch]] = ch
    /\ \A s \in sessions : sessionOf[chanOf[s]] = s

\* A session that has participants ends with the last of them: none is left
\* empty in the map (ws.rs, "session destroyed").
SessionEndsWithLast ==
    [][\A s \in sessions :
         (\E u \in User : slot[s][u] # None) =>
           s \notin sessions' \/ \E u \in User : slot'[s][u] # None]_vars

\* Nothing is under way: queues are empty, handlers idle, ended or in their loop
\* with a client that stays.
Quiet ==
    /\ sfuq = <<>> /\ occq = <<>> /\ muteq = <<>>
    /\ \A c \in Conn :
         \/ pc[c] \in {"idle", "done"}
         \/ pc[c] = "running" /\ client[c] = "open" /\ inbound[c] = <<>> /\ c \notin kicked

\* The sidebar shows u in a channel where he is in the call.
Shown(u) ==
    \A s \in Conn : slot[s][u] # None =>
      \E t \in Conn : slot[t][u] # None /\ occ[u] = chanOf[t]

\* The sidebar shows every call of a user whose connections followed one
\* another, whatever those of others did (ws.rs publish_occupancy and the bus).
OrderlyUserShown == Quiet => \A u \in User \ overlapped : Shown(u)

\* A connection of such a user that holds its slot and got the SFU's Answer has
\* its participant in the SFU, whatever the SFU's channel dropped before (ws.rs
\* sfu_send_or_drop, sfu/mod.rs handle_join).
OrderlyUserHeard ==
    Quiet => \A s \in Conn, u \in User \ overlapped :
      slot[s][u] \in answered => sfu[s][u] = slot[s][u]


\* A user whose connections followed one another is shown and heard.
OrderlyUserPresent == OrderlyUserShown /\ OrderlyUserHeard

\* The mark of a user who is in a call by his first and only connection says
\* what his microphone is, although marks and roster come to the hub over two
\* connections, each behind the other as it may (ws.rs MuteChanged, the buses).
MicMarkFollowsMic ==
    Quiet => \A s \in Conn, u \in User :
      /\ slot[s][u] # None
      /\ \A d \in Conn : UserOf[d] = u /\ d # slot[s][u] => client[d] = "idle"
      => (u \in micOn <=> mic[slot[s][u]] = "on")

Present(u) == \E c \in Conn : UserOf[c] = u /\ client[c] \in {"asked", "open"}

\* A user who is gone disappears from the sidebar, whichever of his connections
\* ended in whichever order (ws.rs watchdog and cleanup).
NoGhostInSidebar ==
    \A u \in User : ~Present(u) ~> (Present(u) \/ occ[u] = None)

\* A user who is gone disappears from the call and from the SFU, also when the
\* Leave found the shard's channel full (ws.rs cleanup, sfu/mod.rs tick).
NoGhostInCall ==
    \A s \in Conn, u \in User :
      ~Present(u) ~> (Present(u) \/ (slot[s][u] = None /\ sfu[s][u] = None))


\* A user who is gone leaves no trace, neither there nor in the sidebar.
NoGhosts == NoGhostInSidebar /\ NoGhostInCall
=============================================================================
