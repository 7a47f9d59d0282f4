------------------------------ MODULE CallTab ------------------------------
(***************************************************************************)
(* The calls of one browser tab: which voice channel it shows as joined,   *)
(* which video client it holds and what state that client's WebSocket is   *)
(* in (frontend/contexts/video-call-context.tsx,                           *)
(* frontend/hooks/use-video-client.ts, packages/sdk-video/src/client.ts),  *)
(* and the direct calls that ring through the chat service                 *)
(* (frontend/contexts/incoming-call-context.tsx,                           *)
(* services/chat/src/dm_calls.rs).                                         *)
(*                                                                         *)
(* joinVoice asks the video service for a session and only then shows the  *)
(* call, so a click, a chat event or a kick may fall between the two.      *)
(* disconnect() lets go of a client whose socket may still be opening, or  *)
(* whose close event is still to come.  What a React commit does, the      *)
(* state it writes and the effects it runs, is one step.                   *)
(*                                                                         *)
(* The peer of a direct channel, the other windows of the user and the     *)
(* call service are the environment.  What is said and shown inside a call *)
(* is in VideoClient.                                                      *)
(***************************************************************************)
EXTENDS Naturals, Sequences, FiniteSets

CONSTANTS
    Channel,     \* channels one can be in a call in
    Dm,          \* those of them that are direct-message channels
    None,
    MaxClients,  \* bound: video clients the tab makes
    MaxJoins,    \* bound: joinVoice calls under way at once
    MaxPeer,     \* bound: call events the peer causes
    Backlog      \* bound: chat events on their way to the tab

ASSUME DmAssumption == Dm \subseteq Channel
ASSUME NoneAssumption == None \notin Channel \cup Nat
ASSUME BoundAssumption ==
    /\ MaxClients \in Nat /\ MaxJoins \in Nat \ {0}
    /\ MaxPeer \in Nat /\ Backlog \in Nat

VARIABLES
    active,      \* activeVoiceChannelId: the call the tab shows
    sess,        \* the channel whose session sessionId names
    joins,       \* how many joinVoice calls of a channel await their session
    overlapped,  \* history: two joinVoice calls were under way at once
    clients,     \* the video clients made so far
    cur,         \* clientRef.current: the index of one of them
    isConnected, \* the hook's flag of that name
    peerIn,      \* the peer is in the hook's participants
    kicks,       \* clients in whose message queue a force_disconnected waits
    dm,          \* dmCall: the direct call this side has to end
    incoming,    \* incomingCall: the channel that rings
    posts,       \* call requests on their way to the chat service
    inbox,       \* call events on their way from it
    peerEvents   \* how many of them the peer has caused

callVars == <<active, sess, joins, overlapped>>
hookVars == <<clients, cur, isConnected, peerIn>>
clientVars == <<hookVars, kicks>>
ringVars == <<dm, incoming, posts, inbox, peerEvents>>
vars == <<callVars, clientVars, ringVars>>

-----------------------------------------------------------------------------
\* alive: the peer connection is not closed, i.e. disconnect() was not called
Client == [chan : Channel, ws : {"connecting", "open", "closing", "closed"},
           alive : BOOLEAN, joined : BOOLEAN]
DmCall == [chan : Dm, inviter : BOOLEAN, live : BOOLEAN]
CallKind == {"invite", "decline", "cancel", "ended"}
CallEvent == [kind : CallKind, chan : Dm, own : BOOLEAN]

TypeOK ==
    /\ active \in Channel \cup {None} /\ sess \in Channel \cup {None}
    /\ joins \in [Channel -> 0..MaxJoins] /\ overlapped \in BOOLEAN
    /\ clients \in Seq(Client) /\ Len(clients) <= MaxClients
    /\ cur \in DOMAIN clients \cup {None}
    /\ isConnected \in BOOLEAN /\ peerIn \in BOOLEAN
    /\ kicks \subseteq DOMAIN clients
    /\ dm \in DmCall \cup {None} /\ incoming \in Dm \cup {None}
    /\ posts \subseteq [kind : CallKind, chan : Dm]
    /\ inbox \in Seq(CallEvent) /\ Len(inbox) <= Backlog
    /\ peerEvents \in 0..MaxPeer

Init ==
    /\ active = None /\ sess = None
    /\ joins = [ch \in Channel |-> 0] /\ overlapped = FALSE
    /\ clients = <<>> /\ cur = None /\ isConnected = FALSE /\ peerIn = FALSE
    /\ kicks = {}
    /\ dm = None /\ incoming = None
    /\ posts = {} /\ inbox = <<>> /\ peerEvents = 0

Pending == \E ch \in Channel : joins[ch] > 0
RoomToJoin == \A ch \in Channel : joins[ch] < MaxJoins

-----------------------------------------------------------------------------
(* The video client.                                                       *)

\* VideoClient.disconnect: a socket that is not open yet is let go of as it
\* is, an open one gets "leave" and is closed.
Shut(c) ==
    [c EXCEPT !.alive = FALSE, !.ws = IF @ = "open" THEN "closing" ELSE @]

\* disconnect of the hook.
Disconnect ==
    /\ clients' = IF cur = None THEN clients
                  ELSE [clients EXCEPT ![cur] = Shut(@)]
    /\ cur' = None /\ isConnected' = FALSE /\ peerIn' = FALSE

\* connect of the hook: nothing happens while it holds a client.
Connect(ch) ==
    IF cur # None THEN UNCHANGED hookVars
    ELSE /\ clients' = Append(clients, [chan |-> ch, ws |-> "connecting",
                                        alive |-> TRUE, joined |-> FALSE])
         /\ cur' = Len(clients) + 1
         /\ UNCHANGED <<isConnected, peerIn>>

\* The handshake of a socket ends, also of one that was let go of meanwhile.
SocketOpens(c) ==
    /\ clients[c].ws = "connecting"
    /\ clients' = [clients EXCEPT ![c].ws = "open"]
    /\ UNCHANGED <<cur, isConnected, peerIn, kicks, callVars, ringVars>>

\* The SFU's answer to the client's offer: "connected".
Answered(c) ==
    /\ clients[c].ws = "open" /\ clients[c].alive /\ ~clients[c].joined
    /\ clients' = [clients EXCEPT ![c].joined = TRUE]
    /\ isConnected' = TRUE
    /\ UNCHANGED <<cur, peerIn, kicks, callVars, ringVars>>

\* The close event of a socket, whoever closed it: "disconnected", which the
\* hook takes from every client it ever made.
SocketCloses(c) ==
    /\ clients[c].ws # "closed"
    /\ clients' = [clients EXCEPT ![c].ws = "closed"]
    /\ isConnected' = FALSE
    /\ UNCHANGED <<cur, peerIn, kicks, callVars, ringVars>>

\* participant_joined and participant_left of the peer.
PeerComesAndGoes ==
    /\ cur # None /\ clients[cur].ws = "open"
    /\ peerIn' = ~peerIn
    /\ dm' = IF dm # None /\ dm.inviter /\ peerIn'
             THEN [dm EXCEPT !.live = TRUE] ELSE dm
    /\ UNCHANGED <<clients, cur, isConnected, kicks, callVars, incoming, posts,
                   inbox, peerEvents>>

-----------------------------------------------------------------------------
(* Joining and leaving.                                                    *)

\* Faulty variant of JoinVoice: the former call is left to the next connect.
JoinVoiceOver(ch) ==
    IF active = ch THEN UNCHANGED <<sess, joins, overlapped, hookVars>>
    ELSE /\ RoomToJoin
         /\ joins' = [joins EXCEPT ![ch] = @ + 1]
         /\ overlapped' = (overlapped \/ Pending)
         /\ sess' = None
         /\ UNCHANGED hookVars

\* joinVoice up to its fetch: nothing for the call that is shown, and a
\* former call is left, though still shown.
JoinVoice(ch) ==
    IF active = ch THEN UNCHANGED <<sess, joins, overlapped, hookVars>>
    ELSE /\ RoomToJoin
         /\ IF active = None THEN UNCHANGED <<sess, hookVars>>
            ELSE Disconnect /\ sess' = None
         /\ joins' = [joins EXCEPT ![ch] = @ + 1]
         /\ overlapped' = (overlapped \/ Pending)

\* leaveVoice.
LeaveVoice ==
    IF active = None THEN UNCHANGED <<active, sess, hookVars>>
    ELSE Disconnect /\ sess' = None /\ active' = None

\* The watcher's condition: the direct call is not the call shown.
Dropped(call, shown) == call # None /\ call.chan # shown

\* The effects on dmCall once a step wants it to be call and shows the call
\* shown: the watcher tells the chat service and forgets a dropped call, the
\* other effect stamps a call whose peer is there.
Watch(call, shown, said) ==
    /\ dm' = IF Dropped(call, shown) THEN None
             ELSE IF call # None /\ call.inviter /\ peerIn'
                  THEN [call EXCEPT !.live = TRUE] ELSE call
    /\ posts' = posts \cup said \cup
         IF Dropped(call, shown)
         THEN {[kind |-> IF call.live THEN "ended" ELSE "cancel",
                chan |-> call.chan]}
         ELSE {}

\* A click on a voice channel.
ClickJoin(ch) ==
    /\ active # ch /\ JoinVoice(ch)
    /\ UNCHANGED <<active, kicks, ringVars>>

\* The session a joinVoice asked for: the call is shown, and the effect of
\* that connects.
SessionGiven(ch) ==
    /\ joins[ch] > 0 /\ Len(clients) < MaxClients
    /\ joins' = [joins EXCEPT ![ch] = @ - 1]
    /\ sess' = ch /\ active' = ch
    /\ Connect(ch)
    /\ Watch(dm, ch, {})
    /\ UNCHANGED <<overlapped, kicks, incoming, inbox, peerEvents>>

\* The session could not be created: only the console hears of it.
SessionRefused(ch) ==
    /\ joins[ch] > 0
    /\ joins' = [joins EXCEPT ![ch] = @ - 1]
    /\ UNCHANGED <<active, sess, overlapped, clientVars, ringVars>>

\* The leave button, or the session expired.
ClickLeave ==
    /\ active # None /\ LeaveVoice
    /\ Watch(dm, None, {})
    /\ UNCHANGED <<joins, overlapped, kicks, incoming, inbox, peerEvents>>

\* Faulty variant of KickHeard: the message is handled on a closed peer
\* connection too.
AnyKickHeard(c) == TRUE

\* handleServerMessage drops what arrives after disconnect().
KickHeard(c) == clients[c].alive

\* force_disconnected arrives, another window joined the same session: it is
\* chained after the messages before it.
KickArrives(c) ==
    /\ clients[c].ws = "open" /\ c \notin kicks
    /\ kicks' = kicks \cup {c}
    /\ UNCHANGED <<hookVars, callVars, ringVars>>

\* Its turn comes: the tab leaves the call it shows.
Kicked(c) ==
    /\ c \in kicks
    /\ kicks' = kicks \ {c}
    /\ IF KickHeard(c)
       THEN LeaveVoice /\ Watch(dm, None, {})
       ELSE UNCHANGED <<active, sess, hookVars, dm, posts>>
    /\ UNCHANGED <<joins, overlapped, incoming, inbox, peerEvents>>

-----------------------------------------------------------------------------
(* Direct calls.                                                           *)

\* startCall.
StartCall(ch) ==
    /\ JoinVoice(ch)
    /\ Watch([chan |-> ch, inviter |-> TRUE, live |-> FALSE], active,
             {[kind |-> "invite", chan |-> ch]})
    /\ UNCHANGED <<active, kicks, incoming, inbox, peerEvents>>

\* accept.
Accept ==
    /\ incoming # None
    /\ incoming' = None
    /\ JoinVoice(incoming)
    /\ Watch([chan |-> incoming, inviter |-> FALSE, live |-> TRUE], active, {})
    /\ UNCHANGED <<active, kicks, inbox, peerEvents>>

\* decline.
Refuse ==
    /\ incoming # None
    /\ incoming' = None
    /\ posts' = posts \cup {[kind |-> "decline", chan |-> incoming]}
    /\ UNCHANGED <<callVars, clientVars, dm, inbox, peerEvents>>

Decline == Refuse

\* The dialog's timer calls decline("timeout").
RingTimesOut == Refuse

\* The chat service publishes the event of a request to both sides, in the
\* order in which the requests arrive, not in which they were sent.
Served(p) ==
    /\ Len(inbox) < Backlog
    /\ posts' = posts \ {p}
    /\ inbox' = Append(inbox, [kind |-> p.kind, chan |-> p.chan, own |-> TRUE])
    /\ UNCHANGED <<callVars, clientVars, dm, incoming, peerEvents>>

\* A request that fails is only logged.
PostFails(p) ==
    /\ posts' = posts \ {p}
    /\ UNCHANGED <<callVars, clientVars, dm, incoming, inbox, peerEvents>>

\* A request of the peer.
PeerPosts(kind, ch) ==
    /\ Len(inbox) < Backlog /\ peerEvents < MaxPeer
    /\ peerEvents' = peerEvents + 1
    /\ inbox' = Append(inbox, [kind |-> kind, chan |-> ch, own |-> FALSE])
    /\ UNCHANGED <<callVars, clientVars, dm, incoming, posts>>

\* Faulty variant of EndedByPeer: the tab leaves first and the watcher sees the
\* call it had.
LeaveOnly(ch) ==
    IF active = ch THEN LeaveVoice /\ Watch(dm, None, {})
    ELSE UNCHANGED <<active, sess, hookVars, dm, posts>>

\* dm.call.decline and dm.call.ended of the peer: forget the call, then leave.
EndedByPeer(ch) ==
    LET call == IF dm # None /\ dm.chan = ch THEN None ELSE dm
    IN IF active = ch THEN LeaveVoice /\ Watch(call, None, {})
       ELSE UNCHANGED <<active, sess, hookVars>> /\ Watch(call, active, {})

\* The handler of the next event; our own echoes are ignored, but not that of
\* a cancel.
HandleEvent ==
    /\ inbox # <<>>
    /\ inbox' = Tail(inbox)
    /\ LET e == Head(inbox) IN
       CASE e.kind = "invite" /\ ~e.own ->
              /\ incoming' = e.chan
              /\ UNCHANGED <<active, sess, hookVars, dm, posts>>
         [] e.kind = "cancel" ->
              /\ incoming' = IF incoming = e.chan THEN None ELSE incoming
              /\ UNCHANGED <<active, sess, hookVars, dm, posts>>
         [] e.kind \in {"decline", "ended"} /\ ~e.own ->
              EndedByPeer(e.chan) /\ UNCHANGED incoming
         [] OTHER -> UNCHANGED <<active, sess, hookVars, dm, incoming, posts>>
    /\ UNCHANGED <<joins, overlapped, kicks, peerEvents>>

-----------------------------------------------------------------------------
Next ==
    \/ \E ch \in Channel : ClickJoin(ch) \/ SessionGiven(ch) \/ SessionRefused(ch)
    \/ ClickLeave
    \/ \E c \in DOMAIN clients :
         \/ SocketOpens(c) \/ Answered(c) \/ SocketCloses(c)
           \/ KickArrives(c) \/ Kicked(c)
    \/ PeerComesAndGoes
    \/ \E ch \in Dm : StartCall(ch)
    \/ Accept \/ Decline \/ RingTimesOut
    \/ \E p \in posts : Served(p) \/ PostFails(p)
    \/ \E kind \in CallKind, ch \in Dm : PeerPosts(kind, ch)
    \/ HandleEvent

Spec == Init /\ [][Next]_vars

-----------------------------------------------------------------------------
(* Properties.                                                             *)

\* A tab that shows no call holds no client, one that says "connected" holds
\* a client that joined, and, as long as the user never had two joinVoice
\* calls under way, the call it shows is the call it is connected to: joinVoice
\* leaves the former call before it asks for the next, and leaveVoice lets go
\* of client, session and channel together.
ShownCallIsConnected ==
    /\ cur # None => active # None
    /\ isConnected => cur # None /\ clients[cur].joined
    /\ cur # None /\ ~overlapped => clients[cur].chan = active

\* Every client but the current one has been disconnected: no peer connection,
\* and with it no microphone, survives the call it was made for, however
\* joins, kicks and leaves fall.
OnlyCurrentLives == \A c \in DOMAIN clients : clients[c].alive <=> c = cur

\* What is on the screen is what is connected: the two together.
OneCallAtATime == ShownCallIsConnected /\ OnlyCurrentLives

\* A call that ends by a kick is the one that was kicked: a kick of a client
\* the tab had let go of, which arrives while the next call goes on, ends
\* nothing.
OnlyOwnKickEndsCall ==
    [][\A c \in kicks \ kicks' : active' # active => c = cur]_vars

\* The peer's decline or hang-up of a call is the end of it: the tab leaves
\* without a request of its own, which would write a second system message
\* (incoming-call-context.tsx clears dmCall before it leaves).
PeerEndsOnce ==
    [][Len(inbox') < Len(inbox) /\ ~Head(inbox).own => posts' \subseteq posts]_vars
=============================================================================
