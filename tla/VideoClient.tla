---------------------------- MODULE VideoClient ----------------------------
(***************************************************************************)
(* One call seen from inside the tab: what the client captures and sends   *)
(* (packages/sdk-video/src/client.ts), what the hook and the workspace     *)
(* show of it and of the others (frontend/hooks/use-video-client.ts,       *)
(* frontend/components/hub/video-workspace/, hooks/use-tile-audio.ts).     *)
(*                                                                         *)
(* Every capture is a prompt the browser answers later.  Meanwhile the     *)
(* user may press other buttons or leave, and the code after the await     *)
(* goes on with the client it captured.  The messages of the server are    *)
(* handled one after the other (msgQueue); an offer and the track events   *)
(* it causes are one of them.                                              *)
(*                                                                         *)
(* There is one other participant, who may come and go; the server's side  *)
(* of the call is reduced to what it sends about that participant (ws.rs,  *)
(* SfuNegotiation has the rest).  Captured tracks are named by the prompt  *)
(* they come from.                                                         *)
(***************************************************************************)
EXTENDS Naturals, Sequences, FiniteSets

CONSTANTS
    None,
    MaxStay,     \* bound: how often the other participant comes
    MaxWire,     \* bound: messages on their way to the client
    MaxAsks      \* bound: prompts the user opens after the one of the join

Kind == {"mic", "cam"}
Track == {"join", "toggle", "device"}

ASSUME BoundAssumption == MaxStay \in Nat /\ MaxWire \in Nat /\ MaxAsks \in Nat

VARIABLES
    call,        \* "off", "asking" (the join's prompt), "offered", "joined",
                 \* "left" (disconnect)
    joinPrompt,  \* the join's getUserMedia has not been answered
    dev,         \* the capture of each kind, see Device
    screen,      \* "none", "picking", "sharing", "stray" (live, not the
                 \* client's any more)
    sharing,     \* the hook's isScreenSharing
    deaf,        \* isDeafened
    asks,        \* how many prompts the user has opened
    rushed       \* history: the user opened a prompt, or left, while another
                 \* was open

localVars == <<call, joinPrompt, dev, screen, sharing, deaf, asks, rushed>>

VARIABLES
    stay,        \* how often the other has come
    present,     \* the other is in the server's session
    camera,      \* the other's camera is on, as the server knows it
    toOffer,     \* the stay whose tracks the SFU has yet to offer us, or 0
    replaced,    \* history: another window of the other took its slot
    wire,        \* messages on their way to the client
    armed,       \* joinCueArmedRef
    tiles,       \* participants: the other's entries, each with the stay
                 \* whose video it shows, or 0
    cameraOn,    \* cameraOnRef has the other
    videoTrack   \* videoTrackRef: the stay whose track it holds, or 0

peerVars == <<stay, present, camera, toOffer, replaced>>
viewVars == <<armed, tiles, cameraOn, videoTrack>>
remoteVars == <<peerVars, wire, viewVars>>
clientVars == <<localVars, remoteVars>>

-----------------------------------------------------------------------------
\* live: the tracks not stopped, and which of them are enabled; stream: those
\* of localStream, first one first; sender: what the sender the client holds
\* carries; stale: what senders it no longer holds carry; on: micEnabled or
\* camEnabled; shown: the hook's flag; pend: the prompt, or the wait, that is
\* open; held: the track an enableCamera in that wait goes on with
Device == [live : SUBSET Track, enabled : SUBSET Track, stream : Seq(Track),
           sender : Track \cup {"no sender", "no track"}, stale : SUBSET Track,
           on : BOOLEAN, shown : BOOLEAN,
           pend : {"none", "toggle", "device", "resume"}, held : Track \cup {None}]

Message == [kind : {"joined", "left", "camera on", "camera off", "answer", "offer"},
            stay : 0..MaxStay, replay : BOOLEAN]

ClientTypeOK ==
    /\ call \in {"off", "asking", "offered", "joined", "left"}
    /\ joinPrompt \in BOOLEAN
    /\ dev \in [Kind -> Device]
    /\ screen \in {"none", "picking", "sharing", "stray"}
    /\ sharing \in BOOLEAN /\ deaf \in BOOLEAN /\ rushed \in BOOLEAN
    /\ asks \in 0..MaxAsks
    /\ stay \in 0..MaxStay /\ toOffer \in 0..MaxStay
    /\ present \in BOOLEAN /\ camera \in BOOLEAN /\ replaced \in BOOLEAN
    /\ wire \in Seq(Message) /\ Len(wire) <= MaxWire
    /\ armed \in BOOLEAN /\ tiles \in Seq(0..MaxStay)
    /\ cameraOn \in BOOLEAN /\ videoTrack \in 0..MaxStay

NoDevice == [live |-> {}, enabled |-> {}, stream |-> <<>>, sender |-> "no sender",
             stale |-> {}, on |-> FALSE, shown |-> FALSE, pend |-> "none",
             held |-> None]

ClientInit ==
    /\ call = "off" /\ joinPrompt = FALSE
    /\ dev = [k \in Kind |-> NoDevice]
    /\ screen = "none" /\ sharing = FALSE /\ deaf = FALSE
    /\ asks = 0 /\ rushed = FALSE
    /\ stay = 0 /\ present = FALSE /\ camera = FALSE /\ toOffer = 0
    /\ replaced = FALSE /\ wire = <<>>
    /\ armed = FALSE /\ tiles = <<>> /\ cameraOn = FALSE /\ videoTrack = 0

InCall == call \in {"asking", "offered", "joined"}
Waiting == \E k \in Kind : dev[k].pend # "none"
Prompted == joinPrompt \/ screen = "picking" \/ Waiting

\* The user opens a prompt; one at a time is what the properties rely on.
Ask == /\ asks < MaxAsks
       /\ asks' = asks + 1
       /\ rushed' = (rushed \/ Prompted)

Message1(kind, s, replay) == [kind |-> kind, stay |-> s, replay |-> replay]
Room(n) == Len(wire) + n <= MaxWire

-----------------------------------------------------------------------------
(* The local side.                                                         *)

\* connect, up to the prompt of createAndSendOffer; the server replays its
\* roster to the new WebSocket.
Connect ==
    /\ call = "off" /\ Room(2)
    /\ call' = "asking" /\ joinPrompt' = TRUE
    /\ wire' = IF ~present THEN wire
               ELSE Append(wire, Message1("joined", stay, TRUE))
                    \o (IF camera THEN <<Message1("camera on", stay, TRUE)>>
                        ELSE <<>>)
    /\ UNCHANGED <<dev, screen, sharing, deaf, asks, rushed, peerVars, viewVars>>

\* The join's tracks become the client's, muted: whatever a toggle captured
\* meanwhile is no longer in localStream, and its sender no longer held.
Joining(k, d) ==
    [d EXCEPT !.live = @ \cup {"join"}, !.enabled = @ \ {"join"},
              !.stream = <<"join">>,
              !.sender = IF k = "cam" THEN "no track" ELSE "join",
              !.stale = @ \cup ({d.sender} \cap Track),
              !.on = FALSE]

\* The prompt of the join is granted; after disconnect() the tracks are
\* stopped at once.
JoinCaptured ==
    IF call = "asking"
    THEN dev' = [k \in Kind |-> Joining(k, dev[k])] /\ call' = "offered"
    ELSE UNCHANGED <<dev, call>>

JoinGranted ==
    /\ joinPrompt
    /\ joinPrompt' = FALSE
    /\ JoinCaptured
    /\ UNCHANGED <<screen, sharing, deaf, asks, rushed, remoteVars>>

\* No camera or microphone: the client only receives.
JoinDenied ==
    /\ joinPrompt
    /\ joinPrompt' = FALSE
    /\ call' = IF call = "asking" THEN "offered" ELSE call
    /\ UNCHANGED <<dev, screen, sharing, deaf, asks, rushed, remoteVars>>

\* disconnect of a device: localStream is stopped, its senders are gone.
Stop(d) ==
    LET stopped == {d.stream[i] : i \in DOMAIN d.stream}
    IN [d EXCEPT !.live = @ \ stopped, !.enabled = @ \ stopped, !.stream = <<>>,
                 !.sender = "no sender", !.stale = {}, !.shown = FALSE]

\* leaveVoice: disconnect of the hook and of the client.
Leave ==
    /\ InCall
    /\ call' = "left"
    /\ dev' = [k \in Kind |-> Stop(dev[k])]
    /\ screen' = IF screen = "sharing" THEN "none" ELSE screen
    /\ sharing' = FALSE /\ deaf' = FALSE
    /\ rushed' = (rushed \/ screen = "picking" \/ Waiting)
    /\ wire' = <<>> /\ armed' = FALSE /\ tiles' = <<>>
    /\ cameraOn' = FALSE /\ videoTrack' = 0
    /\ UNCHANGED <<joinPrompt, asks, peerVars>>

\* disableMic and disableCamera act on the first track of localStream, the
\* camera's sender is emptied besides.
Disabled(k, d) ==
    [d EXCEPT !.on = FALSE, !.shown = FALSE,
              !.enabled = IF d.stream = <<>> THEN @ ELSE @ \ {Head(d.stream)},
              !.sender = IF k = "cam" /\ @ # "no sender" THEN "no track" ELSE @]

\* enableMic and enableCamera while localStream has a live track: the
\* microphone is on at once, the camera after applyConstraints and
\* replaceTrack.
Enabled(k, d) ==
    IF k = "mic"
    THEN [d EXCEPT !.enabled = @ \cup {Head(d.stream)}, !.on = TRUE, !.shown = TRUE]
    ELSE [d EXCEPT !.enabled = @ \cup {Head(d.stream)}, !.pend = "resume",
                   !.held = Head(d.stream)]

\* toggleMic and toggleCamera, up to a prompt if one is needed.  A second press
\* of the same button before the first is through is left out.
Toggle(k) ==
    /\ InCall /\ dev[k].pend = "none"
    /\ IF dev[k].on
       THEN dev' = [dev EXCEPT ![k] = Disabled(k, @)] /\ UNCHANGED <<asks, rushed>>
       ELSE /\ Ask
            /\ dev' = [dev EXCEPT ![k] =
                         IF @.stream # <<>> THEN Enabled(k, @)
                         ELSE [@ EXCEPT !.pend = "toggle"]]
    /\ UNCHANGED <<call, joinPrompt, screen, sharing, deaf, remoteVars>>

\* The hook writes what a toggle returns, also when it has let go of the
\* client.
Resume(d) ==
    [d EXCEPT !.pend = "none", !.held = None, !.on = TRUE, !.shown = TRUE,
              !.sender = IF @ = "no sender" THEN @ ELSE d.held]

Resumed(k) ==
    /\ dev[k].pend = "resume"
    /\ dev' = [dev EXCEPT ![k] = Resume(@)]
    /\ UNCHANGED <<call, joinPrompt, screen, sharing, deaf, asks, rushed, remoteVars>>

\* The prompt of a toggle is granted.  After disconnect() nobody takes the
\* track, and nobody stops it.
ToggleCaptured(d) ==
    LET e == [d EXCEPT !.live = @ \cup {"toggle"}, !.enabled = @ \cup {"toggle"},
                       !.on = TRUE, !.shown = TRUE, !.pend = "none"]
    IN IF InCall
       THEN [e EXCEPT !.stream = Append(@, "toggle"), !.sender = "toggle"]
       ELSE e

\* Faulty variant of DeviceCaptured: the new track comes in enabled.
DeviceCapturedLoud(k, d) ==
    LET old == {d.stream[i] : i \in DOMAIN d.stream}
    IN [d EXCEPT !.live = (@ \ old) \cup {"device"},
                 !.enabled = (@ \ old) \cup {"device"},
                 !.stream = <<"device">>, !.pend = "none",
                 !.sender = IF ~InCall THEN @ ELSE "device"]

\* setMicDevice and setCameraDevice after their prompt: the new track takes
\* the place of the old one and its mute state.
DeviceCaptured(k, d) ==
    LET old == {d.stream[i] : i \in DOMAIN d.stream}
    IN [d EXCEPT !.live = (@ \ old) \cup {"device"},
                 !.enabled = IF d.on THEN (@ \ old) \cup {"device"}
                             ELSE @ \ (old \cup {"device"}),
                 !.stream = <<"device">>, !.pend = "none",
                 !.sender = IF ~InCall THEN @
                            ELSE IF k = "cam" /\ ~d.on THEN "no track"
                            ELSE "device"]

\* A device is chosen in the menu, or the persisted one is applied after a
\* toggle.
ChooseDevice(k) ==
    /\ call = "joined" /\ dev[k].pend = "none"
    /\ Ask
    /\ dev' = [dev EXCEPT ![k].pend = "device"]
    /\ UNCHANGED <<call, joinPrompt, screen, sharing, deaf, remoteVars>>

Granted(k) ==
    /\ dev[k].pend \in {"toggle", "device"}
    /\ dev' = [dev EXCEPT ![k] = IF @.pend = "toggle" THEN ToggleCaptured(@)
                                 ELSE DeviceCaptured(k, @)]
    /\ UNCHANGED <<call, joinPrompt, screen, sharing, deaf, asks, rushed, remoteVars>>

Denied(k) ==
    /\ dev[k].pend \in {"toggle", "device"}
    /\ dev' = [dev EXCEPT ![k].pend = "none"]
    /\ UNCHANGED <<call, joinPrompt, screen, sharing, deaf, asks, rushed, remoteVars>>

\* publishScreen up to the picker.
StartShare ==
    /\ InCall /\ screen = "none"
    /\ Ask
    /\ screen' = "picking"
    /\ UNCHANGED <<call, joinPrompt, dev, sharing, deaf, remoteVars>>

\* The picker's answer; after disconnect() there is no peer connection to add
\* the track to, and the track lives on.
Picked ==
    /\ screen = "picking"
    /\ \/ screen' = "none" /\ UNCHANGED sharing
       \/ screen' = (IF InCall THEN "sharing" ELSE "stray")
          /\ sharing' = (InCall \/ sharing)
    /\ UNCHANGED <<call, joinPrompt, dev, deaf, asks, rushed, remoteVars>>

\* unpublishScreen by the button, which updates the hook, or by the browser's
\* own bar, which does not.
StopShare ==
    /\ (InCall /\ sharing) \/ screen = "sharing"
    /\ screen' = IF screen = "sharing" THEN "none" ELSE screen
    /\ sharing' \in {FALSE, sharing}
    /\ UNCHANGED <<call, joinPrompt, dev, deaf, asks, rushed, remoteVars>>

\* toggleDeafen: deafening mutes a microphone that is shown as on.
ToggleDeafen ==
    /\ InCall
    /\ deaf' = ~deaf
    /\ dev' = IF deaf' /\ dev["mic"].shown /\ dev["mic"].on
              THEN [dev EXCEPT !["mic"] = Disabled("mic", @)] ELSE dev
    /\ UNCHANGED <<call, joinPrompt, screen, sharing, asks, rushed, remoteVars>>

-----------------------------------------------------------------------------
(* The other participant and the server.                                   *)

\* What the server broadcasts reaches us once our WebSocket is registered.
Sends(ms) == wire' = IF InCall THEN wire \o ms ELSE wire

\* The other's WebSocket is registered; a second window takes over the slot of
\* the first, and nobody is told that the first is gone.
PeerComes ==
    /\ stay < MaxStay /\ Room(1)
    /\ stay' = stay + 1 /\ present' = TRUE /\ camera' = FALSE
    /\ replaced' = (replaced \/ present)
    /\ Sends(<<Message1("joined", stay + 1, FALSE)>>)
    /\ UNCHANGED <<localVars, toOffer, viewVars>>

\* The SFU takes the other's tracks in, if it has not before it leaves.
PeerPublishes ==
    /\ present /\ toOffer # stay
    /\ toOffer' = stay
    /\ UNCHANGED <<localVars, stay, present, camera, replaced, wire, viewVars>>

PeerTogglesCamera ==
    /\ present /\ Room(1)
    /\ camera' = ~camera
    /\ Sends(<<Message1(IF camera THEN "camera off" ELSE "camera on", stay, FALSE)>>)
    /\ UNCHANGED <<localVars, stay, present, toOffer, replaced, viewVars>>

PeerLeaves ==
    /\ present /\ Room(1)
    /\ present' = FALSE /\ camera' = FALSE
    /\ Sends(<<Message1("left", stay, FALSE)>>)
    /\ UNCHANGED <<localVars, stay, toOffer, replaced, viewVars>>

\* The SFU handles the other's Leave, which may be after the others were told.
SfuForgets ==
    /\ toOffer # 0 /\ (~present \/ toOffer # stay)
    /\ toOffer' = 0
    /\ UNCHANGED <<localVars, stay, present, camera, replaced, wire, viewVars>>

\* The SFU answers our offer.
SfuAnswers ==
    /\ call = "offered" /\ Room(1)
    /\ \A i \in DOMAIN wire : wire[i].kind # "answer"
    /\ wire' = Append(wire, Message1("answer", 0, FALSE))
    /\ UNCHANGED <<localVars, peerVars, viewVars>>

\* The SFU offers us the other's tracks, once it has answered us.
SfuOffers ==
    /\ toOffer # 0 /\ Room(1)
    /\ (call = "joined" \/ \E i \in DOMAIN wire : wire[i].kind = "answer")
    /\ InCall
    /\ toOffer' = 0
    /\ wire' = Append(wire, Message1("offer", toOffer, FALSE))
    /\ UNCHANGED <<localVars, stay, present, camera, replaced, viewVars>>

-----------------------------------------------------------------------------
(* What the client and the hook make of the messages.                      *)

ShowAll(t) == tiles' = [i \in DOMAIN tiles |-> t]

\* track_added of the camera: kept, and shown if the camera was signalled on.
TrackAdded(s) ==
    /\ videoTrack' = s
    /\ ShowAll(IF cameraOn THEN s ELSE 0)
    /\ UNCHANGED cameraOn

\* track_muted of the camera.
Signalled(on) ==
    /\ cameraOn' = on
    /\ ShowAll(IF on THEN videoTrack ELSE 0)
    /\ UNCHANGED videoTrack

\* participant_left.
Departed ==
    /\ tiles' = <<>> /\ cameraOn' = FALSE /\ videoTrack' = 0

\* "connected" arms the cue.
Arms(m) == armed \/ m.kind = "answer"

\* The next message.  Tracks of an offer whose participant is not known are
\* dropped.
Handle ==
    /\ wire # <<>>
    /\ wire' = Tail(wire)
    /\ LET m == Head(wire) IN
       /\ armed' = Arms(m)
       /\ IF m.kind = "answer"
          THEN /\ call' = "joined"
               /\ dev' = [k \in Kind |-> [dev[k] EXCEPT !.shown = dev[k].on]]
          ELSE UNCHANGED <<call, dev>>
       /\ CASE m.kind = "joined" -> tiles' = Append(tiles, 0)
                                    /\ UNCHANGED <<cameraOn, videoTrack>>
            [] m.kind = "left" -> Departed
            [] m.kind = "camera on" -> Signalled(TRUE)
            [] m.kind = "camera off" -> Signalled(FALSE)
            [] m.kind = "offer" /\ tiles # <<>> -> TrackAdded(m.stay)
            [] OTHER -> UNCHANGED <<tiles, cameraOn, videoTrack>>
    /\ UNCHANGED <<joinPrompt, screen, sharing, deaf, asks, rushed, peerVars>>

-----------------------------------------------------------------------------
ClientNext ==
    \/ Connect \/ JoinGranted \/ JoinDenied \/ Leave
    \/ \E k \in Kind :
         \/ Toggle(k) \/ Resumed(k) \/ ChooseDevice(k)
         \/ Granted(k) \/ Denied(k)
    \/ StartShare \/ Picked \/ StopShare \/ ToggleDeafen
    \/ PeerComes \/ PeerPublishes \/ PeerTogglesCamera \/ PeerLeaves
    \/ SfuForgets \/ SfuAnswers \/ SfuOffers \/ Handle

ClientSpec == ClientInit /\ [][ClientNext]_clientVars

-----------------------------------------------------------------------------
(* Properties.                                                             *)

Sent(d) == (({d.sender} \cup d.stale) \cap Track) \cap d.enabled

\* What is shown as muted is not sent: while no prompt is open, and if the
\* user never pressed a button while one was, no sender carries an enabled
\* track of a microphone or camera shown as off, whichever toggles, device
\* changes and deafenings came before.
MutedIsSilent ==
    InCall /\ ~rushed /\ ~Waiting =>
        \A k \in Kind : ~dev[k].shown => Sent(dev[k]) = {}

\* Nothing is captured after the call: the join's own prompt may be open when
\* the user leaves (createAndSendOffer looks after every await), and once no
\* prompt is open no track of microphone, camera or screen is live.
LeaveStopsCapture ==
    call = "left" /\ ~rushed /\ ~joinPrompt =>
        screen # "stray" /\ \A k \in Kind : dev[k].live = {}


\* What is captured is what the user is shown, during the call and after it.
CapturedAsShown == MutedIsSilent /\ LeaveStopsCapture

\* A tile follows its participant: when every message is handled there is one
\* tile for the other if it is there and none if not; the tile is empty while
\* the other's camera is off, and with the camera on and its track come it
\* shows that track, in whichever order the two came.
TileFollowsPeer ==
    call = "joined" /\ wire = <<>> /\ ~replaced =>
        /\ Len(tiles) = IF present THEN 1 ELSE 0
        /\ present => cameraOn = camera
        /\ present /\ videoTrack = stay => Head(tiles) = IF camera THEN stay ELSE 0
        /\ present /\ ~camera => Head(tiles) = 0

\* Nobody who was there before us is announced by a chime: as long as a
\* message of the roster's replay is unhandled, the cue is not armed.
RosterIsSilent ==
    \A i \in DOMAIN wire : wire[i].replay => ~armed


\* The other participant is shown as it is, and announced only when it comes.
PeerShownAsItIs == TileFollowsPeer /\ RosterIsSilent

\* The call is what the screen says it is, on both sides.
CallShownAsItIs == CapturedAsShown /\ PeerShownAsItIs
=============================================================================
