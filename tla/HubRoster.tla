----------------------------- MODULE HubRoster -----------------------------
(***************************************************************************)
(* The members of the hub in the web application: the roster and the       *)
(* pending invitations, which SWR fetches and fetches again when it is     *)
(* told to, the presence socket of usePresence that tells it to and that   *)
(* carries who is in which voice channel and with which microphone, and    *)
(* the stores that keep those marks.                                       *)
(*                                                                         *)
(* The hub service commits a change first and announces it afterwards, to  *)
(* the sockets whose handler has subscribed by then; a handler subscribes  *)
(* some time after the socket is open.  One voice channel is enough to     *)
(* tell who is in it.                                                      *)
(***************************************************************************)
EXTENDS Integers, FiniteSets, Sequences

CONSTANTS Users,       \* the other people of the hub
          MaxEvents,   \* bound on what happens to them
          MaxOpens     \* bound on the sockets the tab opens

ASSUME RosterAssumption == MaxEvents \in Nat /\ MaxOpens \in Nat \ {0}

VARIABLES folk,        \* what the hub knows of a user: invited, member, groups
          voice,       \* Redis: who is in voice, and with the microphone open
          happened,    \* how many events MaxEvents bounds there were
          unsaid,      \* events committed and not announced yet
          socket,      \* the presence socket of the tab
          opened,      \* how many there were
          listening,   \* its handler has subscribed to the events
          news,        \* the events on their way to the tab
          roster,      \* the members SWR has
          rosterFetch, \* the fetch it waits for: a new one replaces the old
          invited,     \* the pending invitations SWR has
          invitedFetch,
          occupancy,   \* voice-occupancy-store: who is in the voice channel
          unmuted,     \* voice-mute-store: who has an entry with audio on
          requests,    \* the user's requests under way
          lost,        \* users of an event lost while the socket was open
          lostJoins,   \* users whose joining was lost, ever since the last fetch
          crossed      \* users of a voice event that an older answer undid

rosterVars == <<folk, voice, happened, unsaid, socket, opened, listening, news,
                roster, rosterFetch, invited, invitedFetch, occupancy, unmuted,
                requests, lost, lostJoins, crossed>>

hubSide == <<folk, voice, happened, unsaid>>
shown == <<roster, rosterFetch, invited, invitedFetch, occupancy, unmuted>>
ghosts == <<lost, lostJoins, crossed>>

-----------------------------------------------------------------------------
(* Users, events, fetches and requests. *)

Person == [is : {"stranger", "invited", "member"}, group : BOOLEAN]
Voice == {"out", "muted", "open"}

Event == [kind : {"joined", "left", "groups", "in", "out", "open", "muted"},
          user : Users]

(* What members-full answers: the rows, and the marks of those in voice.    *)
Members == {u \in Users : folk[u].is = "member"}
Rows == [user : Users, group : BOOLEAN]
RowsNow == {[user |-> u, group |-> folk[u].group] : u \in Members}
InVoice == {u \in Users : voice[u] # "out"}
OpenMics == {u \in Users : voice[u] = "open"}

Snapshot == [rows |-> RowsNow, in |-> Members \cap InVoice,
             open |-> Members \cap OpenMics]
NoSnapshot == [rows |-> {}, in |-> {}, open |-> {}]

(* The pending-invites answer. *)
InvitedNow == {u \in Users : folk[u].is = "invited"}

NoFetch == [stage |-> "idle", of |-> NoSnapshot]
Asked == [stage |-> "sent", of |-> NoSnapshot]

Requests == [op : {"kick", "toggle", "invite", "revoke"}, user : Users,
             stage : {"sent", "done"}]

RosterTypeOK ==
    /\ folk \in [Users -> Person] /\ voice \in [Users -> Voice]
    /\ happened \in 0..MaxEvents /\ unsaid \subseteq Event
    /\ socket \in {"off", "opening", "open"} /\ opened \in 0..MaxOpens
    /\ listening \in BOOLEAN
    /\ news \in Seq(Event)
    /\ roster \subseteq Rows /\ invited \subseteq Users
    /\ rosterFetch.stage \in {"idle", "sent", "read", "failed"}
    /\ invitedFetch.stage \in {"idle", "sent", "read", "failed"}
    /\ occupancy \subseteq Users /\ unmuted \subseteq Users
    /\ requests \subseteq Requests
    /\ lost \subseteq Users /\ lostJoins \subseteq Users /\ crossed \subseteq Users

RosterInit ==
    /\ folk \in [Users -> [is : {"invited", "member"}, group : {FALSE}]]
    /\ voice = [u \in Users |-> "out"]
    /\ happened = 0 /\ unsaid = {}
    /\ socket = "off" /\ opened = 0 /\ listening = FALSE /\ news = <<>>
    /\ roster = {} /\ rosterFetch = Asked
    /\ invited = {} /\ invitedFetch = Asked
    /\ occupancy = {} /\ unmuted = {}
    /\ requests = {}
    /\ lost = {} /\ lostJoins = {} /\ crossed = {}

-----------------------------------------------------------------------------
(* The hub. *)

(* A committed change, and the event that its handler will announce.        *)
Commits(u, person, kind) ==
    /\ happened < MaxEvents /\ happened' = happened + 1
    /\ folk' = [folk EXCEPT ![u] = person]
    /\ unsaid' = unsaid \cup {[kind |-> kind, user |-> u]}

(* Someone accepts an invitation: accept_invite, join_via_token.            *)
Accepts(u) ==
    /\ folk[u].is = "invited"
    /\ Commits(u, [folk[u] EXCEPT !.is = "member"], "joined")
    /\ UNCHANGED <<voice, socket, opened, listening, news, requests>>
    /\ UNCHANGED shown /\ UNCHANGED ghosts

(* globalMutate: SWR forgets the fetch it waits for and begins another,     *)
(* which will see whatever was missed so far.                               *)
AskRoster == rosterFetch' = Asked /\ lost' = {} /\ crossed' = {}
AskInvited == invitedFetch' = Asked /\ lostJoins' = {}

(* A fetch that is yet to be read makes up for what is lost meanwhile.      *)
Behind(fetch) == fetch.stage \in {"idle", "read"}

(* An event on the broadcast bus reaches the handlers that have subscribed; *)
(* `lost` and `lostJoins` remember whose events this tab will never hear.   *)
Reaches(e) ==
    IF listening
      THEN news' = Append(news, e) /\ UNCHANGED <<lost, lostJoins>>
      ELSE /\ lost' = lost \cup {u \in {e.user} :
                                  socket = "open" /\ Behind(rosterFetch)}
           /\ lostJoins' = lostJoins \cup {u \in {e.user} :
                                  e.kind = "joined" /\ Behind(invitedFetch)}
           /\ UNCHANGED news

Announce(e) ==
    /\ e \in unsaid
    /\ unsaid' = unsaid \ {e}
    /\ Reaches(e)
    /\ UNCHANGED <<folk, voice, happened, socket, opened, listening, requests, crossed>>
    /\ UNCHANGED shown

(* The bridge from the video service keeps the marks and passes them on, in *)
(* the order in which it gets them; who leaves loses the microphone's mark. *)
VoiceChanges(u, to) ==
    /\ folk[u].is = "member" /\ to # voice[u]
    /\ to = "open" => voice[u] = "muted"
    /\ happened < MaxEvents /\ happened' = happened + 1
    /\ voice' = [voice EXCEPT ![u] = to]
    /\ Reaches([kind |-> IF to = "muted" /\ voice[u] = "out" THEN "in" ELSE to,
                user |-> u])
    /\ UNCHANGED <<folk, unsaid, socket, opened, listening, requests, crossed>>
    /\ UNCHANGED shown

-----------------------------------------------------------------------------
(* The presence socket. *)

(* connect, at once or after the delay of the one before.                   *)
ConnectSocket ==
    /\ socket = "off" /\ opened < MaxOpens
    /\ opened' = opened + 1
    /\ socket' = "opening" /\ listening' = FALSE /\ news' = <<>>
    /\ UNCHANGED hubSide /\ UNCHANGED shown /\ UNCHANGED ghosts
    /\ UNCHANGED requests

(* The handler of the service subscribes, after it has marked the user      *)
(* online.                                                                  *)
Subscribe ==
    /\ socket # "off" /\ ~listening
    /\ listening' = TRUE
    /\ UNCHANGED <<socket, opened, news, requests>>
    /\ UNCHANGED hubSide /\ UNCHANGED shown /\ UNCHANGED ghosts

(* onopen: the roster is fetched again; the invitations are not.            *)
SocketOpens ==
    /\ socket = "opening"
    /\ socket' = "open"
    /\ AskRoster
    /\ UNCHANGED <<opened, listening, news, roster, invited, invitedFetch,
                   occupancy, unmuted, requests, lostJoins>>
    /\ UNCHANGED hubSide

(* The connection breaks, or a new session closes it to open another.       *)
SocketCloses ==
    /\ socket # "off"
    /\ socket' = "off" /\ listening' = FALSE /\ news' = <<>>
    /\ lostJoins' = lostJoins \cup
           {news[i].user : i \in {j \in DOMAIN news : news[j].kind = "joined"}}
    /\ UNCHANGED <<opened, requests, lost, crossed>>
    /\ UNCHANGED hubSide /\ UNCHANGED shown

(* A voice event and an answer that was read before it: the older of the    *)
(* two will be the last to be applied.                                      *)
VoiceKinds == {"in", "out", "open", "muted"}

Crosses(e) ==
    /\ crossed' = crossed \cup {u \in {e.user} : rosterFetch.stage = "read"}
    /\ UNCHANGED <<rosterFetch, lost>>

(* Faulty variant: someone who leaves voice keeps the microphone's entry. *)
HandleEventKeepsMute(e) ==
    /\ news # <<>> /\ e = Head(news) /\ socket = "open"
    /\ news' = Tail(news)
    /\ occupancy' = CASE e.kind = "in" -> occupancy \cup {e.user}
                      [] e.kind = "out" -> occupancy \ {e.user}
                      [] OTHER -> occupancy
    /\ unmuted' = CASE e.kind = "open" -> unmuted \cup {e.user}
                    [] e.kind = "muted" -> unmuted \ {e.user}
                    [] OTHER -> unmuted
    /\ IF e.kind \in VoiceKinds THEN Crosses(e) ELSE AskRoster
    /\ IF e.kind = "joined" THEN AskInvited ELSE UNCHANGED <<invitedFetch, lostJoins>>
    /\ UNCHANGED <<socket, opened, listening, roster, invited, requests>>
    /\ UNCHANGED hubSide

(* onmessage: the marks of voice go to the stores, anything else about the  *)
(* members has SWR fetch them again, and a newcomer the invitations too.    *)
HandleEvent(e) ==
    /\ news # <<>> /\ e = Head(news) /\ socket = "open"
    /\ news' = Tail(news)
    /\ occupancy' = CASE e.kind = "in" -> occupancy \cup {e.user}
                      [] e.kind = "out" -> occupancy \ {e.user}
                      [] OTHER -> occupancy
    /\ unmuted' = CASE e.kind = "open" -> unmuted \cup {e.user}
                    [] e.kind \in {"muted", "out"} -> unmuted \ {e.user}
                    [] OTHER -> unmuted
    /\ IF e.kind \in VoiceKinds THEN Crosses(e) ELSE AskRoster
    /\ IF e.kind = "joined" THEN AskInvited ELSE UNCHANGED <<invitedFetch, lostJoins>>
    /\ UNCHANGED <<socket, opened, listening, roster, invited, requests>>
    /\ UNCHANGED hubSide

-----------------------------------------------------------------------------
(* Fetching. *)

RosterRead ==
    /\ rosterFetch.stage = "sent"
    /\ rosterFetch' = [stage |-> "read", of |-> Snapshot]
    /\ UNCHANGED <<socket, opened, listening, news, roster, invited, invitedFetch,
                   occupancy, unmuted, requests>>
    /\ UNCHANGED hubSide /\ UNCHANGED ghosts

(* onSuccess: the answer replaces the roster and both stores.               *)
RosterAnswered ==
    /\ rosterFetch.stage = "read"
    /\ roster' = rosterFetch.of.rows
    /\ occupancy' = rosterFetch.of.in
    /\ unmuted' = rosterFetch.of.open
    /\ rosterFetch' = NoFetch
    /\ UNCHANGED <<socket, opened, listening, news, invited, invitedFetch, requests>>
    /\ UNCHANGED hubSide /\ UNCHANGED ghosts

InvitedRead ==
    /\ invitedFetch.stage = "sent"
    /\ invitedFetch' = [stage |-> "read", of |-> [NoSnapshot EXCEPT !.in = InvitedNow]]
    /\ UNCHANGED <<socket, opened, listening, news, roster, rosterFetch, invited,
                   occupancy, unmuted, requests>>
    /\ UNCHANGED hubSide /\ UNCHANGED ghosts

InvitedAnswered ==
    /\ invitedFetch.stage = "read"
    /\ invited' = invitedFetch.of.in
    /\ invitedFetch' = NoFetch
    /\ UNCHANGED <<socket, opened, listening, news, roster, rosterFetch,
                   occupancy, unmuted, requests>>
    /\ UNCHANGED hubSide /\ UNCHANGED ghosts

(* A fetch fails, and SWR will try again.                                   *)
FetchFails ==
    /\ \/ /\ rosterFetch.stage \in {"sent", "read"}
          /\ rosterFetch' = [NoFetch EXCEPT !.stage = "failed"]
          /\ UNCHANGED <<invitedFetch, lostJoins>>
          /\ lost' = {} /\ crossed' = {}
       \/ /\ invitedFetch.stage \in {"sent", "read"}
          /\ invitedFetch' = [NoFetch EXCEPT !.stage = "failed"]
          /\ lostJoins' = {}
          /\ UNCHANGED <<rosterFetch, lost, crossed>>
    /\ UNCHANGED <<socket, opened, listening, news, roster, invited, occupancy,
                   unmuted, requests>>
    /\ UNCHANGED hubSide

Retry ==
    /\ \/ /\ rosterFetch.stage = "failed" /\ AskRoster
          /\ UNCHANGED <<invitedFetch, lostJoins>>
       \/ /\ invitedFetch.stage = "failed" /\ AskInvited
          /\ UNCHANGED <<rosterFetch, lost, crossed>>
    /\ UNCHANGED <<socket, opened, listening, news, roster, invited, occupancy,
                   unmuted, requests>>
    /\ UNCHANGED hubSide

-----------------------------------------------------------------------------
(* The user's own requests. *)

(* What the cards and the dialog offer: "Remove" and the groups on the card *)
(* of a member, "Delete invite" on a pending one, and a form for a new one. *)
Offers(op, u) ==
    CASE op \in {"kick", "toggle"} -> \E r \in roster : r.user = u
      [] op = "revoke" -> u \in invited
      [] OTHER -> folk[u].is = "stranger"

Submit(op, u) ==
    /\ Offers(op, u)
    /\ happened < MaxEvents /\ happened' = happened + 1
    /\ requests' = requests \cup {[op |-> op, user |-> u, stage |-> "sent"]}
    /\ UNCHANGED <<folk, voice, unsaid, socket, opened, listening, news>>
    /\ UNCHANGED shown /\ UNCHANGED ghosts

(* The service commits what is asked for, or finds that it no longer is to  *)
(* be done or that the user may not do it.                                  *)
Serves(r) ==
    \/ /\ r.op = "kick" /\ folk[r.user].is = "member"
       /\ folk' = [folk EXCEPT ![r.user] = [is |-> "stranger", group |-> FALSE]]
       /\ unsaid' = unsaid \cup {[kind |-> "left", user |-> r.user]}
    \/ /\ r.op = "toggle" /\ folk[r.user].is = "member"
       /\ folk' = [folk EXCEPT ![r.user].group = ~@]
       /\ unsaid' = unsaid \cup {[kind |-> "groups", user |-> r.user]}
    \/ /\ r.op = "invite" /\ folk[r.user].is = "stranger"
       /\ folk' = [folk EXCEPT ![r.user].is = "invited"]
       /\ UNCHANGED unsaid
    \/ /\ r.op = "revoke" /\ folk[r.user].is = "invited"
       /\ folk' = [folk EXCEPT ![r.user].is = "stranger"]
       /\ UNCHANGED unsaid
    \/ UNCHANGED <<folk, unsaid>>

RequestServed(r) ==
    /\ r \in requests /\ r.stage = "sent"
    /\ Serves(r)
    /\ requests' = (requests \ {r}) \cup {[r EXCEPT !.stage = "done"]}
    /\ UNCHANGED <<voice, happened, socket, opened, listening, news>>
    /\ UNCHANGED shown /\ UNCHANGED ghosts

(* The answer, whatever it is, refreshes the list it is about; none comes   *)
(* when the connection fails.                                               *)
RequestAnswered(r) ==
    /\ r \in requests /\ r.stage = "done"
    /\ requests' = requests \ {r}
    /\ \/ /\ r.op \in {"kick", "toggle"} /\ AskRoster
          /\ UNCHANGED <<invitedFetch, lostJoins>>
       \/ /\ r.op \in {"invite", "revoke"} /\ AskInvited
          /\ UNCHANGED <<rosterFetch, lost, crossed>>
       \/ UNCHANGED <<rosterFetch, invitedFetch, lost, lostJoins, crossed>>
    /\ UNCHANGED <<socket, opened, listening, news, roster, invited, occupancy, unmuted>>
    /\ UNCHANGED hubSide

-----------------------------------------------------------------------------
RosterNext ==
    \/ ConnectSocket \/ Subscribe \/ SocketOpens \/ SocketCloses
    \/ RosterRead \/ RosterAnswered \/ InvitedRead \/ InvitedAnswered
    \/ FetchFails \/ Retry
    \/ \E e \in unsaid : Announce(e)
    \/ \E e \in Event : HandleEvent(e)
    \/ \E u \in Users : \/ Accepts(u) \/ \E to \in Voice : VoiceChanges(u, to)
                      \/ \E op \in {"kick", "toggle", "invite", "revoke"} : Submit(op, u)
    \/ \E r \in requests : RequestServed(r) \/ RequestAnswered(r)

-----------------------------------------------------------------------------
(* Properties. *)

(* Nothing is on its way to the tab that would change what it shows.        *)
Quiet == /\ socket = "open" /\ listening /\ news = <<>> /\ unsaid = {}
         /\ rosterFetch = NoFetch /\ invitedFetch = NoFetch

(* The roster is fetched when the socket opens and at every event (use-     *)
(* members.ts:165-217), never polled: once nothing is under way it is the   *)
(* hub's, but for users whose event came after the fetch at the opening and *)
(* before the service's handler had subscribed (presence_ws.rs:100).        *)
RosterConverges ==
    Quiet => \A u \in Users \ lost :
               {r \in roster : r.user = u} = {r \in RowsNow : r.user = u}

(* So are the marks of voice, which come with the roster and as events of   *)
(* their own, but for users whose event was handled before an answer that   *)
(* the service had read earlier (the stores are replaced at onSuccess, use- *)
(* members.ts:98-124): nobody else is shown in voice, or with an open       *)
(* microphone, who is not.                                                  *)
VoiceMarksConverge ==
    Quiet => \A u \in Members \ (lost \cup crossed) :
               /\ u \in occupancy <=> u \in InVoice
               /\ u \in unmuted <=> u \in OpenMics

(* "Someone accepted - they're a member now AND no longer pending" (use-    *)
(* members.ts:203): nobody is shown among the invited who is shown as a     *)
(* member, unless the tab missed an event: the socket that opens again has  *)
(* only the roster fetched.                                                 *)
InvitedAreNotMembers ==
    Quiet => \A r \in roster : r.user \in invited => r.user \in lost \cup lostJoins


(* The roster, the marks of voice and the invited together, as one tab has  *)
(* them on its screen.                                                      *)
RosterFollowsHub == RosterConverges /\ VoiceMarksConverge /\ InvitedAreNotMembers
=============================================================================
