--------------------------- MODULE SfuNegotiation ---------------------------
(***************************************************************************)
(* Who hears and sees whom: the SDP negotiation between one SFU shard      *)
(* (services/video/src/sfu/mod.rs, session.rs) and the clients of one call *)
(* (packages/sdk-video/src/client.ts).                                     *)
(*                                                                         *)
(* Both ends make offers.  The SFU offers a participant the tracks of the  *)
(* others, one offer at a time; a client offers its own tracks when it     *)
(* joins and whenever it adds one.  The two cross.                         *)
(*                                                                         *)
(* A client is one VideoClient with its WebSocket and its handler; a       *)
(* participant id is a function of session and user (ws.rs), so that two   *)
(* clients of a user share one.  What a client sends is one FIFO through   *)
(* socket, handler and shard channel; what it is sent is one through its   *)
(* mpsc channel and socket.  Audio and video are negotiated alike: a medium*)
(* is what the first offer carries ("cam") or a shared screen.  A track is *)
(* a medium of a participant, and names the m-line it has at a receiver.   *)
(*                                                                         *)
(* str0m is external: it accepts what fits the state it is in; what does   *)
(* not fit, it may accept or refuse.  So is the browser's peer connection: *)
(* an offer rolls a local offer back, an answer nobody waits for throws.   *)
(***************************************************************************)
EXTENDS Naturals, Sequences, FiniteSets

CONSTANTS
    Client,      \* clients that may take part
    Pid,         \* participant ids
    PidOf,       \* derive_participant_id, for the client's user
    None,        \* no client
    WsCap,       \* WS_TX_BUFFER: capacity of the channel to a client
    MaxDrops,    \* bound: commands lost at the shard's full channel
    Sharers      \* clients that share their screen

ASSUME PidOfAssumption == PidOf \in [Client -> Pid]
ASSUME NoneAssumption == None \notin Client
ASSUME BoundAssumption == WsCap \in Nat \ {0} /\ MaxDrops \in Nat
ASSUME SharersAssumption == Sharers \subseteq Client

Media == {"cam", "screen"}
Track == Pid \X Media
Origin(t) == t[1]

VARIABLES
    member,      \* SfuSession.participants: the client whose ws_tx it holds
    tin,         \* tracks_in: the Source each medium is tagged with
    tout,        \* tracks_out: TrackOutState of each track
    lines,       \* the tracks with an active m-line in the participant's Rtc
    pend,        \* pending_offer, with the m-lines it adds and deactivates
    queued,      \* queued_client_offer
    hints,       \* pending_source_hints: how many "screen"
    neg,         \* pending_negotiation
    fwd,         \* forwarding_map: who is sent which track
    toSfu,       \* commands on their way from a client to the shard
    toClient,    \* messages on their way to a client
    drops,       \* commands lost so far
    cst,         \* the client: "idle", "joining", "in" (this.joined), "left"
    sig,         \* pc.signalingState
    offered,     \* the media in the client's last offer
    share,       \* screen share: "no", "hinted", "offered", "stopped"
    deaf,        \* has msgQueue rejected?
    views,       \* tracks in the last SFU offer the client applied
    disturbed    \* history: clients an offer of whose crossed another one, or
                 \* that lost a message, or were answered in a predecessor's
                 \* place, or that have left or were put out

roomVars   == <<member, tin, tout, lines, hints, neg, fwd>>
offerVars  == <<pend, queued>>
clientVars == <<cst, sig, offered, share, deaf, views>>
vars == <<roomVars, offerVars, toSfu, toClient, drops, clientVars, disturbed>>

-----------------------------------------------------------------------------
\* A client's offer: its media, and the tracks its peer connection knows.
Offer == [from : Client \cup {None}, media : SUBSET Media, seen : SUBSET Track]
NoClientOffer == [from |-> None, media |-> {}, seen |-> {}]

Command == [op : {"join", "hint", "offer", "answer", "leave"}, offer : Offer]
Message == [op : {"answer", "offer", "force"},
            media : SUBSET Media, tracks : SUBSET Track]

Cmd(op) == [op |-> op, offer |-> NoClientOffer]
OfferCmd(c, media, seen) ==
    [op |-> "offer", offer |-> [from |-> c, media |-> media, seen |-> seen]]
Answer(media) == [op |-> "answer", media |-> media, tracks |-> {}]
SfuOffer(tracks) == [op |-> "offer", media |-> {}, tracks |-> tracks]
ForceDisconnected == [op |-> "force", media |-> {}, tracks |-> {}]

NoOffer == [on |-> FALSE, add |-> {}, drop |-> {}]
Outstanding(add, drop) == [on |-> TRUE, add |-> add, drop |-> drop]

InRoom(p) == member[p] # None
NotPublished == [m \in Media |-> "none"]
Published(p) == {m \in Media : tin[p][m] # "none"}
NoTracks == [t \in Track |-> "none"]

Init ==
    /\ member = [p \in Pid |-> None]
    /\ tin = [p \in Pid |-> NotPublished]
    /\ tout = [p \in Pid |-> NoTracks]
    /\ lines = [p \in Pid |-> {}]
    /\ pend = [p \in Pid |-> NoOffer]
    /\ queued = [p \in Pid |-> NoClientOffer]
    /\ hints = [p \in Pid |-> 0]
    /\ neg = {} /\ fwd = {}
    /\ toSfu = [c \in Client |-> <<>>]
    /\ toClient = [c \in Client |-> <<>>]
    /\ drops = 0
    /\ cst = [c \in Client |-> "idle"]
    /\ sig = [c \in Client |-> "stable"]
    /\ offered = [c \in Client |-> {}]
    /\ share = [c \in Client |-> "no"]
    /\ deaf = [c \in Client |-> FALSE]
    /\ views = [c \in Client |-> {}]
    /\ disturbed = {}

-----------------------------------------------------------------------------
(* Sending.                                                                *)

Listening(c) == cst[c] \in {"joining", "in"}

\* Messages to anyone else come to nothing: they are skipped, or lost.
Hears(c) == Listening(c) /\ ~deaf[c]

\* ws_try_send of msgs[c] to every client: what finds no room is dropped.
WsTrySend(msgs) ==
    toClient' = [c \in Client |->
                   IF Hears(c) /\ Len(toClient[c] \o msgs[c]) <= WsCap
                     THEN toClient[c] \o msgs[c] ELSE toClient[c]]

\* The clients that lose a message then.
Losing(msgs) == {c \in Client : Len(toClient[c] \o msgs[c]) > WsCap}

\* What the client sends; the handler passes it on to the shard.
Sends(c, cmds) == toSfu' = [toSfu EXCEPT ![c] = @ \o cmds]

\* The shard takes the next command of c.
Takes(c, op) ==
    /\ toSfu[c] # <<>>
    /\ Head(toSfu[c]).op = op
    /\ toSfu' = [toSfu EXCEPT ![c] = Tail(@)]

-----------------------------------------------------------------------------
(* The client.                                                             *)

\* createAndSendOffer.
ClientJoin(c) ==
    /\ cst[c] = "idle"
    /\ cst' = [cst EXCEPT ![c] = "joining"]
    /\ sig' = [sig EXCEPT ![c] = "have-local-offer"]
    /\ offered' = [offered EXCEPT ![c] = {"cam"}]
    /\ Sends(c, <<Cmd("join")>>)
    /\ UNCHANGED <<roomVars, offerVars, toClient, drops, share, deaf, views,
                   disturbed>>

\* publishScreen: the hint is sent before its awaits ...
ShareHint(c) ==
    /\ c \in Sharers /\ cst[c] = "in" /\ share[c] = "no"
    /\ share' = [share EXCEPT ![c] = "hinted"]
    /\ Sends(c, <<Cmd("hint")>>)
    /\ UNCHANGED <<roomVars, offerVars, toClient, drops, cst, sig, offered, deaf,
                   views, disturbed>>

\* An offer of the client's media.  While an answer is being made
\* setLocalDescription throws and nothing is sent.
ClientOffers(c) ==
    IF sig[c] = "have-remote-offer"
      THEN /\ disturbed' = disturbed \cup {c}
           /\ UNCHANGED <<sig, offered, toSfu>>
      ELSE /\ disturbed' = IF sig[c] = "stable" THEN disturbed ELSE disturbed \cup {c}
           /\ sig' = [sig EXCEPT ![c] = "have-local-offer"]
           /\ offered' = [offered EXCEPT ![c] = Media]
           /\ Sends(c, <<OfferCmd(c, Media, views[c])>>)

\* ... and the offer after them; unpublishScreen, and every other
\* renegotiation, is one more offer.
ShareOffer(c) ==
    /\ cst[c] = "in" /\ share[c] \in {"hinted", "offered"}
    /\ share' = [share EXCEPT ![c] = IF @ = "hinted" THEN "offered" ELSE "stopped"]
    /\ ClientOffers(c)
    /\ UNCHANGED <<roomVars, offerVars, toClient, drops, cst, deaf, views>>

\* The next message, of kind op, is handled at the turn of msgQueue.
Handles(c, op) ==
    /\ Hears(c) /\ sig[c] # "have-remote-offer"
    /\ toClient[c] # <<>>
    /\ Head(toClient[c]).op = op

\* case "answer": setRemoteDescription throws when there is no local offer, or
\* another one.  Nothing catches it: msgQueue has rejected, and skips every
\* later message.
ClientAnswered(c) ==
    /\ Handles(c, "answer")
    /\ IF sig[c] = "have-local-offer" /\ Head(toClient[c]).media = offered[c]
         THEN /\ sig' = [sig EXCEPT ![c] = "stable"]
              /\ cst' = [cst EXCEPT ![c] = "in"]
              /\ toClient' = [toClient EXCEPT ![c] = Tail(@)]
              /\ deaf' = deaf
         ELSE /\ deaf' = [deaf EXCEPT ![c] = TRUE]
              /\ toClient' = [toClient EXCEPT ![c] = <<>>]
              /\ UNCHANGED <<sig, cst>>
    /\ UNCHANGED <<roomVars, offerVars, toSfu, drops, offered, share, views,
                   disturbed>>

\* case "offer", up to its first await: a local offer is rolled back.
ClientTakesOffer(c) ==
    /\ Handles(c, "offer")
    /\ toClient' = [toClient EXCEPT ![c] = Tail(@)]
    /\ disturbed' = IF sig[c] = "stable" THEN disturbed ELSE disturbed \cup {c}
    /\ sig' = [sig EXCEPT ![c] = "have-remote-offer"]
    /\ views' = [views EXCEPT ![c] = Head(toClient[c]).tracks]
    /\ UNCHANGED <<roomVars, offerVars, toSfu, drops, cst, offered, share, deaf>>

\* The rest of it: createAnswer, setLocalDescription, send.
ClientAnswers(c) ==
    /\ Listening(c) /\ sig[c] = "have-remote-offer"
    /\ sig' = [sig EXCEPT ![c] = "stable"]
    /\ Sends(c, <<Cmd("answer")>>)
    /\ UNCHANGED <<roomVars, offerVars, toClient, drops, cst, offered, share, deaf,
                   views, disturbed>>

\* The end of a client: its socket dies or disconnect() closes it, and its
\* handler tells the shard (twice in a row, if the client has said so first).
Ends(c) ==
    /\ cst' = [cst EXCEPT ![c] = "left"]
    /\ toClient' = [toClient EXCEPT ![c] = <<>>]
    /\ sig' = [sig EXCEPT ![c] = "stable"]
    /\ offered' = [offered EXCEPT ![c] = {}]
    /\ share' = [share EXCEPT ![c] = "no"]
    /\ deaf' = [deaf EXCEPT ![c] = FALSE]
    /\ views' = [views EXCEPT ![c] = {}]
    /\ disturbed' = disturbed \cup {c}
    /\ Sends(c, <<Cmd("leave")>>)
    /\ UNCHANGED <<roomVars, offerVars, drops>>

ClientLeaves(c) == Listening(c) /\ Ends(c)

\* case "force_disconnected": close the socket.
ClientForced(c) == Handles(c, "force") /\ Ends(c)

-----------------------------------------------------------------------------
(* handle_leave: what is left of the room without p.                       *)

\* The m-lines that q has for tracks of p.
DeadLines(q, p) ==
    {t \in lines[q] : Origin(t) = p /\ tout[q][t] \in {"negotiating", "open"}}

\* Whoever has one is offered to deactivate it, unless an answer is due: then
\* the m-line stays as it is.
Deactivating(p) ==
    {q \in Pid \ {p} : InRoom(q) /\ ~pend[q].on /\ DeadLines(q, p) # {}}

ToutWithout(p) ==
    [q \in Pid |-> [t \in Track |-> IF p \in {q, Origin(t)} THEN "none" ELSE tout[q][t]]]
PendWithout(p) ==
    [q \in Pid |-> CASE q = p -> NoOffer
                     [] q \in Deactivating(p) -> Outstanding({}, DeadLines(q, p))
                     [] OTHER -> pend[q]]

\* Faulty variant of FwdWithout: what p receives is left.
FwdWithoutPublisher(p) == {f \in fwd : Origin(f.track) # p}

\* drop_from_forwarding.
FwdWithout(p) == {f \in fwd : f.to # p /\ Origin(f.track) # p}

DeactivationOffers(p) ==
    [c \in Client |->
       IF member[PidOf[c]] = c /\ PidOf[c] \in Deactivating(p)
         THEN <<SfuOffer(lines[PidOf[c]] \ DeadLines(PidOf[c], p))>> ELSE <<>>]

\* Send msgs; the clients in gone are no participants any more.
SendAll(msgs, gone) ==
    /\ WsTrySend(msgs)
    /\ disturbed' = disturbed \cup Losing(msgs) \cup (gone \ {None})

Leave(p) ==
    /\ member' = [member EXCEPT ![p] = None]
    /\ tin' = [tin EXCEPT ![p] = NotPublished]
    /\ tout' = ToutWithout(p)
    /\ lines' = [lines EXCEPT ![p] = {}]
    /\ pend' = PendWithout(p)
    /\ queued' = [queued EXCEPT ![p] = NoClientOffer]
    /\ hints' = [hints EXCEPT ![p] = 0]
    /\ neg' = neg \ {p}
    /\ fwd' = FwdWithout(p)
    /\ SendAll(DeactivationOffers(p), {member[p]})
    /\ UNCHANGED <<drops, clientVars>>

HandleLeave(c) == Takes(c, "leave") /\ Leave(PidOf[c])

\* tick: ICE is disconnected, and no packet came for zombie_timeout.
Zombie(p) == InRoom(p) /\ Leave(p) /\ UNCHANGED toSfu

-----------------------------------------------------------------------------
(* handle_join, with the MediaAdded that its poll brings.                  *)

Others(p) == {q \in Pid \ {p} : InRoom(q)}

\* Whoever was there under this id is told and leaves first.
HandleJoin(c) ==
    LET p == PidOf[c]
        existing == {t \in Track : Origin(t) # p /\ t[2] \in Published(Origin(t))}
        left == ToutWithout(p)
        bye == DeactivationOffers(p)
    IN  /\ Takes(c, "join")
        /\ member' = [member EXCEPT ![p] = c]
        /\ tin' = [tin EXCEPT ![p] = [NotPublished EXCEPT !["cam"] = "camera"]]
        /\ tout' = [q \in Pid |->
             [t \in Track |->
               IF \/ q = p /\ t \in existing
                  \/ q \in Others(p) /\ t = <<p, "cam">>
                 THEN "toopen" ELSE left[q][t]]]
        /\ lines' = [lines EXCEPT ![p] = {}]
        /\ pend' = PendWithout(p)
        /\ queued' = [queued EXCEPT ![p] = NoClientOffer]
        /\ hints' = [hints EXCEPT ![p] = 0]
        /\ neg' = (neg \ {p}) \cup Others(p) \cup (IF existing = {} THEN {} ELSE {p})
        /\ fwd' = FwdWithout(p)
        /\ SendAll([d \in Client |->
             CASE d = c -> <<Answer({"cam"})>>
               [] d # c /\ d = member[p] -> <<ForceDisconnected>>
               [] OTHER -> bye[d]], {member[p]})
        /\ UNCHANGED <<drops, clientVars>>

-----------------------------------------------------------------------------
(* Offers of the client.                                                   *)

\* handle_publish_track.
HandlePublishTrack(c) ==
    /\ Takes(c, "hint")
    /\ hints' = IF InRoom(PidOf[c]) THEN [hints EXCEPT ![PidOf[c]] = @ + 1] ELSE hints
    /\ UNCHANGED <<member, tin, tout, lines, neg, fwd, offerVars, toClient, drops,
                   clientVars, disturbed>>

\* Faulty variant of TaggedWith: the hints are not asked.
TaggedAsCamera(p, new) == [m \in Media |-> IF m \in new THEN "camera" ELSE tin[p][m]]

\* The new medium takes the first hint, or is a camera ...
TaggedWith(p, new) ==
    [m \in Media |-> CASE m \notin new -> tin[p][m]
                       [] m \in new /\ hints[p] > 0 -> "screen"
                       [] OTHER -> "camera"]

\* ... and everyone else is to be offered it (MediaAdded).  to is tracks_out
\* before.
MediaAdded(p, media, to) ==
    LET new == media \ Published(p)
    IN  /\ tin' = [tin EXCEPT ![p] = TaggedWith(p, new)]
        /\ hints' = [hints EXCEPT ![p] = IF new # {} /\ @ > 0 THEN @ - 1 ELSE @]
        /\ tout' = [q \in Pid |-> [t \in Track |->
             IF q \in Others(p) /\ Origin(t) = p /\ t[2] \in new /\ to[q][t] = "none"
               THEN "toopen" ELSE to[q][t]]]
        /\ neg' = IF new = {} THEN neg ELSE neg \cup Others(p)

\* accept_offer: an offer that knows the m-lines ls is accepted and answered;
\* one that does not, or is of another client, may be refused instead.  hit is
\* whom the same command has disturbed already.
AcceptOffer(p, o, to, ls, hit) ==
    LET answer == [d \in Client |-> IF d = member[p] THEN <<Answer(o.media)>> ELSE <<>>]
    IN  \/ /\ MediaAdded(p, o.media, to)
           /\ WsTrySend(answer)
           /\ disturbed' = disturbed \cup hit \cup Losing(answer)
                             \cup ({member[p]} \ {o.from})
        \/ /\ o.from # member[p] \/ o.seen # ls
           /\ tout' = to
           /\ disturbed' = disturbed \cup hit
           /\ UNCHANGED <<tin, hints, neg, toClient>>

MustStash(p) == pend[p].on

\* handle_client_offer: while an answer is due the offer is stashed, the last
\* one only.
HandleClientOffer(c) ==
    LET p == PidOf[c]
        o == Head(toSfu[c]).offer
    IN  /\ Takes(c, "offer")
        /\ \/ /\ ~InRoom(p)
              /\ UNCHANGED <<tin, tout, hints, neg, queued, toClient, disturbed>>
           \/ /\ InRoom(p) /\ MustStash(p)
              /\ queued' = [queued EXCEPT ![p] = o]
              /\ UNCHANGED <<tin, tout, hints, neg, toClient, disturbed>>
           \/ /\ InRoom(p) /\ ~MustStash(p)
              /\ AcceptOffer(p, o, tout, lines[p], {})
              /\ UNCHANGED queued
        /\ UNCHANGED <<member, lines, fwd, pend, drops, clientVars>>

-----------------------------------------------------------------------------
(* Offers of the SFU.                                                      *)

\* negotiate_pending_tracks: all that waits in tracks_out, in one offer; who
\* still owes an answer stays in the set.
ToOpen(p) == {t \in Track : tout[p][t] = "toopen"}

Offering == {p \in neg : InRoom(p) /\ ~pend[p].on /\ ToOpen(p) # {}}

\* Faulty variant of Retrying: the set is emptied.
RetryingNone == {}

Retrying == {p \in neg : InRoom(p) /\ pend[p].on}

NegotiatePendingTracks ==
    /\ neg # {}
    /\ neg' = Retrying
    /\ tout' = [p \in Pid |-> [t \in Track |->
         IF p \in Offering /\ t \in ToOpen(p) THEN "negotiating" ELSE tout[p][t]]]
    /\ pend' = [p \in Pid |->
         IF p \in Offering THEN Outstanding(ToOpen(p), {}) ELSE pend[p]]
    /\ SendAll([c \in Client |->
         IF PidOf[c] \in Offering /\ member[PidOf[c]] = c
           THEN <<SfuOffer(lines[PidOf[c]] \cup ToOpen(PidOf[c]))>> ELSE <<>>], {})
    /\ UNCHANGED <<member, tin, lines, hints, fwd, queued, toSfu, drops, clientVars>>

\* accept_answer, which takes the pending offer whether it succeeds or not: all
\* that is negotiating is open, and forwarded from now on.  Another client's
\* answer may not fit.
AcceptAnswer(p, ok) ==
    /\ pend' = [pend EXCEPT ![p] = NoOffer]
    /\ lines' = IF ok THEN [lines EXCEPT ![p] = (@ \cup pend[p].add) \ pend[p].drop]
                      ELSE lines
    /\ fwd' = IF ok THEN fwd \cup {[track |-> t, to |-> p] :
                                     t \in {u \in Track : tout[p][u] = "negotiating"}}
                    ELSE fwd

ToutAnswered(p, ok) ==
    [tout EXCEPT ![p] = [t \in Track |->
       IF ok /\ @[t] = "negotiating" THEN "open" ELSE @[t]]]

\* handle_answer, and the client offer that was stashed meanwhile.
HandleAnswer(c) ==
    LET p == PidOf[c]
        stale == {member[p]} \ {c}
    IN  /\ Takes(c, "answer")
        /\ \/ /\ ~InRoom(p)
              /\ UNCHANGED <<tin, tout, lines, hints, neg, fwd, offerVars, toClient,
                             disturbed>>
           \/ /\ InRoom(p)
              /\ \E ok \in BOOLEAN :
                   /\ ok => pend[p].on
                   /\ pend[p].on /\ stale = {} => ok
                   /\ AcceptAnswer(p, ok)
                   /\ queued' = [queued EXCEPT ![p] = NoClientOffer]
                   /\ \/ /\ queued[p] # NoClientOffer
                         /\ AcceptOffer(p, queued[p], ToutAnswered(p, ok), lines'[p], stale)
                      \/ /\ queued[p] = NoClientOffer
                         /\ tout' = ToutAnswered(p, ok)
                         /\ disturbed' = disturbed \cup stale
                         /\ UNCHANGED <<tin, hints, neg, toClient>>
        /\ UNCHANGED <<member, drops, clientVars>>

-----------------------------------------------------------------------------
\* SfuPool::send: the shard's channel, which the packets of every call share,
\* is full.
DropCommand(c) ==
    /\ drops < MaxDrops
    /\ drops' = drops + 1
    /\ toSfu[c] # <<>>
    /\ toSfu' = [toSfu EXCEPT ![c] = Tail(@)]
    /\ disturbed' = disturbed \cup {c}
    /\ UNCHANGED <<roomVars, offerVars, toClient, clientVars>>

ClientStep(c) ==
    \/ ClientJoin(c) \/ ShareHint(c) \/ ShareOffer(c)
    \/ ClientAnswered(c) \/ ClientTakesOffer(c) \/ ClientAnswers(c)
    \/ ClientLeaves(c) \/ ClientForced(c)

ShardStep(c) ==
    \/ HandleJoin(c) \/ HandleLeave(c) \/ HandlePublishTrack(c)
    \/ HandleClientOffer(c) \/ HandleAnswer(c)

Next ==
    \/ \E c \in Client : ClientStep(c) \/ ShardStep(c) \/ DropCommand(c)
    \/ NegotiatePendingTracks
    \/ \E p \in Pid : Zombie(p)

Spec == Init /\ [][Next]_vars

-----------------------------------------------------------------------------
(* Properties.                                                             *)

TypeOK ==
    /\ member \in [Pid -> Client \cup {None}]
    /\ tin \in [Pid -> [Media -> {"none", "camera", "screen"}]]
    /\ tout \in [Pid -> [Track -> {"none", "toopen", "negotiating", "open"}]]
    /\ lines \in [Pid -> SUBSET Track]
    /\ pend \in [Pid -> [on : BOOLEAN, add : SUBSET Track, drop : SUBSET Track]]
    /\ queued \in [Pid -> Offer]
    /\ hints \in [Pid -> Nat]
    /\ neg \in SUBSET Pid
    /\ fwd \in SUBSET [track : Track, to : Pid]
    /\ toSfu \in [Client -> Seq(Command)]
    /\ toClient \in [Client -> Seq(Message)]
    /\ \A c \in Client : Len(toClient[c]) <= WsCap
    /\ drops \in 0..MaxDrops
    /\ cst \in [Client -> {"idle", "joining", "in", "left"}]
    /\ sig \in [Client -> {"stable", "have-local-offer", "have-remote-offer"}]
    /\ offered \in [Client -> SUBSET Media]
    /\ share \in [Client -> {"no", "hinted", "offered", "stopped"}]
    /\ deaf \in [Client -> BOOLEAN]
    /\ views \in [Client -> SUBSET Track]
    /\ disturbed \in SUBSET Client

\* forwarding_map, which every packet is looked up in, says what tracks_out of
\* the receivers says, and names only tracks that are published, however joins,
\* collisions, answers and leaves follow each other (session.rs:27).
ForwardingFollowsTracks ==
    /\ fwd = {f \in [track : Track, to : Pid] : tout[f.to][f.track] = "open"}
    /\ \A f \in fwd : InRoom(f.to) /\ f.track[2] \in Published(Origin(f.track))

\* A stashed client offer has an answer to wait for: whatever clears
\* pending_offer drains it (mod.rs:745-749).
StashedOfferWaits == \A p \in Pid : queued[p] # NoClientOffer => pend[p].on

\* Whatever somebody publishes is, for everyone else in the call, forwarded,
\* part of the offer under way, or due to be negotiated: no track is forgotten
\* because an offer was outstanding when it came (mod.rs negotiate_pending_tracks).
NoTrackForgotten ==
    \A p, q \in Pid : \A m \in Published(q) :
      InRoom(p) /\ p # q =>
        LET t == <<q, m>>
        IN  \/ tout[p][t] = "open"
            \/ tout[p][t] = "toopen" /\ p \in neg
            \/ tout[p][t] = "negotiating" /\ (t \in pend[p].add \/ member[p] \in disturbed)

Count(s, op) == Cardinality({i \in DOMAIN s : s[i].op = op})

\* The SFU waits for an answer exactly while an offer of its is on the way to
\* the client, being answered, or answered and on the way back; never for two.
OneOfferUnderWay ==
    \A p \in Pid : LET c == member[p] IN
      InRoom(p) /\ c \notin disturbed /\ Listening(c) =>
        Count(toClient[c], "offer") + Count(toSfu[c], "answer")
          + (IF sig[c] = "have-remote-offer" THEN 1 ELSE 0)
        = (IF pend[p].on THEN 1 ELSE 0)

\* The SFU's own records of a negotiation agree with each other and with what
\* is on the wires: forwarding, stashed offers and outstanding offers (mod.rs
\* handle_client_offer, handle_answer, handle_leave).
NegotiationConsistent ==
    ForwardingFollowsTracks /\ StashedOfferWaits /\ OneOfferUnderWay

\* Nothing of p's is under way.
AtRest(p) ==
    /\ InRoom(p) /\ Listening(member[p]) /\ p \notin neg /\ ~pend[p].on
    /\ toSfu[member[p]] = <<>> /\ toClient[member[p]] = <<>>
    /\ sig[member[p]] = "stable"

\* Two participants whose offers never crossed and who lost nothing see, when
\* nothing is under way, all that the other offers, and a screen as a screen.
EveryoneIsSeen ==
    \A p, q \in Pid :
      p # q /\ AtRest(p) /\ AtRest(q) /\ {member[p], member[q]} \cap disturbed = {}
      => /\ \A m \in offered[member[q]] :
              /\ <<q, m>> \in views[member[p]]
              /\ [track |-> <<q, m>>, to |-> p] \in fwd
              /\ tin[q][m] = (IF m = "cam" THEN "camera" ELSE "screen")
         /\ ~deaf[member[p]]
=============================================================================
