----------------------------- MODULE ChatView -----------------------------
(***************************************************************************)
(* One text channel as one browser shows it: the ChatProvider of           *)
(* frontend/contexts/chat-context.tsx, the composer of                     *)
(* components/hub/text-channel-view.tsx with its uploads                   *)
(* (hooks/use-attachment-upload.ts) and the REST calls of                  *)
(* packages/sdk-chat, against the message handlers of services/chat.       *)
(*                                                                         *)
(* The provider keeps a map entry per channel and, but for its teardown,   *)
(* no handler touches two of them, so one channel is modelled; other       *)
(* authors are one peer.  A state update and the effects it causes are one *)
(* step: React runs them before the next event of the page.  The pipeline  *)
(* of the gateway (module ChatGateway) is a list of events and how much of *)
(* it the browser was given.                                               *)
(***************************************************************************)
EXTENDS Naturals, FiniteSets, Sequences, SequencesExt, Lists

CONSTANTS
    File,         \* files the user may attach
    MaxOwn,       \* bound: messages the user writes
    MaxLives,     \* bound: ChatClients made, one per access token
    Bounds,       \* what a behaviour may hold of the rest, several choices
    None

\* foreign: messages of others; changes: edits and deletions; files: attached;
\* posts: POSTs of messages, retries included; loads: GETs of the history;
\* drops: WebSockets lost; syncs: lives whose start-up is answered; chatty:
\* typing indicators of the peer.
BoundKinds ==
    [own : 0..MaxOwn, foreign : Nat, changes : Nat, files : SUBSET File,
     posts : Nat, loads : Nat, lives : 1..MaxLives, drops : Nat,
     syncs : 0..MaxLives, chatty : BOOLEAN]

ASSUME BoundsAssumption ==
    MaxOwn \in Nat /\ MaxLives \in Nat \ {0} /\ Bounds \subseteq BoundKinds

Entries == [id : Nat, cid : 0..MaxOwn, status : {"sent", "sending", "failed"},
            edited : BOOLEAN]
Badges == [last : Nat, unread : Nat]

\* undefined is neither a list nor a count.
ASSUME NoneAssumption == None \notin Seq(Entries) /\ None \notin Badges

VARIABLES
    bound,        \* the member of Bounds this behaviour keeps to
    log,          \* rows of the channel by age: author's client_id, edited?,
                  \* deleted?
    events,       \* dispatches for this channel: its kind, its row
    idem,         \* client_ids with an idempotency key
    readPos,      \* last_read_message_id of the user, 0 for no row
    acks,         \* POST /ack under way
    posts,        \* POST /messages: client_id, the server's and client's ends
    loads,        \* GET /messages: asked, read (with the rows) or over
    conn,         \* WebSocket of the client: new, down or up
    drops,        \* how often it was lost
    delivered,    \* events handed to this browser or lost to it
    lives,        \* ChatClients made so far
    list,         \* messagesByChannel: entries oldest first, None if undefined
    loading, loaded,   \* loadingHistoryFor, loadedHistoryFor
    payload,      \* pendingPayload
    badge,        \* unreadByChannel: last read id and count, None if no row
    active,       \* is activeChannelId this channel?
    backfill,     \* of each life: where its /read-states and /sync have got to
    typing,       \* typingByChannel: is the peer shown as typing?
    timer,        \* typingTimers: does a timeout run for him?
    hushed,       \* did he write less than 2 s ago? (lastMessageAt)
    uploads,      \* the composer's files
    awaiting,     \* POST that handleSend awaits, 0 for none
    filesOf,      \* attachments of each message written
    clean,        \* history: rows that came live, list at hand, no load about
    missed        \* history: live messages of others since the last reset of
                  \* the count, the channel not active

serverVars == <<log, events, idem, readPos>>
linkVars == <<conn, drops, delivered>>
listVars == <<list, loading, loaded, payload, clean>>
typingVars == <<typing, timer, hushed>>
unreadVars == <<badge, missed, acks>>
composerVars == <<uploads, awaiting, filesOf>>
vars == <<serverVars, linkVars, listVars, typingVars, unreadVars, composerVars,
          posts, loads, lives, active, backfill, bound>>

-----------------------------------------------------------------------------
(* Ids and entries.                                                        *)

Own == 1..MaxOwn                       \* client_ids, in the order of writing
Foreign == 0                           \* "client_id" of everybody else's rows

\* Ids of rows are even; a synthetic id is past every row there is and before
\* the next one: the clocks of browser and service agree.
IdOf(row) == 2 * row
syntheticMessageId == 2 * Len(log) + 1

Row(cid) == [cid |-> cid, edited |-> FALSE, gone |-> FALSE]
Entry(id, cid, status, edited) ==
    [id |-> id, cid |-> cid, status |-> status, edited |-> edited]

\* The history as the service has it now (the channel is shorter than a page).
Rows ==
    Filtered([r \in DOMAIN log |-> Entry(IdOf(r), log[r].cid, "sent", log[r].edited)],
             {r \in DOMAIN log : ~log[r].gone})

Max2(m, n) == IF m < n THEN n ELSE m
Newest(entries) == entries[Len(entries)].id

\* First entry of a client_id, 0 if there is none (findIndex).
IndexOf(cid) ==
    IF list = None \/ cid = Foreign
    THEN 0
    ELSE SelectInSeq(list, LAMBDA e : e.cid = cid)

OwnRow(row) == log[row].cid # Foreign

\* Entries that show a row: under its id, or as its author's own copy.
Shows(e, row) == e.id = IdOf(row) \/ (OwnRow(row) /\ e.cid = log[row].cid)
Showing(row) == IF list = None THEN {} ELSE {n \in DOMAIN list : Shows(list[n], row)}

Quiet == \A n \in DOMAIN loads : loads[n].st = "over"

Init ==
    /\ bound \in Bounds
    /\ log = <<>> /\ events = <<>> /\ idem = {} /\ readPos = 0 /\ acks = {}
    /\ posts = <<>> /\ loads = <<>>
    /\ conn = "new" /\ drops = 0 /\ delivered = 0 /\ lives = 1
    /\ list = None /\ loading = FALSE /\ loaded = FALSE /\ payload = {}
    /\ badge = None /\ active = FALSE
    /\ backfill = [g \in 1..MaxLives |->
                     [st |-> IF g = 1 /\ bound.syncs > 0 THEN "asked" ELSE "none",
                      n |-> 0]]
    /\ typing = FALSE /\ timer = FALSE /\ hushed = FALSE
    /\ uploads = [f \in File |-> "absent"]
    /\ awaiting = 0
    /\ filesOf = [c \in Own |-> {}]
    /\ clean = {} /\ missed = 0

-----------------------------------------------------------------------------
(* Unread count and read position.                                         *)

\* ackUpTo: nothing if that much is read and nothing counted; else the service
\* is told and the count starts again.
NothingToAck(id) == badge # None /\ badge.last >= id /\ badge.unread = 0
Advance(id) ==
    [last |-> IF badge = None THEN id ELSE Max2(badge.last, id), unread |-> 0]
ackUpTo(id) ==
    /\ missed' = 0
    /\ IF NothingToAck(id)
       THEN UNCHANGED <<badge, acks>>
       ELSE /\ acks' = acks \cup {id}
            /\ badge' = Advance(id)

\* The acknowledgement reaches the service, which overwrites what it has.
AckArrives ==
    \E id \in acks :
      /\ acks' = acks \ {id}
      /\ readPos' = id
      /\ UNCHANGED <<log, events, idem, linkVars, listVars, typingVars, badge,
                     missed, composerVars, posts, loads, lives, active, backfill>>

\* The provider's start-up reads the positions, and asks for what came after.
ReadStatesAnswered(g) ==
    /\ backfill[g].st = "asked"
    /\ \/ /\ readPos # 0
          /\ badge' = [last |-> IF badge = None THEN readPos
                                ELSE Max2(badge.last, readPos),
                       unread |-> IF badge = None THEN 0 ELSE badge.unread]
          /\ backfill' = [backfill EXCEPT ![g] = [st |-> "syncing", n |-> readPos]]
       \/ /\ backfill' = [backfill EXCEPT ![g] = [st |-> "over", n |-> 0]]
          /\ UNCHANGED badge
    /\ UNCHANGED <<serverVars, linkVars, listVars, typingVars, missed, acks,
                   composerVars, posts, loads, lives, active>>

\* /sync reads the channel after the position the browser sent.
SyncReads(g) ==
    /\ backfill[g].st = "syncing"
    /\ LET later == {r \in DOMAIN log : /\ IdOf(r) > backfill[g].n
                                        /\ ~log[r].gone /\ log[r].cid = Foreign}
       IN  backfill' = [backfill EXCEPT ![g] =
                          [st |-> "counted", n |-> Cardinality(later)]]
    /\ UNCHANGED <<serverVars, linkVars, listVars, typingVars, unreadVars,
                   composerVars, posts, loads, lives, active>>

\* Faulty variant of Backfilled: the answer replaces the count.
ReplacedBackfill(count) == [badge EXCEPT !.unread = count]

\* Its answer counts only if it is more than what was counted live.
Backfilled(count) == [badge EXCEPT !.unread = Max2(@, count)]
SyncAnswered(g) ==
    /\ backfill[g].st = "counted"
    /\ badge' = IF badge = None THEN None ELSE Backfilled(backfill[g].n)
    /\ backfill' = [backfill EXCEPT ![g] = [st |-> "over", n |-> 0]]
    /\ UNCHANGED <<serverVars, linkVars, listVars, typingVars, missed, acks,
                   composerVars, posts, loads, lives, active>>

BackfillFails(g) ==
    /\ backfill[g].st \in {"asked", "syncing", "counted"}
    /\ backfill' = [backfill EXCEPT ![g] = [st |-> "over", n |-> 0]]
    /\ UNCHANGED <<serverVars, linkVars, listVars, typingVars, unreadVars,
                   composerVars, posts, loads, lives, active>>

-----------------------------------------------------------------------------
(* What others do to the channel.                                          *)

ForeignWrite ==
    /\ Cardinality({r \in DOMAIN log : log[r].cid = Foreign}) < bound.foreign
    /\ log' = Append(log, Row(Foreign))
    /\ events' = Append(events, [kind |-> "new", row |-> Len(log) + 1])
    /\ UNCHANGED <<idem, readPos, linkVars, listVars, typingVars, unreadVars,
                   composerVars, posts, loads, lives, active, backfill>>

\* An edit (a finished transcode is one too) or a deletion.
Change(row, kind) ==
    /\ Cardinality({n \in DOMAIN events : events[n].kind # "new"}) < bound.changes
    /\ ~log[row].gone
    /\ \E n \in DOMAIN events : events[n].row = row
    /\ log' = IF kind = "deleted" THEN [log EXCEPT ![row].gone = TRUE]
              ELSE [log EXCEPT ![row].edited = TRUE]
    /\ events' = Append(events, [kind |-> kind, row |-> row])
    /\ UNCHANGED <<idem, readPos, linkVars, listVars, typingVars, unreadVars,
                   composerVars, posts, loads, lives, active, backfill>>

-----------------------------------------------------------------------------
(* POST /messages at the service.                                          *)

Answer(i, st) == posts' = [posts EXCEPT ![i].srv = st]

\* Forbidden, empty, rate limited, or the database fails.
PostRefused(i) ==
    /\ posts[i].srv \in {"arriving", "checked"}
    /\ Answer(i, "refused")
    /\ UNCHANGED <<serverVars, linkVars, listVars, typingVars, unreadVars,
                   composerVars, loads, lives, active, backfill>>

\* Faulty variant of CheckKey: the key is not looked up.
CheckNothing(i) ==
    /\ posts[i].srv = "arriving"
    /\ Answer(i, "checked")
    /\ UNCHANGED <<serverVars, linkVars, listVars, typingVars, unreadVars,
                   composerVars, loads, lives, active, backfill>>

\* The client_id was seen before: the old id is answered, nothing is written.
CheckKey(i) ==
    /\ posts[i].srv = "arriving"
    /\ Answer(i, IF posts[i].cid \in idem THEN "answered" ELSE "checked")
    /\ UNCHANGED <<serverVars, linkVars, listVars, typingVars, unreadVars,
                   composerVars, loads, lives, active, backfill>>

WriteMessage(i) ==
    /\ posts[i].srv = "checked"
    /\ posts' = [posts EXCEPT ![i].srv = "written", ![i].row = Len(log) + 1]
    /\ log' = Append(log, Row(posts[i].cid))
    /\ UNCHANGED <<events, idem, readPos, linkVars, listVars, typingVars,
                   unreadVars, composerVars, loads, lives, active, backfill>>

StoreKeyAndPublish(i) ==
    /\ posts[i].srv = "written"
    /\ Answer(i, "answered")
    /\ idem' = idem \cup {posts[i].cid}
    /\ events' = Append(events, [kind |-> "new", row |-> posts[i].row])
    /\ UNCHANGED <<log, readPos, linkVars, listVars, typingVars, unreadVars,
                   composerVars, loads, lives, active, backfill>>

-----------------------------------------------------------------------------
(* Writing: the composer and the optimistic copy.                          *)

hasInFlight == \E f \in File : uploads[f] = "uploading"
readyAttachments == {f \in File : uploads[f] = "done"}
clearAll == uploads' = [f \in File |-> "absent"]

\* Dropped on the channel, pasted or chosen; each upload starts at once.
Chosen(f) == active /\ f \in bound.files
AddFile(f) ==
    /\ uploads[f] = "absent" /\ Chosen(f)
    /\ \A c \in Own : f \notin filesOf[c]
    /\ uploads' = [uploads EXCEPT ![f] = "uploading"]
    /\ UNCHANGED <<serverVars, linkVars, listVars, typingVars, unreadVars,
                   awaiting, filesOf, posts, loads, lives, active, backfill>>

UploadEnds(f, st) ==
    /\ uploads[f] = "uploading"
    /\ uploads' = [uploads EXCEPT ![f] = st]
    /\ UNCHANGED <<serverVars, linkVars, listVars, typingVars, unreadVars,
                   awaiting, filesOf, posts, loads, lives, active, backfill>>

AbortUpload(f) ==
    /\ uploads[f] # "absent"
    /\ uploads' = [uploads EXCEPT ![f] = "absent"]
    /\ UNCHANGED <<serverVars, linkVars, listVars, typingVars, unreadVars,
                   awaiting, filesOf, posts, loads, lives, active, backfill>>

Written == Cardinality({c \in Own : \E i \in DOMAIN posts : posts[i].cid = c})
NewPost(cid) == [cid |-> cid, srv |-> "arriving", cli |-> "waiting", row |-> 0]

\* The composer is enabled.
Writable == active /\ conn = "up"

\* Faulty variant of MaySend: the button is not disabled while sending.
MaySendTwice == ~hasInFlight

MaySend == awaiting = 0 /\ ~hasInFlight

\* handleSend and sendMessage up to the await: the message has a text, or
\* files that are up.
Send ==
    /\ Writable /\ MaySend
    /\ Written < bound.own /\ Len(posts) < bound.posts
    /\ LET cid == Written + 1
           own == Entry(syntheticMessageId, cid, "sending", FALSE)
       IN  /\ payload' = payload \cup {cid}
           /\ list' = IF list = None THEN <<own>> ELSE Append(list, own)
           /\ posts' = Append(posts, NewPost(cid))
           /\ filesOf' = [filesOf EXCEPT ![cid] = readyAttachments]
           /\ awaiting' = Len(posts) + 1
    /\ UNCHANGED <<serverVars, linkVars, loading, loaded, clean, typingVars,
                   unreadVars, uploads, loads, lives, active, backfill>>

\* The await of handleSend ends with the request, whatever its outcome.
ComposerReleased(i) ==
    IF awaiting = i THEN awaiting' = 0 /\ clearAll
    ELSE UNCHANGED <<awaiting, uploads>>

PostSucceeds(i) ==
    /\ posts[i].cli = "waiting" /\ posts[i].srv = "answered"
    /\ posts' = [posts EXCEPT ![i].cli = "over"]
    /\ ComposerReleased(i)
    /\ UNCHANGED <<serverVars, linkVars, listVars, typingVars, unreadVars,
                   filesOf, loads, lives, active, backfill>>

\* An error answer, or none: the entry of the client_id is marked failed, be it
\* confirmed or not.  After a 401 it is left as it is.
PostFails(i) ==
    /\ posts[i].cli = "waiting"
    /\ posts' = [posts EXCEPT ![i].cli = "over"]
    /\ LET at == IndexOf(posts[i].cid)
       IN  \/ list' = IF at = 0 THEN list
                      ELSE [list EXCEPT ![at].status = "failed"]
           \/ posts[i].srv = "refused" /\ UNCHANGED list
    /\ ComposerReleased(i)
    /\ UNCHANGED <<serverVars, linkVars, loading, loaded, payload, clean,
                   typingVars, unreadVars, filesOf, loads, lives, active, backfill>>

Offered(cid) ==      \* is there a retry and a cancel button for it?
    active /\ list # None
      /\ \E n \in DOMAIN list : list[n].cid = cid /\ list[n].status = "failed"

KeepPayload(cid) == payload

\* retryMessage: to the end of the list, and the same client_id again.
Retry(cid) ==
    /\ Offered(cid) /\ cid \in payload
    /\ Len(posts) < bound.posts
    /\ LET at == IndexOf(cid)
       IN  list' = Append(RemoveAt(list, at), [list[at] EXCEPT !.status = "sending"])
    /\ payload' = KeepPayload(cid)
    /\ posts' = Append(posts, NewPost(cid))
    /\ UNCHANGED <<serverVars, linkVars, loading, loaded, clean, typingVars,
                   unreadVars, composerVars, loads, lives, active, backfill>>

Cancel(cid) ==
    /\ Offered(cid)
    /\ payload' = payload \ {cid}
    /\ list' = Filtered(list, {n \in DOMAIN list : list[n].cid # cid})
    /\ clean' = {r \in clean : log[r].cid # cid}
    /\ UNCHANGED <<serverVars, linkVars, loading, loaded, typingVars, unreadVars,
                   composerVars, posts, loads, lives, active, backfill>>

-----------------------------------------------------------------------------
(* Events of the gateway.                                                  *)

\* Faulty variant of Received: the writer's own copy stays.
AppendedOnly(row) ==
    IF list = None THEN None
    ELSE Append(list, Entry(IdOf(row), log[row].cid, "sent", FALSE))

\* An entry of the same client_id gives way to the message; it comes last.
Received(row) ==
    LET msg == Entry(IdOf(row), log[row].cid, "sent", FALSE)
        at == IndexOf(log[row].cid)
    IN  IF list = None THEN None
        ELSE IF at # 0 THEN Append(RemoveAt(list, at), msg)
        ELSE Append(list, msg)

\* For the history: the list was there, no load was about to replace it, and
\* nothing in it showed the message but one copy of the writer's own.
CameClean(row) ==
    /\ list # None /\ Quiet
    /\ \A n \in Showing(row) : list[n].id # IdOf(row)
    /\ Cardinality(Showing(row)) <= 1

\* Faulty variant of StopTyping: the indicator outlives its timer.
ClearTimer == timer' = FALSE /\ UNCHANGED typing

StopTyping == timer' = FALSE /\ typing' = FALSE
CountLive ==
    IF badge = None THEN [last |-> 0, unread |-> 1] ELSE [badge EXCEPT !.unread = @ + 1]

messageNew(row) ==
    /\ list' = Received(row)
    /\ payload' = payload \ {log[row].cid}
    /\ clean' = IF CameClean(row) THEN clean \cup {row} ELSE clean
    /\ IF OwnRow(row)
       THEN /\ badge' = Advance(IdOf(row))      \* mine, and the service not told
            /\ missed' = 0
            /\ UNCHANGED <<acks, typingVars>>
       ELSE /\ StopTyping /\ hushed' = bound.chatty
            /\ IF active
               THEN ackUpTo(IdOf(row))
               ELSE /\ badge' = CountLive
                    /\ missed' = missed + 1
                    /\ UNCHANGED acks

messageChanged(e) ==
    /\ list' = IF list = None THEN None
               ELSE IF e.kind = "deleted"
               THEN Filtered(list, {n \in DOMAIN list : list[n].id # IdOf(e.row)})
               ELSE [n \in DOMAIN list |->
                       IF list[n].id = IdOf(e.row)
                       THEN [list[n] EXCEPT !.edited = TRUE] ELSE list[n]]
    /\ clean' = IF e.kind = "deleted"
                THEN {r \in clean : r # e.row /\ ~(OwnRow(r) /\ log[r].cid = log[e.row].cid)}
                ELSE clean
    /\ UNCHANGED <<payload, typingVars, unreadVars>>

Deliver ==
    /\ conn = "up" /\ delivered < Len(events)
    /\ LET e == events[delivered + 1]
       IN  IF e.kind = "new" THEN messageNew(e.row) ELSE messageChanged(e)
    /\ delivered' = delivered + 1
    /\ UNCHANGED <<serverVars, conn, drops, loading, loaded, composerVars, posts,
                   loads, lives, active, backfill>>

\* Typing indicators are not numbered and not kept.
TypingStart ==
    /\ bound.chatty /\ conn = "up" /\ ~hushed
    /\ typing' = TRUE /\ timer' = TRUE
    /\ UNCHANGED <<serverVars, linkVars, listVars, hushed, unreadVars,
                   composerVars, posts, loads, lives, active, backfill>>
TypingTimeout ==
    /\ timer
    /\ typing' = FALSE /\ timer' = FALSE
    /\ UNCHANGED <<serverVars, linkVars, listVars, hushed, unreadVars,
                   composerVars, posts, loads, lives, active, backfill>>
HushEnds ==
    /\ hushed /\ hushed' = FALSE
    /\ UNCHANGED <<serverVars, linkVars, listVars, typing, timer, unreadVars,
                   composerVars, posts, loads, lives, active, backfill>>

-----------------------------------------------------------------------------
(* The history, and the channel in view.                                   *)

NewLoad == Append(loads, [st |-> "asked", rows |-> <<>>])
MustLoad == ~loaded /\ ~loading
AskHistory ==
    IF MustLoad /\ Len(loads) < bound.loads
    THEN loading' = TRUE /\ loads' = NewLoad
    ELSE UNCHANGED <<loading, loads>>

\* ensureHistory runs again whenever the provider has changed.
ensureHistory ==
    /\ active /\ MustLoad /\ Len(loads) < bound.loads
    /\ AskHistory
    /\ UNCHANGED <<serverVars, linkVars, list, loaded, payload, clean, typingVars,
                   unreadVars, composerVars, posts, lives, active, backfill>>

HistoryRead(n) ==
    /\ loads[n].st = "asked"
    /\ loads' = [loads EXCEPT ![n] = [st |-> "read", rows |-> Rows]]
    /\ UNCHANGED <<serverVars, linkVars, listVars, typingVars, unreadVars,
                   composerVars, posts, lives, active, backfill>>

\* The answer replaces what is shown, except the copies not confirmed yet.
Pending ==
    IF list = None THEN <<>>
    ELSE Filtered(list, {n \in DOMAIN list : list[n].status # "sent"})
HistoryAnswered(n) ==
    /\ loads[n].st = "read"
    /\ loads' = [loads EXCEPT ![n] = [st |-> "over", rows |-> <<>>]]
    /\ loaded' = TRUE /\ loading' = FALSE
    /\ LET rows == loads[n].rows
           unseen == {p \in DOMAIN Pending :
                       \A k \in DOMAIN rows : rows[k].id # Pending[p].id}
           behind == rows # <<>> /\ (badge = None \/ badge.last < Newest(rows))
       IN  /\ list' = rows \o Filtered(Pending, unseen)
           /\ IF active /\ behind THEN ackUpTo(Newest(rows)) ELSE UNCHANGED unreadVars
    /\ clean' = {}
    /\ UNCHANGED <<serverVars, linkVars, payload, typingVars, composerVars, posts,
                   lives, active, backfill>>

HistoryFails(n) ==
    /\ loads[n].st \in {"asked", "read"}
    /\ loads' = [loads EXCEPT ![n] = [st |-> "over", rows |-> <<>>]]
    /\ loading' = FALSE
    /\ UNCHANGED <<serverVars, linkVars, list, loaded, payload, clean, typingVars,
                   unreadVars, composerVars, posts, lives, active, backfill>>

\* The user enters the channel: what is loaded of it is read.
Enter ==
    /\ ~active
    /\ active' = TRUE
    /\ AskHistory
    /\ IF list = None \/ list = <<>>
       THEN UNCHANGED unreadVars
       ELSE IF badge = None \/ badge.last < Newest(list)
       THEN ackUpTo(Newest(list))
       ELSE badge' = [badge EXCEPT !.unread = 0] /\ missed' = 0 /\ UNCHANGED acks
    /\ UNCHANGED <<serverVars, linkVars, list, loaded, payload, clean, typingVars,
                   composerVars, posts, lives, backfill>>

\* The composer is unmounted with the view: by entering another channel, or,
\* the channel staying the active one, by a call that begins or ends and by
\* collapsing the chat.
Unmount ==
    /\ active
    /\ active' \in BOOLEAN
    /\ clearAll /\ awaiting' = 0
    /\ UNCHANGED <<serverVars, linkVars, listVars, typingVars, unreadVars, filesOf,
                   posts, loads, lives, backfill>>

-----------------------------------------------------------------------------
(* The connection and the life of the provider's client.                   *)

\* READY: a new session hears what is published from now on.
Identified ==
    /\ conn \in {"new", "down"}
    /\ conn' = "up" /\ delivered' = Len(events)
    /\ UNCHANGED <<serverVars, drops, listVars, typingVars, unreadVars, composerVars,
                   posts, loads, lives, active, backfill>>

\* RESUMED: the session goes on where it was.
Resumed ==
    /\ conn = "down" /\ conn' = "up"
    /\ UNCHANGED <<serverVars, drops, delivered, listVars, typingVars, unreadVars,
                   composerVars, posts, loads, lives, active, backfill>>

Lost ==
    /\ conn = "up" /\ drops < bound.drops
    /\ conn' = "down" /\ drops' = drops + 1
    /\ UNCHANGED <<serverVars, delivered, listVars, typingVars, unreadVars,
                   composerVars, posts, loads, lives, active, backfill>>

\* A new access token tears the provider down and makes another client; the
\* requests of the old one are not aborted.
NewToken ==
    /\ lives < bound.lives
    /\ lives' = lives + 1
    /\ conn' = "new"
    /\ list' = None /\ loading' = FALSE /\ loaded' = FALSE /\ payload' = {}
    /\ typing' = FALSE /\ timer' = FALSE /\ hushed' = FALSE
    /\ badge' = None
    /\ clean' = {} /\ missed' = 0
    /\ backfill' = IF lives < bound.syncs
                   THEN [backfill EXCEPT ![lives + 1] = [st |-> "asked", n |-> 0]]
                   ELSE backfill
    /\ UNCHANGED <<serverVars, drops, delivered, acks, composerVars, posts, loads,
                   active>>

Step ==
    \/ AckArrives \/ ForeignWrite \/ Send \/ Deliver
    \/ TypingStart \/ TypingTimeout \/ HushEnds
    \/ ensureHistory \/ Enter \/ Unmount
    \/ Identified \/ Resumed \/ Lost \/ NewToken
    \/ \E g \in 1..MaxLives :
         ReadStatesAnswered(g) \/ SyncReads(g) \/ SyncAnswered(g) \/ BackfillFails(g)
    \/ \E row \in DOMAIN log : \E kind \in {"edited", "deleted"} : Change(row, kind)
    \/ \E i \in DOMAIN posts :
         \/ PostRefused(i) \/ CheckKey(i) \/ WriteMessage(i) \/ StoreKeyAndPublish(i)
         \/ PostSucceeds(i) \/ PostFails(i)
    \/ \E f \in File :
         \/ AddFile(f) \/ AbortUpload(f)
         \/ \E st \in {"done", "error"} : UploadEnds(f, st)
    \/ \E cid \in Own : Retry(cid) \/ Cancel(cid)
    \/ \E n \in DOMAIN loads : HistoryRead(n) \/ HistoryAnswered(n) \/ HistoryFails(n)

Next == Step /\ UNCHANGED bound

Spec == Init /\ [][Next]_vars

-----------------------------------------------------------------------------
(* Properties.                                                             *)

\* The types of the variables.
TypeOK ==
    /\ log \in Seq([cid : 0..MaxOwn, edited : BOOLEAN, gone : BOOLEAN])
    /\ events \in Seq([kind : {"new", "edited", "deleted"}, row : DOMAIN log])
    /\ idem \subseteq Own /\ payload \subseteq Own
    /\ conn \in {"new", "up", "down"} /\ delivered \in 0..Len(events)
    /\ list = None \/ list \in Seq(Entries)
    /\ badge = None \/ badge \in Badges
    /\ uploads \in [File -> {"absent", "uploading", "done", "error"}]
    /\ awaiting \in 0..Len(posts)
    /\ filesOf \in [Own -> SUBSET File]
    /\ clean \subseteq DOMAIN log

\* A message that came while the list was settled is shown once, however it
\* crosses with the answers, the retries and the echo of the writer's own copy,
\* until it is deleted or its writer takes it away (message.new, doSend,
\* retryMessage).
LiveShownOnce == \A row \in clean : Cardinality(Showing(row)) = 1

\* What the user wrote is not lost: a message marked failed that the service
\* does not have can be sent again, and a file goes out with one message only
\* (pendingPayload, handleSend).
NothingWrittenIsLost ==
    /\ list # None =>
         \A n \in DOMAIN list :
           list[n].status = "failed" =>
             \/ list[n].cid \in payload
             \/ \E row \in DOMAIN log : log[row].cid = list[n].cid
    /\ \A c, d \in Own : c # d => filesOf[c] \cap filesOf[d] = {}

\* Once a POST of a message has been through, no other POST of it writes it
\* again unless it was past the check by then (check_idempotency).
RetryWritesOnce ==
    [][\A i \in DOMAIN posts :
         posts[i].srv = "arriving" /\ posts'[i].srv # "arriving"
           /\ posts[i].cid \in idem
         => posts'[i].srv \in {"answered", "refused"}]_vars

\* The count is never below the messages that came live to a channel that was
\* not in view, whatever the start-up's answers bring meanwhile.
LiveUnreadCounted == missed > 0 => badge # None /\ badge.unread >= missed

\* A peer shown as typing has a timeout that ends it.
TypingEnds == typing => timer
=============================================================================
