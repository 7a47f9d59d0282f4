# MateHub: models and proofs

TLA+ models of MateHub, a chat and voice platform: Rust services (`services/`),
a shared Rust library and two TypeScript SDKs (`packages/`), a web client
(`frontend/`). Paths below are relative to the repository's root. The models
are written from the code; comments name the functions they translate.

## 1. The system

| Part | State | Operations | Talks to |
|---|---|---|---|
| Chat gateway (`services/chat/src/gateway.rs`, `session.rs`, reaper in `main.rs`) | sessions with a replay buffer of numbered events, `last_seq`, time of disconnect; per connection a handler task, an outgoing channel, a NATS subscription | IDENTIFY, RESUME with replay, dispatch, heartbeat deadline, cleanup, reaping | NATS `hub.{id}.channel.>`, Chat SDK |
| Chat SDK (`packages/sdk-chat`) | connection state, session id, last seq, timers | connect, resume, reconnect with back-off, heartbeats | gateway |
| Chat messages (`services/chat/src/api.rs`, `data_service.rs`, `fanout.rs`) | messages in ScyllaDB by channel and time bucket, idempotency keys in Redis | send, edit, delete, history, `read_since` | NATS, access control |
| Access control (`services/chat/src/access.rs`, `acl_consumer.rs`; `services/hub/src/acl_publish.rs`) | 30 s cache of permissions | read-through fill, invalidation | hub database, NATS |
| Read state (`services/chat/src/read_state.rs`) | last read message per user and channel | acknowledge, unread counts | ScyllaDB |
| Direct calls (`services/chat/src/dm_calls.rs`) | none on the server: rings are published | ring, accept, decline, cancel | NATS |
| Attachments and transcoding (`services/chat/src/attachment*.rs`, `transcode.rs`, `services/transcoder`) | upload slots, jobs and results on JetStream, attachment records in messages | request, complete, transcode, apply result | JetStream, object store |
| Video sessions (`services/video/src/api/sessions.rs`, `ws.rs`, `state.rs`) | map of sessions, index channel -> session, slot of each participant | POST /sessions, WebSocket handler, watchdog, cleanup | SFU shards, NATS `voice.*` |
| SFU (`services/video/src/sfu`) | participants, tracks, negotiation state, zombies | Join, Leave, offers and answers, forwarding, tick | WebSocket handlers, UDP |
| Video SDK (`packages/sdk-video`) | peer connection, tracks | join, publish, mute, disconnect | video service |
| Hub voice buses (`services/hub/src/voice_occupancy_bus.rs`, `voice_mute_bus.rs`) | Redis hashes `voice_occupancy`, `voice_mute` | apply messages in order | NATS, presence WebSocket |
| Hub presence (`services/hub/src/presence.rs`, `api/presence_ws.rs`) | online keys in Redis, broadcast of hub events | set, refresh, clear, subscribe | Redis |
| Hub membership (`services/hub/src/api/invite_links.rs`, `invitations.rs`, `temp_users.rs`, `members.rs`, `groups.rs`, `permissions.rs`, `dms.rs`, `sso.rs`) | Postgres tables | create, redeem, accept, revoke, kick, grant | Postgres, NATS |
| General service (`services/general`) | accounts, hubs, `mail_outbox` | signup, verification, SSO, provisioning, mail worker | Postgres, mail provider, hub service |
| Shared library (`packages/common-rust`) | snowflake generator, storage, permission bits | | |
| Chat of the web client (`frontend/contexts/chat-context.tsx`, `components/hub/text-channel-view.tsx`, `hooks/use-attachment-upload.ts`) | messages, unread counts and typing by channel; optimistic copies; the composer and its files | load history, send, retry, cancel, edit, delete, acknowledge, upload | Chat SDK, chat REST API |
| Calls of the web client (`contexts/video-call-context.tsx`, `incoming-call-context.tsx`, `hooks/use-video-client.ts`) | the call shown, its client, the direct call, the ring, participants and tracks | join, leave, switch, be kicked, start, accept, refuse, capture, mute | Video SDK, video and chat REST APIs, gateway events |
| Invitations dialog (`components/hub/add-teammates-dialog.tsx`, `hooks/use-permissions.ts`) | groups and rank as loaded, the mounted form with its pick and its link | open, switch tabs, pick a group, ask for a link, a guest pass or an invitation | hub membership |
| Call screen (`components/hub/video-workspace/`, `hooks/use-tile-audio.ts`, `use-participant-volume.ts`) | layout, page, spotlight, volumes, menus | page, pin, mute or amplify somebody, deafen | call context |
| Session of the web client (`lib/auth.tsx`, sign-in, set-up, invitation and guest pages) | session in React and in localStorage, refresh timer | restore, renew, refuse, sign in and out | hub authentication |
| Channel list (`contexts/channels-context.tsx`, `nav-channels.tsx`, `channel-editor.tsx`), roster (`hooks/use-members.ts`, `use-pending-invites.ts`, cards and dialogs), roles, settings and profile (`groups-roles-dialog.tsx`, `hub-settings-dialog.tsx`, `nav-user.tsx`) | a copy of what the hub keeps, forms, requests under way | load, patch with answers, refetch | hub REST API, presence WebSocket |

What is hard, and what makes a part correct:

- *Gateway.* Handlers of one session hand it over to each other while events
  keep coming, sockets die unnoticed, a channel is full and the reaper runs.
  Correct: numbers without gaps, each event once and in order, no session lost
  while it is used, none kept for ever.
- *Voice.* One fact (who is in which call) is kept in the session map, the SFU,
  and two Redis hashes, changed by a handler with queues in between that may
  drop or delay. Correct: the four agree once things settle; handlers of one
  user that overlap do not undo each other's work.
- *Redemption of links.* Transactions compete for the last slot, for names and
  for emails. Correct: slots count users, nobody is refused for nothing, no
  deadlock, no entry after a revocation.
- *Outbox.* Workers claim rows, die, and are not sure what the provider took.
  Correct: one claimant, no known duplicate, nothing waits for ever.
- *Permissions.* The chat service caches what the hub's tables said. A fill
  crosses a change, an announcement is lost or never made, a sweep fails. Correct:
  every wrong answer has such a reason, and none stays.
- *Chat data.* Check-then-act around idempotency, edits and acknowledgements;
  clock readings at a bucket boundary.
- *Negotiation.* Both ends make offers. Correct: one offer at a time, no track
  and no stashed offer forgotten, forwarding as negotiated.
- *The browser.* Every part keeps a copy of something a service keeps, changes it
  ahead of the answer or patches it with the answer, and is told of others'
  changes by events, by a refetch or not at all. Answers, events, timers, other
  tabs and the user come in any order. Correct: once nothing is under way the
  copy is what the service keeps, or the code can say why not; nothing the user
  wrote is lost; one call at a time; a sign-out is one.
- *Transcoding, invitations, provisioning.* Crashes between steps, redelivery.

`PROJECT.json` lists these hazards one by one, each at its line, with the
properties that would catch it.

## 2. Modules

| Module | Models | Role |
|---|---|---|
| `ChatGateway` | `gateway.rs`, `session.rs`, the reaper, `client.ts` | component |
| `SessionStream` | what a resumable session promises its client | abstract specification of `ChatGateway` |
| `ChatAccess` | `access.rs`, `acl_consumer.rs`, `acl_publish.rs`, `perms.rs`, the hub's requests that change channels, groups, members and permissions | component |
| `ChatService`, `ChatServiceProofs` | `run_session`'s filter | composition of `ChatGateway` and `ChatAccess`; proofs about each and both |
| `VoiceSessions`, `VoiceSessionsProofs` | `ws.rs`, `sessions.rs`, join, leave and zombies of `sfu/mod.rs`, the two hub buses | composition of video service, SFU and hub, proofs |
| `SfuNegotiation`, `SfuNegotiationProofs` | negotiation in `sfu/mod.rs`, `sfu/session.rs`; offers and answers of `packages/sdk-video/src/client.ts` | composition of SFU and video SDK, proofs |
| `InviteLinks` | `invite_links.rs`, `members.rs` `delete_pending_link` | component; proofs in `WebAppProofs` |
| `MailOutbox` | `mailer/outbox.rs`, `mailer/worker.rs` | component; proofs in `AccountProofs` |
| `ChatView`, `ChatViewProofs` | one channel in one browser with the message handlers of `services/chat/src/api.rs` and `data_service.rs` | composition of web client and chat service, proofs |
| `CallTab`, `CallTabProofs` | `video-call-context.tsx`, `incoming-call-context.tsx`, the life of a `VideoClient`, `dm_calls.rs` | composition, proofs |
| `VideoClient` | devices, prompts, tracks and marks of one call: `sdk-video/src/client.ts`, `use-video-client.ts` | component |
| `WebSession`, `AccountProofs` | `lib/auth.tsx`, the router's guards, the sign-in pages, `auth_api.rs` | composition of the tabs of a browser and the hub's tokens; proofs about it and `MailOutbox` |
| `HubChannels` | `channels-context.tsx`, `nav-channels.tsx`, `channel-editor.tsx`, `channels.rs`, `dms.rs` | component |
| `HubRoster` | `use-members.ts`, `use-pending-invites.ts`, `presence_ws.rs`, `members.rs`, the cards and dialogs that change the roster | component |
| `HubSettings` | the dialogs for roles, hub and profile, `groups.rs`, `hubs.rs`, `profile.rs` | component |
| `CallScreen` | `components/hub/video-workspace/` | component |
| `InviteDialog` | `add-teammates-dialog.tsx`, `use-permissions.ts`; creation in `invite_links.rs`, `temp_users.rs`, `invitations.rs` | component |
| `ChatSocket` | heartbeats, reconnection and their timers in `sdk-chat/src/client.ts` | component |
| `WebApp`, `WebAppProofs` | `app/hub/page.tsx` | composition of `HubChannels`, `HubRoster`, `HubSettings`, `CallScreen`, `VideoClient`, `InviteDialog` and `ChatSocket`; proofs about each of them and `InviteLinks` |
| `Lists`, `ListProofs` | `sort` and `filter` as `ChatView`, `HubChannels` and `CallScreen` use them | operators, lemmas about them |
| `MC...` | | instances for TLC |

Operators under "Faulty variant of ..." are not part of a specification. They
are what a plausible slip in the code would make of the next definition; each
property is known to notice one of them.

### 2.1 ChatGateway

One client and as many connections as `Conn` has. A connection is a TCP
connection with its handler task (`pc[c]`, one value per await point of
`handle_connection` and `run_session`), its outgoing FIFO `out[c]` (mpsc
channel, writer task and socket together) and its incoming FIFO `inbox[c]` (NATS
subscription and dispatch channel together). A session (`store`, `events`,
`lastSeq`, `disc`) is named by the connection that created it. `log`, `base` and
`got` are history: what was numbered in a session, what was published before its
first subscription, what the application received.

| Action | Code |
|---|---|
| `Identify`, `IdentifyRejected`, `AuthTimeout` | `wait_for_auth`, IDENTIFY branch |
| `ResumeLookup` .. `SendReplay` | RESUME branch: look-up, `replay_from`, `mark_connected`, `last_seq`, the sends, each a step |
| `Subscribe`, `Dispatch`, `Unblock`, `ReadFails`, `HeartbeatTimeout`, `Cleanup` | `run_session` |
| `WriterFails`, `FrameLost`, `ConnectionLost` | the connection dies, noticed by one side, the other, or neither |
| `TtlElapses`, `Reap`, `Restart` | reaper task; end of the process |
| `Connect` .. `HandleClose` | `ChatClient` |

`HalfOpen` says whether a client may come back before the server has noticed the
end of its old connection. It separates what holds always from what holds only
then (see the findings).

Time is abstract: a session's disconnect is "recent" and may become "expired";
a deadline may pass whenever its step is enabled.

### 2.2 ChatAccess and ChatService

The hub's rows (`rooms`, `roles`, `memberOf`, `rows`; `Partners` of a direct
channel never change), the announcements on their way (`owed` in a request that
has committed, `subject` on NATS, `found` between the consumer's SCAN and DEL) and
the chat service's side (`cache`, `checks`). Reading and writing have bits and
cache entries of their own that live alike; one is modelled.

| Action | Code |
|---|---|
| `SetPermission`, `AddToGroup`, `RemoveFromGroup`, `Kick`, `JoinHub`, `DeleteGroup`, `DeleteRoom`, `CreateRoom`, `OpenRoom`, `OpenDm` | the hub's requests; those that end in `Owes` announce, those in `Silent` do not |
| `Announce`, `Forgotten` | `publish`; a request that broke off, or NATS took nothing |
| `Scan`, `Delete` and their failures | `acl_consumer.rs` `apply` |
| `BeginCheck`, `ReadChannel` .. `ReadRows`, `QueryFails`, `Store`, `StoreFails` | `check` and the three queries of `check_uncached` |
| `Expires` | the 30 seconds of `ACL_TTL_SECS` |

`tainted` is history: the keys whose entry nothing will sweep, because their change
was not announced, was lost, or crossed the check that stored it. Who may make a
request is not modelled: any may come at any time.

`ChatService` puts both halves that an event passes into one state. They share no
variable: the answer of a check decides which events are those of `ChatGateway`.
`half` lets one of them move per behaviour.

### 2.3 VoiceSessions

The REST map (`sessionOf`, `sessions`, `chanOf`, `slot`), the SFU (`sfuq`, `sfu`,
`answered`), the hub's hashes (`occ`, `micOn`) and the queues to them (`occq`,
`muteq`). A connection is one attempt of a user to take part in one channel:
POST /sessions, the WebSocket and its handler (`pc[c]`). `Register`, `FreeSlot`
and `CreateSession` are the three critical sections of the mutex; the messages a
handler sends before and after them are steps of their own. The SFU's command
channel drops when full; participants whose client is gone become zombies and
are swept. `overlapped` is history: users who opened a connection while another
of theirs was not finished.

External assumptions: str0m reports a vanished peer as disconnected; NATS does
not lose a published message on a live connection; a subject is delivered in
order; two subjects are not ordered.

### 2.4 SfuNegotiation

One SFU session and its clients. A participant id is a function of the user, so
two clients of one user collide. `toSfu[c]` is everything between a client and
the shard (socket, handler, command channel), `toClient[c]` everything between
the shard and the client. Per participant: the media it publishes (`tin`), the
state of each track it is sent (`tout`), the m-lines of its Rtc (`lines`),
`pend`, `queued`, `hints`; per shard `neg` and `fwd`. A client has its
`signalingState` (`sig`), the media of its last offer, the progress of its
screen share, and `deaf`: `msgQueue` has rejected. `disturbed` is history: the
clients an offer of whose crossed another, that lost a message, that were served
in the place of a predecessor, or that are no participants any more.

| Action | Code |
|---|---|
| `ClientJoin`, `ShareHint`, `ShareOffer` | `createAndSendOffer`, `publishScreen`, `unpublishScreen`, `renegotiate` |
| `ClientAnswered`, `ClientTakesOffer`, `ClientAnswers`, `ClientForced`, `ClientLeaves` | `handleServerMessage`, split at the awaits of case "offer"; `disconnect` |
| `HandleJoin`, `HandleLeave`, `HandlePublishTrack`, `HandleClientOffer`, `HandleAnswer` | the handlers of `handle_command`, with the `MediaAdded` events their poll brings |
| `NegotiatePendingTracks`, `Zombie` | `negotiate_pending_tracks`, `tick` |
| `DropCommand` | full channel in `SfuPool::send` |

External assumptions: str0m accepts an answer to its offer and a client's offer
that knows its m-lines; any other it may accept or refuse. A browser rolls its
local offer back when one of the SFU comes, and throws at an answer that it does
not wait for. The messages to a client whose queue has rejected are left out of
`toClient`: they are skipped.

### 2.5 InviteLinks

A redemption is one READ COMMITTED transaction. What it holds (the link's row,
then its entry in `users_username_key`, then the one in `idx_users_email`) is a
function of where it is (`LinkFree`, `NameFree`, `EmailFree`), so ROLLBACK and
COMMIT release without a lock table. `now()` of Postgres is the time of BEGIN:
`fresh` is read at `Begin`. `Fail` stands for every `map_err(|_| internal())`.

### 2.6 MailOutbox

Every statement on `mail_outbox` is a step; `batch[w]` is what a worker still
holds in memory. `Lose` is the end of a worker's process, or the `?` of
`worker.rs:35` after a failed statement: both leave the rest of the batch.
`accepted` and `lost` are history: how often a worker was told that the provider
has a mail, and which mails were in a batch that was lost.

### 2.7 ChatView

One channel, for no handler of the provider but its teardown touches two. The
service is a log of rows with their `client_id`s, the idempotency keys and the
user's read position; `events` is what the gateway will hand to this browser, and
`delivered` how much of it was. The list is made of entries that are `sent`,
`sending` or `failed`. A state update and the effects it causes are one step:
React runs them before the page's next event.

| Action | Code |
|---|---|
| `Send`, `ComposerReleased`, `AddFile`, `UploadEnds`, `AbortUpload` | `handleSend`, `use-attachment-upload.ts` |
| `PostRefused`, `CheckKey`, `WriteMessage`, `StoreKeyAndPublish` | `send_message`, a step per await |
| `PostSucceeds`, `PostFails`, `Retry`, `Cancel` | `sendMessage`, `retryMessage`, `cancelMessage` of the provider |
| `Deliver` (`Received`, `StopTyping`, `CountLive`), `TypingStart`, `TypingTimeout`, `HushEnds` | the handlers of `message.*` and `typing.start` |
| `AskHistory`, `HistoryRead`, `HistoryAnswered`, `HistoryFails`, `Enter`, `Unmount` | `ensureHistory`, the active channel |
| `Identified`, `Resumed`, `Lost`, `NewToken`, `ReadStatesAnswered`, `SyncAnswered`, `BackfillFails`, `AckArrives` | the provider's client, its start-up and its teardown |

Abstracted: a page of history holds the whole channel, so the limits of 50 and of
300 do not show; clocks agree; a key is always stored (`set_idempotency` without
a Redis failure). `loadMore` has no caller.

### 2.8 CallTab and VideoClient

`CallTab` is which call a tab shows, which clients it holds with the state of each
WebSocket (`connecting`, `open`, `closing`, `closed`), and the direct call that
rings. `joins[ch]` counts the joins that await their session, and a continuation
goes on with what it closed over. The peer, the user's other windows and the
service are the environment. `VideoClient` is one call from inside: each capture
is a prompt the browser answers later, tracks are named by the prompt they come
from, and the messages about one other participant, who may come twice, are on a
FIFO. What `CallTab` calls joined begins where `VideoClient` asks for a microphone.

### 2.9 WebSession

Tabs of one browser and the tokens of the hub service. The n-th sign-in or renewal
issues access token n and refresh token n. A renewal is a record from its request
to the code that runs with its answer; the service's find-and-delete and insert
lie in between. A page load throws the tab's state and waiting code away but not
the requests. Each page that signs in (login, set-up, register, invitation, guest
link) is a small machine in `page`.

Not modelled: the end of a refresh token after 30 days and the cap of five per
user, two set-ups that race, `expiresAt` of a guest. One refused request at a time
per tab.

### 2.10 ChatSocket

Time is explicit here and nowhere else: `Beat` units to the interval of HELLO, a
timer is what it still has to run, `Tick` lets a unit go by unless a timer is due or
an acknowledgement is late on a connection that is up. A timer bears the number of
the connection it was started for, because the code cancels only the last interval
(`tracked`) and never a first `setTimeout`.

| Action | Code |
|---|---|
| `Opened`, `Closed`, `Retries`, `Disconnects` | `onopen`, `onclose` with `scheduleReconnect`, its timer, `disconnect` |
| `Hello`, `FirstFires`, `BeatFires` | `startHeartbeat`: the call, its `setTimeout`, its `setInterval` |
| `AckComes`, `ReconnectComes` | the two cases of `handleFrame` |
| `Dies`, `Tick` | the network; time |

`quiet` (how long the connection has been dead) and `struckDown` are history. The
delays of `nextDelay` end at 30 s, below the gateway's interval of 41 s, which is
what `Delays` says. `ChatGateway` has the same connections without time and with
their sessions.

### 2.11 InviteDialog

What the hub has (`standing`, `rank`), what the dialog and `usePermissions` have
loaded (`offered`, `perms`, requests under way in `loads` and `permsAsk`), the
mounted form, and requests for invitations, which outlive their form. `AskLink`,
`AskGuest` and `AskNamed` are the forms' `submit`s, `MakeLink`, `MakeGuest` and
`MakeNamed` the service's three handlers. `moved` marks an invitation whose maker
saw copies that were behind: somebody changed groups or ranks after the dialog was
opened, a load failed, or the dialog began with what an earlier one had left. Moving
a group to another position is such a change too and is not an action of its own.

### 2.12 HubChannels, HubRoster, HubSettings, CallScreen, WebApp

The first three follow one pattern: what the hub keeps, what the tab shows, loads
and requests under way as records with a stage (sent, served or read, answered),
and what other users do. A ghost (`drift`, `lost`, `crossed`, `roleDrift`,
`hubDrift`, `myDrift`) records the overlaps after which the code cannot know the
truth; the properties say that the copy is right whenever nothing is under way and
no such overlap occurred. Section 4 lists what the ghosts stand for. `HubRoster`
separates commit from announcement, and the opening of a socket from its handler's
subscription. In `CallScreen` a tile that is not rendered is not heard; a menu is
identified by the place React keeps its state at; `allTiles` is memoized in the
code too, and rendered with what it was computed from. Both modules sort and filter
by `Lists`: `Ranked` and `Filtered` say at which position a member stands by
counting those before it, so that the proofs need no induction over a list.

`WebApp` puts them, `VideoClient`, `InviteDialog` and `ChatSocket` into one state. They share no variable: what
one does to another (a renewed token, a participant who comes) is an action of
the other that may happen at any time, so `part` lets one of them move per
behaviour.

## 3. Runs

All with two workers of TLC.

| Run | Instance | Shows |
|---|---|---|
| `gateway_safety` | 3 connections, 3 events (one of which fills the buffer), buffers of 2 events, channel of 1 frame; 2 M states | `BufferIsTailOfLog`; `ExactlyOnceInSession`; `NoLiveSessionReaped`; `ImplementsStream` |
| `chat_service` | gateway: 2 connections, 2 events, buffer of 1; permissions: a room and a direct channel, a user, 3 groups, a check under way, a change of the rows or a failed query | `DeadHandlersFinish`, `DispatchedIsDelivered`, `StaleIsExplained`, `AccessSettles` |
| `gateway_half_open` | 2 connections, `HalfOpen` | *violated*: `NoLiveSessionReaped` |
| `voice_calls` | 3 connections, 2 users, 1 channel, SFU channel of 1, 2 messages per subject | `SessionIndex`, `SessionEndsWithLast`, `OrderlyUserPresent` |
| `voice_users` | 2 connections of a user, one microphone | `MicMarkFollowsMic`, `NoGhosts` |
| `sfu_calls` | 2 clients of one user, 1 of another who may share a screen; channel of 2 messages, 1 lost command | `NegotiationConsistent`, `NoTrackForgotten`, `EveryoneIsSeen` |
| `invite_redeem` | 2 links, 2 requests, 2 names, 2 emails, 2 uses | `SlotsMatchUsers`, `NobodyJoinsRevoked`, `EveryRedeemAnswered` |
| `outbox_batches` | 4 mails, 2 workers, batches of 2, 3 attempts | `OneClaimant`, `NoKnownDuplicate`, `MailsSettleUnlessLost` |
| `chat_view` | 5 scenarios of one channel (`MCBounds`): up to 2 own messages, 3 of others, 2 sends, 2 loads, 2 files, 2 lives of the client | `LiveShownOnce`, `NothingWrittenIsLost`, `LiveUnreadCounted`, `TypingEnds`, `RetryWritesOnce` |
| `call_tab` | a room and a direct channel, 2 clients, a join of each channel under way, one post of the peer | `OneCallAtATime`, `OnlyOwnKickEndsCall`, `PeerEndsOnce` |
| `web_session` | 2 tabs, 3 tokens, page loads and sign-outs, 2 renewals under way; 1.6 M states | `StoredCanRenew`, `SignOutSticks`, `GuestIsTold` |
| `web_app` | 3 channels and 2 changes; 1 user, 3 events, 2 sockets; 3 roles, 2 permissions, 3 deeds; 3 participants, pages of 2, 6 acts; 2 stays, 2 messages, 2 prompts; 4 ranks, 4 steps around the invitations dialog; 3 connections, 3 units to a heartbeat, acknowledgements within 1; 2.2 M states | `ListFollowsHub`, `RosterFollowsHub`, `SavedIsShown`, `HeardAsSet`, `CallShownAsItIs`, `InvitesAsShown`, `HeartbeatsJudgeRight` |

Why the bounds are enough. Gateway: three connections give a session two
hand-overs, the second of which replays what the first one numbered; three
events over a buffer of two give eviction by count, the third, as large as the
buffer, evicts both others by bytes, and a one-frame channel blocks at once. Permissions:
one change suffices for a wrong answer, which falls before, between or after the
steps of a check and of a sweep; several changes are left to the proof. Voice:
a replaced handler, its replacement and a bystander who keeps the session alive
or ends it; a channel of one command drops as soon as two are sent. Negotiation:
one receiver, one publisher whose second medium comes while an offer is
outstanding, and a client that replaces another under its id; a channel of two
messages holds an answer and an offer, and drops the third. Links: two
requests meet at the row of one link, or at a name or an email through two. A
mail meets each of its attempts with each order of two workers. Chat: a message
and its retry cross echo, edit and deletion; two loads of two clients cross a live
message and a reconnect. Calls: two channels are a switch and a way back, two
clients the one that is let go and the next. Sessions: with three tokens one tab
renews what the other has just renewed, and a third token shows who was left
behind. Pages: a load, a request and somebody else's change overlap in pairs;
pages of two with three participants, screens and a ring have a first, a middle
and a last page; a rank has groups above and below it, next to the default
one; a third connection meets the timers of two earlier ones, and an interval of three
units separates a late acknowledgement from a missed one. The safety properties of the gateway, the voice sessions, the SFU's negotiation, links, outbox, permission
cache, calls of a tab, heartbeats, and of the page its roster, settings, call and
invitations are proved for every size. Deadlock checking is off everywhere:
connections, requests, events and mails are used up, and the system may rest.

Bounds that are not the code's: `MaxDrops` (lost commands), `Sharers` (clients
that share a screen), `MaxPublish` (events), `Backlog` (messages that
wait on a subject, in `CallTab` posts that wait), `Toggles` (uses of a
microphone), `MaxChanges` (changes of the rows, of the list, and failing queries), `MaxCap` (largest `max_uses`), `Bounds`, `MaxOwn`, `MaxLives`
(`ChatView`), `MaxClients`, `MaxJoins`, `MaxPeer` (`CallTab`), `MaxWork`,
`MaxRenewals` (`WebSession`), `MaxChannels`, `MaxEvents`, `MaxOpens`,
`MaxRoles`, `MaxDeeds`, `MaxActs`, `MaxStay`, `MaxWire`, `MaxAsks`, `MaxSteps`,
`MaxDialed`, `Lag` (the parts of `WebApp`). `MaxEvents` (of `ChatGateway`), `MaxBytes`, `OutCap`, `SfuCap`, `WsCap`,
`Batch`, `LastAttempt`, `PageSize`, `StripSize` and `Beat` are small values of the code's
own limits.

Fairness. tokio polls a ready task (weak fairness of handlers, SFU shards, buses,
workers); a deadline passes; a frame that has arrived is handled; the back-off
timer fires; the reaper ticks; Postgres grants a free lock; a check goes on and Redis
drops what has outlived its time. Never forced: failures, losses, what users do, what the
mail provider answers, and that anybody announces a change of permissions or
listens to it. The runs of the web client check safety only.

Every property of a passing run is known to notice one faulty variant
(`PROJECT.json`, "mutants").

## 4. Findings and behaviours met

Checked as a finding, `gateway_half_open`: a client that comes back before the
old handler has ended. That handler's cleanup marks the session disconnected
after the new one marked it connected, and the reaper takes a session in use,
against `session.rs:8`. In this mode the two handlers also number events from two
copies of `seq`, so that `last_seq` goes back, and a client can be ahead of its
session, which `session.rs:63` holds for impossible.

Met while modelling. The models have these behaviours, and the properties above
are stated so that they hold with them.

*Services*
- `gateway.rs:341`: the old handler unsubscribes, the new one subscribes after the
  replay; what is published in between is in no buffer, against
  `docs/architecture.md:298`.
- `gateway.rs:226`: a session whose handler returned before its loop is never
  marked disconnected and stays in the store.
- `groups.rs` `delete_group`, `channels.rs` `delete_channel`, `temp_users.rs`
  `join_via_token` and `sso.rs` announce nothing, against `acl_publish.rs:3-6`, and
  a kick whose second statement fails has removed the groups without a word: the
  chat service goes on with what it has cached.
- `access.rs:46-48` says "at most this long": a check that began before a change and
  a failed query, which is stored as a refusal, last 30 s from when they are stored,
  also when the announcement has come in between.
- `ws.rs:676`: the cleanup of a replaced connection publishes "left" although its
  slot was taken over, so the sidebar loses a user who is in the call; its Leave
  may remove the successor from the SFU. A microphone mark consumed after the
  departure stays until the next one.
- `sdk-video/src/client.ts:212`: nothing catches a rejection in `msgQueue`, and
  `setRemoteDescription` throws at an answer nobody waits for (two offers in a
  row, or an offer rolled back while the SFU kept it): the client handles no
  further message. An SFU offer dropped by a full channel leaves `pending_offer`
  set.
- `worker.rs:35`: a failed statement or a crash leaves the rest of a batch
  'sending', and nothing returns such a row.
- `presence_ws.rs`, `members.rs`: an event is lost when its handler is dropped
  between commit and announcement.

*Chat in the browser*
- A live message may be lost or doubled around a history load, an edit or a
  deletion that arrives during one is undone; after a new IDENTIFY nothing
  refetches (`architecture.md:374-383` promises it).
- A request refused with 401 leaves its message "sending". Files whose upload
  failed are dropped with a send. A renewed token tears the whole provider down.
- A channel is acknowledged while its chat is collapsed.
- `sdk-chat/src/client.ts:356`: the first heartbeat's timer is not cancelled. After a
  fast reconnect the old one starts an interval next to the new one's; only the last
  is ever cleared, the other runs for as long as the page, and may close a healthy
  connection whose acknowledgement is still on its way. After `disconnect()` such an
  interval runs on, too. A connection that dies before HELLO is not noticed.

*Calls*
- `incoming-call-context.tsx:176`: `startCall` and `accept` set the direct call
  before the shown channel changes, so the watcher at once posts its cancel (or
  an end of 0 s).
- Two joins may overlap; a socket still connecting is not closed
  (`client.ts:1394-1398`), and the late close of an old one marks the new call
  disconnected. A failed switch leaves the old call shown without a client.
- Deafening before the socket is open is not sent. A prompt answered after
  leaving is never stopped. `isScreenSharing` stays after the browser's own
  "Stop sharing". A replaced window of somebody leaves a second tile.
- A participant on another page (more than 12 tiles) or beyond the 8 thumbnails
  is not heard. Un-muting restores 100 % if the menu was mounted while muted.
  Switching calls keeps deafening and volumes (against the comment at
  `video-call-context.tsx:191-193`).

*Session*
- Refresh tokens are used once: of two overlapping renewals the second is refused
  and its tab signs out, and removes the session the first has stored. A reload
  during a renewal strands the stored session. A renewal under way undoes a
  sign-out. A sign-up whose answer was lost is "taken" when it is tried again.

*Copies of the hub*
- Invitations: with no permissions loaded nothing can be picked, where
  `add-teammates-dialog.tsx:81-83` expects the default group (no position is below
  the sentinel). A picked group that is no longer offered is shown as "Select group"
  and still sent. Loads of groups are not cancelled, so an older one may win; a failed
  one empties the list. A guest pass dated in the past is good for a minute. The
  services do not compare the group with the maker's rank.
- Channels: an update cannot remove an icon's picture or colour (`COALESCE`); the
  editor's groups are ignored; a load may overwrite, or double, a channel created
  meanwhile; an error answer empties the list; others' changes are not pushed.
- Roster: an event between the fetch of an open socket and its subscription is
  lost (against `use-members.ts:164-165`); a reconnection does not refetch
  invitations; an older answer may undo a voice event; profile edits and revoked
  invitations are not pushed.
- Roles: a name half typed is lost on Escape, a refused name stays shown, two
  quick toggles lose the first. Hub settings: a failed connection leaves Save
  disabled for the life of the page (`hub-settings-dialog.tsx:114-159`); a refetch
  seeds the form again while the user types; the end of a save closes a dialog
  that was opened again. Profile: Cancel does not reset the draft
  (`nav-user.tsx:265` says it does); a save that overlaps a renewal stores the old
  tokens.

## 5. Proofs

TLAPS, every obligation checked, for all values of the constants under the
`ASSUME`s of the modules.

**ChatServiceProofs.** Of the gateway: `TypeCorrect` (types, capacity of the
buffers), and, for `HalfOpen = FALSE`, `BufferCorrect` (`BufferIsTailOfLog`), `ReaperCorrect`
(`NoLiveSessionReaped`), `DeliveryCorrect` (`ExactlyOnceInSession`) and
`StreamRefined` (`ImplementsStream`: every step of the gateway and its client is a
step of `SessionStream` or a stutter). `BufferIsTailOfLog`
is not inductive: a handler could push under a wrong number. The invariant
`SessionInvariant` adds that a handler past its look-up has its session, that
one handler at most runs, that a fresh connection carries nothing, that the
handler's `seq` is the session's `last_seq` once read, and that a session marked
connected is not counting down. `DeliveryInvariant` speaks of the wire: the frames
under way on the connection the client is using continue what it has without a
hole, up to what the session has numbered, each with the event the log has under
its number; and a handler that has not yet answered was asked to go on from where
the client is.
Of the check: `AccessTypeCorrect`, `StaleCorrect` (`StaleIsExplained`) and
`Unraced` (a check none of whose rows changed stores what the tables say).
`StaleIsExplained` alone does not say what a check in the middle knows; the
invariant adds `ReadsHold`: what it has read is still so, or it is marked `raced`.
`ServiceCorrect`: a behaviour of `ChatService` is one of each half, so that these
promises hold together where an event meets both.

**VoiceSessionsProofs.** `TypeCorrect` (with the capacity of the shard's channel),
`IndexCorrect` (`SessionIndex`), `EndsCorrect` (`SessionEndsWithLast`),
`PresentCorrect` (`OrderlyUserPresent`), `MicCorrect` (`MicMarkFollowsMic`). The
last two properties are about quiet states only; the invariant replaces a queue by
what it will have said once it is empty (`Says`, `Marked`, `Told`). `IndexInv`
ties slots, map and index to the place of the handlers; `OneInv` says that of a
user who never overlapped one connection is active; hence nobody but that
connection publishes about the user (`ShownInv`), and behind its join no command
about the user is in the shard's channel (`HeardInv`, from `JoinInv`: a connection
joins once, and `EndInv`: only a client that is gone leaves). `MarkInv` follows a
microphone's last word from the wire through the handler to the hub, and keeps a
departure, which would clear the mark, out of the other queue.

**SfuNegotiationProofs.** `TypeCorrect`, `TracksCorrect` (`NoTrackForgotten`),
`NegotiationCorrect` (`NegotiationConsistent`) and `SeenCorrect` (`EveryoneIsSeen`),
for any clients, participant ids, capacities and numbers of losses. `RoomInv` is
about the shard's records: `tout` names published tracks of others (`Assigned`),
no m-line waits for an answer that is not due (`Cleared`), what is open has an
m-line and what is negotiating is in the pending offer, except at somebody who lost
something (`OpenLines`), and each published track is in one of three states
(`Remembered`). `ClientInv` is about one client while nothing went wrong for it: its
end, its wires and its place at the shard, put together in `View(c)`, `Fits`. The
SFU has one offer out if it says so (`OneOut`) and the client one in at most
(`OneIn`); what is on its way is still up to date (`DownSays`, `UpSays`); what the
client sees is what the m-lines will be once the outstanding offer is answered
(`Sees`); and a screen's hint is ahead of its offer (`Hinted`), so that it takes the
tag (`Tagged`). A client that waits for its seat is `Arriving`. Which steps keep
`Fits` is proved of two views without the variables, one lemma for each kind of
step; the lemmas about the actions say which views these are, and that whoever
sends in the place of another leaves the other `disturbed` or untouched.

**AccountProofs.** The mail outbox and the sessions of a browser, which share nothing.
- Outbox: `TypeCorrect` (no mail is attempted beyond the schedule),
  `ClaimantCorrect`, `DuplicateCorrect`. The invariant ties what a worker remembers
  to the table (rows of a batch are 'sending' with the attempts it remembers), keeps
  an attempt in reserve for every mail that waits, and says of an accepted mail that
  it is sent, or 'sending' and either lost with its batch (the history `lost`) or at
  the head of a batch on its way to `mark_sent`.
- Sessions: `SessionTypeCorrect`, `RenewCorrect` (`StoredCanRenew`),
  `SignOutCorrect` (`SignOutSticks`), `GuestCorrect` (`GuestIsTold`), for any number of
  tabs, tokens and overlapping renewals. The invariant says where the tokens of an
  answer on its way are: the service takes them, nobody is revoking them, and no tab,
  timer, stored session or other renewal has them (`Spare`); so what a renewal stores
  is good, and a stored token that the service has forgotten was used by a renewal
  whose answer is still there (`StoredKept`). `Begun` and `Waiting` say who may hear an
  answer: a tab that starts waits for none, and one without a session only for that
  of its restore, or for one it has signed out of. Every step is one of twelve kinds
  (`StepEffect`); what the pages do comes down to two.

**CallTabProofs.** `TypeCorrect`, `OneCallCorrect` (`OneCallAtATime`), `KickCorrect`
(`OnlyOwnKickEndsCall`), `PeerCorrect` (`PeerEndsOnce`). The invariant says that,
as long as joins have not overlapped, one at most is under way and the tab holds no
client while it is (`OneJoin`, `NothingHeld`); and that the direct call is the call
shown, so that the peer's hang-up leaves that call and no other.

**ChatViewProofs.** `ShownCorrect` (`LiveShownOnce`), `WrittenCorrect`
(`NothingWrittenIsLost`), `UnreadCorrect` (`LiveUnreadCounted`), `TypingCorrect`
(`TypingEnds`), `RetryCorrect` (`RetryWritesOnce`) and `TypeCorrect`, for any number of
messages, loads, retries, lost connections and lives of the provider, from `ViewInv`.
That a message which came live is shown once is not inductive: the list is extended,
filtered and replaced by steps that go by ids or by `client_id`s, and a row has both.
`EntriesFit` says that they agree in every entry shown or read, `CidsInOrder` that no
`client_id` is given out twice, `FilesOnce` that no file goes with two messages,
`AnnouncedOnce` that a row is announced once and by the POST that wrote it; `ShownOnce`
then survives every step. What a step makes of the list is said once, by lemmas that
leave the order open (`Carries`, `ReceivedLists`). The assumption `NoneAssumption` says
that `undefined` is neither a list nor a count.

**ListProofs.** What `sort` and `filter` return, for any set with distinct keys and any
list: `RankedKeeps` (the members, each once), `RankedSorts` (by rising key),
`FilterKeeps` (the members at the positions asked for) and `FilterSorts` (in the order
of the list), by counting; lemmas about what is in a concatenation.

**WebAppProofs.** `InvitesCorrect` (`InvitesAsShown`), `RosterCorrect`
(`RosterFollowsHub`), `SettingsCorrect` (`SavedIsShown`), `CallCorrect`
(`CallShownAsItIs`), `HeartbeatsCorrect` (`HeartbeatsJudgeRight`, with the types, for
every interval, any lag below it and any number of connections), `ChannelsCorrect`
(`ListFollowsHub`, with the types) and `ScreenCorrect` (`HeardAsSet`, with the types, for
any participants and page size), one inductive invariant for each part of the page,
whose variables the other parts leave alone.
- Invitations: while nobody changed groups or ranks and no load failed, what is
  loaded or on its way is what the hub has (`CopiesFresh`), and what a request asks
  for is what its form could pick (`AsksFit`).
- Roster: the tab's copy, after the answers and events under way, will be the
  hub's (`NewsSettle`, and per part `RowsFollow`, `MarksFollow`, `InvitedFollow`),
  unless one of the overlaps was met that the ghosts record.
- Settings: what a load or save under way will leave on the screen is what the hub
  keeps, for the hub's settings (`HubInv`), the own profile (`MineInv`) and the
  roles (`RolesInv`), each up to its ghost.
- The call: what is captured is what the flags say while in the call and nothing
  afterwards, as long as no button was pressed during a prompt (`CaptureInv`);
  nothing is on the wire outside a call, and what the server replays comes before
  its answer (`WireInv`); handling what is on the wire leads the tab from what it
  shows to what the server knows of the other participant (`ViewInv`, `Leads`).
- Heartbeats: a connection has one timer at most, and one at least once it was
  greeted; in a dead one what the own timer has left bounds how long it may yet go
  unnoticed (`DeathCounted`); in one that is up, alone with its own interval, the
  acknowledgement on its way is as old as the last heartbeat (`AcksCounted`).
- Channel list: the property speaks of a tab at rest. While nothing has overlapped
  (`Undisturbed`) there is one request at most and none during a load, and what the
  current load has read, and what the answer to a request will make of the list, is a
  list of the hub's channels, each once (`IsListOf`, kept by appending, filtering and
  rewriting).
- Call screen: what is rendered is what the state says (`Rendered`), the tiles are
  distinct and never none (`TilesGood`); sorting keeps them and puts a
  speaker at a rank that counts the user's tiles and the speakers, hence on the first
  page (`SortedGood`, `PageGood`, `HeardCount`). At a place there is one menu, and it has
  the user's last volume above 0 if it has been his since (`MenusMounted`).
- Invite links, next to the page: `TypeCorrect`, `SlotsCorrect`, `UsersCorrect` (names and
  emails are unique), `GoneCorrect` (nobody is refused for a slot that was given
  back), `RevokedCorrect`. The invariant says what a lock means: one transaction at
  most has claimed a link and found a slot that is still free; two that have inserted
  the same name, or email, do not exist, and none that is committed has it.

The `TypeOK`s of these modules, `UniqueUsers` and `GoneOnlyWhenDead` are covered
by the proofs alone. Only model-checked:
- liveness (`DeadHandlersFinish`, `DispatchedIsDelivered`, `NoGhosts`,
  `EveryRedeemAnswered`, `MailsSettleUnlessLost`, `AccessSettles`), which is out of
  the prover's reach.

What a filter or a sort of the code returns is proved for `Filtered` and `Ranked` of
`Lists`. The same about `SelectSeq`, which recurses over its list, and `SetToSortSeq`,
which chooses among permutations, would need an induction the provers cannot do.

## 6. Not modelled

Left out for good: media forwarding, congestion control and layer selection;
object storage; password hashing and token formats; HTTP parsing; widgets, themes,
translations and the debug panel; deployment.

Within modelled parts: the divider of unread
messages; buckets and the upsert of an edit in `data_service.rs`; who may do what
(a refusal is possible at any time); sizes of tiles; names of channels.

Open, with the line that asks for a module: online keys (`presence.rs:55`: `set_offline`
reads and then deletes); transcoding (`services/transcoder/src/main.rs:152`: a
result that cannot be published is only logged); the transactions of invitations
and guest links (`temp_users.rs:246`: validity is checked outside the transaction);
provisioning and single sign-on.
