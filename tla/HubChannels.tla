---------------------------- MODULE HubChannels ----------------------------
(***************************************************************************)
(* The channel list of the web application: ChannelsProvider, which loads  *)
(* it once per access token and then patches it with the answers to the    *)
(* user's own requests, the sidebar and the channel editor that make those *)
(* requests, and the choice of the text channel the hub page shows.        *)
(*                                                                         *)
(* The hub service takes a request, and its answer arrives, in two steps,  *)
(* and other users change the channels in between without anybody telling  *)
(* this tab.  A channel is its number, its type and what its icon shows: a *)
(* picture if it has one, a colour otherwise, or neither.                  *)
(***************************************************************************)
EXTENDS Integers, FiniteSets, Sequences, SequencesExt, Lists

CONSTANTS MaxChannels,  \* bound on the channels ever made
          MaxChanges    \* bound on the user's requests and selections, the
                        \* changes of other users and the token's renewals

ASSUME ChannelsAssumption == MaxChannels \in Nat \ {0} /\ MaxChanges \in Nat

VARIABLES hubChannels,  \* the channels the service keeps
          made,         \* how many were ever made
          channels,     \* `channels` of the provider, in the order shown
          loading,      \* `loading`
          channelLoads, \* the loads under way
          loadsBegun,   \* how many were begun: the newest is not cancelled
          calls,        \* the user's requests under way
          changes,      \* how many of what MaxChanges bounds there were
          chosen,       \* selectedTextChannelId, which localStorage keeps
          drift         \* requests overlapped, or somebody else made a change

channelsVars == <<hubChannels, made, channels, loading, channelLoads,
                  loadsBegun, calls, changes, chosen, drift>>

-----------------------------------------------------------------------------
(* Channels, loads and requests. *)

Types == {"text", "voice", "dm"}
Looks == {"plain", "color", "image"}
Channel == [id : 1..MaxChannels, type : Types, look : Looks]

NoChannel == [id |-> 0, type |-> "text", look |-> "plain"]
Unread == <<NoChannel>>   \* the answer of a load that the service has not read yet

Calls == [n : 1..MaxChanges, op : {"create", "update", "delete", "upload", "openDm"},
          id : 0..MaxChannels, type : Types, look : Looks, file : BOOLEAN,
          select : BOOLEAN, stage : {"sent", "served", "refused"},
          row : Channel \cup {NoChannel}]

ChannelsTypeOK ==
    /\ hubChannels \subseteq Channel
    /\ made \in 1..MaxChannels
    /\ channels \in Seq(Channel)
    /\ loading \in BOOLEAN
    /\ \A l \in channelLoads : l.n \in 1..loadsBegun
    /\ loadsBegun \in 1..(changes + 1)
    /\ calls \subseteq Calls
    /\ changes \in 0..MaxChanges
    /\ chosen \in 0..MaxChannels
    /\ drift \in BOOLEAN

(* A load: the regular channels and the direct ones, asked for side by side. *)
NewLoad(n) == [n |-> n, list |-> Unread]

(* The provider mounts; the hub has its "general" channel.                  *)
ChannelsInit ==
    /\ hubChannels = {[id |-> 1, type |-> "text", look |-> "plain"]}
    /\ made = 1
    /\ channels = <<>>
    /\ loading = TRUE
    /\ channelLoads = {NewLoad(1)} /\ loadsBegun = 1
    /\ calls = {} /\ changes = 0
    /\ chosen = 0
    /\ drift = FALSE

-----------------------------------------------------------------------------
(* Loading. *)

(* What the two list handlers answer: by position, the newest direct        *)
(* channel first.                                                           *)
ById(rows) == Ranked(rows, [c \in rows |-> c.id])
NewestFirst(rows) == Ranked(rows, [c \in rows |-> MaxChannels - c.id])
Regular == ById({c \in hubChannels : c.type # "dm"})
Dms == NewestFirst({c \in hubChannels : c.type = "dm"})

(* The effect of ChannelsProvider runs again for a new access token, and    *)
(* cancels what the run before it waits for.                                *)
TokenRenewed ==
    /\ changes < MaxChanges /\ changes' = changes + 1
    /\ loadsBegun' = loadsBegun + 1
    /\ channelLoads' = channelLoads \cup {NewLoad(loadsBegun')}
    /\ drift' = (calls # {})
    /\ UNCHANGED <<hubChannels, made, channels, loading, calls, chosen>>

(* The service reads the channels, or answers a half with an error, which   *)
(* counts as an empty list.  (The halves have no channel in common, so the  *)
(* order in which they are read makes no difference to either.)             *)
LoadRead(l) ==
    /\ l.list = Unread
    /\ \E r \in {Regular, <<>>}, d \in {Dms, <<>>} :
          /\ channelLoads' = (channelLoads \ {l}) \cup {[l EXCEPT !.list = r \o d]}
          /\ drift' = (drift \/ (l.n = loadsBegun /\ <<r, d>> # <<Regular, Dms>>))
    /\ UNCHANGED <<hubChannels, made, channels, loading, loadsBegun, calls,
                   changes, chosen>>

(* Both answers are here, and replace the list.                             *)
LoadAnswered(l) ==
    /\ l.list # Unread
    /\ IF l.n = loadsBegun
         THEN channels' = l.list /\ loading' = FALSE
         ELSE UNCHANGED <<channels, loading>>
    /\ channelLoads' = channelLoads \ {l}
    /\ UNCHANGED <<hubChannels, made, loadsBegun, calls, changes,
                   chosen, drift>>

(* One of the two cannot be had: the list stays as it is.                   *)
LoadFails(l) ==
    /\ loading' = (loading /\ l.n # loadsBegun)
    /\ channelLoads' = channelLoads \ {l}
    /\ drift' = (drift \/ l.n = loadsBegun)
    /\ UNCHANGED <<hubChannels, made, channels, loadsBegun, calls, changes, chosen>>

-----------------------------------------------------------------------------
(* The user's requests. *)

NewRequest(op, id, type, look, file, select) ==
    [n |-> changes + 1, op |-> op, id |-> id, type |-> type, look |-> look,
     file |-> file, select |-> select, stage |-> "sent", row |-> NoChannel]

(* A new request, in the place of the ones that `done` says are over.       *)
SendsRequest(r, done) ==
    /\ changes < MaxChanges
    /\ changes' = changes + 1
    /\ calls' = (calls \ done) \cup {r}
    /\ drift' = (drift \/ calls \ done # {}
                       \/ \E l \in channelLoads : l.n = loadsBegun)

(* The channel editor is modal, and what is filled in meets the rest of the *)
(* state only when it is saved: opening it and saving are one step.  It     *)
(* opens on a new channel or on one of the list but a direct one, and       *)
(* offers to delete any but the first text channel.                         *)
Editable(c) == c.type # "dm"
Deletable(c) == Editable(c) /\ ~(c.type = "text" /\ c.id = 1)

(* The icon picker: its tab, and whether a picture was cropped since the    *)
(* editor was opened.  A picture that came with the channel stays on the    *)
(* tab for pictures until another one takes its place.                      *)
PickedLooks == [tab : {"icon", "color", "image"}, file : BOOLEAN]

(* What a save sends of the icon: a field it leaves out is null.            *)
SentLook(p, old) ==
    IF p.tab = "color" THEN "color"
    ELSE IF p.tab = "image" /\ ~p.file /\ old = "image" THEN "image"
    ELSE "plain"

(* handleSave of the editor and of the sidebar as far as its first await.  *)
(* A picture cropped before the user went to another tab is uploaded just   *)
(* the same; a new channel is made without one.                             *)
SaveNew(type) ==
    /\ \E p \in PickedLooks :
         SendsRequest(NewRequest("create", 0, type, SentLook(p, "plain"), p.file,
                                 FALSE), {})
    /\ UNCHANGED <<hubChannels, made, channels, loading, channelLoads,
                   loadsBegun, chosen>>

SaveEdit(c) ==
    /\ Editable(c)
    /\ \E p \in PickedLooks :
         SendsRequest(NewRequest("update", c.id, c.type, SentLook(p, c.look), p.file,
                                 FALSE), {})
    /\ UNCHANGED <<hubChannels, made, channels, loading, channelLoads,
                   loadsBegun, chosen>>

DeleteChannel(c) ==
    /\ Deletable(c)
    /\ SendsRequest(NewRequest("delete", c.id, "text", "plain", FALSE, FALSE), {})
    /\ UNCHANGED <<hubChannels, made, channels, loading, channelLoads,
                   loadsBegun, chosen>>

(* "Message" and "Call" on a member's card; the first shows the channel.    *)
OpenDm(message) ==
    /\ SendsRequest(NewRequest("openDm", 0, "dm", "plain", FALSE, message), {})
    /\ UNCHANGED <<hubChannels, made, channels, loading, channelLoads,
                   loadsBegun, chosen>>

-----------------------------------------------------------------------------
(* The service, and the others of the hub. *)

Kept(id) == CHOOSE c \in hubChannels : c.id = id
IsKept(id) == \E c \in hubChannels : c.id = id

Reply(r, stage, row) ==
    calls' = (calls \ {r}) \cup {[r EXCEPT !.stage = stage, !.row = row]}

Makes(type, look) ==
    /\ made < MaxChannels /\ made' = made + 1
    /\ hubChannels' = hubChannels \cup {[id |-> made', type |-> type, look |-> look]}

Becomes(c, look) ==
    /\ hubChannels' = (hubChannels \ {c}) \cup {[c EXCEPT !.look = look]}
    /\ UNCHANGED made

(* An update keeps what it is given no value for: a picture, once there, is *)
(* never taken away.                                                        *)
Updated(old, sent) == IF old = "image" \/ sent = "plain" THEN old ELSE sent

(* create_channel, update_channel, delete_channel, upload_icon and open_dm, *)
(* which makes a direct channel once.                                       *)
Served(r) ==
    /\ r.stage = "sent"
    /\ \/ /\ r.op = "create" /\ Makes(r.type, r.look)
          /\ Reply(r, "served", [id |-> made', type |-> r.type, look |-> r.look])
       \/ /\ r.op = "update" /\ IsKept(r.id)
          /\ Becomes(Kept(r.id), Updated(Kept(r.id).look, r.look))
          /\ Reply(r, "served", [Kept(r.id) EXCEPT !.look = Updated(@, r.look)])
       \/ /\ r.op = "delete" /\ IsKept(r.id)
          /\ hubChannels' = hubChannels \ {Kept(r.id)}
          /\ Reply(r, "served", NoChannel) /\ UNCHANGED made
       \/ /\ r.op = "upload" /\ IsKept(r.id)
          /\ Becomes(Kept(r.id), "image")
          /\ Reply(r, "served", NoChannel)
       \/ /\ r.op = "openDm"
          /\ \/ /\ \A c \in hubChannels : c.type # "dm"
                /\ Makes("dm", "plain")
                /\ Reply(r, "served", [id |-> made', type |-> "dm", look |-> "plain"])
             \/ \E c \in hubChannels :
                   /\ c.type = "dm"
                   /\ Reply(r, "served", c) /\ UNCHANGED <<hubChannels, made>>
    /\ UNCHANGED <<channels, loading, channelLoads, loadsBegun, changes, chosen, drift>>

(* No permission, no such channel, no storage: nothing happens.             *)
Refused(r) ==
    /\ r.stage = "sent"
    /\ Reply(r, "refused", NoChannel)
    /\ UNCHANGED <<hubChannels, made, channels, loading, channelLoads,
                   loadsBegun, changes, chosen, drift>>

(* Another user makes, changes or deletes a channel, or writes to this one. *)
OthersChange ==
    /\ changes < MaxChanges /\ changes' = changes + 1
    /\ drift' = TRUE
    /\ \/ \E t \in Types : (t = "dm" => \A c \in hubChannels : c.type # "dm")
                            /\ Makes(t, "plain")
       \/ \E c \in hubChannels : c.type # "dm" /\ c.id # 1
                            /\ hubChannels' = hubChannels \ {c} /\ UNCHANGED made
       \/ \E c \in hubChannels : c.type # "dm" /\ c.look = "plain"
                            /\ Becomes(c, "color")
    /\ UNCHANGED <<channels, loading, channelLoads, loadsBegun, calls,
                   chosen>>

-----------------------------------------------------------------------------
(* The answers. *)

Without(id) == Filtered(channels, {i \in DOMAIN channels : channels[i].id # id})

(* Faulty variant: a direct channel the list already has is added again. *)
AppliedTwice(r) ==
    CASE r.op \in {"create", "openDm"} -> Append(channels, r.row)
      [] r.op = "update" -> [i \in DOMAIN channels |->
                               IF channels[i].id = r.id THEN r.row ELSE channels[i]]
      [] r.op = "delete" -> Without(r.id)
      [] OTHER -> [i \in DOMAIN channels |->
                     IF channels[i].id = r.id
                       THEN [channels[i] EXCEPT !.look = "image"]
                       ELSE channels[i]]

(* What the provider does to the list when a request has been served.       *)
Applied(r) ==
    CASE r.op = "create" -> Append(channels, r.row)
      [] r.op = "openDm" -> Append(Without(r.row.id), r.row)
      [] r.op = "update" -> [i \in DOMAIN channels |->
                               IF channels[i].id = r.id THEN r.row ELSE channels[i]]
      [] r.op = "delete" -> Without(r.id)
      [] OTHER -> [i \in DOMAIN channels |->
                     IF channels[i].id = r.id
                       THEN [channels[i] EXCEPT !.look = "image"]
                       ELSE channels[i]]

(* The channel of a request, and the code after its await: a picture is     *)
(* uploaded next, and the text channel just made, or the direct channel a   *)
(* message goes to, is shown in the end.                                    *)
Target(r) == IF r.op \in {"create", "openDm"} THEN r.row.id ELSE r.id

Opens(r) == \/ r.op = "create" /\ r.stage = "served" /\ r.type = "text" /\ ~r.file
            \/ r.op = "openDm" /\ r.stage = "served" /\ r.select
            \/ r.op = "upload" /\ r.select

Answered(r) ==
    /\ r.stage # "sent"
    /\ channels' = IF r.stage = "served" THEN Applied(r) ELSE channels
    /\ chosen' = IF Opens(r) THEN Target(r) ELSE chosen
    /\ IF r.file /\ Target(r) # 0
         THEN SendsRequest(NewRequest("upload", Target(r), "text", "plain", FALSE,
                                      r.op = "create" /\ r.type = "text"), {r})
         ELSE calls' = calls \ {r} /\ UNCHANGED <<changes, drift>>
    /\ UNCHANGED <<hubChannels, made, loading, channelLoads, loadsBegun>>

(* The request or its answer is lost, and the code after the await with it. *)
AnswerLost(r) ==
    /\ calls' = calls \ {r}
    /\ drift' = (drift \/ r.stage = "served")
    /\ UNCHANGED <<hubChannels, made, channels, loading, channelLoads,
                   loadsBegun, changes, chosen>>

-----------------------------------------------------------------------------
(* The channel that is shown. *)

ReadIn(id) == \E c \in Range(channels) : c.id = id /\ c.type \in {"text", "dm"}

(* The hub page shows the chosen channel, or the first text channel; a      *)
(* spinner while the list is loading.                                       *)
Shown ==
    IF loading THEN 0
    ELSE IF ReadIn(chosen) THEN chosen
    ELSE LET texts == {i \in DOMAIN channels : channels[i].type = "text"}
         IN IF texts = {} THEN 0
            ELSE channels[CHOOSE i \in texts : \A j \in texts : i <= j].id

(* The rows of the sidebar that a click selects.                            *)
SelectTextChannel(c) ==
    /\ c.type \in {"text", "dm"} /\ chosen # c.id
    /\ changes < MaxChanges /\ changes' = changes + 1
    /\ chosen' = c.id
    /\ UNCHANGED <<hubChannels, made, channels, loading, channelLoads,
                   loadsBegun, calls, drift>>

(* The first load pins the fallback.                                        *)
PinFallback ==
    /\ chosen = 0 /\ Shown # 0
    /\ chosen' = Shown
    /\ UNCHANGED <<hubChannels, made, channels, loading, channelLoads,
                   loadsBegun, calls, changes, drift>>

-----------------------------------------------------------------------------
ChannelsNext ==
    \/ TokenRenewed \/ OthersChange \/ PinFallback
    \/ \E l \in channelLoads : LoadRead(l) \/ LoadAnswered(l) \/ LoadFails(l)
    \/ \E type \in {"text", "voice"} : SaveNew(type)
    \/ \E message \in BOOLEAN : OpenDm(message)
    \/ \E c \in Range(channels) : SaveEdit(c) \/ DeleteChannel(c)
                                 \/ SelectTextChannel(c)
    \/ \E r \in calls : Served(r) \/ Refused(r) \/ Answered(r) \/ AnswerLost(r)

-----------------------------------------------------------------------------
(* Properties. *)

(* ChannelsProvider patches the list with its own answers and reloads it    *)
(* only for a new token (channels-context.tsx:103-235): when requests and   *)
(* loads do not overlap and nobody else changes the channels, the sidebar   *)
(* shows exactly the channels of the hub, each once and with the icon the   *)
(* hub keeps, through every order of creating, editing, deleting, uploading *)
(* and opening direct channels.                                             *)
ListFollowsHub ==
    (~drift /\ calls = {} /\ ~loading /\ \A l \in channelLoads : l.n # loadsBegun) =>
        /\ Range(channels) = hubChannels
        /\ Len(channels) = Cardinality(hubChannels)
=============================================================================
