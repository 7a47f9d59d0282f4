---------------------------- MODULE ChatAccess ----------------------------
(***************************************************************************)
(* Who may read a channel, as the chat service knows it.  The hub service  *)
(* keeps channels, groups and permissions in Postgres; the chat service    *)
(* reads the same tables, caches each answer in Redis for ACL_TTL_SECS     *)
(* (services/chat/src/access.rs) and drops answers when the hub announces  *)
(* a change over NATS (services/hub/src/acl_publish.rs,                    *)
(* services/chat/src/acl_consumer.rs).                                     *)
(*                                                                         *)
(* Reading and writing have cache entries of their own and the same life:  *)
(* one of the two bits is modelled.  A check is three statements outside a *)
(* transaction and a SETEX, a sweep is a SCAN and a DEL, a request of the  *)
(* hub commits before it announces: others move in between.                *)
(***************************************************************************)
EXTENDS Naturals, Sequences

CONSTANTS
    Users, Rooms, Groups,
    Direct,      \* the rooms that are direct-message channels
    Partners,    \* Partners[r]: dm_participants of one of them
    Admins,      \* the group "admin"
    Everyone,    \* the default group
    Checks,      \* checks under way at once
    MaxChanges   \* bound: changes of the hub's rows, and failing queries

ASSUME AccessAssumption ==
    /\ Direct \subseteq Rooms /\ Partners \in [Direct -> SUBSET Users]
    /\ {Admins, Everyone} \subseteq Groups /\ Admins # Everyone
    /\ MaxChanges \in Nat

VARIABLES
    rooms,       \* channels
    unborn,      \* rooms whose id nobody has drawn yet
    opening,     \* create_channel is between its two inserts
    roles,       \* groups
    memberOf,    \* member_groups
    rows,        \* channel_permissions: the bit in deny_bits, or in allow_bits only
    owed,        \* announcements of requests that have committed
    subject,     \* acl.invalidate
    found,       \* the keys the consumer is about to delete
    cache,       \* the acl:* keys of Redis
    checks,      \* check_uncached
    changes,     \* how many changes there were
    tainted      \* ghost, see StaleIsExplained

rowVars == <<rooms, unborn, opening, roles, memberOf, rows>>
wireVars == <<owed, subject, found>>
accessVars == <<rowVars, wireVars, cache, checks, changes, tainted>>

-----------------------------------------------------------------------------
Key == [room : Rooms, user : Users]
KeysOf(r, u) == [room : r, user : u]
Change == [n : Nat, room : SUBSET Rooms, user : SUBSET Users]
Bits == {"none", "allow", "deny"}
NoCheck == [stage |-> "none"]
Check == [stage : {"channel", "participants", "groups", "rows", "store"},
          key : Key, allowed : BOOLEAN, raced : BOOLEAN]

AccessTypeOK ==
    /\ rooms \subseteq Rooms /\ unborn \subseteq Rooms \ rooms
    /\ opening \subseteq Rooms /\ roles \subseteq Groups
    /\ memberOf \in [Users -> SUBSET Groups]
    /\ rows \in [Rooms -> [Groups -> Bits]]
    /\ owed \subseteq Change /\ subject \in Seq(Change) /\ found \subseteq Key
    /\ cache \in [Key -> {"none", "yes", "no"}]
    /\ checks \in [Checks -> Check \cup {NoCheck}]
    /\ changes \in Nat /\ tainted \subseteq Key

\* effective_permissions and has_permission for the one bit.
Effective(k) ==
    /\ \E g \in memberOf[k.user] : rows[k.room][g] = "allow"
    /\ \A g \in memberOf[k.user] : rows[k.room][g] # "deny"

\* What the tables say.
May(k) ==
    /\ k.room \in rooms
    /\ IF k.room \in Direct THEN k.user \in Partners[k.room]
       ELSE Admins \in memberOf[k.user] \/ Effective(k)

Answer(k) == IF May(k) THEN "yes" ELSE "no"

\* Some channels are there, with the row every new channel gets.
AccessInit ==
    /\ rooms \in SUBSET Rooms /\ unborn = Rooms \ rooms /\ opening = {}
    /\ roles = Groups /\ memberOf = [u \in Users |-> {Everyone}]
    /\ rows = [r \in Rooms |-> [g \in Groups |->
                 IF r \in rooms \ Direct /\ g = Everyone THEN "allow" ELSE "none"]]
    /\ owed = {} /\ subject = <<>> /\ found = {}
    /\ cache = [k \in Key |-> "none"] /\ checks = [c \in Checks |-> NoCheck]
    /\ changes = 0 /\ tainted = {}

-----------------------------------------------------------------------------
(* The hub's requests.                                                     *)

Held(keys) == {k \in keys : cache[k] # "none"}

MayChange == changes < MaxChanges

\* Rows of some keys change: what a check has read of them no longer counts.
Changes(keys) ==
    /\ changes' = changes + 1
    /\ checks' = [c \in Checks |->
          IF checks[c].stage \notin {"none", "channel"} /\ checks[c].key \in keys
          THEN [checks[c] EXCEPT !.raced = TRUE] ELSE checks[c]]

\* ... and the request goes on to say so,
Owes(r, u) ==
    /\ Changes(KeysOf(r, u))
    /\ owed' = owed \cup {[n |-> changes + 1, room |-> r, user |-> u]}
    /\ UNCHANGED <<subject, found, cache, tainted>>

\* ... or says nothing.
Silent(keys) ==
    /\ Changes(keys)
    /\ tainted' = tainted \cup Held(keys)
    /\ UNCHANGED <<wireVars, cache>>

\* set_channel_permission, and delete_channel_permission when bits is "none".
SetPermission(r, g, bits) ==
    /\ MayChange /\ r \in rooms /\ g \in roles
    /\ rows' = [rows EXCEPT ![r][g] = bits]
    /\ Owes({r}, Users)
    /\ UNCHANGED <<rooms, unborn, opening, roles, memberOf>>

\* add_member_to_group.
AddToGroup(u, g) ==
    /\ MayChange /\ g \in roles
    /\ memberOf' = [memberOf EXCEPT ![u] = @ \cup {g}]
    /\ Owes(Rooms, {u})
    /\ UNCHANGED <<rooms, unborn, opening, roles, rows>>

\* Faulty variant of RemoveFromGroup: it announces nothing.
RemoveUnsaid(u, g) ==
    /\ MayChange /\ g \in roles
    /\ memberOf' = [memberOf EXCEPT ![u] = @ \ {g}]
    /\ Changes(KeysOf(Rooms, {u}))
    /\ UNCHANGED <<rooms, unborn, opening, roles, rows, wireVars, cache, tainted>>

\* remove_member_from_group.
RemoveFromGroup(u, g) ==
    /\ MayChange /\ g \in roles
    /\ memberOf' = [memberOf EXCEPT ![u] = @ \ {g}]
    /\ Owes(Rooms, {u})
    /\ UNCHANGED <<rooms, unborn, opening, roles, rows>>

\* kick_member; when its second statement fails the groups are gone all the
\* same and nothing is announced (Forgotten).
Kick(u) ==
    /\ MayChange
    /\ memberOf' = [memberOf EXCEPT ![u] = {}]
    /\ Owes(Rooms, {u})
    /\ UNCHANGED <<rooms, unborn, opening, roles, rows>>

\* A user comes in, perhaps again: the default group and the one of the guest
\* link, unannounced.
JoinHub(u, g) ==
    /\ MayChange /\ g \in roles
    /\ memberOf' = [memberOf EXCEPT ![u] = @ \cup {Everyone, g}]
    /\ Silent(KeysOf(Rooms, {u}))
    /\ UNCHANGED <<rooms, unborn, opening, roles, rows>>

\* delete_group: its members and permissions go with it, unannounced.
DeleteGroup(g) ==
    /\ MayChange /\ g \in roles \ {Admins, Everyone}
    /\ roles' = roles \ {g}
    /\ memberOf' = [u \in Users |-> memberOf[u] \ {g}]
    /\ rows' = [r \in Rooms |-> [rows[r] EXCEPT ![g] = "none"]]
    /\ Silent(Key)
    /\ UNCHANGED <<rooms, unborn, opening>>

\* delete_channel, unannounced too.
DeleteRoom(r) ==
    /\ MayChange /\ r \in rooms
    /\ rooms' = rooms \ {r}
    /\ rows' = [rows EXCEPT ![r] = [g \in Groups |-> "none"]]
    /\ Silent(KeysOf({r}, Users))
    /\ UNCHANGED <<unborn, opening, roles, memberOf>>

\* create_channel inserts the channel,
CreateRoom(r) ==
    /\ MayChange /\ r \in unborn \ Direct
    /\ unborn' = unborn \ {r} /\ rooms' = rooms \cup {r}
    /\ opening' = opening \cup {r}
    /\ Changes(KeysOf({r}, Users))
    /\ UNCHANGED <<roles, memberOf, rows, wireVars, cache, tainted>>

\* ... then the row of the default group, unless somebody has set one,
OpenRoom(r) ==
    /\ r \in opening \cap rooms
    /\ opening' = opening \ {r}
    /\ \E bits \in {rows[r][Everyone], "allow"} :
         /\ rows[r][Everyone] \in {"none", bits}
         /\ rows' = [rows EXCEPT ![r][Everyone] = bits]
    /\ Owes({r}, Users)
    /\ UNCHANGED <<rooms, unborn, roles, memberOf>>

\* ... or fails there.
OpenRoomFails(r) ==
    /\ r \in opening
    /\ opening' = opening \ {r}
    /\ tainted' = tainted \cup Held(KeysOf({r}, Users))
    /\ UNCHANGED <<rooms, unborn, roles, memberOf, rows, wireVars, cache, checks,
                   changes>>

\* open_dm inserts channel and participants in one transaction.
OpenDm(r) ==
    /\ MayChange /\ r \in unborn \cap Direct
    /\ unborn' = unborn \ {r} /\ rooms' = rooms \cup {r}
    /\ Owes({r}, Users)
    /\ UNCHANGED <<opening, roles, memberOf, rows>>

-----------------------------------------------------------------------------
(* Announcements.                                                          *)

\* publish.
Announce(o) ==
    /\ owed' = owed \ {o}
    /\ subject' = Append(subject, o)
    /\ UNCHANGED <<rowVars, found, cache, checks, changes, tainted>>

\* The request ended before it, or NATS took nothing.
Forgotten(o) ==
    /\ owed' = owed \ {o}
    /\ tainted' = tainted \cup Held(KeysOf(o.room, o.user))
    /\ UNCHANGED <<rowVars, subject, found, cache, checks, changes>>

\* apply sweeps with the pattern of the scope.  A SCAN returns what is there
\* from its first page to its last; what comes meanwhile counts as missed.
Scan ==
    /\ subject # <<>> /\ found = {}
    /\ subject' = Tail(subject)
    /\ found' = Held(KeysOf(Head(subject).room, Head(subject).user))
    /\ UNCHANGED <<rowVars, owed, cache, checks, changes, tainted>>

\* No subscriber, or SCAN fails.
ScanFails ==
    /\ subject # <<>> /\ found = {}
    /\ subject' = Tail(subject)
    /\ tainted' = tainted
         \cup Held(KeysOf(Head(subject).room, Head(subject).user))
    /\ UNCHANGED <<rowVars, owed, found, cache, checks, changes>>

\* DEL.
Delete ==
    /\ found # {} /\ found' = {}
    /\ cache' = [k \in Key |-> IF k \in found THEN "none" ELSE cache[k]]
    /\ tainted' = tainted \ found
    /\ UNCHANGED <<rowVars, owed, subject, checks, changes>>

\* DEL fails, which is only logged.
DeleteFails ==
    /\ found # {} /\ found' = {}
    /\ tainted' = tainted \cup Held(found)
    /\ UNCHANGED <<rowVars, owed, subject, cache, checks, changes>>

-----------------------------------------------------------------------------
(* check.                                                                  *)

\* Redis has no answer.  A hit changes nothing.
BeginCheck(c, k) ==
    /\ checks[c] = NoCheck /\ cache[k] = "none"
    /\ checks' = [checks EXCEPT ![c] =
          [stage |-> "channel", key |-> k, allowed |-> FALSE, raced |-> FALSE]]
    /\ UNCHANGED <<rowVars, wireVars, cache, changes, tainted>>

\* GET fails, which counts as a miss.
GetFails(c, k) ==
    /\ MayChange /\ checks[c] = NoCheck
    /\ changes' = changes + 1
    /\ checks' = [checks EXCEPT ![c] =
          [stage |-> "channel", key |-> k, allowed |-> FALSE, raced |-> FALSE]]
    /\ UNCHANGED <<rowVars, wireVars, cache, tainted>>

\* The check goes on to a stage; an answer is carried to the last.
To(c, stage, allowed) ==
    /\ checks' = [checks EXCEPT ![c].stage = stage, ![c].allowed = allowed]
    /\ UNCHANGED <<rowVars, wireVars, cache, changes, tainted>>

\* The channel's type.
ReadChannel(c) ==
    /\ checks[c].stage = "channel"
    /\ To(c, CASE checks[c].key.room \notin rooms -> "store"
               [] checks[c].key.room \in rooms \cap Direct -> "participants"
               [] OTHER -> "groups", FALSE)

\* dm_participants.
ReadParticipants(c) ==
    /\ checks[c].stage = "participants"
    /\ To(c, "store", May(checks[c].key))

\* resolve_user_perms: an administrator may.
ReadGroups(c) ==
    /\ checks[c].stage = "groups"
    /\ IF Admins \in memberOf[checks[c].key.user] THEN To(c, "store", TRUE)
       ELSE To(c, "rows", FALSE)

\* channel_permissions joined with member_groups, and effective_permissions.
ReadRows(c) ==
    /\ checks[c].stage = "rows"
    /\ To(c, "store", Effective(checks[c].key))

\* A query fails: that is a refusal, and is stored like one.
QueryFails(c) ==
    /\ checks[c].stage \notin {"none", "store"} /\ MayChange
    /\ changes' = changes + 1
    /\ checks' = [checks EXCEPT ![c].stage = "store", ![c].allowed = FALSE,
                                ![c].raced = TRUE]
    /\ UNCHANGED <<rowVars, wireVars, cache, tainted>>

\* SETEX.
Store(c) ==
    /\ checks[c].stage = "store"
    /\ LET k == checks[c].key IN
       /\ cache' = [cache EXCEPT ![k] = IF checks[c].allowed THEN "yes" ELSE "no"]
       /\ tainted' = IF checks[c].raced THEN tainted \cup {k} ELSE tainted \ {k}
    /\ checks' = [checks EXCEPT ![c] = NoCheck]
    /\ UNCHANGED <<rowVars, wireVars, changes>>

\* SETEX fails, which nobody looks at.
StoreFails(c) ==
    /\ checks[c].stage = "store"
    /\ checks' = [checks EXCEPT ![c] = NoCheck]
    /\ UNCHANGED <<rowVars, wireVars, cache, changes, tainted>>

\* Faulty variant of Expires: refusals are stored without a time to live.
ExpiresGranted(k) ==
    /\ cache[k] = "yes"
    /\ cache' = [cache EXCEPT ![k] = "none"]
    /\ tainted' = tainted \ {k}
    /\ UNCHANGED <<rowVars, wireVars, checks, changes>>

\* The time to live is over.
Expires(k) ==
    /\ cache[k] # "none"
    /\ cache' = [cache EXCEPT ![k] = "none"]
    /\ tainted' = tainted \ {k}
    /\ UNCHANGED <<rowVars, wireVars, checks, changes>>

-----------------------------------------------------------------------------
HubRequest ==
    \/ \E r \in Rooms : \/ \E g \in Groups, bits \in Bits : SetPermission(r, g, bits)
                        \/ DeleteRoom(r) \/ CreateRoom(r) \/ OpenRoom(r)
                        \/ OpenRoomFails(r) \/ OpenDm(r)
    \/ \E u \in Users : \/ \E g \in Groups : \/ AddToGroup(u, g) \/ JoinHub(u, g)
                                               \/ RemoveFromGroup(u, g)
                        \/ Kick(u)
    \/ \E g \in Groups : DeleteGroup(g)

Invalidation ==
    \/ \E o \in owed : Announce(o) \/ Forgotten(o)
    \/ Scan \/ ScanFails \/ Delete \/ DeleteFails

CheckGoesOn(c) ==
    \/ ReadChannel(c) \/ ReadParticipants(c) \/ ReadGroups(c) \/ ReadRows(c)
    \/ Store(c) \/ StoreFails(c)

AccessNext ==
    \/ HubRequest \/ Invalidation
    \/ \E c \in Checks : \/ \E k \in Key : BeginCheck(c, k) \/ GetFails(c, k)
                         \/ CheckGoesOn(c) \/ QueryFails(c)
    \/ \E k \in Key : Expires(k)

AccessSpec == AccessInit /\ [][AccessNext]_accessVars

-----------------------------------------------------------------------------
(* Properties.                                                             *)

\* A cached answer that is not what the tables say is about to be swept, or it
\* is one of those nothing will sweep (tainted): a change that is not announced
\* (a deleted group or channel, a user who comes in again, a request that broke
\* off, a lost message), a check that had begun before the change or whose
\* query failed.  Otherwise every announcement comes after its change, covers
\* every key the change touches, and a sweep leaves no entry of before.
StaleIsExplained ==
    \A k \in Key :
      cache[k] \notin {"none", Answer(k)} =>
        \/ k \in tainted \/ k \in found \/ k.room \in opening
        \/ \E o \in owed : k \in KeysOf(o.room, o.user)
        \/ \E i \in DOMAIN subject : k \in KeysOf(subject[i].room, subject[i].user)

\* Once nothing changes any more the cache comes to agree with the tables and
\* stays so, whatever was lost or raced: time to live is enough.
AccessSettles == <>[](\A k \in Key : cache[k] \in {"none", Answer(k)})
=============================================================================
