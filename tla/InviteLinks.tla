---------------------------- MODULE InviteLinks ----------------------------
(***************************************************************************)
(* General invite links of a hub: one link shared by many visitors, each   *)
(* of whom registers himself and takes one of its slots (services/hub/src/ *)
(* api/invite_links.rs; revocation in api/members.rs; the tables in        *)
(* migrations/002_invite_links.sql and 001_init.sql).                      *)
(*                                                                         *)
(* A redemption is one READ COMMITTED transaction of Postgres.  What such  *)
(* a transaction holds follows from where it is: the row of its link from  *)
(* the claim on, the entry of its name in users_username_key and then of   *)
(* its email in idx_users_email from the INSERT on.  Another transaction   *)
(* that wants one of them waits for the end of this one.  What it wrote is *)
(* seen by others when it commits, and by nobody when it rolls back.       *)
(***************************************************************************)
EXTENDS Naturals, FiniteSets

CONSTANTS
    Link,
    Request,     \* POST /v1/invite-links/{token}/redeem, one transaction each
    Name,        \* usernames
    Email,
    MaxCap,      \* bound: the largest max_uses
    Unlimited,   \* max_uses NULL
    NoRequest    \* a request that has not come yet

ASSUME MaxCapAssumption == MaxCap \in Nat
ASSUME UnlimitedAssumption == Unlimited \notin Nat

VARIABLES
    created,     \* rows of invite_links
    cap,         \* max_uses
    uses,        \* uses_count, as committed
    revoked,     \* links with a revoked_at
    expired,     \* links with expires_at <= now()
    users,       \* committed rows of users, each with its link
    want,        \* the link, name and email of a request
    fresh,       \* was the link unexpired when the transaction began? (now()
                 \* in Postgres is the time of BEGIN)
    pc           \* where the handler of a request is

linkVars == <<created, cap, uses, revoked, expired>>
vars == <<linkVars, users, want, fresh, pc>>

Wish == [link : Link, name : Name, email : Email]

InTx == {"claimed", "checked", "named", "inserted"}
Refusal == {"gone", "taken", "internal"}
HandlerState == {"idle", "begun", "committed", "ok"} \cup InTx \cup Refusal

-----------------------------------------------------------------------------
(* What transactions hold and see.                                         *)

LinkFree(l) == \A r \in Request : pc[r] \in InTx => want[r].link # l

NameFree(r) ==
    \A q \in Request \ {r} :
      pc[q] \in {"named", "inserted"} => want[q].name # want[r].name
EmailFree(r) ==
    \A q \in Request \ {r} : pc[q] = "inserted" => want[q].email # want[r].email

NameTaken(r) == \E u \in users : u.name = want[r].name
EmailTaken(r) == \E u \in users : u.email = want[r].email

HasSlot(l) == cap[l] = Unlimited \/ uses[l] < cap[l]

\* The WHERE of the claim, but for the token.
Alive(r) ==
    /\ want[r].link \notin revoked
    /\ fresh[r]
    /\ HasSlot(want[r].link)

Goto(r, where) == pc' = [pc EXCEPT ![r] = where]

Init ==
    /\ created = {} /\ revoked = {} /\ expired = {}
    /\ cap = [l \in Link |-> Unlimited]
    /\ uses = [l \in Link |-> 0]
    /\ users = {}
    /\ want = [r \in Request |-> NoRequest]
    /\ fresh = [r \in Request |-> FALSE]
    /\ pc = [r \in Request |-> "idle"]

-----------------------------------------------------------------------------
(* The life of a link.                                                     *)

\* create_invite_link: not born dead, max_uses NULL or positive.
CreateLink(l, n) ==
    /\ l \notin created
    /\ created' = created \cup {l}
    /\ cap' = [cap EXCEPT ![l] = n]
    /\ UNCHANGED <<uses, revoked, expired, users, want, fresh, pc>>

Expire(l) ==
    /\ l \in created \ expired
    /\ expired' = expired \cup {l}
    /\ UNCHANGED <<created, cap, uses, revoked, users, want, fresh, pc>>

\* Faulty variant of Revoke: the row is not waited for.
RevokeAtOnce(l) ==
    /\ l \in created \ revoked
    /\ revoked' = revoked \cup {l}
    /\ UNCHANGED <<created, cap, uses, expired, users, want, fresh, pc>>

\* delete_pending_link: its UPDATE waits for the row.
Revoke(l) ==
    /\ l \in created \ revoked
    /\ LinkFree(l)
    /\ revoked' = revoked \cup {l}
    /\ UNCHANGED <<created, cap, uses, expired, users, want, fresh, pc>>

-----------------------------------------------------------------------------
(* redeem_invite_link.                                                     *)

\* A well-formed body; BEGIN.
Begin(r, wish) ==
    /\ pc[r] = "idle"
    /\ wish.link \in created
    /\ want' = [want EXCEPT ![r] = wish]
    /\ fresh' = [fresh EXCEPT ![r] = wish.link \notin expired]
    /\ Goto(r, "begun")
    /\ UNCHANGED <<linkVars, users>>

\* UPDATE invite_links ... RETURNING: wait for the row, then look at it.
Claim(r) ==
    /\ pc[r] = "begun"
    /\ LinkFree(want[r].link)
    /\ Goto(r, IF Alive(r) THEN "claimed" ELSE "gone")
    /\ UNCHANGED <<linkVars, users, want, fresh>>

\* Faulty variant of Abort: the claim was a transaction of its own.
AbortBurnsSlot(r, refusal) ==
    /\ Goto(r, refusal)
    /\ uses' = [uses EXCEPT ![want[r].link] = @ + 1]
    /\ UNCHANGED <<created, cap, revoked, expired, users, want, fresh>>

\* An early return drops the transaction: ROLLBACK.
Abort(r, refusal) ==
    /\ Goto(r, refusal)
    /\ UNCHANGED <<linkVars, users, want, fresh>>

Advance(r, where) ==
    /\ Goto(r, where)
    /\ UNCHANGED <<linkVars, users, want, fresh>>

\* The two pre-flight SELECTs, and bcrypt.  (Users only grow, so one look at
\* the time of the second sees what the two see.)
Preflight(r) ==
    /\ pc[r] = "claimed"
    /\ IF NameTaken(r) \/ EmailTaken(r)
         THEN Abort(r, "taken")
         ELSE Advance(r, "checked")

\* Faulty variant of InsertName: a taken name is waited for like a held one.
InsertNameWaits(r) ==
    /\ pc[r] = "checked"
    /\ NameFree(r) /\ ~NameTaken(r)
    /\ Advance(r, "named")

\* INSERT INTO users: the entry in users_username_key ...
InsertName(r) ==
    /\ pc[r] = "checked"
    /\ NameFree(r)
    /\ IF NameTaken(r) THEN Abort(r, "taken") ELSE Advance(r, "named")

\* ... and the one in idx_users_email.
InsertEmail(r) ==
    /\ pc[r] = "named"
    /\ EmailFree(r)
    /\ IF EmailTaken(r) THEN Abort(r, "taken") ELSE Advance(r, "inserted")

\* The connection, or any statement, fails.
Fail(r) ==
    /\ pc[r] \in {"begun"} \cup InTx
    /\ Abort(r, "internal")

\* The memberships, which nothing else contends for, and COMMIT.
Commit(r) ==
    /\ pc[r] = "inserted"
    /\ uses' = [uses EXCEPT ![want[r].link] = @ + 1]
    /\ users' = users \cup {want[r]}
    /\ Goto(r, "committed")
    /\ UNCHANGED <<created, cap, revoked, expired, want, fresh>>

\* After the commit: the hub's slug and the two tokens, which may fail.
Answer(r) ==
    /\ pc[r] = "committed"
    /\ \E answer \in {"ok", "internal"} : Advance(r, answer)

Redeem(r) == \/ Claim(r) \/ Preflight(r) \/ InsertName(r) \/ InsertEmail(r)
             \/ Commit(r) \/ Answer(r)

-----------------------------------------------------------------------------
Next ==
    \/ \E l \in Link :
         \/ \E n \in (1..MaxCap) \cup {Unlimited} : CreateLink(l, n)
         \/ Expire(l) \/ Revoke(l)
    \/ \E r \in Request :
         \/ \E wish \in Wish : Begin(r, wish)
         \/ Redeem(r) \/ Fail(r)

Spec == Init /\ [][Next]_vars

\* The handlers run, and a lock that is free is granted.
Fairness == \A r \in Request : WF_vars(Redeem(r))

FairSpec == Spec /\ Fairness

-----------------------------------------------------------------------------
(* Properties.                                                             *)

\* The types, with the constraint uses_within_max of 002_invite_links.sql,
\* which no statement of the redemption may run into.
TypeOK ==
    /\ created \in SUBSET Link /\ revoked \in SUBSET Link /\ expired \in SUBSET Link
    /\ cap \in [Link -> (1..MaxCap) \cup {Unlimited}]
    /\ uses \in [Link -> Nat]
    /\ \A l \in Link : cap[l] # Unlimited => uses[l] <= cap[l]
    /\ users \in SUBSET Wish
    /\ want \in [Request -> Wish \cup {NoRequest}]
    /\ \A r \in Request : pc[r] # "idle" => want[r] \in Wish
    /\ fresh \in [Request -> BOOLEAN]
    /\ pc \in [Request -> HandlerState]

\* Collisions never burn a slot, and no one joins without one: a link has
\* counted as many uses as users registered through it (invite_links.rs:8-12).
SlotsMatchUsers ==
    \A l \in Link : uses[l] = Cardinality({u \in users : u.link = l})

\* No two users share a name or an email, whatever links they came through at
\* the same time (the race-loser of invite_links.rs:337).
UniqueUsers ==
    \A u, v \in users : (u.name = v.name \/ u.email = v.email) => u = v

\* A visitor is told "link_unavailable" only of a link that is revoked, that
\* had expired, or whose slots are all taken by users: never because of a
\* redemption that itself came to nothing (test concurrent_redeem_respects_cap).
GoneOnlyWhenDead ==
    \A r \in Request : pc[r] = "gone" =>
      \/ want[r].link \in revoked
      \/ ~fresh[r]
      \/ uses[want[r].link] = cap[want[r].link]

\* After the revocation of a link has been answered, nobody comes in through it
\* (members.rs:588-590: the claim's predicate "closes the window").
NobodyJoinsRevoked ==
    [][\A u \in users' \ users : u.link \notin revoked]_vars

\* Waiting for rows and index entries never becomes waiting for each other:
\* every request is answered (invite_links.rs redeem_invite_link).
EveryRedeemAnswered ==
    \A r \in Request : (pc[r] = "begun") ~> (pc[r] \in {"ok"} \cup Refusal)
=============================================================================
