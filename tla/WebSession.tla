---------------------------- MODULE WebSession ----------------------------
(***************************************************************************)
(* The session of the web application: AuthProvider of lib/auth.tsx, which *)
(* keeps the session in React state and in the localStorage that all tabs  *)
(* of a browser share, renews it with a refresh token the hub service      *)
(* replaces at every use, and the pages that sign a user in.               *)
(*                                                                         *)
(* The n-th sign-in or renewal issues access token n and refresh token n.  *)
(* A renewal is a record of `renewals` from its request to the code that   *)
(* runs when the answer arrives; what the service does to the tokens lies  *)
(* in between, in the two statements of its handler.  A page load or a     *)
(* reload throws the tab's state and its waiting code away, not the        *)
(* requests themselves.                                                    *)
(***************************************************************************)
EXTENDS Integers, FiniteSets

CONSTANTS Tabs,        \* the tabs of one browser
          MaxWork,     \* bound on the tokens issued, page loads and logouts
          MaxRenewals  \* bound on the renewals under way at once

ASSUME SessionAssumption == /\ MaxWork \in Nat \ {0}
                            /\ MaxRenewals \in Nat

VARIABLES issued,     \* how many tokens the service has issued
          valid,      \* refresh_tokens: the refresh tokens the service takes
          expired,    \* the access tokens whose time is over
          stored,     \* localStorage[STORAGE_KEY]
          live,       \* `session` of each tab
          booting,    \* `isLoading`, and whether the mount effects have run
          timer,      \* the session the tab's refresh timer closes over
          over,       \* `sessionExpired`: the guest is shown the modal
          renewals,   \* the renewals under way
          revoking,   \* the POST /logout requests under way
          page,       \* where each tab is, and the state of that page
          fresh,      \* the service still waits for its first-run set-up
          loads       \* page loads and logouts so far

sessionVars == <<issued, valid, expired, stored, live, booting, timer, over,
                 renewals, revoking, page, fresh, loads>>

-----------------------------------------------------------------------------
(* Sessions, pages and renewals. *)

Signed == "permanent"
Guest == "temp"
NoSession == [kind |-> "none", token |-> 0, refreshToken |-> 0]

(* A refresh token 0 is none: a guest, or a sign-in without "Remember me". *)
AuthSession == [kind : {Signed, Guest}, token : 1..MaxWork,
                refreshToken : 0..MaxWork]

Routes == {"home", "login", "signup", "register", "setup", "join", "hub"}

(* `phase` is what the page waits for or shows; `hub` says that the login  *)
(* page knows which hub it serves; `token` is the guest's, once the link is *)
(* resolved.                                                               *)
Pages == [at : Routes,
          phase : {"loading", "form", "second", "asking", "submitting", "dead"},
          hub : BOOLEAN, token : 0..MaxWork]

Starting(r) == [at |-> r,
                phase |-> IF r \in {"setup", "hub"} THEN "form" ELSE "loading",
                hub |-> FALSE, token |-> 0]

NoTab == "gone"   \* the tab of a request whose page was left

ASSUME TabsAssumption == NoTab \notin Tabs

Renewals == [tab : Tabs \cup {NoTab}, by : {"timer", "restore", "unauthorized"},
             of : AuthSession,
             answer : {"sent", "found", "refused", "renewed"},
             token : 0..MaxWork, late : BOOLEAN]

SessionTypeOK ==
    /\ issued \in 0..MaxWork
    /\ valid \subseteq 1..issued
    /\ expired \subseteq 1..issued
    /\ stored \in AuthSession \cup {NoSession}
    /\ live \in [Tabs -> AuthSession \cup {NoSession}]
    /\ booting \in [Tabs -> {"mount", "restoring", "done"}]
    /\ timer \in [Tabs -> AuthSession \cup {NoSession}]
    /\ over \in [Tabs -> BOOLEAN]
    /\ renewals \subseteq Renewals
    /\ revoking \subseteq 1..issued
    /\ page \in [Tabs -> Pages]
    /\ fresh \in BOOLEAN
    /\ loads \in 0..MaxWork

SessionInit ==
    /\ issued = 0 /\ valid = {} /\ expired = {}
    /\ stored = NoSession
    /\ live = [t \in Tabs |-> NoSession]
    /\ booting = [t \in Tabs |-> "mount"]
    /\ timer = [t \in Tabs |-> NoSession]
    /\ over = [t \in Tabs |-> FALSE]
    /\ renewals = {} /\ revoking = {}
    /\ page = [t \in Tabs |-> Starting("home")]
    /\ fresh \in BOOLEAN
    /\ loads = 0

-----------------------------------------------------------------------------
(* What the actions are made of. *)

Renewing(t) == {c \in renewals : c.tab = t}

(* A request for new tokens; `late` will say that the tab signed out since. *)
Ask(t, by, s) ==
    /\ Cardinality(renewals) < MaxRenewals
    /\ renewals' = renewals \cup
           {[tab |-> t, by |-> by, of |-> s, answer |-> "sent", token |-> 0,
             late |-> FALSE]}

(* scheduleRefresh: one timer per tab, closing over the session it renews. *)
Scheduled(t, s) ==
    [timer EXCEPT ![t] = IF s.refreshToken = 0 THEN NoSession ELSE s]

(* A full page load: the tab starts over, and its requests find nobody     *)
(* waiting for the answer.                                                 *)
Left(t, some) ==
    (renewals \ some) \cup {[c EXCEPT !.tab = NoTab] : c \in some}

LoadsPage(t, r) ==
    /\ live' = [live EXCEPT ![t] = NoSession]
    /\ booting' = [booting EXCEPT ![t] = "mount"]
    /\ timer' = [timer EXCEPT ![t] = NoSession]
    /\ over' = [over EXCEPT ![t] = FALSE]
    /\ page' = [page EXCEPT ![t] = Starting(r)]

(* setSession(null), removeItem, location.href = "/login". *)
Kicked(t, c) ==
    /\ stored' = NoSession
    /\ LoadsPage(t, "login")
    /\ renewals' = Left(t, Renewing(t) \ c) \ c

(* login: React state, localStorage and the refresh timer, then /hub. *)
SignsIn(t, s) ==
    /\ live' = [live EXCEPT ![t] = s]
    /\ stored' = s
    /\ timer' = Scheduled(t, s)
    /\ page' = [page EXCEPT ![t] = Starting("hub")]

-----------------------------------------------------------------------------
(* Restoring a session on mount. *)

(* restore, as far as its first await: nothing is stored, a guest session   *)
(* or one that cannot be renewed has run out, the token is still good, or   *)
(* new tokens are asked for.  (No session that is stored carries the        *)
(* `expiresAt` that restore looks at first.)                                *)
Restore(t) ==
    /\ booting[t] = "mount"
    /\ \/ /\ stored # NoSession /\ stored.token \notin expired
          /\ live' = [live EXCEPT ![t] = stored]
          /\ timer' = Scheduled(t, stored)
          /\ booting' = [booting EXCEPT ![t] = "done"]
          /\ UNCHANGED <<stored, renewals>>
       \/ /\ stored # NoSession /\ stored.token \in expired
          /\ stored.refreshToken # 0
          /\ booting' = [booting EXCEPT ![t] = "restoring"]
          /\ Ask(t, "restore", stored)
          /\ UNCHANGED <<stored, live, timer>>
       \/ /\ stored = NoSession \/ (stored.token \in expired /\ stored.refreshToken = 0)
          /\ stored' = NoSession
          /\ booting' = [booting EXCEPT ![t] = "done"]
          /\ UNCHANGED <<live, timer, renewals>>
    /\ UNCHANGED <<issued, valid, expired, over, revoking, page, fresh, loads>>

-----------------------------------------------------------------------------
(* Renewing the tokens. *)

(* The timer of scheduleRefresh fires, at 80 % of the token's time or after *)
(* thirty seconds, whichever is later: at any time, for the model.          *)
RefreshTimerFires(t) ==
    /\ timer[t] # NoSession
    /\ timer' = [timer EXCEPT ![t] = NoSession]
    /\ Ask(t, "timer", timer[t])
    /\ UNCHANGED <<issued, valid, expired, stored, live, booting, over,
                   revoking, page, fresh, loads>>

(* Faulty variant: a guest is sent to /login like everybody else. *)
UnauthorizedBounces(t) ==
    /\ live[t] # NoSession /\ live[t].token \in expired
    /\ ~\E c \in Renewing(t) : c.by = "unauthorized"
    /\ \/ /\ live[t].refreshToken # 0
          /\ Ask(t, "unauthorized", live[t])
          /\ UNCHANGED <<stored, live, booting, timer, over, page>>
       \/ /\ live[t].refreshToken = 0
          /\ Kicked(t, {})
    /\ UNCHANGED <<issued, valid, expired, revoking, fresh, loads>>

(* handleUnauthorized, after a 401: renew, or show the guest the modal, or  *)
(* go back to /login.  One 401 of a tab is being handled at a time.         *)
HandleUnauthorized(t) ==
    /\ live[t] # NoSession /\ live[t].token \in expired
    /\ ~\E c \in Renewing(t) : c.by = "unauthorized"
    /\ \/ /\ live[t].refreshToken # 0
          /\ Ask(t, "unauthorized", live[t])
          /\ UNCHANGED <<stored, live, booting, timer, over, page>>
       \/ /\ live[t].kind = Guest
          /\ over' = [over EXCEPT ![t] = TRUE]
          /\ UNCHANGED <<stored, live, booting, timer, renewals, page>>
       \/ /\ live[t].kind = Signed /\ live[t].refreshToken = 0
          /\ Kicked(t, {})
    /\ UNCHANGED <<issued, valid, expired, revoking, fresh, loads>>

(* The handler of POST /refresh looks the token up ...                      *)
RefreshFinds(c) ==
    /\ c.answer = "sent"
    /\ renewals' = (renewals \ {c}) \cup
         (IF c.of.refreshToken \in valid THEN {[c EXCEPT !.answer = "found"]}
          ELSE IF c.tab = NoTab THEN {} ELSE {[c EXCEPT !.answer = "refused"]})
    /\ UNCHANGED <<issued, valid, expired, stored, live, booting, timer, over,
                   revoking, page, fresh, loads>>

(* ... and later replaces it; another renewal may have done so in between,  *)
(* and then both get new tokens.                                            *)
RefreshRotates(c) ==
    /\ c.answer = "found" /\ issued + loads < MaxWork
    /\ issued' = issued + 1
    /\ valid' = (valid \ {c.of.refreshToken}) \cup {issued'}
    /\ renewals' = (renewals \ {c}) \cup
         {[c EXCEPT !.answer = "renewed", !.token = issued']}
    /\ UNCHANGED <<expired, stored, live, booting, timer, over, revoking, page,
                   fresh, loads>>

Renewed(c) ==
    [c.of EXCEPT !.token = c.token, !.refreshToken = c.token]

(* Faulty variant: the new tokens never reach localStorage. *)
RenewalSucceedsUnsaved(c) ==
    LET t == c.tab IN
    /\ t # NoTab /\ c.answer = "renewed"
    /\ live' = [live EXCEPT ![t] = Renewed(c)]
    /\ timer' = Scheduled(t, Renewed(c))
    /\ booting' = [booting EXCEPT ![t] = IF c.by = "restore" THEN "done" ELSE @]
    /\ renewals' = renewals \ {c}
    /\ UNCHANGED <<issued, valid, expired, stored, over, revoking, page, fresh,
                   loads>>

(* tryRefresh returns the new session: it is stored, it becomes the tab's,  *)
(* and the next renewal is scheduled, whatever has happened to the tab's    *)
(* session since the request was made.                                      *)
RenewalSucceeds(c) ==
    LET t == c.tab IN
    /\ t # NoTab /\ c.answer = "renewed"
    /\ stored' = Renewed(c)
    /\ live' = [live EXCEPT ![t] = Renewed(c)]
    /\ timer' = Scheduled(t, Renewed(c))
    /\ booting' = [booting EXCEPT ![t] = IF c.by = "restore" THEN "done" ELSE @]
    /\ renewals' = renewals \ {c}
    /\ UNCHANGED <<issued, valid, expired, over, revoking, page, fresh, loads>>

(* tryRefresh returns null, refused or because the request or the answer    *)
(* was lost: the timer and handleUnauthorized send the tab to /login,       *)
(* restore goes on without a session.                                       *)
RenewalFails(c) ==
    LET t == c.tab IN
    /\ t # NoTab /\ c.answer # "found"
    /\ \/ c.by # "restore" /\ Kicked(t, {c})
       \/ /\ c.by = "restore"
          /\ stored' = NoSession
          /\ booting' = [booting EXCEPT ![t] = "done"]
          /\ renewals' = renewals \ {c}
          /\ UNCHANGED <<live, timer, over, page>>
    /\ UNCHANGED <<issued, valid, expired, revoking, fresh, loads>>

(* An access token runs out; the tokens do so in the order of their issue. *)
TokenExpires(n) ==
    /\ n \in 1..issued \ expired /\ \A k \in 1..(n - 1) : k \in expired
    /\ expired' = expired \cup {n}
    /\ UNCHANGED <<issued, valid, stored, live, booting, timer, over, renewals,
                   revoking, page, fresh, loads>>

-----------------------------------------------------------------------------
(* The end of a session. *)

(* The modal over the hub, which nothing but its button closes. *)
SessionExpiredDialog(t) == over[t]

(* Faulty variant: logout leaves the refresh timer armed. *)
LogoutKeepsTimer(t) ==
    /\ live[t] # NoSession /\ ~SessionExpiredDialog(t) /\ page[t].at = "hub"
    /\ issued + loads < MaxWork
    /\ loads' = loads + 1
    /\ revoking' = revoking \cup ({live[t].refreshToken} \ {0})
    /\ live' = [live EXCEPT ![t] = NoSession]
    /\ stored' = NoSession
    /\ renewals' = {IF c.tab = t THEN [c EXCEPT !.late = TRUE] ELSE c : c \in renewals}
    /\ UNCHANGED <<issued, valid, expired, timer, booting, over, page, fresh>>

(* logout: asks the service to revoke the token without waiting, stops the  *)
(* timer, forgets the session.  A renewal under way is not stopped.         *)
Logout(t) ==
    /\ live[t] # NoSession /\ ~SessionExpiredDialog(t) /\ page[t].at = "hub"
    /\ issued + loads < MaxWork
    /\ loads' = loads + 1
    /\ revoking' = revoking \cup ({live[t].refreshToken} \ {0})
    /\ timer' = [timer EXCEPT ![t] = NoSession]
    /\ live' = [live EXCEPT ![t] = NoSession]
    /\ stored' = NoSession
    /\ renewals' = {IF c.tab = t THEN [c EXCEPT !.late = TRUE] ELSE c : c \in renewals}
    /\ UNCHANGED <<issued, valid, expired, booting, over, page, fresh>>

(* The handler of POST /logout; the request may also get lost. *)
Revoke(n) ==
    /\ n \in revoking
    /\ revoking' = revoking \ {n}
    /\ valid' \in {valid, valid \ {n}}
    /\ UNCHANGED <<issued, expired, stored, live, booting, timer, over,
                   renewals, page, fresh, loads>>

(* The expiry timer of a guest session. *)
GuestExpires(t) ==
    /\ live[t].kind = Guest /\ live[t].token \in expired /\ ~over[t]
    /\ over' = [over EXCEPT ![t] = TRUE]
    /\ UNCHANGED <<issued, valid, expired, stored, live, booting, timer,
                   renewals, revoking, page, fresh, loads>>

(* The OK button of the modal. *)
AcknowledgeSessionExpired(t) ==
    /\ SessionExpiredDialog(t)
    /\ Kicked(t, {})
    /\ UNCHANGED <<issued, valid, expired, revoking, fresh, loads>>

(* AuthGuard: the hub is not for a tab without a session. *)
AuthGuard(t) ==
    /\ page[t].at = "hub" /\ booting[t] = "done" /\ live[t] = NoSession
    /\ page' = [page EXCEPT ![t] = Starting("login")]
    /\ UNCHANGED <<issued, valid, expired, stored, live, booting, timer, over,
                   renewals, revoking, fresh, loads>>

(* The user opens a link, types an address or reloads. *)
OpenPage(t, r) ==
    /\ issued + loads < MaxWork
    /\ loads' = loads + 1
    /\ LoadsPage(t, r)
    /\ renewals' = Left(t, Renewing(t))
    /\ UNCHANGED <<issued, valid, expired, stored, revoking, fresh>>

-----------------------------------------------------------------------------
(* The pages that sign a user in. *)

AuthSame == UNCHANGED <<valid, expired, stored, live, timer, issued>>
RestSame == UNCHANGED <<booting, over, renewals, revoking, loads>>

Is(t, r, ph) == booting[t] # "mount" /\ page[t].at = r /\ page[t].phase = ph
Turns(t, ph) == page' = [page EXCEPT ![t].phase = ph]

(* The service accepts: a new pair of tokens, without a refresh token when  *)
(* "Remember me" is off, and login(...).                                    *)
SignedIn(t, remember) ==
    /\ issued + loads < MaxWork
    /\ issued' = issued + 1
    /\ valid' = IF remember THEN valid \cup {issued'} ELSE valid
    /\ SignsIn(t, [kind |-> Signed, token |-> issued',
                   refreshToken |-> IF remember THEN issued' ELSE 0])
    /\ UNCHANGED expired

(* The boot gate: GET /setup/status, an error counting as "set up" ...      *)
HomeStatus(t) ==
    /\ Is(t, "home", "loading")
    /\ Turns(t, "form") \/ (fresh /\ Turns(t, "second"))
    /\ AuthSame /\ RestSame /\ UNCHANGED fresh

(* ... and then, once the session is restored, the way to a page.           *)
HomeLeaves(t) ==
    /\ page[t].at = "home" /\ page[t].phase # "loading" /\ booting[t] = "done"
    /\ page' = [page EXCEPT ![t] = Starting(
                 IF page[t].phase = "second" THEN "setup"
                 ELSE IF live[t] # NoSession THEN "hub" ELSE "login")]
    /\ AuthSame /\ RestSame /\ UNCHANGED fresh

(* fetchStatus of the login page: the button is enabled whatever comes      *)
(* back; the hub is known once it has been set up and the answer arrives.   *)
LoginStatus(t) ==
    /\ Is(t, "login", "loading")
    /\ \E known \in {FALSE, ~fresh} :
          page' = [page EXCEPT ![t].phase = "form", ![t].hub = known]
    /\ AuthSame /\ RestSame /\ UNCHANGED fresh

(* What the login page offers: its fields, and a button that is disabled    *)
(* while the status is unknown or a login is under way.                     *)
LoginForm(t) == Is(t, "login", "form")

(* handleSubmit, as far as its POST: without a hub the status is asked for  *)
(* once more, and the fallback id is sent when that does not help.          *)
LoginSubmit(t) ==
    \/ /\ LoginForm(t)
       /\ Turns(t, IF page[t].hub THEN "submitting" ELSE "asking")
       /\ AuthSame /\ RestSame /\ UNCHANGED fresh
    \/ /\ Is(t, "login", "asking")
       /\ \E known \in {FALSE, ~fresh} :
             page' = [page EXCEPT ![t].phase = "submitting", ![t].hub = known]
       /\ AuthSame /\ RestSame /\ UNCHANGED fresh

(* The answer: signed in, or an error under a form that works again.        *)
LoginAnswered(t) ==
    /\ Is(t, "login", "submitting")
    /\ \/ ~fresh /\ \E remember \in BOOLEAN : SignedIn(t, remember)
       \/ Turns(t, "form") /\ AuthSame
    /\ RestSame /\ UNCHANGED fresh

(* The preview of an invite link: the form, or the reason there is none.    *)
SignupPreview(t) ==
    /\ Is(t, "signup", "loading")
    /\ (~fresh /\ Turns(t, "form")) \/ Turns(t, "dead")
    /\ AuthSame /\ RestSame /\ UNCHANGED fresh

(* The signup page: a spinner, the reason, or the form and its button. *)
SignupForm(t) == Is(t, "signup", "form")

(* submit: unequal passwords stay on the page.                              *)
SignupSubmit(t) ==
    /\ SignupForm(t)
    /\ Turns(t, "submitting")
    /\ AuthSame /\ RestSame /\ UNCHANGED fresh

(* An error of the service goes to its field, and a lost answer is an error *)
(* too, though the account may exist.                                       *)
SignupAnswered(t) ==
    /\ Is(t, "signup", "submitting")
    /\ SignedIn(t, TRUE) \/ (Turns(t, "form") /\ AuthSame)
    /\ RestSame /\ UNCHANGED fresh

(* The page of a personal invitation: the same, with the checks of the      *)
(* password in the page and an avatar uploaded between the answer and the   *)
(* login, whether or not that works.                                        *)
RegisterPreview(t) ==
    /\ Is(t, "register", "loading")
    /\ (~fresh /\ Turns(t, "form")) \/ Turns(t, "dead")
    /\ AuthSame /\ RestSame /\ UNCHANGED fresh

RegisterForm(t) == Is(t, "register", "form")

RegisterSubmit(t) ==
    \/ /\ RegisterForm(t)
       /\ Turns(t, "submitting")
       /\ AuthSame /\ RestSame /\ UNCHANGED fresh
    \/ /\ Is(t, "register", "submitting")
       /\ SignedIn(t, TRUE) \/ (Turns(t, "form") /\ AuthSame)
       /\ RestSame /\ UNCHANGED fresh

(* The first-run wizard: the administrator, then the hub, and back.         *)
AdminForm(t) == Is(t, "setup", "form")
HubForm(t) == Is(t, "setup", "second")

SetupNext(t) ==
    /\ AdminForm(t) /\ Turns(t, "second")
    /\ AuthSame /\ RestSame /\ UNCHANGED fresh

SetupBack(t) ==
    /\ HubForm(t) /\ Turns(t, "form")
    /\ AuthSame /\ RestSame /\ UNCHANGED fresh

(* finish: the service sets the hub up once, and answers 409 after that; a  *)
(* lost answer leaves the hub set up and the page with an error.            *)
SetupFinish(t) ==
    \/ /\ HubForm(t) /\ Turns(t, "submitting")
       /\ AuthSame /\ RestSame /\ UNCHANGED fresh
    \/ /\ Is(t, "setup", "submitting") /\ fresh
       /\ fresh' = FALSE
       /\ SignedIn(t, TRUE) \/ (Turns(t, "second") /\ AuthSame)
       /\ RestSame
    \/ /\ Is(t, "setup", "submitting") /\ Turns(t, "second")
       /\ AuthSame /\ RestSame /\ UNCHANGED fresh

(* A guest's link: resolving it issues the session token ...                *)
JoinResolved(t) ==
    /\ Is(t, "join", "loading")
    /\ \/ /\ ~fresh /\ issued + loads < MaxWork
          /\ issued' = issued + 1
          /\ page' = [page EXCEPT ![t].phase = "form", ![t].token = issued']
       \/ Turns(t, "dead") /\ UNCHANGED issued
    /\ UNCHANGED <<valid, expired, stored, live, timer, fresh>> /\ RestSame

(* The guest's page: a spinner, the error, or the hub with its button. *)
JoinForm(t) == Is(t, "join", "form")

(* ... and "Enter Hub" starts the session, without a refresh token.         *)
JoinEnter(t) ==
    /\ JoinForm(t)
    /\ SignsIn(t, [kind |-> Guest, token |-> page[t].token, refreshToken |-> 0])
    /\ UNCHANGED <<issued, valid, expired, fresh>> /\ RestSame

-----------------------------------------------------------------------------
SessionNext ==
    \/ \E t \in Tabs :
         \/ Restore(t) \/ RefreshTimerFires(t) \/ HandleUnauthorized(t)
         \/ Logout(t) \/ GuestExpires(t) \/ AcknowledgeSessionExpired(t)
         \/ AuthGuard(t) \/ HomeStatus(t) \/ HomeLeaves(t)
         \/ LoginStatus(t) \/ LoginSubmit(t) \/ LoginAnswered(t)
         \/ SignupPreview(t) \/ SignupSubmit(t) \/ SignupAnswered(t)
         \/ RegisterPreview(t) \/ RegisterSubmit(t)
         \/ SetupNext(t) \/ SetupBack(t) \/ SetupFinish(t)
         \/ JoinResolved(t) \/ JoinEnter(t)
         \/ \E r \in Routes : OpenPage(t, r)
    \/ \E c \in renewals : RefreshFinds(c) \/ RefreshRotates(c)
                          \/ RenewalSucceeds(c) \/ RenewalFails(c)
    \/ \E n \in 1..issued : TokenExpires(n) \/ Revoke(n)

SessionSpec == SessionInit /\ [][SessionNext]_sessionVars

-----------------------------------------------------------------------------
(* Properties. *)

(* Whatever tabs share the storage and whichever renewals overlap, the      *)
(* session that a reload would restore can be renewed, or a renewal that    *)
(* used its refresh token has not come to its end: its answer is on the way *)
(* or was for a page that is gone.  The service forgets a refresh token at  *)
(* its first use (auth_api.rs:201), so a code path that drops the new one   *)
(* signs the user out at the next start.                                    *)
StoredCanRenew ==
    stored.refreshToken \in valid \cup {0}
        \/ \E c \in renewals : c.of.refreshToken = stored.refreshToken

(* A step in which a page of the tab calls login. *)
SigningIn(t) == page[t].at \notin {"home", "hub"} /\ page'[t] = Starting("hub")

(* A tab that has signed out does not get a session back by itself: only by *)
(* restoring one at its start, by a page that signs the user in, or by a    *)
(* renewal that was under way when it signed out (logout, auth.tsx:212-227, *)
(* stops the timer but not the request).                                    *)
SignOutSticks ==
    [][\A t \in Tabs : live[t] = NoSession /\ live'[t] # NoSession =>
          \/ booting[t] # "done"
          \/ SigningIn(t)
          \/ \E c \in Renewing(t) : c.late]_sessionVars

(* A guest is never bounced (auth.tsx:239-245): a guest's session in a tab  *)
(* ends with the modal, a click on Logout, a new page, another sign-in, or  *)
(* a renewal the tab began for the session it had before, and never by what *)
(* other tabs do to the tokens and to the storage.                          *)
GuestIsTold ==
    [][\A t \in Tabs : live[t].kind = Guest /\ live'[t] # live[t] =>
          \/ over[t]
          \/ loads' = loads + 1 \/ SigningIn(t)
          \/ Renewing(t) # {}]_sessionVars
=============================================================================
