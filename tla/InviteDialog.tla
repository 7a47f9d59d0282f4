---------------------------- MODULE InviteDialog ----------------------------
(***************************************************************************)
(* The dialog that makes invitations: its three forms, the groups it       *)
(* offers by the maker's rank, and the service's answer.  HubRoster has    *)
(* the list of pending invitations, InviteLinks what a link is good for.   *)
(*                                                                         *)
(* The dialog itself stays mounted with what it loaded; its forms are      *)
(* mounted with it open, one tab at a time.  A group is its position: the  *)
(* smaller, the higher, 0 is "admin", and everybody is in Default.  What   *)
(* else is entered in a form (dates, names, a limit) decides only whether  *)
(* the form or the service refuses it.                                     *)
(***************************************************************************)
EXTENDS Integers, FiniteSets

CONSTANTS Ranks,      \* the positions of the groups, ever
          Default,    \* the one of the default group
          MaxSteps,   \* bound on what the user, the others and the network do
          NoGroup

(* A position is an INT column, so that there is a last one.                *)
ASSUME InvitesAssumption ==
    /\ Ranks \subseteq Nat /\ \E last \in Ranks : \A g \in Ranks : g <= last
    /\ 0 \in Ranks /\ Default \in Ranks \ {0}
    /\ NoGroup \notin Nat /\ MaxSteps \in Nat

VARIABLES steps,     \* how much of what MaxSteps bounds there was
          standing,  \* the groups of the hub: unborn, here or gone
          rank,      \* top_position of the maker, as the hub has it
          perms,     \* perms.top_position, or NoGroup before the answer
          permsAsk,  \* the request it waits for
          offered,   \* `groups`: what the dialog has loaded
          loads,     \* the loads under way; none is ever cancelled
          tab,       \* the mounted form, or "none" with the dialog closed
          form,      \* its state
          inviteAsks, \* requests for an invitation under way
          invites,   \* the invitations of this dialog the service keeps
          moved      \* ghost, see InvitesAsShown

inviteVars == <<steps, standing, rank, perms, permsAsk, offered, loads, tab,
                form, inviteAsks, invites, moved>>

hubOf == <<standing, rank>>
loaded == <<perms, permsAsk, offered, loads>>

-----------------------------------------------------------------------------
Tabs == {"link", "temp", "permanent"}

Here == {g \in Ranks : standing[g] = "here"}

(* A mounted form: what was picked, and the link it shows.                  *)
BlankForm == [pick |-> NoGroup, busy |-> FALSE, url |-> "none"]

Load == [stage : {"sent", "read"}, list : SUBSET Ranks]
NoAsk == [stage |-> "idle", top |-> NoGroup]

(* An invitation, and what the form showed when it was asked for.           *)
Invite == [kind : Tabs, group : Ranks \cup {NoGroup},
           showed : Ranks \cup {NoGroup}, rank : Ranks, moved : BOOLEAN]

InviteTypeOK ==
    /\ steps \in 0..MaxSteps
    /\ standing \in [Ranks -> {"unborn", "here", "gone"}]
    /\ rank \in Here
    /\ perms \in Ranks \cup {NoGroup}
    /\ permsAsk \in [stage : {"idle", "sent", "read"},
                     top : Ranks \cup {NoGroup}]
    /\ offered \subseteq Ranks /\ loads \subseteq Load
    /\ tab \in Tabs \cup {"none"}
    /\ form \in [pick : Ranks \cup {NoGroup}, busy : BOOLEAN,
                 url : Tabs \cup {"none"}]
    /\ inviteAsks \subseteq [stage : {"sent", "served"}, own : BOOLEAN,
                             invite : Invite]
    /\ invites \subseteq Invite
    /\ moved \in BOOLEAN

InviteInit ==
    /\ steps = 0
    /\ standing \in [Ranks -> {"unborn", "here"}]
    /\ standing[0] = "here" /\ standing[Default] = "here"
    /\ rank \in Here /\ rank <= Default
    /\ perms = NoGroup /\ permsAsk = [stage |-> "sent", top |-> NoGroup]
    /\ offered = {} /\ loads = {}
    /\ tab = "none" /\ form = BlankForm
    /\ inviteAsks = {} /\ invites = {} /\ moved = FALSE

Step == steps < MaxSteps /\ steps' = steps + 1

-----------------------------------------------------------------------------
(* What the dialog offers.                                                  *)

MostJunior(S) == CHOOSE g \in S : \A other \in S : other <= g

(* Faulty variant: the maker's own rank is offered too. *)
PickableEqual ==
    IF perms = NoGroup THEN {} ELSE {g \in offered : g >= perms /\ g # 0}

(* assignableGroups: below the maker's rank, and never "admin".  Before the *)
(* permissions are there the rank is MAX_SAFE_INTEGER, and no position is   *)
(* below that.                                                              *)
Pickable ==
    IF perms = NoGroup THEN {} ELSE {g \in offered : g > perms /\ g # 0}

(* defaultGroupId: the default group, or the most junior one there is.      *)
DefaultGroup ==
    IF Default \in Pickable THEN Default
    ELSE IF Pickable # {} THEN MostJunior(Pickable) ELSE NoGroup

(* effectiveGroupId, and what the picker makes of it: a group it does not   *)
(* offer is shown as none.                                                  *)
Chosen == IF form.pick # NoGroup THEN form.pick ELSE DefaultGroup
Shows == IF Chosen \in Pickable THEN Chosen ELSE NoGroup

-----------------------------------------------------------------------------
(* The dialog.                                                              *)

Loads == loads' = loads \cup {[stage |-> "sent", list |-> {}]}

(* The copies are older than the dialog: a load of the last time is still   *)
(* on its way, or the rank has changed since it was fetched.                *)
CopiesLag == loads # {} \/ permsAsk.stage # "idle" \/ perms # rank

OpenDialog ==
    /\ tab = "none" /\ Step
    /\ tab' = "link" /\ form' = BlankForm
    /\ Loads
    /\ moved' = CopiesLag
    /\ UNCHANGED <<hubOf, perms, permsAsk, offered, inviteAsks, invites>>

(* The forms go with the dialog, or with their tab: their requests go on,   *)
(* and nobody is left to show the answer.                                   *)
Forsaken == {[a EXCEPT !.own = FALSE] : a \in inviteAsks}

CloseDialog ==
    /\ tab # "none" /\ tab' = "none" /\ form' = BlankForm
    /\ inviteAsks' = Forsaken
    /\ UNCHANGED <<steps, hubOf, loaded, invites, moved>>

SwitchTab(other) ==
    /\ tab # "none" /\ other # tab /\ Step
    /\ tab' = other /\ form' = BlankForm
    /\ inviteAsks' = Forsaken
    /\ UNCHANGED <<hubOf, loaded, invites, moved>>

(* The session is renewed: the permissions are fetched again, whatever was  *)
(* under way of them is dropped, and so are the groups if the dialog shows. *)
SessionRenewed ==
    /\ Step
    /\ permsAsk' = [stage |-> "sent", top |-> NoGroup]
    /\ IF tab # "none" THEN Loads ELSE UNCHANGED loads
    /\ UNCHANGED <<hubOf, perms, offered, tab, form, inviteAsks, invites, moved>>

GroupsRead(l) ==
    /\ l.stage = "sent"
    /\ loads' = (loads \ {l}) \cup {[stage |-> "read", list |-> Here]}
    /\ UNCHANGED <<steps, hubOf, perms, permsAsk, offered, tab, form, inviteAsks,
                   invites, moved>>

(* The answer replaces what the dialog has, whichever load it is of.  An    *)
(* error answer leaves it with no groups, a lost one as it was.             *)
GroupsAnswered(l) ==
    /\ loads' = loads \ {l}
    /\ \/ l.stage = "read" /\ offered' = l.list /\ UNCHANGED <<steps, moved>>
       \/ Step /\ offered' \in {{}, offered} /\ moved' = TRUE
    /\ UNCHANGED <<hubOf, perms, permsAsk, tab, form, inviteAsks, invites>>

PermsRead ==
    /\ permsAsk.stage = "sent"
    /\ permsAsk' = [stage |-> "read", top |-> rank]
    /\ UNCHANGED <<steps, hubOf, perms, offered, loads, tab, form, inviteAsks, invites,
                   moved>>

PermsAnswered ==
    /\ permsAsk.stage # "idle"
    /\ permsAsk' = NoAsk
    /\ \/ permsAsk.stage = "read" /\ perms' = permsAsk.top /\ UNCHANGED steps
       \/ Step /\ UNCHANGED perms
    /\ UNCHANGED <<hubOf, offered, loads, tab, form, inviteAsks, invites, moved>>

-----------------------------------------------------------------------------
(* The forms.                                                               *)

Pick(g) ==
    /\ tab = "link" /\ form.url = "none" /\ g \in Pickable
    /\ form' = [form EXCEPT !.pick = g]
    /\ UNCHANGED <<steps, hubOf, loaded, tab, inviteAsks, invites, moved>>

(* A form's submit, as far as the request: what the form refuses itself     *)
(* goes no further.                                                         *)
Asks(group, showed) ==
    /\ form.url = "none" /\ ~form.busy
    /\ Step
    /\ form' = [form EXCEPT !.busy = TRUE]
    /\ inviteAsks' = inviteAsks \cup
         {[stage |-> "sent", own |-> TRUE,
           invite |-> [kind |-> tab, group |-> group, showed |-> showed,
                       rank |-> rank, moved |-> moved]]}
    /\ UNCHANGED <<hubOf, loaded, tab, invites, moved>>

AskLink == tab = "link" /\ Asks(Chosen, Shows)

(* A guest comes into the default group, which his form does not show, and  *)
(* is not asked for without one.                                            *)
AskGuest ==
    /\ tab = "temp" /\ DefaultGroup # NoGroup
    /\ Asks(DefaultGroup, DefaultGroup)

(* A user with a name comes into no group but the default one.              *)
AskNamed == tab = "permanent" /\ Asks(NoGroup, NoGroup)

(* create_invite_link, create_temp_user and create_invitation: the group    *)
(* must be there; nobody compares it with the rank of the maker.            *)
MakesInvite(a, kind) ==
    /\ a.stage = "sent" /\ a.invite.kind = kind
    /\ LET made == [a.invite EXCEPT !.rank = rank]
       IN /\ invites' = invites \cup {made}
          /\ inviteAsks' = (inviteAsks \ {a})
                              \cup {[a EXCEPT !.stage = "served", !.invite = made]}
    /\ UNCHANGED <<steps, hubOf, loaded, tab, form, moved>>

MakeLink(a) == a.invite.group \in Here \cup {NoGroup} /\ MakesInvite(a, "link")
MakeGuest(a) == a.invite.group \in Here /\ MakesInvite(a, "temp")
MakeNamed(a) == MakesInvite(a, "permanent")

(* The answer: the form that asked shows the link, if it is still there.    *)
InviteAnswered(a) ==
    /\ a.stage = "served"
    /\ inviteAsks' = inviteAsks \ {a}
    /\ form' = IF a.own THEN [form EXCEPT !.busy = FALSE, !.url = a.invite.kind]
               ELSE form
    /\ UNCHANGED <<steps, hubOf, loaded, tab, invites, moved>>

(* Refused, or lost before or after it was served.                          *)
InviteFails(a) ==
    /\ inviteAsks' = inviteAsks \ {a}
    /\ form' = IF a.own THEN [form EXCEPT !.busy = FALSE] ELSE form
    /\ UNCHANGED <<steps, hubOf, loaded, tab, invites, moved>>

(* "Create another": the form is as it was when it asked.                   *)
Another ==
    /\ form.url # "none" /\ Step
    /\ form' = [form EXCEPT !.url = "none"]
    /\ UNCHANGED <<hubOf, loaded, tab, inviteAsks, invites, moved>>

-----------------------------------------------------------------------------
(* The others: groups are made and deleted, and the maker moved.            *)
HubMoves(standingThen, rankThen) ==
    /\ Step
    /\ standing' = standingThen /\ rank' = rankThen
    /\ moved' = TRUE
    /\ inviteAsks' = {[a EXCEPT !.invite.moved = @ \/ a.stage = "sent"] :
                         a \in inviteAsks}
    /\ UNCHANGED <<loaded, tab, form, invites>>

GroupMade(g) ==
    /\ standing[g] = "unborn"
    /\ HubMoves([standing EXCEPT ![g] = "here"], rank)

(* Deleting a group of the maker's takes the rank with it.                  *)
GroupDeleted(g) ==
    /\ g \in Here \ {0, Default}
    /\ HubMoves([standing EXCEPT ![g] = "gone"], IF g = rank THEN Default ELSE rank)

MakerMoved(g) ==
    /\ g \in Here /\ g <= Default /\ g # rank
    /\ HubMoves(standing, g)

InviteNext ==
    \/ OpenDialog \/ CloseDialog \/ SessionRenewed \/ PermsRead \/ PermsAnswered
    \/ \E other \in Tabs : SwitchTab(other)
    \/ \E l \in loads : GroupsRead(l) \/ GroupsAnswered(l)
    \/ \E g \in Ranks : Pick(g) \/ GroupMade(g) \/ GroupDeleted(g) \/ MakerMoved(g)
    \/ AskLink \/ AskGuest \/ AskNamed \/ Another
    \/ \E a \in inviteAsks :
         \/ MakeLink(a) \/ MakeGuest(a) \/ MakeNamed(a)
         \/ InviteAnswered(a) \/ InviteFails(a)

-----------------------------------------------------------------------------
(* Properties. *)

(* "Equal-position would let an admin invite someone to their own tier; we  *)
(* forbid that" (add-teammates-dialog.tsx:61).  Only the dialog does: an    *)
(* invitation opens the group the form showed, one below the maker's rank   *)
(* and not "admin", as the hub has them when it is made; unless, since the  *)
(* dialog was opened, somebody changed the groups or the rank or a load of  *)
(* the groups failed, or the dialog began with copies that were behind.     *)
GrantsAsShown ==
    \A i \in invites : ~i.moved =>
        /\ i.group = i.showed
        /\ i.group # NoGroup => i.group > i.rank /\ i.group # 0

(* The link on show is one of the tab it is shown in.                       *)
LinkOfItsTab == form.url \in {"none", tab}

InvitesAsShown == GrantsAsShown /\ LinkOfItsTab
=============================================================================
