---------------------------- MODULE WebAppProofs ----------------------------
(***************************************************************************)
(* Proofs about the parts of the hub page, and about the invite links by   *)
(* which a visitor comes to have one.  A step of the page is a step of one *)
(* part, so each part has its own inductive invariant, and each theorem is *)
(* of the page as a whole; InviteLinks shares no variable with it.         *)
(*                                                                         *)
(* Invite links: the invariant says what a transaction may rely on between *)
(* its claim and its commit: it is alone on its link, the link has a slot  *)
(* for it and is not revoked, and the index entries it holds are nobody    *)
(* else's.                                                                 *)
(***************************************************************************)
EXTENDS WebApp, InviteLinks, ListProofs, FiniteSetTheorems, SequenceTheorems,
        WellFoundedInduction, TLAPS

-----------------------------------------------------------------------------
(* Invitations (InviteDialog).                                             *)

\* Among positions there is always a most junior one.
LEMMA MostJuniorThere ==
    ASSUME NEW S \in SUBSET Ranks, S # {}
    PROVE  MostJunior(S) \in S
  <1>1. PICK last \in Ranks : \A g \in Ranks : g <= last
    BY InvitesAssumption
  <1> DEFINE T == {n \in Nat : \E g \in S : n = last - g}
             R == OpToRel(<, Nat)
  <1>2. T # {} /\ T \subseteq Nat
    <2>1. PICK g \in S : TRUE
      OBVIOUS
    <2>2. last - g \in T
      BY <1>1, <2>1, InvitesAssumption
    <2> QED
      BY <2>2
  <1>3. PICK n \in T : \A k \in T : ~(<<k, n>> \in R)
    <2>1. IsWellFoundedOn(R, Nat)
      BY NatLessThanWellFounded
    <2> HIDE DEF R, T
    <2> QED
      BY <1>2, <2>1, WFMin
  <1>4. \A k \in T : ~(k < n)
    BY <1>3 DEF OpToRel
  <1>5. PICK g \in S : n = last - g
    BY <1>3
  <1>6. \A other \in S : other <= g
    <2> SUFFICES ASSUME NEW other \in S PROVE other <= g
      OBVIOUS
    <2>1. last - other \in T
      BY <1>1, InvitesAssumption
    <2> QED
      BY <1>1, <1>4, <1>5, <2>1, InvitesAssumption
  <1> QED
    BY <1>6 DEF MostJunior

\* The default group cannot be deleted.
DefaultStands == standing[Default] = "here"

\* While nothing moved under the open dialog (no group made or deleted, the maker not moved)
\* what the session said and what was read of the groups is the hub's, and so is the choice.
CopiesFresh ==
    tab # "none" /\ ~moved =>
        /\ perms = rank
        /\ permsAsk.stage = "read" => permsAsk.top = rank
        /\ \A l \in loads : l.stage = "read" => l.list = Here
        /\ form.pick # NoGroup =>
             /\ form.pick > rank /\ form.pick # 0
             /\ form.pick \in Here => form.pick \in offered

\* What a request was made of: the group it names is the one the form showed, below the maker.
AskFits(i) ==
    /\ i.group = NoGroup => i.showed = NoGroup
    /\ i.group \in Here => i.group = i.showed /\ i.group > rank /\ i.group # 0
    /\ i.kind = "permanent" => i.group = NoGroup

\* So is each request not served yet, and the dialog's own is of its tab.
AsksFit ==
    \A a \in inviteAsks :
        /\ a.stage = "sent" /\ ~a.invite.moved => AskFits(a.invite)
        /\ a.own => a.invite.kind = tab

\* The invariant of the dialog.
InviteInv == InviteTypeOK /\ DefaultStands /\ CopiesFresh /\ AsksFit /\ InvitesAsShown

\* The group preselected is one that can be picked.
LEMMA DefaultFits ==
    ASSUME InviteTypeOK
    PROVE  DefaultGroup = NoGroup \/ DefaultGroup \in Pickable
  <1>1. Pickable \subseteq Ranks
    BY DEF Pickable, InviteTypeOK
  <1>2. Pickable # {} => MostJunior(Pickable) \in Pickable
    BY <1>1, MostJuniorThere
  <1> QED
    BY <1>2 DEF DefaultGroup

\* A hub with its default group, no dialog, no invitation.
LEMMA InviteInitially == InviteInit => InviteInv
  <1> SUFFICES ASSUME InviteInit PROVE InviteInv
    OBVIOUS
  <1>1. InviteTypeOK
    <2>1. /\ standing \in [Ranks -> {"unborn", "here", "gone"}] /\ rank \in Here
          /\ steps \in 0..MaxSteps
      BY InvitesAssumption DEF InviteInit
    <2>2. form \in [pick : Ranks \cup {NoGroup}, busy : BOOLEAN, url : Tabs \cup {"none"}]
      BY DEF InviteInit, BlankForm
    <2>3. permsAsk \in [stage : {"idle", "sent", "read"}, top : Ranks \cup {NoGroup}]
      BY DEF InviteInit
    <2> QED
      BY <2>1, <2>2, <2>3 DEF InviteInit, InviteTypeOK
  <1>2. DefaultStands /\ CopiesFresh /\ AsksFit /\ InvitesAsShown
    BY DEF InviteInit, DefaultStands, CopiesFresh, AsksFit, InvitesAsShown, GrantsAsShown,
           LinkOfItsTab, BlankForm
  <1> QED
    BY <1>1, <1>2 DEF InviteInv

\* The requests under way.
InviteAsk == [stage : {"sent", "served"}, own : BOOLEAN, invite : Invite]

\* What moving, disowning and serving make of a request.
LEMMA AskRecords ==
    ASSUME NEW a \in InviteAsk
    PROVE  /\ LET b == [a EXCEPT !.own = FALSE]
              IN  b \in InviteAsk /\ b.own = FALSE /\ b.stage = a.stage /\ b.invite = a.invite
           /\ LET b == [a EXCEPT !.invite.moved = @ \/ a.stage = "sent"]
              IN  /\ b \in InviteAsk /\ b.own = a.own /\ b.stage = a.stage
                  /\ b.invite.kind = a.invite.kind
                  /\ b.stage = "sent" => b.invite.moved
           /\ LET grant == [a.invite EXCEPT !.rank = rank]
                  b == [a EXCEPT !.stage = "served", !.invite = grant]
              IN  rank \in Ranks =>
                    /\ grant \in Invite /\ b \in InviteAsk /\ b.own = a.own /\ b.stage = "served"
                    /\ b.invite.kind = a.invite.kind
                    /\ grant.group = a.invite.group /\ grant.showed = a.invite.showed
                    /\ grant.moved = a.invite.moved /\ grant.rank = rank
  BY DEF InviteAsk, Invite

\* Requests and invitations, by type.
AskTypes == inviteAsks \subseteq InviteAsk /\ invites \subseteq Invite

\* What the steps make of the requests under way and of the invitations.
LEMMA AskTypesStep ==
    ASSUME InviteTypeOK, InviteNext
    PROVE  AskTypes'
  <1> USE DEF AskTypes, hubOf, loaded
  <1>1. AskTypes /\ rank \in Ranks
    BY DEF InviteTypeOK, InviteAsk, Here
  <1>2. CASE UNCHANGED <<inviteAsks, invites>>
    BY <1>1, <1>2
  <1>3. CASE CloseDialog \/ \E other \in Tabs : SwitchTab(other)
    <2>1. inviteAsks' = Forsaken /\ invites' = invites
      BY <1>3 DEF CloseDialog, SwitchTab
    <2>2. ASSUME NEW b \in Forsaken PROVE b \in InviteAsk
      <3>1. PICK a \in inviteAsks : b = [a EXCEPT !.own = FALSE]
        BY DEF Forsaken
      <3> QED
        BY <1>1, <3>1, AskRecords
    <2> QED
      BY <1>1, <2>1, <2>2
  <1>4. CASE \E g \in Ranks : GroupMade(g) \/ GroupDeleted(g) \/ MakerMoved(g)
    <2>1. /\ inviteAsks' = {[a EXCEPT !.invite.moved = @ \/ a.stage = "sent"] : a \in inviteAsks}
          /\ invites' = invites
      BY <1>4 DEF GroupMade, GroupDeleted, MakerMoved, HubMoves
    <2>2. ASSUME NEW b \in inviteAsks' PROVE b \in InviteAsk
      <3>1. PICK a \in inviteAsks : b = [a EXCEPT !.invite.moved = @ \/ a.stage = "sent"]
        BY <2>1
      <3> QED
        BY <1>1, <3>1, AskRecords
    <2> QED
      BY <1>1, <2>1, <2>2
  <1>5. ASSUME NEW group \in Ranks \cup {NoGroup}, NEW showed \in Ranks \cup {NoGroup},
               Asks(group, showed), tab \in Tabs
        PROVE  AskTypes'
    <2>1. [kind |-> tab, group |-> group, showed |-> showed, rank |-> rank,
           moved |-> moved] \in Invite
      BY <1>1, <1>5 DEF Invite, InviteTypeOK
    <2> DEFINE i == [kind |-> tab, group |-> group, showed |-> showed, rank |-> rank,
                     moved |-> moved]
    <2>2. /\ inviteAsks' = inviteAsks \cup {[stage |-> "sent", own |-> TRUE, invite |-> i]}
          /\ invites' = invites
      BY <1>5 DEF Asks
    <2> HIDE DEF i
    <2>3. [stage |-> "sent", own |-> TRUE, invite |-> i] \in InviteAsk
      BY <2>1 DEF InviteAsk, i
    <2> QED
      BY <1>1, <2>2, <2>3
  <1>6. CASE AskLink
    <2>1. Chosen \in Ranks \cup {NoGroup} /\ Shows \in Ranks \cup {NoGroup}
      BY DefaultFits DEF Chosen, Shows, Pickable, InviteTypeOK
    <2> QED
      BY <1>5, <1>6, <2>1 DEF AskLink, Tabs
  <1>7. CASE AskGuest \/ AskNamed
    <2>1. DefaultGroup \in Ranks \cup {NoGroup}
      BY DefaultFits DEF Pickable, InviteTypeOK
    <2> QED
      BY <1>5, <1>7, <2>1 DEF AskGuest, AskNamed, Tabs
  <1>8. CASE \E a \in inviteAsks : MakeLink(a) \/ MakeGuest(a) \/ MakeNamed(a)
    <2>1. PICK a \in inviteAsks : \E kind \in Tabs : MakesInvite(a, kind)
      BY <1>8 DEF MakeLink, MakeGuest, MakeNamed, Tabs
    <2> DEFINE grant == [a.invite EXCEPT !.rank = rank]
               b == [a EXCEPT !.stage = "served", !.invite = grant]
    <2>2. grant \in Invite /\ b \in InviteAsk
      BY <1>1, <2>1, AskRecords
    <2>3. invites' = invites \cup {grant} /\ inviteAsks' = (inviteAsks \ {a}) \cup {b}
      BY <2>1 DEF MakesInvite
    <2> QED
      BY <1>1, <2>2, <2>3
  <1>9. CASE \E a \in inviteAsks : InviteAnswered(a) \/ InviteFails(a)
    BY <1>1, <1>9 DEF InviteAnswered, InviteFails
  <1>10. OpenDialog \/ SessionRenewed \/ PermsRead \/ PermsAnswered \/ Another
           \/ (\E l \in loads : GroupsRead(l) \/ GroupsAnswered(l))
           \/ (\E g \in Ranks : Pick(g)) => UNCHANGED <<inviteAsks, invites>>
    BY DEF OpenDialog, SessionRenewed, PermsRead, PermsAnswered, Another, GroupsRead,
           GroupsAnswered, Pick
  <1> QED
    BY <1>2, <1>3, <1>4, <1>6, <1>7, <1>8, <1>9, <1>10 DEF InviteNext

\* What the hub keeps, what the dialog copied and what its form holds, by type.
HubTypes == /\ standing \in [Ranks -> {"unborn", "here", "gone"}]
            /\ standing[Default] = "here"
            /\ rank \in Ranks /\ standing[rank] = "here"
CopyTypes == /\ perms \in Ranks \cup {NoGroup}
             /\ permsAsk \in [stage : {"idle", "sent", "read"}, top : Ranks \cup {NoGroup}]
             /\ offered \subseteq Ranks /\ loads \subseteq Load
FormTypes == /\ tab \in Tabs \cup {"none"}
             /\ form \in [pick : Ranks \cup {NoGroup}, busy : BOOLEAN,
                          url : Tabs \cup {"none"}]

\* The hub keeps its default group and the maker a group that stands.
LEMMA HubTypesStep ==
    ASSUME HubTypes, InviteNext
    PROVE  HubTypes'
  <1> USE InvitesAssumption DEF HubTypes, hubOf, Here
  <1>1. CASE UNCHANGED hubOf
    BY <1>1
  <1>2. ASSUME NEW g \in Ranks, GroupMade(g) PROVE HubTypes'
    BY <1>2 DEF GroupMade, HubMoves
  <1>3. ASSUME NEW g \in Ranks, GroupDeleted(g) PROVE HubTypes'
    BY <1>3 DEF GroupDeleted, HubMoves
  <1>4. ASSUME NEW g \in Ranks, MakerMoved(g) PROVE HubTypes'
    BY <1>4 DEF MakerMoved, HubMoves
  <1> QED
    BY <1>1, <1>2, <1>3, <1>4
    DEF InviteNext, OpenDialog, CloseDialog, SessionRenewed, PermsRead, PermsAnswered, SwitchTab,
        GroupsRead, GroupsAnswered, Pick, AskLink, AskGuest, AskNamed, Asks, Another, MakeLink,
        MakeGuest, MakeNamed, MakesInvite, InviteAnswered, InviteFails

\* The copies are made of groups.
LEMMA CopyTypesStep ==
    ASSUME HubTypes, CopyTypes, InviteNext
    PROVE  CopyTypes'
  <1> USE DEF CopyTypes, loaded, Load
  <1>1. CASE UNCHANGED loaded
    BY <1>1
  <1>2. CASE OpenDialog \/ SessionRenewed
    BY <1>2 DEF OpenDialog, SessionRenewed, Loads
  <1>3. CASE PermsRead \/ PermsAnswered
    BY <1>3 DEF PermsRead, PermsAnswered, NoAsk, HubTypes
  <1>4. ASSUME NEW l \in loads, GroupsRead(l) PROVE CopyTypes'
    BY <1>4 DEF GroupsRead, Here
  <1>5. ASSUME NEW l \in loads, GroupsAnswered(l) PROVE CopyTypes'
    <2>1. l.list \subseteq Ranks
      OBVIOUS
    <2>2. UNCHANGED <<perms, permsAsk>> /\ loads' \subseteq loads
      BY <1>5 DEF GroupsAnswered
    <2>3. offered' = l.list \/ offered' = {} \/ offered' = offered
      BY <1>5 DEF GroupsAnswered
    <2> QED
      BY <2>1, <2>2, <2>3
  <1> QED
    BY <1>1, <1>2, <1>3, <1>4, <1>5
    DEF InviteNext, CloseDialog, SwitchTab, Pick, AskLink, AskGuest, AskNamed, Asks, Another,
        MakeLink, MakeGuest, MakeNamed, MakesInvite, InviteAnswered, InviteFails, GroupMade,
        GroupDeleted, MakerMoved, HubMoves

\* The form holds a group and the kind of the last invitation made.
LEMMA FormTypesStep ==
    ASSUME AskTypes, FormTypes, InviteNext
    PROVE  FormTypes'
  <1> USE DEF FormTypes
  <1>1. CASE UNCHANGED <<tab, form>>
    BY <1>1
  <1>2. CASE OpenDialog \/ CloseDialog \/ \E other \in Tabs : SwitchTab(other)
    <2>1. form' = BlankForm /\ tab' \in Tabs \cup {"none"}
      BY <1>2 DEF OpenDialog, CloseDialog, SwitchTab, Tabs
    <2> QED
      BY <2>1 DEF BlankForm
  <1>3. CASE \E g \in Ranks : Pick(g)
    BY <1>3 DEF Pick
  <1>4. CASE AskLink \/ AskGuest \/ AskNamed \/ Another
    <2>1. /\ tab' = tab
          /\ (form' = [form EXCEPT !.busy = TRUE] \/ form' = [form EXCEPT !.url = "none"])
      BY <1>4 DEF AskLink, AskGuest, AskNamed, Asks, Another, loaded
    <2> QED
      BY <2>1
  <1>5. ASSUME NEW a \in inviteAsks, InviteAnswered(a) \/ InviteFails(a) PROVE FormTypes'
    <2>1. a.invite.kind \in Tabs
      BY DEF AskTypes, InviteAsk, Invite
    <2>2. /\ tab' = tab
          /\ \/ form' = form
             \/ form' = [form EXCEPT !.busy = FALSE]
             \/ form' = [form EXCEPT !.busy = FALSE, !.url = a.invite.kind]
      BY <1>5 DEF InviteAnswered, InviteFails
    <2> QED
      BY <2>1, <2>2
  <1> QED
    BY <1>1, <1>2, <1>3, <1>4, <1>5
    DEF InviteNext, SessionRenewed, PermsRead, PermsAnswered, GroupsRead, GroupsAnswered,
        MakeLink, MakeGuest, MakeNamed, MakesInvite, GroupMade, GroupDeleted, MakerMoved, HubMoves

\* Every step keeps the types.
LEMMA InviteTypeStep ==
    ASSUME InviteTypeOK, DefaultStands, InviteNext
    PROVE  InviteTypeOK' /\ DefaultStands'
  <1>1. AskTypes /\ HubTypes /\ CopyTypes /\ FormTypes
    BY DEF InviteTypeOK, DefaultStands, AskTypes, InviteAsk, HubTypes, CopyTypes, FormTypes, Here
  <1>2. AskTypes' /\ HubTypes' /\ CopyTypes' /\ FormTypes'
    BY <1>1, AskTypesStep, HubTypesStep, CopyTypesStep, FormTypesStep
  <1>3. steps' \in 0..MaxSteps /\ moved' \in BOOLEAN
    <2>1. steps' = steps \/ Step
      BY DEF InviteNext, SessionRenewed, PermsRead, PermsAnswered, GroupsRead, GroupsAnswered,
             MakeLink, MakeGuest, MakeNamed, MakesInvite, GroupMade, GroupDeleted, MakerMoved,
             HubMoves, CloseDialog, SwitchTab, Pick, AskLink, AskGuest, AskNamed, Asks, Another,
             InviteAnswered, InviteFails, OpenDialog
    <2>2. moved' = moved \/ moved' = TRUE \/ moved' = CopiesLag
      BY DEF InviteNext, SessionRenewed, PermsRead, PermsAnswered, GroupsRead, GroupsAnswered,
             MakeLink, MakeGuest, MakeNamed, MakesInvite, GroupMade, GroupDeleted, MakerMoved,
             HubMoves, CloseDialog, SwitchTab, Pick, AskLink, AskGuest, AskNamed, Asks, Another,
             InviteAnswered, InviteFails, OpenDialog
    <2> QED
      <3>1. steps' \in 0..MaxSteps
        BY <2>1, InvitesAssumption DEF Step, InviteTypeOK
      <3>2. moved \in BOOLEAN
        BY DEF InviteTypeOK
      <3>3. CopiesLag \in BOOLEAN
        BY Zenon DEF CopiesLag
      <3> QED
        BY <2>2, <3>1, <3>2, <3>3, Zenon
  <1> QED
    BY <1>2, <1>3
    DEF InviteTypeOK, DefaultStands, AskTypes, InviteAsk, HubTypes, CopyTypes, FormTypes, Here

\* A copy is of the hub as it stands, or the dialog knows of no group, or something moved.
LEMMA CopiesStep ==
    ASSUME InviteTypeOK, CopiesFresh, InviteNext
    PROVE  CopiesFresh'
  <1> USE InvitesAssumption DEF InviteTypeOK, CopiesFresh, hubOf, loaded, Here
  <1>1. CASE OpenDialog
    <2>1. ~moved' => loads = {} /\ permsAsk.stage = "idle" /\ perms = rank
      BY <1>1 DEF OpenDialog, CopiesLag
    <2> QED
      BY <1>1, <2>1 DEF OpenDialog, Loads, BlankForm
  <1>2. CASE CloseDialog \/ \E other \in Tabs : SwitchTab(other)
    BY <1>2 DEF CloseDialog, SwitchTab, BlankForm
  <1>3. CASE SessionRenewed \/ PermsRead \/ PermsAnswered
    BY <1>3 DEF SessionRenewed, Loads, PermsRead, PermsAnswered, NoAsk
  <1>4. CASE \E l \in loads : GroupsRead(l) \/ GroupsAnswered(l)
    BY <1>4 DEF GroupsRead, GroupsAnswered
  <1>5. CASE \E g \in Ranks : Pick(g)
    BY <1>5 DEF Pick, Pickable
  <1>6. CASE \E g \in Ranks : GroupMade(g) \/ GroupDeleted(g) \/ MakerMoved(g)
    BY <1>6 DEF GroupMade, GroupDeleted, MakerMoved, HubMoves
  <1>7. CASE AskLink \/ AskGuest \/ AskNamed \/ Another
    BY <1>7 DEF AskLink, AskGuest, AskNamed, Asks, Another
  <1>8. CASE \E a \in inviteAsks : MakeLink(a) \/ MakeGuest(a) \/ MakeNamed(a)
    BY <1>8 DEF MakeLink, MakeGuest, MakeNamed, MakesInvite
  <1>9. CASE \E a \in inviteAsks : InviteAnswered(a) \/ InviteFails(a)
    <2>1. UNCHANGED <<hubOf, loaded, tab, moved>>
      BY <1>9 DEF InviteAnswered, InviteFails
    <2>2. PICK url : \/ form' = form
                     \/ form' = [form EXCEPT !.busy = FALSE, !.url = url]
                     \/ form' = [form EXCEPT !.busy = FALSE]
      BY <1>9 DEF InviteAnswered, InviteFails
    <2>3. form'.pick = form.pick
      BY <2>2
    <2> QED
      BY <2>1, <2>3
  <1> QED
    BY <1>1, <1>2, <1>3, <1>4, <1>5, <1>6, <1>7, <1>8, <1>9 DEF InviteNext

\* What a form with fresh copies sends fits.
LEMMA AskedFits ==
    ASSUME InviteTypeOK, CopiesFresh, tab # "none", ~moved, NEW group, NEW showed,
           \/ AskLink /\ group = Chosen /\ showed = Shows /\ tab = "link"
           \/ AskGuest /\ group = DefaultGroup /\ showed = DefaultGroup /\ tab = "temp"
           \/ AskNamed /\ group = NoGroup /\ showed = NoGroup
    PROVE  AskFits([kind |-> tab, group |-> group, showed |-> showed, rank |-> rank,
                    moved |-> moved])
  <1>1. /\ perms = rank /\ perms \in Nat /\ Here \subseteq Nat /\ NoGroup \notin Nat
        /\ \A g \in Pickable : g > rank /\ g # 0 /\ g \in Nat
    BY InvitesAssumption DEF InviteTypeOK, CopiesFresh, Here, Pickable
  <1>2. form.pick \in Here => form.pick \in Pickable
    BY <1>1 DEF CopiesFresh, Pickable
  <1> QED
    BY <1>1, <1>2, DefaultFits DEF AskFits, Chosen, Shows

\* A request under way goes on fitting: what would unfit it moves, and marks it.
LEMMA AsksStep ==
    ASSUME InviteTypeOK, CopiesFresh, AsksFit, InviteNext
    PROVE  AsksFit'
  <1> USE DEF AsksFit, hubOf, loaded
  <1>1. inviteAsks \subseteq InviteAsk /\ rank \in Ranks
    BY DEF InviteTypeOK, InviteAsk, Here
  <1>2. UNCHANGED hubOf => \A i : AskFits(i)' <=> AskFits(i)
    BY DEF AskFits, Here
  <1>3. CASE UNCHANGED <<hubOf, inviteAsks, tab>>
    BY <1>2, <1>3
  <1>4. CASE OpenDialog
    <2>1. \A a \in inviteAsks : a.invite.kind # "none"
      BY <1>1 DEF InviteAsk, Invite, Tabs
    <2> QED
      BY <1>2, <1>4, <2>1 DEF OpenDialog
  <1>5. CASE CloseDialog \/ \E other \in Tabs : SwitchTab(other)
    <2>1. inviteAsks' = Forsaken /\ UNCHANGED hubOf
      BY <1>5 DEF CloseDialog, SwitchTab
    <2>2. ASSUME NEW b \in Forsaken
          PROVE  ~b.own /\ \E a \in inviteAsks : b.stage = a.stage /\ b.invite = a.invite
      <3>1. PICK a \in inviteAsks : b = [a EXCEPT !.own = FALSE]
        BY DEF Forsaken
      <3> QED
        BY <1>1, <3>1, AskRecords
    <2> QED
      BY <1>2, <2>1, <2>2
  <1>6. CASE \E g \in Ranks : GroupMade(g) \/ GroupDeleted(g) \/ MakerMoved(g)
    <2>1. /\ inviteAsks' = {[a EXCEPT !.invite.moved = @ \/ a.stage = "sent"] : a \in inviteAsks}
          /\ tab' = tab
      BY <1>6 DEF GroupMade, GroupDeleted, MakerMoved, HubMoves
    <2>2. ASSUME NEW b \in inviteAsks'
          PROVE  /\ b.stage = "sent" => b.invite.moved
                 /\ \E a \in inviteAsks : b.own = a.own /\ b.invite.kind = a.invite.kind
      <3>1. PICK a \in inviteAsks : b = [a EXCEPT !.invite.moved = @ \/ a.stage = "sent"]
        BY <2>1
      <3> QED
        BY <1>1, <3>1, AskRecords
    <2> QED
      BY <2>1, <2>2
  <1>7. CASE AskLink \/ AskGuest \/ AskNamed
    <2>1. tab # "none" /\ UNCHANGED <<hubOf, tab>>
      BY <1>7 DEF AskLink, AskGuest, AskNamed, Asks
    <2>2. PICK group, showed :
            /\ inviteAsks' = inviteAsks \cup
                 {[stage |-> "sent", own |-> TRUE,
                   invite |-> [kind |-> tab, group |-> group, showed |-> showed, rank |-> rank,
                               moved |-> moved]]}
            /\ \/ AskLink /\ group = Chosen /\ showed = Shows /\ tab = "link"
               \/ AskGuest /\ group = DefaultGroup /\ showed = DefaultGroup /\ tab = "temp"
               \/ AskNamed /\ group = NoGroup /\ showed = NoGroup
      BY <1>7 DEF AskLink, AskGuest, AskNamed, Asks
    <2> DEFINE i == [kind |-> tab, group |-> group, showed |-> showed, rank |-> rank,
                     moved |-> moved]
    <2>3. ~moved => AskFits(i)
      BY <2>1, <2>2, AskedFits
    <2>4. i.kind = tab /\ i.moved = moved
      OBVIOUS
    <2>5. inviteAsks' = inviteAsks \cup {[stage |-> "sent", own |-> TRUE, invite |-> i]}
      BY <2>2
    <2> HIDE DEF i
    <2> QED
      BY <1>2, <2>1, <2>3, <2>4, <2>5
  <1>8. ASSUME NEW a \in inviteAsks, NEW kind, MakesInvite(a, kind)
        PROVE  AsksFit'
    <2> DEFINE grant == [a.invite EXCEPT !.rank = rank]
               b == [a EXCEPT !.stage = "served", !.invite = grant]
    <2>1. b.own = a.own /\ b.stage = "served" /\ b.invite.kind = a.invite.kind
      BY <1>1, AskRecords
    <2>2. inviteAsks' = (inviteAsks \ {a}) \cup {b} /\ UNCHANGED <<hubOf, tab>>
      BY <1>8 DEF MakesInvite
    <2> HIDE DEF b
    <2> QED
      BY <1>2, <2>1, <2>2
  <1>9. CASE \E a \in inviteAsks : InviteAnswered(a) \/ InviteFails(a)
    BY <1>2, <1>9 DEF InviteAnswered, InviteFails
  <1> QED
    BY <1>3, <1>4, <1>5, <1>6, <1>7, <1>8, <1>9
    DEF InviteNext, SessionRenewed, PermsRead, PermsAnswered, GroupsRead, GroupsAnswered, Pick,
        Another, MakeLink, MakeGuest, MakeNamed

\* Every invitation made grants the group that its form showed, below its maker (createInvite,
\* createTempUser and createPermanentInvite of the hub service trust the group they are given).
LEMMA GrantsStep ==
    ASSUME InviteTypeOK, AsksFit, GrantsAsShown, InviteNext
    PROVE  GrantsAsShown'
  <1>1. CASE UNCHANGED invites
    BY <1>1 DEF GrantsAsShown
  <1>2. ASSUME NEW a \in inviteAsks, MakeLink(a) \/ MakeGuest(a) \/ MakeNamed(a)
        PROVE  GrantsAsShown'
    <2> DEFINE grant == [a.invite EXCEPT !.rank = rank]
    <2>1. a \in InviteAsk /\ rank \in Ranks
      BY DEF InviteTypeOK, InviteAsk, Here
    <2>2. /\ grant.group = a.invite.group /\ grant.showed = a.invite.showed
          /\ grant.moved = a.invite.moved /\ grant.rank = rank
      BY <2>1, AskRecords
    <2>3. /\ invites' = invites \cup {grant} /\ a.stage = "sent"
          /\ a.invite.group \in Here \cup {NoGroup} \/ a.invite.kind = "permanent"
      BY <1>2 DEF MakeLink, MakeGuest, MakeNamed, MakesInvite
    <2>4. ~grant.moved =>
            /\ grant.group = grant.showed
            /\ grant.group # NoGroup => grant.group > grant.rank /\ grant.group # 0
      BY <2>2, <2>3 DEF AsksFit, AskFits
    <2> HIDE DEF grant
    <2> QED
      BY <2>3, <2>4 DEF GrantsAsShown
  <1> QED
    BY <1>1, <1>2
    DEF InviteNext, OpenDialog, CloseDialog, SwitchTab, SessionRenewed, PermsRead, PermsAnswered,
        GroupsRead, GroupsAnswered, Pick, AskLink, AskGuest, AskNamed, Asks, Another,
        InviteAnswered, InviteFails, GroupMade, GroupDeleted, MakerMoved, HubMoves

\* The address shown is of the tab it is shown in.
LEMMA LinkStep ==
    ASSUME InviteTypeOK, AsksFit, LinkOfItsTab, InviteNext
    PROVE  LinkOfItsTab'
  <1> USE DEF LinkOfItsTab
  <1>1. CASE UNCHANGED <<form, tab>>
    BY <1>1
  <1>2. CASE OpenDialog \/ CloseDialog \/ \E other \in Tabs : SwitchTab(other)
    BY <1>2 DEF OpenDialog, CloseDialog, SwitchTab, BlankForm
  <1>3. CASE (\E g \in Ranks : Pick(g)) \/ AskLink \/ AskGuest \/ AskNamed \/ Another
    BY <1>3 DEF InviteTypeOK, Pick, AskLink, AskGuest, AskNamed, Asks, Another
  <1>4. ASSUME NEW a \in inviteAsks, InviteAnswered(a) \/ InviteFails(a)
        PROVE  LinkOfItsTab'
    BY <1>4 DEF InviteTypeOK, AsksFit, InviteAnswered, InviteFails
  <1> QED
    BY <1>1, <1>2, <1>3, <1>4
    DEF InviteNext, SessionRenewed, PermsRead, PermsAnswered, GroupsRead, GroupsAnswered,
        MakeLink, MakeGuest, MakeNamed, MakesInvite, GroupMade, GroupDeleted, MakerMoved, HubMoves

\* Every step keeps the invariant.
LEMMA InviteStep ==
    ASSUME InviteInv, [InviteNext]_inviteVars
    PROVE  InviteInv'
  <1>1. CASE InviteNext
    BY <1>1, InviteTypeStep, CopiesStep, AsksStep, GrantsStep, LinkStep
    DEF InviteInv, InvitesAsShown
  <1>2. CASE UNCHANGED inviteVars
    BY <1>2
    DEF inviteVars, InviteInv, InviteTypeOK, DefaultStands, CopiesFresh, AsksFit, AskFits, Here,
        InvitesAsShown, GrantsAsShown, LinkOfItsTab
  <1> QED
    BY <1>1, <1>2

\* INVITATIONS AS SHOWN.  An invitation made while nothing moved grants the group its form showed,
\* a group below its maker that is not the default one, and the dialog shows no address of another
\* tab, whatever the groups and however many invitations are under way.
THEOREM InvitesCorrect == WebSpec => []InvitesAsShown
  <1>1. WebInit => InviteInv
    BY InviteInitially DEF WebInit
  <1>2. InviteInv /\ [WebNext]_webVars => InviteInv'
    <2>1. [WebNext]_webVars => [InviteNext]_inviteVars
      BY DEF WebNext, webVars
    <2> QED
      BY <2>1, InviteStep
  <1>3. InviteInv => InvitesAsShown
    BY DEF InviteInv
  <1> QED
    BY <1>1, <1>2, <1>3, PTL DEF WebSpec

-----------------------------------------------------------------------------
(* The roster (HubRoster).                                                 *)

\* F speaks of u in an event of these kinds.
Mentions(F, u, kinds) == \E i \in 1..Len(F) : F[i].user = u /\ F[i].kind \in kinds

\* Event i of F is the last of these kinds about u.
Settles(F, i, u, kinds) ==
    /\ F[i].user = u /\ F[i].kind \in kinds
    /\ \A j \in (i+1)..Len(F) : ~(F[j].user = u /\ F[j].kind \in kinds)

\* The last event of F about u of these kinds is of the kind exactly if value holds.
EndsAs(F, u, kinds, kind, value) ==
    \A i \in 1..Len(F) : Settles(F, i, u, kinds) => (F[i].kind = kind <=> value)

\* What one more event makes of it.
LEMMA NewsAppend ==
    ASSUME NEW F \in Seq(Event), NEW e \in Event, NEW u, NEW kinds
    PROVE  /\ Mentions(Append(F, e), u, kinds) <=>
                Mentions(F, u, kinds) \/ (e.user = u /\ e.kind \in kinds)
           /\ \A kind, value :
                (IF e.user = u /\ e.kind \in kinds THEN e.kind = kind <=> value
                 ELSE EndsAs(F, u, kinds, kind, value))
                => EndsAs(Append(F, e), u, kinds, kind, value)
  <1> DEFINE A == Append(F, e)
  <1>1. /\ Len(A) = Len(F) + 1 /\ Len(F) \in Nat /\ A[Len(A)] = e
        /\ \A i \in 1..Len(F) : A[i] = F[i]
    OBVIOUS
  <1> HIDE DEF A
  <1>2. Mentions(A, u, kinds) <=> Mentions(F, u, kinds) \/ (e.user = u /\ e.kind \in kinds)
    BY <1>1 DEF Mentions
  <1>3. ASSUME NEW kind, NEW value,
               IF e.user = u /\ e.kind \in kinds THEN e.kind = kind <=> value
               ELSE EndsAs(F, u, kinds, kind, value)
        PROVE  EndsAs(A, u, kinds, kind, value)
    BY <1>1, <1>3 DEF EndsAs, Settles
  <1> QED
    BY <1>2, <1>3 DEF A

\* What taking the first event makes of it.
LEMMA NewsTail ==
    ASSUME NEW F \in Seq(Event), F # <<>>, NEW u, NEW kinds
    PROVE  /\ Mentions(F, u, kinds) <=>
                Mentions(Tail(F), u, kinds) \/ (Head(F).user = u /\ Head(F).kind \in kinds)
           /\ \A kind, value : EndsAs(F, u, kinds, kind, value) =>
                /\ EndsAs(Tail(F), u, kinds, kind, value)
                /\ Head(F).user = u /\ Head(F).kind \in kinds /\ ~Mentions(Tail(F), u, kinds)
                     => (Head(F).kind = kind <=> value)
  <1> DEFINE T == Tail(F)
  <1>1. /\ Len(T) = Len(F) - 1 /\ Len(F) \in Nat \ {0} /\ Head(F) = F[1]
        /\ \A i \in 1..Len(T) : T[i] = F[i+1]
    OBVIOUS
  <1> HIDE DEF T
  <1>2. Mentions(F, u, kinds) <=> Mentions(T, u, kinds) \/ (F[1].user = u /\ F[1].kind \in kinds)
    <2>1. ASSUME NEW i \in 1..Len(F), i # 1 PROVE i - 1 \in 1..Len(T) /\ T[i-1] = F[i]
      BY <1>1, <2>1
    <2>2. \A i \in 1..Len(T) : i + 1 \in 1..Len(F)
      BY <1>1
    <2>3. 1 \in 1..Len(F)
      BY <1>1
    <2> QED
      BY <1>1, <2>1, <2>2, <2>3 DEF Mentions
  <1>3. ASSUME NEW kind, NEW value, EndsAs(F, u, kinds, kind, value)
        PROVE  /\ EndsAs(T, u, kinds, kind, value)
               /\ F[1].user = u /\ F[1].kind \in kinds /\ ~Mentions(T, u, kinds)
                    => (F[1].kind = kind <=> value)
    <2>1. ASSUME NEW i \in 1..Len(T), Settles(T, i, u, kinds) PROVE T[i].kind = kind <=> value
      <3>1. i + 1 \in 1..Len(F) /\ F[i+1] = T[i]
        BY <1>1
      <3>2. ASSUME NEW j \in (i+1+1)..Len(F) PROVE j - 1 \in (i+1)..Len(T) /\ F[j] = T[j-1]
        BY <1>1
      <3>3. Settles(F, i+1, u, kinds)
        BY <2>1, <3>1, <3>2 DEF Settles
      <3> QED
        BY <1>3, <3>1, <3>3 DEF EndsAs
    <2>2. ASSUME F[1].user = u, F[1].kind \in kinds, ~Mentions(T, u, kinds)
          PROVE  F[1].kind = kind <=> value
      <3>1. ASSUME NEW j \in (1+1)..Len(F) PROVE j - 1 \in 1..Len(T) /\ F[j] = T[j-1]
        BY <1>1
      <3>2. Settles(F, 1, u, kinds) /\ 1 \in 1..Len(F)
        BY <1>1, <2>2, <3>1 DEF Settles, Mentions
      <3> QED
        BY <1>3, <3>2 DEF EndsAs
    <2> QED
      BY <2>1, <2>2 DEF EndsAs
  <1> QED
    BY <1>1, <1>2, <1>3 DEF T

\* Of nobody is anything said in an empty list.
LEMMA NoNews ==
    ASSUME NEW u, NEW kinds
    PROVE  /\ ~Mentions(<<>>, u, kinds)
           /\ \A kind, value : EndsAs(<<>>, u, kinds, kind, value)
  BY DEF Mentions, EndsAs

\* The kinds of events: who is in the hub, who is in voice, whose microphone is open.
MemberKinds == {"joined", "left", "groups"}
InKinds == {"in", "out"}
OpenKinds == {"open", "muted", "out"}

\* Events wait only at a socket somebody listens to.
SocketInv == /\ ~listening => news = <<>>
             /\ socket = "off" => ~listening /\ news = <<>>

\* What is committed and not yet announced is about membership.
UnsaidKinds == \A e \in unsaid : e.kind \in MemberKinds

\* What waits at the socket ends with the truth: the last word about a user in voice is where
\* that user is.
NewsSettle ==
    \A u \in Users :
       /\ EndsAs(news, u, InKinds, "in", voice[u] # "out")
       /\ EndsAs(news, u, OpenKinds, "open", voice[u] = "open")

\* Something about u is still to be heard.
Pending(u, kinds) == \/ \E e \in unsaid : e.user = u /\ e.kind \in kinds
                     \/ Mentions(news, u, kinds)

\* The rows of a user.
RowsOf(rows, u) == {r \in rows : r.user = u}

\* All there was to hear about u is heard, and nothing was lost.
Heard(u) == socket = "open" /\ u \notin lost /\ ~Pending(u, MemberKinds)

\* the rows it has, or will have when the answer that was read is here
RowsFollow ==
    \A u \in Users : Heard(u) =>
       /\ rosterFetch.stage = "idle" => RowsOf(roster, u) = RowsOf(RowsNow, u)
       /\ rosterFetch.stage = "read" => RowsOf(rosterFetch.of.rows, u) = RowsOf(RowsNow, u)

\* A set of users in voice, and one of open microphones, are right about u as soon as what waits
\* at the socket is heard.
MarksAre(in, open, u) ==
    /\ Mentions(news, u, InKinds) \/ (u \in in <=> voice[u] # "out")
    /\ Mentions(news, u, OpenKinds) \/ (u \in open <=> voice[u] = "open")

\* So are the marks of the roster, and those of an answer that was read; those of a user whose
\* event crossed an answer may not be.
MarksFollow ==
    \A u \in Members : Heard(u) /\ u \notin crossed =>
       /\ rosterFetch.stage = "idle" => MarksAre(occupancy, unmuted, u)
       /\ rosterFetch.stage = "read" => MarksAre(rosterFetch.of.in, rosterFetch.of.open, u)

\* Nobody who joined and was heard of is shown as invited, nor will an answer show them.
InvitedFollow ==
    \A u \in Members \ lostJoins : ~Pending(u, {"joined"}) =>
       /\ invitedFetch.stage = "idle" => u \notin invited
       /\ invitedFetch.stage = "read" => u \notin invitedFetch.of.in

\* An answer is made of rows and users.
FetchesFit ==
    /\ rosterFetch.of.rows \subseteq Rows
    /\ rosterFetch.of.in \subseteq Users /\ rosterFetch.of.open \subseteq Users
    /\ invitedFetch.of.in \subseteq Users

\* The invariant of the roster.
RosterInv ==
    /\ RosterTypeOK /\ FetchesFit /\ UnsaidKinds /\ SocketInv
    /\ NewsSettle /\ RowsFollow /\ MarksFollow /\ InvitedFollow

\* The steps by what they do to the roster and to what the tab hears of it.
LEMMA RosterCases ==
    ASSUME RosterNext
    PROVE  \/ UNCHANGED <<folk, voice, unsaid, socket, news, roster, rosterFetch, occupancy,
                          unmuted, lost, crossed>>
           \/ rosterFetch'.stage \in {"sent", "failed"} /\ UNCHANGED <<folk, voice>>
           \/ socket' # "open" /\ UNCHANGED <<folk, voice>>
           \/ RosterRead \/ RosterAnswered
           \/ \E e \in unsaid : Announce(e)
           \/ \E e \in Event : HandleEvent(e)
           \/ \E u \in Users : Accepts(u) \/ \E to \in Voice : VoiceChanges(u, to)
           \/ \E r \in requests : RequestServed(r)
  <1> USE DEF hubSide, shown, ghosts
  <1>1. CASE ConnectSocket \/ SocketCloses
    BY <1>1 DEF ConnectSocket, SocketCloses
  <1>5. CASE Subscribe \/ InvitedRead \/ InvitedAnswered
    BY <1>5 DEF Subscribe, InvitedRead, InvitedAnswered
  <1>6. CASE SocketOpens
    BY <1>6 DEF SocketOpens, AskRoster, Asked
  <1>2. CASE FetchFails \/ Retry
    BY <1>2 DEF FetchFails, Retry, AskRoster, Asked, NoFetch
  <1>3. CASE \E u \in Users, op \in {"kick", "toggle", "invite", "revoke"} : Submit(op, u)
    BY <1>3 DEF Submit
  <1>4. CASE \E r \in requests : RequestAnswered(r)
    BY <1>4 DEF RequestAnswered, AskRoster, Asked
  <1> QED
    BY <1>1, <1>2, <1>3, <1>4, <1>5, <1>6 DEF RosterNext

\* A socket that closes takes its listener and its events away.
LEMMA SocketInvStep ==
    ASSUME RosterTypeOK, SocketInv, RosterNext
    PROVE  SocketInv'
  <1> USE DEF SocketInv, hubSide, shown, ghosts
  <1>1. CASE ConnectSocket \/ Subscribe \/ SocketOpens \/ SocketCloses
    BY <1>1 DEF ConnectSocket, Subscribe, SocketOpens, SocketCloses, AskRoster
  <1>2. CASE \E e \in unsaid : Announce(e)
    BY <1>2 DEF Announce, Reaches, RosterTypeOK
  <1>3. CASE \E e \in Event : HandleEvent(e)
    BY <1>3 DEF HandleEvent
  <1>4. CASE \E u \in Users, to \in Voice : VoiceChanges(u, to)
    BY <1>4 DEF VoiceChanges, Reaches
  <1>5. CASE UNCHANGED <<socket, listening, news>>
    BY <1>5
  <1> QED
    BY <1>1, <1>2, <1>3, <1>4, <1>5
    DEF RosterNext, RosterRead, RosterAnswered, InvitedRead, InvitedAnswered, FetchFails, Retry,
        Accepts, Commits, Submit, RequestServed, RequestAnswered

\* Every change of voice is published with its commit, in order, so that the last word stays true.
LEMMA NewsSettleStep ==
    ASSUME RosterTypeOK, UnsaidKinds, SocketInv, NewsSettle, RosterNext
    PROVE  NewsSettle'
  <1> USE DEF NewsSettle, hubSide, shown, ghosts
  <1>0. news \in Seq(Event) /\ voice \in [Users -> Voice]
    BY DEF RosterTypeOK
  <1>1. CASE UNCHANGED <<news, voice>>
    BY <1>1
  <1>2. CASE news' = <<>> /\ UNCHANGED voice
    BY <1>2, NoNews
  <1>3. ASSUME NEW e \in unsaid, Announce(e) PROVE NewsSettle'
    <2>1. e \in Event /\ e.kind \notin InKinds /\ e.kind \notin OpenKinds
      BY DEF RosterTypeOK, UnsaidKinds, MemberKinds, InKinds, OpenKinds
    <2>2. voice' = voice /\ (news' = news \/ news' = Append(news, e))
      BY <1>3 DEF Announce, Reaches
    <2>3. ASSUME NEW u \in Users, NEW kind, NEW value, NEW kinds, e.kind \notin kinds,
                 EndsAs(news, u, kinds, kind, value)
          PROVE  EndsAs(news', u, kinds, kind, value)
      <3>1. EndsAs(Append(news, e), u, kinds, kind, value)
        BY <1>0, <2>1, <2>3, NewsAppend
      <3> QED
        BY <2>2, <2>3, <3>1
    <2> QED
      BY <2>1, <2>2, <2>3
  <1>4. ASSUME NEW e \in Event, HandleEvent(e) PROVE NewsSettle'
    <2>1. voice' = voice /\ news # <<>> /\ news' = Tail(news)
      BY <1>4 DEF HandleEvent
    <2> QED
      BY <1>0, <2>1, NewsTail
  <1>5. ASSUME NEW w \in Users, NEW to \in Voice, VoiceChanges(w, to) PROVE NewsSettle'
    <2> DEFINE e == [kind |-> IF to = "muted" /\ voice[w] = "out" THEN "in" ELSE to, user |-> w]
    <2>1. e \in Event /\ e.user = w
      BY DEF Event, Voice
    <2>2. /\ voice' = [voice EXCEPT ![w] = to] /\ to # voice[w]
          /\ to = "open" => voice[w] = "muted"
      BY <1>5 DEF VoiceChanges
    <2>5. IF listening THEN news' = Append(news, e) ELSE news' = <<>>
      BY <1>5 DEF VoiceChanges, Reaches, SocketInv
    <2>6. /\ voice'[w] = to /\ voice[w] \in Voice
          /\ \A u \in Users \ {w} : voice'[u] = voice[u]
      BY <1>0, <2>2
    <2>3. CASE listening
      <3> SUFFICES ASSUME NEW u \in Users
                   PROVE  /\ EndsAs(Append(news, e), u, InKinds, "in", voice'[u] # "out")
                          /\ EndsAs(Append(news, e), u, OpenKinds, "open", voice'[u] = "open")
        BY <2>3, <2>5
      <3>1. CASE u # w
        <4>1. voice'[u] = voice[u]
          BY <2>6, <3>1
        <4> HIDE DEF e
        <4> QED
          BY <1>0, <2>1, <3>1, <4>1, NewsAppend
      <3>2. CASE u = w
        <4>1. /\ voice'[u] = to /\ to \in Voice /\ voice[u] \in Voice /\ to # voice[u]
              /\ to = "open" => voice[w] = "muted"
          BY <2>2, <2>6, <3>2
        <4>2. IF e.user = u /\ e.kind \in InKinds THEN e.kind = "in" <=> voice'[u] # "out"
              ELSE EndsAs(news, u, InKinds, "in", voice'[u] # "out")
          <5>1. e.kind \notin InKinds => (voice'[u] # "out" <=> voice[u] # "out")
            BY <3>2, <4>1 DEF InKinds, Voice
          <5>2. e.kind \in InKinds => (e.kind = "in" <=> voice'[u] # "out")
            BY <3>2, <4>1 DEF InKinds, Voice
          <5> HIDE DEF e
          <5> QED
            BY <2>1, <3>2, <5>1, <5>2 DEF EndsAs
        <4>3. IF e.user = u /\ e.kind \in OpenKinds THEN e.kind = "open" <=> voice'[u] = "open"
              ELSE EndsAs(news, u, OpenKinds, "open", voice'[u] = "open")
          <5>1. e.kind \notin OpenKinds => (voice'[u] = "open" <=> voice[u] = "open")
            BY <3>2, <4>1 DEF OpenKinds, Voice
          <5>2. e.kind \in OpenKinds => (e.kind = "open" <=> voice'[u] = "open")
            BY <3>2, <4>1 DEF OpenKinds, Voice
          <5> HIDE DEF e
          <5> QED
            BY <2>1, <3>2, <5>1, <5>2 DEF EndsAs
        <4> HIDE DEF e
        <4> QED
          BY <1>0, <2>1, <4>2, <4>3, NewsAppend
      <3> QED
        BY <3>1, <3>2
    <2>4. CASE ~listening
      BY <2>4, <2>5, NoNews
    <2> QED
      BY <2>3, <2>4
  <1> QED
    BY <1>1, <1>2, <1>3, <1>4, <1>5
    DEF RosterNext, RosterRead, RosterAnswered, InvitedRead, InvitedAnswered, FetchFails, Retry,
        Accepts, Commits, Submit, RequestServed, RequestAnswered, ConnectSocket, Subscribe,
        SocketOpens, SocketCloses

\* What the marks and rows of u depend on.
LEMMA RowsStay ==
    ASSUME NEW u \in Users
    PROVE  /\ folk' = folk => RowsOf(RowsNow, u)' = RowsOf(RowsNow, u)
           /\ RowsOf(RowsNow, u)' = RowsOf(RowsNow, u) => (u \in Members' <=> u \in Members)
           /\ UNCHANGED <<socket, lost, unsaid, news>> => (Heard(u)' <=> Heard(u))
  <1>1. folk' = folk => RowsOf(RowsNow, u)' = RowsOf(RowsNow, u)
    BY DEF RowsOf, RowsNow, Members
  <1>2. u \in Members <=> RowsOf(RowsNow, u) # {}
    <2>1. u \in Members => [user |-> u, group |-> folk[u].group] \in RowsOf(RowsNow, u)
      BY DEF RowsOf, RowsNow
    <2>2. \A r \in RowsOf(RowsNow, u) : u \in Members
      BY DEF RowsOf, RowsNow
    <2> QED
      BY <2>1, <2>2
  <1>3. u \in Members' <=> RowsOf(RowsNow, u)' # {}
    <2>1. u \in Members' => [user |-> u, group |-> folk'[u].group] \in RowsOf(RowsNow, u)'
      BY DEF RowsOf, RowsNow
    <2>2. \A r \in RowsOf(RowsNow, u)' : u \in Members'
      BY DEF RowsOf, RowsNow
    <2> QED
      BY <2>1, <2>2
  <1>4. UNCHANGED <<socket, lost, unsaid, news>> => (Heard(u)' <=> Heard(u))
    BY DEF Heard, Pending, Mentions
  <1> QED
    BY <1>1, <1>2, <1>3, <1>4

\* A step that leaves u heard of changed nothing about u in the hub.
LEMMA HeardStays ==
    ASSUME RosterTypeOK, UnsaidKinds, NEW u \in Users, Heard(u)',
           rosterFetch'.stage \in {"idle", "read"},
           \/ \E e \in unsaid : Announce(e)
           \/ \E e \in Event : HandleEvent(e)
           \/ \E w \in Users : Accepts(w) \/ \E to \in Voice : VoiceChanges(w, to)
           \/ \E r \in requests : RequestServed(r)
    PROVE  /\ Heard(u) /\ RowsOf(RowsNow, u)' = RowsOf(RowsNow, u)
           /\ UNCHANGED <<roster, rosterFetch>>
  <1>0. folk \in [Users -> Person] /\ news \in Seq(Event) /\ unsaid \subseteq Event
    BY DEF RosterTypeOK
  <1>1. folk' = folk => RowsOf(RowsNow, u)' = RowsOf(RowsNow, u)
    BY RowsStay
  <1>2. UNCHANGED <<socket, lost, unsaid, news>> => Heard(u)
    BY RowsStay
  <1>7. ASSUME NEW e \in unsaid, Announce(e) PROVE Heard(u)
    <2>1. CASE listening
      <3>1. /\ news' = Append(news, e) /\ unsaid' = unsaid \ {e}
            /\ UNCHANGED <<socket, lost>>
        BY <1>7, <2>1 DEF Announce, Reaches
      <3>2. e \in Event
        BY <1>0
      <3> QED
        BY <1>0, <3>1, <3>2, NewsAppend DEF Heard, Pending
    <2>2. CASE ~listening
      <3>1. /\ lost' = lost \cup {w \in {e.user} : socket = "open" /\ Behind(rosterFetch)}
            /\ unsaid' = unsaid \ {e} /\ UNCHANGED <<socket, news, rosterFetch>>
        BY <1>7, <2>2 DEF Announce, Reaches, shown
      <3>2. Behind(rosterFetch) /\ socket = "open"
        BY <3>1 DEF Behind, Heard
      <3>3. e.user # u
        BY <3>1, <3>2 DEF Heard
      <3> QED
        BY <3>1, <3>3 DEF Heard, Pending, Mentions
    <2> QED
      BY <2>1, <2>2
  <1>8. ASSUME NEW e \in unsaid, Announce(e) PROVE UNCHANGED <<folk, roster, rosterFetch>>
    BY <1>8 DEF Announce, shown
  <1>9. ASSUME NEW e \in Event, HandleEvent(e)
        PROVE  Heard(u) /\ UNCHANGED <<folk, roster, rosterFetch>>
    <2>1. /\ news # <<>> /\ e = Head(news) /\ news' = Tail(news)
          /\ UNCHANGED <<folk, unsaid, socket, roster>>
      BY <1>9 DEF HandleEvent, hubSide
    <2>2. CASE e.kind \in VoiceKinds
      <3>1. UNCHANGED <<rosterFetch, lost>> /\ e.kind \notin MemberKinds
        BY <1>9, <2>2 DEF HandleEvent, Crosses, VoiceKinds, MemberKinds
      <3> QED
        BY <1>0, <2>1, <3>1, NewsTail DEF Heard, Pending
    <2>3. CASE e.kind \notin VoiceKinds
      BY <1>9, <2>3 DEF HandleEvent, AskRoster, Asked
    <2> QED
      BY <2>2, <2>3
  <1>10. ASSUME NEW w \in Users, NEW to \in Voice, VoiceChanges(w, to)
         PROVE  Heard(u) /\ UNCHANGED <<folk, roster, rosterFetch>>
    <2>1. UNCHANGED <<folk, unsaid, socket, roster, rosterFetch>>
      BY <1>10 DEF VoiceChanges, shown
    <2> DEFINE e == [kind |-> IF to = "muted" /\ voice[w] = "out" THEN "in" ELSE to, user |-> w]
    <2>2. e \in Event /\ e.kind \notin MemberKinds
      BY DEF Event, Voice, MemberKinds
    <2>3. lost \subseteq lost' /\ (news' = news \/ news' = Append(news, e))
      BY <1>10 DEF VoiceChanges, Reaches
    <2> HIDE DEF e
    <2>4. Mentions(news, u, MemberKinds) => Mentions(news', u, MemberKinds)
      <3>1. Mentions(Append(news, e), u, MemberKinds) <=>
              Mentions(news, u, MemberKinds) \/ (e.user = u /\ e.kind \in MemberKinds)
        BY <1>0, <2>2, NewsAppend
      <3> QED
        BY <2>3, <3>1
    <2> QED
      BY <2>1, <2>3, <2>4 DEF Heard, Pending
  <1>11. ASSUME NEW person, NEW w \in Users,
                folk' = [folk EXCEPT ![w] = person],
                UNCHANGED <<socket, news, roster, rosterFetch, lost>>,
                unsaid \subseteq unsaid',
                \/ \E e \in unsaid' : e.user = w /\ e.kind \in MemberKinds
                \/ person.is # "member" /\ folk[w].is # "member"
         PROVE  Heard(u) /\ RowsOf(RowsNow, u)' = RowsOf(RowsNow, u)
    <2>1. Heard(u)
      BY <1>11 DEF Heard, Pending, Mentions
    <2>2. u # w => folk'[u] = folk[u]
      BY <1>0, <1>11
    <2>3. u = w => folk'[u].is # "member" /\ folk[u].is # "member"
      BY <1>0, <1>11 DEF Heard, Pending
    <2>4. \A r : r \in RowsOf(RowsNow, u) <=>
                   folk[u].is = "member" /\ r = [user |-> u, group |-> folk[u].group]
      BY DEF RowsOf, RowsNow, Members
    <2>5. \A r : r \in RowsOf(RowsNow, u)' <=>
                   folk'[u].is = "member" /\ r = [user |-> u, group |-> folk'[u].group]
      BY DEF RowsOf, RowsNow, Members
    <2> QED
      BY <2>1, <2>2, <2>3, <2>4, <2>5
  <1>12. ASSUME NEW w \in Users, Accepts(w)
         PROVE  /\ Heard(u) /\ RowsOf(RowsNow, u)' = RowsOf(RowsNow, u)
                /\ UNCHANGED <<roster, rosterFetch>>
    <2>1. /\ folk' = [folk EXCEPT ![w] = [folk[w] EXCEPT !.is = "member"]]
          /\ unsaid' = unsaid \cup {[kind |-> "joined", user |-> w]}
          /\ UNCHANGED <<socket, news, roster, rosterFetch, lost>>
      BY <1>12 DEF Accepts, Commits, shown, ghosts
    <2>2. \E e \in {[kind |-> "joined", user |-> w]} : e.user = w /\ e.kind \in MemberKinds
      BY DEF MemberKinds
    <2> QED
      BY <1>11, <2>1, <2>2
  <1>13. ASSUME NEW r \in requests, RequestServed(r)
         PROVE  /\ Heard(u) /\ RowsOf(RowsNow, u)' = RowsOf(RowsNow, u)
                /\ UNCHANGED <<roster, rosterFetch>>
    <2>1. r.user \in Users
      BY DEF RosterTypeOK, Requests
    <2>2. UNCHANGED <<socket, news, roster, rosterFetch, lost>> /\ Serves(r)
      BY <1>13 DEF RequestServed, shown, ghosts
    <2>3. CASE UNCHANGED <<folk, unsaid>>
      BY <1>1, <1>2, <2>2, <2>3
    <2>4. CASE r.op = "kick" /\ ~UNCHANGED <<folk, unsaid>>
      <3>1. /\ folk' = [folk EXCEPT ![r.user] = [is |-> "stranger", group |-> FALSE]]
            /\ unsaid' = unsaid \cup {[kind |-> "left", user |-> r.user]}
        BY <2>2, <2>4 DEF Serves
      <3>2. \E e \in {[kind |-> "left", user |-> r.user]} :
              e.user = r.user /\ e.kind \in MemberKinds
        BY DEF MemberKinds
      <3> QED
        BY <1>11, <2>1, <2>2, <3>1, <3>2
    <2>5. CASE r.op = "toggle" /\ ~UNCHANGED <<folk, unsaid>>
      <3>1. /\ folk' = [folk EXCEPT ![r.user] = [folk[r.user] EXCEPT !.group = ~@]]
            /\ unsaid' = unsaid \cup {[kind |-> "groups", user |-> r.user]}
        BY <2>2, <2>5 DEF Serves
      <3>2. \E e \in {[kind |-> "groups", user |-> r.user]} :
              e.user = r.user /\ e.kind \in MemberKinds
        BY DEF MemberKinds
      <3> QED
        BY <1>11, <2>1, <2>2, <3>1, <3>2
    <2>6. CASE r.op \in {"invite", "revoke"} /\ ~UNCHANGED <<folk, unsaid>>
      <3>1. PICK is \in {"invited", "stranger"} :
              /\ folk' = [folk EXCEPT ![r.user] = [folk[r.user] EXCEPT !.is = is]]
              /\ folk[r.user].is # "member" /\ unsaid' = unsaid
        BY <2>2, <2>6 DEF Serves
      <3>2. [folk[r.user] EXCEPT !.is = is].is # "member"
        BY <1>0, <2>1, <3>1 DEF Person
      <3> QED
        BY <1>11, <2>1, <2>2, <3>1, <3>2
    <2> QED
      BY <2>2, <2>3, <2>4, <2>5, <2>6 DEF Serves
  <1> QED
    BY <1>1, <1>7, <1>8, <1>9, <1>10, <1>12, <1>13

\* The rows follow.
LEMMA RowsFollowStep ==
    ASSUME RosterTypeOK, UnsaidKinds, SocketInv, RowsFollow, RosterNext
    PROVE  RowsFollow'
  <1> SUFFICES ASSUME NEW u \in Users, Heard(u)', rosterFetch'.stage \in {"idle", "read"}
               PROVE  /\ rosterFetch'.stage = "idle" => RowsOf(roster, u)' = RowsOf(RowsNow, u)'
                      /\ rosterFetch'.stage = "read" =>
                           RowsOf(rosterFetch'.of.rows, u) = RowsOf(RowsNow, u)'
    BY DEF RowsFollow, RowsOf
  <1>0. Heard(u) => /\ rosterFetch.stage = "idle" => RowsOf(roster, u) = RowsOf(RowsNow, u)
                    /\ rosterFetch.stage = "read" =>
                         RowsOf(rosterFetch.of.rows, u) = RowsOf(RowsNow, u)
    BY DEF RowsFollow
  <1>1. folk' = folk => RowsOf(RowsNow, u)' = RowsOf(RowsNow, u)
    BY RowsStay
  <1>2. UNCHANGED <<socket, lost, unsaid, news>> => Heard(u)
    BY RowsStay
  <1>3. Heard(u) /\ RowsOf(RowsNow, u)' = RowsOf(RowsNow, u)
          /\ UNCHANGED <<roster, rosterFetch>> =>
           /\ rosterFetch'.stage = "idle" => RowsOf(roster, u)' = RowsOf(RowsNow, u)'
           /\ rosterFetch'.stage = "read" => RowsOf(rosterFetch'.of.rows, u) = RowsOf(RowsNow, u)'
    BY <1>0 DEF RowsOf
  <1>4. CASE UNCHANGED <<folk, voice, unsaid, socket, news, roster, rosterFetch, occupancy,
                         unmuted, lost, crossed>>
    BY <1>1, <1>2, <1>3, <1>4
  <1>5. CASE rosterFetch'.stage \in {"sent", "failed"} \/ socket' # "open"
    BY <1>5 DEF Heard
  <1>6. CASE RosterRead
    BY <1>1, <1>6 DEF RosterRead, Snapshot, hubSide
  <1>7. CASE RosterAnswered
    BY <1>0, <1>1, <1>2, <1>7 DEF RosterAnswered, NoFetch, RowsOf, hubSide, ghosts
  <1> QED
    BY RosterCases, HeardStays, <1>3, <1>4, <1>5, <1>6, <1>7

\* The marks of voice and microphone follow: an event marks at once, an answer that was read
\* before the event is not older than what waits at the socket.
LEMMA MarksFollowStep ==
    ASSUME RosterTypeOK, UnsaidKinds, SocketInv, NewsSettle, MarksFollow, RosterNext
    PROVE  MarksFollow'
  <1> SUFFICES ASSUME NEW u \in Users, u \in Members', Heard(u)', u \notin crossed',
                      rosterFetch'.stage \in {"idle", "read"}
               PROVE  /\ rosterFetch'.stage = "idle" => MarksAre(occupancy, unmuted, u)'
                      /\ rosterFetch'.stage = "read" =>
                           MarksAre(rosterFetch.of.in, rosterFetch.of.open, u)'
    BY DEF MarksFollow, Members
  <1>0. /\ voice \in [Users -> Voice] /\ news \in Seq(Event) /\ unsaid \subseteq Event
        /\ u \in Members /\ Heard(u) /\ u \notin crossed =>
             /\ rosterFetch.stage = "idle" => MarksAre(occupancy, unmuted, u)
             /\ rosterFetch.stage = "read" => MarksAre(rosterFetch.of.in, rosterFetch.of.open, u)
    BY DEF RosterTypeOK, MarksFollow
  <1>1. folk' = folk => (u \in Members' <=> u \in Members)
    BY RowsStay
  <1>2. UNCHANGED <<socket, lost, unsaid, news>> => Heard(u)
    BY RowsStay
  <1>3. CASE UNCHANGED <<folk, voice, unsaid, socket, news, roster, rosterFetch, occupancy,
                         unmuted, lost, crossed>>
    BY <1>0, <1>1, <1>2, <1>3 DEF MarksAre
  <1>4. CASE rosterFetch'.stage \in {"sent", "failed"} \/ socket' # "open"
    BY <1>4 DEF Heard
  <1>5. CASE RosterRead
    BY <1>1, <1>5 DEF RosterRead, Snapshot, MarksAre, Members, InVoice, OpenMics, hubSide
  <1>6. CASE RosterAnswered
    BY <1>0, <1>1, <1>2, <1>6 DEF RosterAnswered, NoFetch, MarksAre, hubSide, ghosts
  <1>7. CASE \E e \in unsaid : Announce(e)
    <2>1. PICK e \in unsaid : Announce(e)
      BY <1>7
    <2>2. e \in Event /\ e.kind \notin InKinds /\ e.kind \notin OpenKinds
      BY <1>0 DEF UnsaidKinds, MemberKinds, InKinds, OpenKinds
    <2>3. /\ news' = news \/ news' = Append(news, e)
          /\ UNCHANGED <<voice, crossed, occupancy, unmuted>>
      BY <2>1 DEF Announce, Reaches, shown
    <2>4. \A kinds \in {InKinds, OpenKinds} :
            Mentions(Append(news, e), u, kinds) <=> Mentions(news, u, kinds)
      BY <1>0, <2>2, NewsAppend
    <2>5. Heard(u) /\ u \in Members /\ UNCHANGED rosterFetch
      BY <1>7, HeardStays, RowsStay
    <2> QED
      BY <1>0, <2>3, <2>4, <2>5 DEF MarksAre
  <1>8. CASE \E e \in Event : HandleEvent(e)
    <2>1. PICK e \in Event : HandleEvent(e)
      BY <1>8
    <2>2. Heard(u) /\ u \in Members /\ UNCHANGED rosterFetch
      BY <1>8, HeardStays, RowsStay
    <2>3. /\ news # <<>> /\ e = Head(news) /\ news' = Tail(news) /\ voice' = voice
          /\ occupancy' = CASE e.kind = "in" -> occupancy \cup {e.user}
                            [] e.kind = "out" -> occupancy \ {e.user}
                            [] OTHER -> occupancy
          /\ unmuted' = CASE e.kind = "open" -> unmuted \cup {e.user}
                          [] e.kind \in {"muted", "out"} -> unmuted \ {e.user}
                          [] OTHER -> unmuted
      BY <2>1 DEF HandleEvent, hubSide
    <2>4. crossed' = crossed \cup {w \in {e.user} : rosterFetch.stage = "read"}
      BY <2>1, <2>2 DEF HandleEvent, Crosses, AskRoster, Asked
    <2>5. \A kinds : Mentions(news, u, kinds) <=>
                       Mentions(news', u, kinds) \/ (e.user = u /\ e.kind \in kinds)
      BY <1>0, <2>3, NewsTail
    <2>6. CASE e.user # u
      <3>1. /\ u \in occupancy' <=> u \in occupancy
            /\ u \in unmuted' <=> u \in unmuted
        BY <2>3, <2>6
      <3> QED
        BY <1>0, <2>2, <2>3, <2>4, <2>5, <2>6, <3>1 DEF MarksAre
    <2>7. CASE e.user = u
      <3>1. rosterFetch.stage = "idle" /\ MarksAre(occupancy, unmuted, u)
        BY <1>0, <2>2, <2>4, <2>7
      <3>2. Mentions(news', u, InKinds) \/ (u \in occupancy' <=> voice[u] # "out")
        <4>1. CASE e.kind \in InKinds
          <5>1. EndsAs(news, u, InKinds, "in", voice[u] # "out")
            BY DEF NewsSettle
          <5>2. ~Mentions(news', u, InKinds) => (e.kind = "in" <=> voice[u] # "out")
            BY <1>0, <2>3, <2>7, <4>1, <5>1, NewsTail
          <5>3. u \in occupancy' <=> e.kind = "in"
            BY <2>3, <2>7, <4>1 DEF InKinds
          <5> QED
            BY <5>2, <5>3
        <4>2. CASE e.kind \notin InKinds
          BY <2>3, <2>5, <3>1, <4>2 DEF InKinds, MarksAre
        <4> QED
          BY <4>1, <4>2
      <3>3. Mentions(news', u, OpenKinds) \/ (u \in unmuted' <=> voice[u] = "open")
        <4>1. CASE e.kind \in OpenKinds
          <5>1. EndsAs(news, u, OpenKinds, "open", voice[u] = "open")
            BY DEF NewsSettle
          <5>2. ~Mentions(news', u, OpenKinds) => (e.kind = "open" <=> voice[u] = "open")
            BY <1>0, <2>3, <2>7, <4>1, <5>1, NewsTail
          <5>3. u \in unmuted' <=> e.kind = "open"
            BY <2>3, <2>7, <4>1 DEF OpenKinds
          <5> QED
            BY <5>2, <5>3
        <4>2. CASE e.kind \notin OpenKinds
          BY <2>3, <2>5, <3>1, <4>2 DEF OpenKinds, MarksAre
        <4> QED
          BY <4>1, <4>2
      <3> QED
        BY <2>2, <2>3, <3>1, <3>2, <3>3 DEF MarksAre
    <2> QED
      BY <2>6, <2>7
  <1>9. CASE \E w \in Users, to \in Voice : VoiceChanges(w, to)
    <2>1. PICK w \in Users, to \in Voice : VoiceChanges(w, to)
      BY <1>9
    <2>2. Heard(u) /\ u \in Members /\ UNCHANGED rosterFetch
      BY <1>9, HeardStays, RowsStay
    <2> DEFINE e == [kind |-> IF to = "muted" /\ voice[w] = "out" THEN "in" ELSE to, user |-> w]
    <2>3. e \in Event /\ e.user = w
      BY DEF Event, Voice
    <2>4. /\ voice' = [voice EXCEPT ![w] = to] /\ to # voice[w]
          /\ UNCHANGED <<crossed, occupancy, unmuted>>
      BY <2>1 DEF VoiceChanges, shown
    <2>5. IF listening THEN news' = Append(news, e)
          ELSE /\ news' = news
               /\ lost' = lost \cup {v \in {w} : socket = "open" /\ Behind(rosterFetch)}
      BY <2>1, <2>3 DEF VoiceChanges, Reaches
    <2>6. e.kind \notin InKinds => (to # "out" <=> voice[w] # "out")
      BY <1>0, <2>1, <2>4 DEF InKinds, Voice, VoiceChanges
    <2>7. e.kind \notin OpenKinds => (to = "open" <=> voice[w] = "open")
      BY <1>0, <2>1, <2>4 DEF OpenKinds, Voice, VoiceChanges
    <2> HIDE DEF e
    <2>8. voice'[w] = to /\ (u # w => voice'[u] = voice[u])
      BY <1>0, <2>4
    <2>9. CASE listening
      <3>1. \A kinds : Mentions(news', u, kinds) <=>
                         Mentions(news, u, kinds) \/ (e.user = u /\ e.kind \in kinds)
        <4>1. news' = Append(news, e)
          BY <2>5, <2>9
        <4> QED
          BY <1>0, <2>3, <4>1, NewsAppend
      <3> QED
        BY <1>0, <2>2, <2>3, <2>4, <2>6, <2>7, <2>8, <3>1 DEF MarksAre
    <2>10. CASE ~listening
      <3>1. u # w
        BY <2>2, <2>5, <2>10 DEF Heard, Behind
      <3> QED
        BY <1>0, <2>2, <2>4, <2>5, <2>8, <2>10, <3>1 DEF MarksAre
    <2> QED
      BY <2>9, <2>10
  <1>10. CASE (\E w \in Users : Accepts(w)) \/ \E r \in requests : RequestServed(r)
    <2>1. Heard(u) /\ u \in Members /\ UNCHANGED rosterFetch
      BY <1>10, HeardStays, RowsStay
    <2>2. UNCHANGED <<voice, news, crossed, occupancy, unmuted>>
      BY <1>10 DEF Accepts, Commits, RequestServed, shown, ghosts
    <2> QED
      BY <1>0, <2>1, <2>2 DEF MarksAre
  <1> QED
    BY RosterCases, <1>3, <1>4, <1>5, <1>6, <1>7, <1>8, <1>9, <1>10

\* An invitation leaves the list with the event of the one who joined, whichever of the event
\* and the answer of the invitations comes first.
LEMMA InvitedFollowStep ==
    ASSUME RosterTypeOK, SocketInv, InvitedFollow, RosterNext
    PROVE  InvitedFollow'
  <1> DEFINE Coming(u) == Pending(u, {"joined"})
  <1> SUFFICES ASSUME NEW u \in Users, folk'[u].is = "member", u \notin lostJoins', ~Coming(u)',
                      invitedFetch'.stage \in {"idle", "read"}
               PROVE  /\ invitedFetch'.stage = "idle" => u \notin invited'
                      /\ invitedFetch'.stage = "read" => u \notin invitedFetch'.of.in
    BY DEF InvitedFollow, Members
  <1>0. /\ folk \in [Users -> Person] /\ news \in Seq(Event) /\ unsaid \subseteq Event
        /\ folk[u].is = "member" /\ u \notin lostJoins /\ ~Coming(u) =>
             /\ invitedFetch.stage = "idle" => u \notin invited
             /\ invitedFetch.stage = "read" => u \notin invitedFetch.of.in
    BY DEF RosterTypeOK, InvitedFollow, Members
  <1>1. UNCHANGED <<unsaid, news>> => ~Coming(u)
    BY DEF Pending, Mentions
  <1>2. CASE UNCHANGED <<folk, unsaid, news, invited, invitedFetch, lostJoins>>
    BY <1>0, <1>1, <1>2
  <1>3. CASE invitedFetch'.stage \in {"sent", "failed"}
    BY <1>3
  <1>4. CASE InvitedRead
    BY <1>4 DEF InvitedRead, InvitedNow, NoSnapshot, hubSide
  <1>5. CASE InvitedAnswered
    BY <1>0, <1>1, <1>5 DEF InvitedAnswered, NoFetch, hubSide, ghosts
  <1>6. CASE ConnectSocket
    BY <1>0, <1>1, <1>6 DEF ConnectSocket, hubSide, shown, ghosts, SocketInv
  <1>7. CASE SocketCloses
    <2>1. /\ lostJoins' = lostJoins \cup
                {news[i].user : i \in {j \in DOMAIN news : news[j].kind = "joined"}}
          /\ UNCHANGED <<folk, unsaid, invited, invitedFetch>>
      BY <1>7 DEF SocketCloses, hubSide, shown
    <2>2. ~Coming(u)
      BY <1>0, <2>1 DEF Pending, Mentions
    <2> QED
      BY <1>0, <2>1, <2>2
  <1>8. CASE \E e \in unsaid : Announce(e)
    <2>1. PICK e \in unsaid : Announce(e)
      BY <1>8
    <2>2. UNCHANGED <<folk, invited, invitedFetch>> /\ unsaid' = unsaid \ {e} /\ Reaches(e)
      BY <2>1 DEF Announce, shown
    <2>3. CASE listening
      <3>1. news' = Append(news, e) /\ UNCHANGED lostJoins /\ e \in Event
        BY <1>0, <2>2, <2>3 DEF Reaches
      <3>2. ~Coming(u)
        BY <1>0, <2>2, <3>1, NewsAppend DEF Pending
      <3> QED
        BY <1>0, <2>2, <3>1, <3>2
    <2>4. CASE ~listening
      <3>1. /\ lostJoins' = lostJoins \cup
                  {w \in {e.user} : e.kind = "joined" /\ Behind(invitedFetch)}
            /\ news' = news
        BY <2>2, <2>4 DEF Reaches
      <3>2. Behind(invitedFetch)
        BY <2>2 DEF Behind
      <3>3. ~(e.user = u /\ e.kind = "joined")
        BY <3>1, <3>2
      <3>4. ~Coming(u)
        BY <2>2, <3>1, <3>3 DEF Pending, Mentions
      <3> QED
        BY <1>0, <2>2, <3>1, <3>4
    <2> QED
      BY <2>3, <2>4
  <1>9. CASE \E e \in Event : HandleEvent(e)
    <2>1. PICK e \in Event : HandleEvent(e)
      BY <1>9
    <2>2. /\ news # <<>> /\ e = Head(news) /\ news' = Tail(news)
          /\ UNCHANGED <<folk, unsaid, invited>>
      BY <2>1 DEF HandleEvent, hubSide
    <2>3. e.kind # "joined" /\ UNCHANGED <<invitedFetch, lostJoins>>
      BY <2>1 DEF HandleEvent, AskInvited, Asked
    <2>4. ~Coming(u)
      BY <1>0, <2>2, <2>3, NewsTail DEF Pending
    <2> QED
      BY <1>0, <2>2, <2>3, <2>4
  <1>10. CASE \E w \in Users, to \in Voice : VoiceChanges(w, to)
    <2>1. PICK w \in Users, to \in Voice : VoiceChanges(w, to)
      BY <1>10
    <2> DEFINE e == [kind |-> IF to = "muted" /\ voice[w] = "out" THEN "in" ELSE to, user |-> w]
    <2>2. e \in Event /\ e.kind # "joined"
      BY DEF Event, Voice
    <2>3. /\ lostJoins \subseteq lostJoins' /\ (news' = news \/ news' = Append(news, e))
          /\ UNCHANGED <<folk, unsaid, invited, invitedFetch>>
      BY <2>1 DEF VoiceChanges, Reaches, shown
    <2> HIDE DEF e
    <2>4. Mentions(Append(news, e), u, {"joined"}) <=>
            Mentions(news, u, {"joined"}) \/ (e.user = u /\ e.kind \in {"joined"})
      BY <1>0, <2>2, NewsAppend
    <2>5. ~Coming(u)
      BY <2>3, <2>4 DEF Pending
    <2> QED
      BY <1>0, <2>3, <2>5
  <1>11. CASE \E w \in Users : Accepts(w)
    <2>1. PICK w \in Users : Accepts(w)
      BY <1>11
    <2>2. /\ folk' = [folk EXCEPT ![w] = [folk[w] EXCEPT !.is = "member"]]
          /\ unsaid' = unsaid \cup {[kind |-> "joined", user |-> w]}
          /\ UNCHANGED <<news, invited, invitedFetch, lostJoins>>
      BY <2>1 DEF Accepts, Commits, shown, ghosts
    <2>3. \E e \in {[kind |-> "joined", user |-> w]} : e.user = w /\ e.kind \in {"joined"}
      OBVIOUS
    <2>4. ~Coming(u) /\ u # w
      BY <2>2, <2>3 DEF Pending, Mentions
    <2>5. folk'[u] = folk[u]
      BY <1>0, <2>2, <2>4
    <2> QED
      BY <1>0, <2>2, <2>4, <2>5
  <1>12. CASE \E r \in requests : RequestServed(r)
    <2>1. PICK r \in requests : RequestServed(r)
      BY <1>12
    <2>2. UNCHANGED <<news, invited, invitedFetch, lostJoins>> /\ Serves(r) /\ r.user \in Users
      BY <2>1 DEF RequestServed, shown, ghosts, RosterTypeOK, Requests
    <2>3. unsaid \subseteq unsaid'
      BY <2>2 DEF Serves
    <2>4. folk[u].is = "member"
      <3>1. PICK person : \/ folk' = folk
                          \/ /\ folk' = [folk EXCEPT ![r.user] = person]
                             /\ person.is # "member" \/ folk[r.user].is = "member"
        BY <1>0, <2>2 DEF Serves, Person
      <3> QED
        BY <1>0, <2>2, <3>1
    <2> QED
      BY <1>0, <2>2, <2>3, <2>4 DEF Pending, Mentions
  <1>13. CASE RosterRead \/ RosterAnswered \/ Subscribe \/ SocketOpens
              \/ (\E w \in Users, op \in {"kick", "toggle", "invite", "revoke"} : Submit(op, w))
    BY <1>2, <1>13
    DEF RosterRead, RosterAnswered, Subscribe, SocketOpens, Submit, hubSide, shown, ghosts
  <1>14. CASE FetchFails \/ Retry
    BY <1>2, <1>3, <1>14 DEF FetchFails, Retry, NoFetch, AskInvited, Asked, hubSide
  <1>15. CASE \E r \in requests : RequestAnswered(r)
    BY <1>2, <1>3, <1>15 DEF RequestAnswered, AskInvited, Asked, hubSide
  <1> QED
    BY <1>4, <1>5, <1>6, <1>7, <1>8, <1>9, <1>10, <1>11, <1>12, <1>13, <1>14, <1>15 DEF RosterNext

\* The five parts of the types.
FolkFit == /\ folk \in [Users -> Person] /\ voice \in [Users -> Voice]
           /\ happened \in 0..MaxEvents /\ unsaid \subseteq Event
SocketFits == /\ socket \in {"off", "opening", "open"} /\ opened \in 0..MaxOpens
              /\ listening \in BOOLEAN /\ news \in Seq(Event)
ShownFits == /\ roster \subseteq Rows /\ invited \subseteq Users
             /\ occupancy \subseteq Users /\ unmuted \subseteq Users
FetchingFits == /\ rosterFetch.stage \in {"idle", "sent", "read", "failed"}
                /\ invitedFetch.stage \in {"idle", "sent", "read", "failed"}
                /\ FetchesFit
LostFit == lost \subseteq Users /\ lostJoins \subseteq Users /\ crossed \subseteq Users

\* The hub's side keeps its types, and what it has not announced is about membership.
LEMMA FolkFitStep ==
    ASSUME RosterTypeOK, UnsaidKinds, RosterNext
    PROVE  FolkFit' /\ UnsaidKinds'
  <1> USE DEF FolkFit, UnsaidKinds, hubSide
  <1>0. FolkFit
    BY DEF RosterTypeOK
  <1>1. ASSUME NEW w \in Users, NEW person \in Person, NEW kind \in MemberKinds,
               folk' = [folk EXCEPT ![w] = person],
               unsaid' = unsaid \/ unsaid' = unsaid \cup {[kind |-> kind, user |-> w]}
        PROVE  folk' \in [Users -> Person] /\ unsaid' \subseteq Event /\ UnsaidKinds'
    <2>1. [kind |-> kind, user |-> w] \in Event
      BY DEF Event, MemberKinds
    <2> QED
      BY <1>0, <1>1, <2>1
  <1>2. ASSUME NEW e \in unsaid, Announce(e) PROVE FolkFit' /\ UnsaidKinds'
    BY <1>0, <1>2 DEF Announce
  <1>3. ASSUME NEW w \in Users, Accepts(w) PROVE FolkFit' /\ UnsaidKinds'
    <2>1. /\ folk' = [folk EXCEPT ![w] = [folk[w] EXCEPT !.is = "member"]]
          /\ unsaid' = unsaid \cup {[kind |-> "joined", user |-> w]}
          /\ voice' = voice /\ happened < MaxEvents /\ happened' = happened + 1
      BY <1>3 DEF Accepts, Commits
    <2>2. [folk[w] EXCEPT !.is = "member"] \in Person
      BY <1>0 DEF Person
    <2>3. "joined" \in MemberKinds
      BY DEF MemberKinds
    <2>4. folk' \in [Users -> Person] /\ unsaid' \subseteq Event /\ UnsaidKinds'
      BY <1>1, <2>1, <2>2, <2>3
    <2> QED
      BY <1>0, <2>1, <2>4, RosterAssumption
  <1>4. ASSUME NEW w \in Users, NEW to \in Voice, VoiceChanges(w, to)
        PROVE  FolkFit' /\ UnsaidKinds'
    BY <1>0, <1>4, RosterAssumption DEF VoiceChanges
  <1>5. ASSUME NEW r \in requests, RequestServed(r) PROVE FolkFit' /\ UnsaidKinds'
    <2>1. r.user \in Users /\ Serves(r) /\ UNCHANGED <<voice, happened>>
      BY <1>5 DEF RequestServed, RosterTypeOK, Requests
    <2>2. /\ [is |-> "stranger", group |-> FALSE] \in Person
          /\ [folk[r.user] EXCEPT !.group = ~@] \in Person
          /\ [folk[r.user] EXCEPT !.is = "invited"] \in Person
          /\ [folk[r.user] EXCEPT !.is = "stranger"] \in Person
          /\ "left" \in MemberKinds /\ "groups" \in MemberKinds
      BY <1>0, <2>1 DEF Person, MemberKinds
    <2>3. UNCHANGED <<folk, unsaid>> \/
            \E person \in Person, kind \in MemberKinds :
               /\ folk' = [folk EXCEPT ![r.user] = person]
               /\ unsaid' = unsaid \/ unsaid' = unsaid \cup {[kind |-> kind, user |-> r.user]}
      <3>1. CASE r.op = "kick" /\ ~UNCHANGED <<folk, unsaid>>
        BY <2>1, <2>2, <3>1 DEF Serves
      <3>2. CASE r.op = "toggle" /\ ~UNCHANGED <<folk, unsaid>>
        BY <2>1, <2>2, <3>2 DEF Serves
      <3>3. CASE r.op \in {"invite", "revoke"} /\ ~UNCHANGED <<folk, unsaid>>
        BY <2>1, <2>2, <3>3 DEF Serves
      <3> QED
        BY <2>1, <3>1, <3>2, <3>3 DEF Serves
    <2>4. folk' \in [Users -> Person] /\ unsaid' \subseteq Event /\ UnsaidKinds'
      BY <1>0, <1>1, <2>1, <2>3
    <2> QED
      BY <1>0, <2>1, <2>4
  <1>6. ASSUME NEW u \in Users, NEW op, Submit(op, u) PROVE FolkFit' /\ UnsaidKinds'
    BY <1>0, <1>6, RosterAssumption DEF Submit
  <1>7. CASE UNCHANGED hubSide
    BY <1>0, <1>7
  <1> QED
    BY <1>2, <1>3, <1>4, <1>5, <1>6, <1>7
    DEF RosterNext, ConnectSocket, Subscribe, SocketOpens, SocketCloses, RosterRead,
        RosterAnswered, InvitedRead, InvitedAnswered, FetchFails, Retry, HandleEvent,
        RequestAnswered

\* So does the socket, whose events are the hub's.
LEMMA SocketFitsStep ==
    ASSUME RosterTypeOK, RosterNext
    PROVE  SocketFits'
  <1> USE DEF SocketFits
  <1>0. SocketFits /\ unsaid \subseteq Event
    BY DEF RosterTypeOK
  <1>1. ASSUME NEW e \in Event, Reaches(e) PROVE news' \in Seq(Event)
    BY <1>0, <1>1 DEF Reaches
  <1>2. CASE \E e \in unsaid : Announce(e)
    BY <1>0, <1>1, <1>2 DEF Announce
  <1>3. CASE \E u \in Users, to \in Voice : VoiceChanges(u, to)
    <2>1. PICK u \in Users, to \in Voice : VoiceChanges(u, to)
      BY <1>3
    <2> DEFINE e == [kind |-> IF to = "muted" /\ voice[u] = "out" THEN "in" ELSE to, user |-> u]
    <2>2. e \in Event
      BY DEF Event, Voice
    <2>3. Reaches(e) /\ UNCHANGED <<socket, opened, listening>>
      BY <2>1 DEF VoiceChanges
    <2> HIDE DEF e
    <2> QED
      BY <1>0, <1>1, <2>2, <2>3
  <1>4. CASE \E e \in Event : HandleEvent(e)
    <2>1. news # <<>> /\ news' = Tail(news) /\ UNCHANGED <<socket, opened, listening>>
      BY <1>4 DEF HandleEvent
    <2> QED
      BY <1>0, <2>1
  <1>5. CASE ConnectSocket \/ Subscribe \/ SocketOpens \/ SocketCloses
    <2>1. news' = news \/ news' = <<>>
      BY <1>5 DEF ConnectSocket, Subscribe, SocketOpens, SocketCloses
    <2>2. news' \in Seq(Event)
      <3>1. <<>> \in Seq(Event)
        OBVIOUS
      <3> QED
        BY <1>0, <2>1, <3>1 DEF SocketFits
    <2>3. opened' = opened \/ (opened < MaxOpens /\ opened' = opened + 1)
      BY <1>5 DEF ConnectSocket, Subscribe, SocketOpens, SocketCloses
    <2>4. opened' \in 0..MaxOpens
      BY <1>0, <2>3, RosterAssumption
    <2> QED
      BY <1>0, <1>5, <2>2, <2>4 DEF ConnectSocket, Subscribe, SocketOpens, SocketCloses
  <1>6. CASE UNCHANGED <<socket, opened, listening, news>>
    BY <1>0, <1>6
  <1> QED
    BY <1>2, <1>3, <1>4, <1>5, <1>6
    DEF RosterNext, Accepts, Commits, RosterRead, RosterAnswered, InvitedRead, InvitedAnswered,
        FetchFails, Retry, Submit, RequestServed, RequestAnswered

\* So do the lists shown and those under way.
LEMMA FetchingFitsStep ==
    ASSUME RosterTypeOK, FetchesFit, RosterNext
    PROVE  ShownFits' /\ FetchingFits'
  <1> USE DEF ShownFits, FetchingFits, FetchesFit, shown
  <1>0. ShownFits /\ FetchingFits /\ folk \in [Users -> Person]
    BY DEF RosterTypeOK
  <1>1. AskRoster => rosterFetch'.stage = "sent" /\ rosterFetch'.of = NoSnapshot
    BY DEF AskRoster, Asked
  <1>2. AskInvited => invitedFetch'.stage = "sent" /\ invitedFetch'.of = NoSnapshot
    BY DEF AskInvited, Asked
  <1>3. NoSnapshot.rows = {} /\ NoSnapshot.in = {} /\ NoSnapshot.open = {}
    BY DEF NoSnapshot
  <1>4. CASE ConnectSocket \/ Subscribe \/ SocketCloses
             \/ (\E e \in unsaid : Announce(e))
             \/ (\E u \in Users : Accepts(u) \/ \E to \in Voice : VoiceChanges(u, to))
             \/ (\E u \in Users, op \in {"kick", "toggle", "invite", "revoke"} : Submit(op, u))
             \/ (\E r \in requests : RequestServed(r))
    <2>1. UNCHANGED shown
      BY <1>4
      DEF ConnectSocket, Subscribe, SocketCloses, Announce, Accepts, VoiceChanges, Submit,
          RequestServed
    <2> QED
      BY <1>0, <2>1
  <1>5. CASE SocketOpens \/ Retry \/ (\E r \in requests : RequestAnswered(r))
    <2>1. /\ UNCHANGED <<roster, invited, occupancy, unmuted>>
          /\ rosterFetch' = rosterFetch \/ AskRoster
          /\ invitedFetch' = invitedFetch \/ AskInvited
      BY <1>5 DEF SocketOpens, Retry, RequestAnswered
    <2> QED
      BY <1>0, <1>1, <1>2, <1>3, <2>1
  <1>6. CASE \E e \in Event : HandleEvent(e)
    <2>1. PICK e \in Event : HandleEvent(e)
      BY <1>6
    <2>2. /\ UNCHANGED <<roster, invited>>
          /\ rosterFetch' = rosterFetch \/ AskRoster
          /\ invitedFetch' = invitedFetch \/ AskInvited
      BY <2>1 DEF HandleEvent, Crosses
    <2>3. occupancy' \subseteq occupancy \cup {e.user} /\ unmuted' \subseteq unmuted \cup {e.user}
      BY <2>1 DEF HandleEvent
    <2>4. e.user \in Users
      BY DEF Event
    <2> QED
      BY <1>0, <1>1, <1>2, <1>3, <2>2, <2>3, <2>4
  <1>7. CASE RosterRead
    <2>1. /\ rosterFetch'.stage = "read" /\ rosterFetch'.of = Snapshot
          /\ UNCHANGED <<roster, invited, invitedFetch, occupancy, unmuted>>
      BY <1>7 DEF RosterRead
    <2>2. /\ Snapshot.rows = RowsNow /\ Snapshot.in \subseteq Members
          /\ Snapshot.open \subseteq Members
      BY DEF Snapshot
    <2>3. Members \subseteq Users /\ RowsNow \subseteq Rows
      BY <1>0 DEF Members, RowsNow, Rows, Person
    <2> QED
      BY <1>0, <2>1, <2>2, <2>3
  <1>8. CASE InvitedRead
    <2>1. /\ invitedFetch'.stage = "read" /\ invitedFetch'.of.in = InvitedNow
          /\ UNCHANGED <<roster, rosterFetch, invited, occupancy, unmuted>>
      BY <1>8 DEF InvitedRead, NoSnapshot
    <2>2. InvitedNow \subseteq Users
      BY DEF InvitedNow
    <2> QED
      BY <1>0, <2>1, <2>2
  <1>9. CASE RosterAnswered \/ InvitedAnswered
    BY <1>0, <1>3, <1>9 DEF RosterAnswered, InvitedAnswered, NoFetch
  <1>10. CASE FetchFails
    BY <1>0, <1>3, <1>10 DEF FetchFails, NoFetch
  <1> QED
    BY <1>4, <1>5, <1>6, <1>7, <1>8, <1>9, <1>10 DEF RosterNext

\* So do the users whose events were lost, and the requests.
LEMMA LostFitStep ==
    ASSUME RosterTypeOK, RosterNext
    PROVE  LostFit' /\ requests' \subseteq Requests
  <1> USE DEF LostFit, ghosts
  <1>0. LostFit /\ requests \subseteq Requests /\ unsaid \subseteq Event /\ news \in Seq(Event)
    BY DEF RosterTypeOK
  <1>1. ASSUME NEW e \in Event, Reaches(e)
        PROVE  lost' \subseteq Users /\ lostJoins' \subseteq Users
    BY <1>0, <1>1 DEF Reaches, Event
  <1>2. CASE \E e \in unsaid : Announce(e)
    BY <1>0, <1>1, <1>2 DEF Announce
  <1>3. CASE \E u \in Users, to \in Voice : VoiceChanges(u, to)
    <2>1. PICK u \in Users, to \in Voice : VoiceChanges(u, to)
      BY <1>3
    <2> DEFINE e == [kind |-> IF to = "muted" /\ voice[u] = "out" THEN "in" ELSE to, user |-> u]
    <2>2. e \in Event
      BY DEF Event, Voice
    <2>3. Reaches(e) /\ UNCHANGED <<crossed, requests>>
      BY <2>1 DEF VoiceChanges
    <2> HIDE DEF e
    <2> QED
      BY <1>0, <1>1, <2>2, <2>3
  <1>4. CASE \E e \in Event : HandleEvent(e)
    BY <1>0, <1>4 DEF HandleEvent, Crosses, AskRoster, AskInvited, Event
  <1>5. CASE SocketCloses
    <2>1. \A i \in DOMAIN news : news[i] \in Event
      BY <1>0
    <2>2. \A e \in Event : e.user \in Users
      BY DEF Event
    <2> QED
      BY <1>0, <1>5, <2>1, <2>2 DEF SocketCloses
  <1>6. CASE SocketOpens \/ FetchFails \/ Retry
    BY <1>0, <1>6 DEF SocketOpens, FetchFails, Retry, AskRoster, AskInvited
  <1>7. ASSUME NEW u \in Users, NEW op \in {"kick", "toggle", "invite", "revoke"}, Submit(op, u)
        PROVE  LostFit' /\ requests' \subseteq Requests
    BY <1>0, <1>7 DEF Submit, Requests
  <1>8. ASSUME NEW r \in requests, RequestServed(r)
        PROVE  LostFit' /\ requests' \subseteq Requests
    <2>1. [r EXCEPT !.stage = "done"] \in Requests
      BY <1>0 DEF Requests
    <2> QED
      BY <1>0, <1>8, <2>1 DEF RequestServed
  <1>9. ASSUME NEW r \in requests, RequestAnswered(r)
        PROVE  LostFit' /\ requests' \subseteq Requests
    BY <1>0, <1>9 DEF RequestAnswered, AskRoster, AskInvited
  <1>10. CASE UNCHANGED <<requests, lost, lostJoins, crossed>>
    BY <1>0, <1>10
  <1> QED
    BY <1>2, <1>3, <1>4, <1>5, <1>6, <1>7, <1>8, <1>9, <1>10
    DEF RosterNext, ConnectSocket, Subscribe, RosterRead, RosterAnswered, InvitedRead,
        InvitedAnswered, Accepts, Commits

\* A tab that has not connected has heard of nobody.
LEMMA RosterInitially == RosterInit => RosterInv
  <1> SUFFICES ASSUME RosterInit PROVE RosterInv
    OBVIOUS
  <1>1. RosterTypeOK
    <2>1. folk \in [Users -> Person] /\ voice \in [Users -> Voice]
      <3>1. [is : {"invited", "member"}, group : {FALSE}] \subseteq Person
        BY DEF Person
      <3> QED
        BY <3>1 DEF RosterInit, Voice
    <2>2. news \in Seq(Event) /\ opened \in 0..MaxOpens /\ happened \in 0..MaxEvents
      BY RosterAssumption DEF RosterInit
    <2> QED
      BY <2>1, <2>2 DEF RosterInit, RosterTypeOK, Asked
  <1>2. FetchesFit
    BY DEF RosterInit, FetchesFit, Asked, NoSnapshot
  <1>3. UnsaidKinds /\ SocketInv /\ NewsSettle
    BY NoNews DEF RosterInit, UnsaidKinds, SocketInv, NewsSettle
  <1>4. RowsFollow /\ MarksFollow /\ InvitedFollow
    BY DEF RosterInit, RowsFollow, MarksFollow, InvitedFollow, Heard, Asked
  <1> QED
    BY <1>1, <1>2, <1>3, <1>4 DEF RosterInv

\* Every step keeps the invariant.
LEMMA RosterStep ==
    ASSUME RosterInv, [RosterNext]_rosterVars
    PROVE  RosterInv'
  <1> USE DEF RosterInv
  <1>1. CASE RosterNext
    <2>1. RosterTypeOK' /\ FetchesFit' /\ UnsaidKinds'
      BY <1>1, FolkFitStep, SocketFitsStep, FetchingFitsStep, LostFitStep
      DEF RosterTypeOK, FolkFit, SocketFits, ShownFits, FetchingFits, LostFit
    <2> QED
      BY <1>1, <2>1, SocketInvStep, NewsSettleStep, RowsFollowStep, MarksFollowStep,
         InvitedFollowStep
  <1>2. CASE UNCHANGED rosterVars
    <2>1. RosterTypeOK' /\ FetchesFit' /\ UnsaidKinds' /\ SocketInv'
      BY <1>2 DEF rosterVars, RosterTypeOK, FetchesFit, UnsaidKinds, SocketInv
    <2>2. NewsSettle'
      BY <1>2 DEF rosterVars, NewsSettle
    <2>3. RowsFollow' /\ MarksFollow' /\ InvitedFollow'
      BY <1>2
      DEF rosterVars, RowsFollow, MarksFollow, InvitedFollow, Heard, Pending, RowsNow, Members,
          MarksAre
    <2> QED
      BY <2>1, <2>2, <2>3
  <1> QED
    BY <1>1, <1>2

\* What the invariant says once everything is heard.
LEMMA RosterFollows == RosterInv => RosterFollowsHub
  <1> SUFFICES ASSUME RosterInv, Quiet PROVE RosterFollowsHub
    BY DEF RosterFollowsHub, RosterConverges, VoiceMarksConverge, InvitedAreNotMembers
  <1>1. /\ socket = "open" /\ news = <<>> /\ unsaid = {}
        /\ rosterFetch.stage = "idle" /\ invitedFetch.stage = "idle"
    BY DEF Quiet, NoFetch
  <1>2. \A u, kinds : ~Pending(u, kinds)
    BY <1>1, NoNews DEF Pending
  <1>3. \A u \in Users \ lost : Heard(u)
    BY <1>1, <1>2 DEF Heard
  <1>4. Members \subseteq Users
    BY DEF Members
  <1>5. \A u \in Users \ lost : RowsOf(roster, u) = RowsOf(RowsNow, u)
    BY <1>1, <1>3 DEF RosterInv, RowsFollow
  <1>6. \A u \in Members \ (lost \cup crossed) : MarksAre(occupancy, unmuted, u)
    BY <1>1, <1>3, <1>4 DEF RosterInv, MarksFollow
  <1>7. \A u \in Members \ lostJoins : u \notin invited
    BY <1>1, <1>2 DEF RosterInv, InvitedFollow
  <1>8. RosterConverges
    BY <1>5 DEF RosterConverges, RowsOf
  <1>9. VoiceMarksConverge
    BY <1>1, <1>4, <1>6, NoNews DEF VoiceMarksConverge, MarksAre, InVoice, OpenMics
  <1>10. InvitedAreNotMembers
    <2>1. ASSUME NEW r \in roster, r.user \in invited, r.user \notin lost
          PROVE  r.user \in Members
      <3>1. r.user \in Users /\ r \in RowsOf(roster, r.user)
        BY <2>1 DEF RosterInv, RosterTypeOK, Rows, RowsOf
      <3>2. r \in RowsNow
        BY <1>5, <2>1, <3>1 DEF RowsOf
      <3> QED
        BY <3>2 DEF RowsNow
    <2> QED
      BY <1>7, <2>1 DEF InvitedAreNotMembers
  <1> QED
    BY <1>8, <1>9, <1>10 DEF RosterFollowsHub

\* THE ROSTER FOLLOWS THE HUB.  When the socket is open, the answer is here and nothing is still
\* to be heard about a user, the rows shown of that user are the hub's, the marks of voice and
\* microphone are where the user is, and nobody who joined is shown as invited, whatever the
\* users, the events and the order in which events and answers arrive, save for what a closed
\* socket and crossing answers lose.
THEOREM RosterCorrect == WebSpec => []RosterFollowsHub
  <1>1. WebInit => RosterInv
    BY RosterInitially DEF WebInit
  <1>2. RosterInv /\ [WebNext]_webVars => RosterInv'
    <2>1. [WebNext]_webVars => [RosterNext]_rosterVars
      BY DEF WebNext, webVars
    <2> QED
      BY <2>1, RosterStep
  <1>3. RosterInv => RosterFollowsHub
    BY RosterFollows
  <1> QED
    BY <1>1, <1>2, <1>3, PTL DEF WebSpec

-----------------------------------------------------------------------------
(* Roles, settings and profile (HubSettings).                              *)

\* A save of the settings under way, and the form of the settings.
Save == [stage : {"avatar", "patch", "mutate", "stuck"}, name : Names,
         cached : Profile, served : BOOLEAN]

Draft == [name : Names, file : BOOLEAN, cropping : BOOLEAN]

\* The types of the settings.
HubFits ==
    /\ deeds \in 0..MaxDeeds
    /\ hubRecord \in Profile /\ hubCache \in Profile \cup {NoHub}
    /\ hubFetch \in [stage : {"idle", "sent", "read"}, of : Profile \cup {NoHub}]
    /\ draft \in Draft
    /\ saving = NoSave \/ saving \in Save
    /\ hubDrift \in BOOLEAN

\* Pictures are numbered as they are uploaded; a save has a cached hub to compare with.
HubAges ==
    /\ hubCache.pic <= hubRecord.pic
    /\ hubFetch.stage = "read" => hubFetch.of # NoHub /\ hubFetch.of.pic <= hubRecord.pic
    /\ saving # NoSave => hubCache # NoHub
    /\ saving.stage = "patch" => Patches(saving)

\* While nobody else changed the hub and no save failed: what is cached, or read, is the hub's
\* record, and a save that has not got to the name knows the name that is there.
HubFollows ==
    ~hubDrift =>
      /\ saving.stage \in {"idle", "stuck", "mutate"} =>
           /\ hubFetch.stage = "idle" => hubCache \in {NoHub, hubRecord}
           /\ hubFetch.stage = "read" => hubFetch.of = hubRecord
      /\ saving.stage \in {"avatar", "patch"} =>
           /\ hubFetch.stage = "read" /\ hubCache = hubRecord => hubFetch.of = hubRecord
           /\ saving.stage = "avatar" \/ ~saving.served =>
                /\ hubFetch.stage = "read" => hubFetch.of.name = hubRecord.name
                /\ hubCache.name \in {saving.cached.name, hubRecord.name}

\* The session in the browser, and a save of the profile under way.
Session == [token : 1..(MaxDeeds + 1), name : Names, pic : 0..MaxDeeds]

MySave == [stage : {"avatar", "name", "login"}, of : Session,
           name : Names, saved : Names, served : BOOLEAN]

\* The types of the profile.
MineFits ==
    /\ me \in Profile /\ token \in 1..(deeds + 1)
    /\ mine \in Session
    /\ shownMe \in Profile
    /\ myDraft \in [name : Names, file : BOOLEAN]
    /\ mySave = NoSave \/ mySave \in MySave
    /\ myDrift \in BOOLEAN

\* While no login was missed: the session, the page and the record agree, and a save under way
\* says in what they do not.
MineFollows ==
    ~myDrift =>
      /\ mine.token = token
      /\ mySave = NoSave => mine.name = me.name /\ mine.pic = me.pic /\ shownMe = me
      /\ mySave # NoSave =>
           /\ mySave.of.token = token
           /\ mySave.of.name = mine.name /\ shownMe.name = mine.name
           /\ mySave.stage = "avatar" =>
                /\ mySave.of = mine /\ shownMe.pic = mine.pic /\ me.name = mine.name
                /\ mySave.saved = me.name
                /\ ~mySave.served => me.pic = mine.pic
           /\ mySave.stage \in {"name", "login"} => mySave.of.pic = me.pic /\ shownMe.pic = me.pic
           /\ mySave.stage = "name" => me.name = IF mySave.served THEN mySave.name ELSE mine.name
           /\ mySave.stage = "login" => me.name = mySave.name

\* A request about a group under way.
RoleRequest == [op : {"create", "update", "delete"}, id : 0..MaxRoles,
                name : Names \cup {"keep"}, bits : SUBSET Bits, sets : BOOLEAN,
                stage : {"sent", "served"}, row : Role]

\* The types of the roles.
RolesFit ==
    /\ hubRoles \subseteq Role /\ rolesMade \in 1..MaxRoles
    /\ groups \subseteq Role
    /\ typing \in BOOLEAN /\ (typing => selectedId # 0)
    /\ rolesLoad \in [stage : {"idle", "sent", "read"}, list : SUBSET Role]
    /\ rolesLoad.stage = "idle" => rolesLoad = NoLoad
    /\ roleCalls \subseteq RoleRequest
    /\ roleDrift \in BOOLEAN

\* No two groups share an identity.
OneEach(G) == \A g, h \in G : g.id = h.id => g = h

\* The hub numbers its groups.
HubOrdered == OneEach(hubRoles) /\ \A g \in hubRoles : g.id <= rolesMade

\* Only an update sends a name, and its row comes back under the identity it was sent with.
CallsFit ==
    \A r \in roleCalls :
       /\ r.op # "update" => r.name = "keep"
       /\ r.stage = "served" /\ r.op # "create" => r.row.id = r.id

\* The list after a row that came back (onSuccess of the three mutations).
Patched(G, r) ==
    IF r.op = "create" THEN G \cup {r.row}
    ELSE IF r.op = "delete" THEN {g \in G : g.id # r.id}
    ELSE {IF g.id = r.id THEN r.row ELSE g : g \in G}

\* The groups whose name is being typed or on its way: their name shown runs ahead of the hub.
Unsent == (IF typing THEN {selectedId} ELSE {})
            \cup {r.id : r \in {q \in roleCalls : q.stage = "sent" /\ q.name # "keep"}}

\* G lists the groups of H, up to the names of some.
Like(G, H, but) ==
    /\ OneEach(G)
    /\ \A g \in G : \E h \in H :
         h.id = g.id /\ h.bits = g.bits /\ (g.id \in but \/ h.name = g.name)
    /\ \A h \in H : \E g \in G : g.id = h.id

\* While nobody else changed a group and no request failed: there is one request at most, an
\* answer that was read is the hub's list, and the list shown, patched by the row that comes back,
\* is the hub's up to a name still being typed or sent.
RolesFollow ==
    ~roleDrift =>
      /\ \A r, q \in roleCalls : r = q
      /\ roleCalls # {} => rolesLoad = NoLoad
      /\ rolesLoad.stage = "read" => rolesLoad.list = hubRoles
      /\ rolesLoad.stage = "idle" =>
           /\ (\A r \in roleCalls : r.stage = "sent") => Like(groups, hubRoles, Unsent)
           /\ \A r \in roleCalls : r.stage = "served" =>
                /\ Like(Patched(groups, r), hubRoles, Unsent)
                /\ r.op = "create" => \A g \in groups : g.id # r.row.id

\* The steps of the settings.
HubSteps ==
    \/ OpenSettings \/ CloseSettings \/ EditSettings \/ SaveSettings
    \/ SettingsServed \/ SettingsAnswered \/ SettingsRefused \/ SettingsBreak
    \/ HubRead \/ HubAnswered \/ HubFetchFails \/ Refetch \/ OthersChangeHub

\* The steps of the profile.
MySteps ==
    \/ OpenProfile \/ CloseProfile \/ EditProfile \/ MyTokenRenewed \/ SaveProfile
    \/ ProfileServed \/ ProfileAnswered \/ ProfileFails \/ ProfileLogin

\* Which part of the dialogs a step is about.
LEMMA SettingsParts ==
    ASSUME SettingsNext
    PROVE  \/ RolesNext /\ UNCHANGED <<hubVars, myVars>>
           \/ HubSteps /\ UNCHANGED <<roleVars, myVars>>
           \/ MySteps /\ UNCHANGED <<roleVars, hubVars>>
  <1>1. RolesNext => UNCHANGED <<hubVars, myVars>>
    BY DEF RolesNext, OpenRoles, ReloadRoles, RolesRead, RolesAnswered, CloseRoles, CreateRole,
           SelectRole, TypeName, BlurName, PickColor, DeleteRole, ToggleBit, RoleServed,
           RoleRefused, RoleAnswered, OthersChangeRoles, SendsRole, RoleFrame
  <1>2. HubSteps => UNCHANGED <<roleVars, myVars>>
    BY DEF HubSteps, OpenSettings, CloseSettings, EditSettings, SaveSettings, SettingsServed,
           SettingsAnswered, SettingsRefused, SettingsBreak, HubRead, HubAnswered, HubFetchFails,
           Refetch, OthersChangeHub, HubFrame
  <1>3. MySteps => UNCHANGED <<roleVars, hubVars>>
    BY DEF MySteps, OpenProfile, CloseProfile, EditProfile, MyTokenRenewed, SaveProfile,
           ProfileServed, ProfileAnswered, ProfileFails, ProfileLogin, MyFrame
  <1>4. RolesNext \/ HubSteps \/ MySteps
    BY DEF SettingsNext, HubSteps, MySteps
  <1> QED
    BY <1>1, <1>2, <1>3, <1>4

\* Deeds are counted up to their bound.
LEMMA DeedsStep ==
    ASSUME deeds \in 0..MaxDeeds, SettingsNext
    PROVE  deeds' \in 0..MaxDeeds /\ deeds <= deeds'
  <1>1. deeds' = deeds \/ Deed
    BY DEF SettingsNext, RolesNext, OpenRoles, ReloadRoles, RolesRead, RolesAnswered, CloseRoles,
           CreateRole, SelectRole, TypeName, BlurName, PickColor, DeleteRole, ToggleBit,
           RoleServed, RoleRefused, RoleAnswered, OthersChangeRoles, SendsRole, OpenSettings,
           CloseSettings, EditSettings, SaveSettings, SettingsServed, SettingsAnswered,
           SettingsRefused, SettingsBreak, HubRead, HubAnswered, HubFetchFails, Refetch,
           OthersChangeHub, OpenProfile, CloseProfile, EditProfile, MyTokenRenewed, SaveProfile,
           ProfileServed, ProfileAnswered, ProfileFails, ProfileLogin
  <1> QED
    BY <1>1, SettingsAssumption DEF Deed

\* The invariant of the settings.
HubInv == HubFits /\ HubAges /\ HubFollows

\* The settings keep their types.
LEMMA HubFitsStep ==
    ASSUME HubInv, SettingsNext
    PROVE  HubFits'
  <1> USE DEF HubInv, HubFits, HubAges
  <1>2. deeds' \in 0..MaxDeeds
    BY DeedsStep
  <1>3. CASE UNCHANGED hubVars
    BY <1>2, <1>3 DEF hubVars
  <1>11. \A hub \in Profile : Blank(hub) \in Draft
    BY DEF Blank, Profile, Draft
  <1>4. CASE OpenSettings \/ CloseSettings \/ EditSettings
    <2>1. draft' = draft \/ (hubCache # NoHub /\ draft' = Blank(hubCache))
            \/ (\E name \in Names : draft' = [draft EXCEPT !.name = name])
            \/ (\E done \in BOOLEAN :
                  draft' = [draft EXCEPT !.cropping = FALSE, !.file = @ \/ done])
            \/ draft' = [draft EXCEPT !.cropping = TRUE]
      BY <1>4 DEF OpenSettings, CloseSettings, EditSettings, hubVars
    <2>2. draft' \in Draft
      <3>1. CASE draft' = draft \/ (hubCache # NoHub /\ draft' = Blank(hubCache))
        BY <1>11, <3>1
      <3>2. CASE \E name \in Names : draft' = [draft EXCEPT !.name = name]
        BY <3>2 DEF Draft
      <3>3. CASE draft' = [draft EXCEPT !.cropping = TRUE]
        BY <3>3 DEF Draft
      <3>4. CASE \E done \in BOOLEAN :
                   draft' = [draft EXCEPT !.cropping = FALSE, !.file = @ \/ done]
        BY <3>4 DEF Draft
      <3> QED
        BY <2>1, <3>1, <3>2, <3>3, <3>4
    <2>3. UNCHANGED <<hubRecord, hubCache, hubFetch, saving, hubDrift>>
      BY <1>4 DEF OpenSettings, CloseSettings, EditSettings, hubVars
    <2> QED
      BY <1>2, <2>2, <2>3
  <1>5. FetchHub => hubFetch' \in [stage : {"idle", "sent", "read"}, of : Profile \cup {NoHub}]
    BY DEF FetchHub
  <1>6. ASSUME NEW s \in Save PROVE After(s) \in Save
    BY DEF After, Save
  <1>7. CASE SaveSettings
    <2> DEFINE s == [stage |-> "avatar", name |-> draft.name, cached |-> hubCache,
                     served |-> FALSE]
    <2>1. s \in Save
      BY <1>7 DEF SaveSettings, Save, Draft
    <2>2. saving' = s \/ saving' = After(s)
      BY <1>7 DEF SaveSettings
    <2>3. FetchHub \/ UNCHANGED hubFetch
      BY <1>7 DEF SaveSettings
    <2>4. UNCHANGED <<hubRecord, hubCache, draft, hubDrift>>
      BY <1>7 DEF SaveSettings
    <2> HIDE DEF s
    <2> QED
      BY <1>2, <1>5, <1>6, <2>1, <2>2, <2>3, <2>4
  <1>8. CASE SettingsServed \/ SettingsAnswered \/ SettingsRefused \/ SettingsBreak
    <2>1. saving \in Save
      BY <1>8 DEF NoSave, SettingsServed, SettingsAnswered, SettingsRefused, SettingsBreak
    <2>2. /\ [saving EXCEPT !.served = TRUE] \in Save
          /\ [saving EXCEPT !.stage = "stuck"] \in Save
          /\ [After(saving) EXCEPT !.served = FALSE] \in Save
      BY <1>6, <2>1 DEF Save
    <2>3. saving' = NoSave \/ saving' \in Save
      BY <1>8, <2>2 DEF SettingsServed, SettingsAnswered, SettingsRefused, SettingsBreak
    <2>4. hubRecord' = hubRecord \/ hubRecord' = [hubRecord EXCEPT !.name = saving.name]
            \/ hubRecord' = [hubRecord EXCEPT !.pic = IF @ < MaxDeeds THEN @ + 1 ELSE @]
      BY <1>8 DEF SettingsServed, SettingsAnswered, SettingsRefused, SettingsBreak
    <2>5. hubRecord' \in Profile
      BY <2>1, <2>4, SettingsAssumption DEF Profile, Save
    <2>6. FetchHub \/ UNCHANGED hubFetch
      BY <1>8 DEF SettingsServed, SettingsAnswered, SettingsRefused, SettingsBreak
    <2>7. /\ UNCHANGED <<hubCache, draft>>
          /\ (hubDrift' = hubDrift \/ hubDrift' = (hubDrift \/ hubRecord # hubCache))
      BY <1>8 DEF SettingsServed, SettingsAnswered, SettingsRefused, SettingsBreak
    <2>8. hubDrift' \in BOOLEAN
      BY <2>7
    <2> QED
      BY <1>2, <1>5, <2>3, <2>5, <2>6, <2>7, <2>8
  <1>9. CASE HubRead \/ HubAnswered \/ HubFetchFails \/ Refetch
    <2>1. /\ saving' = saving \/ saving' = NoSave
          /\ hubRecord' = hubRecord
      BY <1>9 DEF HubRead, HubAnswered, HubFetchFails, Refetch, SaveEnds
    <2>2. hubFetch' \in [stage : {"idle", "sent", "read"}, of : Profile \cup {NoHub}]
      BY <1>9 DEF HubRead, HubAnswered, HubFetchFails, Refetch, FetchHub
    <2>3. /\ hubCache' = hubCache \/ (HubAnswered /\ hubCache' = hubFetch.of)
          /\ draft' = draft \/ (HubAnswered /\ draft' = Blank(hubFetch.of))
      BY <1>9 DEF HubRead, HubAnswered, HubFetchFails, Refetch
    <2>4. hubCache' \in Profile \cup {NoHub}
      BY <2>3
    <2>5. draft' \in Draft
      BY <1>11, <2>3 DEF HubAnswered
    <2>6. hubDrift' \in BOOLEAN
      BY <1>9 DEF HubRead, HubAnswered, HubFetchFails, Refetch
    <2> QED
      BY <1>2, <2>1, <2>2, <2>4, <2>5, <2>6
  <1>10. CASE OthersChangeHub
    <2>1. hubRecord' \in Profile
      BY <1>10 DEF OthersChangeHub, Profile
    <2> QED
      BY <1>2, <1>10, <2>1 DEF OthersChangeHub
  <1> QED
    BY <1>3, <1>4, <1>7, <1>8, <1>9, <1>10, SettingsParts DEF HubSteps

\* No copy has a picture that was not uploaded yet.
LEMMA HubAgesStep ==
    ASSUME HubInv, SettingsNext
    PROVE  HubAges'
  <1> USE DEF HubInv, HubFits, HubAges, Patches
  <1>0. /\ hubRecord.pic \in Nat /\ hubCache.pic \in Nat
        /\ hubFetch.stage = "read" => hubFetch.of \in Profile
        /\ NoSave.stage = "idle"
        /\ saving \in Save => saving.cached \in Profile /\ saving.stage # "idle"
    BY DEF Profile, NoHub, NoSave, Save
  <1>1. CASE UNCHANGED hubVars
    BY <1>1 DEF hubVars
  <1>2. FetchHub => hubFetch'.stage = "sent"
    BY DEF FetchHub
  <1>3. ASSUME NEW s \in Save, s.stage = "avatar" \/ s.stage = "patch"
        PROVE  /\ After(s).stage = "patch" => After(s).name # After(s).cached.name
               /\ After(s) \in Save
    BY <1>3 DEF After, Save
  <1>4. CASE OpenSettings \/ CloseSettings \/ EditSettings \/ OthersChangeHub \/ Refetch
    <2>1. UNCHANGED <<hubCache, saving>> /\ (hubFetch' = hubFetch \/ FetchHub)
      BY <1>4 DEF OpenSettings, CloseSettings, EditSettings, OthersChangeHub, Refetch, hubVars
    <2>2. hubRecord'.pic = hubRecord.pic
      BY <1>4
      DEF OpenSettings, CloseSettings, EditSettings, OthersChangeHub, Refetch, hubVars, Profile
    <2> QED
      BY <1>2, <2>1, <2>2
  <1>5. CASE SaveSettings
    <2> DEFINE s == [stage |-> "avatar", name |-> draft.name, cached |-> hubCache,
                     served |-> FALSE]
    <2>1. s \in Save /\ s.stage = "avatar"
      BY <1>5 DEF SaveSettings, Save, Draft
    <2>2. saving' = s \/ saving' = After(s)
      BY <1>5 DEF SaveSettings
    <2>3. /\ (FetchHub \/ UNCHANGED hubFetch) /\ UNCHANGED <<hubRecord, hubCache>>
          /\ hubCache # NoHub
      BY <1>5 DEF SaveSettings
    <2> HIDE DEF s
    <2> QED
      BY <1>2, <1>3, <2>1, <2>2, <2>3
  <1>6. CASE SettingsServed \/ SettingsAnswered \/ SettingsRefused \/ SettingsBreak
    <2>1. saving \in Save /\ saving.stage \in {"avatar", "patch"} /\ saving # NoSave
      BY <1>6 DEF NoSave, SettingsServed, SettingsAnswered, SettingsRefused, SettingsBreak
    <2>2. /\ UNCHANGED hubCache /\ (FetchHub \/ UNCHANGED hubFetch)
          /\ hubRecord' = hubRecord \/ hubRecord' = [hubRecord EXCEPT !.name = saving.name]
             \/ hubRecord' = [hubRecord EXCEPT !.pic = IF @ < MaxDeeds THEN @ + 1 ELSE @]
      BY <1>6 DEF SettingsServed, SettingsAnswered, SettingsRefused, SettingsBreak
    <2>3. hubRecord'.pic \in Nat /\ hubRecord.pic <= hubRecord'.pic
      BY <1>0, <2>2 DEF Profile
    <2>4. saving'.stage = "patch" => saving'.name # saving'.cached.name
      <3>1. After(saving) \in Save
        BY <1>3, <2>1
      <3>2. [After(saving) EXCEPT !.served = FALSE].stage = After(saving).stage
            /\ [After(saving) EXCEPT !.served = FALSE].name = After(saving).name
            /\ [After(saving) EXCEPT !.served = FALSE].cached = After(saving).cached
        BY <3>1 DEF Save
      <3>3. [saving EXCEPT !.served = TRUE].stage = saving.stage
            /\ [saving EXCEPT !.served = TRUE].name = saving.name
            /\ [saving EXCEPT !.served = TRUE].cached = saving.cached
            /\ [saving EXCEPT !.stage = "stuck"].stage = "stuck"
        BY <2>1 DEF Save
      <3>4. NoSave.stage # "patch"
        BY DEF NoSave
      <3>5. CASE SettingsAnswered
        BY <1>3, <2>1, <3>2, <3>5 DEF SettingsAnswered
      <3>6. CASE SettingsServed
        BY <2>1, <3>3, <3>6 DEF SettingsServed
      <3>7. CASE SettingsRefused \/ SettingsBreak
        BY <3>3, <3>4, <3>7 DEF SettingsRefused, SettingsBreak
      <3> QED
        BY <1>6, <3>5, <3>6, <3>7
    <2>5. hubFetch'.stage = "read" => hubFetch.stage = "read" /\ hubFetch' = hubFetch
      BY <1>2, <2>2
    <2>6. hubFetch.stage = "read" => hubFetch.of.pic \in Nat
      BY <1>0 DEF Profile
    <2> QED
      BY <1>0, <2>1, <2>2, <2>3, <2>4, <2>5, <2>6
  <1>7. CASE HubRead
    BY <1>0, <1>7 DEF HubRead, Profile, NoHub, Names
  <1>8. CASE HubAnswered \/ HubFetchFails
    <2>1. /\ saving' = saving \/ saving' = NoSave
          /\ hubRecord' = hubRecord /\ hubFetch'.stage = "idle"
          /\ hubCache' = hubCache \/ (hubFetch.stage = "read" /\ hubCache' = hubFetch.of)
      BY <1>8 DEF HubAnswered, HubFetchFails, SaveEnds
    <2> QED
      BY <1>0, <2>1
  <1> QED
    BY <1>1, <1>4, <1>5, <1>6, <1>7, <1>8, SettingsParts DEF HubSteps

\* A save goes on in order (the picture, then the name, then the refetch), and the fetch that
\* ends it read the record it left.
LEMMA HubFollowsStep ==
    ASSUME HubInv, SettingsNext
    PROVE  HubFollows'
  <1> USE DEF HubInv, HubFits, HubAges, Patches
  <1>0. /\ hubRecord.pic \in Nat /\ hubCache.pic \in Nat /\ hubRecord \in Profile
        /\ hubFetch.stage = "read" => hubFetch.of \in Profile
        /\ NoSave.stage = "idle"
        /\ saving \in Save => saving.cached \in Profile /\ saving.stage # "idle"
    BY DEF Profile, NoHub, NoSave, Save
  <1>1. CASE UNCHANGED hubVars
    BY <1>1 DEF hubVars, HubFollows
  <1>2. FetchHub => hubFetch'.stage = "sent"
    BY DEF FetchHub
  <1>3. ASSUME NEW s \in Save
        PROVE  /\ After(s).stage \in {"patch", "mutate"} /\ After(s).cached = s.cached
               /\ After(s).served = s.served /\ After(s) \in Save
    BY DEF After, Save
  <1>4. CASE OpenSettings \/ CloseSettings \/ EditSettings
    BY <1>4 DEF OpenSettings, CloseSettings, EditSettings, hubVars, HubFollows
  <1>5. CASE OthersChangeHub
    BY <1>5 DEF OthersChangeHub, HubFollows
  <1>6. CASE Refetch
    BY <1>2, <1>6 DEF Refetch, HubFollows
  <1>7. CASE SaveSettings
    <2> DEFINE s == [stage |-> "avatar", name |-> draft.name, cached |-> hubCache,
                     served |-> FALSE]
    <2>1. s \in Save /\ s.stage = "avatar" /\ s.cached = hubCache
      BY <1>7 DEF SaveSettings, Save, Draft
    <2>2. saving' = s \/ saving' = After(s)
      BY <1>7 DEF SaveSettings
    <2>3. /\ IF saving'.stage = "mutate" THEN FetchHub ELSE UNCHANGED hubFetch
          /\ UNCHANGED <<hubRecord, hubCache, hubDrift>> /\ saving = NoSave
      BY <1>7 DEF SaveSettings
    <2> HIDE DEF s
    <2>4. saving'.stage \in {"avatar", "patch", "mutate"} /\ saving'.cached = hubCache
      BY <1>3, <2>1, <2>2
    <2> QED
      BY <1>0, <1>2, <2>3, <2>4 DEF HubFollows
  <1>8. CASE SettingsServed
    <2>1. saving \in Save /\ saving.stage \in {"avatar", "patch"} /\ ~saving.served
      BY <1>8 DEF NoSave, SettingsServed
    <2>2. saving'.served /\ saving'.stage = saving.stage /\ saving'.cached = saving.cached
      BY <1>8, <2>1 DEF SettingsServed, Save
    <2>3. UNCHANGED <<hubCache, hubFetch, hubDrift>>
      BY <1>8 DEF SettingsServed
    <2>4. CASE saving.stage = "avatar"
      <3>1. hubRecord' = [hubRecord EXCEPT !.pic = IF @ < MaxDeeds THEN @ + 1 ELSE @]
        BY <1>8, <2>4 DEF SettingsServed
      <3>2. hubRecord'.name = hubRecord.name
            /\ (hubRecord' = hubRecord \/ hubRecord'.pic = hubRecord.pic + 1)
        <4>1. CASE hubRecord.pic < MaxDeeds
          BY <1>0, <3>1, <4>1 DEF Profile
        <4>2. CASE ~(hubRecord.pic < MaxDeeds)
          BY <1>0, <3>1, <4>2 DEF Profile
        <4> QED
          BY <4>1, <4>2
      <3>3. hubCache = hubRecord' => hubRecord' = hubRecord
        BY <1>0, <3>2
      <3> QED
        BY <2>1, <2>2, <2>3, <2>4, <3>2, <3>3 DEF HubFollows
    <2>5. CASE saving.stage = "patch"
      <3>1. hubRecord' = [hubRecord EXCEPT !.name = saving.name]
        BY <1>8, <2>5 DEF SettingsServed
      <3>2. ~hubDrift /\ hubCache = hubRecord' => hubRecord' = hubRecord
        <4>1. /\ hubRecord'.name = saving.name
              /\ (saving.name = hubRecord.name => hubRecord' = hubRecord)
          BY <1>0, <3>1 DEF Profile
        <4> QED
          BY <2>1, <2>5, <4>1 DEF HubFollows
      <3> QED
        BY <2>1, <2>2, <2>3, <2>5, <3>2 DEF HubFollows
    <2> QED
      BY <2>1, <2>4, <2>5
  <1>9. CASE SettingsAnswered
    <2>1. saving \in Save /\ saving.stage \in {"avatar", "patch"} /\ saving.served
      BY <1>9 DEF NoSave, SettingsAnswered
    <2>2. /\ saving'.stage = After(saving).stage /\ saving'.cached = saving.cached
          /\ saving'.stage = "patch" => saving.stage = "avatar"
          /\ saving'.stage \in {"patch", "mutate"}
      <3>1. saving' = [After(saving) EXCEPT !.served = FALSE]
        BY <1>9 DEF SettingsAnswered
      <3>2. After(saving) \in Save
        BY <1>3, <2>1
      <3>3. saving'.stage = After(saving).stage /\ saving'.cached = After(saving).cached
        BY <3>1, <3>2 DEF Save
      <3>4. After(saving).stage = "patch" => saving.stage = "avatar"
        BY <2>1 DEF After, Save
      <3> QED
        BY <1>3, <2>1, <3>3, <3>4
    <2>3. /\ IF saving'.stage = "mutate" THEN FetchHub ELSE UNCHANGED hubFetch
          /\ UNCHANGED <<hubRecord, hubCache, hubDrift>>
      BY <1>9 DEF SettingsAnswered
    <2> QED
      BY <1>2, <2>1, <2>2, <2>3 DEF HubFollows
  <1>10. CASE SettingsRefused \/ SettingsBreak
    <2>1. saving.stage \in {"avatar", "patch"} /\ saving \in Save
      BY <1>10 DEF SettingsRefused, SettingsBreak, NoSave
    <2>2. /\ UNCHANGED <<hubRecord, hubCache, hubFetch>>
          /\ hubDrift' = (hubDrift \/ hubRecord # hubCache)
          /\ saving' = NoSave \/ saving' = [saving EXCEPT !.stage = "stuck"]
      BY <1>10 DEF SettingsRefused, SettingsBreak
    <2>3. saving'.stage \in {"idle", "stuck"}
      BY <1>0, <2>1, <2>2 DEF Save
    <2>4. ~hubDrift' => ~hubDrift /\ hubRecord = hubCache
      BY <2>2
    <2> QED
      BY <2>1, <2>2, <2>3, <2>4 DEF HubFollows
  <1>11. CASE HubRead
    BY <1>11 DEF HubRead, HubFollows
  <1>12. CASE HubAnswered
    <2>1. /\ saving'.stage \in {"avatar", "patch"} => saving' = saving
          /\ hubRecord' = hubRecord /\ hubFetch'.stage = "idle" /\ hubFetch.stage = "read"
          /\ hubCache' = hubFetch.of
      BY <1>0, <1>12 DEF HubAnswered, SaveEnds
    <2>2. saving'.stage \in {"idle", "stuck", "mutate"} =>
            saving.stage \in {"idle", "stuck", "mutate"}
      BY <1>0, <1>12 DEF HubAnswered, SaveEnds
    <2>3. ~hubDrift' => ~hubDrift \/ hubCache' = hubRecord
      BY <1>12 DEF HubAnswered
    <2> QED
      BY <2>1, <2>2, <2>3 DEF HubFollows
  <1>13. CASE HubFetchFails
    <2>1. /\ saving'.stage \in {"avatar", "patch"} => saving' = saving
          /\ UNCHANGED <<hubRecord, hubCache>> /\ hubFetch'.stage = "idle"
      BY <1>0, <1>13 DEF HubFetchFails, SaveEnds
    <2>2. ~hubDrift' => ~hubDrift /\ hubCache = hubRecord
      BY <1>13 DEF HubFetchFails
    <2> QED
      BY <2>1, <2>2 DEF HubFollows
  <1> QED
    BY <1>1, <1>4, <1>5, <1>6, <1>7, <1>8, <1>9, <1>10, <1>11, <1>12, <1>13, SettingsParts
    DEF HubSteps

\* The invariant of the profile.
MineInv == MineFits /\ MineFollows

\* A save of the profile goes on in order (the picture, the name, the new login), and each
\* stage leaves the session and the page with what the record holds.
LEMMA MineStep ==
    ASSUME MineInv, deeds \in 0..MaxDeeds, SettingsNext
    PROVE  MineInv'
  <1> USE DEF MineInv, MineFits
  <1>0. /\ NoSave.stage = "idle" /\ MaxDeeds \in Nat
        /\ mySave \in MySave => mySave.stage # "idle"
        /\ token \in 1..(deeds' + 1)
    BY SettingsAssumption, DeedsStep DEF NoSave, MySave
  <1>1. CASE UNCHANGED myVars
    BY <1>0, <1>1 DEF myVars, MineFollows
  <1>2. CASE OpenProfile \/ CloseProfile \/ EditProfile
    <2>1. UNCHANGED <<me, token, mine, shownMe, mySave, myDrift>>
      BY <1>2 DEF OpenProfile, CloseProfile, EditProfile, myVars
    <2>2. myDraft' \in [name : Names, file : BOOLEAN]
      <3>1. CASE EditProfile
        BY <3>1 DEF EditProfile
      <3>2. CASE OpenProfile \/ CloseProfile
        <4>1. [name |-> shownMe.name, file |-> FALSE] \in [name : Names, file : BOOLEAN]
          BY DEF Profile
        <4>2. myDraft' = myDraft \/ myDraft' = [name |-> shownMe.name, file |-> FALSE]
          BY <3>2 DEF OpenProfile, CloseProfile, myVars
        <4> QED
          BY <4>1, <4>2
      <3> QED
        BY <1>2, <3>1, <3>2
    <2> QED
      BY <1>0, <2>1, <2>2 DEF MineFollows
  <1>3. CASE MyTokenRenewed
    <2>1. /\ token' = token + 1 /\ mine' = [mine EXCEPT !.token = token']
          /\ myDrift' = (myDrift \/ mySave # NoSave)
          /\ deeds < MaxDeeds /\ deeds' = deeds + 1
          /\ UNCHANGED <<me, shownMe, myDraft, mySave>>
      BY <1>3 DEF MyTokenRenewed, Deed
    <2>2. token' \in 1..(deeds' + 1) /\ token' \in 1..(MaxDeeds + 1)
      BY <1>0, <2>1
    <2>3. /\ mine' \in Session /\ mine'.token = token' /\ mine'.name = mine.name
          /\ mine'.pic = mine.pic
      BY <2>1, <2>2 DEF Session
    <2> QED
      BY <2>1, <2>2, <2>3 DEF MineFollows
  <1>4. CASE SaveProfile
    <2> DEFINE s == [stage |-> "avatar", of |-> mine, name |-> myDraft.name,
                     saved |-> shownMe.name, served |-> FALSE]
    <2>1. /\ s \in MySave /\ s.stage = "avatar" /\ s.of = mine
          /\ s.saved = shownMe.name /\ ~s.served
      BY DEF MySave, Profile
    <2>2. /\ mySave' = s \/ mySave' = [s EXCEPT !.stage = Next1(s)]
          /\ mySave = NoSave /\ UNCHANGED <<me, token, mine, shownMe, myDraft, myDrift>>
      BY <1>4 DEF SaveProfile
    <2> HIDE DEF s
    <2>3. CASE mySave' = s
      BY <1>0, <2>1, <2>2, <2>3 DEF MineFollows
    <2>4. CASE mySave' = [s EXCEPT !.stage = Next1(s)]
      <3>1. /\ mySave' \in MySave /\ mySave'.of = mine /\ ~mySave'.served
            /\ mySave'.name = s.name
            /\ mySave'.stage = "name" \/ (mySave'.stage = "login" /\ s.name = s.saved)
        BY <2>1, <2>4 DEF MySave, Next1
      <3> QED
        BY <1>0, <2>1, <2>2, <3>1 DEF MineFollows
    <2> QED
      BY <2>2, <2>3, <2>4
  <1>5. CASE ProfileServed
    <2>1. /\ mySave.stage \in {"avatar", "name"} /\ ~mySave.served /\ mySave \in MySave
          /\ mySave' = [mySave EXCEPT !.served = TRUE]
          /\ UNCHANGED <<token, mine, shownMe, myDraft, myDrift>>
      BY <1>0, <1>5 DEF ProfileServed
    <2>2. /\ mySave' \in MySave /\ mySave'.served /\ mySave'.stage = mySave.stage
          /\ mySave'.of = mySave.of /\ mySave'.name = mySave.name /\ mySave'.saved = mySave.saved
      BY <2>1 DEF MySave
    <2>3. CASE mySave.stage = "avatar"
      <3>1. me' = [me EXCEPT !.pic = IF @ < MaxDeeds THEN @ + 1 ELSE @]
        BY <1>5, <2>3 DEF ProfileServed
      <3>2. me' \in Profile /\ me'.name = me.name
        BY <1>0, <3>1 DEF Profile
      <3> QED
        BY <1>0, <2>1, <2>2, <2>3, <3>2 DEF MineFollows
    <2>4. CASE mySave.stage = "name"
      <3>1. me' = [me EXCEPT !.name = mySave.name]
        BY <1>5, <2>4 DEF ProfileServed
      <3>2. me' \in Profile /\ me'.name = mySave.name /\ me'.pic = me.pic
        BY <2>1, <3>1 DEF Profile, MySave
      <3> QED
        BY <1>0, <2>1, <2>2, <2>4, <3>2 DEF MineFollows
    <2> QED
      BY <2>1, <2>3, <2>4
  <1>6. CASE ProfileAnswered
    <2>1. /\ mySave.stage \in {"avatar", "name"} /\ mySave.served /\ mySave \in MySave
          /\ UNCHANGED <<me, token, mine, myDrift>>
      BY <1>0, <1>6 DEF ProfileAnswered
    <2>2. CASE mySave.stage = "avatar"
      <3>1. /\ shownMe' = [shownMe EXCEPT !.pic = me.pic]
            /\ myDraft' = [myDraft EXCEPT !.file = FALSE]
            /\ mySave' = [mySave EXCEPT !.stage = Next1(mySave), !.of.pic = me.pic,
                                        !.served = FALSE]
        BY <1>6, <2>2 DEF ProfileAnswered
      <3>2. shownMe' \in Profile /\ shownMe'.pic = me.pic /\ shownMe'.name = shownMe.name
        BY <3>1 DEF Profile
      <3>3. myDraft' \in [name : Names, file : BOOLEAN]
        BY <3>1
      <3>4. Next1(mySave) = "name" \/ (Next1(mySave) = "login" /\ mySave.name = mySave.saved)
        BY <2>2 DEF Next1
      <3>5. /\ mySave' \in MySave /\ mySave'.stage = Next1(mySave) /\ ~mySave'.served
            /\ mySave'.of.pic = me.pic /\ mySave'.of.token = mySave.of.token
            /\ mySave'.of.name = mySave.of.name /\ mySave'.name = mySave.name
        BY <2>1, <3>1, <3>4 DEF MySave, Session, Profile
      <3> QED
        BY <1>0, <2>1, <2>2, <3>2, <3>3, <3>4, <3>5 DEF MineFollows
    <2>3. CASE mySave.stage = "name"
      <3>1. mySave' = [mySave EXCEPT !.stage = "login"] /\ UNCHANGED <<shownMe, myDraft>>
        BY <1>6, <2>3 DEF ProfileAnswered
      <3>2. /\ mySave' \in MySave /\ mySave'.stage = "login"
            /\ mySave'.of = mySave.of /\ mySave'.name = mySave.name
        BY <2>1, <3>1 DEF MySave
      <3> QED
        BY <1>0, <2>1, <2>3, <3>1, <3>2 DEF MineFollows
    <2> QED
      BY <2>1, <2>2, <2>3
  <1>7. CASE ProfileFails
    <2>1. /\ mySave.stage \in {"avatar", "name"} /\ mySave \in MySave /\ mySave' = NoSave
          /\ myDrift' = (myDrift \/ mySave.served \/ mySave.of.pic # mine.pic)
          /\ UNCHANGED <<me, token, mine, shownMe, myDraft>>
      BY <1>0, <1>7 DEF ProfileFails
    <2>2. ~myDrift' => ~myDrift /\ ~mySave.served /\ mySave.of.pic = mine.pic
      BY <2>1
    <2>3. myDrift' \in BOOLEAN
      BY <2>1
    <2>4. ~myDrift' => shownMe.name = me.name /\ shownMe.pic = me.pic /\ mine.name = me.name
                         /\ mine.pic = me.pic /\ mine.token = token
      BY <1>0, <2>1, <2>2 DEF MineFollows
    <2>5. shownMe.name = me.name /\ shownMe.pic = me.pic => shownMe = me
      BY DEF Profile
    <2> QED
      BY <1>0, <2>1, <2>3, <2>4, <2>5 DEF MineFollows
  <1>8. CASE ProfileLogin
    <2>1. /\ mySave.stage = "login" /\ mySave \in MySave /\ mySave' = NoSave
          /\ mine' = [mySave.of EXCEPT !.name = mySave.name]
          /\ shownMe' = [shownMe EXCEPT !.name = mySave.name]
          /\ UNCHANGED <<me, token, myDraft, myDrift>>
      BY <1>0, <1>8 DEF ProfileLogin
    <2>2. /\ mine' \in Session /\ mine'.name = mySave.name /\ mine'.pic = mySave.of.pic
          /\ mine'.token = mySave.of.token
      BY <2>1 DEF MySave, Session
    <2>3. /\ shownMe' \in Profile /\ shownMe'.name = mySave.name /\ shownMe'.pic = shownMe.pic
      BY <2>1 DEF MySave, Profile
    <2>4. shownMe'.name = me.name /\ shownMe'.pic = me.pic => shownMe' = me
      BY <2>3 DEF Profile
    <2> QED
      BY <1>0, <2>1, <2>2, <2>3, <2>4 DEF MineFollows
  <1> QED
    BY <1>1, <1>2, <1>3, <1>4, <1>5, <1>6, <1>7, <1>8, SettingsParts DEF MySteps

\* Two lists that are alike in every name are the same.
LEMMA LikeSame ==
    ASSUME NEW G \in SUBSET Role, NEW H \in SUBSET Role, OneEach(H)
    PROVE  /\ Like(G, H, {}) => G = H
           /\ \A but : Like(H, H, but)
           /\ \A but, more : Like(G, H, but) /\ but \subseteq more => Like(G, H, more)
  <1>1. ASSUME Like(G, H, {}) PROVE G = H
    <2>1. ASSUME NEW g \in G PROVE g \in H
      <3>1. PICK h \in H : h.id = g.id /\ h.bits = g.bits /\ h.name = g.name
        BY <1>1 DEF Like
      <3>2. h = g
        BY <3>1 DEF Role
      <3> QED
        BY <3>2
    <2>2. ASSUME NEW h \in H PROVE h \in G
      BY <1>1, <2>1, <2>2 DEF Like, OneEach
    <2> QED
      BY <2>1, <2>2
  <1>2. ASSUME NEW but PROVE Like(H, H, but)
    BY DEF Like
  <1>3. ASSUME NEW but, NEW more, Like(G, H, but), but \subseteq more PROVE Like(G, H, more)
    BY <1>3 DEF Like
  <1> QED
    BY <1>1, <1>2, <1>3

\* Typing a name makes the list alike but for it.
LEMMA LikeRenamed ==
    ASSUME NEW G \in SUBSET Role, NEW H \in SUBSET Role, NEW but, NEW g \in G, NEW name \in Names,
           Like(G, H, but)
    PROVE  Like((G \ {g}) \cup {[g EXCEPT !.name = name]}, H, but \cup {g.id})
  <1> DEFINE new == [g EXCEPT !.name = name]
             N == (G \ {g}) \cup {new}
  <1>1. new.id = g.id /\ new.bits = g.bits
    BY DEF Role
  <1> HIDE DEF new
  <1>2. OneEach(N)
    BY <1>1 DEF Like, OneEach
  <1>3. ASSUME NEW x \in N
        PROVE  \E h \in H : h.id = x.id /\ h.bits = x.bits
                             /\ (x.id \in but \cup {g.id} \/ h.name = x.name)
    BY <1>1, <1>3 DEF Like
  <1>4. ASSUME NEW h \in H PROVE \E x \in N : x.id = h.id
    BY <1>1, <1>4 DEF Like
  <1> QED
    BY <1>2, <1>3, <1>4 DEF Like, new

\* Lists that are alike stay so when the same group is added, deleted or updated in both.
LEMMA LikeMade ==
    ASSUME NEW G \in SUBSET Role, NEW H \in SUBSET Role, NEW but, OneEach(H), Like(G, H, but),
           NEW row \in Role, \A h \in H : h.id # row.id
    PROVE  Like(G \cup {row}, H \cup {row}, but) /\ \A g \in G : g.id # row.id
  BY DEF Like, OneEach

LEMMA LikeDeleted ==
    ASSUME NEW G \in SUBSET Role, NEW H \in SUBSET Role, NEW but, OneEach(H), Like(G, H, but),
           NEW old \in H
    PROVE  Like({g \in G : g.id # old.id}, H \ {old}, but)
  BY DEF Like, OneEach

LEMMA LikeUpdated ==
    ASSUME NEW G \in SUBSET Role, NEW H \in SUBSET Role, NEW but, OneEach(H), Like(G, H, but),
           NEW row \in Role, NEW old \in H, old.id = row.id
    PROVE  Like({IF g.id = row.id THEN row ELSE g : g \in G}, (H \ {old}) \cup {row},
                but \ {row.id})
  <1> DEFINE N == {IF g.id = row.id THEN row ELSE g : g \in G}
             M == (H \ {old}) \cup {row}
  <1>1. \A x : x \in N <=> \/ x \in G /\ x.id # row.id
                           \/ x = row /\ \E g \in G : g.id = row.id
    OBVIOUS
  <1>2. OneEach(N)
    BY <1>1 DEF Like, OneEach
  <1>3. ASSUME NEW x \in N
        PROVE  \E h \in M : h.id = x.id /\ h.bits = x.bits
                             /\ (x.id \in but \ {row.id} \/ h.name = x.name)
    <2>1. CASE x = row
      BY <2>1
    <2>2. CASE x # row
      <3>1. x \in G /\ x.id # row.id
        BY <1>1, <2>2
      <3>2. PICK h \in H : h.id = x.id /\ h.bits = x.bits /\ (x.id \in but \/ h.name = x.name)
        BY <3>1 DEF Like
      <3> QED
        BY <3>1, <3>2
    <2> QED
      BY <2>1, <2>2
  <1>4. ASSUME NEW h \in M PROVE \E x \in N : x.id = h.id
    <2>1. \E g \in G : g.id = h.id
      BY <1>4 DEF Like
    <2> QED
      BY <1>1, <2>1
  <1> HIDE DEF N, M
  <1>5. Like(N, M, but \ {row.id})
    BY <1>2, <1>3, <1>4 DEF Like
  <1> QED
    BY <1>5 DEF N, M

\* A name typed while an answer is on its way stays typed when the answer patches the list.
LEMMA PatchedRenamed ==
    ASSUME NEW G \in SUBSET Role, NEW H \in SUBSET Role, NEW but, NEW g \in G, NEW name \in Names,
           NEW r \in RoleRequest, r.op # "create" => r.row.id = r.id,
           r.op = "create" => \A x \in G : x.id # r.row.id, OneEach(H),
           Like(Patched(G, r), H, but)
    PROVE  Like(Patched((G \ {g}) \cup {[g EXCEPT !.name = name]}, r), H, but \cup {g.id})
  <1> DEFINE new == [g EXCEPT !.name = name]
             N == (G \ {g}) \cup {new}
  <1>1. new.id = g.id /\ new \in Role /\ r.row \in Role
    BY DEF Role, RoleRequest
  <1>2. Patched(G, r) \in SUBSET Role
    BY <1>1 DEF Patched
  <1>3. Like((Patched(G, r) \ {g}) \cup {new}, H, but \cup {g.id}) \/ g \notin Patched(G, r)
    BY <1>2, LikeRenamed
  <1>4. Like(Patched(G, r), H, but \cup {g.id})
    BY <1>2, LikeSame
  <1> HIDE DEF new
  <1>5. CASE r.op = "create"
    <2>1. Patched(N, r) = (Patched(G, r) \ {g}) \cup {new} /\ g \in Patched(G, r)
      BY <1>5 DEF Patched
    <2> QED
      BY <1>3, <2>1 DEF new
  <1>6. CASE r.op # "create" /\ g.id = r.id
    <2>1. Patched(N, r) = Patched(G, r)
      BY <1>1, <1>6 DEF Patched
    <2> QED
      BY <1>4, <2>1 DEF new
  <1>7. CASE r.op # "create" /\ g.id # r.id
    <2>1. Patched(N, r) = (Patched(G, r) \ {g}) \cup {new} /\ g \in Patched(G, r)
      BY <1>1, <1>7 DEF Patched
    <2> QED
      BY <1>3, <2>1 DEF new
  <1> QED
    BY <1>5, <1>6, <1>7

\* The invariant of the roles.
RolesInv == RolesFit /\ HubOrdered /\ CallsFit /\ RolesFollow

\* The roles keep their types, and the hub its numbering.
LEMMA RolesFitStep ==
    ASSUME RolesInv, SettingsNext
    PROVE  RolesFit' /\ HubOrdered' /\ CallsFit'
  <1> USE DEF RolesInv, RolesFit
  <1>0. /\ \A g \in Role : g.id \in 1..MaxRoles /\ g.name \in Names /\ g.bits \in SUBSET Bits
        /\ \A r \in RoleRequest : r.row \in Role
        /\ NoLoad \in [stage : {"idle", "sent", "read"}, list : SUBSET Role]
        /\ NoLoad.stage = "idle"
        /\ MaxRoles \in Nat /\ Names = {"everyone", "role"} /\ rolesMade \in Nat
    BY SettingsAssumption DEF Role, RoleRequest, NoLoad, Names
  <1>1. CASE UNCHANGED roleVars
    BY <1>1 DEF roleVars, HubOrdered, CallsFit
  <1>2. CASE OpenRoles \/ ReloadRoles \/ RolesRead
    <2>1. /\ UNCHANGED <<hubRoles, rolesMade, groups, selectedId, typing, roleCalls>>
          /\ \/ rolesLoad' = [stage |-> "sent", list |-> {}]
             \/ rolesLoad' = [stage |-> "read", list |-> hubRoles]
          /\ roleDrift' \in BOOLEAN
      BY <1>2 DEF OpenRoles, ReloadRoles, RolesRead, LoadsRoles
    <2> QED
      BY <2>1 DEF HubOrdered, CallsFit
  <1>3. CASE RolesAnswered \/ CloseRoles \/ (\E id \in 0..MaxRoles : SelectRole(id))
    <2>1. UNCHANGED <<hubRoles, rolesMade, roleCalls>> /\ rolesLoad' \in {rolesLoad, NoLoad}
      BY <1>3 DEF RolesAnswered, CloseRoles, SelectRole
    <2>2. /\ groups' = groups \/ groups' = rolesLoad.list
          /\ typing' \in BOOLEAN /\ (typing' => typing /\ selectedId' = selectedId)
          /\ roleDrift' \in BOOLEAN
      <3>1. CASE RolesAnswered
        BY <3>1 DEF RolesAnswered
      <3>2. CASE CloseRoles
        BY <3>2 DEF CloseRoles
      <3>3. CASE \E id \in 0..MaxRoles : SelectRole(id)
        BY <3>3 DEF SelectRole
      <3> QED
        BY <1>3, <3>1, <3>2, <3>3
    <2> QED
      BY <1>0, <2>1, <2>2 DEF HubOrdered, CallsFit
  <1>4. ASSUME NEW r \in RoleRequest, SendsRole(r), groups' \subseteq Role,
               typing' \in BOOLEAN, typing' => typing,
               r.op # "update" => r.name = "keep", r.stage = "sent"
        PROVE  RolesFit' /\ HubOrdered' /\ CallsFit'
    <2>1. /\ roleCalls' = roleCalls \cup {r}
          /\ UNCHANGED <<hubRoles, rolesMade, selectedId, rolesLoad>>
          /\ roleDrift' \in BOOLEAN
      BY <1>4 DEF SendsRole
    <2> QED
      BY <1>4, <2>1 DEF HubOrdered, CallsFit
  <1>5. ASSUME NEW op \in {"create", "update", "delete"}, NEW id \in 0..MaxRoles
        PROVE  /\ RoleCall(op, id) \in RoleRequest /\ RoleCall(op, id).stage = "sent"
               /\ RoleCall(op, id).name = "keep" /\ RoleCall(op, id).op = op
               /\ RoleCall(op, id).id = id
    BY <1>0, SettingsAssumption DEF RoleCall, RoleRequest, Role, Everyone
  <1>6. CASE CreateRole \/ (\E g \in groups : PickColor(g) \/ DeleteRole(g))
    <2>1. \E op \in {"create", "update", "delete"}, id \in 0..MaxRoles :
            SendsRole(RoleCall(op, id))
      BY <1>0, <1>6 DEF CreateRole, PickColor, DeleteRole
    <2>2. UNCHANGED <<groups, typing>>
      BY <1>6 DEF CreateRole, PickColor, DeleteRole
    <2> QED
      BY <1>4, <1>5, <2>1, <2>2
  <1>7. CASE \E g \in groups, bit \in Bits : ToggleBit(g, bit)
    <2>1. PICK g \in groups, bit \in Bits : ToggleBit(g, bit)
      BY <1>7
    <2>2. PICK bits \in SUBSET Bits :
            SendsRole([RoleCall("update", g.id) EXCEPT !.sets = TRUE, !.bits = bits])
      <3>1. (IF bit \in g.bits THEN g.bits \ {bit} ELSE g.bits \cup {bit}) \in SUBSET Bits
        BY <1>0
      <3> QED
        BY <2>1, <3>1 DEF ToggleBit
    <2> DEFINE r == [RoleCall("update", g.id) EXCEPT !.sets = TRUE, !.bits = bits]
    <2>5. /\ RoleCall("update", g.id) \in RoleRequest /\ RoleCall("update", g.id).stage = "sent"
          /\ RoleCall("update", g.id).op = "update"
      BY <1>0, <1>5
    <2>3. r \in RoleRequest /\ r.stage = "sent" /\ r.op = "update"
      BY <2>5 DEF RoleRequest
    <2>4. UNCHANGED <<groups, typing>>
      BY <2>1 DEF ToggleBit
    <2> HIDE DEF r
    <2> QED
      BY <1>4, <2>2, <2>3, <2>4 DEF r
  <1>8. CASE \E g \in groups : BlurName(g)
    <2>1. PICK g \in groups : BlurName(g)
      BY <1>8
    <2> DEFINE r == [RoleCall("update", g.id) EXCEPT !.name = g.name]
    <2>2. r \in RoleRequest /\ r.stage = "sent" /\ r.op = "update"
      BY <1>0, <1>5 DEF RoleRequest
    <2>3. SendsRole(r) /\ groups' = groups /\ typing' = FALSE
      BY <2>1 DEF BlurName
    <2> HIDE DEF r
    <2> QED
      BY <1>4, <2>2, <2>3
  <1>9. CASE \E g \in groups, name \in Names : TypeName(g, name)
    <2>1. PICK g \in groups, name \in Names : TypeName(g, name)
      BY <1>9
    <2>2. [g EXCEPT !.name = name] \in Role /\ g.id # 0 /\ g.id = selectedId
      BY <1>0, <2>1 DEF Role, TypeName, Selected
    <2> QED
      BY <2>1, <2>2 DEF TypeName, HubOrdered, CallsFit
  <1>10. CASE \E r \in roleCalls : RoleServed(r)
    <2>1. PICK r \in roleCalls, row \in Role :
            /\ \/ /\ r.op = "create" /\ rolesMade < MaxRoles
                  /\ row = [id |-> rolesMade + 1, name |-> "role", bits |-> {}]
                  /\ rolesMade' = rolesMade + 1
                  /\ hubRoles' = hubRoles \cup {row}
               \/ /\ r.op = "update"
                  /\ \E g \in KeptRole(r.id) :
                        /\ row = RoleUpdated(g, r)
                        /\ hubRoles' = (hubRoles \ {g}) \cup {row}
                  /\ UNCHANGED rolesMade
               \/ /\ r.op = "delete"
                  /\ \E g \in KeptRole(r.id) : row = g /\ hubRoles' = hubRoles \ {g}
                  /\ UNCHANGED rolesMade
            /\ roleCalls' = (roleCalls \ {r}) \cup {[r EXCEPT !.stage = "served", !.row = row]}
            /\ UNCHANGED <<groups, selectedId, typing, rolesLoad, roleDrift>>
      BY <1>10 DEF RoleServed
    <2>2. \A g \in KeptRole(r.id) : g \in hubRoles /\ g.id = r.id /\ RoleUpdated(g, r).id = r.id
      <3>1. ASSUME NEW g \in Role PROVE RoleUpdated(g, r).id = g.id
        BY DEF RoleUpdated, Role
      <3> QED
        BY <3>1 DEF KeptRole
    <2> DEFINE q == [r EXCEPT !.stage = "served", !.row = row]
    <2>3. q \in RoleRequest /\ q.op = r.op /\ q.id = r.id /\ q.row = row /\ q.name = r.name
      BY DEF RoleRequest
    <2> HIDE DEF q
    <2>4. hubRoles' \subseteq Role /\ rolesMade' \in 1..MaxRoles
      BY <1>0, <2>1
    <2>5. HubOrdered'
      <3>1. CASE r.op = "create"
        <4>1. row.id = rolesMade + 1
          BY <2>1, <3>1
        <4> QED
          BY <1>0, <2>1, <3>1, <4>1 DEF HubOrdered, OneEach
      <3>2. CASE r.op = "update"
        BY <2>1, <2>2, <3>2 DEF HubOrdered, OneEach
      <3>3. CASE r.op = "delete"
        BY <2>1, <3>3 DEF HubOrdered, OneEach
      <3> QED
        BY <2>1, <3>1, <3>2, <3>3
    <2>6. q.op # "create" => q.row.id = q.id
      BY <2>1, <2>2, <2>3
    <2>7. roleCalls' = (roleCalls \ {r}) \cup {q}
      BY <2>1 DEF q
    <2>8. CallsFit'
      BY <2>3, <2>6, <2>7 DEF CallsFit
    <2> QED
      BY <2>1, <2>3, <2>4, <2>5, <2>7, <2>8
  <1>11. CASE \E r \in roleCalls : RoleRefused(r)
    BY <1>11 DEF RoleRefused, HubOrdered, CallsFit
  <1>12. CASE \E r \in roleCalls : RoleAnswered(r)
    <2>1. PICK r \in roleCalls : RoleAnswered(r)
      BY <1>12
    <2>2. groups' \subseteq Role
      BY <1>0, <2>1 DEF RoleAnswered
    <2>3. typing' \in BOOLEAN /\ (typing' => selectedId' # 0) /\ roleDrift' \in BOOLEAN
      BY <2>1 DEF RoleAnswered
    <2> QED
      BY <2>1, <2>2, <2>3 DEF RoleAnswered, HubOrdered, CallsFit
  <1>13. CASE \E g \in hubRoles, bit \in Bits : OthersChangeRoles(g, bit)
    <2>1. PICK g \in hubRoles, bit \in Bits : OthersChangeRoles(g, bit)
      BY <1>13
    <2> DEFINE new == [g EXCEPT !.bits = @ \cup {bit}]
    <2>2. new \in Role /\ new.id = g.id
      BY <1>0 DEF Role
    <2>3. hubRoles' = (hubRoles \ {g}) \cup {new}
      BY <2>1 DEF OthersChangeRoles
    <2> HIDE DEF new
    <2>4. HubOrdered'
      BY <2>1, <2>2, <2>3 DEF HubOrdered, OneEach, OthersChangeRoles
    <2> QED
      BY <2>1, <2>2, <2>3, <2>4 DEF OthersChangeRoles, CallsFit
  <1>14. RolesNext => RolesFit' /\ HubOrdered' /\ CallsFit'
    BY <1>2, <1>3, <1>6, <1>7, <1>8, <1>9, <1>10, <1>11, <1>12, <1>13 DEF RolesNext
  <1> QED
    BY <1>1, <1>14, SettingsParts

\* The list goes on following: a request is sent with the name shown, and its row replaces the
\* one it was made from.
LEMMA RolesFollowStep ==
    ASSUME RolesInv, SettingsNext
    PROVE  RolesFollow'
  <1> USE DEF RolesInv
  <1>0. /\ hubRoles \in SUBSET Role /\ groups \in SUBSET Role /\ OneEach(hubRoles)
        /\ roleCalls \subseteq RoleRequest
        /\ NoLoad.stage = "idle" /\ rolesLoad.stage \in {"idle", "sent", "read"}
        /\ rolesLoad.stage = "idle" => rolesLoad = NoLoad
        /\ "keep" \notin Names /\ \A g \in Role : g.id # 0 /\ g.name \in Names
    BY DEF RolesFit, HubOrdered, NoLoad, Names, Role
  <1>1. CASE UNCHANGED roleVars
    BY <1>1 DEF roleVars, RolesFollow, Unsent
  <1>2. CASE OpenRoles \/ ReloadRoles
    <2>1. /\ rolesLoad' = [stage |-> "sent", list |-> {}] /\ roleDrift' = (roleCalls # {})
          /\ roleCalls' = roleCalls
      BY <1>2 DEF OpenRoles, ReloadRoles, LoadsRoles
    <2> QED
      BY <2>1 DEF RolesFollow
  <1>3. CASE RolesRead
    BY <1>0, <1>3 DEF RolesRead, RolesFollow
  <1>4. CASE RolesAnswered
    <2>1. \A but : Like(hubRoles, hubRoles, but)
      BY <1>0, LikeSame
    <2>2. /\ rolesLoad' = NoLoad /\ UNCHANGED <<hubRoles, roleCalls>> /\ rolesLoad.stage # "idle"
          /\ ~roleDrift' => ~roleDrift /\ rolesLoad.stage = "read" /\ groups' = rolesLoad.list
      BY <1>4 DEF RolesAnswered
    <2>3. ~roleDrift' => roleCalls = {} /\ groups' = hubRoles
      BY <1>0, <2>2 DEF RolesFollow
    <2> QED
      BY <1>0, <2>1, <2>2, <2>3 DEF RolesFollow
  <1>5. CASE CloseRoles
    <2>1. /\ typing' = FALSE /\ rolesLoad' = NoLoad /\ UNCHANGED <<hubRoles, groups, roleCalls>>
          /\ ~roleDrift' => ~roleDrift /\ ~typing /\ rolesLoad.stage = "idle"
      BY <1>5 DEF CloseRoles
    <2>2. ~roleDrift' => Unsent' = Unsent
      BY <2>1 DEF Unsent
    <2> QED
      BY <1>0, <2>1, <2>2 DEF RolesFollow
  <1>6. CASE \E id \in 0..MaxRoles : SelectRole(id)
    <2>1. /\ ~typing /\ UNCHANGED <<hubRoles, groups, typing, rolesLoad, roleCalls, roleDrift>>
      BY <1>6 DEF SelectRole
    <2>2. Unsent' = Unsent
      BY <2>1 DEF Unsent
    <2> QED
      BY <2>1, <2>2 DEF RolesFollow
  <1>7. ASSUME NEW r, SendsRole(r), groups' = groups, r.stage = "sent",
               roleCalls' = {r} => Unsent' = Unsent \/ roleCalls # {}
        PROVE  RolesFollow'
    <2>1. /\ roleCalls' = roleCalls \cup {r} /\ UNCHANGED <<hubRoles, rolesLoad>>
          /\ ~roleDrift' => ~roleDrift /\ roleCalls = {} /\ rolesLoad.stage = "idle"
      BY <1>7 DEF SendsRole
    <2>2. CASE ~roleDrift'
      <3>1. roleCalls' = {r} /\ Unsent' = Unsent /\ roleCalls = {} /\ rolesLoad' = NoLoad
        BY <1>0, <1>7, <2>1, <2>2
      <3>2. Like(groups, hubRoles, Unsent)
        BY <1>0, <2>1, <2>2 DEF RolesFollow
      <3> QED
        BY <1>0, <1>7, <2>1, <3>1, <3>2 DEF RolesFollow
    <2> QED
      BY <2>2 DEF RolesFollow
  <1>8. ASSUME NEW op, NEW id
        PROVE  /\ RoleCall(op, id).stage = "sent" /\ RoleCall(op, id).name = "keep"
               /\ \A bits : LET r == [RoleCall(op, id) EXCEPT !.sets = TRUE, !.bits = bits]
                            IN  r.stage = "sent" /\ r.name = "keep"
               /\ \A name : LET r == [RoleCall(op, id) EXCEPT !.name = name]
                            IN  r.stage = "sent" /\ r.name = name /\ r.id = id
    BY DEF RoleCall
  <1>9. ASSUME NEW r, r.name = "keep", roleCalls' = {r}, roleCalls = {},
               UNCHANGED <<typing, selectedId>>
        PROVE  Unsent' = Unsent
    BY <1>9 DEF Unsent
  <1>10. CASE CreateRole \/ (\E g \in groups : PickColor(g) \/ DeleteRole(g))
    <2>1. PICK op, id : SendsRole(RoleCall(op, id))
      BY <1>10 DEF CreateRole, PickColor, DeleteRole
    <2>2. UNCHANGED <<groups, typing>>
      BY <1>10 DEF CreateRole, PickColor, DeleteRole
    <2> DEFINE r == RoleCall(op, id)
    <2>3. r.stage = "sent" /\ r.name = "keep" /\ SendsRole(r)
      BY <1>8, <2>1
    <2> HIDE DEF r
    <2>4. selectedId' = selectedId
      BY <2>3 DEF SendsRole
    <2> QED
      BY <1>7, <1>9, <2>2, <2>3, <2>4
  <1>11. CASE \E g \in groups, bit \in Bits : ToggleBit(g, bit)
    <2>1. PICK g, bits : SendsRole([RoleCall("update", g.id) EXCEPT !.sets = TRUE, !.bits = bits])
      BY <1>11 DEF ToggleBit
    <2>2. UNCHANGED <<groups, typing>>
      BY <1>11 DEF ToggleBit
    <2> DEFINE r == [RoleCall("update", g.id) EXCEPT !.sets = TRUE, !.bits = bits]
    <2>3. r.stage = "sent" /\ r.name = "keep" /\ SendsRole(r)
      BY <2>1 DEF RoleCall
    <2> HIDE DEF r
    <2>4. selectedId' = selectedId
      BY <2>3 DEF SendsRole
    <2> QED
      BY <1>7, <1>9, <2>2, <2>3, <2>4
  <1>12. CASE \E g \in groups : BlurName(g)
    <2>1. PICK g \in groups : BlurName(g)
      BY <1>12
    <2> DEFINE r == [RoleCall("update", g.id) EXCEPT !.name = g.name]
    <2>2. r.stage = "sent" /\ r.name = g.name /\ r.id = g.id
      BY DEF RoleCall
    <2>3. SendsRole(r) /\ typing /\ typing' = FALSE /\ groups' = groups /\ g.id = selectedId
      BY <2>1 DEF BlurName, Selected
    <2> HIDE DEF r
    <2>4. r.name # "keep"
      BY <1>0, <2>2
    <2>5. roleCalls' = {r} /\ roleCalls = {} => Unsent' = Unsent
      BY <2>2, <2>3, <2>4 DEF Unsent
    <2> QED
      BY <1>7, <2>2, <2>3, <2>5
  <1>13. CASE \E g \in groups, name \in Names : TypeName(g, name)
    <2>1. PICK g \in groups, name \in Names : TypeName(g, name)
      BY <1>13
    <2>2. /\ groups' = (groups \ {g}) \cup {[g EXCEPT !.name = name]} /\ typing' = TRUE
          /\ g.id = selectedId
          /\ UNCHANGED <<hubRoles, selectedId, rolesLoad, roleCalls, roleDrift>>
      BY <2>1 DEF TypeName, Selected
    <2>3. Unsent \cup {g.id} \subseteq Unsent'
      BY <2>2 DEF Unsent
    <2>4. groups' \in SUBSET Role
      BY <1>0, <2>2 DEF Role
    <2>5. Like(groups, hubRoles, Unsent) => Like(groups', hubRoles, Unsent')
      <3>1. Like(groups, hubRoles, Unsent) => Like(groups', hubRoles, Unsent \cup {g.id})
        BY <1>0, <2>2, LikeRenamed
      <3> QED
        BY <1>0, <2>3, <2>4, <3>1, LikeSame
    <2>6. ASSUME NEW r \in roleCalls, r.stage = "served",
                 Like(Patched(groups, r), hubRoles, Unsent),
                 r.op = "create" => \A x \in groups : x.id # r.row.id
          PROVE  /\ Like(Patched(groups', r), hubRoles, Unsent')
                 /\ r.op = "create" => \A x \in groups' : x.id # r.row.id
      <3>1. r \in RoleRequest /\ (r.op # "create" => r.row.id = r.id) /\ r.row \in Role
        BY <1>0, <2>6 DEF CallsFit, RoleRequest
      <3>2. Like(Patched(groups', r), hubRoles, Unsent \cup {g.id})
        BY <1>0, <2>2, <2>6, <3>1, PatchedRenamed
      <3>3. Patched(groups', r) \in SUBSET Role
        BY <2>4, <3>1 DEF Patched
      <3>4. [g EXCEPT !.name = name].id = g.id
        BY <1>0 DEF Role
      <3>5. Like(Patched(groups', r), hubRoles, Unsent')
        <4> DEFINE P == Patched(groups', r)
                   new == Unsent'
        <4>1. P \in SUBSET Role /\ Like(P, hubRoles, Unsent \cup {g.id})
              /\ Unsent \cup {g.id} \subseteq new
          BY <2>3, <3>2, <3>3
        <4> HIDE DEF P, new
        <4>2. Like(P, hubRoles, new)
          BY <1>0, <4>1, LikeSame
        <4> QED
          BY <4>2 DEF P, new
      <3> QED
        BY <2>2, <2>6, <3>4, <3>5
    <2> QED
      BY <2>2, <2>5, <2>6 DEF RolesFollow
  <1>14. CASE \E r \in roleCalls : RoleServed(r)
    <2>1. PICK r \in roleCalls, row \in Role :
            /\ r.stage = "sent"
            /\ \/ /\ r.op = "create"
                  /\ row = [id |-> rolesMade + 1, name |-> "role", bits |-> {}]
                  /\ hubRoles' = hubRoles \cup {row}
               \/ /\ r.op = "update"
                  /\ \E g \in KeptRole(r.id) :
                        /\ row = RoleUpdated(g, r)
                        /\ hubRoles' = (hubRoles \ {g}) \cup {row}
               \/ /\ r.op = "delete"
                  /\ \E g \in KeptRole(r.id) : row = g /\ hubRoles' = hubRoles \ {g}
            /\ roleCalls' = (roleCalls \ {r}) \cup {[r EXCEPT !.stage = "served", !.row = row]}
            /\ UNCHANGED <<groups, selectedId, typing, rolesLoad, roleDrift>>
      BY <1>14 DEF RoleServed
    <2> SUFFICES ASSUME ~roleDrift PROVE RolesFollow'
      BY <2>1 DEF RolesFollow
    <2> DEFINE q == [r EXCEPT !.stage = "served", !.row = row]
    <2>2. q.stage = "served" /\ q.op = r.op /\ q.id = r.id /\ q.row = row
      BY <1>0 DEF RoleRequest
    <2>3. roleCalls = {r} /\ rolesLoad = NoLoad /\ Like(groups, hubRoles, Unsent)
      BY <1>0, <2>1 DEF RolesFollow
    <2>4. roleCalls' = {q} /\ UNCHANGED <<groups, selectedId, typing, rolesLoad, roleDrift>>
      BY <2>1, <2>3
    <2> HIDE DEF q
    <2>5. Unsent' = (IF typing THEN {selectedId} ELSE {})
      BY <2>2, <2>4 DEF Unsent
    <2>6. Unsent \subseteq Unsent' \cup {r.id} /\ (r.op # "update" => Unsent = Unsent')
      BY <2>1, <2>3, <2>5 DEF Unsent, CallsFit
    <2>7. \A g \in KeptRole(r.id) : g \in hubRoles /\ g.id = r.id /\ RoleUpdated(g, r).id = r.id
      <3>1. ASSUME NEW g \in Role PROVE RoleUpdated(g, r).id = g.id
        BY DEF RoleUpdated, Role
      <3> QED
        BY <1>0, <3>1 DEF KeptRole
    <2>8. /\ Like(Patched(groups, q), hubRoles', Unsent')
          /\ q.op = "create" => \A g \in groups : g.id # q.row.id
      <3>1. CASE r.op = "create"
        <4>1. hubRoles' = hubRoles \cup {row} /\ row.id = rolesMade + 1
          BY <2>1, <3>1
        <4>2. \A h \in hubRoles : h.id # row.id
          BY <4>1 DEF HubOrdered, RolesFit, Role
        <4>3. /\ Like(groups \cup {row}, hubRoles \cup {row}, Unsent)
              /\ \A g \in groups : g.id # row.id
          <5> DEFINE H == hubRoles
                     G == groups
                     but == Unsent
          <5>1. G \in SUBSET Role /\ H \in SUBSET Role /\ OneEach(H) /\ Like(G, H, but)
            BY <1>0, <2>3
          <5>2. row \in Role /\ \A h \in H : h.id # row.id
            BY <4>2
          <5> HIDE DEF H, G, but
          <5>3. Like(G \cup {row}, H \cup {row}, but) /\ \A g \in G : g.id # row.id
            BY <5>1, <5>2, LikeMade
          <5> QED
            BY <5>3 DEF H, G, but
        <4> QED
          BY <2>2, <2>6, <3>1, <4>1, <4>3 DEF Patched
      <3>2. CASE r.op = "delete"
        <4>1. PICK g \in hubRoles : g.id = r.id /\ row = g /\ hubRoles' = hubRoles \ {g}
          BY <2>1, <2>7, <3>2
        <4>2. Like({x \in groups : x.id # g.id}, hubRoles \ {g}, Unsent)
          BY <1>0, <2>3, LikeDeleted
        <4> QED
          BY <2>2, <2>6, <3>2, <4>1, <4>2 DEF Patched
      <3>3. CASE r.op = "update"
        <4>1. PICK g \in hubRoles :
                /\ g.id = r.id /\ row.id = r.id
                /\ hubRoles' = (hubRoles \ {g}) \cup {row}
          BY <2>1, <2>7, <3>3
        <4> DEFINE N == {IF x.id = row.id THEN row ELSE x : x \in groups}
        <4>2. Like(N, hubRoles', Unsent \ {row.id})
          BY <1>0, <2>3, <4>1, LikeUpdated
        <4>3. N = Patched(groups, q)
          BY <2>2, <3>3, <4>1 DEF Patched
        <4>4. N \in SUBSET Role /\ hubRoles' \in SUBSET Role /\ OneEach(hubRoles')
          <5>1. OneEach(hubRoles')
            BY <1>0, <4>1 DEF OneEach
          <5> QED
            BY <1>0, <4>1, <5>1
        <4>5. Unsent \ {row.id} \subseteq Unsent'
          BY <2>6, <4>1
        <4> HIDE DEF N
        <4>6. Like(N, hubRoles', Unsent')
          BY <4>2, <4>4, <4>5, LikeSame
        <4> QED
          BY <2>2, <3>3, <4>3, <4>6
      <3> QED
        BY <2>1, <3>1, <3>2, <3>3
    <2> QED
      BY <1>0, <2>2, <2>3, <2>4, <2>8 DEF RolesFollow
  <1>15. CASE \E r \in roleCalls : RoleRefused(r)
    <2>1. PICK r \in roleCalls : RoleRefused(r)
      BY <1>15
    <2>2. /\ roleCalls' = roleCalls \ {r}
          /\ UNCHANGED <<hubRoles, groups, selectedId, typing, rolesLoad>>
          /\ ~roleDrift' => ~roleDrift /\ r.stage # "served" /\ r.name = "keep"
      BY <2>1 DEF RoleRefused
    <2>3. CASE ~roleDrift'
      <3>1. roleCalls = {r} /\ rolesLoad = NoLoad /\ r.stage = "sent"
        BY <1>0, <2>2, <2>3 DEF RolesFollow, RoleRequest
      <3>2. Like(groups, hubRoles, Unsent) /\ roleCalls' = {}
        BY <1>0, <2>2, <2>3, <3>1 DEF RolesFollow
      <3>3. Unsent' = Unsent
        BY <2>2, <2>3, <3>1, <3>2 DEF Unsent
      <3> QED
        BY <1>0, <2>2, <3>1, <3>2, <3>3 DEF RolesFollow
    <2> QED
      BY <2>3 DEF RolesFollow
  <1>16. CASE \E r \in roleCalls : RoleAnswered(r)
    <2>1. PICK r \in roleCalls : RoleAnswered(r)
      BY <1>16
    <2>2. /\ roleCalls' = roleCalls \ {r} /\ r.stage = "served"
          /\ UNCHANGED <<hubRoles, rolesLoad>>
          /\ ~roleDrift' => ~roleDrift /\ (typing => selectedId' = selectedId)
          /\ typing' = (typing /\ selectedId' # 0)
          /\ groups' = Patched(groups, r)
      BY <2>1 DEF RoleAnswered, Patched
    <2>3. CASE ~roleDrift'
      <3>1. roleCalls = {r} /\ rolesLoad = NoLoad /\ roleCalls' = {}
        BY <1>0, <2>2, <2>3 DEF RolesFollow
      <3>2. Like(Patched(groups, r), hubRoles, Unsent)
        BY <1>0, <2>2, <2>3, <3>1 DEF RolesFollow
      <3>3. Unsent' = Unsent
        <4>1. typing' = typing /\ (typing => selectedId' = selectedId)
          BY <2>2, <2>3 DEF RolesFit
        <4> QED
          BY <2>2, <3>1, <4>1 DEF Unsent
      <3> QED
        BY <1>0, <2>2, <3>1, <3>2, <3>3 DEF RolesFollow
    <2> QED
      BY <2>3 DEF RolesFollow
  <1>17. CASE \E g \in hubRoles, bit \in Bits : OthersChangeRoles(g, bit)
    BY <1>17 DEF OthersChangeRoles, RolesFollow
  <1>18. RolesNext => RolesFollow'
    BY <1>2, <1>3, <1>4, <1>5, <1>6, <1>10, <1>11, <1>12, <1>13, <1>14, <1>15, <1>16, <1>17
    DEF RolesNext
  <1> QED
    BY <1>1, <1>18, SettingsParts

\* The invariant of the dialogs.
SettingsInv == HubInv /\ MineInv /\ RolesInv

\* A hub with two groups, one profile, and no dialog open.
LEMMA SettingsInitially == SettingsInit => SettingsInv
  <1> SUFFICES ASSUME SettingsInit PROVE SettingsInv
    OBVIOUS
  <1> USE SettingsAssumption DEF SettingsInit
  <1>1. HubInv
    <2>1. hubRecord \in Profile /\ draft \in Draft
      BY DEF Profile, NewProfile, Names, Draft
    <2>2. hubFetch \in [stage : {"idle", "sent", "read"}, of : Profile \cup {NoHub}]
      OBVIOUS
    <2>3. hubCache.pic = 0 /\ hubRecord.pic = 0 /\ saving.stage = "idle"
      BY DEF NewProfile, NoHub, NoSave
    <2>4. HubFits
      <3>1. hubCache = NoHub /\ saving = NoSave /\ hubDrift = FALSE /\ deeds = 0
        OBVIOUS
      <3> HIDE DEF SettingsInit
      <3>2. hubDrift \in BOOLEAN
        BY <3>1
      <3>3. deeds \in 0..MaxDeeds
        BY <3>1
      <3> QED
        BY <2>1, <2>2, <3>1, <3>2, <3>3 DEF HubFits
    <2>5. HubAges
      BY <2>3 DEF HubAges
    <2>6. HubFollows
      BY <2>3 DEF HubFollows
    <2> QED
      BY <2>4, <2>5, <2>6 DEF HubInv
  <1>2. MineInv
    <2>1. me \in Profile /\ shownMe \in Profile /\ mine \in Session
      BY DEF Profile, NewProfile, Names, Session
    <2>2. token \in 1..(deeds + 1) /\ myDraft \in [name : Names, file : BOOLEAN]
      BY DEF Names
    <2>3. mine.name = me.name /\ mine.pic = me.pic /\ mine.token = token
      BY DEF NewProfile
    <2> QED
      BY <2>1, <2>2, <2>3 DEF MineInv, MineFits, MineFollows
  <1>3. RolesInv
    <2>1. hubRoles \subseteq Role /\ HubOrdered
      BY DEF Role, Everyone, Names, HubOrdered, OneEach
    <2>2. rolesLoad \in [stage : {"idle", "sent", "read"}, list : SUBSET Role]
      BY DEF NoLoad
    <2>3. RolesFit
      <3>1. /\ rolesMade \in 1..MaxRoles /\ groups = {} /\ roleCalls = {}
            /\ typing = FALSE /\ roleDrift \in BOOLEAN /\ rolesLoad = NoLoad
        OBVIOUS
      <3> HIDE DEF SettingsInit
      <3> QED
        BY <2>1, <2>2, <3>1 DEF RolesFit
    <2>4. CallsFit /\ RolesFollow
      BY DEF CallsFit, RolesFollow
    <2> QED
      BY <2>1, <2>3, <2>4 DEF RolesInv
  <1> QED
    BY <1>1, <1>2, <1>3 DEF SettingsInv

\* Every step keeps the invariant.
LEMMA SettingsStep ==
    ASSUME SettingsInv, [SettingsNext]_settingsVars
    PROVE  SettingsInv'
  <1> USE DEF SettingsInv
  <1>1. CASE SettingsNext
    <2>1. HubInv'
      BY <1>1, HubFitsStep, HubAgesStep, HubFollowsStep DEF HubInv
    <2>2. MineInv'
      BY <1>1, MineStep DEF HubInv, HubFits
    <2>3. RolesInv'
      BY <1>1, RolesFitStep, RolesFollowStep DEF RolesInv
    <2> QED
      BY <2>1, <2>2, <2>3
  <1>2. CASE UNCHANGED settingsVars
    <2>1. HubInv'
      BY <1>2 DEF settingsVars, hubVars, HubInv, HubFits, HubAges, HubFollows
    <2>2. MineInv'
      BY <1>2 DEF settingsVars, myVars, MineInv, MineFits, MineFollows
    <2>3. RolesInv'
      BY <1>2
      DEF settingsVars, roleVars, RolesInv, RolesFit, HubOrdered, CallsFit, RolesFollow, Unsent
    <2> QED
      BY <2>1, <2>2, <2>3
  <1> QED
    BY <1>1, <1>2

\* What the invariant says when no request is under way.
LEMMA SettingsFollow == SettingsInv => SavedIsShown
  <1> SUFFICES ASSUME SettingsInv PROVE SavedIsShown
    OBVIOUS
  <1>1. RolesFollowHub
    <2> SUFFICES ASSUME ~roleDrift, roleCalls = {}, ~typing, rolesLoad = NoLoad
                 PROVE  groups = hubRoles
      BY DEF RolesFollowHub
    <2>1. Like(groups, hubRoles, {})
      BY DEF SettingsInv, RolesInv, RolesFollow, Unsent, NoLoad
    <2> QED
      BY <2>1, LikeSame DEF SettingsInv, RolesInv, RolesFit, HubOrdered
  <1>2. SettingsShown
    BY DEF SettingsShown, SettingsInv, HubInv, HubFollows
  <1>3. ProfileShown
    <2> SUFFICES ASSUME ~myDrift, mySave = NoSave
                 PROVE  /\ [name |-> mine.name, pic |-> mine.pic] = me /\ shownMe = me
                        /\ mine.token = token
      BY DEF ProfileShown
    <2>1. me = [name |-> me.name, pic |-> me.pic]
      BY DEF SettingsInv, MineInv, MineFits, Profile
    <2> QED
      BY <2>1 DEF SettingsInv, MineInv, MineFollows
  <1> QED
    BY <1>1, <1>2, <1>3 DEF SavedIsShown

\* WHAT IS SAVED IS SHOWN.  When nothing is under way, nobody else interfered and no request
\* failed, the list of groups is the hub's, the settings show the hub's record and the page, the
\* session and the profile agree, whatever was typed, saved and reloaded before.
THEOREM SettingsCorrect == WebSpec => []SavedIsShown
  <1>1. WebInit => SettingsInv
    BY SettingsInitially DEF WebInit
  <1>2. SettingsInv /\ [WebNext]_webVars => SettingsInv'
    <2>1. [WebNext]_webVars => [SettingsNext]_settingsVars
      BY DEF WebNext, webVars
    <2> QED
      BY <2>1, SettingsStep
  <1>3. SettingsInv => SavedIsShown
    BY SettingsFollow
  <1> QED
    BY <1>1, <1>2, <1>3, PTL DEF WebSpec

-----------------------------------------------------------------------------
(* The call seen from the tab (VideoClient).                               *)

\* What a kind that answers to the user carries: nothing, or one track, the one of localStream,
\* which is enabled exactly while the kind is on or about to be; the hook's flag is the client's.
Carries(d) ==
    /\ d.shown = d.on
    /\ d.pend = "resume" => ~d.on /\ d.stream # <<>>
    /\ d.pend = "toggle" => d.stream = <<>>
    /\ \/ d.stream = <<>> /\ d.live = {} /\ d.enabled = {} /\ ~d.on
       \/ \E t \in Track :
            /\ d.stream = <<t>> /\ d.live = {t}
            /\ d.enabled = IF d.on \/ d.pend = "resume" THEN {t} ELSE {}

\* The capture of a call whose user never pressed a button while a prompt was open: nothing before
\* the join is answered, what the flags say while in the call, nothing after it.  While the join's
\* prompt is open nobody else captures, so a call left then has nothing to stop.
CaptureInv ==
    /\ call = "asking" => joinPrompt
    /\ ~rushed =>
         /\ screen # "stray" /\ (~InCall => screen = "none")
         /\ joinPrompt => call \in {"asking", "left"}
         /\ call \in {"off", "asking"} => \A k \in Kind : dev[k] = NoDevice
         /\ call \in {"offered", "joined"} => \A k \in Kind : Carries(dev[k])
         /\ call = "left" => \A k \in Kind : dev[k].live = {} /\ dev[k].pend = "none"

\* The messages on their way: none outside a call, and whatever the server replayed to us comes
\* before its answer, so that the cue is not armed while any of it is unhandled.
WireInv ==
    /\ ~InCall => wire = <<>>
    /\ call = "off" => ~armed /\ tiles = <<>> /\ ~cameraOn
    /\ \A i \in 1..Len(wire) : wire[i].kind = "answer" =>
         /\ call \in {"offered", "joined"}
         /\ \A j \in 1..Len(wire) : wire[j].replay => j < i
    /\ RosterIsSilent

\* Whether the other has a tile once the message m is handled.
InAfter(m, in) == IF m.kind = "joined" THEN TRUE ELSE IF m.kind = "left" THEN FALSE ELSE in
\* Whether the other is taken to have its camera on once the message m is handled.
OnAfter(m, on) ==
    IF m.kind = "camera on" THEN TRUE
    ELSE IF m.kind \in {"camera off", "left"} THEN FALSE ELSE on

\* What the tab goes through as it handles the messages of F: nobody joins who is in, and nobody
\* who joins has a camera on.
Path(F, in, on) ==
    \A i \in 1..Len(F) :
      /\ in[i+1] = InAfter(F[i], in[i]) /\ on[i+1] = OnAfter(F[i], on[i])
      /\ F[i].kind = "joined" => ~in[i] /\ ~on[i]

\* Handling F takes a tab that shows in0, on0 to one that shows in1, on1.
Leads(F, in0, on0, in1, on1) ==
    \E in, on \in [1..(Len(F)+1) -> BOOLEAN] :
      /\ in[1] = in0 /\ on[1] = on0 /\ in[Len(F)+1] = in1 /\ on[Len(F)+1] = on1
      /\ Path(F, in, on)

\* Handling what is on its way takes the tab from what it shows to what the server knows, so long
\* as no second window has taken the other's slot; and there is one tile at most, which shows the
\* track that came last while the camera is on.
ViewInv ==
    /\ ~present => ~camera
    /\ InCall /\ ~replaced =>
         /\ Leads(wire, tiles # <<>>, cameraOn, present, camera)
         /\ Len(tiles) <= 1
         /\ \A i \in 1..Len(tiles) : tiles[i] = IF cameraOn THEN videoTrack ELSE 0

\* A wait that goes on has a track to go on with.
Sound == {d \in Device : d.pend = "resume" => d.held \in Track}

\* The types of the local side.
DevTypes ==
    /\ call \in {"off", "asking", "offered", "joined", "left"}
    /\ joinPrompt \in BOOLEAN /\ rushed \in BOOLEAN
    /\ dev \in [Kind -> Sound]
    /\ screen \in {"none", "picking", "sharing", "stray"}

\* The types of the other side, of the messages and of the view.
PeerTypes ==
    /\ stay \in 0..MaxStay /\ toOffer \in 0..MaxStay
    /\ present \in BOOLEAN /\ camera \in BOOLEAN /\ replaced \in BOOLEAN
    /\ wire \in Seq(Message) /\ Len(wire) <= MaxWire
    /\ armed \in BOOLEAN /\ tiles \in Seq(0..MaxStay)
    /\ cameraOn \in BOOLEAN /\ videoTrack \in 0..MaxStay

\* What the steps make of a device is a device.
LEMMA CaptureMoves ==
    ASSUME NEW k \in Kind, NEW d \in Device
    PROVE  /\ Joining(k, d) \in Device /\ Stop(d) \in Device /\ Disabled(k, d) \in Device
           /\ d.stream # <<>> => Enabled(k, d) \in Device
           /\ ToggleCaptured(d) \in Device /\ DeviceCaptured(k, d) \in Device
  <1> DEFINE Senders == Track \cup {"no sender", "no track"}
  <1>0. /\ {"join", "toggle", "device"} \subseteq Track
        /\ d.live \in SUBSET Track /\ d.enabled \in SUBSET Track /\ d.stream \in Seq(Track)
        /\ d.sender \in Senders /\ d.stale \in SUBSET Track
        /\ d.on \in BOOLEAN /\ d.shown \in BOOLEAN
        /\ d.pend \in {"none", "toggle", "device", "resume"} /\ d.held \in Track \cup {None}
    BY DEF Device, Track
  <1>1. /\ \A S \in SUBSET Track : \A T : S \ T \in SUBSET Track
        /\ \A S \in SUBSET Track : \A t \in Track : S \cup {t} \in SUBSET Track
        /\ \A S \in SUBSET Track : \A t : S \cup ({t} \cap Track) \in SUBSET Track
        /\ {} \in SUBSET Track
    OBVIOUS
  <1>3. Senders = Track \cup {"no sender", "no track"}
    OBVIOUS
  <1> HIDE DEF Track, Senders
  <1>2. /\ d.stream # <<>> => Head(d.stream) \in Track
        /\ \A t \in Track : Append(d.stream, t) \in Seq(Track)
        /\ \A t \in Track : <<t>> \in Seq(Track)
        /\ <<>> \in Seq(Track)
    <2>1. d.stream # <<>> => Head(d.stream) \in Track
      BY <1>0
    <2>2. ASSUME NEW t \in Track PROVE Append(d.stream, t) \in Seq(Track) /\ <<t>> \in Seq(Track)
      BY <1>0
    <2>3. <<>> \in Seq(Track)
      OBVIOUS
    <2> QED
      BY <2>1, <2>2, <2>3
  <1>4. Disabled(k, d) \in Device
    BY <1>0, <1>1, <1>2, <1>3 DEF Device, Disabled
  <1>5. d.stream # <<>> => Enabled(k, d) \in Device
    BY <1>0, <1>1, <1>2, <1>3 DEF Device, Enabled
  <1>6. ToggleCaptured(d) \in Device
    BY <1>0, <1>1, <1>2, <1>3 DEF Device, ToggleCaptured
  <1>7. DeviceCaptured(k, d) \in Device
    BY <1>0, <1>1, <1>2, <1>3 DEF Device, DeviceCaptured
  <1>8. Stop(d) \in Device
    BY <1>0, <1>1, <1>2, <1>3 DEF Device, Stop
  <1>9. Joining(k, d) \in Device
    BY <1>0, <1>1, <1>2, <1>3 DEF Device, Joining
  <1> QED
    BY <1>4, <1>5, <1>6, <1>7, <1>8, <1>9

\* What the steps make of a device that has a track to go on with is one.
LEMMA SoundMoves ==
    ASSUME NEW k \in Kind, NEW d \in Sound
    PROVE  /\ Joining(k, d) \in Sound /\ Stop(d) \in Sound /\ Disabled(k, d) \in Sound
           /\ d.stream # <<>> => Enabled(k, d) \in Sound
           /\ ToggleCaptured(d) \in Sound /\ DeviceCaptured(k, d) \in Sound
  <1>1. d \in Device
    BY DEF Sound
  <1>2. /\ Joining(k, d).pend = d.pend /\ Joining(k, d).held = d.held
        /\ Stop(d).pend = d.pend /\ Stop(d).held = d.held
        /\ Disabled(k, d).pend = d.pend /\ Disabled(k, d).held = d.held
        /\ ToggleCaptured(d).pend = "none" /\ DeviceCaptured(k, d).pend = "none"
    BY <1>1 DEF Joining, Stop, Disabled, ToggleCaptured, DeviceCaptured, Device
  <1>3. d.stream # <<>> => \/ Enabled(k, d).held = Head(d.stream)
                           \/ Enabled(k, d).held = d.held /\ Enabled(k, d).pend = d.pend
    BY <1>1 DEF Enabled, Device
  <1>4. d.stream # <<>> => Head(d.stream) \in Track
    <2>1. d.stream \in Seq(Track)
      BY <1>1 DEF Device
    <2> QED
      BY <2>1
  <1> QED
    BY <1>1, <1>2, <1>3, <1>4, CaptureMoves DEF Sound

\* What the moves leave of what is captured.
LEMMA CarriesMoves ==
    ASSUME NEW k \in Kind, NEW d \in Device, Carries(d)
    PROVE  /\ d.on => Carries(Disabled(k, d))
           /\ d.pend = "none" /\ ~d.on /\ d.stream # <<>> => Carries(Enabled(k, d))
           /\ d.pend = "toggle" /\ InCall => Carries(ToggleCaptured(d))
           /\ d.pend = "device" => Carries(DeviceCaptured(k, d))
           /\ Stop(d).live = {}
  <1> DEFINE old == {d.stream[i] : i \in DOMAIN d.stream}
  <1>0. /\ d.shown = d.on /\ d.on \in BOOLEAN /\ {"toggle", "device"} \subseteq Track
        /\ d.pend = "resume" => ~d.on /\ d.stream # <<>>
        /\ d.pend = "toggle" => d.stream = <<>>
    BY DEF Carries, Device, Track
  <1>2. PICK t \in Track :
          \/ d.stream = <<>> /\ d.live = {} /\ d.enabled = {} /\ ~d.on
          \/ /\ d.stream = <<t>> /\ d.live = {t} /\ d.stream # <<>> /\ Head(d.stream) = t
             /\ d.enabled = IF d.on \/ d.pend = "resume" THEN {t} ELSE {}
    BY DEF Carries, Track
  <1>3. /\ d.stream = <<>> => old = {}
        /\ d.stream = <<t>> => old = {t}
    OBVIOUS
  <1>4. d.on => Carries(Disabled(k, d))
    <2> DEFINE e == Disabled(k, d)
    <2>1. /\ e.live = d.live /\ e.stream = d.stream /\ ~e.on /\ e.shown = FALSE /\ e.on = FALSE
          /\ e.pend = d.pend
      BY DEF Disabled, Device
    <2>2. d.on => e.enabled = d.enabled \ {Head(d.stream)}
      BY <1>2 DEF Disabled, Device
    <2> HIDE DEF e
    <2>3. d.on => Carries(e)
      BY <1>0, <1>2, <2>1, <2>2 DEF Carries
    <2> QED
      BY <2>3 DEF e
  <1>5. d.pend = "none" /\ ~d.on /\ d.stream # <<>> => Carries(Enabled(k, d))
    <2> SUFFICES ASSUME d.pend = "none", ~d.on, d.stream # <<>> PROVE Carries(Enabled(k, d))
      OBVIOUS
    <2> DEFINE e == Enabled(k, d)
    <2>1. /\ e.live = d.live /\ e.stream = d.stream
          /\ e.enabled = d.enabled \cup {Head(d.stream)}
          /\ \/ e.on = TRUE /\ e.shown = TRUE /\ e.pend = d.pend
             \/ e.on = d.on /\ e.shown = d.shown /\ e.pend = "resume"
      BY DEF Enabled, Device
    <2> HIDE DEF e
    <2>2. Carries(e)
      BY <1>0, <1>2, <2>1 DEF Carries
    <2> QED
      BY <2>2 DEF e
  <1>6. d.pend = "toggle" /\ InCall => Carries(ToggleCaptured(d))
    <2> SUFFICES ASSUME d.pend = "toggle", InCall PROVE Carries(ToggleCaptured(d))
      OBVIOUS
    <2> DEFINE e == ToggleCaptured(d)
    <2>1. /\ e.live = d.live \cup {"toggle"} /\ e.enabled = d.enabled \cup {"toggle"}
          /\ e.on = TRUE /\ e.shown = TRUE /\ e.pend = "none"
          /\ e.stream = Append(d.stream, "toggle")
      BY DEF ToggleCaptured, Device
    <2> HIDE DEF e
    <2>2. d.stream = <<>> /\ d.live = {} /\ d.enabled = {}
      BY <1>0, <1>2
    <2>3. e.stream = <<"toggle">> /\ e.live = {"toggle"} /\ e.enabled = {"toggle"}
      BY <2>1, <2>2
    <2>4. Carries(e)
      BY <1>0, <2>1, <2>3 DEF Carries
    <2> QED
      BY <2>4 DEF e
  <1>7. d.pend = "device" => Carries(DeviceCaptured(k, d))
    <2> SUFFICES ASSUME d.pend = "device" PROVE Carries(DeviceCaptured(k, d))
      OBVIOUS
    <2> DEFINE e == DeviceCaptured(k, d)
    <2>1. /\ e.live = (d.live \ old) \cup {"device"}
          /\ e.stream = <<"device">> /\ e.on = d.on /\ e.shown = d.shown /\ e.pend = "none"
          /\ e.enabled = IF d.on THEN (d.enabled \ old) \cup {"device"}
                         ELSE d.enabled \ (old \cup {"device"})
      BY DEF DeviceCaptured, Device
    <2> HIDE DEF e, old
    <2>2. e.live = {"device"}
      BY <1>2, <1>3, <2>1
    <2>3. e.enabled = IF d.on THEN {"device"} ELSE {}
      BY <1>2, <1>3, <2>1
    <2>4. e.stream # <<>>
      BY <2>1
    <2>5. Carries(e)
      BY <1>0, <2>1, <2>2, <2>3, <2>4 DEF Carries
    <2> QED
      BY <2>5 DEF e
  <1>8. Stop(d).live = {}
    <2>1. Stop(d).live = d.live \ old
      BY DEF Stop, Device
    <2> HIDE DEF old
    <2> QED
      BY <1>2, <1>3, <2>1
  <1> QED
    BY <1>4, <1>5, <1>6, <1>7, <1>8

\* Nothing is captured before the join, which captures one muted track of each kind.
LEMMA NoDeviceMoves ==
    ASSUME NEW k \in Kind
    PROVE  /\ NoDevice \in Device /\ ~NoDevice.on /\ NoDevice.pend = "none"
           /\ NoDevice.stream = <<>> /\ ~NoDevice.shown
           /\ Stop(NoDevice).live = {}
           /\ Carries(NoDevice) /\ Carries(Joining(k, NoDevice))
  BY DEF NoDevice, Device, Stop, Joining, Carries, Track

\* disconnect() answers no prompt.
LEMMA StopKeeps ==
    ASSUME NEW d \in Device
    PROVE  Stop(d).pend = d.pend
  BY DEF Stop, Device

\* The steps of the other participant and of the server.
PeerSteps ==
    \/ PeerComes \/ PeerPublishes \/ PeerTogglesCamera \/ PeerLeaves
    \/ SfuForgets \/ SfuAnswers \/ SfuOffers

\* What the other and the server do changes nothing in the tab but the messages it is sent.
LEMMA PeerStepsApart ==
    ASSUME PeerSteps
    PROVE  UNCHANGED <<localVars, viewVars>>
  BY DEF PeerSteps, PeerComes, PeerPublishes, PeerTogglesCamera, PeerLeaves, SfuForgets,
         SfuAnswers, SfuOffers

\* An answer is shown: each flag is what the client has.
AsAnswered(d) == [d EXCEPT !.shown = d.on]

\* What the answer makes of a device.
LEMMA AnsweredMoves ==
    ASSUME NEW d \in Sound
    PROVE  AsAnswered(d) \in Sound /\ (Carries(d) => Carries(AsAnswered(d)))
  <1> DEFINE e == AsAnswered(d)
  <1>1. /\ e \in Device /\ e.shown = d.on /\ e.on = d.on /\ e.pend = d.pend /\ e.live = d.live
        /\ e.stream = d.stream /\ e.enabled = d.enabled /\ e.held = d.held
    BY DEF AsAnswered, Device, Sound
  <1> HIDE DEF e
  <1>2. Carries(d) => Carries(e)
    BY <1>1 DEF Carries
  <1>3. e \in Sound
    BY <1>1 DEF Sound
  <1> QED
    BY <1>2, <1>3 DEF e

\* What a prompt that opens, is denied or is over makes of a device.
LEMMA PromptMoves ==
    ASSUME NEW d \in Sound
    PROVE  /\ d.pend = "resume" => Resume(d) \in Sound
           /\ \A p \in {"none", "toggle", "device"} : [d EXCEPT !.pend = p] \in Sound
           /\ Carries(d) =>
                /\ d.pend = "resume" => Carries(Resume(d))
                /\ d.pend = "none" => Carries([d EXCEPT !.pend = "device"])
                /\ d.pend = "none" /\ d.stream = <<>> => Carries([d EXCEPT !.pend = "toggle"])
                /\ d.pend \in {"toggle", "device"} => Carries([d EXCEPT !.pend = "none"])
  <1>1. d \in Device
    BY DEF Sound
  <1>2. d.pend = "resume" =>
          /\ Resume(d) \in Sound
          /\ Carries(d) => Carries(Resume(d))
    <2> SUFFICES ASSUME d.pend = "resume"
                 PROVE  Resume(d) \in Sound /\ (Carries(d) => Carries(Resume(d)))
      OBVIOUS
    <2> DEFINE e == Resume(d)
    <2>1. /\ e.live = d.live /\ e.stream = d.stream /\ e.enabled = d.enabled
          /\ e.on = TRUE /\ e.shown = TRUE /\ e.pend = "none"
      BY <1>1 DEF Resume, Device
    <2>2. e \in Device
      BY <1>1 DEF Resume, Device, Sound
    <2> HIDE DEF e
    <2>3. Carries(d) => Carries(e)
      BY <2>1 DEF Carries
    <2>4. e \in Sound
      BY <2>1, <2>2 DEF Sound
    <2> QED
      BY <2>3, <2>4 DEF e
  <1>3. ASSUME NEW p \in {"none", "toggle", "device"}
        PROVE  /\ [d EXCEPT !.pend = p] \in Sound
               /\ Carries(d) /\ d.pend # "resume" /\ (p = "toggle" => d.stream = <<>>)
                    => Carries([d EXCEPT !.pend = p])
    <2> DEFINE e == [d EXCEPT !.pend = p]
    <2>1. /\ e.live = d.live /\ e.stream = d.stream /\ e.enabled = d.enabled
          /\ e.on = d.on /\ e.shown = d.shown /\ e.pend = p /\ e \in Device
      BY <1>1 DEF Device
    <2> HIDE DEF e
    <2>2. Carries(d) /\ d.pend # "resume" /\ (p = "toggle" => d.stream = <<>>) => Carries(e)
      BY <2>1 DEF Carries
    <2>3. e \in Sound
      BY <2>1 DEF Sound
    <2> QED
      BY <2>2, <2>3 DEF e
  <1> QED
    BY <1>2, <1>3

\* The types of the local side are kept.
LEMMA DevTypesStep ==
    ASSUME DevTypes, ClientNext
    PROVE  DevTypes'
  <1> USE DEF DevTypes
  <1>1. ASSUME NEW k \in Kind PROVE dev[k] \in Sound
    OBVIOUS
  <1>2. /\ \A k \in Kind : dev' = [dev EXCEPT ![k] = dev'[k]] /\ dev'[k] \in Sound
                             => dev' \in [Kind -> Sound]
        /\ \A f : dev' = [k \in Kind |-> f[k]] /\ (\A k \in Kind : f[k] \in Sound)
                             => dev' \in [Kind -> Sound]
    OBVIOUS
  <1>3. CASE PeerSteps
    BY <1>3, PeerStepsApart DEF localVars
  <1>4. CASE Connect \/ JoinDenied \/ StartShare \/ Picked \/ StopShare
    BY <1>4 DEF Connect, JoinDenied, StartShare, Picked, StopShare, Ask
  <1>5. CASE JoinGranted
    BY <1>1, <1>5, SoundMoves DEF JoinGranted, JoinCaptured
  <1>6. CASE Leave
    BY <1>1, <1>6, SoundMoves DEF Leave, Kind
  <1>7. ASSUME NEW k \in Kind, Toggle(k) PROVE DevTypes'
    <2>1. \E d \in Sound : dev' = [dev EXCEPT ![k] = d]
      BY <1>1, <1>7, SoundMoves, PromptMoves DEF Toggle
    <2> QED
      BY <1>7, <2>1 DEF Toggle, Ask
  <1>8. ASSUME NEW k \in Kind, Resumed(k) PROVE DevTypes'
    <2>1. dev[k] \in Sound /\ dev[k].pend = "resume"
      BY <1>8 DEF Resumed
    <2>2. dev' = [dev EXCEPT ![k] = Resume(dev[k])]
      BY <1>8 DEF Resumed
    <2> QED
      BY <1>8, <2>1, <2>2, PromptMoves DEF Resumed
  <1>9. ASSUME NEW k \in Kind, ChooseDevice(k) \/ Denied(k) PROVE DevTypes'
    <2>1. \E d \in Sound : dev' = [dev EXCEPT ![k] = d]
      BY <1>1, <1>9, PromptMoves DEF ChooseDevice, Denied
    <2> QED
      BY <1>9, <2>1 DEF ChooseDevice, Denied, Ask
  <1>10. ASSUME NEW k \in Kind, Granted(k) PROVE DevTypes'
    <2>1. \E d \in Sound : dev' = [dev EXCEPT ![k] = d]
      BY <1>1, <1>10, SoundMoves DEF Granted
    <2> QED
      BY <1>10, <2>1 DEF Granted
  <1>11. CASE ToggleDeafen
    <2>1. dev' = dev \/ \E d \in Sound : dev' = [dev EXCEPT !["mic"] = d]
      BY <1>1, <1>11, SoundMoves DEF ToggleDeafen, Kind
    <2> QED
      BY <1>11, <2>1 DEF ToggleDeafen
  <1>12. CASE Handle
    <2>1. dev' = dev \/ dev' = [k \in Kind |-> AsAnswered(dev[k])]
      BY <1>12 DEF Handle, AsAnswered
    <2>2. dev' \in [Kind -> Sound]
      BY <1>1, <2>1, AnsweredMoves
    <2> QED
      BY <1>12, <2>2 DEF Handle
  <1> QED
    BY <1>3, <1>4, <1>5, <1>6, <1>7, <1>8, <1>9, <1>10, <1>11, <1>12 DEF ClientNext, PeerSteps

\* What is captured stays what the flags say.
LEMMA CaptureStep ==
    ASSUME DevTypes, CaptureInv, WireInv, ClientNext
    PROVE  CaptureInv'
  <1> USE DEF DevTypes, InCall
  <1>0. /\ \A k \in Kind : dev[k] \in Sound
        /\ call \in {"off", "asking"} \/ call \in {"offered", "joined"} \/ call = "left"
        /\ "mic" \in Kind
    BY DEF Kind
  <1>1. ~rushed' => ~rushed
    BY DEF ClientNext, Connect, JoinGranted, JoinDenied, Leave, Toggle, Resumed, ChooseDevice,
           Granted, Denied, StartShare, Picked, StopShare, ToggleDeafen, Ask, PeerComes,
           PeerPublishes, PeerTogglesCamera, PeerLeaves, SfuForgets, SfuAnswers, SfuOffers, Handle,
           localVars
  <1> DEFINE Candid ==
         /\ screen # "stray" /\ (~InCall => screen = "none")
         /\ joinPrompt => call \in {"asking", "left"}
         /\ call \in {"off", "asking"} => \A k \in Kind : dev[k] = NoDevice
         /\ call \in {"offered", "joined"} => \A k \in Kind : Carries(dev[k])
         /\ call = "left" => \A k \in Kind : dev[k].live = {} /\ dev[k].pend = "none"
  <1>2. /\ CaptureInv <=> (call = "asking" => joinPrompt) /\ (~rushed => Candid)
        /\ CaptureInv' <=> (call' = "asking" => joinPrompt') /\ (~rushed' => Candid')
    BY DEF CaptureInv
  <1>3. call' = "asking" => joinPrompt'
    BY <1>2 DEF ClientNext, Connect, JoinGranted, JoinDenied, JoinCaptured, Leave, Toggle, Resumed,
           ChooseDevice, Granted, Denied, StartShare, Picked, StopShare, ToggleDeafen, PeerComes,
           PeerPublishes, PeerTogglesCamera, PeerLeaves, SfuForgets, SfuAnswers, SfuOffers, Handle,
           localVars
  <1> SUFFICES ASSUME ~rushed', ~rushed, Candid PROVE Candid'
    BY <1>1, <1>2, <1>3
  <1>4. CASE PeerSteps
    BY <1>4, PeerStepsApart DEF localVars
  <1>5. CASE Connect
    BY <1>5 DEF Connect
  <1>6. CASE JoinGranted
    <2>1. CASE call = "asking"
      BY <1>0, <1>6, <2>1, NoDeviceMoves DEF JoinGranted, JoinCaptured
    <2>2. CASE call = "left"
      BY <1>6, <2>2 DEF JoinGranted, JoinCaptured
    <2> QED
      BY <1>6, <2>1, <2>2 DEF JoinGranted
  <1>7. CASE JoinDenied
    BY <1>7, NoDeviceMoves DEF JoinDenied
  <1>8. CASE Leave
    <2>1. /\ call' = "left" /\ dev' = [k \in Kind |-> Stop(dev[k])] /\ ~Waiting
          /\ screen # "picking" /\ screen' = IF screen = "sharing" THEN "none" ELSE screen
      BY <1>8 DEF Leave
    <2>2. ASSUME NEW k \in Kind PROVE Stop(dev[k]).live = {} /\ Stop(dev[k]).pend = "none"
      BY <1>0, <1>8, <2>1, CarriesMoves, NoDeviceMoves, StopKeeps DEF Leave, Waiting, Sound
    <2> QED
      BY <2>1, <2>2
  <1>9. ASSUME NEW k \in Kind, Toggle(k) PROVE Candid'
    <2>1. UNCHANGED <<call, joinPrompt, screen>> /\ dev[k].pend = "none" /\ InCall
      BY <1>9 DEF Toggle
    <2>2. call \in {"offered", "joined"}
      <3>1. CASE dev[k].on
        BY <2>1, <3>1, NoDeviceMoves
      <3>2. CASE ~dev[k].on
        BY <1>2, <1>9, <2>1, <3>2 DEF Toggle, Ask, Prompted
      <3> QED
        BY <3>1, <3>2
    <2>3. \E d : dev' = [dev EXCEPT ![k] = d] /\ Carries(d)
      BY <1>0, <1>9, <2>1, <2>2, CarriesMoves, PromptMoves DEF Toggle, Sound
    <2> QED
      BY <2>1, <2>2, <2>3
  <1>10. ASSUME NEW k \in Kind, Resumed(k) \/ Granted(k) \/ Denied(k) PROVE Candid'
    <2>1. UNCHANGED <<call, joinPrompt, screen>> /\ dev[k].pend # "none"
      BY <1>10 DEF Resumed, Granted, Denied
    <2>2. call \in {"offered", "joined"}
      BY <1>0, <2>1, NoDeviceMoves
    <2>3. \E d : dev' = [dev EXCEPT ![k] = d] /\ Carries(d)
      BY <1>0, <1>10, <2>2, CarriesMoves, PromptMoves DEF Resumed, Granted, Denied, Sound
    <2> QED
      BY <2>1, <2>2, <2>3
  <1>11. ASSUME NEW k \in Kind, ChooseDevice(k) PROVE Candid'
    <2>1. \E d : dev' = [dev EXCEPT ![k] = d] /\ Carries(d)
      BY <1>0, <1>11, PromptMoves DEF ChooseDevice
    <2> QED
      BY <1>11, <2>1 DEF ChooseDevice
  <1>12. CASE StartShare
    BY <1>12 DEF StartShare
  <1>13. CASE Picked \/ StopShare
    <2>1. UNCHANGED <<call, joinPrompt, dev>>
      BY <1>13 DEF Picked, StopShare
    <2>2. \/ screen' \in {"none", screen}
          \/ (screen = "picking" /\ screen' = IF InCall THEN "sharing" ELSE "stray")
      BY <1>13 DEF Picked, StopShare
    <2> QED
      BY <2>1, <2>2
  <1>14. CASE ToggleDeafen
    <2>1. \/ dev' = dev
          \/ (dev["mic"].on /\ dev' = [dev EXCEPT !["mic"] = Disabled("mic", dev["mic"])])
      BY <1>14 DEF ToggleDeafen
    <2>2. UNCHANGED <<call, joinPrompt, screen>> /\ InCall
      BY <1>14 DEF ToggleDeafen
    <2>3. CASE dev' = dev
      BY <2>2, <2>3
    <2>4. CASE dev["mic"].on /\ dev' = [dev EXCEPT !["mic"] = Disabled("mic", dev["mic"])]
      BY <1>0, <2>2, <2>4, CarriesMoves, NoDeviceMoves DEF Sound
    <2> QED
      BY <2>1, <2>3, <2>4
  <1>15. CASE Handle
    <2>1. /\ UNCHANGED <<joinPrompt, screen>>
          /\ \/ UNCHANGED <<call, dev>>
             \/ /\ wire # <<>> /\ Head(wire).kind = "answer" /\ call' = "joined"
                /\ dev' = [k \in Kind |-> AsAnswered(dev[k])]
      BY <1>15 DEF Handle, AsAnswered
    <2>2. CASE UNCHANGED <<call, dev>>
      BY <2>1, <2>2
    <2>3. CASE /\ wire # <<>> /\ Head(wire).kind = "answer" /\ call' = "joined"
               /\ dev' = [k \in Kind |-> AsAnswered(dev[k])]
      <3>1. call \in {"offered", "joined"}
        BY <2>3 DEF WireInv
      <3>2. \A k \in Kind : Carries(AsAnswered(dev[k]))
        BY <1>0, <3>1, AnsweredMoves
      <3> QED
        BY <2>1, <2>3, <3>1, <3>2
    <2> QED
      BY <2>1, <2>2, <2>3
  <1> QED
    BY <1>4, <1>5, <1>6, <1>7, <1>8, <1>9, <1>10, <1>11, <1>12, <1>13, <1>14, <1>15
    DEF ClientNext, PeerSteps

\* A message leaves the tab with a tile or without, with a camera or without.
LEMMA AfterTypes ==
    ASSUME NEW m, NEW b \in BOOLEAN
    PROVE  InAfter(m, b) \in BOOLEAN /\ OnAfter(m, b) \in BOOLEAN
  BY DEF InAfter, OnAfter

\* With nothing to handle the tab shows what it shows.
LEMMA LeadsNowhere ==
    ASSUME NEW a \in BOOLEAN, NEW b \in BOOLEAN, NEW c \in BOOLEAN, NEW d \in BOOLEAN
    PROVE  Leads(<<>>, a, b, c, d) <=> a = c /\ b = d
  <1>1. Len(<<>>) = 0
    OBVIOUS
  <1>2. Leads(<<>>, a, b, c, d) => a = c /\ b = d
    BY <1>1 DEF Leads
  <1>3. ASSUME a = c, b = d PROVE Leads(<<>>, a, b, c, d)
    <2> DEFINE in == [i \in 1..1 |-> a]
               on == [i \in 1..1 |-> b]
    <2>1. in \in [1..1 -> BOOLEAN] /\ on \in [1..1 -> BOOLEAN] /\ in[1] = a /\ on[1] = b
      OBVIOUS
    <2>2. \A i \in 1..0 : FALSE
      OBVIOUS
    <2> HIDE DEF in, on
    <2>3. Path(<<>>, in, on)
      BY <1>1, <2>2 DEF Path
    <2> QED
      BY <1>1, <1>3, <2>1, <2>3 DEF Leads
  <1> QED
    BY <1>2, <1>3

\* One more message leads one step further.
LEMMA LeadsFurther ==
    ASSUME NEW F \in Seq(Message), NEW m \in Message, NEW a, NEW b,
           NEW c \in BOOLEAN, NEW d \in BOOLEAN,
           Leads(F, a, b, c, d), m.kind = "joined" => ~c /\ ~d
    PROVE  Leads(Append(F, m), a, b, InAfter(m, c), OnAfter(m, d))
  <1>1. PICK in \in [1..(Len(F)+1) -> BOOLEAN], on \in [1..(Len(F)+1) -> BOOLEAN] :
          /\ in[1] = a /\ on[1] = b /\ in[Len(F)+1] = c /\ on[Len(F)+1] = d
          /\ Path(F, in, on)
    BY DEF Leads
  <1> DEFINE n == Len(F)
             G == Append(F, m)
             in2 == [i \in 1..(n+2) |-> IF i = n+2 THEN InAfter(m, c) ELSE in[i]]
             on2 == [i \in 1..(n+2) |-> IF i = n+2 THEN OnAfter(m, d) ELSE on[i]]
  <1>2. /\ n \in Nat /\ Len(G) = n + 1 /\ G[n+1] = m
        /\ \A i \in 1..n : G[i] = F[i]
    BY AppendProperties
  <1>3. /\ in2 \in [1..(n+2) -> BOOLEAN] /\ on2 \in [1..(n+2) -> BOOLEAN]
        /\ in2[n+2] = InAfter(m, c) /\ on2[n+2] = OnAfter(m, d)
        /\ \A i \in 1..(n+1) : in2[i] = in[i] /\ on2[i] = on[i]
    BY <1>2, AfterTypes
  <1> HIDE DEF G, in2, on2
  <1>4. Path(G, in2, on2)
    <2> SUFFICES ASSUME NEW i \in 1..(n+1)
                 PROVE  /\ in2[i+1] = InAfter(G[i], in2[i]) /\ on2[i+1] = OnAfter(G[i], on2[i])
                        /\ G[i].kind = "joined" => ~in2[i] /\ ~on2[i]
      BY <1>2 DEF Path
    <2>1. CASE i = n + 1
      BY <1>1, <1>2, <1>3, <2>1
    <2>2. CASE i \in 1..n
      <3>1. i \in 1..(n+1) /\ i+1 \in 1..(n+1)
        BY <1>2, <2>2
      <3>2. /\ in[i+1] = InAfter(F[i], in[i]) /\ on[i+1] = OnAfter(F[i], on[i])
            /\ F[i].kind = "joined" => ~in[i] /\ ~on[i]
        BY <1>1, <2>2 DEF Path
      <3> QED
        BY <1>2, <1>3, <2>2, <3>1, <3>2
    <2> QED
      BY <1>2, <2>1, <2>2
  <1>5. in2[1] = a /\ on2[1] = b /\ Len(G) + 1 = n + 2
    BY <1>1, <1>2, <1>3
  <1>6. Leads(G, a, b, InAfter(m, c), OnAfter(m, d))
    BY <1>3, <1>4, <1>5 DEF Leads
  <1> QED
    BY <1>6 DEF G

\* Handling the first message leaves a tab that the others lead on from.
LEMMA LeadsOn ==
    ASSUME NEW F \in Seq(Message), F # <<>>, NEW a, NEW b, NEW c, NEW d, Leads(F, a, b, c, d)
    PROVE  /\ Leads(Tail(F), InAfter(Head(F), a), OnAfter(Head(F), b), c, d)
           /\ Head(F).kind = "joined" => ~a /\ ~b
  <1>1. PICK in \in [1..(Len(F)+1) -> BOOLEAN], on \in [1..(Len(F)+1) -> BOOLEAN] :
          /\ in[1] = a /\ on[1] = b /\ in[Len(F)+1] = c /\ on[Len(F)+1] = d
          /\ Path(F, in, on)
    BY DEF Leads
  <1> DEFINE T == Tail(F)
             in2 == [i \in 1..Len(F) |-> in[i+1]]
             on2 == [i \in 1..Len(F) |-> on[i+1]]
  <1>2. /\ Len(F) \in Nat \ {0} /\ Len(T) = Len(F) - 1 /\ Head(F) = F[1]
        /\ \A i \in 1..Len(T) : T[i] = F[i+1]
    OBVIOUS
  <1>3. /\ in2 \in [1..Len(F) -> BOOLEAN] /\ on2 \in [1..Len(F) -> BOOLEAN]
        /\ \A i \in 1..Len(F) : in2[i] = in[i+1] /\ on2[i] = on[i+1]
    BY <1>2
  <1> HIDE DEF T, in2, on2
  <1>4. Path(T, in2, on2)
    <2> SUFFICES ASSUME NEW i \in 1..Len(T)
                 PROVE  /\ in2[i+1] = InAfter(T[i], in2[i]) /\ on2[i+1] = OnAfter(T[i], on2[i])
                        /\ T[i].kind = "joined" => ~in2[i] /\ ~on2[i]
      BY DEF Path
    <2>1. i \in 1..Len(F) /\ i+1 \in 1..Len(F)
      BY <1>2
    <2>2. /\ in[i+1+1] = InAfter(F[i+1], in[i+1]) /\ on[i+1+1] = OnAfter(F[i+1], on[i+1])
          /\ F[i+1].kind = "joined" => ~in[i+1] /\ ~on[i+1]
      BY <1>1, <2>1 DEF Path
    <2> QED
      BY <1>2, <1>3, <2>1, <2>2
  <1>5. /\ in[1+1] = InAfter(F[1], in[1]) /\ on[1+1] = OnAfter(F[1], on[1])
        /\ F[1].kind = "joined" => ~in[1] /\ ~on[1]
    BY <1>1, <1>2 DEF Path
  <1>6. /\ in2[1] = InAfter(Head(F), a) /\ on2[1] = OnAfter(Head(F), b)
        /\ in2[Len(F)] = c /\ on2[Len(F)] = d /\ Len(T) + 1 = Len(F)
    BY <1>1, <1>2, <1>3, <1>5
  <1>7. Leads(T, InAfter(Head(F), a), OnAfter(Head(F), b), c, d)
    BY <1>3, <1>4, <1>6 DEF Leads
  <1> QED
    BY <1>1, <1>2, <1>5, <1>7 DEF T

\* One more message is the same as a sequence of one message more.
LEMMA OneMore ==
    ASSUME PeerTypes, NEW m \in Message
    PROVE  wire \o <<m>> = Append(wire, m)
  BY AppendIsConcat DEF PeerTypes

\* The types of the other side, of the messages and of the view are kept.
LEMMA PeerTypesStep ==
    ASSUME PeerTypes, ClientNext
    PROVE  PeerTypes'
  <1> USE BoundAssumption DEF PeerTypes
  <1>1. ASSUME NEW m \in Message, Len(wire) + 1 <= MaxWire
        PROVE  Append(wire, m) \in Seq(Message) /\ Len(Append(wire, m)) <= MaxWire
    BY <1>1, AppendProperties
  <1>2. \A kind \in {"joined", "left", "camera on", "camera off", "answer", "offer"},
           s \in 0..MaxStay, replay \in BOOLEAN : Message1(kind, s, replay) \in Message
    BY DEF Message, Message1
  <1>3. CASE UNCHANGED remoteVars
    BY <1>3 DEF remoteVars, peerVars, viewVars
  <1>4. CASE Connect
    <2> DEFINE m == Message1("joined", stay, TRUE)
               o == Message1("camera on", stay, TRUE)
    <2>1. m \in Message /\ o \in Message
      BY <1>2
    <2> HIDE DEF m, o
    <2>2. /\ Len(wire) + 2 <= MaxWire
          /\ wire' = wire \/ wire' = Append(wire, m) \o <<o>> \/ wire' = Append(wire, m) \o <<>>
          /\ UNCHANGED <<peerVars, viewVars>>
      BY <1>4 DEF Connect, Room, m, o
    <2>3. /\ Append(wire, m) \in Seq(Message) /\ Len(Append(wire, m)) = Len(wire) + 1
      BY <2>1, AppendProperties
    <2>4. /\ Append(wire, m) \o <<o>> \in Seq(Message)
          /\ Len(Append(wire, m) \o <<o>>) = Len(wire) + 2
      BY <2>1, <2>3
    <2>5. Append(wire, m) \o <<>> = Append(wire, m)
      BY <2>3, ConcatEmptySeq
    <2>6. wire' \in Seq(Message) /\ Len(wire') <= MaxWire
      <3>1. CASE wire' = wire
        BY <3>1
      <3>2. CASE wire' = Append(wire, m) \o <<o>>
        BY <2>2, <2>4, <3>2
      <3>3. CASE wire' = Append(wire, m) \o <<>>
        BY <2>2, <2>3, <2>5, <3>3
      <3> QED
        BY <2>2, <3>1, <3>2, <3>3
    <2> QED
      BY <2>2, <2>6 DEF peerVars, viewVars
  <1>5. CASE Leave
    <2>1. wire' = <<>> /\ tiles' = <<>>
      BY <1>5 DEF Leave
    <2>2. wire' \in Seq(Message) /\ tiles' \in Seq(0..MaxStay) /\ Len(wire') <= MaxWire
      BY <2>1
    <2>3. armed' = FALSE /\ cameraOn' = FALSE /\ videoTrack' = 0 /\ UNCHANGED peerVars
      BY <1>5 DEF Leave
    <2>4. armed' \in BOOLEAN /\ cameraOn' \in BOOLEAN
      BY <2>3
    <2>5. videoTrack' \in 0..MaxStay
      BY <2>3
    <2> QED
      BY <2>2, <2>3, <2>4, <2>5 DEF peerVars
  <1>6. CASE PeerComes
    <2>1. Message1("joined", stay+1, FALSE) \in Message /\ stay' \in 0..MaxStay
      <3>1. stay + 1 \in 0..MaxStay /\ stay' = stay + 1
        BY <1>6 DEF PeerComes
      <3> QED
        BY <1>2, <3>1
    <2>2. wire' = wire \/ wire' = Append(wire, Message1("joined", stay+1, FALSE))
      BY <1>6, <2>1, OneMore DEF PeerComes, Sends
    <2>3. wire' \in Seq(Message) /\ Len(wire') <= MaxWire
      BY <1>1, <1>6, <2>1, <2>2 DEF PeerComes, Room
    <2> QED
      BY <1>6, <2>1, <2>3 DEF PeerComes, viewVars
  <1>7. CASE PeerPublishes \/ SfuForgets
    BY <1>7 DEF PeerPublishes, SfuForgets, viewVars
  <1>8. CASE PeerTogglesCamera \/ PeerLeaves
    <2>1. \A kind \in {"camera off", "camera on", "left"} : Message1(kind, stay, FALSE) \in Message
      BY <1>2
    <2>2. PICK kind \in {"camera off", "camera on", "left"} :
             wire' = wire \/ wire' = Append(wire, Message1(kind, stay, FALSE))
      BY <1>8, <2>1, OneMore DEF PeerTogglesCamera, PeerLeaves, Sends
    <2>3. wire' \in Seq(Message) /\ Len(wire') <= MaxWire
      BY <1>1, <1>8, <2>1, <2>2 DEF PeerTogglesCamera, PeerLeaves, Room
    <2> QED
      BY <1>8, <2>3 DEF PeerTogglesCamera, PeerLeaves, viewVars
  <1>9. CASE SfuAnswers \/ SfuOffers
    <2>1. Message1("answer", 0, FALSE) \in Message /\ Message1("offer", toOffer, FALSE) \in Message
      <3>1. 0 \in 0..MaxStay /\ toOffer \in 0..MaxStay /\ FALSE \in BOOLEAN
        OBVIOUS
      <3> QED
        BY <1>2, <3>1
    <2>2. wire' \in Seq(Message) /\ Len(wire') <= MaxWire
      BY <1>1, <1>9, <2>1 DEF SfuAnswers, SfuOffers, Room
    <2>3. /\ toOffer' \in {0, toOffer}
          /\ UNCHANGED <<viewVars, stay, present, camera, replaced>>
      BY <1>9 DEF SfuAnswers, SfuOffers, peerVars
    <2>4. toOffer' \in 0..MaxStay
      BY <2>3
    <2> QED
      BY <2>2, <2>3, <2>4 DEF viewVars
  <1>10. CASE Handle
    <2> DEFINE m == Head(wire)
    <2>1. m \in Message /\ wire' \in Seq(Message) /\ Len(wire') <= MaxWire
      <3>1. wire # <<>> /\ wire' = Tail(wire)
        BY <1>10 DEF Handle
      <3> QED
        BY <3>1, HeadTailProperties
    <2>2. /\ UNCHANGED peerVars /\ armed' = Arms(m)
          /\ \/ tiles' = Append(tiles, 0) /\ UNCHANGED <<cameraOn, videoTrack>>
             \/ Departed \/ Signalled(TRUE) \/ Signalled(FALSE) \/ TrackAdded(m.stay)
             \/ UNCHANGED <<tiles, cameraOn, videoTrack>>
      BY <1>10 DEF Handle
    <2> HIDE DEF m
    <2>3. m.stay \in 0..MaxStay
      BY <2>1 DEF Message
    <2>4. ASSUME NEW t \in 0..MaxStay PROVE [i \in DOMAIN tiles |-> t] \in Seq(0..MaxStay)
      OBVIOUS
    <2>5. tiles' \in Seq(0..MaxStay) /\ cameraOn' \in BOOLEAN /\ videoTrack' \in 0..MaxStay
      <3>1. CASE tiles' = Append(tiles, 0) /\ UNCHANGED <<cameraOn, videoTrack>>
        BY <3>1
      <3>2. CASE Departed
        <4>1. tiles' = <<>> /\ cameraOn' = FALSE /\ videoTrack' = 0
          BY <3>2 DEF Departed
        <4>2. cameraOn' \in BOOLEAN
          BY <4>1
        <4>3. tiles' \in Seq(0..MaxStay) /\ videoTrack' \in 0..MaxStay
          BY <4>1
        <4> QED
          BY <4>2, <4>3
      <3>3. ASSUME NEW on \in BOOLEAN, Signalled(on) 
              PROVE  /\ tiles' \in Seq(0..MaxStay) /\ cameraOn' \in BOOLEAN
                     /\ videoTrack' \in 0..MaxStay
        <4>1. /\ cameraOn' = on /\ videoTrack' = videoTrack
              /\ tiles' = [i \in DOMAIN tiles |-> IF on THEN videoTrack ELSE 0]
          BY <3>3 DEF Signalled, ShowAll
        <4>2. cameraOn' \in BOOLEAN
          BY <3>3, <4>1
        <4>3. tiles' \in Seq(0..MaxStay)
          <5>1. (IF on THEN videoTrack ELSE 0) \in 0..MaxStay
            OBVIOUS
          <5> QED
            BY <2>4, <4>1, <5>1
        <4> QED
          BY <4>1, <4>2, <4>3
      <3>4. CASE TrackAdded(m.stay)
        <4>1. /\ cameraOn' = cameraOn /\ videoTrack' = m.stay
              /\ tiles' = [i \in DOMAIN tiles |-> IF cameraOn THEN m.stay ELSE 0]
          BY <3>4 DEF TrackAdded, ShowAll
        <4>2. tiles' \in Seq(0..MaxStay)
          <5>1. (IF cameraOn THEN m.stay ELSE 0) \in 0..MaxStay
            BY <2>3
          <5> QED
            BY <2>4, <4>1, <5>1
        <4> QED
          BY <2>3, <4>1, <4>2
      <3> QED
        BY <2>2, <3>1, <3>2, <3>3, <3>4
    <2> QED
      BY <2>1, <2>2, <2>5 DEF peerVars, Arms
  <1>11. \/ UNCHANGED remoteVars \/ Connect \/ Leave \/ Handle \/ PeerSteps
    BY DEF ClientNext, PeerSteps, JoinGranted, JoinDenied, Toggle, Resumed, ChooseDevice, Granted,
           Denied, StartShare, Picked, StopShare, ToggleDeafen
  <1> QED
    BY <1>3, <1>4, <1>5, <1>6, <1>7, <1>8, <1>9, <1>10, <1>11 DEF PeerSteps

\* The steps that leave both the other side and the view alone.
LEMMA ApartSteps ==
    ASSUME ClientNext
    PROVE  \/ UNCHANGED remoteVars /\ (InCall' <=> InCall)
              /\ (call' = call \/ (call = "asking" /\ call' = "offered"))
           \/ Connect \/ Leave \/ Handle \/ PeerSteps
  BY DEF ClientNext, PeerSteps, JoinGranted, JoinCaptured, JoinDenied, Toggle, Resumed,
         ChooseDevice, Granted, Denied, StartShare, Picked, StopShare, ToggleDeafen, InCall

\* What the server sends to a tab in the call.
LEMMA ServerSends ==
    ASSUME PeerTypes, WireInv, PeerSteps
    PROVE  /\ UNCHANGED <<call, viewVars>>
           /\ \/ wire' = wire
              \/ /\ InCall
                 /\ \E m \in Message : /\ wire' = Append(wire, m) /\ ~m.replay
                                       /\ m.kind = "answer" => call = "offered"
  <1> USE DEF PeerTypes
  <1>1. UNCHANGED <<call, viewVars>>
    BY PeerStepsApart DEF localVars
  <1>2. \A kind \in {"joined", "left", "camera on", "camera off", "answer", "offer"},
           s \in 0..MaxStay :
           LET m == Message1(kind, s, FALSE)
           IN  m \in Message /\ m.kind = kind /\ m.replay = FALSE
    BY DEF Message, Message1
  <1>3. CASE PeerPublishes \/ SfuForgets
    BY <1>1, <1>3 DEF PeerPublishes, SfuForgets
  <1>4. CASE PeerComes
    <2>1. stay + 1 \in 0..MaxStay
      BY <1>4, BoundAssumption DEF PeerComes
    <2>2. Message1("joined", stay+1, FALSE) \in Message
      BY <1>2, <2>1
    <2> QED
      BY <1>1, <1>2, <1>4, <2>1, <2>2, OneMore DEF PeerComes, Sends
  <1>5. CASE PeerTogglesCamera \/ PeerLeaves
    <2>1. \A kind \in {"camera off", "camera on", "left"} :
             /\ Message1(kind, stay, FALSE) \in Message
             /\ wire \o <<Message1(kind, stay, FALSE)>> = Append(wire, Message1(kind, stay, FALSE))
      BY <1>2, OneMore
    <2>2. PICK kind \in {"camera off", "camera on", "left"} :
             Sends(<<Message1(kind, stay, FALSE)>>)
      BY <1>5 DEF PeerTogglesCamera, PeerLeaves
    <2> QED
      BY <1>1, <1>2, <2>1, <2>2 DEF Sends
  <1>6. CASE SfuAnswers
    <2>1. 0 \in 0..MaxStay
      BY BoundAssumption
    <2> QED
      BY <1>1, <1>2, <1>6, <2>1 DEF SfuAnswers, InCall
  <1>7. CASE SfuOffers
    BY <1>1, <1>2, <1>7 DEF SfuOffers
  <1> QED
    BY <1>3, <1>4, <1>5, <1>6, <1>7 DEF PeerSteps

\* A message appended comes last and moves no other.
LEMMA Appended ==
    ASSUME NEW F \in Seq(Message), NEW m \in Message
    PROVE  /\ Len(Append(F, m)) = Len(F) + 1 /\ Append(F, m)[Len(F) + 1] = m
           /\ \A i \in 1..Len(F) : Append(F, m)[i] = F[i]
  BY AppendProperties

\* The roster replayed of one participant, and of one whose camera is on.
LEMMA Replayed ==
    ASSUME NEW m \in Message, NEW o \in Message
    PROVE  \E one \in Seq(Message) :
              /\ one = Append(<<>>, m) /\ Len(one) = 1 /\ one[1] = m
              /\ one \o <<>> = one /\ one \o <<o>> = Append(one, o)
              /\ Len(one \o <<o>>) = 2 /\ (one \o <<o>>)[1] = m /\ (one \o <<o>>)[2] = o
  <1> DEFINE one == Append(<<>>, m)
  <1>1. <<>> \in Seq(Message) /\ Len(<<>>) = 0
    OBVIOUS
  <1>2. one \in Seq(Message) /\ Len(one) = Len(<<>>) + 1 /\ one[Len(<<>>) + 1] = m
    BY <1>1, AppendProperties
  <1>3. one \in Seq(Message) /\ Len(one) = 1 /\ one[1] = m
    BY <1>1, <1>2
  <1> HIDE DEF one
  <1>4. one \o <<>> = one /\ one \o <<o>> = Append(one, o)
    BY <1>3, ConcatEmptySeq, AppendIsConcat
  <1>5. /\ Len(Append(one, o)) = Len(one) + 1 /\ Append(one, o)[Len(one) + 1] = o
        /\ Append(one, o)[1] = one[1]
    <2>1. /\ Len(Append(one, o)) = Len(one) + 1 /\ Append(one, o)[Len(one) + 1] = o
          /\ \A i \in 1..Len(one) : Append(one, o)[i] = one[i]
      BY <1>3, Appended
    <2> QED
      BY <1>3, <2>1
  <1>6. Len(one \o <<o>>) = 2 /\ (one \o <<o>>)[1] = m /\ (one \o <<o>>)[2] = o
    BY <1>3, <1>4, <1>5
  <1> QED
    BY <1>3, <1>4, <1>6 DEF one

\* The replay stays ahead of the answer.
LEMMA WireStep ==
    ASSUME PeerTypes, WireInv, ClientNext
    PROVE  WireInv'
  <1> USE DEF WireInv, RosterIsSilent
  <1>0. wire \in Seq(Message) /\ DOMAIN wire = 1..Len(wire) /\ Len(wire) \in Nat
    BY DEF PeerTypes
  <1>1. CASE UNCHANGED remoteVars /\ (InCall' <=> InCall)
             /\ (call' = call \/ (call = "asking" /\ call' = "offered"))
    BY <1>1 DEF remoteVars, viewVars
  <1>2. CASE Leave
    BY <1>2 DEF Leave, InCall
  <1>3. CASE PeerSteps
    <2>1. UNCHANGED <<call, armed, tiles, cameraOn>>
      BY <1>3, ServerSends DEF viewVars
    <2>2. CASE wire' = wire
      BY <2>1, <2>2 DEF InCall
    <2>3. CASE /\ InCall
               /\ \E m \in Message : /\ wire' = Append(wire, m) /\ ~m.replay
                                     /\ m.kind = "answer" => call = "offered"
      <3>1. PICK m \in Message : /\ wire' = Append(wire, m) /\ ~m.replay
                                 /\ m.kind = "answer" => call = "offered"
        BY <2>3
      <3>2. /\ Len(wire') = Len(wire) + 1 /\ wire'[Len(wire)+1] = m
            /\ \A i \in 1..Len(wire) : wire'[i] = wire[i]
            /\ DOMAIN wire' = 1..Len(wire')
        BY <1>0, <3>1, AppendProperties
      <3> QED
        BY <1>0, <2>1, <2>3, <3>1, <3>2 DEF InCall
    <2> QED
      BY <1>3, <2>2, <2>3, ServerSends
  <1>4. CASE Connect
    <2>1. wire = <<>> /\ call = "off" /\ call' = "asking" /\ UNCHANGED armed
      BY <1>4 DEF Connect, InCall, viewVars
    <2>2. \A i \in 1..Len(wire') : wire'[i].kind # "answer"
      <3> DEFINE m == Message1("joined", stay, TRUE)
                 o == Message1("camera on", stay, TRUE)
      <3>1. m \in Message /\ o \in Message /\ m.kind = "joined" /\ o.kind = "camera on"
        BY DEF Message, Message1, PeerTypes
      <3> HIDE DEF m, o
      <3>2. wire' = <<>> \/ wire' = Append(<<>>, m) \o <<o>> \/ wire' = Append(<<>>, m) \o <<>>
        BY <1>4, <2>1 DEF Connect, m, o
      <3>3. PICK one \in Seq(Message) :
              /\ one = Append(<<>>, m) /\ Len(one) = 1 /\ one[1] = m /\ one \o <<>> = one
              /\ Len(one \o <<o>>) = 2 /\ (one \o <<o>>)[1] = m /\ (one \o <<o>>)[2] = o
        <4>1. m \in Message /\ o \in Message
          BY <3>1
        <4> QED
          BY <4>1, Replayed, Zenon
      <3>4. CASE wire' = <<>>
        BY <3>4
      <3>5. CASE wire' = one \o <<o>>
        <4>1. \A i \in 1..2 : i = 1 \/ i = 2
          OBVIOUS
        <4> QED
          BY <3>1, <3>3, <3>5, <4>1
      <3>6. CASE wire' = one \o <<>>
        <4>1. \A i \in 1..1 : i = 1
          OBVIOUS
        <4> QED
          BY <3>1, <3>3, <3>6, <4>1
      <3> QED
        BY <3>2, <3>3, <3>4, <3>5, <3>6
    <2> QED
      BY <2>1, <2>2 DEF InCall
  <1>5. CASE Handle
    <2>0. wire # <<>> /\ wire' = Tail(wire) /\ Head(wire) = wire[1]
      <3>1. wire # <<>> /\ wire' = Tail(wire)
        BY <1>5 DEF Handle
      <3>2. Head(wire) = wire[1]
        BY <1>0, <3>1
      <3> QED
        BY <3>1, <3>2
    <2>1. armed' <=> armed \/ wire[1].kind = "answer"
      BY <1>5, <2>0 DEF Handle, Arms
    <2>2. call' = IF wire[1].kind = "answer" THEN "joined" ELSE call
      BY <1>5, <2>0 DEF Handle
    <2>3. /\ Len(wire') = Len(wire) - 1 /\ DOMAIN wire' = 1..Len(wire') /\ Len(wire) >= 1
          /\ \A i \in 1..Len(wire') : wire'[i] = wire[i+1] /\ i+1 \in 1..Len(wire)
      BY <1>0, <2>0, HeadTailProperties
    <2>4. InCall /\ InCall' /\ call' # "off"
      BY <2>0, <2>2 DEF InCall
    <2>5. ASSUME NEW i \in 1..Len(wire'), wire'[i].kind = "answer"
          PROVE  /\ call' \in {"offered", "joined"}
                 /\ \A j \in 1..Len(wire') : wire'[j].replay => j < i
      <3>1. /\ call \in {"offered", "joined"}
            /\ \A j \in 1..Len(wire) : wire[j].replay => j < i+1
        BY <2>3, <2>5
      <3>2. ASSUME NEW j \in 1..Len(wire'), wire'[j].replay PROVE j < i
        BY <1>0, <2>3, <3>1, <3>2
      <3> QED
        BY <2>2, <3>1, <3>2
    <2>6. ASSUME NEW i \in 1..Len(wire'), wire'[i].replay PROVE ~armed'
      <3>1. wire[i+1].replay /\ i+1 \in 1..Len(wire) /\ 1 \in 1..Len(wire) /\ ~(i+1 < 1)
        BY <1>0, <2>3, <2>6
      <3> QED
        BY <1>0, <2>1, <3>1
    <2>7. \A i \in DOMAIN wire' : wire'[i].replay => ~armed'
      BY <2>3, <2>6
    <2> QED
      BY <2>4, <2>5, <2>7 DEF InCall
  <1> QED
    BY <1>1, <1>2, <1>3, <1>4, <1>5, ApartSteps

\* What is on its way goes on leading the tab to what the server knows.
LEMMA ViewStep ==
    ASSUME PeerTypes, WireInv, ViewInv, ClientNext
    PROVE  ViewInv'
  <1> DEFINE AsKept == /\ Len(tiles) <= 1
                       /\ \A i \in 1..Len(tiles) : tiles[i] = IF cameraOn THEN videoTrack ELSE 0
             Told == Leads(wire, tiles # <<>>, cameraOn, present, camera)
  <1>0. /\ wire \in Seq(Message) /\ tiles \in Seq(0..MaxStay)
        /\ cameraOn \in BOOLEAN /\ present \in BOOLEAN /\ camera \in BOOLEAN
        /\ ~present => ~camera
    BY DEF PeerTypes, ViewInv
  <1>1. CASE UNCHANGED remoteVars /\ (InCall' <=> InCall)
    <2>1. UNCHANGED <<present, camera, replaced, wire, tiles, cameraOn, videoTrack>>
      BY <1>1 DEF remoteVars, peerVars, viewVars
    <2>2. (Told => Told') /\ (AsKept => AsKept')
      <3>1. (tiles # <<>>)' = (tiles # <<>>)
        BY <2>1
      <3> QED
        BY <2>1, <3>1
    <2> QED
      BY <1>0, <1>1, <2>1, <2>2 DEF ViewInv
  <1>2. CASE Leave
    <2>1. UNCHANGED peerVars /\ ~InCall'
      BY <1>2 DEF Leave, InCall
    <2> QED
      BY <1>0, <2>1 DEF ViewInv, peerVars
  <1>3. CASE Connect
    <2>1. wire = <<>> /\ tiles = <<>> /\ cameraOn = FALSE
      BY <1>0, <1>3 DEF Connect, WireInv, InCall
    <2>2. UNCHANGED <<present, camera, tiles, cameraOn, videoTrack>>
      BY <1>3 DEF Connect, peerVars, viewVars
    <2>3. Leads(wire', FALSE, FALSE, present, camera)
      <3> DEFINE m == Message1("joined", stay, TRUE)
                 o == Message1("camera on", stay, TRUE)
      <3>1. m \in Message /\ o \in Message /\ m.kind = "joined" /\ o.kind = "camera on"
        BY DEF Message, Message1, PeerTypes
      <3> HIDE DEF m, o
      <3>2. wire' = IF ~present THEN <<>>
                    ELSE Append(<<>>, m) \o (IF camera THEN <<o>> ELSE <<>>)
        BY <1>3, <2>1 DEF Connect, m, o
      <3>3. PICK one \in Seq(Message) :
              /\ one = Append(<<>>, m) /\ one \o <<>> = one /\ one \o <<o>> = Append(one, o)
        <4>1. m \in Message /\ o \in Message
          BY <3>1
        <4> QED
          BY <4>1, Replayed, Zenon
      <3>4. Leads(<<>>, FALSE, FALSE, FALSE, FALSE)
        BY LeadsNowhere
      <3>5. Leads(one, FALSE, FALSE, TRUE, FALSE)
        <4>1. <<>> \in Seq(Message)
          OBVIOUS
        <4>2. Leads(Append(<<>>, m), FALSE, FALSE, InAfter(m, FALSE), OnAfter(m, FALSE))
          BY <3>1, <3>4, <4>1, LeadsFurther
        <4> QED
          BY <3>1, <3>3, <4>2 DEF InAfter, OnAfter
      <3>6. Leads(Append(one, o), FALSE, FALSE, TRUE, TRUE)
        <4>1. Leads(Append(one, o), FALSE, FALSE, InAfter(o, TRUE), OnAfter(o, FALSE))
          BY <3>1, <3>5, LeadsFurther
        <4> QED
          BY <3>1, <4>1 DEF InAfter, OnAfter
      <3>7. CASE ~present
        BY <1>0, <3>2, <3>4, <3>7
      <3>8. CASE present /\ ~camera
        BY <1>0, <3>2, <3>3, <3>5, <3>8
      <3>9. CASE present /\ camera
        BY <1>0, <3>2, <3>3, <3>6, <3>9
      <3> QED
        BY <3>7, <3>8, <3>9
    <2>4. (tiles # <<>>)' = FALSE /\ cameraOn' = FALSE
      BY <2>1, <2>2
    <2>5. Told'
      BY <2>2, <2>3, <2>4
    <2>6. AsKept'
      BY <2>1, <2>2
    <2> QED
      BY <1>0, <2>2, <2>5, <2>6 DEF ViewInv
  <1>4. CASE PeerSteps
    <2>0. UNCHANGED <<call, tiles, cameraOn, videoTrack>>
      BY <1>4, PeerStepsApart DEF localVars, viewVars
    <2>1. (InCall' <=> InCall) /\ (AsKept => AsKept')
      BY <2>0 DEF InCall
    <2>2. \A kind \in {"joined", "left", "camera on", "camera off", "answer", "offer"},
             s \in 0..MaxStay :
             LET m == Message1(kind, s, FALSE)
             IN  /\ m \in Message /\ m.kind = kind
      BY DEF Message, Message1
    <2>3. ASSUME NEW m \in Message, InCall, ~replaced, wire' = Append(wire, m),
                 m.kind = "joined" => ~present /\ ~camera,
                 present' = InAfter(m, present), camera' = OnAfter(m, camera)
          PROVE  Told'
      <3>1. Leads(wire, tiles # <<>>, cameraOn, present, camera)
        BY <2>3 DEF ViewInv
      <3>2. Leads(Append(wire, m), tiles # <<>>, cameraOn, InAfter(m, present), OnAfter(m, camera))
        BY <1>0, <2>3, <3>1, LeadsFurther
      <3>3. (tiles # <<>>)' = (tiles # <<>>) /\ cameraOn' = cameraOn
        BY <2>0
      <3> QED
        BY <2>3, <3>2, <3>3
    <2>4. ASSUME ~present' => ~camera', ~replaced' => ~replaced,
                 InCall /\ ~replaced' => Told'
          PROVE  ViewInv'
      BY <2>1, <2>4 DEF ViewInv
    <2>5. CASE PeerPublishes \/ SfuForgets
      <3>1. UNCHANGED <<present, camera, replaced, wire>>
        BY <2>5 DEF PeerPublishes, SfuForgets
      <3> QED
        BY <1>0, <2>0, <2>4, <3>1 DEF ViewInv
    <2>6. CASE PeerComes
      <3> DEFINE m == Message1("joined", stay + 1, FALSE)
      <3>1. m \in Message /\ m.kind = "joined"
        <4>1. stay + 1 \in 0..MaxStay
          BY <2>6, BoundAssumption DEF PeerComes, PeerTypes
        <4> QED
          BY <2>2, <4>1
      <3>2. /\ present' = TRUE /\ camera' = FALSE /\ (~replaced' => ~replaced /\ ~present)
            /\ InCall => wire' = wire \o <<m>>
        BY <2>6 DEF PeerComes, Sends
      <3> HIDE DEF m
      <3>3. wire \o <<m>> = Append(wire, m)
        BY <1>0, <3>1, OneMore
      <3>4. InCall /\ ~replaced' => Told'
        BY <1>0, <2>3, <3>1, <3>2, <3>3 DEF InAfter, OnAfter
      <3> QED
        BY <2>4, <3>2, <3>4
    <2>7. CASE PeerTogglesCamera
      <3> DEFINE kind == IF camera THEN "camera off" ELSE "camera on"
                 m == Message1(kind, stay, FALSE)
      <3>1. m \in Message /\ m.kind = kind
        <4>1. stay \in 0..MaxStay /\ kind \in {"camera off", "camera on"}
          BY DEF PeerTypes
        <4> QED
          BY <2>2, <4>1
      <3>2. /\ present /\ present' = present /\ camera' = ~camera /\ replaced' = replaced
            /\ InCall => wire' = wire \o <<m>>
        BY <2>7 DEF PeerTogglesCamera, Sends
      <3> HIDE DEF m
      <3>3. wire \o <<m>> = Append(wire, m)
        BY <1>0, <3>1, OneMore
      <3>4. present' = InAfter(m, present) /\ camera' = OnAfter(m, camera)
        BY <1>0, <3>1, <3>2 DEF InAfter, OnAfter
      <3>5. InCall /\ ~replaced' => Told'
        BY <2>3, <3>1, <3>2, <3>3, <3>4
      <3> QED
        BY <2>4, <3>2, <3>5
    <2>8. CASE PeerLeaves
      <3> DEFINE m == Message1("left", stay, FALSE)
      <3>1. m \in Message /\ m.kind = "left"
        BY <2>2 DEF PeerTypes
      <3>2. /\ present' = FALSE /\ camera' = FALSE /\ replaced' = replaced
            /\ InCall => wire' = wire \o <<m>>
        BY <2>8 DEF PeerLeaves, Sends
      <3> HIDE DEF m
      <3>3. wire \o <<m>> = Append(wire, m)
        BY <1>0, <3>1, OneMore
      <3>4. present' = InAfter(m, present) /\ camera' = OnAfter(m, camera)
        BY <3>1, <3>2 DEF InAfter, OnAfter
      <3>5. InCall /\ ~replaced' => Told'
        BY <2>3, <3>1, <3>2, <3>3, <3>4
      <3> QED
        BY <2>4, <3>2, <3>5
    <2>9. CASE SfuAnswers \/ SfuOffers
      <3>1. PICK kind \in {"answer", "offer"},
           s \in 0..MaxStay :
                   wire' = Append(wire, Message1(kind, s, FALSE))
        <4>1. 0 \in 0..MaxStay /\ toOffer \in 0..MaxStay
          BY BoundAssumption DEF PeerTypes
        <4> QED
          BY <2>9, <4>1 DEF SfuAnswers, SfuOffers
      <3> DEFINE m == Message1(kind, s, FALSE)
      <3>2. m \in Message /\ m.kind \in {"answer", "offer"}
        BY <2>2
      <3>3. wire' = Append(wire, m)
        BY <3>1
      <3> HIDE DEF m
      <3>4. UNCHANGED <<present, camera, replaced>>
        BY <2>9 DEF SfuAnswers, SfuOffers, peerVars
      <3>5. present' = InAfter(m, present) /\ camera' = OnAfter(m, camera)
        BY <3>2, <3>4 DEF InAfter, OnAfter
      <3>6. InCall /\ ~replaced' => Told'
        BY <2>3, <3>2, <3>3, <3>4, <3>5
      <3> QED
        BY <1>0, <2>4, <3>4, <3>6
    <2> QED
      BY <1>4, <2>5, <2>6, <2>7, <2>8, <2>9 DEF PeerSteps
  <1>5. CASE Handle
    <2> DEFINE m == Head(wire)
    <2>1. wire # <<>> /\ wire' = Tail(wire) /\ UNCHANGED <<present, camera, replaced>>
      BY <1>5 DEF Handle, peerVars
    <2>2. m \in Message
      BY <1>0, <2>1, HeadTailProperties
    <2>3. InCall
      BY <2>1 DEF WireInv
    <2>4. CASE replaced
      BY <1>0, <2>1, <2>4 DEF ViewInv
    <2>5. CASE ~replaced
      <3>1. Told /\ AsKept
        BY <2>3, <2>5 DEF ViewInv
      <3>2. /\ Leads(Tail(wire), InAfter(m, tiles # <<>>), OnAfter(m, cameraOn), present, camera)
            /\ m.kind = "joined" => ~(tiles # <<>>) /\ ~cameraOn
        BY <1>0, <2>1, <3>1, LeadsOn
      <3>3. CASE m.kind = "joined"
        <4>1. tiles = <<>> /\ cameraOn = FALSE
          BY <1>0, <3>2, <3>3
        <4>2. tiles' = Append(tiles, 0) /\ UNCHANGED <<cameraOn, videoTrack>>
          BY <1>5, <3>3 DEF Handle
        <4> HIDE DEF m
        <4>3. Len(tiles') = 1 /\ tiles'[1] = 0 /\ tiles' # <<>> /\ cameraOn' = FALSE
          BY <4>1, <4>2
        <4>4. AsKept'
          BY <4>3
        <4>5. InAfter(m, tiles # <<>>) = TRUE /\ OnAfter(m, cameraOn) = FALSE
          BY <3>3, <4>1 DEF InAfter, OnAfter
        <4>6. Leads(Tail(wire), TRUE, FALSE, present, camera)
          BY <3>2, <4>5
        <4>7. (tiles # <<>>)' = TRUE
          BY <4>3
        <4>8. Told'
          BY <2>1, <4>3, <4>6, <4>7
        <4> QED
          BY <1>0, <2>1, <4>4, <4>8 DEF ViewInv
      <3>4. CASE m.kind = "left"
        <4>1. tiles' = <<>> /\ cameraOn' = FALSE
          BY <1>5, <3>4 DEF Handle, Departed
        <4> HIDE DEF m
        <4>2. AsKept' /\ (tiles # <<>>)' = FALSE
          BY <4>1
        <4>3. InAfter(m, tiles # <<>>) = FALSE /\ OnAfter(m, cameraOn) = FALSE
          BY <3>4 DEF InAfter, OnAfter
        <4>4. Leads(Tail(wire), FALSE, FALSE, present, camera)
          BY <3>2, <4>3
        <4>5. Told'
          BY <2>1, <4>1, <4>2, <4>4
        <4> QED
          BY <1>0, <2>1, <4>2, <4>5 DEF ViewInv
      <3>5. ASSUME NEW on \in BOOLEAN, m.kind = IF on THEN "camera on" ELSE "camera off"
            PROVE  ViewInv'
        <4>1. Signalled(on)
          BY <1>5, <3>5 DEF Handle
        <4> HIDE DEF m
        <4>2. /\ cameraOn' = on /\ videoTrack' = videoTrack
              /\ tiles' = [i \in DOMAIN tiles |-> IF on THEN videoTrack ELSE 0]
          BY <4>1 DEF Signalled, ShowAll
        <4>3. /\ Len(tiles') = Len(tiles)
              /\ \A i \in 1..Len(tiles') : tiles'[i] = IF on THEN videoTrack ELSE 0
          BY <1>0, <4>2
        <4>4. AsKept'
          BY <3>1, <4>2, <4>3
        <4>5. (tiles # <<>>)' = (tiles # <<>>)
          BY <1>0, <4>2, <4>3
        <4>6. InAfter(m, tiles # <<>>) = (tiles # <<>>) /\ OnAfter(m, cameraOn) = on
          BY <3>5 DEF InAfter, OnAfter
        <4>7. Leads(Tail(wire), tiles # <<>>, on, present, camera)
          BY <3>2, <4>6
        <4>8. Told'
          BY <2>1, <4>2, <4>5, <4>7
        <4> QED
          BY <1>0, <2>1, <4>4, <4>8 DEF ViewInv
      <3>6. CASE m.kind \in {"answer", "offer"}
        <4>1. \/ TrackAdded(m.stay) \/ UNCHANGED <<tiles, cameraOn, videoTrack>>
          BY <1>5, <3>6 DEF Handle
        <4> HIDE DEF m
        <4>2. /\ AsKept' /\ Len(tiles') = Len(tiles) /\ cameraOn' = cameraOn
              /\ (tiles' # <<>>) <=> (tiles # <<>>)
          <5>1. CASE UNCHANGED <<tiles, cameraOn, videoTrack>>
            BY <3>1, <5>1
          <5>2. CASE TrackAdded(m.stay)
            <6>1. /\ cameraOn' = cameraOn /\ videoTrack' = m.stay
                  /\ tiles' = [i \in DOMAIN tiles |-> IF cameraOn THEN m.stay ELSE 0]
              BY <5>2 DEF TrackAdded, ShowAll
            <6>2. /\ Len(tiles') = Len(tiles)
                  /\ \A i \in 1..Len(tiles') : tiles'[i] = IF cameraOn THEN m.stay ELSE 0
              BY <1>0, <6>1
            <6>3. AsKept'
              BY <3>1, <6>1, <6>2
            <6>4. (tiles' # <<>>) <=> (tiles # <<>>)
              BY <1>0, <6>1, <6>2
            <6> QED
              BY <6>1, <6>2, <6>3, <6>4
          <5> QED
            BY <4>1, <5>1, <5>2
        <4>3. InAfter(m, tiles # <<>>) = (tiles # <<>>) /\ OnAfter(m, cameraOn) = cameraOn
          BY <3>6 DEF InAfter, OnAfter
        <4>4. Leads(Tail(wire), tiles # <<>>, cameraOn, present, camera)
          BY <3>2, <4>3
        <4>5. (tiles # <<>>)' = (tiles # <<>>)
          BY <4>2
        <4>6. Told'
          BY <2>1, <4>2, <4>4, <4>5
        <4> QED
          BY <1>0, <2>1, <4>2, <4>6 DEF ViewInv
      <3>7. \/ m.kind \in {"joined", "left", "answer", "offer"}
            \/ \E on \in BOOLEAN : m.kind = IF on THEN "camera on" ELSE "camera off"
        BY <2>2 DEF Message
      <3> QED
        BY <3>3, <3>4, <3>5, <3>6, <3>7
    <2> QED
      BY <2>4, <2>5
  <1> QED
    BY <1>1, <1>2, <1>3, <1>4, <1>5, ApartSteps

\* The inductive invariant of the call.
CallInv == DevTypes /\ PeerTypes /\ CaptureInv /\ WireInv /\ ViewInv

\* The invariant holds before the call.
LEMMA CallInitially == ClientInit => CallInv
  <1> SUFFICES ASSUME ClientInit PROVE CallInv
    OBVIOUS
  <1> USE DEF ClientInit
  <1>1. DevTypes
    <2>1. \A k \in Kind : NoDevice \in Sound
      BY NoDeviceMoves DEF Sound
    <2>2. dev \in [Kind -> Sound]
      BY <2>1
    <2>3. joinPrompt \in BOOLEAN /\ rushed \in BOOLEAN
      OBVIOUS
    <2> QED
      BY <2>2, <2>3 DEF DevTypes
  <1>2. PeerTypes
    <2>1. /\ present \in BOOLEAN /\ camera \in BOOLEAN /\ replaced \in BOOLEAN
          /\ armed \in BOOLEAN /\ cameraOn \in BOOLEAN
      OBVIOUS
    <2>2. stay \in 0..MaxStay /\ toOffer \in 0..MaxStay /\ videoTrack \in 0..MaxStay
      BY BoundAssumption
    <2>3. wire \in Seq(Message) /\ Len(wire) <= MaxWire /\ tiles \in Seq(0..MaxStay)
      BY BoundAssumption
    <2> QED
      BY <2>1, <2>2, <2>3 DEF PeerTypes
  <1>3. CaptureInv
    BY DEF CaptureInv, InCall
  <1>4. WireInv
    BY DEF WireInv, RosterIsSilent, InCall
  <1>5. ViewInv
    BY DEF ViewInv, InCall
  <1> QED
    BY <1>1, <1>2, <1>3, <1>4, <1>5 DEF CallInv

\* Every step of the call, and every step of another part, keeps the invariant.
LEMMA CallStep ==
    ASSUME CallInv, [ClientNext]_clientVars
    PROVE  CallInv'
  <1>1. CASE ClientNext
    BY <1>1, DevTypesStep, PeerTypesStep, CaptureStep, WireStep, ViewStep DEF CallInv
  <1>2. CASE UNCHANGED clientVars
    <2>1. UNCHANGED <<call, joinPrompt, dev, screen, rushed>>
      BY <1>2 DEF clientVars, localVars
    <2>2. UNCHANGED <<stay, present, camera, toOffer, replaced, wire, armed, tiles, cameraOn,
                      videoTrack>>
      BY <1>2 DEF clientVars, remoteVars, peerVars, viewVars
    <2>3. DevTypes' /\ CaptureInv'
      BY <2>1 DEF CallInv, DevTypes, CaptureInv, InCall
    <2>4. PeerTypes'
      BY <2>2 DEF CallInv, PeerTypes
    <2>5. WireInv'
      BY <2>1, <2>2 DEF CallInv, WireInv, RosterIsSilent, InCall
    <2>6. ViewInv'
      <3>1. Leads(wire, tiles # <<>>, cameraOn, present, camera)' <=>
              Leads(wire, tiles # <<>>, cameraOn, present, camera)
        <4>1. (tiles # <<>>)' = (tiles # <<>>)
          BY <2>2
        <4> QED
          BY <2>2, <4>1
      <3> QED
        BY <2>1, <2>2, <3>1 DEF CallInv, ViewInv, InCall
    <2> QED
      BY <2>3, <2>4, <2>5, <2>6 DEF CallInv
  <1> QED
    BY <1>1, <1>2

\* One tile at most, and not none.
LEMMA AtMostOne == \A n \in Nat : n <= 1 /\ n # 0 => n = 1
  OBVIOUS

\* The invariant says what the screen should show.
LEMMA CallFollows == CallInv => CallShownAsItIs
  <1> SUFFICES ASSUME CallInv PROVE CallShownAsItIs
    OBVIOUS
  <1> USE DEF CallInv
  <1>1. MutedIsSilent
    <2> SUFFICES ASSUME InCall, ~rushed, ~Waiting, NEW k \in Kind, ~dev[k].shown
                 PROVE  Sent(dev[k]) = {}
      BY DEF MutedIsSilent
    <2>1. dev[k].enabled = {}
      <3>1. CASE call = "asking"
        <4>1. dev[k] = NoDevice
          BY <3>1 DEF CaptureInv
        <4>2. NoDevice.enabled = {}
          BY DEF NoDevice
        <4> QED
          BY <4>1, <4>2
      <3>2. CASE call \in {"offered", "joined"}
        <4>1. Carries(dev[k]) /\ dev[k].pend = "none"
          BY <3>2 DEF CaptureInv, Waiting
        <4> QED
          BY <4>1 DEF Carries
      <3> QED
        BY <3>1, <3>2 DEF InCall
    <2> QED
      BY <2>1 DEF Sent
  <1>2. LeaveStopsCapture
    BY DEF LeaveStopsCapture, CaptureInv
  <1>3. TileFollowsPeer
    <2> SUFFICES ASSUME call = "joined", wire = <<>>, ~replaced
                 PROVE  /\ Len(tiles) = IF present THEN 1 ELSE 0
                        /\ present => cameraOn = camera
                        /\ present /\ videoTrack = stay =>
                             Head(tiles) = IF camera THEN stay ELSE 0
                        /\ present /\ ~camera => Head(tiles) = 0
      BY DEF TileFollowsPeer
    <2>0. /\ present \in BOOLEAN /\ camera \in BOOLEAN /\ cameraOn \in BOOLEAN
          /\ tiles \in Seq(0..MaxStay)
      BY DEF PeerTypes
    <2>1. /\ Leads(wire, tiles # <<>>, cameraOn, present, camera) /\ Len(tiles) <= 1
          /\ \A i \in 1..Len(tiles) : tiles[i] = IF cameraOn THEN videoTrack ELSE 0
      BY DEF ViewInv, InCall
    <2>2. (tiles # <<>>) = present /\ cameraOn = camera
      <3>1. (tiles # <<>>) \in BOOLEAN
        OBVIOUS
      <3>2. Leads(<<>>, tiles # <<>>, cameraOn, present, camera)
        BY <2>1
      <3> QED
        BY <2>0, <3>1, <3>2, LeadsNowhere
    <2>3. CASE present
      <3>1. Len(tiles) = 1 /\ Head(tiles) = tiles[1]
        <4>1. tiles # <<>>
          BY <2>2, <2>3
        <4>2. Head(tiles) = tiles[1]
          BY <2>0, <4>1
        <4>5. Len(tiles) \in Nat
          BY <2>0
        <4>6. Len(tiles) # 0
          BY <2>0, <4>1, EmptySeq
        <4>3. Len(tiles) <= 1
          BY <2>1
        <4>4. Len(tiles) = 1
          BY <4>3, <4>5, <4>6, AtMostOne, Zenon
        <4> QED
          BY <4>2, <4>4
      <3> QED
        BY <2>1, <2>2, <2>3, <3>1
    <2>4. CASE ~present
      BY <2>0, <2>2, <2>4
    <2> QED
      BY <2>3, <2>4
  <1>4. RosterIsSilent
    BY DEF WireInv
  <1> QED
    BY <1>1, <1>2, <1>3, <1>4
    DEF CallShownAsItIs, CapturedAsShown, PeerShownAsItIs

\* THE CALL IS WHAT THE SCREEN SAYS.  Whatever the buttons pressed, the prompts answered and the
\* comings and goings of the other, in whichever order: a microphone or camera shown as off is not
\* sent, nothing is captured once the call is over, each tile follows its participant and nobody
\* who was there before us is announced by a chime.
THEOREM CallCorrect == WebSpec => []CallShownAsItIs
  <1>1. WebInit => CallInv
    BY CallInitially DEF WebInit
  <1>2. CallInv /\ [WebNext]_webVars => CallInv'
    <2>1. [WebNext]_webVars => [ClientNext]_clientVars
      BY DEF WebNext, webVars
    <2> QED
      BY <2>1, CallStep
  <1>3. CallInv => CallShownAsItIs
    BY CallFollows
  <1> QED
    BY <1>1, <1>2, <1>3, PTL DEF WebSpec

-----------------------------------------------------------------------------
(* The heartbeats of the chat connection (ChatSocket).                     *)
(*                                                                         *)
(* None of the three properties is inductive.  A dead connection is given  *)
(* up because, at any moment, some timer of its own is running, and what   *)
(* it still has to run bounds how long the connection may yet go           *)
(* unnoticed; a connection that is up is kept because, while no interval   *)
(* but its own is about, the age of the acknowledgement on its way is what *)
(* has passed since its last heartbeat.                                    *)

(* Each connection has at most one timer.                                   *)
TimersApart ==
    /\ \A s, t \in firsts : s.of = t.of => s = t
    /\ \A s, t \in beats : s.of = t.of => s = t
    /\ \A s \in firsts, t \in beats : s.of # t.of
    /\ \A t \in firsts \cup beats : t.of <= dialed

(* What the state of the connection says of the rest.                       *)
ConnectionKnown ==
    /\ ws.is = "opening" => ~ws.greeted
    /\ ws.is \in {"opening", "open"} /\ ~ws.greeted =>
          \A t \in firsts \cup beats : t.of # dialed
    /\ Open /\ ws.greeted => \E t \in firsts \cup beats : t.of = dialed
    /\ acks # <<>> => Open /\ ws.up /\ ws.greeted
    /\ retry # {} => ws = NoSocket /\ dialed < MaxDialed
    /\ quiet # 0 => ws.greeted /\ ~ws.up /\ ws.is \in {"open", "closing"}

(* A dead connection: its own timer will find out in time.                  *)
DeathCounted ==
    Open /\ ws.greeted /\ ~ws.up =>
        /\ \A t \in firsts : t.of = dialed => quiet + t.left < Beat
        /\ \A t \in beats : t.of = dialed =>
              /\ quiet + t.left <= 2 * Beat
              /\ ~ackPending => quiet + t.left <= Beat

(* One that is up, alone with its own interval: the acknowledgement is as   *)
(* old as the last heartbeat.                                               *)
AcksCounted ==
    Open /\ ws.greeted /\ ws.up /\ (\A t \in beats : t.of = dialed) =>
        /\ beats = {} => ~ackPending /\ acks = <<>>
        /\ \A t \in beats :
              /\ ackPending => Len(acks) = 1 /\ acks[1] = Beat - t.left
              /\ ~ackPending => acks = <<>>

BeatInv ==
    /\ SocketTypeOK
    /\ TimersApart
    /\ ConnectionKnown
    /\ DeathCounted
    /\ AcksCounted
    /\ HeartbeatsJudgeRight

-----------------------------------------------------------------------------
(* A client that has just been told to connect.                             *)
LEMMA SocketInitially == SocketInit => BeatInv
<1> SUFFICES ASSUME SocketInit PROVE BeatInv
  OBVIOUS
<1>1. SocketTypeOK
  <2>1. ws \in [is : {"none", "opening", "open", "closing"},
                up : BOOLEAN, greeted : BOOLEAN]
    BY DEF SocketInit, Opening
  <2>2. /\ dialed \in 1..MaxDialed /\ tracked \in 0..MaxDialed
        /\ quiet \in 0..(2 * Beat + 1)
        /\ \E d \in Delays : retry \in {{}, {d}}
    BY SocketAssumption DEF SocketInit, Delays
  <2>3. firsts = {} /\ beats = {} /\ acks \in Seq(0..Lag)
    BY DEF SocketInit
  <2> QED BY <2>1, <2>2, <2>3 DEF SocketInit, SocketTypeOK
<1> QED BY <1>1, SocketAssumption DEF SocketInit, BeatInv, Opening,
                                      TimersApart, ConnectionKnown,
                                      DeathCounted, AcksCounted,
                                      HeartbeatsJudgeRight, DeadIsNoticed,
                                      UpIsKept, EndIsFinal

(* Timers that have run on: those that were there, with a unit less.        *)
LEMMA PassesType ==
    ASSUME NEW n \in Nat, NEW T \in SUBSET Timers(n), \A t \in T : t.left > 0
    PROVE  Passes(T) \subseteq Timers(n)
<1> SUFFICES ASSUME NEW t \in T PROVE [t EXCEPT !.left = @ - 1] \in Timers(n)
  BY DEF Passes
<1> QED BY DEF Timers

(* Where a timer that has run on comes from, and where one goes.            *)
LEMMA PassesFrom ==
    ASSUME NEW n \in Nat, NEW T \in SUBSET Timers(n)
    PROVE  \A s \in Passes(T) : \E t \in T :
              s = [t EXCEPT !.left = t.left - 1] /\ s.of = t.of /\ s.left = t.left - 1
BY DEF Passes, Timers

LEMMA PassesTo ==
    ASSUME NEW n \in Nat, NEW T \in SUBSET Timers(n), NEW t \in T
    PROVE  \E s \in Passes(T) : s.of = t.of /\ s.left = t.left - 1
<1> DEFINE s == [t EXCEPT !.left = t.left - 1]
<1>1. s \in Passes(T)
  BY DEF Passes
<1>2. s.of = t.of /\ s.left = t.left - 1
  BY DEF Timers
<1> QED BY <1>1, <1>2

-----------------------------------------------------------------------------
(* Each action of the socket, its timers and the network preserves the      *)
(* invariant; the last three are about time and the two kinds of timers.    *)

LEMMA OpenedHolds == ASSUME BeatInv, Opened PROVE BeatInv'
<1>1. SocketTypeOK'
  <2>1. ws' \in [is : {"none", "opening", "open", "closing"},
                 up : BOOLEAN, greeted : BOOLEAN]
    BY DEF BeatInv, SocketTypeOK, Opened
  <2> QED BY <2>1 DEF BeatInv, SocketTypeOK, Opened, timers
<1>2. TimersApart'
  BY SocketAssumption DEF BeatInv, Opened, TimersApart, timers
<1>3. ConnectionKnown'
  BY DEF BeatInv, Opened, ConnectionKnown, NoSocket, timers
<1>4. DeathCounted'
  BY SocketAssumption DEF BeatInv, Opened, TimersApart, DeathCounted
<1>5. AcksCounted'
  BY SocketAssumption DEF BeatInv, Opened, ConnectionKnown, AcksCounted
<1>6. HeartbeatsJudgeRight'
  BY DEF BeatInv, Opened, HeartbeatsJudgeRight, DeadIsNoticed, UpIsKept,
         EndIsFinal, NoSocket
<1> QED BY <1>1, <1>2, <1>3, <1>4, <1>5, <1>6 DEF BeatInv

LEMMA HelloHolds == ASSUME BeatInv, Hello PROVE BeatInv'
<1>1. SocketTypeOK'
  <2>1. firsts' \subseteq Timers(Beat - 1) /\ beats' \subseteq Timers(Beat)
    BY DEF BeatInv, SocketTypeOK, Hello, ClearHeartbeat, Timers
  <2>2. ws' \in [is : {"none", "opening", "open", "closing"},
                 up : BOOLEAN, greeted : BOOLEAN]
    BY DEF BeatInv, SocketTypeOK, Hello
  <2>3. tracked' \in 0..MaxDialed /\ dialed' \in 1..MaxDialed
    BY SocketAssumption DEF BeatInv, SocketTypeOK, Hello, ClearHeartbeat
  <2>4. /\ acks' \in Seq(0..Lag) /\ ackPending' \in BOOLEAN
        /\ \E d \in Delays : retry' \in {{}, {d}}
        /\ ended' \in BOOLEAN /\ struckDown' \in BOOLEAN
        /\ quiet' \in 0..(2 * Beat + 1)
    BY DEF BeatInv, SocketTypeOK, Hello
  <2> QED BY <2>1, <2>2, <2>3, <2>4 DEF SocketTypeOK
<1>2. TimersApart'
  BY DEF BeatInv, Hello, ClearHeartbeat, TimersApart, ConnectionKnown,
         SocketTypeOK, Open
<1>3. ConnectionKnown'
  <2>1. ws'.is = "open" /\ ws'.up /\ ws'.greeted
    BY DEF BeatInv, SocketTypeOK, Hello, Open
  <2>2. PICK d \in 0..(Beat - 1) : firsts' = firsts \cup {[of |-> dialed, left |-> d]}
    BY DEF Hello
  <2>3. \E t \in firsts' \cup beats' : t.of = dialed'
    <3> DEFINE t == [of |-> dialed, left |-> d]
    <3>1. t \in firsts' /\ t.of = dialed'
      BY <2>2 DEF Hello
    <3> QED BY <3>1
  <2>4. retry' = {} /\ quiet' = 0
    BY DEF BeatInv, ConnectionKnown, Hello, Open, NoSocket
  <2> QED BY <2>1, <2>3, <2>4 DEF ConnectionKnown, Open
<1>4. DeathCounted'
  BY SocketAssumption DEF BeatInv, Hello, ClearHeartbeat, DeathCounted
<1>5. AcksCounted'
  BY SocketAssumption DEF BeatInv, Hello, ConnectionKnown, AcksCounted
<1>6. HeartbeatsJudgeRight'
  BY DEF BeatInv, Hello, HeartbeatsJudgeRight, DeadIsNoticed, UpIsKept,
         EndIsFinal, NoSocket
<1> QED BY <1>1, <1>2, <1>3, <1>4, <1>5, <1>6 DEF BeatInv

LEMMA AckComesHolds == ASSUME BeatInv, AckComes PROVE BeatInv'
<1>1. SocketTypeOK'
  <2>1. acks' \in Seq(0..Lag)
    BY DEF BeatInv, SocketTypeOK, AckComes
  <2> QED BY <2>1 DEF BeatInv, SocketTypeOK, AckComes, timers
<1>2. TimersApart'
  BY SocketAssumption DEF BeatInv, AckComes, TimersApart, timers
<1>3. ConnectionKnown'
  BY DEF BeatInv, AckComes, ConnectionKnown, Open, timers
<1>4. DeathCounted'
  BY SocketAssumption DEF BeatInv, AckComes, TimersApart, DeathCounted
<1>5. AcksCounted'
  <2> SUFFICES ASSUME Open, ws.greeted, ws.up, \A t \in beats : t.of = dialed
               PROVE  acks' = <<>>
    BY DEF AckComes, AcksCounted, Open, timers
  <2>1. Len(acks) = 1 /\ acks \in Seq(0..Lag)
    BY DEF BeatInv, SocketTypeOK, AcksCounted, AckComes
  <2> QED BY <2>1 DEF AckComes
<1>6. HeartbeatsJudgeRight'
  BY DEF BeatInv, AckComes, HeartbeatsJudgeRight, DeadIsNoticed, UpIsKept,
         EndIsFinal
<1> QED BY <1>1, <1>2, <1>3, <1>4, <1>5, <1>6 DEF BeatInv

LEMMA ReconnectHolds == ASSUME BeatInv, ReconnectComes PROVE BeatInv'
<1>1. SocketTypeOK'
  <2>1. ws' \in [is : {"none", "opening", "open", "closing"},
                 up : BOOLEAN, greeted : BOOLEAN]
    BY DEF BeatInv, SocketTypeOK, ReconnectComes, Shut
  <2>2. acks' \in Seq(0..Lag)
    BY DEF BeatInv, SocketTypeOK, ReconnectComes, Shut
  <2> QED BY <2>1, <2>2 DEF BeatInv, SocketTypeOK, ReconnectComes, timers
<1>2. TimersApart'
  BY SocketAssumption DEF BeatInv, ReconnectComes, TimersApart, timers
<1>3. ConnectionKnown'
  BY DEF BeatInv, ReconnectComes, Shut, ConnectionKnown, NoSocket, Open
<1>4. DeathCounted'
  BY SocketAssumption DEF BeatInv, ReconnectComes, Shut, DeathCounted
<1>5. AcksCounted'
  BY SocketAssumption DEF ReconnectComes, Shut, AcksCounted, Open
<1>6. HeartbeatsJudgeRight'
  BY DEF BeatInv, ReconnectComes, HeartbeatsJudgeRight, DeadIsNoticed,
         UpIsKept, EndIsFinal, NoSocket
<1> QED BY <1>1, <1>2, <1>3, <1>4, <1>5, <1>6 DEF BeatInv

LEMMA DiesHolds == ASSUME BeatInv, Dies PROVE BeatInv'
<1>1. SocketTypeOK'
  <2>1. ws' \in [is : {"none", "opening", "open", "closing"},
                 up : BOOLEAN, greeted : BOOLEAN]
    BY DEF BeatInv, SocketTypeOK, Dies
  <2> QED BY <2>1 DEF BeatInv, SocketTypeOK, Dies, timers
<1>2. TimersApart'
  BY SocketAssumption DEF BeatInv, Dies, TimersApart, timers
<1>3. ConnectionKnown'
  BY DEF BeatInv, Dies, ConnectionKnown, NoSocket, Open, timers
<1>4. DeathCounted'
  BY SocketAssumption DEF BeatInv, Dies, ConnectionKnown, DeathCounted,
                          SocketTypeOK, Timers, timers
<1>5. AcksCounted'
  BY SocketAssumption DEF BeatInv, Dies, TimersApart, AcksCounted
<1>6. HeartbeatsJudgeRight'
  BY DEF BeatInv, Dies, HeartbeatsJudgeRight, DeadIsNoticed, UpIsKept,
         EndIsFinal, NoSocket
<1> QED BY <1>1, <1>2, <1>3, <1>4, <1>5, <1>6 DEF BeatInv

LEMMA ClosedHolds == ASSUME BeatInv, Closed PROVE BeatInv'
<1>1. SocketTypeOK'
  BY SocketAssumption DEF BeatInv, Closed, ClearHeartbeat, NoSocket,
                          SocketTypeOK
<1>2. TimersApart'
  BY SocketAssumption DEF BeatInv, Closed, ClearHeartbeat, TimersApart
<1>3. ConnectionKnown'
  BY SocketAssumption DEF BeatInv, Closed, ConnectionKnown, NoSocket
<1>4. DeathCounted'
  BY SocketAssumption DEF BeatInv, Closed, NoSocket, DeathCounted
<1>5. AcksCounted'
  BY SocketAssumption DEF BeatInv, Closed, NoSocket, AcksCounted
<1>6. HeartbeatsJudgeRight'
  BY SocketAssumption DEF BeatInv, Closed, HeartbeatsJudgeRight,
                          DeadIsNoticed, UpIsKept, EndIsFinal, NoSocket
<1> QED BY <1>1, <1>2, <1>3, <1>4, <1>5, <1>6 DEF BeatInv

LEMMA RetriesHolds == ASSUME BeatInv, Retries PROVE BeatInv'
<1>1. SocketTypeOK'
  <2>1. firsts' \subseteq Timers(Beat - 1) /\ beats' \subseteq Timers(Beat)
    BY DEF BeatInv, SocketTypeOK, Retries, timers
  <2>2. ws' \in [is : {"none", "opening", "open", "closing"},
                 up : BOOLEAN, greeted : BOOLEAN]
    BY DEF BeatInv, SocketTypeOK, Retries, NoSocket, Opening
  <2>3. tracked' \in 0..MaxDialed /\ dialed' \in 1..MaxDialed
    BY SocketAssumption DEF BeatInv, SocketTypeOK, Retries, ConnectionKnown,
                            timers
  <2>4. acks' \in Seq(0..Lag) /\ ackPending' \in BOOLEAN
    BY DEF BeatInv, SocketTypeOK, Retries
  <2>5. /\ \E d \in Delays : retry' \in {{}, {d}}
        /\ ended' \in BOOLEAN /\ struckDown' \in BOOLEAN
        /\ quiet' \in 0..(2 * Beat + 1)
    BY SocketAssumption DEF BeatInv, SocketTypeOK, Retries, Delays
  <2> QED BY <2>1, <2>2, <2>3, <2>4, <2>5 DEF SocketTypeOK
<1>2. TimersApart'
  BY DEF BeatInv, Retries, TimersApart, SocketTypeOK, Timers, timers
<1>3. ConnectionKnown'
  BY DEF BeatInv, Retries, Opening, TimersApart, ConnectionKnown,
         SocketTypeOK, NoSocket, timers
<1>4. DeathCounted'
  BY SocketAssumption DEF BeatInv, Retries, Opening, DeathCounted
<1>5. AcksCounted'
  BY SocketAssumption DEF BeatInv, Retries, Opening, AcksCounted
<1>6. HeartbeatsJudgeRight'
  BY DEF BeatInv, Retries, HeartbeatsJudgeRight, DeadIsNoticed, UpIsKept,
         EndIsFinal, NoSocket
<1> QED BY <1>1, <1>2, <1>3, <1>4, <1>5, <1>6 DEF BeatInv

LEMMA DisconnectsHolds == ASSUME BeatInv, Disconnects PROVE BeatInv'
<1>1. SocketTypeOK'
  <2>1. firsts' \subseteq Timers(Beat - 1) /\ beats' \subseteq Timers(Beat)
    BY DEF BeatInv, SocketTypeOK, Disconnects, ClearHeartbeat, timers
  <2>2. ws' \in [is : {"none", "opening", "open", "closing"},
                 up : BOOLEAN, greeted : BOOLEAN]
    BY DEF BeatInv, SocketTypeOK, Disconnects, ClearHeartbeat, NoSocket
  <2>3. tracked' \in 0..MaxDialed /\ dialed' \in 1..MaxDialed
    BY SocketAssumption DEF BeatInv, SocketTypeOK, Disconnects, ClearHeartbeat
  <2>4. acks' \in Seq(0..Lag) /\ ackPending' \in BOOLEAN
    BY DEF BeatInv, SocketTypeOK, Disconnects
  <2>5. /\ \E d \in Delays : retry' \in {{}, {d}}
        /\ ended' \in BOOLEAN /\ struckDown' \in BOOLEAN
        /\ quiet' \in 0..(2 * Beat + 1)
    BY SocketAssumption DEF BeatInv, SocketTypeOK, Disconnects, Delays
  <2> QED BY <2>1, <2>2, <2>3, <2>4, <2>5 DEF SocketTypeOK
<1>2. TimersApart'
  BY SocketAssumption DEF BeatInv, Disconnects, ClearHeartbeat, TimersApart
<1>3. ConnectionKnown'
  BY SocketAssumption DEF BeatInv, Disconnects, ConnectionKnown, NoSocket
<1>4. DeathCounted'
  BY SocketAssumption DEF BeatInv, Disconnects, NoSocket, DeathCounted
<1>5. AcksCounted'
  BY SocketAssumption DEF BeatInv, Disconnects, NoSocket, AcksCounted
<1>6. HeartbeatsJudgeRight'
  BY SocketAssumption DEF BeatInv, Disconnects, HeartbeatsJudgeRight,
                          DeadIsNoticed, UpIsKept, EndIsFinal, NoSocket
<1> QED BY <1>1, <1>2, <1>3, <1>4, <1>5, <1>6 DEF BeatInv

LEMMA TickHolds == ASSUME BeatInv, Tick PROVE BeatInv'
<1> USE DEF BeatInv
<1>a. /\ Beat \in Nat \ {0} /\ Beat - 1 \in Nat
      /\ firsts \in SUBSET Timers(Beat - 1) /\ beats \in SUBSET Timers(Beat)
  BY SocketAssumption DEF SocketTypeOK
<1>b. /\ \A s \in firsts' : \E t \in firsts : s = [t EXCEPT !.left = t.left - 1]
                                              /\ s.of = t.of /\ s.left = t.left - 1
      /\ \A s \in beats' : \E t \in beats : s = [t EXCEPT !.left = t.left - 1]
                                            /\ s.of = t.of /\ s.left = t.left - 1
  BY <1>a, PassesFrom DEF Tick
<1>c. \A t \in firsts \cup beats :
         \E s \in firsts' \cup beats' : s.of = t.of /\ s.left = t.left - 1
  BY <1>a, PassesTo DEF Tick
<1>d. quiet' \in 0..(2 * Beat) /\ DeadIsNoticed'
  <2>1. CASE Open /\ ~ws.up /\ ws.greeted
    <3>1. PICK t \in firsts \cup beats : t.of = dialed
      BY <2>1 DEF ConnectionKnown
    <3>2. t.left > 0 /\ t.left \in Nat
      BY <1>a DEF Tick, Timers
    <3>3. quiet + t.left <= 2 * Beat
      BY <1>a, <2>1, <3>1, <3>2 DEF DeathCounted, SocketTypeOK
    <3> QED BY <1>a, <3>2, <3>3 DEF Tick, SocketTypeOK, DeadIsNoticed
  <2>2. CASE ~(Open /\ ~ws.up /\ ws.greeted)
    BY <2>2 DEF Tick, SocketTypeOK, HeartbeatsJudgeRight, DeadIsNoticed
  <2> QED BY <2>1, <2>2
<1>1. SocketTypeOK'
  <2>1. firsts' \subseteq Timers(Beat - 1) /\ beats' \subseteq Timers(Beat)
    BY <1>a, PassesType DEF Tick
  <2>2. acks' \in Seq(0..Lag)
    BY SocketAssumption DEF Tick, SocketTypeOK
  <2>3. \E d \in Delays : retry' \in {{}, {d}}
    <3>1. PICK d \in Delays : retry \in {{}, {d}}
      BY DEF SocketTypeOK
    <3>2. CASE retry = {}
      BY <3>1, <3>2 DEF Tick
    <3>3. CASE retry = {d}
      BY <3>3, SocketAssumption DEF Tick, Delays
    <3> QED BY <3>1, <3>2, <3>3
  <2>4. quiet' \in 0..(2 * Beat + 1)
    BY <1>a, <1>d
  <2> QED BY <2>1, <2>2, <2>3, <2>4 DEF Tick, SocketTypeOK
<1>2. TimersApart'
  BY <1>b DEF TimersApart, Tick
<1>3. ConnectionKnown'
  <2>1. /\ \A s \in firsts' \cup beats' : \E t \in firsts \cup beats : s.of = t.of
        /\ \A t \in firsts \cup beats : \E s \in firsts' \cup beats' : s.of = t.of
    BY <1>b, <1>c
  <2>2. acks' # <<>> => acks # <<>>
    BY DEF Tick, SocketTypeOK
  <2> QED BY <2>1, <2>2 DEF Tick, ConnectionKnown, Open
<1>4. DeathCounted'
  <2> SUFFICES ASSUME Open, ws.greeted, ~ws.up PROVE DeathCounted'
    BY DEF DeathCounted, Tick, Open
  <2>1. quiet' = quiet + 1 /\ quiet \in Nat
    BY <1>a DEF Tick, SocketTypeOK
  <2>2. \A t \in firsts \cup beats : t.left \in Nat
    BY <1>a DEF Timers
  <2> QED BY <1>b, <2>1, <2>2 DEF DeathCounted, Tick
<1>5. AcksCounted'
  <2> SUFFICES ASSUME Open, ws.greeted, ws.up, \A t \in beats' : t.of = dialed
               PROVE  /\ beats' = {} => ~ackPending /\ acks' = <<>>
                      /\ \A t \in beats' :
                            /\ ackPending => Len(acks') = 1 /\ acks'[1] = Beat - t.left
                            /\ ~ackPending => acks' = <<>>
    BY DEF AcksCounted, Tick, Open
  <2>1. \A t \in beats : t.of = dialed /\ \E s \in beats' : s.of = t.of
    BY <1>a, PassesTo DEF Tick
  <2>2. /\ Len(acks') = Len(acks) /\ (acks = <<>> => acks' = <<>>)
        /\ Len(acks) = 1 => acks'[1] = acks[1] + 1
    BY SocketAssumption DEF Tick, SocketTypeOK
  <2>3. \A t \in beats : t.left \in Nat
    BY <1>a DEF Timers
  <2> QED BY <1>a, <1>b, <2>1, <2>2, <2>3 DEF AcksCounted
<1>6. HeartbeatsJudgeRight'
  BY <1>d DEF Tick, HeartbeatsJudgeRight, UpIsKept, EndIsFinal
<1> QED BY <1>1, <1>2, <1>3, <1>4, <1>5, <1>6

(* sendHeartbeat changes neither the connection nor what is due.            *)
LEMMA SendType ==
    ASSUME SocketTypeOK, SendHeartbeat
    PROVE  acks' \in Seq(0..Lag) /\ ackPending' = TRUE
<1>1. 0 \in 0..Lag /\ acks \in Seq(0..Lag)
  BY SocketAssumption DEF SocketTypeOK
<1>2. Append(acks, 0) \in Seq(0..Lag)
  BY <1>1
<1> QED BY <1>1, <1>2 DEF SendHeartbeat

LEMMA FirstFiresHolds ==
    ASSUME BeatInv, NEW t \in firsts, FirstFires(t) PROVE BeatInv'
<1> USE DEF BeatInv
<1>a. t.of \in 1..MaxDialed /\ t.of <= dialed /\ t.left = 0 /\ Beat \in Nat \ {0}
  BY SocketAssumption DEF FirstFires, TimersApart, SocketTypeOK, Timers
<1> DEFINE b == [of |-> t.of, left |-> Beat]
<1>b. /\ b \in Timers(Beat) /\ b.of = t.of /\ b.left = Beat
      /\ firsts' = firsts \ {t} /\ beats' = beats \cup {b}
      /\ dialed' = dialed /\ ws' = ws /\ ackPending'
  BY <1>a DEF FirstFires, Timers, SendHeartbeat
<1>c. \A s \in firsts \cup beats : s.left \in Nat /\ s.of \in 1..MaxDialed
  BY SocketAssumption DEF SocketTypeOK, Timers
<1> HIDE DEF b
<1>1. SocketTypeOK'
  <2>1. acks' \in Seq(0..Lag) /\ ackPending' = TRUE
    BY SendType DEF FirstFires
  <2> QED BY <1>a, <1>b, <2>1 DEF FirstFires, SocketTypeOK
<1>2. TimersApart'
  BY <1>a, <1>b DEF TimersApart
<1>3. ConnectionKnown'
  <2>1. acks' # <<>> => Open /\ ws.up /\ ws.greeted
    BY DEF FirstFires, SendHeartbeat, ConnectionKnown
  <2> QED BY <1>b, <2>1 DEF FirstFires, ConnectionKnown, Open
<1>4. DeathCounted'
  <2> SUFFICES ASSUME Open, ws.greeted, ~ws.up PROVE DeathCounted'
    BY <1>b DEF DeathCounted, Open
  <2>1. quiet' = quiet /\ quiet \in Nat
    BY DEF FirstFires, SocketTypeOK
  <2> QED BY <1>a, <1>b, <1>c, <2>1 DEF DeathCounted
<1>5. AcksCounted'
  <2> SUFFICES ASSUME Open, ws.greeted, ws.up, \A s \in beats' : s.of = dialed
               PROVE  /\ beats' = {b} /\ Len(acks') = 1 /\ acks'[1] = 0
    BY <1>a, <1>b DEF AcksCounted, Open
  <2>1. beats = {}
    BY <1>b DEF TimersApart
  <2>2. acks = <<>>
    BY <2>1 DEF AcksCounted
  <2> QED BY <1>b, <2>1, <2>2 DEF FirstFires, SendHeartbeat
<1>6. HeartbeatsJudgeRight'
  BY DEF FirstFires, HeartbeatsJudgeRight, DeadIsNoticed, UpIsKept, EndIsFinal
<1> QED BY <1>1, <1>2, <1>3, <1>4, <1>5, <1>6

LEMMA BeatFiresHolds ==
    ASSUME BeatInv, NEW b \in beats, BeatFires(b) PROVE BeatInv'
<1> USE DEF BeatInv
<1> DEFINE c == [b EXCEPT !.left = Beat]
<1>a. /\ b.of \in 1..MaxDialed /\ b.left = 0 /\ Beat \in Nat \ {0}
      /\ \A s \in firsts \cup beats : s.left \in Nat
  BY SocketAssumption DEF BeatFires, SocketTypeOK, Timers
<1>b. /\ c \in Timers(Beat) /\ c.of = b.of /\ c.left = Beat
      /\ firsts' = firsts /\ beats' = (beats \ {b}) \cup {c}
      /\ dialed' = dialed /\ quiet' = quiet
  BY <1>a DEF BeatFires, SocketTypeOK, Timers
<1> HIDE DEF c
<1>c. (\A s \in beats' : s.of = dialed) => \A r \in beats : r.of = dialed
  BY <1>b
<1>1. TimersApart'
  BY <1>b DEF TimersApart
<1>2. CASE ackPending /\ Shut
  <2>1. /\ ws'.is = (IF ws.is \in {"opening", "open"} THEN "closing" ELSE ws.is)
        /\ ws'.up = ws.up /\ ws'.greeted = ws.greeted /\ acks' = <<>>
    BY <1>2 DEF Shut, SocketTypeOK
  <2>2. ws = NoSocket => ws' = NoSocket
    BY <1>2 DEF Shut, NoSocket
  <2>3. ws' \in [is : {"none", "opening", "open", "closing"},
                 up : BOOLEAN, greeted : BOOLEAN]
    BY <1>2 DEF Shut, SocketTypeOK
  <2>4. ~struckDown'
    <3> SUFFICES ASSUME Open, ws.up, \A other \in beats : other.of = dialed PROVE FALSE
      BY <1>2 DEF BeatFires, HeartbeatsJudgeRight, UpIsKept
    <3>1. ws.greeted
      BY DEF ConnectionKnown, Open
    <3>2. Len(acks) = 1 /\ acks[1] = Beat
      BY <1>2, <1>a, <3>1 DEF AcksCounted
    <3>3. acks[1] \in 0..Lag
      <4>1. acks \in Seq(0..Lag) /\ 1 \in 1..Len(acks)
        BY <3>2 DEF SocketTypeOK
      <4> QED BY <4>1, ElementOfSeq
    <3> QED BY <1>a, <3>2, <3>3, SocketAssumption
  <2>5. /\ ackPending' \in BOOLEAN /\ retry' = retry /\ ended' = ended
        /\ tracked' = tracked
    BY <1>2 DEF BeatFires, SocketTypeOK
  <2>6. SocketTypeOK'
    BY <1>b, <2>1, <2>5, <2>3 DEF BeatFires, SocketTypeOK
  <2>7. ConnectionKnown'
    BY <1>b, <2>1, <2>5, <2>2 DEF ConnectionKnown, Open
  <2>8. DeathCounted' /\ AcksCounted'
    BY <2>1 DEF DeathCounted, AcksCounted, Open
  <2>9. HeartbeatsJudgeRight'
    BY <1>b, <2>4, <2>5, <2>2 DEF HeartbeatsJudgeRight, DeadIsNoticed,
                                  UpIsKept, EndIsFinal
  <2> QED BY <1>1, <2>6, <2>7, <2>8, <2>9
<1>3. CASE ~ackPending /\ SendHeartbeat
  <2>1. /\ ws' = ws /\ struckDown' = struckDown /\ retry' = retry /\ ended' = ended
        /\ tracked' = tracked
    BY <1>3 DEF BeatFires
  <2>2. acks' \in Seq(0..Lag) /\ ackPending' = TRUE
    BY <1>3, SendType
  <2>3. SocketTypeOK'
    BY <1>b, <2>1, <2>2 DEF SocketTypeOK
  <2>4. ConnectionKnown'
    <3>1. acks' # <<>> => Open /\ ws.up /\ ws.greeted
      BY <1>3 DEF SendHeartbeat, ConnectionKnown
    <3> QED BY <1>b, <2>1, <3>1 DEF ConnectionKnown, Open
  <2>5. DeathCounted'
    <3> SUFFICES ASSUME Open, ws.greeted, ~ws.up PROVE DeathCounted'
      BY <2>1 DEF DeathCounted, Open
    <3>1. quiet \in Nat
      BY DEF SocketTypeOK
    <3> QED BY <1>3, <1>a, <1>b, <2>2, <3>1 DEF DeathCounted
  <2>6. AcksCounted'
    <3> SUFFICES ASSUME Open, ws.greeted, ws.up, \A s \in beats' : s.of = dialed
                 PROVE  /\ beats' = {c} /\ Len(acks') = 1 /\ acks'[1] = 0
      BY <1>a, <1>b, <2>1, <2>2 DEF AcksCounted, Open
    <3>1. \A r \in beats : r.of = dialed
      BY <1>c
    <3>2. acks = <<>>
      BY <1>3, <3>1 DEF AcksCounted
    <3>3. beats = {b}
      BY <3>1 DEF TimersApart
    <3> QED BY <1>3, <1>b, <3>2, <3>3 DEF SendHeartbeat
  <2>7. HeartbeatsJudgeRight'
    BY <1>b, <2>1 DEF HeartbeatsJudgeRight, DeadIsNoticed, UpIsKept, EndIsFinal
  <2> QED BY <1>1, <2>3, <2>4, <2>5, <2>6, <2>7
<1> QED BY <1>2, <1>3 DEF BeatFires

LEMMA SocketStep ==
  ASSUME BeatInv, [SocketNext]_socketVars
  PROVE  BeatInv'
<1>1. CASE UNCHANGED socketVars
  BY <1>1 DEF socketVars, BeatInv, SocketTypeOK, TimersApart, ConnectionKnown, DeathCounted,
              AcksCounted, HeartbeatsJudgeRight, DeadIsNoticed, UpIsKept, EndIsFinal, Open
<1>2. CASE SocketNext
  BY <1>2, OpenedHolds, HelloHolds, AckComesHolds, ReconnectHolds, DiesHolds, ClosedHolds,
     RetriesHolds, DisconnectsHolds, TickHolds, FirstFiresHolds, BeatFiresHolds DEF SocketNext
<1> QED
  BY <1>1, <1>2

\* HEARTBEATS JUDGE RIGHT.  A connection that died is given up within two intervals, one that is
\* up is not taken for a zombie while no interval but its own is about, and nothing is opened
\* after disconnect(), for every interval, every lag below it and any number of connections.
THEOREM HeartbeatsCorrect == WebSpec => [](SocketTypeOK /\ HeartbeatsJudgeRight)
  <1>1. WebInit => BeatInv
    BY SocketInitially DEF WebInit
  <1>2. BeatInv /\ [WebNext]_webVars => BeatInv'
    <2>1. [WebNext]_webVars => [SocketNext]_socketVars
      BY DEF WebNext, webVars
    <2> QED
      BY <2>1, SocketStep
  <1>3. BeatInv => SocketTypeOK /\ HeartbeatsJudgeRight
    BY DEF BeatInv
  <1> QED
    BY <1>1, <1>2, <1>3, PTL DEF WebSpec

-----------------------------------------------------------------------------
(* The channel list (HubChannels).                                         *)

\* A list of these channels, each once.
IsListOf(l, rows) ==
    /\ l \in Seq(Channel) /\ Range(l) = rows
    /\ \A i, j \in DOMAIN l : l[i].id = l[j].id => i = j

CurrentLoad == \E l \in channelLoads : l.n = loadsBegun

\* The list once the answer to a request is there.
OnceAnswered(r) == IF r.stage = "served" THEN Applied(r) ELSE channels

ChannelsTyped ==
    /\ hubChannels \subseteq Channel /\ IsFiniteSet(hubChannels)
    /\ made \in 1..MaxChannels /\ \A c \in hubChannels : c.id <= made
    /\ \A c, d \in hubChannels : c.id = d.id => c = d
    /\ channels \in Seq(Channel) /\ loading \in BOOLEAN
    /\ changes \in 0..MaxChanges /\ loadsBegun \in 1..(changes + 1)
    /\ channelLoads \subseteq [n : 1..loadsBegun, list : Seq(Channel) \cup {Unread}]
    /\ calls \subseteq Calls
    /\ \A r \in calls :
         r.stage = "served" /\ r.op \in {"create", "update", "openDm"} => r.row \in Channel
    /\ chosen \in 0..MaxChannels /\ drift \in BOOLEAN

\* While nothing has overlapped: one request at most, and none during a load;
\* what a load has read, and what the answer to a request will make of the
\* list, is what the hub has.
Undisturbed ==
    /\ \A q, r \in calls : q = r
    /\ calls # {} => ~CurrentLoad
    /\ \A l \in channelLoads :
         l.n = loadsBegun /\ l.list # Unread => IsListOf(l.list, hubChannels)
    /\ ~CurrentLoad =>
         /\ calls = {} => IsListOf(channels, hubChannels)
         /\ \A r \in calls : IsListOf(OnceAnswered(r), hubChannels)

ChannelsInv == ChannelsTyped /\ (~drift => Undisturbed)

-----------------------------------------------------------------------------
(* Lists of the hub's channels.                                            *)

\* A channel more, at the end.
LEMMA ListAppend ==
    ASSUME NEW l, NEW rows, IsListOf(l, rows), NEW c \in Channel,
           \A d \in rows : d.id # c.id
    PROVE  IsListOf(Append(l, c), rows \cup {c})
<1> DEFINE m == Append(l, c)
<1>1. l \in Seq(Channel) /\ Len(l) \in Nat /\ DOMAIN l = 1..Len(l)
  BY LenProperties DEF IsListOf
<1>2. /\ m \in Seq(Channel) /\ Len(m) = Len(l) + 1 /\ DOMAIN m = 1..(Len(l) + 1)
      /\ \A i \in 1..Len(l) : m[i] = l[i]
      /\ m[Len(l) + 1] = c
  BY <1>1, AppendProperties, LenProperties
<1> HIDE DEF m
<1>3. \A i \in DOMAIN l : l[i] \in rows
  BY DEF IsListOf, Range
<1>4. Range(m) = rows \cup {c}
  <2>1. ASSUME NEW x \in Range(m) PROVE x \in rows \cup {c}
    <3>1. PICK i \in DOMAIN m : x = m[i]
      BY DEF Range
    <3>2. i \in DOMAIN l \/ i = Len(l) + 1
      BY <1>1, <1>2
    <3> QED
      BY <1>1, <1>2, <1>3, <3>1, <3>2
  <2>2. ASSUME NEW x \in rows PROVE x \in Range(m)
    <3>1. PICK i \in DOMAIN l : x = l[i]
      BY DEF IsListOf, Range
    <3>2. i \in DOMAIN m /\ m[i] = x
      BY <1>1, <1>2, <3>1
    <3> QED
      BY <3>2 DEF Range
  <2>3. c \in Range(m)
    <3>1. Len(l) + 1 \in DOMAIN m
      BY <1>1, <1>2
    <3> QED
      BY <1>2, <3>1 DEF Range
  <2> QED
    BY <2>1, <2>2, <2>3
<1>5. ASSUME NEW i \in DOMAIN m, NEW j \in DOMAIN m, m[i].id = m[j].id
      PROVE  i = j
  <2>1. (i \in DOMAIN l \/ i = Len(l) + 1) /\ (j \in DOMAIN l \/ j = Len(l) + 1)
    BY <1>1, <1>2
  <2>2. CASE i \in DOMAIN l /\ j \in DOMAIN l
    BY <1>1, <1>2, <1>5, <2>2 DEF IsListOf
  <2>3. CASE i \in DOMAIN l /\ j = Len(l) + 1
    BY <1>1, <1>2, <1>3, <1>5, <2>3
  <2>4. CASE j \in DOMAIN l /\ i = Len(l) + 1
    BY <1>1, <1>2, <1>3, <1>5, <2>4
  <2> QED
    BY <2>1, <2>2, <2>3, <2>4
<1> QED
  BY <1>2, <1>4, <1>5 DEF IsListOf, m

\* A filter leaves a list of what it lets through.
LEMMA ListAt ==
    ASSUME NEW l, NEW rows, IsListOf(l, rows), NEW P \in SUBSET DOMAIN l,
           NEW m, m = Filtered(l, P)
    PROVE  IsListOf(m, {l[i] : i \in P})
<1>1. l \in Seq(Channel)
  BY DEF IsListOf
<1>2. m \in Seq(Channel)
  BY <1>1, FilterKeeps
<1>3. PICK from \in [DOMAIN m -> P] :
        /\ \A k \in DOMAIN m : m[k] = l[from[k]]
        /\ \A j, k \in DOMAIN m : from[j] = from[k] => j = k
        /\ \A n \in P : \E k \in DOMAIN m : from[k] = n
  BY <1>1, FilterKeeps
<1>4. Range(m) = {l[i] : i \in P}
  <2>1. ASSUME NEW k \in DOMAIN m PROVE m[k] \in {l[i] : i \in P}
    BY <1>3
  <2>2. ASSUME NEW i \in P PROVE l[i] \in Range(m)
    <3>1. PICK k \in DOMAIN m : from[k] = i
      BY <1>3
    <3> QED
      BY <1>3, <3>1 DEF Range
  <2> QED
    BY <2>1, <2>2 DEF Range
<1>5. ASSUME NEW i \in DOMAIN m, NEW j \in DOMAIN m, m[i].id = m[j].id
      PROVE  i = j
  <2>1. from[i] \in DOMAIN l /\ from[j] \in DOMAIN l /\ l[from[i]].id = l[from[j]].id
    BY <1>3, <1>5
  <2>2. from[i] = from[j]
    BY <2>1 DEF IsListOf
  <2> QED
    BY <1>3, <2>2
<1> QED
  BY <1>2, <1>4, <1>5 DEF IsListOf

\* The list without one channel.
LEMMA ListFilter ==
    ASSUME NEW rows, IsListOf(channels, rows), NEW id
    PROVE  IsListOf(Without(id), {c \in rows : c.id # id})
<1> DEFINE P == {i \in DOMAIN channels : channels[i].id # id}
<1>1. IsListOf(Filtered(channels, P), {channels[i] : i \in P})
  <2>1. P \in SUBSET DOMAIN channels
    OBVIOUS
  <2> HIDE DEF P
  <2> QED
    BY <2>1, ListAt
<1>2. {channels[i] : i \in P} = {c \in rows : c.id # id}
  BY DEF IsListOf, Range
<1> QED
  BY <1>1, <1>2 DEF Without

\* One of them changed in its place.
LEMMA ListMap ==
    ASSUME NEW rows, IsListOf(channels, rows), NEW c \in rows, NEW d \in Channel, d.id = c.id,
           NEW m, DOMAIN m = DOMAIN channels,
           \A i \in DOMAIN channels : m[i] = IF channels[i].id = c.id THEN d ELSE channels[i],
           m \in Seq(Channel)
    PROVE  IsListOf(m, (rows \ {c}) \cup {d})
<1>1. PICK p \in DOMAIN channels : channels[p] = c
  BY DEF IsListOf, Range
<1>2. \A i \in DOMAIN channels : channels[i].id = c.id => i = p
  BY <1>1 DEF IsListOf
<1>3. \A i \in DOMAIN channels : channels[i] \in rows
  BY DEF IsListOf, Range
<1>4. Range(m) = (rows \ {c}) \cup {d}
  <2>1. ASSUME NEW x \in Range(m) PROVE x \in (rows \ {c}) \cup {d}
    <3>1. PICK i \in DOMAIN channels : x = m[i]
      BY DEF Range
    <3> QED
      BY <1>3, <3>1
  <2>2. ASSUME NEW x \in rows, x # c PROVE x \in Range(m)
    <3>1. PICK i \in DOMAIN channels : channels[i] = x
      BY DEF IsListOf, Range
    <3>2. channels[i].id # c.id
      BY <1>1, <1>2, <2>2, <3>1
    <3> QED
      BY <3>1, <3>2 DEF Range
  <2>3. d \in Range(m)
    BY <1>1 DEF Range
  <2> QED
    BY <2>1, <2>2, <2>3
<1>5. ASSUME NEW i \in DOMAIN m, NEW j \in DOMAIN m, m[i].id = m[j].id
      PROVE  i = j
  <2>1. channels[i].id = channels[j].id
    BY <1>5
  <2> QED
    BY <2>1 DEF IsListOf
<1> QED
  BY <1>4, <1>5 DEF IsListOf

\* What the two handlers answer is what the hub has.
LEMMA ListRead ==
    ASSUME ChannelsTyped
    PROVE  /\ Regular \in Seq(Channel) /\ Dms \in Seq(Channel)
           /\ IsListOf(Regular \o Dms, hubChannels)
<1> DEFINE R == {c \in hubChannels : c.type # "dm"}
           D == {c \in hubChannels : c.type = "dm"}
           up == [c \in R |-> c.id]
           down == [c \in D |-> MaxChannels - c.id]
<1>1. /\ hubChannels \subseteq Channel /\ IsFiniteSet(hubChannels)
      /\ \A c, d \in hubChannels : c.id = d.id => c = d
  BY DEF ChannelsTyped
<1>2. MaxChannels \in Nat /\ \A c \in Channel : c.id \in 1..MaxChannels
  BY ChannelsAssumption DEF Channel
<1>3. IsFiniteSet(R) /\ IsFiniteSet(D)
  BY <1>1, FS_Subset
<1>4. up \in [R -> Nat] /\ \A c, d \in R : up[c] = up[d] => c = d
  BY <1>1, <1>2
<1>5. down \in [D -> Nat] /\ \A c, d \in D : down[c] = down[d] => c = d
  <2>1. \A c \in D : c.id \in 1..MaxChannels /\ down[c] = MaxChannels - c.id
    BY <1>1, <1>2
  <2>2. \A c \in D : down[c] \in Nat
    BY <1>2, <2>1
  <2>3. \A c, d \in D : down[c] = down[d] => c.id = d.id
    BY <1>2, <2>1
  <2> QED
    BY <1>1, <2>2, <2>3
<1>6. Regular = Ranked(R, up) /\ Dms = Ranked(D, down)
  BY DEF Regular, Dms, ById, NewestFirst
<1>7. R \subseteq hubChannels /\ D \subseteq hubChannels /\ R \cup D = hubChannels /\ R \cap D = {}
  OBVIOUS
<1> HIDE DEF R, D, up, down
<1> DEFINE r == Len(Regular)
           d == Len(Dms)
<1>8. /\ Regular \in Seq(Channel) /\ r \in Nat /\ Regular \in [1..r -> R]
      /\ \A j, k \in 1..r : Regular[j] = Regular[k] => j = k
      /\ \A c \in R : \E k \in 1..r : Regular[k] = c
  <2>1. /\ Cardinality(R) \in Nat
        /\ Ranked(R, up) \in [1..Cardinality(R) -> R]
        /\ \A j, k \in 1..Cardinality(R) : Ranked(R, up)[j] = Ranked(R, up)[k] => j = k
        /\ \A c \in R : \E k \in 1..Cardinality(R) : Ranked(R, up)[k] = c
    BY <1>3, <1>4, RankedKeeps
  <2>2. Regular \in [1..Cardinality(R) -> R]
    BY <1>6, <2>1
  <2>3. Regular \in Seq(R) /\ Len(Regular) = Cardinality(R)
    BY <2>1, <2>2
  <2>4. Regular \in Seq(Channel)
    BY <1>1, <1>7, <2>1, <2>2
  <2> QED
    BY <1>6, <2>1, <2>2, <2>3, <2>4
<1>9. /\ Dms \in Seq(Channel) /\ d \in Nat /\ Dms \in [1..d -> D]
      /\ \A j, k \in 1..d : Dms[j] = Dms[k] => j = k
      /\ \A c \in D : \E k \in 1..d : Dms[k] = c
  <2>1. /\ Cardinality(D) \in Nat
        /\ Ranked(D, down) \in [1..Cardinality(D) -> D]
        /\ \A j, k \in 1..Cardinality(D) : Ranked(D, down)[j] = Ranked(D, down)[k] => j = k
        /\ \A c \in D : \E k \in 1..Cardinality(D) : Ranked(D, down)[k] = c
    BY <1>3, <1>5, RankedKeeps
  <2>2. Dms \in [1..Cardinality(D) -> D]
    BY <1>6, <2>1
  <2>3. Dms \in Seq(D) /\ Len(Dms) = Cardinality(D)
    BY <2>1, <2>2
  <2>4. Dms \in Seq(Channel)
    BY <1>1, <1>7, <2>1, <2>2
  <2> QED
    BY <1>6, <2>1, <2>2, <2>3, <2>4
<1> DEFINE m == Regular \o Dms
<1>10. /\ m \in Seq(Channel) /\ DOMAIN m = 1..(r + d)
       /\ \A i \in 1..r : m[i] = Regular[i]
       /\ \A i \in 1..(r + d) : i > r => i - r \in 1..d /\ m[i] = Dms[i - r]
  <2>1. /\ m \in Seq(Channel) /\ Len(m) = r + d
        /\ \A i \in 1..(r + d) : m[i] = IF i <= r THEN Regular[i] ELSE Dms[i - r]
    BY <1>8, <1>9, ConcatProperties
  <2> HIDE DEF m, r, d
  <2>2. DOMAIN m = 1..(r + d)
    BY <2>1, LenProperties
  <2> QED
    BY <1>8, <1>9, <2>1, <2>2
<1> HIDE DEF m, r, d
<1>11. \A i \in DOMAIN m :
         \/ i \in 1..r /\ m[i] = Regular[i] /\ m[i] \in R
         \/ i > r /\ i - r \in 1..d /\ m[i] = Dms[i - r] /\ m[i] \in D
  BY <1>8, <1>9, <1>10
<1>12. Range(m) = hubChannels
  <2>1. Range(m) \subseteq hubChannels
    BY <1>7, <1>11 DEF Range
  <2>2. ASSUME NEW c \in R PROVE c \in Range(m)
    <3>1. PICK k \in 1..r : Regular[k] = c
      BY <1>8
    <3>2. k \in DOMAIN m /\ m[k] = c
      BY <1>8, <1>9, <1>10, <3>1
    <3> QED
      BY <3>2 DEF Range
  <2>3. ASSUME NEW c \in D PROVE c \in Range(m)
    <3>1. PICK k \in 1..d : Dms[k] = c
      BY <1>9
    <3>2. r + k \in 1..(r + d) /\ r + k > r /\ (r + k) - r = k
      BY <1>8, <1>9
    <3>3. r + k \in DOMAIN m /\ m[r + k] = c
      BY <1>10, <3>1, <3>2
    <3> QED
      BY <3>3 DEF Range
  <2> QED
    BY <1>7, <2>1, <2>2, <2>3
<1>13. ASSUME NEW i \in DOMAIN m, NEW j \in DOMAIN m, m[i].id = m[j].id
       PROVE  i = j
  <2>1. m[i] = m[j]
    <3>1. m[i] \in hubChannels /\ m[j] \in hubChannels
      BY <1>12 DEF Range
    <3> QED
      BY <1>1, <1>13, <3>1
  <2>2. CASE i \in 1..r /\ m[i] = Regular[i] /\ m[i] \in R
    <3>1. j \in 1..r /\ m[j] = Regular[j]
      BY <1>7, <1>11, <2>1, <2>2
    <3> QED
      BY <1>8, <2>1, <2>2, <3>1
  <2>3. CASE i > r /\ i - r \in 1..d /\ m[i] = Dms[i - r] /\ m[i] \in D
    <3>1. j > r /\ j - r \in 1..d /\ m[j] = Dms[j - r]
      BY <1>7, <1>11, <2>1, <2>3
    <3>2. i - r = j - r
      BY <1>9, <2>1, <2>3, <3>1
    <3> QED
      BY <1>8, <1>9, <1>10, <3>2
  <2> QED
    BY <1>11, <2>2, <2>3
<1> QED
  BY <1>8, <1>9, <1>10, <1>12, <1>13 DEF IsListOf, m

UndisturbedNext ==
    /\ \A q, r \in calls' : q = r
    /\ calls' # {} => ~CurrentLoad'
    /\ \A l \in channelLoads' :
         l.n = loadsBegun' /\ l.list # Unread => IsListOf(l.list, hubChannels')
    /\ ~CurrentLoad' =>
         /\ calls' = {} => IsListOf(channels', hubChannels')
         /\ \A r \in calls' : IsListOf(OnceAnswered(r)', hubChannels')

\* The next state is as it should be, said of its variables.
LEMMA ChannelsInvNext ==
    ASSUME ChannelsTyped', ~drift' => UndisturbedNext
    PROVE  ChannelsInv'
<1>1. UndisturbedNext => Undisturbed'
  BY DEF UndisturbedNext, Undisturbed, IsListOf
<1> QED
  BY <1>1 DEF ChannelsInv

\* An unchanged list is changed by an answer as before.
LEMMA AfterKept ==
    ASSUME channels' = channels, NEW r
    PROVE  OnceAnswered(r)' = OnceAnswered(r)
  BY DEF OnceAnswered, Applied, Without

\* A request that is not served yet leaves the list alone.
LEMMA AfterSent ==
    ASSUME NEW r, r.stage # "served"
    PROVE  OnceAnswered(r) = channels /\ OnceAnswered(r)' = channels'
  BY DEF OnceAnswered

\* The list holds the channels of the hub, each once, when nothing overlaps.
LEMMA FollowsHub ==
    ASSUME ChannelsInv
    PROVE  ChannelsTypeOK /\ ListFollowsHub
<1>1. ChannelsTypeOK
  BY DEF ChannelsInv, ChannelsTyped, ChannelsTypeOK
<1>2. ASSUME ~drift, calls = {}, \A l \in channelLoads : l.n # loadsBegun
      PROVE  Range(channels) = hubChannels /\ Len(channels) = Cardinality(hubChannels)
  <2>1. IsListOf(channels, hubChannels)
    BY <1>2 DEF ChannelsInv, Undisturbed, CurrentLoad
  <2>2. /\ channels \in Seq(Channel) /\ Range(channels) = hubChannels
        /\ \A i, j \in DOMAIN channels : channels[i].id = channels[j].id => i = j
    BY <2>1 DEF IsListOf
  <2>3. Len(channels) \in Nat /\ DOMAIN channels = 1..Len(channels)
        /\ channels \in [1..Len(channels) -> Channel]
    BY <2>2, LenProperties
  <2>4. channels \in [1..Len(channels) -> hubChannels]
    BY <2>2, <2>3 DEF Range
  <2>5. channels \in Injection(1..Len(channels), hubChannels)
    BY <2>2, <2>3, <2>4 DEF Injection, IsInjective
  <2>6. channels \in Surjection(1..Len(channels), hubChannels)
    BY <2>2, <2>3, <2>4 DEF Surjection, Range
  <2>7. channels \in Bijection(1..Len(channels), hubChannels)
    BY <2>5, <2>6 DEF Bijection
  <2>8. /\ IsFiniteSet(1..Len(channels))
        /\ Cardinality(1..Len(channels))
             = IF 1 > Len(channels) THEN 0 ELSE Len(channels) - 1 + 1
    BY <2>3, FS_Interval
  <2>9. Cardinality(hubChannels) = Cardinality(1..Len(channels))
    <3>1. ExistsBijection(1..Len(channels), hubChannels)
      BY <2>7 DEF ExistsBijection
    <3> QED
      BY <2>8, <3>1, FS_Bijection
  <2> QED
    BY <2>2, <2>3, <2>8, <2>9
<1> QED
  BY <1>1, <1>2 DEF ListFollowsHub

\* The first load is under way.
LEMMA ChannelsStart == ASSUME ChannelsInit PROVE ChannelsInv
<1>1. IsFiniteSet({[id |-> 1, type |-> "text", look |-> "plain"]})
  BY FS_Singleton
<1>2. ChannelsTyped
  <2>1. hubChannels \subseteq Channel /\ \A c, d \in hubChannels : c.id = d.id => c = d
    BY ChannelsAssumption DEF ChannelsInit, Channel, Types, Looks
  <2>2. channels \in Seq(Channel)
    BY DEF ChannelsInit
  <2>3. channelLoads \subseteq [n : 1..loadsBegun, list : Seq(Channel) \cup {Unread}]
    BY DEF ChannelsInit, NewLoad
  <2>4. made \in 1..MaxChannels /\ \A c \in hubChannels : c.id <= made
    BY ChannelsAssumption DEF ChannelsInit
  <2>5. /\ loading \in BOOLEAN /\ changes \in 0..MaxChanges /\ loadsBegun \in 1..(changes + 1)
        /\ chosen \in 0..MaxChannels /\ drift \in BOOLEAN
    <3>1. 0 \in 0..MaxChanges /\ 0 \in 0..MaxChannels /\ 1 \in 1..(0 + 1)
      BY ChannelsAssumption
    <3> QED
      BY <3>1 DEF ChannelsInit
  <2>6. calls = {} /\ IsFiniteSet(hubChannels)
    BY <1>1 DEF ChannelsInit
  <2> QED
    BY <2>1, <2>2, <2>3, <2>4, <2>5, <2>6 DEF ChannelsTyped
<1>3. Undisturbed
  BY DEF ChannelsInit, Undisturbed, CurrentLoad, NewLoad
<1> QED
  BY <1>2, <1>3 DEF ChannelsInv

\* The channels of the hub.
HubTyped ==
    /\ hubChannels \subseteq Channel /\ IsFiniteSet(hubChannels)
    /\ made \in 1..MaxChannels /\ \A c \in hubChannels : c.id <= made
    /\ \A c, d \in hubChannels : c.id = d.id => c = d

\* A channel more.
LEMMA MakesKeeps ==
    ASSUME HubTyped, NEW type \in Types, NEW face \in Looks, Makes(type, face)
    PROVE  /\ HubTyped'
           /\ [id |-> made', type |-> type, look |-> face] \in Channel
           /\ \A d \in hubChannels : d.id # made'
<1> DEFINE c == [id |-> made', type |-> type, look |-> face]
<1>1. made < MaxChannels /\ made' = made + 1 /\ hubChannels' = hubChannels \cup {c}
  BY DEF Makes
<1>2. made \in 1..MaxChannels /\ MaxChannels \in Nat /\ made' \in 1..MaxChannels
  BY <1>1, ChannelsAssumption DEF HubTyped
<1>3. c \in Channel /\ c.id = made'
  BY <1>2 DEF Channel
<1> HIDE DEF c
<1>4. IsFiniteSet(hubChannels')
  BY <1>1, FS_AddElement DEF HubTyped
<1>5. \A d \in hubChannels : d.id \in Nat /\ d.id <= made
  BY DEF HubTyped, Channel
<1>6. \A d \in hubChannels : d.id # made' /\ d.id <= made'
  BY <1>1, <1>2, <1>5
<1>7. /\ \A d \in hubChannels' : d.id <= made'
      /\ \A d, e \in hubChannels' : d.id = e.id => d = e
  BY <1>1, <1>2, <1>3, <1>6 DEF HubTyped
<1>8. hubChannels' \subseteq Channel
  BY <1>1, <1>3 DEF HubTyped
<1>9. HubTyped'
  BY <1>2, <1>4, <1>7, <1>8 DEF HubTyped
<1> QED
  BY <1>3, <1>6, <1>9 DEF c

\* Another icon.
LEMMA BecomesKeeps ==
    ASSUME HubTyped, NEW c \in hubChannels, NEW face \in Looks, Becomes(c, face)
    PROVE  /\ HubTyped'
           /\ [c EXCEPT !.look = face] \in Channel
           /\ [c EXCEPT !.look = face].id = c.id
<1> DEFINE d == [c EXCEPT !.look = face]
<1>1. hubChannels' = (hubChannels \ {c}) \cup {d} /\ made' = made
  BY DEF Becomes
<1>2. c \in Channel
  BY DEF HubTyped
<1>3. d \in Channel /\ d.id = c.id
  BY <1>2 DEF Channel
<1> HIDE DEF d
<1>4. IsFiniteSet(hubChannels')
  BY <1>1, FS_AddElement, FS_RemoveElement DEF HubTyped
<1>5. HubTyped'
  BY <1>1, <1>3, <1>4 DEF HubTyped
<1> QED
  BY <1>3, <1>5 DEF d

\* A channel less.
LEMMA RemovalKeeps ==
    ASSUME HubTyped, NEW c \in hubChannels, hubChannels' = hubChannels \ {c}, made' = made
    PROVE  HubTyped'
<1>1. IsFiniteSet(hubChannels')
  BY FS_RemoveElement DEF HubTyped
<1> QED
  BY <1>1 DEF HubTyped

\* A new request is well formed.
LEMMA NewRequestTyped ==
    ASSUME ChannelsTyped, changes < MaxChanges, NEW op, NEW id \in 0..MaxChannels,
           op \in {"create", "update", "delete", "upload", "openDm"},
           NEW type \in Types, NEW face \in Looks, NEW file \in BOOLEAN,
           NEW select \in BOOLEAN,
           NEW r, r = NewRequest(op, id, type, face, file, select)
    PROVE  r \in Calls /\ r.stage = "sent"
<1>1. changes + 1 \in 1..MaxChanges
  BY ChannelsAssumption DEF ChannelsTyped
<1>2. NoChannel \in Channel \cup {NoChannel}
  OBVIOUS
<1> DEFINE ops == {"create", "update", "delete", "upload", "openDm"}
           rows == Channel \cup {NoChannel}
<1>3. op \in ops /\ NoChannel \in rows
  BY <1>2
<1> HIDE DEF ops, rows
<1>4. r \in [n : 1..MaxChanges, op : ops, id : 0..MaxChannels, type : Types,
             look : Looks, file : BOOLEAN, select : BOOLEAN,
             stage : {"sent", "served", "refused"}, row : rows]
  BY <1>1, <1>3 DEF NewRequest
<1>5. r.stage = "sent"
  BY DEF NewRequest
<1>6. r \in Calls
  BY <1>4, Zenon DEF Calls, ops, rows
<1> QED
  BY <1>5, <1>6

\* The user makes a request, and the list stays as it is until its answer.
LEMMA RequestSent ==
    ASSUME ChannelsInv, NEW r \in Calls, r.stage = "sent", SendsRequest(r, {}),
           UNCHANGED <<hubChannels, made, channels, loading, channelLoads,
                       loadsBegun, chosen>>
    PROVE  ChannelsInv'
<1>1. ChannelsTyped
  BY DEF ChannelsInv
<1>2. calls' = calls \cup {r} /\ changes' = changes + 1 /\ changes < MaxChanges
      /\ drift' = (drift \/ calls # {} \/ \E l \in channelLoads : l.n = loadsBegun)
  BY DEF SendsRequest
<1>3. changes' \in 0..MaxChanges /\ loadsBegun \in 1..(changes' + 1)
  BY <1>1, <1>2, ChannelsAssumption DEF ChannelsTyped
<1>4. drift' \in BOOLEAN
  BY <1>2
<1>5. ChannelsTyped'
  BY <1>1, <1>2, <1>3, <1>4 DEF ChannelsTyped
<1>6. ASSUME ~drift' PROVE UndisturbedNext
  <2>1. ~drift /\ calls = {} /\ ~CurrentLoad /\ calls' = {r}
    BY <1>2, <1>6 DEF CurrentLoad
  <2>2. ~CurrentLoad'
    BY <2>1 DEF CurrentLoad
  <2>3. IsListOf(channels, hubChannels)
    BY <2>1 DEF ChannelsInv, Undisturbed
  <2>4. OnceAnswered(r)' = channels
    BY AfterSent
  <2>5. \A l \in channelLoads' : l.n # loadsBegun'
    BY <2>2 DEF CurrentLoad
  <2> QED
    BY <2>1, <2>2, <2>3, <2>4, <2>5 DEF UndisturbedNext
<1> QED
  BY <1>5, <1>6, ChannelsInvNext

\* What the icon picker sends is a look.
LEMMA LookSent ==
    ASSUME NEW p, NEW old
    PROVE  SentLook(p, old) \in Looks
  BY DEF SentLook, Looks

\* The editor and the members' cards make requests.
LEMMA SaveNewKeeps ==
    ASSUME ChannelsInv, NEW type \in {"text", "voice"}, SaveNew(type)
    PROVE  ChannelsInv'
<1>1. ChannelsTyped
  BY DEF ChannelsInv
<1>2. PICK p \in PickedLooks :
         SendsRequest(NewRequest("create", 0, type, SentLook(p, "plain"), p.file, FALSE), {})
  BY DEF SaveNew
<1>3. changes < MaxChanges
  BY <1>2 DEF SendsRequest
<1> DEFINE r == NewRequest("create", 0, type, SentLook(p, "plain"), p.file, FALSE)
<1>5. p.file \in BOOLEAN /\ type \in Types /\ 0 \in 0..MaxChannels
  BY ChannelsAssumption DEF PickedLooks, Types
<1>6. r \in Calls /\ r.stage = "sent"
  <2>1. SentLook(p, "plain") \in Looks
    BY LookSent
  <2> HIDE DEF r
  <2> QED
    BY <1>1, <1>3, <1>5, <2>1, NewRequestTyped DEF r
<1> HIDE DEF r
<1>7. SendsRequest(r, {})
  BY <1>2 DEF r
<1> QED
  BY <1>6, <1>7, RequestSent DEF SaveNew

\* An edit is sent.
LEMMA SaveEditKeeps ==
    ASSUME ChannelsInv, NEW c \in Range(channels), SaveEdit(c)
    PROVE  ChannelsInv'
<1>1. ChannelsTyped
  BY DEF ChannelsInv
<1>2. PICK p \in PickedLooks :
         SendsRequest(NewRequest("update", c.id, c.type, SentLook(p, c.look), p.file, FALSE), {})
  BY DEF SaveEdit
<1>3. changes < MaxChanges
  BY <1>2 DEF SendsRequest
<1> DEFINE r == NewRequest("update", c.id, c.type, SentLook(p, c.look), p.file, FALSE)
<1>5. p.file \in BOOLEAN /\ c.type \in Types /\ c.id \in 0..MaxChannels
  <2>1. c \in Channel
    BY <1>1 DEF ChannelsTyped, Range
  <2> QED
    BY <2>1, ChannelsAssumption DEF PickedLooks, Channel
<1>6. r \in Calls /\ r.stage = "sent"
  <2>1. SentLook(p, c.look) \in Looks
    BY LookSent
  <2> HIDE DEF r
  <2> QED
    BY <1>1, <1>3, <1>5, <2>1, NewRequestTyped DEF r
<1> HIDE DEF r
<1>7. SendsRequest(r, {})
  BY <1>2 DEF r
<1> QED
  BY <1>6, <1>7, RequestSent DEF SaveEdit

\* A removal is sent.
LEMMA DeleteChannelKeeps ==
    ASSUME ChannelsInv, NEW c \in Range(channels), DeleteChannel(c)
    PROVE  ChannelsInv'
<1>1. ChannelsTyped
  BY DEF ChannelsInv
<1> DEFINE r == NewRequest("delete", c.id, "text", "plain", FALSE, FALSE)
<1>2. SendsRequest(r, {})
  BY DEF DeleteChannel
<1>3. changes < MaxChanges
  BY <1>2 DEF SendsRequest
<1>5. c.id \in 0..MaxChannels /\ "text" \in Types /\ "plain" \in Looks
  <2>1. c \in Channel
    BY <1>1 DEF ChannelsTyped, Range
  <2> QED
    BY <2>1, ChannelsAssumption DEF Channel, Types, Looks
<1> HIDE DEF r
<1>6. r \in Calls /\ r.stage = "sent"
  BY <1>1, <1>3, <1>5, NewRequestTyped DEF r
<1> QED
  BY <1>2, <1>6, RequestSent DEF DeleteChannel

\* A direct channel is asked for.
LEMMA OpenDmKeeps ==
    ASSUME ChannelsInv, NEW message \in BOOLEAN, OpenDm(message)
    PROVE  ChannelsInv'
<1>1. ChannelsTyped
  BY DEF ChannelsInv
<1> DEFINE r == NewRequest("openDm", 0, "dm", "plain", FALSE, message)
<1>2. SendsRequest(r, {})
  BY DEF OpenDm
<1>3. changes < MaxChanges
  BY <1>2 DEF SendsRequest
<1>5. 0 \in 0..MaxChannels /\ "dm" \in Types /\ "plain" \in Looks
  BY ChannelsAssumption DEF Types, Looks
<1> HIDE DEF r
<1>6. r \in Calls /\ r.stage = "sent"
  BY <1>1, <1>3, <1>5, NewRequestTyped DEF r
<1> QED
  BY <1>2, <1>6, RequestSent DEF OpenDm

\* The effect runs again: everything is to be read anew.
LEMMA TokenRenewedKeeps == ASSUME ChannelsInv, TokenRenewed PROVE ChannelsInv'
<1>1. ChannelsTyped
  BY DEF ChannelsInv
<1>2. /\ changes < MaxChanges /\ changes' = changes + 1 /\ loadsBegun' = loadsBegun + 1
      /\ channelLoads' = channelLoads \cup {NewLoad(loadsBegun + 1)}
      /\ drift' = (calls # {})
      /\ UNCHANGED <<hubChannels, made, channels, loading, calls, chosen>>
  BY DEF TokenRenewed
<1>3. changes \in 0..MaxChanges /\ loadsBegun \in 1..(changes + 1) /\ MaxChanges \in Nat
  BY <1>1, ChannelsAssumption DEF ChannelsTyped
<1>4. changes' \in 0..MaxChanges /\ loadsBegun' \in 1..(changes' + 1)
  BY <1>2, <1>3
<1>5. channelLoads' \subseteq [n : 1..loadsBegun', list : Seq(Channel) \cup {Unread}]
  <2>1. \A l \in channelLoads : l \in [n : 1..loadsBegun', list : Seq(Channel) \cup {Unread}]
    <3>1. \A l \in channelLoads : l \in [n : 1..loadsBegun, list : Seq(Channel) \cup {Unread}]
      BY <1>1 DEF ChannelsTyped
    <3>2. 1..loadsBegun \subseteq 1..loadsBegun'
      BY <1>2, <1>3
    <3> HIDE DEF Unread
    <3> QED
      BY <3>1, <3>2
  <2>2. NewLoad(loadsBegun + 1) \in [n : 1..loadsBegun', list : Seq(Channel) \cup {Unread}]
    <3>1. loadsBegun + 1 \in 1..loadsBegun'
      BY <1>2, <1>3
    <3> HIDE DEF Unread
    <3> QED
      BY <3>1 DEF NewLoad
  <2> QED
    BY <1>2, <2>1, <2>2
<1>6. ChannelsTyped'
  BY <1>1, <1>2, <1>4, <1>5 DEF ChannelsTyped
<1>7. ASSUME ~drift' PROVE UndisturbedNext
  <2>1. calls' = {}
    BY <1>2, <1>7
  <2>2. CurrentLoad'
    <3>1. NewLoad(loadsBegun + 1) \in channelLoads' /\ NewLoad(loadsBegun + 1).n = loadsBegun'
      BY <1>2 DEF NewLoad
    <3> QED
      BY <3>1 DEF CurrentLoad
  <2>3. ASSUME NEW l \in channelLoads', l.n = loadsBegun' PROVE l.list = Unread
    <3>1. CASE l \in channelLoads
      <4>1. l.n \in 1..loadsBegun
        BY <1>1, <3>1 DEF ChannelsTyped
      <4> QED
        BY <1>2, <1>3, <2>3, <4>1
    <3>2. CASE l = NewLoad(loadsBegun + 1)
      BY <3>2 DEF NewLoad
    <3> QED
      BY <1>2, <3>1, <3>2
  <2> QED
    BY <2>1, <2>2, <2>3 DEF UndisturbedNext
<1> QED
  BY <1>6, <1>7, ChannelsInvNext

\* What the service read comes into the load.
LEMMA LoadReadKeeps ==
    ASSUME ChannelsInv, NEW l \in channelLoads, LoadRead(l)
    PROVE  ChannelsInv'
<1>1. ChannelsTyped
  BY DEF ChannelsInv
<1>2. /\ Regular \in Seq(Channel) /\ Dms \in Seq(Channel)
      /\ IsListOf(Regular \o Dms, hubChannels)
  BY <1>1, ListRead
<1>3. PICK r \in {Regular, <<>>}, d \in {Dms, <<>>} :
         /\ channelLoads' = (channelLoads \ {l}) \cup {[l EXCEPT !.list = r \o d]}
         /\ drift' = (drift \/ (l.n = loadsBegun /\ <<r, d>> # <<Regular, Dms>>))
  BY DEF LoadRead
<1>4. UNCHANGED <<hubChannels, made, channels, loading, loadsBegun, calls, changes, chosen>>
  BY DEF LoadRead
<1> DEFINE k == [l EXCEPT !.list = r \o d]
<1>5. l \in [n : 1..loadsBegun, list : Seq(Channel) \cup {Unread}]
  BY <1>1 DEF ChannelsTyped
<1>6. r \in Seq(Channel) /\ d \in Seq(Channel)
  <2>1. << >> \in Seq(Channel)
    OBVIOUS
  <2>2. (r = Regular \/ r = << >>) /\ (d = Dms \/ d = << >>)
    BY <1>3
  <2>3. CASE r = Regular
    BY <1>2, <2>1, <2>2, <2>3
  <2>4. CASE r = << >>
    BY <1>2, <2>1, <2>2, <2>4
  <2> QED
    BY <2>2, <2>3, <2>4
<1>7. r \o d \in Seq(Channel)
  BY <1>6
<1>8. k \in [n : 1..loadsBegun, list : Seq(Channel) \cup {Unread}]
      /\ k.n = l.n /\ k.list = r \o d
  BY <1>5, <1>7
<1> HIDE DEF k
<1>9. channelLoads' = (channelLoads \ {l}) \cup {k}
  BY <1>3 DEF k
<1>10. channelLoads' \subseteq [n : 1..loadsBegun', list : Seq(Channel) \cup {Unread}]
  BY <1>1, <1>4, <1>8, <1>9 DEF ChannelsTyped
<1>11. ChannelsTyped'
  BY <1>1, <1>3, <1>4, <1>10 DEF ChannelsTyped
<1>12. ASSUME ~drift' PROVE UndisturbedNext
  <2>1. ~drift /\ Undisturbed /\ (l.n = loadsBegun => r = Regular /\ d = Dms)
    BY <1>1, <1>3, <1>12 DEF ChannelsInv
  <2>2. CurrentLoad' <=> CurrentLoad
    BY <1>4, <1>8, <1>9 DEF CurrentLoad
  <2>3. ASSUME NEW q \in channelLoads', q.n = loadsBegun', q.list # Unread
        PROVE  IsListOf(q.list, hubChannels')
    <3>1. CASE q \in channelLoads
      BY <1>4, <2>1, <2>3, <3>1 DEF Undisturbed
    <3>2. CASE q = k
      BY <1>2, <1>4, <1>8, <2>1, <2>3, <3>2
    <3> QED
      BY <1>9, <3>1, <3>2
  <2>4. \A q \in calls : OnceAnswered(q)' = OnceAnswered(q)
    BY <1>4, AfterKept
  <2>5. ~CurrentLoad => /\ calls = {} => IsListOf(channels, hubChannels)
                        /\ \A q \in calls : IsListOf(OnceAnswered(q), hubChannels)
    BY <2>1 DEF Undisturbed
  <2>6. (\A q, s \in calls : q = s) /\ (calls # {} => ~CurrentLoad)
    BY <2>1 DEF Undisturbed
  <2> QED
    BY <1>4, <2>2, <2>3, <2>4, <2>5, <2>6 DEF UndisturbedNext
<1> QED
  BY <1>11, <1>12, ChannelsInvNext

\* The current load replaces the list; a cancelled one does nothing.
LEMMA LoadAnsweredKeeps ==
    ASSUME ChannelsInv, NEW l \in channelLoads, LoadAnswered(l)
    PROVE  ChannelsInv'
<1>1. ChannelsTyped
  BY DEF ChannelsInv
<1>2. /\ l.list # Unread /\ channelLoads' = channelLoads \ {l}
      /\ UNCHANGED <<hubChannels, made, loadsBegun, calls, changes, chosen, drift>>
      /\ l.n = loadsBegun => channels' = l.list /\ loading' = FALSE
      /\ l.n # loadsBegun => UNCHANGED <<channels, loading>>
  BY DEF LoadAnswered
<1>3. channels' \in Seq(Channel) /\ loading' \in BOOLEAN
  <2>1. l \in [n : 1..loadsBegun, list : Seq(Channel) \cup {Unread}]
        /\ channels \in Seq(Channel) /\ loading \in BOOLEAN
    BY <1>1 DEF ChannelsTyped
  <2>2. l.list \in Seq(Channel)
    BY <1>2, <2>1
  <2> QED
    BY <1>2, <2>1, <2>2
<1>4. ChannelsTyped'
  BY <1>1, <1>2, <1>3 DEF ChannelsTyped
<1>5. ASSUME ~drift' PROVE UndisturbedNext
  <2>1. Undisturbed
    BY <1>2, <1>5 DEF ChannelsInv
  <2>2. /\ \A q, r \in calls : q = r
        /\ calls # {} => ~CurrentLoad
        /\ \A q \in channelLoads :
             q.n = loadsBegun /\ q.list # Unread => IsListOf(q.list, hubChannels)
        /\ ~CurrentLoad => /\ calls = {} => IsListOf(channels, hubChannels)
                           /\ \A r \in calls : IsListOf(OnceAnswered(r), hubChannels)
    BY <2>1 DEF Undisturbed
  <2>3. CurrentLoad' => CurrentLoad
    BY <1>2 DEF CurrentLoad
  <2>4. CASE l.n = loadsBegun
    <3>1. CurrentLoad /\ calls = {}
      BY <2>2, <2>4 DEF CurrentLoad
    <3>2. IsListOf(channels', hubChannels')
      BY <1>2, <2>2, <2>4
    <3> QED
      BY <1>2, <2>2, <3>1, <3>2 DEF UndisturbedNext
  <2>5. CASE l.n # loadsBegun
    <3>1. \A q \in calls : OnceAnswered(q)' = OnceAnswered(q)
      BY <1>2, <2>5, AfterKept
    <3>2. CurrentLoad => CurrentLoad'
      BY <1>2, <2>5 DEF CurrentLoad
    <3> QED
      BY <1>2, <2>2, <2>3, <2>5, <3>1, <3>2 DEF UndisturbedNext
  <2> QED
    BY <2>4, <2>5
<1> QED
  BY <1>4, <1>5, ChannelsInvNext

\* A cancelled load that fails does nothing.
LEMMA LoadFailsKeeps ==
    ASSUME ChannelsInv, NEW l \in channelLoads, LoadFails(l)
    PROVE  ChannelsInv'
<1>1. ChannelsTyped
  BY DEF ChannelsInv
<1>2. /\ channelLoads' = channelLoads \ {l}
      /\ UNCHANGED <<hubChannels, made, channels, loadsBegun, calls, changes, chosen>>
      /\ loading' = (loading /\ l.n # loadsBegun)
      /\ drift' = (drift \/ l.n = loadsBegun)
  BY DEF LoadFails
<1>3. ChannelsTyped'
  BY <1>1, <1>2 DEF ChannelsTyped
<1>4. ASSUME ~drift' PROVE UndisturbedNext
  <2>1. Undisturbed /\ l.n # loadsBegun
    BY <1>2, <1>4 DEF ChannelsInv
  <2>2. CurrentLoad <=> CurrentLoad'
    BY <1>2, <2>1 DEF CurrentLoad
  <2>3. \A q \in calls : OnceAnswered(q)' = OnceAnswered(q)
    BY <1>2, AfterKept
  <2>4. /\ \A q, r \in calls : q = r
        /\ calls # {} => ~CurrentLoad
        /\ \A q \in channelLoads :
             q.n = loadsBegun /\ q.list # Unread => IsListOf(q.list, hubChannels)
        /\ ~CurrentLoad => /\ calls = {} => IsListOf(channels, hubChannels)
                           /\ \A r \in calls : IsListOf(OnceAnswered(r), hubChannels)
    BY <2>1 DEF Undisturbed
  <2> QED
    BY <1>2, <2>2, <2>3, <2>4 DEF UndisturbedNext
<1> QED
  BY <1>3, <1>4, ChannelsInvNext

\* Others make, delete and change channels behind the tab's back.
LEMMA OthersChangeKeeps == ASSUME ChannelsInv, OthersChange PROVE ChannelsInv'
<1>1. ChannelsTyped
  BY DEF ChannelsInv
<1>2. drift' = TRUE /\ changes < MaxChanges /\ changes' = changes + 1
      /\ UNCHANGED <<channels, loading, channelLoads, loadsBegun, calls, chosen>>
  BY DEF OthersChange
<1>3. changes' \in 0..MaxChanges /\ loadsBegun' \in 1..(changes' + 1)
  BY <1>1, <1>2, ChannelsAssumption DEF ChannelsTyped
<1>4. HubTyped'
  <2> HubTyped
    BY <1>1 DEF ChannelsTyped, HubTyped
  <2>1. CASE \E t \in Types : Makes(t, "plain")
    BY <2>1, MakesKeeps DEF Looks
  <2>2. CASE \E c \in hubChannels : hubChannels' = hubChannels \ {c} /\ UNCHANGED made
    BY <2>2, RemovalKeeps
  <2>3. CASE \E c \in hubChannels : Becomes(c, "color")
    BY <2>3, BecomesKeeps DEF Looks
  <2> QED
    BY <2>1, <2>2, <2>3 DEF OthersChange
<1>5. ChannelsTyped'
  BY <1>1, <1>2, <1>3, <1>4 DEF ChannelsTyped, HubTyped
<1> QED
  BY <1>2, <1>5, ChannelsInvNext

\* A click in the sidebar, and the fallback of the hub page.
LEMMA ChosenKeeps ==
    ASSUME ChannelsInv, chosen' \in 0..MaxChannels, changes' \in 0..MaxChanges,
           changes <= changes',
           UNCHANGED <<hubChannels, made, channels, loading, channelLoads, loadsBegun,
                       calls, drift>>
    PROVE  ChannelsInv'
<1>1. ChannelsTyped
  BY DEF ChannelsInv
<1>2. loadsBegun' \in 1..(changes' + 1)
  BY <1>1 DEF ChannelsTyped
<1>3. ChannelsTyped'
  BY <1>1, <1>2 DEF ChannelsTyped
<1>4. ASSUME ~drift' PROVE UndisturbedNext
  <2>1. Undisturbed
    BY <1>4 DEF ChannelsInv
  <2>2. CurrentLoad <=> CurrentLoad'
    BY DEF CurrentLoad
  <2>3. \A q \in calls : OnceAnswered(q)' = OnceAnswered(q)
    BY AfterKept
  <2> QED
    BY <2>1, <2>2, <2>3 DEF Undisturbed, UndisturbedNext
<1> QED
  BY <1>3, <1>4, ChannelsInvNext

\* A channel is chosen.
LEMMA SelectTextChannelKeeps ==
    ASSUME ChannelsInv, NEW c \in Range(channels), SelectTextChannel(c)
    PROVE  ChannelsInv'
<1>1. ChannelsTyped
  BY DEF ChannelsInv
<1>2. c \in Channel
  BY <1>1 DEF ChannelsTyped, Range
<1>3. c.id \in 0..MaxChannels
  BY <1>2, ChannelsAssumption DEF Channel
<1>4. changes' \in 0..MaxChanges /\ changes <= changes'
  BY <1>1, ChannelsAssumption DEF ChannelsTyped, SelectTextChannel
<1> QED
  BY <1>3, <1>4, ChosenKeeps DEF SelectTextChannel

\* The first channel stands in for a chosen one that is gone.
LEMMA PinFallbackKeeps == ASSUME ChannelsInv, PinFallback PROVE ChannelsInv'
<1>1. ChannelsTyped
  BY DEF ChannelsInv
<1>2. Shown \in 0..MaxChannels
  <2> DEFINE texts == {i \in DOMAIN channels : channels[i].type = "text"}
             first == CHOOSE i \in texts : \A j \in texts : i <= j
  <2>1. CASE texts = {} \/ loading \/ ReadIn(chosen)
    BY <1>1, <2>1, ChannelsAssumption DEF Shown, ChannelsTyped
  <2>2. CASE texts # {}
    <3>1. channels \in Seq(Channel)
      BY <1>1 DEF ChannelsTyped
    <3>2. texts \subseteq Nat
      BY <3>1, LenProperties
    <3>3. \E i \in texts : \A j \in texts : i <= j
      <4> HIDE DEF texts
      <4> QED
        BY <2>2, <3>2, LeastOf
    <3>4. first \in texts
      BY <3>3
    <3>5. channels[first] \in Channel
      BY <3>1, <3>4
    <3>6. channels[first].id \in 0..MaxChannels
      BY <3>5, ChannelsAssumption DEF Channel
    <3> QED
      BY <1>1, <2>2, <3>6, ChannelsAssumption DEF Shown, ChannelsTyped
  <2> QED
    BY <2>1, <2>2
<1>3. changes \in 0..MaxChanges /\ changes <= changes
  BY <1>1 DEF ChannelsTyped
<1> QED
  BY <1>2, <1>3, ChosenKeeps DEF PinFallback

\* A request with its outcome.
Settled(r, outcome, row) == [r EXCEPT !.stage = outcome, !.row = row]

\* An answer is the request with its outcome.
LEMMA ReplyTyped ==
    ASSUME NEW r \in Calls, NEW outcome \in {"sent", "served", "refused"},
           NEW row \in Channel \cup {NoChannel},
           NEW q, q = Settled(r, outcome, row)
    PROVE  /\ q \in Calls /\ q.stage = outcome /\ q.row = row
           /\ q.op = r.op /\ q.id = r.id
<1> DEFINE rows == Channel \cup {NoChannel}
           p == [r EXCEPT !.stage = outcome]
<1>1. row \in rows
  OBVIOUS
<1> HIDE DEF rows
<1>2. p \in [n : 1..MaxChanges, op : {"create", "update", "delete", "upload", "openDm"},
             id : 0..MaxChannels, type : Types, look : Looks, file : BOOLEAN,
             select : BOOLEAN, stage : {"sent", "served", "refused"}, row : rows]
      /\ p.stage = outcome /\ p.op = r.op /\ p.id = r.id
  BY DEF Calls, rows
<1>3. q = [p EXCEPT !.row = row]
  BY Zenon DEF Settled
<1> HIDE DEF p
<1>4. q \in [n : 1..MaxChanges, op : {"create", "update", "delete", "upload", "openDm"},
             id : 0..MaxChannels, type : Types, look : Looks, file : BOOLEAN,
             select : BOOLEAN, stage : {"sent", "served", "refused"}, row : rows]
      /\ q.stage = outcome /\ q.op = r.op /\ q.id = r.id /\ q.row = row
  BY <1>1, <1>2, <1>3
<1> QED
  BY <1>4, Zenon DEF Calls, rows

\* The service answers: the list is right again once the answer is there.
LEMMA AnswerWaits ==
    ASSUME ChannelsInv, NEW r \in calls, r.stage = "sent", NEW outcome \in {"served", "refused"},
           NEW row \in Channel \cup {NoChannel}, Reply(r, outcome, row),
           outcome = "served" /\ r.op \in {"create", "update", "openDm"} => row \in Channel,
           HubTyped', UNCHANGED <<channels, loading, channelLoads, loadsBegun, changes,
                                  chosen, drift>>,
           \A q : q.stage = outcome /\ q.row = row /\ q.op = r.op /\ q.id = r.id
                    /\ IsListOf(channels, hubChannels)
                  => IsListOf(OnceAnswered(q), hubChannels')
    PROVE  ChannelsInv'
<1>1. ChannelsTyped
  BY DEF ChannelsInv
<1> DEFINE q == Settled(r, outcome, row)
<1>2. calls' = (calls \ {r}) \cup {q}
  BY DEF Reply, Settled
<1>3. q \in Calls /\ q.stage = outcome /\ q.row = row /\ q.op = r.op /\ q.id = r.id
  <2>1. r \in Calls
    BY <1>1 DEF ChannelsTyped
  <2>2. outcome \in {"sent", "served", "refused"}
    OBVIOUS
  <2>3. q = Settled(r, outcome, row)
    OBVIOUS
  <2> HIDE DEF q
  <2> QED
    BY <2>1, <2>2, <2>3, ReplyTyped
<1> HIDE DEF q
<1>4. ChannelsTyped'
  BY <1>1, <1>2, <1>3 DEF ChannelsTyped, HubTyped
<1>5. ASSUME ~drift' PROVE UndisturbedNext
  <2>1. Undisturbed
    BY <1>5 DEF ChannelsInv
  <2>2. calls' = {q} /\ ~CurrentLoad
    BY <1>2, <2>1 DEF Undisturbed
  <2>3. ~CurrentLoad' /\ \A l \in channelLoads' : l.n # loadsBegun'
    BY <2>2 DEF CurrentLoad
  <2>4. OnceAnswered(r) = channels
    BY AfterSent
  <2>5. IsListOf(channels, hubChannels)
    BY <2>1, <2>2, <2>4 DEF Undisturbed
  <2>6. IsListOf(OnceAnswered(q), hubChannels')
    BY <1>3, <2>5
  <2>7. OnceAnswered(q)' = OnceAnswered(q)
    BY AfterKept
  <2> QED
    BY <2>2, <2>3, <2>6, <2>7 DEF UndisturbedNext
<1> QED
  BY <1>4, <1>5, ChannelsInvNext

\* The channel of a number.
LEMMA KeptThere ==
    ASSUME HubTyped, NEW id, IsKept(id)
    PROVE  /\ Kept(id) \in hubChannels /\ Kept(id).id = id
           /\ hubChannels \ {Kept(id)} = {c \in hubChannels : c.id # id}
<1>1. Kept(id) \in hubChannels /\ Kept(id).id = id
  BY DEF IsKept, Kept
<1> QED
  BY <1>1 DEF HubTyped

\* A list with some of its channels replaced is one of channels.
LEMMA MapTyped ==
    ASSUME NEW l \in Seq(Channel), NEW d \in Channel, NEW id,
           NEW m, m = [i \in DOMAIN l |-> IF l[i].id = id THEN d ELSE l[i]]
    PROVE  m \in Seq(Channel)
<1>1. Len(l) \in Nat /\ DOMAIN l = 1..Len(l) /\ \A i \in DOMAIN l : l[i] \in Channel
  BY LenProperties
<1>2. m \in [1..Len(l) -> Channel]
  BY <1>1
<1> QED
  BY <1>1, <1>2

\* A channel of the hub takes another icon, and the list too.
LEMMA ListIcon ==
    ASSUME HubTyped, NEW c \in hubChannels, NEW face \in Looks, Becomes(c, face), HubTyped',
           NEW d \in Channel, d = [c EXCEPT !.look = face], d.id = c.id,
           IsListOf(channels, hubChannels),
           NEW m, m = [i \in DOMAIN channels |->
                         IF channels[i].id = c.id THEN d ELSE channels[i]]
    PROVE  IsListOf(m, hubChannels')
<1>1. hubChannels' = (hubChannels \ {c}) \cup {d}
  BY DEF Becomes
<1>2. channels \in Seq(Channel)
  BY DEF IsListOf
<1>3. m \in Seq(Channel)
  BY <1>2, MapTyped
<1>4. DOMAIN m = DOMAIN channels
      /\ \A i \in DOMAIN channels : m[i] = IF channels[i].id = c.id THEN d ELSE channels[i]
  OBVIOUS
<1>5. IsListOf(m, (hubChannels \ {c}) \cup {d})
  BY <1>3, <1>4, ListMap
<1> QED
  BY <1>1, <1>5

\* The service takes a request.
LEMMA ServedKeeps ==
    ASSUME ChannelsInv, NEW r \in calls, Served(r)
    PROVE  ChannelsInv'
<1>1. ChannelsTyped /\ HubTyped /\ r \in Calls
  BY DEF ChannelsInv, ChannelsTyped, HubTyped
<1>2. /\ r.stage = "sent"
      /\ UNCHANGED <<channels, loading, channelLoads, loadsBegun, changes, chosen, drift>>
  BY DEF Served
<1>3. r.type \in Types /\ r.look \in Looks
  BY <1>1 DEF Calls
<1>4. CASE /\ r.op = "create" /\ Makes(r.type, r.look)
           /\ Reply(r, "served", [id |-> made', type |-> r.type, look |-> r.look])
  <2> DEFINE c == [id |-> made', type |-> r.type, look |-> r.look]
  <2>1. HubTyped' /\ c \in Channel /\ \A d \in hubChannels : d.id # made'
    BY <1>1, <1>3, <1>4, MakesKeeps
  <2>2. hubChannels' = hubChannels \cup {c} /\ Reply(r, "served", c) /\ c.id = made'
    BY <1>4 DEF Makes
  <2> HIDE DEF c
  <2>3. ASSUME NEW q, q.stage = "served", q.row = c, q.op = r.op, IsListOf(channels, hubChannels)
        PROVE  IsListOf(OnceAnswered(q), hubChannels')
    <3>1. OnceAnswered(q) = Append(channels, c)
      BY <1>4, <2>3 DEF OnceAnswered, Applied
    <3> QED
      BY <2>1, <2>2, <2>3, <3>1, ListAppend
  <2> QED
    BY <1>2, <2>1, <2>2, <2>3, AnswerWaits
<1>5. CASE /\ r.op = "update" /\ IsKept(r.id)
           /\ Becomes(Kept(r.id), Updated(Kept(r.id).look, r.look))
           /\ Reply(r, "served", [Kept(r.id) EXCEPT !.look = Updated(@, r.look)])
  <2> DEFINE c == Kept(r.id)
             face == Updated(c.look, r.look)
             d == [c EXCEPT !.look = face]
  <2>1. c \in hubChannels /\ c.id = r.id /\ c \in Channel
    BY <1>1, <1>5, KeptThere DEF HubTyped
  <2>2. face \in Looks
    BY <1>3, <2>1 DEF Updated, Channel, Looks
  <2>3. Reply(r, "served", d)
    BY <1>5
  <2>4. Becomes(c, face)
    BY <1>5
  <2> HIDE DEF c, face
  <2>5. HubTyped' /\ d \in Channel /\ d.id = c.id
    BY <1>1, <2>1, <2>2, <2>4, BecomesKeeps
  <2> HIDE DEF d
  <2>6. ASSUME NEW q, q.stage = "served", q.row = d, q.op = r.op, q.id = r.id,
               IsListOf(channels, hubChannels)
        PROVE  IsListOf(OnceAnswered(q), hubChannels')
    <3>1. OnceAnswered(q) = [i \in DOMAIN channels |->
                        IF channels[i].id = c.id THEN d ELSE channels[i]]
      BY <1>5, <2>1, <2>6 DEF OnceAnswered, Applied
    <3>2. d = [c EXCEPT !.look = face]
      BY DEF d
    <3> QED
      BY <1>1, <2>1, <2>2, <2>4, <2>5, <2>6, <3>1, <3>2, ListIcon
  <2> QED
    BY <1>2, <2>3, <2>5, <2>6, AnswerWaits
<1>6. CASE /\ r.op = "delete" /\ IsKept(r.id)
           /\ hubChannels' = hubChannels \ {Kept(r.id)}
           /\ Reply(r, "served", NoChannel) /\ UNCHANGED made
  <2>1. /\ Kept(r.id) \in hubChannels
        /\ hubChannels \ {Kept(r.id)} = {c \in hubChannels : c.id # r.id}
    BY <1>1, <1>6, KeptThere
  <2>2. HubTyped'
    BY <1>1, <1>6, <2>1, RemovalKeeps
  <2>3. ASSUME NEW q, q.stage = "served", q.op = r.op, q.id = r.id,
               IsListOf(channels, hubChannels)
        PROVE  IsListOf(OnceAnswered(q), hubChannels')
    <3>1. OnceAnswered(q) = Without(r.id)
      BY <1>6, <2>3 DEF OnceAnswered, Applied
    <3>2. IsListOf(Without(r.id), {c \in hubChannels : c.id # r.id})
      BY <2>3, ListFilter
    <3> QED
      BY <1>6, <2>1, <3>1, <3>2
  <2> QED
    BY <1>2, <1>6, <2>2, <2>3, AnswerWaits
<1>7. CASE /\ r.op = "upload" /\ IsKept(r.id)
           /\ Becomes(Kept(r.id), "image")
           /\ Reply(r, "served", NoChannel)
  <2> DEFINE c == Kept(r.id)
             d == [c EXCEPT !.look = "image"]
  <2>1. c \in hubChannels /\ c.id = r.id
    BY <1>1, <1>7, KeptThere
  <2>2. "image" \in Looks
    BY DEF Looks
  <2>3. Becomes(c, "image")
    BY <1>7
  <2> HIDE DEF c
  <2>4. HubTyped' /\ d \in Channel /\ d.id = c.id
    BY <1>1, <2>1, <2>2, <2>3, BecomesKeeps
  <2> HIDE DEF d
  <2>5. d = [c EXCEPT !.look = "image"]
    BY DEF d
  <2>6. ASSUME NEW q, q.stage = "served", q.op = r.op, q.id = r.id,
               IsListOf(channels, hubChannels)
        PROVE  IsListOf(OnceAnswered(q), hubChannels')
    <3>1. \A i \in DOMAIN channels : channels[i].id = c.id => channels[i] = c
      BY <1>1, <2>1, <2>6 DEF IsListOf, Range, HubTyped
    <3>2. OnceAnswered(q) = [i \in DOMAIN channels |->
                        IF channels[i].id = c.id
                          THEN [channels[i] EXCEPT !.look = "image"] ELSE channels[i]]
      BY <1>7, <2>1, <2>6 DEF OnceAnswered, Applied
    <3>3. OnceAnswered(q) = [i \in DOMAIN channels |->
                        IF channels[i].id = c.id THEN d ELSE channels[i]]
      BY <2>5, <3>1, <3>2
    <3> QED
      BY <1>1, <2>1, <2>2, <2>3, <2>4, <2>5, <2>6, <3>3, ListIcon
  <2> QED
    BY <1>2, <1>7, <2>4, <2>6, AnswerWaits
<1>8. CASE /\ r.op = "openDm"
           /\ Makes("dm", "plain")
           /\ Reply(r, "served", [id |-> made', type |-> "dm", look |-> "plain"])
  <2> DEFINE c == [id |-> made', type |-> "dm", look |-> "plain"]
  <2>1. "dm" \in Types /\ "plain" \in Looks
    BY DEF Types, Looks
  <2>2. HubTyped' /\ c \in Channel /\ \A d \in hubChannels : d.id # made'
    BY <1>1, <1>8, <2>1, MakesKeeps
  <2>3. hubChannels' = hubChannels \cup {c} /\ Reply(r, "served", c) /\ c.id = made'
    BY <1>8 DEF Makes
  <2> HIDE DEF c
  <2>4. ASSUME NEW q, q.stage = "served", q.row = c, q.op = r.op, IsListOf(channels, hubChannels)
        PROVE  IsListOf(OnceAnswered(q), hubChannels')
    <3> DEFINE l == Without(c.id)
    <3>1. OnceAnswered(q) = Append(l, c)
      BY <1>8, <2>4 DEF OnceAnswered, Applied
    <3>2. IsListOf(l, {d \in hubChannels : d.id # c.id})
      BY <2>4, ListFilter
    <3>3. {d \in hubChannels : d.id # c.id} = hubChannels
      BY <2>2, <2>3
    <3> HIDE DEF l
    <3>4. IsListOf(l, hubChannels)
      BY <3>2, <3>3
    <3> QED
      BY <2>2, <2>3, <3>1, <3>4, ListAppend
  <2> QED
    BY <1>2, <2>2, <2>3, <2>4, AnswerWaits
<1>9. CASE /\ r.op = "openDm"
           /\ \E c \in hubChannels :
                Reply(r, "served", c) /\ UNCHANGED <<hubChannels, made>>
  <2>1. PICK c \in hubChannels : Reply(r, "served", c) /\ UNCHANGED <<hubChannels, made>>
    BY <1>9
  <2>2. HubTyped' /\ c \in Channel
    BY <1>1, <2>1 DEF HubTyped
  <2>3. ASSUME NEW q, q.stage = "served", q.row = c, q.op = r.op, IsListOf(channels, hubChannels)
        PROVE  IsListOf(OnceAnswered(q), hubChannels')
    <3> DEFINE l == Without(c.id)
               rows == {d \in hubChannels : d.id # c.id}
    <3>1. OnceAnswered(q) = Append(l, c)
      BY <1>9, <2>3 DEF OnceAnswered, Applied
    <3>2. IsListOf(l, rows)
      BY <2>3, ListFilter
    <3>3. rows \cup {c} = hubChannels' /\ \A d \in rows : d.id # c.id
      BY <1>1, <2>1 DEF HubTyped
    <3> HIDE DEF l, rows
    <3>4. IsListOf(Append(l, c), rows \cup {c})
      BY <2>2, <3>2, <3>3, ListAppend
    <3> QED
      BY <3>1, <3>3, <3>4
  <2> QED
    BY <1>2, <2>1, <2>2, <2>3, AnswerWaits
<1>10. QED
  BY <1>4, <1>5, <1>6, <1>7, <1>8, <1>9 DEF Served

\* The service refuses a request, and nothing changes.
LEMMA RefusedKeeps ==
    ASSUME ChannelsInv, NEW r \in calls, Refused(r)
    PROVE  ChannelsInv'
<1>1. HubTyped'
  BY DEF ChannelsInv, ChannelsTyped, HubTyped, Refused
<1>2. /\ r.stage = "sent" /\ Reply(r, "refused", NoChannel) /\ hubChannels' = hubChannels
      /\ UNCHANGED <<channels, loading, channelLoads, loadsBegun, changes, chosen, drift>>
  BY DEF Refused
<1>3. ASSUME NEW q, q.stage = "refused", IsListOf(channels, hubChannels)
      PROVE  IsListOf(OnceAnswered(q), hubChannels')
  BY <1>2, <1>3, AfterSent
<1> QED
  BY <1>1, <1>2, <1>3, AnswerWaits

\* What an answer makes of the list is a list of channels.
LEMMA AfterTyped ==
    ASSUME ChannelsTyped, NEW r \in calls
    PROVE  OnceAnswered(r) \in Seq(Channel)
<1>1. channels \in Seq(Channel) /\ r \in Calls
      /\ (r.stage = "served" /\ r.op \in {"create", "update", "openDm"} => r.row \in Channel)
  BY DEF ChannelsTyped
<1>2. \A id : Without(id) \in Seq(Channel)
  <2> TAKE id
  <2> DEFINE P == {i \in DOMAIN channels : channels[i].id # id}
  <2>1. P \in SUBSET DOMAIN channels
    OBVIOUS
  <2> HIDE DEF P
  <2>2. Filtered(channels, P) \in Seq(Channel)
    BY <1>1, <2>1, FilterKeeps
  <2> QED
    BY <2>2 DEF Without, P
<1>3. CASE r.stage # "served"
  BY <1>1, <1>3 DEF OnceAnswered
<1>4. CASE r.stage = "served" /\ r.op = "create"
  BY <1>1, <1>4 DEF OnceAnswered, Applied
<1>5. CASE r.stage = "served" /\ r.op = "openDm"
  <2> DEFINE l == Without(r.row.id)
  <2>1. l \in Seq(Channel) /\ r.row \in Channel /\ OnceAnswered(r) = Append(l, r.row)
    BY <1>1, <1>2, <1>5 DEF OnceAnswered, Applied
  <2> HIDE DEF l
  <2> QED
    BY <2>1
<1>6. CASE r.stage = "served" /\ r.op = "update"
  <2>1. OnceAnswered(r) = [i \in DOMAIN channels |->
                      IF channels[i].id = r.id THEN r.row ELSE channels[i]]
    BY <1>6 DEF OnceAnswered, Applied
  <2> QED
    BY <1>1, <1>6, <2>1, MapTyped
<1>7. CASE r.stage = "served" /\ r.op = "delete"
  BY <1>2, <1>7 DEF OnceAnswered, Applied
<1>8. CASE r.stage = "served" /\ r.op = "upload"
  <2>1. OnceAnswered(r) = [i \in DOMAIN channels |->
                      IF channels[i].id = r.id
                        THEN [channels[i] EXCEPT !.look = "image"] ELSE channels[i]]
    BY <1>8 DEF OnceAnswered, Applied
  <2>2. Len(channels) \in Nat /\ DOMAIN channels = 1..Len(channels)
        /\ \A i \in DOMAIN channels : channels[i] \in Channel
    BY <1>1, LenProperties
  <2>3. \A c \in Channel : [c EXCEPT !.look = "image"] \in Channel
    BY DEF Channel, Looks
  <2>4. OnceAnswered(r) \in [1..Len(channels) -> Channel]
    BY <2>1, <2>2, <2>3
  <2> QED
    BY <2>2, <2>4
<1> QED
  BY <1>1, <1>3, <1>4, <1>5, <1>6, <1>7, <1>8 DEF Calls

\* The answer is there, and perhaps the upload of the picture is next.
LEMMA AnsweredKeeps ==
    ASSUME ChannelsInv, NEW r \in calls, Answered(r)
    PROVE  ChannelsInv'
<1>1. ChannelsTyped /\ r \in Calls
  BY DEF ChannelsInv, ChannelsTyped
<1>2. /\ channels' = OnceAnswered(r)
      /\ chosen' = IF Opens(r) THEN Target(r) ELSE chosen
      /\ UNCHANGED <<hubChannels, made, loading, channelLoads, loadsBegun>>
  BY DEF Answered, OnceAnswered
<1>3. channels' \in Seq(Channel)
  BY <1>1, <1>2, AfterTyped
<1>4. Target(r) \in 0..MaxChannels
  <2>1. r.row \in Channel \cup {NoChannel} /\ r.id \in 0..MaxChannels
    BY <1>1 DEF Calls
  <2>2. r.row.id \in 0..MaxChannels
    BY <2>1, ChannelsAssumption DEF Channel, NoChannel
  <2> QED
    BY <2>1, <2>2 DEF Target
<1>5. chosen' \in 0..MaxChannels
  BY <1>1, <1>2, <1>4 DEF ChannelsTyped
<1>6. ASSUME ~drift, Undisturbed
      PROVE  /\ calls \ {r} = {} /\ ~CurrentLoad' /\ IsListOf(channels', hubChannels')
             /\ \A l \in channelLoads' : l.n # loadsBegun'
  <2>1. calls = {r} /\ ~CurrentLoad /\ IsListOf(OnceAnswered(r), hubChannels)
    BY <1>6 DEF Undisturbed
  <2> QED
    BY <1>2, <2>1 DEF CurrentLoad
<1>7. CASE r.file /\ Target(r) # 0
  <2>1. PICK q : /\ SendsRequest(q, {r})
                 /\ q = NewRequest("upload", Target(r), "text", "plain", FALSE,
                                   r.op = "create" /\ r.type = "text")
    BY <1>7 DEF Answered
  <2>2. /\ changes < MaxChanges /\ changes' = changes + 1 /\ calls' = (calls \ {r}) \cup {q}
        /\ drift' = (drift \/ calls \ {r} # {} \/ \E l \in channelLoads : l.n = loadsBegun)
    BY <2>1 DEF SendsRequest
  <2>3. "text" \in Types /\ "plain" \in Looks
    BY DEF Types, Looks
  <2>4. q \in Calls /\ q.stage = "sent"
    <3> DEFINE shows == (r.op = "create" /\ r.type = "text")
    <3>1. shows \in BOOLEAN
      OBVIOUS
    <3> HIDE DEF shows
    <3>2. q = NewRequest("upload", Target(r), "text", "plain", FALSE, shows)
      BY <2>1 DEF shows
    <3> QED
      BY <1>1, <1>4, <2>2, <2>3, <3>1, <3>2, NewRequestTyped
  <2>5. changes' \in 0..MaxChanges /\ loadsBegun' \in 1..(changes' + 1)
    BY <1>1, <1>2, <2>2, ChannelsAssumption DEF ChannelsTyped
  <2>6. drift' \in BOOLEAN
    BY <2>2
  <2>7. ChannelsTyped'
    BY <1>1, <1>2, <1>3, <1>5, <2>2, <2>4, <2>5, <2>6 DEF ChannelsTyped
  <2>8. ASSUME ~drift' PROVE UndisturbedNext
    <3>1. ~drift /\ Undisturbed
      BY <2>2, <2>8 DEF ChannelsInv
    <3>2. /\ calls' = {q} /\ ~CurrentLoad' /\ IsListOf(channels', hubChannels')
          /\ \A l \in channelLoads' : l.n # loadsBegun'
      BY <1>6, <2>2, <3>1
    <3>3. OnceAnswered(q)' = channels'
      BY <2>4, AfterSent
    <3> QED
      BY <3>2, <3>3 DEF UndisturbedNext
  <2> QED
    BY <2>7, <2>8, ChannelsInvNext
<1>8. CASE ~(r.file /\ Target(r) # 0)
  <2>1. calls' = calls \ {r} /\ UNCHANGED <<changes, drift>>
    BY <1>8 DEF Answered
  <2>2. ChannelsTyped'
    BY <1>1, <1>2, <1>3, <1>5, <2>1 DEF ChannelsTyped
  <2>3. ASSUME ~drift' PROVE UndisturbedNext
    <3>1. ~drift /\ Undisturbed
      BY <2>1, <2>3 DEF ChannelsInv
    <3>2. /\ calls' = {} /\ ~CurrentLoad' /\ IsListOf(channels', hubChannels')
          /\ \A l \in channelLoads' : l.n # loadsBegun'
      BY <1>6, <2>1, <3>1
    <3> QED
      BY <3>2 DEF UndisturbedNext
  <2> QED
    BY <2>2, <2>3, ChannelsInvNext
<1> QED
  BY <1>7, <1>8

\* A request that the service did not take may get lost.
LEMMA AnswerLostKeeps ==
    ASSUME ChannelsInv, NEW r \in calls, AnswerLost(r)
    PROVE  ChannelsInv'
<1>1. /\ calls' = calls \ {r} /\ drift' = (drift \/ r.stage = "served")
      /\ UNCHANGED <<hubChannels, made, channels, loading, channelLoads, loadsBegun,
                     changes, chosen>>
  BY DEF AnswerLost
<1>2. ChannelsTyped'
  BY <1>1 DEF ChannelsInv, ChannelsTyped
<1>3. ASSUME ~drift' PROVE UndisturbedNext
  <2>1. Undisturbed /\ r.stage # "served"
    BY <1>1, <1>3 DEF ChannelsInv
  <2>2. calls = {r} /\ ~CurrentLoad /\ IsListOf(OnceAnswered(r), hubChannels)
        /\ OnceAnswered(r) = channels
    BY <2>1, AfterSent DEF Undisturbed
  <2>3. calls' = {} /\ ~CurrentLoad' /\ \A l \in channelLoads' : l.n # loadsBegun'
    BY <1>1, <2>2 DEF CurrentLoad
  <2> QED
    BY <1>1, <2>2, <2>3 DEF UndisturbedNext
<1> QED
  BY <1>2, <1>3, ChannelsInvNext

\* Every step of the channel list keeps its invariant.
LEMMA ChannelsKept ==
    ASSUME ChannelsInv, [ChannelsNext]_channelsVars
    PROVE  ChannelsInv'
<1>1. CASE UNCHANGED channelsVars
  <2>1. /\ chosen' = chosen /\ changes' = changes
        /\ UNCHANGED <<hubChannels, made, channels, loading, channelLoads, loadsBegun,
                       calls, drift>>
    BY <1>1 DEF channelsVars
  <2>2. chosen' \in 0..MaxChannels /\ changes' \in 0..MaxChanges /\ changes <= changes'
    BY <2>1 DEF ChannelsInv, ChannelsTyped
  <2> QED
    BY <2>1, <2>2, ChosenKeeps
<1>2. ASSUME TokenRenewed PROVE ChannelsInv'
  BY <1>2, TokenRenewedKeeps
<1>3. ASSUME OthersChange PROVE ChannelsInv'
  BY <1>3, OthersChangeKeeps
<1>4. ASSUME PinFallback PROVE ChannelsInv'
  BY <1>4, PinFallbackKeeps
<1>5. ASSUME NEW l \in channelLoads, LoadRead(l) \/ LoadAnswered(l) \/ LoadFails(l)
      PROVE  ChannelsInv'
  BY <1>5, LoadReadKeeps, LoadAnsweredKeeps, LoadFailsKeeps
<1>6. ASSUME NEW type \in {"text", "voice"}, SaveNew(type) PROVE ChannelsInv'
  BY <1>6, SaveNewKeeps
<1>7. ASSUME NEW message \in BOOLEAN, OpenDm(message) PROVE ChannelsInv'
  BY <1>7, OpenDmKeeps
<1>8. ASSUME NEW c \in Range(channels),
             SaveEdit(c) \/ DeleteChannel(c) \/ SelectTextChannel(c)
      PROVE  ChannelsInv'
  BY <1>8, SaveEditKeeps, DeleteChannelKeeps, SelectTextChannelKeeps
<1>9. ASSUME NEW r \in calls, Served(r) \/ Refused(r) \/ Answered(r) \/ AnswerLost(r)
      PROVE  ChannelsInv'
  BY <1>9, ServedKeeps, RefusedKeeps, AnsweredKeeps, AnswerLostKeeps
<1> QED
  BY <1>1, <1>2, <1>3, <1>4, <1>5, <1>6, <1>7, <1>8, <1>9 DEF ChannelsNext

\* THE LIST IS THE HUB'S.  As long as no two changes and no load have overlapped and no answer
\* was lost, the list in the tab is what the hub has, in whatever order requests, answers and
\* loads come, for any number of channels.
THEOREM ChannelsCorrect == WebSpec => [](ChannelsTypeOK /\ ListFollowsHub)
  <1>1. WebInit => ChannelsInv
    BY ChannelsStart DEF WebInit
  <1>2. ChannelsInv /\ [WebNext]_webVars => ChannelsInv'
    <2>1. [WebNext]_webVars => [ChannelsNext]_channelsVars
      BY DEF WebNext, webVars
    <2> QED
      BY <2>1, ChannelsKept
  <1>3. ChannelsInv => ChannelsTypeOK /\ ListFollowsHub
    BY FollowsHub
  <1> QED
    BY <1>1, <1>2, <1>3, PTL DEF WebSpec

-----------------------------------------------------------------------------
(* The screen of a call (CallScreen).                                      *)

ScreenTyped ==
    /\ inCall \in BOOLEAN
    /\ people \in Seq(People)
    /\ \A i, j \in DOMAIN people : people[i] = people[j] => i = j
    /\ speaking \subseteq Range(people)
    /\ sharers \subseteq Range(people) \cup {Me}
    /\ calling \in People \cup {Me}
    /\ layout \in {"grid", "spotlight"}
    /\ spotlight \in Tile \cup {NoTile}
    /\ pageNo \in Nat
    /\ deafened \in BOOLEAN
    /\ volume \in [People -> 0..2] /\ before \in [People -> 1..2]
    /\ acts \in 0..MaxActs

\* The last volume above 0 is the one there is, when that is above 0.
VolumesKept == \A u \in People : volume[u] > 0 => before[u] = volume[u]

\* What is rendered is what the state says, after every step.
Rendered ==
    /\ allTiles = AllTilesNow
    /\ gains = [t \in OnScreen |-> Gain(t)]

\* The menus are where the tiles have them, one at a place, and remember.
MenusMounted ==
    /\ \A m \in menus : m.at \in Mounts
    /\ \A m, n \in menus : m.at = n.at => m = n
    /\ \A m \in menus : m.at.of \in People =>
         /\ m.last \in 1..2
         /\ volume[m.at.of] > 0 => m.last = volume[m.at.of]
         /\ volume[m.at.of] = 0 /\ m.seen => m.last = before[m.at.of]

ScreenInv == ScreenTyped /\ VolumesKept /\ Rendered /\ MenusMounted

-----------------------------------------------------------------------------
(* The tiles.                                                              *)

\* One tile of this kind for each of these users.
TilesFor(m, kind, folks) ==
    /\ DOMAIN m = DOMAIN folks /\ Len(m) = Len(folks)
    /\ \A i \in DOMAIN folks : /\ m[i] = [kind |-> kind, of |-> folks[i]]
                               /\ m[i].kind = kind /\ m[i].of = folks[i]

\* The tiles of a list of users.
LEMMA TilesTyped ==
    ASSUME NEW kind \in {"camera", "screen", "ringing"}, NEW folks \in Seq(People \cup {Me})
    PROVE  Tiles(kind, folks) \in Seq(Tile) /\ TilesFor(Tiles(kind, folks), kind, folks)
<1> DEFINE m == Tiles(kind, folks)
<1>1. Len(folks) \in Nat /\ DOMAIN folks = 1..Len(folks)
      /\ \A i \in DOMAIN folks : folks[i] \in People \cup {Me}
  BY LenProperties
<1>2. m = [i \in 1..Len(folks) |-> [kind |-> kind, of |-> folks[i]]]
  BY <1>1 DEF Tiles
<1> HIDE DEF m
<1>3. m \in [1..Len(folks) -> Tile]
  BY <1>1, <1>2 DEF Tile
<1>4. m \in Seq(Tile) /\ Len(m) = Len(folks)
  BY <1>1, <1>3
<1>5. TilesFor(m, kind, folks)
  BY <1>1, <1>2, <1>4 DEF TilesFor
<1> QED
  BY <1>4, <1>5 DEF m

\* The user and the others, each once.
LEMMA EverybodyOnce ==
    ASSUME ScreenTyped
    PROVE  /\ Everybody \in Seq(People \cup {Me})
           /\ Len(Everybody) = Len(people) + 1 /\ Len(people) \in Nat
           /\ DOMAIN Everybody = 1..(Len(people) + 1)
           /\ Once(Everybody)
           /\ \A u \in Range(people) : \E i \in DOMAIN Everybody : Everybody[i] = u
<1> DEFINE X == People \cup {Me}
           self == <<Me>>
<1>1. self \in Seq(X) /\ Len(self) = 1 /\ DOMAIN self = 1..1 /\ self[1] = Me
  OBVIOUS
<1>2. people \in Seq(X) /\ Once(people)
  BY DEF ScreenTyped, Once
<1>3. \A i \in DOMAIN people : people[i] \in People
  BY DEF ScreenTyped
<1> HIDE DEF X, self
<1>4. self \o people \in Seq(X) /\ Joins(self \o people, self, people)
  BY <1>1, <1>2, Joined
<1>5. Everybody \in Seq(X) /\ Joins(Everybody, self, people)
  BY <1>4 DEF Everybody, self
<1>6. Once(Everybody)
  <2>1. Once(self) /\ Apart(self, people)
    BY <1>1, <1>3, ScreenAssumption DEF Once, Apart
  <2> QED
    BY <1>2, <1>5, <2>1, JoinedOnce
<1>7. \A u \in Range(people) : \E i \in DOMAIN Everybody : Everybody[i] = u
  BY <1>5 DEF Range, Joins
<1> QED
  BY <1>1, <1>5, <1>6, <1>7 DEF X, Joins

\* The tiles are distinct, the user's comes first, and everybody has a camera.
LEMMA TilesOnce ==
    ASSUME ScreenTyped
    PROVE  /\ AllTilesNow \in Seq(Tile) /\ Len(AllTilesNow) >= 1 /\ Once(AllTilesNow)
           /\ \A u \in Range(people) : \E i \in DOMAIN AllTilesNow :
                AllTilesNow[i] = [kind |-> "camera", of |-> u]
<1> DEFINE cams == Tiles("camera", Everybody)
           rung == Tiles("ringing", Rung)
           scrs == Tiles("screen", Everybody)
           shared == Filtered(scrs, Sharing)
           first == cams \o rung
           all == first \o shared
<1>1. /\ Everybody \in Seq(People \cup {Me})
      /\ Len(Everybody) = Len(people) + 1 /\ Len(people) \in Nat
      /\ Once(Everybody)
      /\ \A u \in Range(people) : \E i \in DOMAIN Everybody : Everybody[i] = u
  BY EverybodyOnce
<1>2. Rung \in Seq(People \cup {Me}) /\ \A i, j \in DOMAIN Rung : i = j
  <2>1. CASE Rung = << >>
    BY <2>1
  <2>2. CASE Rung = <<calling>>
    BY <2>2 DEF ScreenTyped
  <2> QED
    BY <2>1, <2>2 DEF Rung
<1>3. all = AllTilesNow
  BY DEF AllTilesNow
<1>4. Sharing \in SUBSET DOMAIN Everybody
  BY DEF Sharing
<1>5. cams \in Seq(Tile) /\ TilesFor(cams, "camera", Everybody)
  BY <1>1, TilesTyped
<1>6. rung \in Seq(Tile) /\ TilesFor(rung, "ringing", Rung)
  BY <1>2, TilesTyped
<1>7. scrs \in Seq(Tile) /\ TilesFor(scrs, "screen", Everybody)
  BY <1>1, TilesTyped
<1> HIDE DEF cams, rung, scrs
<1>8. shared \in Seq(Tile) /\ Picks(shared, scrs, Sharing)
  <2>1. Sharing \in SUBSET DOMAIN scrs
    BY <1>4, <1>7 DEF TilesFor
  <2> HIDE DEF shared
  <2>2. shared = Filtered(scrs, Sharing)
    BY DEF shared
  <2> QED
    BY <1>7, <2>1, <2>2, FilterMembers
<1> HIDE DEF shared
<1>9. Once(cams) /\ Once(rung)
  BY <1>1, <1>2, <1>5, <1>6 DEF TilesFor, Once
<1>10. Once(shared) /\ \A k \in DOMAIN shared : shared[k].kind = "screen"
  <2>1. \A i \in Sharing : i \in DOMAIN Everybody /\ scrs[i].kind = "screen"
                           /\ scrs[i].of = Everybody[i]
    BY <1>4, <1>7 DEF TilesFor
  <2>2. \A i, j \in Sharing : scrs[i] = scrs[j] => i = j
    BY <1>1, <2>1 DEF Once
  <2> QED
    BY <1>8, <2>1, <2>2 DEF Picks, Once
<1>11. first \in Seq(Tile) /\ Joins(first, cams, rung)
  BY <1>5, <1>6, Joined
<1> HIDE DEF first
<1>12. all \in Seq(Tile) /\ Joins(all, first, shared)
  BY <1>8, <1>11, Joined
<1> HIDE DEF all
<1>13. Once(first) /\ \A i \in DOMAIN first : first[i].kind \in {"camera", "ringing"}
  <2>1. Apart(cams, rung)
    BY <1>5, <1>6 DEF TilesFor, Apart
  <2>2. Once(first)
    BY <1>9, <1>11, <2>1, JoinedOnce
  <2>3. \A i \in DOMAIN first : first[i].kind \in {"camera", "ringing"}
    BY <1>5, <1>6, <1>11 DEF TilesFor, Joins
  <2> QED
    BY <2>2, <2>3
<1>14. Once(all)
  <2>1. Apart(first, shared)
    BY <1>10, <1>13 DEF Apart
  <2> QED
    BY <1>10, <1>12, <1>13, <2>1, JoinedOnce
<1>15. Len(all) >= 1
  <2>1. Len(cams) >= 1
    BY <1>1, <1>5 DEF TilesFor
  <2> QED
    BY <1>11, <1>12, <2>1 DEF Joins
<1>16. ASSUME NEW u \in Range(people)
       PROVE  \E i \in DOMAIN all : all[i] = [kind |-> "camera", of |-> u]
  <2>1. PICK i \in DOMAIN Everybody : Everybody[i] = u
    BY <1>1
  <2>2. i \in DOMAIN cams /\ cams[i] = [kind |-> "camera", of |-> u]
    BY <1>5, <2>1 DEF TilesFor
  <2> QED
    BY <1>11, <1>12, <2>2 DEF Joins
<1> QED
  BY <1>3, <1>12, <1>14, <1>15, <1>16

-----------------------------------------------------------------------------
(* The pages.                                                              *)

\* The tiles as they were rendered.
TilesGood ==
    allTiles \in Seq(Tile) /\ Len(allTiles) >= 1 /\ Once(allTiles)

\* Sorting keeps the tiles, and puts who speaks right behind the user.
LEMMA SortedGood ==
    ASSUME TilesGood
    PROVE  /\ SortedTiles \in Seq(Tile) /\ Len(SortedTiles) = Len(allTiles)
           /\ Len(allTiles) > PageSize =>
                \A i \in SpeakersAt : \E k \in DOMAIN SortedTiles :
                   SortedTiles[k] = allTiles[i]
                   /\ k <= Cardinality(OwnAt \cup SpeakersAt)
<1> DEFINE own == Filtered(allTiles, OwnAt)
           heard == Filtered(allTiles, SpeakersAt)
           rest == Filtered(allTiles, OthersAt)
           first == own \o heard
           sorted == first \o rest
<1>1. /\ allTiles \in Seq(Tile) /\ Len(allTiles) \in Nat
      /\ DOMAIN allTiles = 1..Len(allTiles)
  BY LenProperties DEF TilesGood
<1>2. OwnAt \in SUBSET DOMAIN allTiles /\ SpeakersAt \in SUBSET DOMAIN allTiles
      /\ OthersAt \in SUBSET DOMAIN allTiles
  BY DEF OwnAt, SpeakersAt, OthersAt
<1>3. CASE Len(allTiles) <= PageSize
  BY <1>1, <1>3, ScreenAssumption DEF SortedTiles
<1>4. CASE ~(Len(allTiles) <= PageSize)
  <2>1. /\ own \in Seq(Tile) /\ Len(own) = Cardinality(OwnAt) /\ IsFiniteSet(OwnAt)
        /\ Cardinality(OwnAt) \in Nat /\ Picks(own, allTiles, OwnAt)
    BY <1>1, <1>2, FilterMembers
  <2>2. /\ heard \in Seq(Tile) /\ Len(heard) = Cardinality(SpeakersAt)
        /\ IsFiniteSet(SpeakersAt) /\ Cardinality(SpeakersAt) \in Nat
        /\ Picks(heard, allTiles, SpeakersAt)
    BY <1>1, <1>2, FilterMembers
  <2>3. /\ rest \in Seq(Tile) /\ Len(rest) = Cardinality(OthersAt)
        /\ IsFiniteSet(OthersAt) /\ Cardinality(OthersAt) \in Nat
    BY <1>1, <1>2, FilterMembers
  <2> HIDE DEF own, heard, rest
  <2>4. first \in Seq(Tile) /\ Joins(first, own, heard)
    BY <2>1, <2>2, Joined
  <2> HIDE DEF first
  <2>5. sorted \in Seq(Tile) /\ Joins(sorted, first, rest)
    BY <2>3, <2>4, Joined
  <2>6. SortedTiles = sorted
    BY <1>4 DEF SortedTiles, first, own, heard, rest
  <2> HIDE DEF sorted
  <2>7. Cardinality(OwnAt \cup SpeakersAt) = Cardinality(OwnAt) + Cardinality(SpeakersAt)
        /\ IsFiniteSet(OwnAt \cup SpeakersAt)
    <3>1. OwnAt \cap SpeakersAt = {}
      BY DEF OwnAt, SpeakersAt
    <3>2. Cardinality(OwnAt \cap SpeakersAt) = 0
      BY <3>1, FS_EmptySet
    <3>3. /\ IsFiniteSet(OwnAt \cup SpeakersAt)
          /\ Cardinality(OwnAt \cup SpeakersAt)
               = Cardinality(OwnAt) + Cardinality(SpeakersAt)
                   - Cardinality(OwnAt \cap SpeakersAt)
      BY <2>1, <2>2, FS_Union
    <3> QED
      BY <2>1, <2>2, <3>2, <3>3
  <2>8. Cardinality(DOMAIN allTiles)
          = Cardinality(OwnAt \cup SpeakersAt) + Cardinality(OthersAt)
    <3>1. (OwnAt \cup SpeakersAt) \cap OthersAt = {}
          /\ (OwnAt \cup SpeakersAt) \cup OthersAt = DOMAIN allTiles
      BY DEF OwnAt, SpeakersAt, OthersAt
    <3>2. Cardinality((OwnAt \cup SpeakersAt) \cap OthersAt) = 0
      BY <3>1, FS_EmptySet
    <3>3. Cardinality((OwnAt \cup SpeakersAt) \cup OthersAt)
            = Cardinality(OwnAt \cup SpeakersAt) + Cardinality(OthersAt)
                - Cardinality((OwnAt \cup SpeakersAt) \cap OthersAt)
      BY <2>3, <2>7, FS_Union
    <3>4. Cardinality(OwnAt \cup SpeakersAt) \in Nat
      BY <2>7, FS_CardinalityType
    <3> QED
      BY <2>3, <3>1, <3>2, <3>3, <3>4
  <2>9. Cardinality(DOMAIN allTiles) = Len(allTiles)
    <3>1. Cardinality(1..Len(allTiles))
            = IF 1 > Len(allTiles) THEN 0 ELSE Len(allTiles) - 1 + 1
      BY <1>1, FS_Interval
    <3> QED
      BY <1>1, <3>1
  <2>10. Len(sorted) = Len(allTiles)
    BY <2>1, <2>2, <2>3, <2>4, <2>5, <2>7, <2>8, <2>9 DEF Joins
  <2>11. ASSUME NEW i \in SpeakersAt
         PROVE  \E k \in DOMAIN sorted : sorted[k] = allTiles[i]
                                         /\ k <= Cardinality(OwnAt \cup SpeakersAt)
    <3>1. PICK j \in DOMAIN heard : heard[j] = allTiles[i]
      BY <2>2 DEF Picks
    <3>2. Len(own) + j \in DOMAIN first /\ first[Len(own) + j] = allTiles[i]
      BY <2>4, <3>1 DEF Joins
    <3>3. Len(own) + j \in DOMAIN sorted /\ sorted[Len(own) + j] = allTiles[i]
      BY <2>5, <3>2 DEF Joins
    <3>4. j \in 1..Len(heard)
      BY <2>4, <3>1 DEF Joins
    <3>5. Len(own) + j <= Cardinality(OwnAt \cup SpeakersAt)
      BY <2>1, <2>2, <2>7, <3>4
    <3> QED
      BY <3>3, <3>5
  <2> QED
    BY <2>5, <2>6, <2>10, <2>11
<1> QED
  BY <1>1, <1>3, <1>4, ScreenAssumption

\* How many pages there are, and where each begins.
LEMMA PagesCount ==
    ASSUME NEW n \in Nat, n >= 1, NEW p \in Nat, p >= 1,
           NEW c, c = (n + p - 1) \div p
    PROVE  c \in Nat /\ c >= 1 /\ \A k \in 0..(c - 1) : k * p \in Nat /\ k * p + 1 <= n
<1>1. c \in Int /\ c * p <= n + p - 1 /\ n + p - 1 < (c + 1) * p
  OBVIOUS
<1>2. c >= 1
  <2>1. SUFFICES ASSUME c + 1 <= 1 PROVE FALSE
    BY <1>1
  <2>2. (c + 1) * p <= 1 * p
    BY <1>1, <2>1
  <2> QED
    BY <1>1, <2>2
<1>3. ASSUME NEW k \in 0..(c - 1) PROVE k * p \in Nat /\ k * p + 1 <= n
  <2>1. k \in Nat /\ k + 1 <= c
    BY <1>1
  <2>2. (k + 1) * p <= c * p
    BY <1>1, <2>1
  <2>3. (k + 1) * p = k * p + p /\ k * p \in Nat
    BY <2>1
  <2>4. c * p \in Int
    BY <1>1
  <2> QED
    BY <1>1, <2>2, <2>3, <2>4
<1> QED
  BY <1>1, <1>2, <1>3

\* The page that is shown is one of the pages.
LEMMA PageShown ==
    ASSUME TilesGood, pageNo \in Nat
    PROVE  /\ ClampedPage \in Nat /\ PageCount \in Nat /\ PageCount >= 1
           /\ ClampedPage * PageSize \in Nat
           /\ ClampedPage * PageSize + 1 <= Len(allTiles)
           /\ pageNo = 0 => ClampedPage = 0
<1>1. Len(allTiles) \in Nat /\ Len(allTiles) >= 1 /\ PageSize \in Nat /\ PageSize >= 1
  BY ScreenAssumption, LenProperties DEF TilesGood
<1>2. PageCount \in Nat /\ PageCount >= 1
      /\ \A k \in 0..(PageCount - 1) :
           k * PageSize \in Nat /\ k * PageSize + 1 <= Len(allTiles)
  BY <1>1, PagesCount DEF PageCount
<1>3. ClampedPage \in 0..(PageCount - 1) /\ (pageNo = 0 => ClampedPage = 0)
  BY <1>2 DEF ClampedPage
<1> QED
  BY <1>2, <1>3

\* A page has tiles, and they are those of its place in the order.
LEMMA PageGood ==
    ASSUME TilesGood, NEW k \in Nat, k * PageSize \in Nat,
           k * PageSize + 1 <= Len(allTiles)
    PROVE  /\ Range(TilesOfPage(k)) \subseteq Tile /\ Range(TilesOfPage(k)) # {}
           /\ \A i \in 1..Len(allTiles) : k = 0 /\ i <= PageSize
                => SortedTiles[i] \in Range(TilesOfPage(k))
<1> DEFINE n == Len(allTiles)
           lo == k * PageSize + 1
           hi == IF (k + 1) * PageSize < n THEN (k + 1) * PageSize ELSE n
           s == SortedTiles
           page == SubSeq(s, lo, hi)
<1>1. s \in Seq(Tile) /\ Len(s) = n /\ n \in Nat
  BY SortedGood, LenProperties DEF TilesGood
<1>2. DOMAIN s = 1..n /\ \A i \in 1..n : s[i] \in Tile
  <2>1. DOMAIN s = 1..n
    BY <1>1, LenProperties
  <2> QED
    BY <1>1, <2>1
<1>3. PageSize \in Nat /\ PageSize >= 1
  BY ScreenAssumption
<1>4. lo \in 1..n /\ hi \in lo..n
  <2>1. (k + 1) * PageSize = k * PageSize + PageSize
    BY <1>3
  <2> QED
    BY <1>1, <1>3, <2>1
<1>5. TilesOfPage(k) = page
  BY <1>1 DEF TilesOfPage
<1> HIDE DEF s, lo, hi, n
<1>6. /\ page \in Seq(Tile) /\ Len(page) = hi - lo + 1
      /\ \A i \in 1..(hi - lo + 1) : page[i] = s[lo + i - 1]
  <2>1. lo \in Int /\ hi \in Int /\ lo <= hi /\ \A i \in lo..hi : s[i] \in Tile
    BY <1>1, <1>2, <1>4
  <2> QED
    BY <2>1, SubSeqProperties
<1> HIDE DEF page
<1>7. DOMAIN page = 1..(hi - lo + 1) /\ 1 \in DOMAIN page
  BY <1>1, <1>4, <1>6, LenProperties
<1>8. Range(page) \subseteq Tile /\ Range(page) # {}
  BY <1>6, <1>7 DEF Range
<1>9. ASSUME NEW i \in 1..n, k = 0, i <= PageSize
      PROVE  s[i] \in Range(page)
  <2>1. lo = 1 /\ i <= hi
    BY <1>1, <1>3, <1>9 DEF lo, hi
  <2>2. i \in 1..(hi - lo + 1) /\ lo + i - 1 = i
    BY <1>1, <1>4, <2>1
  <2>3. i \in DOMAIN page /\ page[i] = s[i]
    BY <1>6, <1>7, <2>2
  <2> QED
    BY <2>3 DEF Range
<1> QED
  BY <1>5, <1>8, <1>9 DEF s, n

\* The tiles of the user and of who speaks are as many as their places.
LEMMA HeardCount ==
    ASSUME TilesGood
    PROVE  /\ Cardinality(OwnAt \cup SpeakersAt) \in Nat
           /\ Cardinality(OwnAt \cup SpeakersAt)
                = Cardinality({t \in Range(allTiles) : IsLocal(t) \/ Speaks(t)})
<1> DEFINE P == OwnAt \cup SpeakersAt
           T == {t \in Range(allTiles) : IsLocal(t) \/ Speaks(t)}
           f == [i \in P |-> allTiles[i]]
<1>1. /\ allTiles \in Seq(Tile) /\ Len(allTiles) \in Nat
      /\ DOMAIN allTiles = 1..Len(allTiles) /\ Once(allTiles)
  BY LenProperties DEF TilesGood
<1>2. P \in SUBSET DOMAIN allTiles
  BY DEF OwnAt, SpeakersAt
<1>3. IsFiniteSet(P) /\ Cardinality(P) \in Nat
  <2>1. IsFiniteSet(1..Len(allTiles))
    BY <1>1, FS_Interval
  <2> HIDE DEF P
  <2>2. IsFiniteSet(P)
    BY <1>1, <1>2, <2>1, FS_Subset
  <2> QED
    BY <2>2, FS_CardinalityType
<1>4. \A i \in P : allTiles[i] \in T
  BY <1>2 DEF OwnAt, SpeakersAt, Range
<1>5. \A t \in T : \E i \in P : allTiles[i] = t
  BY DEF OwnAt, SpeakersAt, Range
<1> HIDE DEF P, T
<1>6. f \in [P -> T] /\ \A i, j \in P : f[i] = f[j] => i = j
  BY <1>1, <1>2, <1>4 DEF Once
<1>7. \A t \in T : \E i \in P : f[i] = t
  BY <1>5
<1> HIDE DEF f
<1>8. f \in Bijection(P, T)
  <2>1. f \in Injection(P, T)
    BY <1>6 DEF Injection, IsInjective
  <2>2. f \in Surjection(P, T)
    BY <1>6, <1>7 DEF Surjection
  <2> QED
    BY <2>1, <2>2 DEF Bijection
<1>9. ExistsBijection(P, T)
  BY <1>8 DEF ExistsBijection
<1>10. Cardinality(T) = Cardinality(P)
  BY <1>3, <1>9, FS_Bijection
<1> QED
  BY <1>3, <1>10 DEF P, T

-----------------------------------------------------------------------------
(* What is heard.                                                          *)

\* Only tiles are on the screen, and some of them is, in a call.
LEMMA OnScreenGood ==
    ASSUME TilesGood, ScreenTyped
    PROVE  /\ OnScreen \subseteq Tile
           /\ inCall => OnScreen # {}
           /\ inCall /\ layout = "grid" => OnScreen = Range(TilesOfPage(ClampedPage))
<1>1. pageNo \in Nat /\ layout \in {"grid", "spotlight"}
  BY DEF ScreenTyped
<1>2. /\ ClampedPage \in Nat /\ ClampedPage * PageSize \in Nat
      /\ ClampedPage * PageSize + 1 <= Len(allTiles)
  BY <1>1, PageShown
<1>3. Range(TilesOfPage(ClampedPage)) \subseteq Tile /\ Range(TilesOfPage(ClampedPage)) # {}
  BY <1>2, PageGood
<1>4. Big \in Tile
  <2>1. allTiles \in Seq(Tile) /\ 1 \in DOMAIN allTiles
    <3>1. Len(allTiles) \in Nat /\ DOMAIN allTiles = 1..Len(allTiles)
      BY LenProperties DEF TilesGood
    <3> QED
      BY <3>1 DEF TilesGood
  <2>2. allTiles[1] \in Tile /\ Range(allTiles) \subseteq Tile
    BY <2>1 DEF Range
  <2> QED
    BY <2>2 DEF Big
<1>5. Range(Strip) \subseteq Tile
  <2> DEFINE P == {i \in DOMAIN allTiles : allTiles[i] # Big}
             rest == Filtered(allTiles, P)
             n == IF Len(rest) < StripSize THEN Len(rest) ELSE StripSize
  <2>1. allTiles \in Seq(Tile) /\ P \in SUBSET DOMAIN allTiles
    BY DEF TilesGood
  <2>2. rest \in Seq(Tile)
    <3> HIDE DEF P
    <3> QED
      BY <2>1, FilterMembers
  <2>3. Strip = SubSeq(rest, 1, n)
    BY DEF Strip
  <2> HIDE DEF rest, P
  <2>4. Len(rest) \in Nat /\ DOMAIN rest = 1..Len(rest) /\ \A i \in DOMAIN rest : rest[i] \in Tile
    BY <2>2, LenProperties
  <2>5. n \in Int /\ \A i \in 1..n : rest[i] \in Tile
    BY <2>4, ScreenAssumption
  <2> HIDE DEF n
  <2>6. SubSeq(rest, 1, n) \in Seq(Tile)
    BY <2>5, SubSeqProperties
  <2> QED
    BY <2>3, <2>6 DEF Range
<1> QED
  BY <1>1, <1>3, <1>4, <1>5 DEF OnScreen

\* The tiles as the invariant has them are good.
LEMMA InvTiles ==
    ASSUME ScreenInv
    PROVE  /\ TilesGood
           /\ \A u \in Range(people) : \E i \in DOMAIN allTiles :
                allTiles[i] = [kind |-> "camera", of |-> u]
<1>1. ScreenTyped /\ allTiles = AllTilesNow
  BY DEF ScreenInv, Rendered
<1> QED
  BY <1>1, TilesOnce DEF TilesGood

\* Who speaks is heard on the first page.
LEMMA SpeakersAreHeard == ASSUME ScreenInv PROVE SpeakersHeard
<1>1. /\ ScreenTyped /\ TilesGood /\ DOMAIN gains = OnScreen
      /\ \A t \in OnScreen : gains[t] = Gain(t)
      /\ \A u \in Range(people) : \E i \in DOMAIN allTiles :
                allTiles[i] = [kind |-> "camera", of |-> u]
  BY InvTiles DEF ScreenInv, Rendered
<1>2. SUFFICES ASSUME inCall, layout = "grid"
               PROVE  /\ DOMAIN gains # {}
                      /\ (pageNo = 0 /\ ~deafened
                            /\ Cardinality({t \in Range(allTiles) : IsLocal(t) \/ Speaks(t)})
                                 <= PageSize) =>
                           \A u \in speaking :
                              \E t \in DOMAIN gains : t.kind = "camera" /\ t.of = u
                                                      /\ gains[t] = volume[u]
  BY DEF SpeakersHeard
<1>3. OnScreen # {} /\ OnScreen = Range(TilesOfPage(ClampedPage))
  BY <1>1, <1>2, OnScreenGood
<1>4. ASSUME pageNo = 0, ~deafened, NEW u \in speaking,
             Cardinality({t \in Range(allTiles) : IsLocal(t) \/ Speaks(t)}) <= PageSize
      PROVE  \E t \in DOMAIN gains : t.kind = "camera" /\ t.of = u /\ gains[t] = volume[u]
  <2> DEFINE t == [kind |-> "camera", of |-> u]
  <2>1. u \in Range(people) /\ u \in People /\ u # Me
    <3>1. u \in Range(people)
      BY <1>1 DEF ScreenTyped
    <3>2. Range(people) \subseteq People
      BY <1>1 DEF ScreenTyped, Range
    <3> QED
      BY <3>1, <3>2, ScreenAssumption
  <2>2. PICK i \in DOMAIN allTiles : allTiles[i] = t
    BY <1>1, <2>1
  <2>3. t.kind = "camera" /\ t.of = u /\ ~IsLocal(t) /\ Speaks(t)
    BY <2>1 DEF IsLocal, Speaks
  <2>4. ClampedPage = 0 /\ ClampedPage \in Nat /\ ClampedPage * PageSize \in Nat
        /\ ClampedPage * PageSize + 1 <= Len(allTiles)
    BY <1>1, <1>4, PageShown DEF ScreenTyped
  <2>5. \A k \in 1..Len(allTiles) : k <= PageSize => SortedTiles[k] \in OnScreen
    BY <1>1, <1>3, <2>4, PageGood
  <2>6. /\ Len(allTiles) \in Nat /\ DOMAIN allTiles = 1..Len(allTiles)
        /\ allTiles \in Seq(Tile)
    BY <1>1, LenProperties DEF TilesGood
  <2> HIDE DEF t
  <2>7. t \in OnScreen
    <3>1. CASE Len(allTiles) <= PageSize
      <4>1. SortedTiles = allTiles
        BY <3>1 DEF SortedTiles
      <4>2. i \in 1..Len(allTiles) /\ i <= PageSize
        BY <2>6, <3>1, ScreenAssumption
      <4> QED
        BY <2>2, <2>5, <4>1, <4>2
    <3>2. CASE Len(allTiles) > PageSize
      <4>1. i \in SpeakersAt
        BY <2>2, <2>3 DEF SpeakersAt
      <4>2. PICK k \in DOMAIN SortedTiles :
              SortedTiles[k] = allTiles[i] /\ k <= Cardinality(OwnAt \cup SpeakersAt)
        BY <1>1, <3>2, <4>1, SortedGood
      <4>3. SortedTiles \in Seq(Tile) /\ Len(SortedTiles) = Len(allTiles)
        BY <1>1, SortedGood
      <4>4. k \in 1..Len(allTiles)
        BY <4>2, <4>3, LenProperties
      <4>5. Cardinality(OwnAt \cup SpeakersAt) \in Nat
            /\ Cardinality(OwnAt \cup SpeakersAt) <= PageSize
        BY <1>1, <1>4, HeardCount
      <4>6. k <= PageSize
        BY <2>6, <4>2, <4>4, <4>5, ScreenAssumption
      <4> QED
        BY <2>2, <2>5, <4>2, <4>4, <4>6
    <3> QED
      BY <2>6, <3>1, <3>2, ScreenAssumption
  <2>8. Gain(t) = volume[u]
    BY <1>4, <2>3 DEF Gain
  <2> QED
    BY <1>1, <2>3, <2>7, <2>8
<1> QED
  BY <1>1, <1>3, <1>4

-----------------------------------------------------------------------------
(* The menus.                                                              *)

\* At a place there is one menu, and it is somebody else's.
LEMMA MountsApart ==
    ASSUME NEW m \in Mounts, NEW n \in Mounts, SamePlace(m, n)
    PROVE  m = n
<1> DEFINE with == {t \in DOMAIN gains : HasMenu(t)}
           big == {t \in with : t = Big \/ t.kind = "screen"}
<1>1. CASE layout = "grid"
  <2>1. PICK t \in with, s \in with : m = Mount("grid", t) /\ n = Mount("grid", s)
    BY <1>1 DEF Mounts
  <2> QED
    BY <2>1 DEF Mount, SamePlace
<1>2. CASE layout # "grid"
  <2>1. PICK t \in big, s \in big :
          /\ m = Mount(IF t = Big THEN "big" ELSE "strip", t)
          /\ n = Mount(IF s = Big THEN "big" ELSE "strip", s)
    BY <1>2 DEF Mounts
  <2> HIDE DEF big, with
  <2>2. CASE t = Big /\ s = Big
    BY <2>1, <2>2
  <2>3. CASE t = Big /\ s # Big
    BY <2>1, <2>3 DEF Mount, SamePlace
  <2>4. CASE t # Big /\ s = Big
    BY <2>1, <2>4 DEF Mount, SamePlace
  <2>5. CASE t # Big /\ s # Big
    BY <2>1, <2>5 DEF Mount, SamePlace
  <2> QED
    BY <2>2, <2>3, <2>4, <2>5
<1> QED
  BY <1>1, <1>2

\* Only tiles sound, and a menu is for one of the others.
TilesSound == DOMAIN gains \subseteq Tile
MenusOfOthers == \A m \in Mounts : m.of \in People

\* As soon as only tiles sound the menus are those of others.
LEMMA MountsOthers == ASSUME TilesSound PROVE MenusOfOthers
<1> SUFFICES ASSUME NEW m \in Mounts PROVE m.of \in People
  BY DEF MenusOfOthers
<1>1. PICK t \in DOMAIN gains : ~IsLocal(t) /\ m.of = t.of
  BY DEF Mounts, Mount, HasMenu
<1>2. t.of \in People \cup {Me} /\ t.of # Me
  BY <1>1 DEF Tile, IsLocal, TilesSound
<1> QED
  BY <1>1, <1>2

\* Two menus that one can follow are the same.
LEMMA FollowedOnce ==
    ASSUME MenusMounted, NEW n, NEW a \in menus, NEW b \in menus,
           SamePlace(a.at, n), SamePlace(b.at, n)
    PROVE  a = b
<1>1. a.at \in Mounts /\ b.at \in Mounts
  BY DEF MenusMounted
<1>2. SamePlace(a.at, b.at)
  BY DEF SamePlace
<1>3. a.at = b.at
  BY <1>1, <1>2, MountsApart
<1> QED
  BY <1>3 DEF MenusMounted

\* What a step may do to the volumes: a volume above 0 is the last one.
SoundStep ==
    \A u \in People :
      /\ volume'[u] > 0 => before'[u] = volume'[u]
      /\ volume'[u] = 0 => before'[u] = before[u]

\* A menu after a step.
LEMMA MenuKept ==
    ASSUME ScreenTyped, ScreenTyped', VolumesKept, MenusMounted, SoundStep,
           TilesSound,
           NEW n, n.of \in People, NEW old, old = {m \in menus : SamePlace(m.at, n)},
           NEW m, m = MenuAt(n, old)
    PROVE  /\ m.at = n /\ m.last \in 1..2
           /\ volume'[n.of] > 0 => m.last = volume'[n.of]
           /\ volume'[n.of] = 0 /\ m.seen => m.last = before'[n.of]
<1> DEFINE u == n.of
<1>1. /\ m.at = n
      /\ m.last = IF volume'[u] > 0 THEN volume'[u]
                  ELSE IF old # {} THEN (CHOOSE k \in old : TRUE).last ELSE 1
      /\ m.seen = (volume'[u] > 0 \/ \E k \in old : k.seen /\ k.at.of = u)
  BY DEF MenuAt
<1>2. /\ u \in People /\ volume[u] \in 0..2 /\ volume'[u] \in 0..2
      /\ before'[u] \in 1..2
  BY DEF ScreenTyped
<1> HIDE DEF u
<1>3. CASE volume'[u] > 0
  BY <1>1, <1>2, <1>3 DEF u
<1>4. CASE ~(volume'[u] > 0)
  <2>1. volume'[u] = 0 /\ before'[u] = before[u]
    BY <1>2, <1>4 DEF SoundStep
  <2>2. CASE old = {}
    <3>1. ~m.seen
      BY <1>1, <1>4, <2>2
    <3>2. m.last = 1
      BY <1>1, <1>4, <2>2
    <3> QED
      BY <1>1, <1>4, <3>1, <3>2 DEF u
  <2>3. CASE old # {}
    <3>1. PICK k \in old : k = CHOOSE j \in old : TRUE
      BY <2>3
    <3>2. m.last = k.last /\ k \in menus /\ SamePlace(k.at, n)
      BY <1>1, <1>4, <2>3, <3>1
    <3>3. k.at.of \in People => k.last \in 1..2
      BY <3>2 DEF MenusMounted
    <3>4. ASSUME m.seen PROVE m.last = before'[u]
      <4>1. PICK j \in old : j.seen /\ j.at.of = u
        BY <1>1, <1>4, <3>4
      <4>2. j \in menus /\ SamePlace(j.at, n)
        BY <4>1
      <4>3. j = k
        BY <3>2, <4>2, FollowedOnce
      <4>4. k \in menus /\ k.at.of = u /\ k.seen
        BY <3>2, <4>1, <4>3
      <4>5. /\ volume[u] > 0 => k.last = volume[u]
            /\ volume[u] = 0 => k.last = before[u]
        BY <1>2, <4>4 DEF MenusMounted
      <4>6. volume[u] > 0 => before[u] = volume[u]
        BY <1>2 DEF VolumesKept
      <4> QED
        BY <1>2, <2>1, <3>2, <4>5, <4>6
    <3>5. k.last \in 1..2
      <4>1. k.at \in Mounts
        BY <3>2 DEF MenusMounted
      <4> QED
        BY <3>3, <4>1, MountsOthers DEF MenusOfOthers
    <3> QED
      BY <1>1, <1>4, <2>1, <3>2, <3>4, <3>5 DEF u
  <2> QED
    BY <2>2, <2>3
<1> QED
  BY <1>3, <1>4

\* The menus are those of others, and each remembers what unmuting restores.
LEMMA UnmuteIsRestored ==
    ASSUME ScreenInv
    PROVE  UnmuteRestores /\ \A m \in menus : m.last \in 1..2 /\ m.at.of \in People
<1>1. TilesGood /\ ScreenTyped /\ MenusMounted /\ DOMAIN gains = OnScreen
  BY InvTiles DEF ScreenInv, Rendered
<1>2. MenusOfOthers
  BY <1>1, OnScreenGood, MountsOthers DEF TilesSound
<1>3. ASSUME NEW m \in menus PROVE m.at.of \in People
  <2>1. m.at \in Mounts
    BY <1>1 DEF MenusMounted
  <2> QED
    BY <1>2, <2>1 DEF MenusOfOthers
<1> QED
  BY <1>1, <1>3 DEF MenusMounted, UnmuteRestores

\* How loud a tile plays.
LEMMA GainTyped ==
    ASSUME ScreenTyped, NEW t \in Tile PROVE Gain(t) \in 0..2
<1>1. t.of \in People \cup {Me}
  BY DEF Tile
<1>2. t.of # Me => volume[t.of] \in 0..2
  BY <1>1 DEF ScreenTyped
<1> QED
  BY <1>2 DEF Gain, IsLocal

\* The invariant contains the types and the property.
LEMMA ScreenFollows == ASSUME ScreenInv PROVE ScreenTypeOK /\ HeardAsSet
<1>1. /\ TilesGood /\ ScreenTyped /\ DOMAIN gains = OnScreen
      /\ \A t \in OnScreen : gains[t] = Gain(t)
  BY InvTiles DEF ScreenInv, Rendered
<1>2. OnScreen \subseteq Tile
  BY <1>1, OnScreenGood
<1>3. Range(gains) \subseteq 0..2
  BY <1>1, <1>2, GainTyped DEF Range
<1>4. UnmuteRestores /\ \A m \in menus : m.last \in 1..2
  BY UnmuteIsRestored
<1>5. IsInjective(people)
  BY <1>1 DEF ScreenTyped, IsInjective
<1>6. ScreenTypeOK
  BY <1>1, <1>2, <1>3, <1>4, <1>5 DEF ScreenTypeOK, ScreenTyped, TilesGood
<1> QED
  BY <1>4, <1>6, SpeakersAreHeard DEF HeardAsSet

\* Whatever happened: what React renders then keeps the invariant.
LEMMA RendersKeeps ==
    ASSUME ScreenInv, ScreenTyped', SoundStep, Renders
    PROVE  ScreenInv'
<1>1. ScreenTyped /\ VolumesKept /\ MenusMounted
  BY DEF ScreenInv
<1>2. /\ allTiles' = AllTilesNow'
      /\ gains' = [t \in OnScreen' |-> Gain(t)']
      /\ menus' = {MenuAt(n, {m \in menus : SamePlace(m.at, n)}) : n \in Mounts'}
  BY DEF Renders
<1>3. VolumesKept'
  <2>1. \A u \in People : volume'[u] > 0 => before'[u] = volume'[u]
    BY DEF SoundStep
  <2> QED
    BY <2>1 DEF VolumesKept
<1>4. Rendered'
  BY <1>2 DEF Rendered
<1>5. TilesGood'
  <2>1. /\ (AllTilesNow \in Seq(Tile))'
        /\ (Len(AllTilesNow) >= 1)'
        /\ Once(AllTilesNow)'
    BY TilesOnce, PTL
  <2> QED
    BY <1>2, <2>1 DEF TilesGood
<1>6. (OnScreen \subseteq Tile)'
  BY <1>5, OnScreenGood, PTL
<1>7. TilesSound'
  BY <1>2, <1>6 DEF TilesSound
<1>8. \A n \in Mounts' : n.of \in People
  <2>1. MenusOfOthers'
    BY <1>7, MountsOthers, PTL
  <2> QED
    BY <2>1 DEF MenusOfOthers
<1>9. TilesSound
  <2>1. DOMAIN gains = OnScreen
    BY DEF ScreenInv, Rendered
  <2> QED
    BY <1>1, <2>1, InvTiles, OnScreenGood DEF TilesSound
<1>10. ASSUME NEW n \in Mounts',
              NEW m, m = MenuAt(n, {k \in menus : SamePlace(k.at, n)})
       PROVE  /\ m.at = n /\ m.last \in 1..2
              /\ volume'[n.of] > 0 => m.last = volume'[n.of]
              /\ volume'[n.of] = 0 /\ m.seen => m.last = before'[n.of]
  BY <1>1, <1>8, <1>9, <1>10, MenuKept
<1>11. MenusMounted'
  <2>1. ASSUME NEW m \in menus'
        PROVE  \E n \in Mounts' : m = MenuAt(n, {k \in menus : SamePlace(k.at, n)})
                                  /\ m.at = n
    BY <1>2, <1>10
  <2>2. \A m \in menus' : m.at \in Mounts'
    BY <2>1
  <2>3. ASSUME NEW a \in menus', NEW b \in menus', a.at = b.at
        PROVE  a = b
    <3>1. PICK n \in Mounts' : a = MenuAt(n, {k \in menus : SamePlace(k.at, n)})
                               /\ a.at = n
      BY <2>1
    <3>2. PICK p \in Mounts' : b = MenuAt(p, {k \in menus : SamePlace(k.at, p)})
                               /\ b.at = p
      BY <2>1
    <3> QED
      BY <2>3, <3>1, <3>2
  <2>4. ASSUME NEW m \in menus'
        PROVE  /\ m.last \in 1..2
               /\ volume'[m.at.of] > 0 => m.last = volume'[m.at.of]
               /\ volume'[m.at.of] = 0 /\ m.seen => m.last = before'[m.at.of]
    <3>1. PICK n \in Mounts' : m = MenuAt(n, {k \in menus : SamePlace(k.at, n)})
                               /\ m.at = n
      BY <2>1
    <3> QED
      BY <1>10, <3>1
  <2> QED
    BY <2>2, <2>3, <2>4 DEF MenusMounted
<1> QED
  BY <1>3, <1>4, <1>11 DEF ScreenInv

-----------------------------------------------------------------------------
(* The steps.                                                              *)

\* The step left the volumes alone.
LEMMA SoundAlone ==
    ASSUME ScreenInv, UNCHANGED <<volume, before>> PROVE SoundStep
BY DEF ScreenInv, VolumesKept, SoundStep

\* There was a step of what MaxActs bounds.
LEMMA ActsTyped ==
    ASSUME ScreenInv, Acts PROVE acts' \in 0..MaxActs /\ Renders
<1>1. acts \in 0..MaxActs
  BY DEF ScreenInv, ScreenTyped
<1> QED
  BY <1>1, ScreenAssumption DEF Acts

\* A call is entered.
LEMMA EntersCallKeeps == ASSUME ScreenInv, EntersCall PROVE ScreenInv'
<1>1. ScreenTyped
  BY DEF ScreenInv
<1>2. Renders /\ SoundStep /\ acts' \in 0..MaxActs
  BY SoundAlone, ActsTyped DEF EntersCall, sound
<1>3. people' \in Seq(People) /\ \A i, j \in DOMAIN people' : i = j
  <2>1. CASE people' = << >>
    BY <2>1
  <2>2. ASSUME NEW u \in People, people' = <<u>>
        PROVE  people' \in Seq(People) /\ \A i, j \in DOMAIN people' : i = j
    BY <2>2
  <2> QED
    BY <2>1, <2>2 DEF EntersCall
<1>4. calling' \in People \cup {Me}
  BY DEF EntersCall
<1>5. UNCHANGED <<layout, spotlight, pageNo, deafened, volume, before>>
      /\ inCall' = TRUE /\ speaking' = {} /\ sharers' = {}
  BY DEF EntersCall, look, sound
<1>6. ScreenTyped'
  BY <1>1, <1>2, <1>3, <1>4, <1>5 DEF ScreenTyped
<1> QED
  BY <1>2, <1>6, RendersKeeps

\* The call is left.
LEMMA LeavesCallKeeps == ASSUME ScreenInv, LeavesCall PROVE ScreenInv'
<1>1. Renders /\ acts' \in 0..MaxActs
  BY ActsTyped DEF LeavesCall
<1>2. volume' = [u \in People |-> 1] /\ before' = [u \in People |-> 1]
  BY DEF LeavesCall
<1>3. SoundStep /\ volume' \in [People -> 0..2] /\ before' \in [People -> 1..2]
  BY <1>2 DEF SoundStep
<1>4. people' \in Seq(People) /\ \A i, j \in DOMAIN people' : i = j
  BY DEF LeavesCall
<1>5. ScreenTyped'
  BY <1>1, <1>3, <1>4 DEF ScreenTyped, LeavesCall
<1> QED
  BY <1>1, <1>3, <1>5, RendersKeeps

\* Somebody comes.
LEMMA ComesKeeps == ASSUME ScreenInv, NEW u \in People, Comes(u) PROVE ScreenInv'
<1>1. ScreenTyped
  BY DEF ScreenInv
<1>2. Renders /\ SoundStep /\ acts' \in 0..MaxActs
  BY SoundAlone, ActsTyped DEF Comes, sound
<1>3. /\ UNCHANGED <<layout, spotlight, pageNo, deafened, volume, before>>
      /\ UNCHANGED <<inCall, speaking, sharers>>
      /\ people' = Append(people, u) /\ u \notin Range(people)
      /\ calling' = IF calling = u THEN Me ELSE calling
  BY DEF Comes, look, sound
<1>4. /\ people \in Seq(People) /\ Len(people) \in Nat
      /\ DOMAIN people = 1..Len(people)
  BY <1>1, LenProperties DEF ScreenTyped
<1>5. /\ people' \in Seq(People) /\ DOMAIN people' = 1..(Len(people) + 1)
      /\ \A i \in DOMAIN people : people'[i] = people[i]
      /\ people'[Len(people) + 1] = u
  BY <1>3, <1>4, AppendProperties
<1>6. \A i, j \in DOMAIN people' : people'[i] = people'[j] => i = j
  <2>1. \A i \in DOMAIN people : people[i] # u
    BY <1>3 DEF Range
  <2>2. \A i \in DOMAIN people' : i \in DOMAIN people \/ i = Len(people) + 1
    BY <1>4, <1>5
  <2> QED
    BY <1>1, <1>5, <2>1, <2>2 DEF ScreenTyped
<1>7. Range(people) \subseteq Range(people')
  BY <1>4, <1>5 DEF Range
<1>8. ScreenTyped'
  BY <1>1, <1>2, <1>3, <1>5, <1>6, <1>7 DEF ScreenTyped
<1> QED
  BY <1>2, <1>8, RendersKeeps

\* Somebody goes.
LEMMA GoesKeeps == ASSUME ScreenInv, NEW u \in People, Goes(u) PROVE ScreenInv'
<1> DEFINE P == {i \in DOMAIN people : people[i] # u}
<1>1. ScreenTyped
  BY DEF ScreenInv
<1>2. Renders /\ SoundStep /\ acts' \in 0..MaxActs
  BY SoundAlone, ActsTyped DEF Goes, sound
<1>3. /\ UNCHANGED <<layout, spotlight, pageNo, deafened, volume, before>>
      /\ UNCHANGED <<inCall, calling>>
      /\ people' = Filtered(people, P)
      /\ speaking' = speaking \ {u} /\ sharers' = sharers \ {u}
  BY DEF Goes, look, sound
<1>4. people \in Seq(People) /\ P \in SUBSET DOMAIN people
  BY <1>1 DEF ScreenTyped
<1> HIDE DEF P
<1>5. people' \in Seq(People) /\ Picks(people', people, P)
  BY <1>3, <1>4, FilterMembers
<1>6. \A i, j \in DOMAIN people' : people'[i] = people'[j] => i = j
  BY <1>1, <1>4, <1>5 DEF Picks, ScreenTyped
<1>7. \A v \in Range(people) : v # u => v \in Range(people')
  <2>1. \A i \in DOMAIN people : people[i] # u => i \in P
    BY DEF P
  <2> QED
    BY <1>5, <2>1 DEF Picks, Range
<1>8. speaking' \subseteq Range(people') /\ sharers' \subseteq Range(people') \cup {Me}
  BY <1>1, <1>3, <1>7 DEF ScreenTyped
<1>9. ScreenTyped'
  BY <1>1, <1>2, <1>3, <1>5, <1>6, <1>8 DEF ScreenTyped
<1> QED
  BY <1>2, <1>9, RendersKeeps

\* Somebody speaks or stops.
LEMMA SpeaksOrNotKeeps ==
    ASSUME ScreenInv, NEW u \in People, SpeaksOrNot(u) PROVE ScreenInv'
<1>1. ScreenTyped
  BY DEF ScreenInv
<1>2. Renders /\ SoundStep /\ acts' \in 0..MaxActs
  BY SoundAlone, ActsTyped DEF SpeaksOrNot, sound
<1>3. /\ UNCHANGED <<layout, spotlight, pageNo, deafened, volume, before>>
      /\ UNCHANGED <<inCall, people, sharers, calling>>
      /\ speaking' \subseteq Range(people)
  BY <1>1 DEF SpeaksOrNot, look, sound, ScreenTyped
<1>4. ScreenTyped'
  BY <1>1, <1>2, <1>3 DEF ScreenTyped
<1> QED
  BY <1>2, <1>4, RendersKeeps

\* Somebody shares his screen or stops.
LEMMA SharesOrNotKeeps ==
    ASSUME ScreenInv, NEW u \in People \cup {Me}, SharesOrNot(u) PROVE ScreenInv'
<1>1. ScreenTyped
  BY DEF ScreenInv
<1>2. Renders /\ SoundStep /\ acts' \in 0..MaxActs
  BY SoundAlone, ActsTyped DEF SharesOrNot, sound
<1>3. /\ UNCHANGED <<layout, spotlight, pageNo, deafened, volume, before>>
      /\ UNCHANGED <<inCall, people, speaking, calling>>
      /\ sharers' \subseteq Range(people) \cup {Me}
  BY <1>1 DEF SharesOrNot, look, sound, ScreenTyped
<1>4. ScreenTyped'
  BY <1>1, <1>2, <1>3 DEF ScreenTyped
<1> QED
  BY <1>2, <1>4, RendersKeeps

\* A step of the user that changes what he looks at.
LEMMA LooksKeeps ==
    ASSUME ScreenInv, Acts, UNCHANGED stage, UNCHANGED sound,
           layout' \in {"grid", "spotlight"}, spotlight' \in Tile \cup {NoTile},
           pageNo' \in Nat
    PROVE  ScreenInv'
<1>1. ScreenTyped
  BY DEF ScreenInv
<1>2. Renders /\ SoundStep /\ acts' \in 0..MaxActs
  BY SoundAlone, ActsTyped DEF sound
<1>3. ScreenTyped'
  BY <1>1, <1>2 DEF ScreenTyped, stage, sound
<1> QED
  BY <1>2, <1>3, RendersKeeps

\* The user turns a page.
LEMMA TurnsPageKeeps == ASSUME ScreenInv, TurnsPage PROVE ScreenInv'
<1>1. ScreenTyped /\ pageNo \in Nat /\ TilesGood
  BY InvTiles DEF ScreenInv, ScreenTyped
<1>2. ClampedPage \in Nat
  BY <1>1, PageShown
<1>3. pageNo' \in Nat
  BY <1>2 DEF TurnsPage
<1>4. Acts /\ UNCHANGED stage /\ UNCHANGED sound /\ UNCHANGED <<layout, spotlight>>
  BY DEF TurnsPage
<1> QED
  BY <1>1, <1>3, <1>4, LooksKeeps DEF ScreenTyped

\* The user pins a tile.
LEMMA PinTileKeeps ==
    ASSUME ScreenInv, NEW t \in DOMAIN gains, PinTile(t) PROVE ScreenInv'
<1>1. ScreenTyped /\ TilesGood /\ DOMAIN gains = OnScreen
  BY InvTiles DEF ScreenInv, Rendered
<1>2. t \in Tile
  BY <1>1, OnScreenGood
<1>3. layout' \in {"grid", "spotlight"} /\ spotlight' \in Tile \cup {NoTile}
  BY <1>2 DEF PinTile
<1>4. Acts /\ UNCHANGED stage /\ UNCHANGED sound /\ pageNo' = pageNo
  BY DEF PinTile
<1> QED
  BY <1>1, <1>3, <1>4, LooksKeeps DEF ScreenTyped

\* The user chooses the grid or the spotlight.
LEMMA ChoosesLayoutKeeps ==
    ASSUME ScreenInv, NEW to \in {"grid", "spotlight"}, ChoosesLayout(to) PROVE ScreenInv'
<1>1. ScreenTyped /\ TilesGood
  BY InvTiles DEF ScreenInv
<1>2. allTiles[1] \in Tile
  <2>1. Len(allTiles) \in Nat /\ DOMAIN allTiles = 1..Len(allTiles)
    BY <1>1, LenProperties DEF TilesGood
  <2> QED
    BY <1>1, <2>1 DEF TilesGood
<1>3. layout' \in {"grid", "spotlight"} /\ spotlight' \in Tile \cup {NoTile}
  BY <1>1, <1>2 DEF ChoosesLayout, ScreenTyped
<1>4. Acts /\ UNCHANGED stage /\ UNCHANGED sound /\ pageNo' = pageNo
  BY DEF ChoosesLayout
<1> QED
  BY <1>1, <1>3, <1>4, LooksKeeps DEF ScreenTyped

\* The user deafens himself, or hears again.
LEMMA DeafensKeeps == ASSUME ScreenInv, Deafens PROVE ScreenInv'
<1>1. ScreenTyped
  BY DEF ScreenInv
<1>2. Renders /\ SoundStep /\ acts' \in 0..MaxActs
  BY SoundAlone, ActsTyped DEF Deafens
<1>3. ScreenTyped'
  BY <1>1, <1>2 DEF ScreenTyped, Deafens, stage, look
<1> QED
  BY <1>2, <1>3, RendersKeeps

\* The user sets a volume.
LEMMA SetVolumeKeeps ==
    ASSUME ScreenInv, NEW u \in People, NEW v \in 0..2, SetVolume(u, v) PROVE ScreenInv'
<1>1. ScreenTyped /\ VolumesKept
  BY DEF ScreenInv
<1>2. Renders /\ acts' \in 0..MaxActs
  BY ActsTyped DEF SetVolume
<1>3. /\ volume' = [volume EXCEPT ![u] = v]
      /\ before' = IF v > 0 THEN [before EXCEPT ![u] = v] ELSE before
      /\ UNCHANGED deafened /\ UNCHANGED stage /\ UNCHANGED look
  BY DEF SetVolume
<1>4. volume \in [People -> 0..2] /\ before \in [People -> 1..2]
  BY <1>1 DEF ScreenTyped
<1>5. volume' \in [People -> 0..2] /\ before' \in [People -> 1..2]
  BY <1>3, <1>4
<1>6. SoundStep
  <2>1. SUFFICES ASSUME NEW w \in People
                 PROVE  /\ volume'[w] > 0 => before'[w] = volume'[w]
                        /\ volume'[w] = 0 => before'[w] = before[w]
    BY DEF SoundStep
  <2>2. CASE w = u
    BY <1>3, <1>4, <2>2
  <2>3. CASE w # u
    BY <1>1, <1>3, <1>4, <2>3 DEF VolumesKept
  <2> QED
    BY <2>2, <2>3
<1>7. ScreenTyped'
  BY <1>1, <1>2, <1>3, <1>5 DEF ScreenTyped, stage, look
<1> QED
  BY <1>2, <1>6, <1>7, RendersKeeps

\* The user moves the slider of a menu, or clicks its button.
LEMMA MenuKeeps ==
    ASSUME ScreenInv, NEW m \in menus,
           MutesOrNot(m) \/ \E v \in 0..2 : Slides(m, v)
    PROVE  ScreenInv'
<1>1. m.at.of \in People /\ m.last \in 1..2
  BY UnmuteIsRestored
<1>2. PICK v \in 0..2 : SetVolume(m.at.of, v)
  BY <1>1 DEF MutesOrNot, Slides
<1> QED
  BY <1>1, <1>2, SetVolumeKeeps

\* Before the call there is nothing on the screen.
LEMMA ScreenStarts == ASSUME ScreenInit PROVE ScreenInv
<1>1. ScreenTyped
  <2>1. people \in Seq(People) /\ \A i, j \in DOMAIN people : i = j
    BY DEF ScreenInit
  <2>2. volume \in [People -> 0..2] /\ before \in [People -> 1..2]
    BY DEF ScreenInit
  <2>3. acts \in 0..MaxActs /\ pageNo \in Nat
    BY ScreenAssumption DEF ScreenInit
  <2>4. spotlight \in Tile \cup {NoTile}
    BY DEF ScreenInit
  <2> QED
    BY <2>1, <2>2, <2>3, <2>4 DEF ScreenInit, ScreenTyped
<1>2. VolumesKept
  BY DEF ScreenInit, VolumesKept
<1>3. Rendered
  <2>1. OnScreen = {} /\ gains = << >>
    BY DEF ScreenInit, OnScreen
  <2>2. [t \in OnScreen |-> Gain(t)] = << >>
    BY <2>1
  <2> QED
    BY <2>1, <2>2 DEF Rendered, ScreenInit
<1>4. MenusMounted
  BY DEF ScreenInit, MenusMounted
<1> QED
  BY <1>1, <1>2, <1>3, <1>4 DEF ScreenInv

\* Every step keeps the invariant.
LEMMA ScreenKept ==
    ASSUME ScreenInv, [ScreenNext]_screenVars PROVE ScreenInv'
<1>1. CASE ScreenNext
  BY <1>1, EntersCallKeeps, LeavesCallKeeps, TurnsPageKeeps, DeafensKeeps,
     ComesKeeps, GoesKeeps, SpeaksOrNotKeeps, SharesOrNotKeeps, PinTileKeeps,
     ChoosesLayoutKeeps, MenuKeeps DEF ScreenNext
<1>2. CASE UNCHANGED screenVars
  <2>1. UNCHANGED <<inCall, people, speaking, sharers, calling, layout, spotlight, pageNo>>
        /\ UNCHANGED <<deafened, volume, before, allTiles, gains, menus, acts>>
    BY <1>2 DEF screenVars, stage, look, sound
  <2>2. ScreenTyped' /\ VolumesKept'
    BY <2>1 DEF ScreenInv, ScreenTyped, VolumesKept
  <2>3. Rendered'
    <3>1. AllTilesNow' = AllTilesNow
      BY <2>1 DEF AllTilesNow, Everybody, Rung, Sharing, Tiles
    <3>2. SortedTiles' = SortedTiles
      BY <2>1 DEF SortedTiles, OwnAt, SpeakersAt, OthersAt, IsLocal, Speaks
    <3>3. OnScreen' = OnScreen
      BY <2>1, <3>2 DEF OnScreen, TilesOfPage, ClampedPage, PageCount, Big, Strip
    <3>4. \A t \in OnScreen : Gain(t)' = Gain(t)
      BY <2>1 DEF Gain, IsLocal
    <3> QED
      BY <2>1, <3>1, <3>3, <3>4 DEF ScreenInv, Rendered
  <2>4. MenusMounted'
    <3>1. Mounts' = Mounts
      BY <2>1 DEF Mounts, Big, HasMenu, IsLocal, Mount
    <3> QED
      BY <2>1, <3>1 DEF ScreenInv, MenusMounted
  <2> QED
    BY <2>2, <2>3, <2>4 DEF ScreenInv
<1> QED
  BY <1>1, <1>2

\* HEARD AS SET.  Who speaks is heard on the first page, a page that is shown has tiles on it,
\* and the button of a volume menu restores what there was, for any number of participants,
\* any size of a page and any changes of the call, the layout and the volumes.
THEOREM ScreenCorrect == WebSpec => [](ScreenTypeOK /\ HeardAsSet)
  <1>1. WebInit => ScreenInv
    BY ScreenStarts DEF WebInit
  <1>2. ScreenInv /\ [WebNext]_webVars => ScreenInv'
    <2>1. [WebNext]_webVars => [ScreenNext]_screenVars
      BY DEF WebNext, webVars
    <2> QED
      BY <2>1, ScreenKept
  <1>3. ScreenInv => ScreenTypeOK /\ HeardAsSet
    BY ScreenFollows
  <1> QED
    BY <1>1, <1>2, <1>3, PTL DEF WebSpec

-----------------------------------------------------------------------------
(* Invite links (InviteLinks).                                             *)

LinksKnown ==
    /\ \A r \in Request : pc[r] # "idle" => want[r].link \in created
    /\ \A l \in Link : l \notin created => uses[l] = 0

OneClaim ==
    \A q, r \in Request :
      pc[q] \in InTx /\ pc[r] \in InTx /\ want[q].link = want[r].link => q = r

SlotKept ==
    \A r \in Request : pc[r] \in InTx =>
      HasSlot(want[r].link) /\ want[r].link \notin revoked

OneEntry ==
    /\ \A q, r \in Request :
         /\ pc[q] \in {"named", "inserted"} /\ pc[r] \in {"named", "inserted"}
         /\ want[q].name = want[r].name
         => q = r
    /\ \A q, r \in Request :
         /\ pc[q] = "inserted" /\ pc[r] = "inserted"
         /\ want[q].email = want[r].email
         => q = r

EntryNew ==
    \A r \in Request :
      /\ pc[r] \in {"named", "inserted"} => ~NameTaken(r)
      /\ pc[r] = "inserted" => ~EmailTaken(r)

UsersFinite == IsFiniteSet(users)

LinksInv == /\ TypeOK /\ LinksKnown /\ OneClaim /\ SlotKept /\ OneEntry /\ EntryNew
        /\ UsersFinite /\ SlotsMatchUsers /\ UniqueUsers /\ GoneOnlyWhenDead

-----------------------------------------------------------------------------
(* The initial state and the steps of links.                               *)

\* Nothing is there initially.
LEMMA LinksStart == Init => LinksInv
<1> SUFFICES ASSUME Init PROVE LinksInv
  OBVIOUS
<1>1. TypeOK
  BY DEF Init, TypeOK, HandlerState
<1>2. UsersFinite /\ SlotsMatchUsers
  <2>1. users = {} /\ IsFiniteSet(users)
    BY FS_EmptySet DEF Init
  <2>2. ASSUME NEW l \in Link PROVE uses[l] = Cardinality({u \in users : u.link = l})
    <3>1. {u \in users : u.link = l} = {}
      BY <2>1
    <3> QED BY <3>1, FS_EmptySet DEF Init
  <2> QED BY <2>1, <2>2 DEF UsersFinite, SlotsMatchUsers
<1> QED
  BY <1>1, <1>2 DEF Init, LinksInv, LinksKnown, OneClaim, SlotKept, OneEntry, EntryNew,
     UniqueUsers, GoneOnlyWhenDead, InTx

\* Creation, expiry and revocation keep the invariant; a revocation because it
\* waits for the transaction that holds the link.
LEMMA InvLink ==
  ASSUME LinksInv, NEW l \in Link,
         \/ \E n \in (1..MaxCap) \cup {Unlimited} : CreateLink(l, n)
         \/ Expire(l) \/ Revoke(l)
  PROVE  LinksInv'
<1>1. UNCHANGED <<uses, users, want, fresh, pc>>
  BY DEF CreateLink, Expire, Revoke
<1>2. \A k \in Link : k \in created => cap'[k] = cap[k]
  BY DEF CreateLink, Expire, Revoke, LinksInv, TypeOK
<1>3. created \subseteq created' /\ revoked \subseteq revoked'
  BY DEF CreateLink, Expire, Revoke
<1>4. TypeOK'
  <2>1. cap' \in [Link -> (1..MaxCap) \cup {Unlimited}]
    BY DEF CreateLink, Expire, Revoke, LinksInv, TypeOK
  <2>2. \A k \in Link : cap'[k] # Unlimited => uses'[k] <= cap'[k]
    <3> SUFFICES ASSUME NEW k \in Link, cap'[k] # Unlimited
                 PROVE  uses[k] <= cap'[k]
      BY <1>1
    <3>1. CASE k \in created
      BY <3>1, <1>2 DEF LinksInv, TypeOK
    <3>2. CASE k \notin created
      <4>1. uses[k] = 0
        BY <3>2 DEF LinksInv, LinksKnown
      <4>2. cap'[k] \in 1..MaxCap
        BY <2>1
      <4> QED BY <4>1, <4>2, MaxCapAssumption
    <3> QED BY <3>1, <3>2
  <2>3. created' \in SUBSET Link /\ revoked' \in SUBSET Link /\ expired' \in SUBSET Link
    BY DEF CreateLink, Expire, Revoke, LinksInv, TypeOK
  <2> QED BY <1>1, <2>1, <2>2, <2>3 DEF LinksInv, TypeOK
<1>5. LinksKnown' /\ OneClaim' /\ OneEntry' /\ UsersFinite' /\ SlotsMatchUsers'
        /\ UniqueUsers'
  BY <1>1, <1>3 DEF LinksInv, LinksKnown, OneClaim, OneEntry, UsersFinite,
     SlotsMatchUsers, UniqueUsers
<1>6. EntryNew'
  BY <1>1 DEF LinksInv, EntryNew, NameTaken, EmailTaken
<1>7. SlotKept'
  <2> SUFFICES ASSUME NEW r \in Request, pc[r] \in InTx
               PROVE  HasSlot(want[r].link)' /\ want[r].link \notin revoked'
    BY <1>1 DEF SlotKept
  <2>1. want[r].link \in created /\ want[r].link \in Link
    BY DEF LinksInv, TypeOK, LinksKnown, InTx, Wish
  <2>2. HasSlot(want[r].link)'
    BY <2>1, <1>1, <1>2 DEF LinksInv, SlotKept, HasSlot
  <2>3. want[r].link \notin revoked'
    BY DEF LinksInv, SlotKept, CreateLink, Expire, Revoke, LinkFree
  <2> QED BY <2>2, <2>3
<1>8. GoneOnlyWhenDead'
  <2> SUFFICES ASSUME NEW r \in Request, pc[r] = "gone"
               PROVE  \/ want[r].link \in revoked'
                      \/ ~fresh[r]
                      \/ uses[want[r].link] = cap'[want[r].link]
    BY <1>1 DEF GoneOnlyWhenDead
  <2>1. want[r].link \in created /\ want[r].link \in Link
    BY DEF LinksInv, TypeOK, LinksKnown, Wish
  <2> QED BY <2>1, <1>2, <1>3 DEF LinksInv, GoneOnlyWhenDead
<1> QED BY <1>4, <1>5, <1>6, <1>7, <1>8 DEF LinksInv

-----------------------------------------------------------------------------
(* The steps of a redemption.                                              *)

\* A new request holds nothing.
LEMMA InvBegin ==
  ASSUME LinksInv, NEW r \in Request, NEW wish \in Wish, Begin(r, wish)
  PROVE  LinksInv'
<1>1. pc' = [pc EXCEPT ![r] = "begun"] /\ pc[r] = "idle"
  BY DEF Begin, Goto
<1>2. want' = [want EXCEPT ![r] = wish] /\ wish.link \in created
  BY DEF Begin
<1>3. UNCHANGED <<linkVars, users>>
  BY DEF Begin
<1>4. TypeOK'
  BY <1>1, <1>2, <1>3 DEF LinksInv, TypeOK, Begin, HandlerState, linkVars
<1>5. LinksKnown' /\ OneClaim' /\ OneEntry'
  BY <1>1, <1>2, <1>3 DEF LinksInv, TypeOK, LinksKnown, OneClaim, OneEntry, InTx, linkVars
<1>6. SlotKept' /\ EntryNew'
  BY <1>1, <1>2, <1>3 DEF LinksInv, TypeOK, SlotKept, EntryNew, HasSlot, NameTaken,
     EmailTaken, InTx, linkVars
<1>7. UsersFinite' /\ SlotsMatchUsers' /\ UniqueUsers'
  BY <1>3 DEF LinksInv, UsersFinite, SlotsMatchUsers, UniqueUsers, linkVars
<1>8. GoneOnlyWhenDead'
  BY <1>1, <1>2, <1>3 DEF LinksInv, TypeOK, GoneOnlyWhenDead, Begin, linkVars
<1> QED BY <1>4, <1>5, <1>6, <1>7, <1>8 DEF LinksInv

\* A step that only moves a request keeps the invariant if what the request
\* holds then was free, and "gone" is told only of a dead link.
LEMMA InvMove ==
  ASSUME LinksInv, NEW r \in Request, NEW where \in HandlerState \ {"idle"},
         Goto(r, where), UNCHANGED <<linkVars, users, want, fresh>>,
         pc[r] # "idle",
         where \in InTx => \/ pc[r] \in InTx
                           \/ LinkFree(want[r].link) /\ Alive(r),
         where \in {"named", "inserted"} =>
           pc[r] = "named" \/ (NameFree(r) /\ ~NameTaken(r)),
         where = "inserted" => EmailFree(r) /\ ~EmailTaken(r),
         where = "gone" => ~Alive(r)
  PROVE  LinksInv'
<1>1. pc' = [pc EXCEPT ![r] = where]
  BY DEF Goto
<1>2. pc \in [Request -> HandlerState]
  BY DEF LinksInv, TypeOK
<1>3. TypeOK'
  BY <1>1, <1>2 DEF LinksInv, TypeOK, linkVars
<1>4. LinksKnown'
  BY <1>1, <1>2 DEF LinksInv, LinksKnown, linkVars
<1>5. OneClaim'
  BY <1>1, <1>2 DEF LinksInv, OneClaim, LinkFree
<1>6. SlotKept'
  BY <1>1, <1>2 DEF LinksInv, SlotKept, Alive, HasSlot, linkVars
<1>7. OneEntry'
  <2>1. \A p, q \in Request :
          /\ pc'[p] \in {"named", "inserted"} /\ pc'[q] \in {"named", "inserted"}
          /\ want[p].name = want[q].name
          => p = q
    BY <1>1, <1>2 DEF LinksInv, OneEntry, NameFree
  <2>2. \A p, q \in Request :
          /\ pc'[p] = "inserted" /\ pc'[q] = "inserted"
          /\ want[p].email = want[q].email
          => p = q
    BY <1>1, <1>2 DEF LinksInv, OneEntry, EmailFree
  <2> QED BY <2>1, <2>2 DEF OneEntry
<1>8. EntryNew'
  BY <1>1, <1>2 DEF LinksInv, EntryNew, NameTaken, EmailTaken
<1>9. UsersFinite' /\ SlotsMatchUsers' /\ UniqueUsers'
  BY DEF LinksInv, UsersFinite, SlotsMatchUsers, UniqueUsers, linkVars
<1>10. GoneOnlyWhenDead'
  <2> SUFFICES ASSUME NEW q \in Request, pc'[q] = "gone"
               PROVE  \/ want[q].link \in revoked
                      \/ ~fresh[q]
                      \/ uses[want[q].link] = cap[want[q].link]
    BY DEF GoneOnlyWhenDead, linkVars
  <2>1. CASE pc[q] = "gone"
    BY <2>1 DEF LinksInv, GoneOnlyWhenDead
  <2>2. CASE pc[q] # "gone"
    <3>1. q = r /\ where = "gone" /\ ~Alive(r)
      BY <2>2, <1>1, <1>2
    <3>2. want[r].link \in Link
      BY DEF LinksInv, TypeOK, Wish
    <3>3. CASE HasSlot(want[r].link)
      BY <3>1, <3>3 DEF Alive
    <3>4. CASE ~HasSlot(want[r].link)
      BY <3>1, <3>2, <3>4, MaxCapAssumption, UnlimitedAssumption
         DEF HasSlot, LinksInv, TypeOK
    <3> QED BY <3>3, <3>4
  <2> QED BY <2>1, <2>2
<1> QED BY <1>3, <1>4, <1>5, <1>6, <1>7, <1>8, <1>9, <1>10 DEF LinksInv

\* Every step of a redemption before its commit, and after it, is such a move.
LEMMA InvSteps ==
  ASSUME LinksInv, NEW r \in Request,
         \/ Claim(r) \/ Preflight(r) \/ InsertName(r) \/ InsertEmail(r)
         \/ Fail(r) \/ Answer(r)
  PROVE  LinksInv'
<1>1. CASE Claim(r)
  <2>1. CASE Alive(r)
    BY <1>1, <2>1, InvMove DEF Claim, InTx, HandlerState
  <2>2. CASE ~Alive(r)
    BY <1>1, <2>2, InvMove DEF Claim, InTx, HandlerState, Refusal
  <2> QED BY <2>1, <2>2
<1>2. CASE Preflight(r)
  <2>1. Goto(r, "taken") \/ Goto(r, "checked")
    BY <1>2 DEF Preflight, Abort, Advance
  <2> QED
    BY <1>2, <2>1, InvMove
       DEF Preflight, Abort, Advance, InTx, HandlerState, Refusal
<1>3. CASE InsertName(r)
  <2>1. CASE NameTaken(r)
    BY <1>3, <2>1, InvMove DEF InsertName, Abort, InTx, HandlerState, Refusal
  <2>2. CASE ~NameTaken(r)
    BY <1>3, <2>2, InvMove DEF InsertName, Advance, InTx, HandlerState
  <2> QED BY <2>1, <2>2
<1>4. CASE InsertEmail(r)
  <2>1. CASE EmailTaken(r)
    BY <1>4, <2>1, InvMove DEF InsertEmail, Abort, InTx, HandlerState, Refusal
  <2>2. CASE ~EmailTaken(r)
    BY <1>4, <2>2, InvMove DEF InsertEmail, Advance, InTx, HandlerState
  <2> QED BY <2>1, <2>2
<1>5. CASE Fail(r)
  BY <1>5, InvMove DEF Fail, Abort, InTx, HandlerState, Refusal
<1>6. CASE Answer(r)
  <2>1. PICK answer \in {"ok", "internal"} : Advance(r, answer)
    BY <1>6 DEF Answer
  <2> QED
    BY <1>6, <2>1, InvMove DEF Answer, Advance, InTx, HandlerState, Refusal
<1> QED BY <1>1, <1>2, <1>3, <1>4, <1>5, <1>6

\* A commit adds one user, who is new, and counts one use, for which there is
\* room.
LEMMA InvCommit ==
  ASSUME LinksInv, NEW r \in Request, Commit(r)
  PROVE  LinksInv'
<1> DEFINE l == want[r].link
<1>1. want[r] \in Wish /\ l \in Link /\ pc[r] = "inserted" /\ pc[r] \in InTx
  BY DEF LinksInv, TypeOK, Commit, Wish, InTx
<1>2. /\ uses' = [uses EXCEPT ![l] = @ + 1]
      /\ users' = users \cup {want[r]}
      /\ pc' = [pc EXCEPT ![r] = "committed"]
      /\ UNCHANGED <<created, cap, revoked, expired, want, fresh>>
  BY DEF Commit, Goto
<1>3. \A q \in Request \ {r} : pc[q] \in InTx => want[q].link # l
  BY <1>1 DEF LinksInv, OneClaim
<1>4. \A q \in Request \ {r} : pc[q] \in {"named", "inserted"} => want[q].name # want[r].name
  BY <1>1 DEF LinksInv, OneEntry
<1>5. \A q \in Request \ {r} : pc[q] = "inserted" => want[q].email # want[r].email
  BY <1>1 DEF LinksInv, OneEntry
<1>6. \A u \in users : u.name # want[r].name /\ u.email # want[r].email
  BY <1>1 DEF LinksInv, EntryNew, NameTaken, EmailTaken
<1>7. TypeOK'
  <2>1. \A k \in Link : cap'[k] # Unlimited => uses'[k] <= cap'[k]
    <3> SUFFICES ASSUME NEW k \in Link, cap[k] # Unlimited PROVE uses'[k] <= cap[k]
      BY <1>2
    <3>1. cap[k] \in Nat /\ uses[k] \in Nat /\ uses[k] <= cap[k]
      BY MaxCapAssumption DEF LinksInv, TypeOK
    <3>2. CASE k = l
      BY <1>1, <1>2, <3>1, <3>2 DEF LinksInv, SlotKept, HasSlot, TypeOK
    <3>3. CASE k # l
      BY <1>2, <3>1, <3>3 DEF LinksInv, TypeOK
    <3> QED BY <3>2, <3>3
  <2> QED BY <1>1, <1>2, <2>1 DEF LinksInv, TypeOK, HandlerState
<1>8. LinksKnown' /\ OneClaim' /\ OneEntry'
  <2>1. l \in created
    BY <1>1 DEF LinksInv, LinksKnown
  <2> QED BY <1>1, <1>2, <2>1 DEF LinksInv, TypeOK, LinksKnown, OneClaim, OneEntry, InTx
<1>9. SlotKept'
  <2> SUFFICES ASSUME NEW q \in Request, pc'[q] \in InTx
               PROVE  HasSlot(want[q].link)' /\ want[q].link \notin revoked
    BY <1>2 DEF SlotKept
  <2>1. q # r /\ pc[q] \in InTx /\ want[q].link # l
    BY <1>1, <1>2, <1>3 DEF LinksInv, TypeOK, InTx
  <2>2. want[q].link \in Link
    BY <2>1 DEF LinksInv, TypeOK, InTx, Wish
  <2> QED BY <1>2, <2>1, <2>2 DEF LinksInv, TypeOK, SlotKept, HasSlot
<1>10. EntryNew'
  <2> SUFFICES ASSUME NEW q \in Request
               PROVE  /\ pc'[q] \in {"named", "inserted"} => ~NameTaken(q)'
                      /\ pc'[q] = "inserted" => ~EmailTaken(q)'
    BY DEF EntryNew
  <2>1. pc'[q] \in {"named", "inserted"} => q # r /\ pc[q] = pc'[q]
    BY <1>1, <1>2 DEF LinksInv, TypeOK
  <2> QED BY <1>2, <1>4, <1>5, <2>1 DEF LinksInv, EntryNew, NameTaken, EmailTaken
<1>11. UsersFinite'
  BY <1>2, FS_AddElement DEF LinksInv, UsersFinite
<1>12. SlotsMatchUsers'
  <2> SUFFICES ASSUME NEW k \in Link
               PROVE  uses'[k] = Cardinality({u \in users' : u.link = k})
    BY DEF SlotsMatchUsers
  <2> DEFINE S == {u \in users : u.link = k}
  <2>1. IsFiniteSet(S) /\ uses[k] = Cardinality(S)
    BY FS_Subset DEF LinksInv, UsersFinite, SlotsMatchUsers
  <2>2. CASE k = l
    <3>1. {u \in users' : u.link = k} = S \cup {want[r]} /\ want[r] \notin S
      BY <1>2, <1>6, <2>2
    <3>2. Cardinality(S \cup {want[r]}) = Cardinality(S) + 1
      BY <2>1, <3>1, FS_AddElement
    <3> QED BY <1>1, <1>2, <2>1, <2>2, <3>1, <3>2 DEF LinksInv, TypeOK
  <2>3. CASE k # l
    <3>1. {u \in users' : u.link = k} = S
      BY <1>2, <2>3
    <3> QED BY <1>2, <2>1, <2>3, <3>1 DEF LinksInv, TypeOK
  <2> QED BY <2>2, <2>3
<1>13. UniqueUsers'
  BY <1>2, <1>6 DEF LinksInv, UniqueUsers
<1>14. GoneOnlyWhenDead'
  <2> SUFFICES ASSUME NEW q \in Request, pc'[q] = "gone"
               PROVE  \/ want[q].link \in revoked
                      \/ ~fresh[q]
                      \/ uses'[want[q].link] = cap[want[q].link]
    BY <1>2 DEF GoneOnlyWhenDead
  <2>1. pc[q] = "gone" /\ want[q].link \in Link
    BY <1>1, <1>2 DEF LinksInv, TypeOK, Wish
  <2>2. CASE want[q].link # l
    BY <1>2, <2>1, <2>2 DEF LinksInv, TypeOK, GoneOnlyWhenDead
  <2>3. CASE want[q].link = l
    <3>1. l \notin revoked /\ HasSlot(l)
      BY <1>1 DEF LinksInv, SlotKept
    <3>2. uses[l] # cap[l]
      BY <1>1, <3>1, UnlimitedAssumption DEF LinksInv, TypeOK, HasSlot
    <3> QED BY <2>1, <2>3, <3>1, <3>2 DEF LinksInv, GoneOnlyWhenDead
  <2> QED BY <2>2, <2>3
<1> QED BY <1>7, <1>8, <1>9, <1>10, <1>11, <1>12, <1>13, <1>14 DEF LinksInv

\* Every step keeps the invariant.
LEMMA LinksKept == LinksInv /\ [Next]_vars => LinksInv'
<1> SUFFICES ASSUME LinksInv, [Next]_vars PROVE LinksInv'
  OBVIOUS
<1>1. CASE \E l \in Link : \/ \E n \in (1..MaxCap) \cup {Unlimited} : CreateLink(l, n)
                           \/ Expire(l) \/ Revoke(l)
  BY <1>1, InvLink
<1>2. CASE \E r \in Request : \E wish \in Wish : Begin(r, wish)
  BY <1>2, InvBegin
<1>3. CASE \E r \in Request : Commit(r)
  BY <1>3, InvCommit
<1>4. CASE \E r \in Request : \/ Claim(r) \/ Preflight(r) \/ InsertName(r)
                              \/ InsertEmail(r) \/ Fail(r) \/ Answer(r)
  BY <1>4, InvSteps
<1>5. CASE UNCHANGED vars
  BY <1>5 DEF vars, linkVars, LinksInv, TypeOK, LinksKnown, OneClaim, SlotKept, OneEntry,
     EntryNew, UsersFinite, SlotsMatchUsers, UniqueUsers, GoneOnlyWhenDead, HasSlot,
     NameTaken, EmailTaken
<1> QED BY <1>1, <1>2, <1>3, <1>4, <1>5 DEF Next, Redeem

\* What a redemption relies on holds in every reachable state.
THEOREM LinksInvariant == Spec => []LinksInv
<1>1. Init => LinksInv
  BY LinksStart
<1>2. LinksInv /\ [Next]_vars => LinksInv'
  BY LinksKept
<1> QED BY <1>1, <1>2, PTL DEF Spec

-----------------------------------------------------------------------------
(* The theorems.                                                           *)

\* Types, and uses_within_max: the constraint of the table is never run into,
\* for any number of links, requests and slots.
THEOREM TypeCorrect == Spec => []TypeOK
<1>1. LinksInv => TypeOK
  BY DEF LinksInv
<1> QED BY <1>1, LinksInvariant, PTL

\* Collisions never burn a slot, and nobody registers without one.
THEOREM SlotsCorrect == Spec => []SlotsMatchUsers
<1>1. LinksInv => SlotsMatchUsers
  BY DEF LinksInv
<1> QED BY <1>1, LinksInvariant, PTL

\* Names and emails stay unique under any race of redemptions.
THEOREM UsersCorrect == Spec => []UniqueUsers
<1>1. LinksInv => UniqueUsers
  BY DEF LinksInv
<1> QED BY <1>1, LinksInvariant, PTL

\* "link_unavailable" is never said of a link that has a slot left.
THEOREM GoneCorrect == Spec => []GoneOnlyWhenDead
<1>1. LinksInv => GoneOnlyWhenDead
  BY DEF LinksInv
<1> QED BY <1>1, LinksInvariant, PTL

\* A revoked link admits nobody, not even a redemption that was under way.
THEOREM RevokedCorrect == Spec => NobodyJoinsRevoked
<1>1. LinksInv /\ [Next]_vars => [\A u \in users' \ users : u.link \notin revoked]_vars
  <2> SUFFICES ASSUME LinksInv, [Next]_vars, NEW u \in users' \ users
               PROVE  u.link \notin revoked
    OBVIOUS
  <2>1. PICK r \in Request : Commit(r)
    BY DEF Next, Redeem, vars, linkVars, CreateLink, Expire, Revoke, Begin, Claim,
       Preflight, InsertName, InsertEmail, Fail, Answer, Abort, Advance
  <2>2. u = want[r] /\ pc[r] \in InTx
    BY <2>1 DEF Commit, InTx
  <2> QED BY <2>1, <2>2 DEF LinksInv, SlotKept
<1> QED BY <1>1, LinksInvariant, PTL DEF Spec, NobodyJoinsRevoked
=============================================================================
