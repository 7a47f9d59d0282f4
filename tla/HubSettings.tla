---------------------------- MODULE HubSettings ----------------------------
(***************************************************************************)
(* The dialogs of the web application that change what the hub keeps: the  *)
(* groups and their permissions, the name and the picture of the hub, and  *)
(* the profile of the user.  Each keeps a copy, edits it, sends requests   *)
(* without a version and patches or refetches the copy with the answers.   *)
(*                                                                         *)
(* The dialogs are modal and never unmounted: one is open at a time, and a *)
(* save goes on when its dialog is closed.  A name stands for every text   *)
(* of a form; a picture is the number of the upload that brought it.       *)
(***************************************************************************)
EXTENDS Integers, FiniteSets

CONSTANTS Bits,      \* the permissions of a group
          MaxRoles,  \* bound on the groups ever made
          MaxDeeds   \* bound on what the user, the others and the network do

ASSUME SettingsAssumption == MaxRoles \in Nat \ {0, 1} /\ MaxDeeds \in Nat

VARIABLES deeds,       \* how much of what MaxDeeds bounds there was
          dialog,      \* the dialog that is open, or "none"
          hubRoles,    \* the groups the service keeps
          rolesMade,   \* how many were ever made
          groups,      \* `groups` of the dialog
          selectedId,  \* the group it edits, or 0
          typing,      \* the cursor is in the name's field
          rolesLoad,   \* the load the open dialog waits for
          roleCalls,   \* the requests about groups under way
          roleDrift,   \* ghost: the copy may differ, see RolesFollowHub
          hubRecord,   \* the name and the picture of the hub
          hubCache,    \* what SWR has of them
          hubFetch,    \* the fetch SWR waits for
          draft,       \* the form: a name, and a picture not sent yet
          saving,      \* how far handleSave is
          hubDrift,    \* ghost, see SettingsShown
          me,          \* the profile the service keeps
          token,       \* the newest access token
          mine,        \* `session`: its token, name and picture
          shownMe,     \* savedName and avatarUrl
          myDraft,     \* draftName and avatarFile
          mySave,      \* the save under way, with the session it began with
          myDrift      \* ghost, see ProfileShown

roleVars == <<hubRoles, rolesMade, groups, selectedId, typing, rolesLoad,
              roleCalls, roleDrift>>
hubVars == <<hubRecord, hubCache, hubFetch, draft, saving, hubDrift>>
myVars == <<me, token, mine, shownMe, myDraft, mySave, myDrift>>
settingsVars == <<deeds, dialog, roleVars, hubVars, myVars>>

-----------------------------------------------------------------------------
Names == {"everyone", "role"}
Dialogs == {"none", "roles", "settings", "profile"}

(* Group 1 is the default one; a group is protected for its name.           *)
Role == [id : 1..MaxRoles, name : Names, bits : SUBSET Bits]
Everyone == [id |-> 1, name |-> "everyone", bits |-> {}]
Protected(g) == g.name = "everyone"

NoLoad == [stage |-> "idle", list |-> {}]

(* A request: the fields of an update that are not sent say "keep".         *)
RoleCall(op, id) ==
    [op |-> op, id |-> id, name |-> "keep", bits |-> {}, sets |-> FALSE,
     stage |-> "sent", row |-> Everyone]

Profile == [name : Names, pic : 0..MaxDeeds]
NewProfile == [name |-> "everyone", pic |-> 0]
NoHub == [name |-> "none", pic |-> 0]
NoSave == [stage |-> "idle"]

SettingsTypeOK ==
    /\ deeds \in 0..MaxDeeds /\ dialog \in Dialogs
    /\ hubRoles \subseteq Role /\ rolesMade \in 1..MaxRoles
    /\ groups \subseteq Role /\ selectedId \in 0..MaxRoles
    /\ typing \in BOOLEAN
    /\ rolesLoad.stage \in {"idle", "sent", "read"}
    /\ \A r \in roleCalls : r.stage \in {"sent", "served", "refused"}
    /\ hubRecord \in Profile /\ hubCache \in Profile \cup {NoHub}
    /\ hubFetch \in [stage : {"idle", "sent", "read"}, of : Profile \cup {NoHub}]
    /\ draft \in [name : Names, file : BOOLEAN, cropping : BOOLEAN]
    /\ saving.stage \in {"idle", "avatar", "patch", "mutate", "stuck"}
    /\ me \in Profile /\ token \in 1..(MaxDeeds + 1)
    /\ mine.token \in 1..token
    /\ shownMe \in Profile
    /\ myDraft \in [name : Names, file : BOOLEAN]
    /\ mySave.stage \in {"idle", "avatar", "name", "login"}
    /\ {roleDrift, hubDrift, myDrift} \subseteq BOOLEAN

SettingsInit ==
    /\ deeds = 0 /\ dialog = "none"
    /\ hubRoles = {Everyone, [id |-> 2, name |-> "role", bits |-> {}]}
    /\ rolesMade = 2
    /\ groups = {} /\ selectedId = 0 /\ typing = FALSE
    /\ rolesLoad = NoLoad /\ roleCalls = {} /\ roleDrift = TRUE
    /\ hubRecord = NewProfile /\ hubCache = NoHub
    /\ hubFetch = [stage |-> "sent", of |-> NoHub]
    /\ draft = [name |-> "everyone", file |-> FALSE, cropping |-> FALSE]
    /\ saving = NoSave /\ hubDrift = FALSE
    /\ me = NewProfile /\ token = 1
    /\ mine = [token |-> 1, name |-> "everyone", pic |-> 0]
    /\ shownMe = NewProfile
    /\ myDraft = [name |-> "everyone", file |-> FALSE]
    /\ mySave = NoSave /\ myDrift = FALSE

Deed == deeds < MaxDeeds /\ deeds' = deeds + 1

RoleFrame == UNCHANGED <<hubVars, myVars>>
HubFrame == UNCHANGED <<roleVars, myVars>>
MyFrame == UNCHANGED <<roleVars, hubVars>>

-----------------------------------------------------------------------------
(* Groups and roles: the copy.                                              *)

Selected == {g \in groups : g.id = selectedId}

(* The dialog opens, or the token is renewed while it is open, and the      *)
(* groups are fetched; what an earlier fetch brings is dropped.             *)
LoadsRoles ==
    /\ rolesLoad' = [stage |-> "sent", list |-> {}]
    /\ roleDrift' = (roleCalls # {})

OpenRoles ==
    /\ dialog = "none" /\ dialog' = "roles" /\ Deed
    /\ LoadsRoles
    /\ UNCHANGED <<hubRoles, rolesMade, groups, selectedId, typing, roleCalls>>
    /\ RoleFrame

ReloadRoles ==
    /\ dialog = "roles" /\ Deed /\ UNCHANGED dialog
    /\ LoadsRoles
    /\ UNCHANGED <<hubRoles, rolesMade, groups, selectedId, typing, roleCalls>>
    /\ RoleFrame

RolesRead ==
    /\ rolesLoad.stage = "sent"
    /\ rolesLoad' = [stage |-> "read", list |-> hubRoles]
    /\ UNCHANGED <<deeds, dialog, hubRoles, rolesMade, groups, selectedId, typing,
                   roleCalls, roleDrift>>
    /\ RoleFrame

(* The answer replaces the copy; an error leaves the one of the last time.  *)
RolesAnswered ==
    /\ rolesLoad.stage # "idle"
    /\ \/ rolesLoad.stage = "read" /\ groups' = rolesLoad.list /\ UNCHANGED roleDrift
       \/ roleDrift' = TRUE /\ UNCHANGED groups
    /\ rolesLoad' = NoLoad
    /\ typing' = (typing /\ \E g \in groups' : g.id = selectedId)
    /\ UNCHANGED <<deeds, dialog, hubRoles, rolesMade, selectedId, roleCalls>>
    /\ RoleFrame

(* handleOpenChange(false).  With the cursor in the field, Escape takes the *)
(* field away before its blur: the copy keeps a name that was never sent.   *)
CloseRoles ==
    /\ dialog = "roles" /\ dialog' = "none"
    /\ selectedId' = 0 /\ typing' = FALSE
    /\ rolesLoad' = NoLoad
    /\ roleDrift' = (roleDrift \/ typing \/ rolesLoad.stage # "idle")
    /\ UNCHANGED <<deeds, hubRoles, rolesMade, groups, roleCalls>>
    /\ RoleFrame

(* A row of the list, and the way back to it.                               *)
SelectRole(id) ==
    /\ dialog = "roles" /\ ~typing
    /\ \/ selectedId = 0 /\ \E g \in groups : g.id = id
       \/ id = 0 /\ Selected # {}
    /\ selectedId' = id
    /\ UNCHANGED <<deeds, dialog, hubRoles, rolesMade, groups, typing, rolesLoad,
                   roleCalls, roleDrift>>
    /\ RoleFrame

-----------------------------------------------------------------------------
(* Groups and roles: the requests.                                          *)

(* Requests carry no version: what overlaps may leave the copy behind.      *)
SendsRole(r) ==
    /\ Deed
    /\ roleCalls' = roleCalls \cup {r}
    /\ roleDrift' = (roleDrift \/ roleCalls # {} \/ rolesLoad.stage # "idle")
    /\ UNCHANGED <<dialog, hubRoles, rolesMade, selectedId, rolesLoad>>
    /\ RoleFrame

CreateRole ==
    /\ dialog = "roles" /\ Selected = {}
    /\ SendsRole(RoleCall("create", 0))
    /\ UNCHANGED <<groups, typing>>

(* The name's field changes the copy, and sends the name when it loses the  *)
(* cursor; everything else the user does takes the cursor out of it first.  *)
TypeName(g, name) ==
    /\ dialog = "roles" /\ g \in Selected
    /\ groups' = (groups \ {g}) \cup {[g EXCEPT !.name = name]}
    /\ typing' = TRUE
    /\ UNCHANGED <<deeds, dialog, hubRoles, rolesMade, selectedId, rolesLoad,
                   roleCalls, roleDrift>>
    /\ RoleFrame

BlurName(g) ==
    /\ typing /\ g \in Selected
    /\ typing' = FALSE
    /\ SendsRole([RoleCall("update", g.id) EXCEPT !.name = g.name])
    /\ UNCHANGED groups

(* toggleBit, from the bits of the copy.                                    *)
ToggleBit(g, bit) ==
    /\ dialog = "roles" /\ g \in Selected /\ ~typing
    /\ ~Protected(g)
    /\ SendsRole([RoleCall("update", g.id) EXCEPT !.sets = TRUE,
                    !.bits = IF bit \in g.bits THEN g.bits \ {bit}
                                               ELSE g.bits \cup {bit}])
    /\ UNCHANGED <<groups, typing>>

PickColor(g) ==
    /\ dialog = "roles" /\ g \in Selected /\ ~typing
    /\ SendsRole(RoleCall("update", g.id))
    /\ UNCHANGED <<groups, typing>>

DeleteRole(g) ==
    /\ dialog = "roles" /\ g \in Selected /\ ~typing
    /\ ~Protected(g)
    /\ SendsRole(RoleCall("delete", g.id))
    /\ UNCHANGED <<groups, typing>>

KeptRole(id) == {g \in hubRoles : g.id = id}

(* What an update leaves: a field that was not sent is kept.                *)
RoleUpdated(g, r) ==
    [g EXCEPT !.name = IF r.name = "keep" THEN @ ELSE r.name,
              !.bits = IF r.sets THEN r.bits ELSE @]

(* create_group, update_group and delete_group, which look at the kept name *)
(* and not at the one the dialog shows.                                     *)
RoleServed(r) ==
    /\ r.stage = "sent"
    /\ \E row \in Role :
         /\ \/ /\ r.op = "create" /\ rolesMade < MaxRoles
               /\ row = [id |-> rolesMade + 1, name |-> "role", bits |-> {}]
               /\ rolesMade' = rolesMade + 1
               /\ hubRoles' = hubRoles \cup {row}
            \/ /\ r.op = "update"
               /\ \E g \in KeptRole(r.id) :
                     /\ ~(Protected(g) /\ r.sets)
                     /\ row = RoleUpdated(g, r)
                     /\ hubRoles' = (hubRoles \ {g}) \cup {row}
               /\ UNCHANGED rolesMade
            \/ /\ r.op = "delete"
               /\ \E g \in KeptRole(r.id) :
                     /\ ~Protected(g) /\ g.id # Everyone.id
                     /\ row = g
                     /\ hubRoles' = hubRoles \ {g}
               /\ UNCHANGED rolesMade
         /\ roleCalls' = (roleCalls \ {r}) \cup {[r EXCEPT !.stage = "served", !.row = row]}
    /\ UNCHANGED <<deeds, dialog, groups, selectedId, typing, rolesLoad, roleDrift>>
    /\ RoleFrame

(* Refused, or lost on its way: nothing happens here.  A name that is       *)
(* refused stays in the copy.                                               *)
RoleRefused(r) ==
    /\ roleCalls' = roleCalls \ {r}
    /\ roleDrift' = (roleDrift \/ r.stage = "served" \/ r.name # "keep")
    /\ UNCHANGED <<deeds, dialog, hubRoles, rolesMade, groups, selectedId, typing,
                   rolesLoad>>
    /\ RoleFrame

(* Faulty variant: the row of an update is changed only where the request   *)
(* asked for it.                                                            *)
RoleAnsweredDeaf(r) ==
    /\ r.stage = "served"
    /\ roleCalls' = roleCalls \ {r}
    /\ groups' = IF r.op = "create" THEN groups \cup {r.row}
                 ELSE IF r.op = "delete" THEN {g \in groups : g.id # r.id}
                 ELSE groups
    /\ selectedId' = IF r.op = "update" THEN selectedId
                     ELSE IF r.op = "create" THEN r.row.id ELSE 0
    /\ typing' = (typing /\ selectedId' # 0)
    /\ roleDrift' = (roleDrift \/ (typing /\ selectedId' # selectedId))
    /\ UNCHANGED <<deeds, dialog, hubRoles, rolesMade, rolesLoad>>
    /\ RoleFrame

(* The answer: the new group is edited next, the row of an update is        *)
(* replaced whole, a deleted group goes and with it the editor, whichever   *)
(* group it is on by now; a name half typed in the editor is then not sent. *)
(* The members are fetched again, see HubRoster.                            *)
RoleAnswered(r) ==
    /\ r.stage = "served"
    /\ roleCalls' = roleCalls \ {r}
    /\ groups' = IF r.op = "create" THEN groups \cup {r.row}
                 ELSE IF r.op = "delete" THEN {g \in groups : g.id # r.id}
                 ELSE {IF g.id = r.id THEN r.row ELSE g : g \in groups}
    /\ selectedId' = IF r.op = "update" THEN selectedId
                     ELSE IF r.op = "create" THEN r.row.id ELSE 0
    /\ typing' = (typing /\ selectedId' # 0)
    /\ roleDrift' = (roleDrift \/ (typing /\ selectedId' # selectedId))
    /\ UNCHANGED <<deeds, dialog, hubRoles, rolesMade, rolesLoad>>
    /\ RoleFrame

(* Another administrator.                                                   *)
OthersChangeRoles(g, bit) ==
    /\ Deed /\ g \in hubRoles /\ ~Protected(g)
    /\ hubRoles' = (hubRoles \ {g}) \cup {[g EXCEPT !.bits = @ \cup {bit}]}
    /\ roleDrift' = TRUE
    /\ UNCHANGED <<dialog, rolesMade, groups, selectedId, typing, rolesLoad, roleCalls>>
    /\ RoleFrame

-----------------------------------------------------------------------------
(* Hub settings.                                                            *)

Blank(hub) == [name |-> hub.name, file |-> FALSE, cropping |-> FALSE]

OpenSettings ==
    /\ dialog = "none" /\ dialog' = "settings" /\ Deed
    /\ draft' = IF hubCache = NoHub THEN draft ELSE Blank(hubCache)
    /\ UNCHANGED <<hubRecord, hubCache, hubFetch, saving, hubDrift>> /\ HubFrame

CloseSettings ==
    /\ dialog = "settings" /\ ~draft.cropping /\ dialog' = "none"
    /\ UNCHANGED <<deeds, hubVars>> /\ HubFrame

(* The form: the name, and a picture that is picked and then cropped.       *)
EditSettings ==
    /\ dialog = "settings"
    /\ \/ /\ ~draft.cropping
          /\ \/ \E name \in Names : draft' = [draft EXCEPT !.name = name]
             \/ draft' = [draft EXCEPT !.cropping = TRUE]
       \/ /\ draft.cropping
          /\ \E done \in BOOLEAN :
                draft' = [draft EXCEPT !.cropping = FALSE, !.file = @ \/ done]
    /\ UNCHANGED <<deeds, dialog, hubRecord, hubCache, hubFetch, saving, hubDrift>>
    /\ HubFrame

FetchHub == hubFetch' = [stage |-> "sent", of |-> NoHub]

(* The rest of a save: a name that differs from the cached one is sent,     *)
(* and then SWR is told to fetch.                                           *)
Patches(s) == s.name # s.cached.name
After(s) == [s EXCEPT !.stage = IF s.stage = "avatar" /\ Patches(s) THEN "patch"
                                ELSE "mutate"]

(* handleSave as far as its first await.                                    *)
SaveSettings ==
    /\ dialog = "settings" /\ ~draft.cropping
    /\ saving = NoSave /\ hubCache # NoHub
    /\ Deed
    /\ LET s == [stage |-> "avatar", name |-> draft.name, cached |-> hubCache,
                 served |-> FALSE]
       IN /\ saving' = IF draft.file THEN s ELSE After(s)
          /\ IF saving'.stage = "mutate" THEN FetchHub ELSE UNCHANGED hubFetch
    /\ UNCHANGED <<dialog, hubRecord, hubCache, draft, hubDrift>> /\ HubFrame

(* upload_hub_avatar and patch_hub.                                         *)
SettingsServed ==
    /\ saving.stage \in {"avatar", "patch"} /\ ~saving.served
    /\ saving' = [saving EXCEPT !.served = TRUE]
    /\ hubRecord' = IF saving.stage = "avatar"
                      THEN [hubRecord EXCEPT !.pic = IF @ < MaxDeeds THEN @ + 1 ELSE @]
                      ELSE [hubRecord EXCEPT !.name = saving.name]
    /\ UNCHANGED <<deeds, dialog, hubCache, hubFetch, draft, hubDrift>> /\ HubFrame

(* It was, and the save goes on.                                            *)
SettingsAnswered ==
    /\ saving.stage \in {"avatar", "patch"} /\ saving.served
    /\ saving' = [After(saving) EXCEPT !.served = FALSE]
    /\ IF saving'.stage = "mutate" THEN FetchHub ELSE UNCHANGED hubFetch
    /\ UNCHANGED <<deeds, dialog, hubRecord, hubCache, draft, hubDrift>> /\ HubFrame

(* An error answer ends the save: the dialog stays and keeps what was not   *)
(* sent; nothing refetches what the step before has changed.                *)
SettingsRefused ==
    /\ saving.stage \in {"avatar", "patch"} /\ ~saving.served
    /\ saving' = NoSave
    /\ hubDrift' = (hubDrift \/ hubRecord # hubCache)
    /\ UNCHANGED <<deeds, dialog, hubRecord, hubCache, hubFetch, draft>> /\ HubFrame

(* A connection that fails throws out of handleSave, which never gets to    *)
(* setSaving(false): the button stays disabled for as long as the page.     *)
SettingsBreak ==
    /\ saving.stage \in {"avatar", "patch"} /\ Deed
    /\ saving' = [saving EXCEPT !.stage = "stuck"]
    /\ hubDrift' = (hubDrift \/ hubRecord # hubCache)
    /\ UNCHANGED <<dialog, hubRecord, hubCache, hubFetch, draft>> /\ HubFrame

HubRead ==
    /\ hubFetch.stage = "sent"
    /\ hubFetch' = [stage |-> "read", of |-> hubRecord]
    /\ UNCHANGED <<deeds, dialog, hubRecord, hubCache, draft, saving, hubDrift>>
    /\ HubFrame

(* The save that waited for the fetch closes the dialog, the one that is    *)
(* open by now.                                                             *)
SaveEnds ==
    /\ saving' = IF saving.stage = "mutate" THEN NoSave ELSE saving
    /\ dialog' = IF saving.stage = "mutate" /\ dialog = "settings" THEN "none" ELSE dialog

(* SWR has the answer.  A hub that differs seeds the form again, whatever   *)
(* the user has typed, when the dialog is open.                             *)
HubAnswered ==
    /\ hubFetch.stage = "read"
    /\ hubFetch' = [stage |-> "idle", of |-> NoHub]
    /\ hubCache' = hubFetch.of
    /\ draft' = IF dialog = "settings" /\ hubCache' # hubCache THEN Blank(hubCache')
                ELSE draft
    /\ hubDrift' = (hubDrift /\ hubCache' # hubRecord)
    /\ SaveEnds
    /\ UNCHANGED <<deeds, hubRecord>> /\ HubFrame

HubFetchFails ==
    /\ hubFetch.stage # "idle" /\ Deed
    /\ hubFetch' = [stage |-> "idle", of |-> NoHub]
    /\ hubDrift' = (hubDrift \/ hubCache # hubRecord)
    /\ SaveEnds
    /\ UNCHANGED <<hubRecord, hubCache, draft>> /\ HubFrame

(* SWR fetches again by itself: after an error, when the network is back,   *)
(* when another component mounts.                                           *)
Refetch ==
    /\ hubFetch.stage = "idle" /\ Deed
    /\ FetchHub
    /\ UNCHANGED <<dialog, hubRecord, hubCache, draft, saving, hubDrift>> /\ HubFrame

OthersChangeHub ==
    /\ Deed /\ \E name \in Names \ {hubRecord.name} :
                  hubRecord' = [hubRecord EXCEPT !.name = name]
    /\ hubDrift' = TRUE
    /\ UNCHANGED <<dialog, hubCache, hubFetch, draft, saving>> /\ HubFrame

-----------------------------------------------------------------------------
(* The profile.                                                             *)

(* The menu opens the dialog as it was left; closing it with Escape resets  *)
(* the form, Cancel does not.                                               *)
OpenProfile ==
    /\ dialog = "none" /\ dialog' = "profile" /\ Deed
    /\ UNCHANGED myVars /\ MyFrame

CloseProfile ==
    /\ dialog = "profile" /\ dialog' = "none"
    /\ myDraft' \in {myDraft, [name |-> shownMe.name, file |-> FALSE]}
    /\ UNCHANGED <<deeds, me, token, mine, shownMe, mySave, myDrift>> /\ MyFrame

EditProfile ==
    /\ dialog = "profile"
    /\ \/ \E name \in Names : myDraft' = [myDraft EXCEPT !.name = name]
       \/ myDraft' = [myDraft EXCEPT !.file = TRUE]
    /\ UNCHANGED <<deeds, dialog, me, token, mine, shownMe, mySave, myDrift>> /\ MyFrame

(* The tokens of the session are renewed, see WebSession.                   *)
MyTokenRenewed ==
    /\ Deed /\ token' = token + 1
    /\ mine' = [mine EXCEPT !.token = token']
    /\ myDrift' = (myDrift \/ mySave # NoSave)
    /\ UNCHANGED <<dialog, me, shownMe, myDraft, mySave>> /\ MyFrame

(* The next step of a save, which closes over the session and the form.     *)
Next1(s) == IF s.stage = "avatar" /\ s.name # s.saved THEN "name" ELSE "login"

SaveProfile ==
    /\ dialog = "profile" /\ mySave = NoSave /\ Deed
    /\ LET s == [stage |-> "avatar", of |-> mine, name |-> myDraft.name,
                 saved |-> shownMe.name, served |-> FALSE]
       IN mySave' = IF myDraft.file THEN s ELSE [s EXCEPT !.stage = Next1(s)]
    /\ UNCHANGED <<dialog, me, token, mine, shownMe, myDraft, myDrift>> /\ MyFrame

(* upload_avatar and update_profile.                                        *)
ProfileServed ==
    /\ mySave.stage \in {"avatar", "name"} /\ ~mySave.served
    /\ mySave' = [mySave EXCEPT !.served = TRUE]
    /\ me' = IF mySave.stage = "avatar"
               THEN [me EXCEPT !.pic = IF @ < MaxDeeds THEN @ + 1 ELSE @]
               ELSE [me EXCEPT !.name = mySave.name]
    /\ UNCHANGED <<deeds, dialog, token, mine, shownMe, myDraft, myDrift>> /\ MyFrame

(* The picture is there: it is shown, and goes into the session at the end. *)
ProfileAnswered ==
    /\ mySave.stage \in {"avatar", "name"} /\ mySave.served
    /\ \/ /\ mySave.stage = "avatar"
          /\ shownMe' = [shownMe EXCEPT !.pic = me.pic]
          /\ myDraft' = [myDraft EXCEPT !.file = FALSE]
          /\ mySave' = [mySave EXCEPT !.stage = Next1(mySave), !.of.pic = me.pic,
                                      !.served = FALSE]
       \/ /\ mySave.stage = "name"
          /\ mySave' = [mySave EXCEPT !.stage = "login"]
          /\ UNCHANGED <<shownMe, myDraft>>
    /\ UNCHANGED <<deeds, dialog, me, token, mine, myDrift>> /\ MyFrame

(* Refused or lost: the error is shown, and the button works again.  A      *)
(* picture that was uploaded before is shown but not in the session.        *)
ProfileFails ==
    /\ mySave.stage \in {"avatar", "name"}
    /\ mySave' = NoSave
    /\ myDrift' = (myDrift \/ mySave.served \/ mySave.of.pic # mine.pic)
    /\ UNCHANGED <<deeds, dialog, me, token, mine, shownMe, myDraft>> /\ MyFrame

(* Faulty variant: the session is stored without the new picture. *)
ProfileLoginOld ==
    /\ mySave.stage = "login"
    /\ mine' = [mine EXCEPT !.name = mySave.name]
    /\ shownMe' = [shownMe EXCEPT !.name = mySave.name]
    /\ mySave' = NoSave
    /\ dialog' = IF dialog = "profile" THEN "none" ELSE dialog
    /\ UNCHANGED <<deeds, me, token, myDraft, myDrift>> /\ MyFrame

(* login(updatedSession): the session the save began with, tokens and all,  *)
(* with the new name and picture.                                           *)
ProfileLogin ==
    /\ mySave.stage = "login"
    /\ mine' = [mySave.of EXCEPT !.name = mySave.name]
    /\ shownMe' = [shownMe EXCEPT !.name = mySave.name]
    /\ mySave' = NoSave
    /\ dialog' = IF dialog = "profile" THEN "none" ELSE dialog
    /\ UNCHANGED <<deeds, me, token, myDraft, myDrift>> /\ MyFrame

-----------------------------------------------------------------------------
RolesNext ==
    \/ OpenRoles \/ ReloadRoles \/ RolesRead \/ RolesAnswered \/ CloseRoles
    \/ CreateRole
    \/ \E id \in 0..MaxRoles : SelectRole(id)
    \/ \E g \in groups : \/ \E name \in Names : TypeName(g, name)
                         \/ BlurName(g) \/ PickColor(g) \/ DeleteRole(g)
                         \/ \E bit \in Bits : ToggleBit(g, bit)
    \/ \E r \in roleCalls : RoleServed(r) \/ RoleRefused(r) \/ RoleAnswered(r)
    \/ \E g \in hubRoles, bit \in Bits : OthersChangeRoles(g, bit)

SettingsNext ==
    \/ RolesNext
    \/ OpenSettings \/ CloseSettings \/ EditSettings \/ SaveSettings
    \/ SettingsServed \/ SettingsAnswered \/ SettingsRefused \/ SettingsBreak
    \/ HubRead \/ HubAnswered \/ HubFetchFails \/ Refetch \/ OthersChangeHub
    \/ OpenProfile \/ CloseProfile \/ EditProfile \/ MyTokenRenewed \/ SaveProfile
    \/ ProfileServed \/ ProfileAnswered \/ ProfileFails \/ ProfileLogin

-----------------------------------------------------------------------------
(* Properties. *)

(* GroupsRolesDialog shows what the service keeps once nothing is under     *)
(* way, through every order of creating, renaming, switching permissions    *)
(* and deleting (groups-roles-dialog.tsx:93-153): unless, since the copy    *)
(* was last fetched, requests overlapped each other or the fetch, somebody  *)
(* else made a change, an answer was lost, or a typed name was not kept     *)
(* (refused, or left in the field with Escape).                             *)
RolesFollowHub ==
    (~roleDrift /\ roleCalls = {} /\ ~typing /\ rolesLoad = NoLoad) => groups = hubRoles

(* Once a save of the hub settings has come to its end the sidebar shows    *)
(* the hub as it is kept (hub-settings-dialog.tsx:114-159), unless somebody *)
(* else changed it, the fetch failed, or the save broke off between the     *)
(* upload of the picture and the end: nothing fetches the half that was     *)
(* saved.                                                                   *)
SettingsShown ==
    (~hubDrift /\ saving.stage \in {"idle", "stuck"} /\ hubFetch.stage = "idle"
       /\ hubCache # NoHub) => hubCache = hubRecord

(* The session, which a reload restores, the sidebar and the service agree  *)
(* on the user's name and picture, and the session keeps the newest token,  *)
(* unless a save broke off half-way or a renewal of the tokens fell between *)
(* the start of a save and its login (nav-user.tsx:108-181).                *)
ProfileShown ==
    (~myDrift /\ mySave = NoSave) =>
        /\ [name |-> mine.name, pic |-> mine.pic] = me
        /\ shownMe = me
        /\ mine.token = token

(* Whatever a dialog has saved is what the pages show: the roles, the hub's *)
(* settings and the user's profile.                                         *)
SavedIsShown == RolesFollowHub /\ SettingsShown /\ ProfileShown
=============================================================================
