------------------------------ MODULE WebApp ------------------------------
(***************************************************************************)
(* The web application next to its sign-in, its calls and its chat view:   *)
(* the parts of the hub's pages that keep a state of their own, the video  *)
(* client with what it shows of a call, and the timers of the chat         *)
(* connection. They share no variable: what one does to another (a renewed *)
(* token, a change of the groups that has the roster fetched again, a      *)
(* participant who comes) is an action of the other, taken at any time. A  *)
(* behaviour is therefore one of each part's, in any interleaving, and     *)
(* what holds of the behaviours of one part alone holds of all: `part`     *)
(* says which one moves.                                                   *)
(***************************************************************************)
EXTENDS HubChannels, HubRoster, HubSettings, CallScreen, VideoClient,
        InviteDialog, ChatSocket

VARIABLE part

Parts == {"channels", "roster", "settings", "screen", "client",
          "invites", "socket"}

webVars == <<part, channelsVars, rosterVars, settingsVars, screenVars, clientVars,
             inviteVars, socketVars>>

WebTypeOK ==
    /\ part \in Parts
    /\ ChannelsTypeOK /\ RosterTypeOK /\ SettingsTypeOK /\ ScreenTypeOK
    /\ ClientTypeOK /\ InviteTypeOK /\ SocketTypeOK

(* Where a part may begin in several ways, one is enough while it rests.    *)
WebInit ==
    /\ part \in Parts
    /\ ChannelsInit
    /\ RosterInit /\ (part # "roster" => \A u \in Users : folk[u].is = "member")
    /\ SettingsInit
    /\ ScreenInit
    /\ ClientInit
    /\ InviteInit /\ (part # "invites" => standing = [g \in Ranks |-> "here"] /\ rank = 0)
    /\ SocketInit

WebNext ==
    /\ UNCHANGED part
    /\ \/ /\ part = "channels" /\ ChannelsNext
          /\ UNCHANGED <<rosterVars, settingsVars, screenVars, clientVars,
                         inviteVars, socketVars>>
       \/ /\ part = "roster" /\ RosterNext
          /\ UNCHANGED <<channelsVars, settingsVars, screenVars, clientVars,
                         inviteVars, socketVars>>
       \/ /\ part = "settings" /\ SettingsNext
          /\ UNCHANGED <<channelsVars, rosterVars, screenVars, clientVars,
                         inviteVars, socketVars>>
       \/ /\ part = "screen" /\ ScreenNext
          /\ UNCHANGED <<channelsVars, rosterVars, settingsVars, clientVars,
                         inviteVars, socketVars>>
       \/ /\ part = "client" /\ ClientNext
          /\ UNCHANGED <<channelsVars, rosterVars, settingsVars, screenVars,
                         inviteVars, socketVars>>
       \/ /\ part = "invites" /\ InviteNext
          /\ UNCHANGED <<channelsVars, rosterVars, settingsVars, screenVars,
                         clientVars, socketVars>>
       \/ /\ part = "socket" /\ SocketNext
          /\ UNCHANGED <<channelsVars, rosterVars, settingsVars, screenVars,
                         clientVars, inviteVars>>

WebSpec == WebInit /\ [][WebNext]_webVars
=============================================================================
