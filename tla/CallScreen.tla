---------------------------- MODULE CallScreen ----------------------------
(***************************************************************************)
(* The screen of a call in the web application: VideoWorkspace turns the   *)
(* participants into tiles, sorts and pages them or puts one in the        *)
(* spotlight, and only a tile that is rendered plays its participant's     *)
(* sound, through a gain that follows the user's volume for him.           *)
(*                                                                         *)
(* React keeps the state of a component for as long as it stays at its     *)
(* place under its key: a menu of the grid goes with its tile, the one on  *)
(* the big tile of the spotlight stays when another tile takes that place. *)
(***************************************************************************)
EXTENDS Integers, FiniteSets, Sequences, SequencesExt, Lists

CONSTANTS People,     \* the others
          Me,         \* the user
          PageSize,   \* PAGE_SIZE: tiles on a page of the grid
          StripSize,  \* thumbnails under the spotlight
          MaxActs     \* bound on what happens in the call and on the screen

ASSUME ScreenAssumption == /\ Me \notin People
                           /\ PageSize \in Nat \ {0} /\ StripSize \in Nat
                           /\ MaxActs \in Nat

VARIABLES inCall,    \* the workspace is there
          people,    \* the participants, in the order they came
          speaking,  \* who of them speaks
          sharers,   \* who shares a screen, the user included
          calling,   \* the peer of a direct call who is being rung, or Me
          layout,    \* "grid" or "spotlight"
          spotlight, \* spotlightId, or NoTile
          pageNo,    \* `page`
          deafened,  \* isDeafened
          volume,    \* ParticipantVolumeStore: 0 silent, 1 as it is, 2 louder
          allTiles,  \* `allTiles`, memoized
          gains,     \* the tiles on the screen, and how loud each one plays
          menus,     \* the volume menus that are mounted
          acts,      \* how much of what MaxActs bounds there was
          before     \* ghost: the last volume above 0 of everybody

stage == <<inCall, people, speaking, sharers, calling>>
look == <<layout, spotlight, pageNo>>
sound == <<deafened, volume, before>>
screenVars == <<stage, look, sound, allTiles, gains, menus, acts>>

-----------------------------------------------------------------------------
(* Tiles and pages. *)

Tile == [kind : {"camera", "screen", "ringing"}, of : People \cup {Me}]
NoTile == [kind |-> "none", of |-> Me]

Tiles(kind, users) == [i \in DOMAIN users |-> [kind |-> kind, of |-> users[i]]]

(* The user first, then the others' cameras, the peer who is being rung for *)
(* as long as he is not there, and the screens.                             *)
Everybody == <<Me>> \o people
Rung == IF calling = Me \/ calling \in Range(people) THEN <<>> ELSE <<calling>>
Sharing == {i \in DOMAIN Everybody : Everybody[i] \in sharers}

AllTilesNow ==
    (Tiles("camera", Everybody) \o Tiles("ringing", Rung))
      \o Filtered(Tiles("screen", Everybody), Sharing)

IsLocal(t) == t.of = Me
Speaks(t) == t.kind = "camera" /\ t.of \in speaking

OwnAt == {i \in DOMAIN allTiles : IsLocal(allTiles[i])}
SpeakersAt == {i \in DOMAIN allTiles : ~IsLocal(allTiles[i]) /\ Speaks(allTiles[i])}
OthersAt == {i \in DOMAIN allTiles : ~IsLocal(allTiles[i]) /\ ~Speaks(allTiles[i])}

(* Faulty variant: the tiles stay in the order of joining. *)
SortedAsJoined ==
    IF Len(allTiles) <= PageSize THEN allTiles
    ELSE Filtered(allTiles, OwnAt) \o Filtered(allTiles, SpeakersAt \cup OthersAt)

(* The tiles of a call that needs more than a page: speakers move up, right *)
(* behind the user's own tiles.                                             *)
SortedTiles ==
    IF Len(allTiles) <= PageSize THEN allTiles
    ELSE (Filtered(allTiles, OwnAt) \o Filtered(allTiles, SpeakersAt))
           \o Filtered(allTiles, OthersAt)

PageCount == (Len(allTiles) + PageSize - 1) \div PageSize

(* The page that is shown when participants have gone meanwhile.            *)
ClampedPage == IF pageNo < PageCount THEN pageNo ELSE PageCount - 1

TilesOfPage(k) ==
    LET sorted == SortedTiles
        last == IF (k + 1) * PageSize < Len(sorted) THEN (k + 1) * PageSize
                ELSE Len(sorted)
    IN SubSeq(sorted, k * PageSize + 1, last)

(* VideoSpotlight: the pinned tile, the first one when it is gone, and the  *)
(* first few of the others below.                                           *)
Big == IF spotlight \in Range(allTiles) THEN spotlight ELSE allTiles[1]

Strip ==
    LET rest == Filtered(allTiles, {i \in DOMAIN allTiles : allTiles[i] # Big})
    IN SubSeq(rest, 1, IF Len(rest) < StripSize THEN Len(rest) ELSE StripSize)

OnScreen ==
    IF ~inCall THEN {}
    ELSE IF layout = "grid" THEN Range(TilesOfPage(ClampedPage))
    ELSE {Big} \cup Range(Strip)

-----------------------------------------------------------------------------
(* Sound. *)

(* useTileAudio on a tile that is rendered: the gain of the graph is built  *)
(* with the volume there is, and follows it and the deafening without a     *)
(* rebuild.  The user's own tiles and the one that rings have no sound.     *)
Gain(t) ==
    IF IsLocal(t) \/ t.kind = "ringing" \/ deafened THEN 0 ELSE volume[t.of]

(* Where the menus are: on cameras but the thumbnails of the strip, and on  *)
(* screens (all of them come with sound, and the window has room for menus).*)
HasMenu(t) == ~IsLocal(t)

Mount(place, t) == [place |-> place, kind |-> t.kind, of |-> t.of]

(* A place that keeps its component: a tile of the grid or of the strip is  *)
(* found by its id, the big one by its kind alone.                          *)
SamePlace(m, n) == m.place = n.place /\ m.kind = n.kind
                     /\ (m.place = "big" \/ m.of = n.of)

Mounts ==
    LET big == Big
        with == {t \in DOMAIN gains : HasMenu(t)}
    IN IF layout = "grid" THEN {Mount("grid", t) : t \in with}
       ELSE {Mount(IF t = big THEN "big" ELSE "strip", t) :
               t \in {x \in with : x = big \/ x.kind = "screen"}}

(* lastUnmutedVolume of TileVolumeMenu: the volume when it is above 0, else *)
(* what the component at this place remembers, else 1.  `seen`, a ghost,    *)
(* says that it has been this user's since his volume was last above 0.     *)
MenuAt(n, old) ==
    [at |-> n,
     last |-> IF volume'[n.of] > 0 THEN volume'[n.of]
              ELSE IF old # {} THEN (CHOOSE m \in old : TRUE).last ELSE 1,
     seen |-> volume'[n.of] > 0 \/ \E m \in old : m.seen /\ m.at.of = n.of]

(* What React does after every change.                                      *)
Renders ==
    /\ allTiles' = AllTilesNow'
    /\ gains' = [t \in OnScreen' |-> Gain(t)']
    /\ menus' = {MenuAt(n, {m \in menus : SamePlace(m.at, n)}) : n \in Mounts'}

-----------------------------------------------------------------------------
ScreenTypeOK ==
    /\ inCall \in BOOLEAN
    /\ people \in Seq(People) /\ IsInjective(people)
    /\ speaking \subseteq Range(people)
    /\ sharers \subseteq Range(people) \cup {Me}
    /\ calling \in People \cup {Me}
    /\ layout \in {"grid", "spotlight"}
    /\ spotlight \in Tile \cup {NoTile}
    /\ pageNo \in Nat
    /\ deafened \in BOOLEAN
    /\ volume \in [People -> 0..2]
    /\ allTiles \in Seq(Tile)
    /\ DOMAIN gains \subseteq Tile /\ Range(gains) \subseteq 0..2
    /\ \A m \in menus : m.last \in 1..2
    /\ acts \in 0..MaxActs
    /\ before \in [People -> 1..2]

ScreenInit ==
    /\ inCall = FALSE
    /\ people = <<>> /\ speaking = {} /\ sharers = {} /\ calling = Me
    /\ layout = "grid" /\ spotlight = NoTile /\ pageNo = 0
    /\ deafened = FALSE
    /\ volume = [u \in People |-> 1] /\ before = [u \in People |-> 1]
    /\ allTiles = AllTilesNow /\ gains = <<>> /\ menus = {}
    /\ acts = 0

Acts == acts < MaxActs /\ acts' = acts + 1 /\ Renders

-----------------------------------------------------------------------------
(* The call. *)

(* joinVoice, of a room with whoever is in it or of a direct call; from     *)
(* another call the workspace stays, and all that it and the stores keep.   *)
EntersCall ==
    /\ inCall' = TRUE
    /\ people' \in {<<>>} \cup {<<u>> : u \in People}
    /\ calling' \in IF people' = <<>> THEN People \cup {Me} ELSE {Me}
    /\ speaking' = {} /\ sharers' = {}
    /\ UNCHANGED look /\ UNCHANGED sound
    /\ Acts

(* leaveVoice: the workspace is unmounted, the volumes and the deafening    *)
(* are reset.                                                               *)
LeavesCall ==
    /\ inCall /\ inCall' = FALSE
    /\ people' = <<>> /\ speaking' = {} /\ sharers' = {} /\ calling' = Me
    /\ layout' = "grid" /\ spotlight' = NoTile /\ pageNo' = 0
    /\ deafened' = FALSE
    /\ volume' = [u \in People |-> 1] /\ before' = [u \in People |-> 1]
    /\ Acts

(* What the client reports of the participants, see VideoClient.            *)
Comes(u) ==
    /\ inCall /\ u \notin Range(people)
    /\ people' = Append(people, u)
    /\ calling' = IF calling = u THEN Me ELSE calling
    /\ UNCHANGED <<inCall, speaking, sharers>>
    /\ UNCHANGED look /\ UNCHANGED sound
    /\ Acts

Goes(u) ==
    /\ u \in Range(people)
    /\ people' = Filtered(people, {i \in DOMAIN people : people[i] # u})
    /\ speaking' = speaking \ {u} /\ sharers' = sharers \ {u}
    /\ UNCHANGED <<inCall, calling>>
    /\ UNCHANGED look /\ UNCHANGED sound
    /\ Acts

SpeaksOrNot(u) ==
    /\ u \in Range(people)
    /\ speaking' = IF u \in speaking THEN speaking \ {u} ELSE speaking \cup {u}
    /\ UNCHANGED <<inCall, people, sharers, calling>>
    /\ UNCHANGED look /\ UNCHANGED sound
    /\ Acts

SharesOrNot(u) ==
    /\ inCall /\ u \in Range(people) \cup {Me}
    /\ sharers' = IF u \in sharers THEN sharers \ {u} ELSE sharers \cup {u}
    /\ UNCHANGED <<inCall, people, speaking, calling>>
    /\ UNCHANGED look /\ UNCHANGED sound
    /\ Acts

-----------------------------------------------------------------------------
(* The user. *)

(* The arrows, from the page that is shown.                                 *)
TurnsPage ==
    /\ inCall /\ PageCount > 1
    /\ \/ ClampedPage > 0 /\ pageNo' = ClampedPage - 1
       \/ ClampedPage + 1 < PageCount /\ pageNo' = ClampedPage + 1
    /\ UNCHANGED <<layout, spotlight>>
    /\ UNCHANGED stage /\ UNCHANGED sound
    /\ Acts

(* onPinTile: a click on a tile, and a second one on the same.              *)
PinTile(t) ==
    /\ t \in DOMAIN gains
    /\ IF layout = "spotlight" /\ spotlight = t
         THEN layout' = "grid" /\ spotlight' = NoTile
         ELSE layout' = "spotlight" /\ spotlight' = t
    /\ UNCHANGED pageNo
    /\ UNCHANGED stage /\ UNCHANGED sound
    /\ Acts

(* The two buttons of the header.                                           *)
ChoosesLayout(to) ==
    /\ inCall
    /\ layout' = to
    /\ spotlight' = IF to = "grid" THEN NoTile
                    ELSE IF spotlight = NoTile THEN allTiles[1] ELSE spotlight
    /\ UNCHANGED pageNo
    /\ UNCHANGED stage /\ UNCHANGED sound
    /\ Acts

Deafens ==
    /\ inCall
    /\ deafened' = ~deafened
    /\ UNCHANGED <<volume, before>>
    /\ UNCHANGED stage /\ UNCHANGED look
    /\ Acts

(* ParticipantVolumeStore.set, by the slider of a menu ...                  *)
SetVolume(u, v) ==
    /\ volume' = [volume EXCEPT ![u] = v]
    /\ before' = IF v > 0 THEN [before EXCEPT ![u] = v] ELSE before
    /\ UNCHANGED deafened
    /\ UNCHANGED stage /\ UNCHANGED look
    /\ Acts

Slides(m, v) == m \in menus /\ SetVolume(m.at.of, v)

(* ... and by its button, which mutes, or goes back to the volume it has    *)
(* remembered.                                                              *)
MutesOrNot(m) ==
    /\ m \in menus
    /\ SetVolume(m.at.of, IF volume[m.at.of] = 0 THEN m.last ELSE 0)

-----------------------------------------------------------------------------
ScreenNext ==
    \/ EntersCall \/ LeavesCall \/ TurnsPage \/ Deafens
    \/ \E u \in People : Comes(u) \/ Goes(u) \/ SpeaksOrNot(u)
    \/ \E u \in People \cup {Me} : SharesOrNot(u)
    \/ \E t \in DOMAIN gains : PinTile(t)
    \/ \E to \in {"grid", "spotlight"} : ChoosesLayout(to)
    \/ \E m \in menus : MutesOrNot(m) \/ \E v \in 0..2 : Slides(m, v)

-----------------------------------------------------------------------------
(* Properties. *)

(* "Active speakers hoist to the front so the first page shows them even in *)
(* a large call" (video-workspace.tsx:217-218): only rendered tiles sound,  *)
(* so whoever speaks is heard by a user on the first page who is not        *)
(* deafened and has not silenced him, as long as the user's own tiles and   *)
(* the speakers fit on a page; and the page that is shown is never empty,   *)
(* whoever has left since it was chosen (line 235).                         *)
SpeakersHeard ==
    inCall /\ layout = "grid" =>
        /\ DOMAIN gains # {}
        /\ (pageNo = 0 /\ ~deafened
              /\ Cardinality({t \in Range(allTiles) : IsLocal(t) \/ Speaks(t)})
                   <= PageSize) =>
             \A u \in speaking :
                \E t \in DOMAIN gains : t.kind = "camera" /\ t.of = u
                                        /\ gains[t] = volume[u]

(* "Remember the last non-zero volume so the Mute toggle can restore it"    *)
(* (video-tile.tsx:550-556): the button of a menu goes back to the last     *)
(* volume this user had, by whichever of his menus and the slider it was    *)
(* set and then silenced, unless the menu was mounted, or came to this user *)
(* with the spotlight, while he was silenced.                               *)
UnmuteRestores ==
    \A m \in menus : volume[m.at.of] = 0 /\ m.seen => m.last = before[m.at.of]

(* Who is heard, and how loud, is as the user has it on the screen.         *)
HeardAsSet == SpeakersHeard /\ UnmuteRestores
=============================================================================
