--------------------------- MODULE ChatViewProofs ---------------------------
(***************************************************************************)
(* Proofs about ChatView, for any number of messages, loads, retries, lost *)
(* connections and lives of the provider.                                  *)
(*                                                                         *)
(* That a message which came live is shown once is not inductive: the list *)
(* is extended, filtered and replaced by steps that go by ids or by        *)
(* client_ids, and a row has both.  The invariant says that they agree     *)
(* (EntriesFit), that no client_id is given out twice (CidsInOrder) and no *)
(* row announced twice (AnnouncedOnce).  What a step does to the list is   *)
(* said once, by lemmas that leave its order open (Carries,                *)
(* ReceivedLists); the rest goes by them.                                  *)
(***************************************************************************)
EXTENDS ChatView, ListProofs, FiniteSetTheorems, SequenceTheorems,
        NaturalsInduction, WellFoundedInduction, TLAPS

-----------------------------------------------------------------------------
(* The invariant.                                                          *)

Ends == {"arriving", "checked", "refused", "written", "answered"}
Posts == [cid : Own, srv : Ends, cli : {"waiting", "over"}, row : Nat]
Loads == [st : {"asked", "read", "over"}, rows : Seq(Entries)]
Backfills == [st : {"none", "asked", "syncing", "counted", "over"}, n : Nat]

LogRows == [cid : 0..MaxOwn, edited : BOOLEAN, gone : BOOLEAN]
Events == [kind : {"new", "edited", "deleted"}, row : DOMAIN log]

\* The types of the variables, those of TypeOK among them.
ServerTypes == log \in Seq(LogRows) /\ events \in Seq(Events) /\ idem \subseteq Own
ReadTypes ==
    /\ readPos \in Nat /\ acks \subseteq Nat /\ missed \in Nat
    /\ badge = None \/ badge \in Badges
LinkTypes == conn \in {"new", "up", "down"} /\ delivered \in 0..Len(events) /\ drops \in Nat
ListTypes ==
    /\ list = None \/ list \in Seq(Entries)
    /\ payload \subseteq Own /\ clean \subseteq DOMAIN log
FlagTypes ==
    /\ loading \in BOOLEAN /\ loaded \in BOOLEAN /\ active \in BOOLEAN
    /\ typing \in BOOLEAN /\ timer \in BOOLEAN /\ hushed \in BOOLEAN
ComposerTypes ==
    /\ uploads \in [File -> {"absent", "uploading", "done", "error"}]
    /\ awaiting \in 0..Len(posts)
    /\ filesOf \in [Own -> SUBSET File]
NetTypes == posts \in Seq(Posts) /\ loads \in Seq(Loads)
LifeTypes ==
    /\ bound \in Bounds /\ lives \in 1..MaxLives
    /\ backfill \in [1..MaxLives -> Backfills]

Types ==
    /\ ServerTypes /\ ReadTypes /\ LinkTypes /\ ListTypes /\ FlagTypes
    /\ ComposerTypes /\ NetTypes /\ LifeTypes

Posted(cid) == \E i \in DOMAIN posts : posts[i].cid = cid
Logged(cid) == \E row \in DOMAIN log : log[row].cid = cid

\* client_ids are given out in order, to what is posted: the next is new.
CidsInOrder ==
    /\ \E k \in 0..MaxOwn : \A c \in Own : Posted(c) <=> c <= k
    /\ \A c \in payload : Posted(c)
    /\ \A row \in DOMAIN log : OwnRow(row) => Posted(log[row].cid)

\* A file that an awaited message took is cleared before the next is written.
FilesOnce ==
    /\ awaiting = 0 =>
         \A c \in Own : \A f \in filesOf[c] : uploads[f] = "absent"
    /\ \A c, d \in Own : c # d => filesOf[c] \cap filesOf[d] = {}

\* A message is announced once, and by the POST that wrote it.
AnnouncedOnce ==
    /\ \A m, n \in DOMAIN events :
         events[m].kind = "new" /\ events[n].kind = "new" /\ events[m].row = events[n].row
           => m = n
    /\ \A i \in DOMAIN posts : posts[i].srv = "written" =>
         /\ posts[i].row \in DOMAIN log
         /\ \A n \in DOMAIN events : events[n].kind = "new" => events[n].row # posts[i].row
         /\ \A j \in DOMAIN posts :
              posts[j].srv = "written" /\ posts[j].row = posts[i].row => j = i
    /\ \A row \in clean : \E n \in 1..delivered :
         events[n].kind = "new" /\ events[n].row = row

\* An entry with the id of a row has its client_id.
Fits(e) == \A row \in Nat : e.id = IdOf(row) => row \in DOMAIN log /\ e.cid = log[row].cid

\* What is shown, or read to be shown: it fits the log, and is in the log or to
\* be sent again.
EntriesFit ==
    /\ list # None =>
         \A n \in DOMAIN list :
           Fits(list[n]) /\ (list[n].cid \in payload \/ Logged(list[n].cid))
    /\ \A m \in DOMAIN loads : \A k \in DOMAIN loads[m].rows :
         Fits(loads[m].rows[k]) /\ Logged(loads[m].rows[k].cid)

\* One entry, and no other, shows a row that came clean.
OneShows(row) ==
    \E n \in DOMAIN list :
      /\ Shows(list[n], row)
      /\ \A m \in DOMAIN list : Shows(list[m], row) => m = n
ShownOnce == \A row \in clean : list # None /\ OneShows(row)

ViewInv ==
    /\ Types /\ TypingEnds /\ LiveUnreadCounted /\ CidsInOrder /\ FilesOnce
    /\ AnnouncedOnce /\ EntriesFit /\ ShownOnce

-----------------------------------------------------------------------------
(* Sequences: what findIndex and filter return.                            *)

\* A nonempty set of positions has a least member.
LEMMA LeastThere ==
    ASSUME NEW S \in SUBSET Nat, S # {}
    PROVE  Min(S) \in S /\ \A n \in S : Min(S) <= n
  BY LeastOf DEF Min

\* The least position with a client_id.
LEMMA IndexFinds ==
    ASSUME list \in Seq(Entries), list # None, NEW cid \in Own
    PROVE  /\ IndexOf(cid) \in 0..Len(list)
           /\ IndexOf(cid) # 0 => list[IndexOf(cid)].cid = cid
           /\ IndexOf(cid) = 0 => \A n \in DOMAIN list : list[n].cid # cid
<1> DEFINE I == {n \in 1..Len(list) : list[n].cid = cid}
<1>1. Len(list) \in Nat /\ DOMAIN list = 1..Len(list)
  BY LenProperties
<1>2. cid # Foreign
  BY DEF Own, Foreign
<1>3. IndexOf(cid) = IF I # {} THEN Min(I) ELSE 0
  BY <1>2 DEF IndexOf, SelectInSeq
<1>4. CASE I = {}
  BY <1>1, <1>3, <1>4
<1>5. CASE I # {}
  <2>1. I \in SUBSET Nat
    BY <1>1
  <2>2. Min(I) \in I
    BY <1>5, <2>1, LeastThere
  <2> QED
    BY <1>1, <1>3, <1>5, <2>2
<1> QED
  BY <1>4, <1>5

\* An element taken out, another put at the end: the rest moves up.
LEMMA MovedLast ==
    ASSUME NEW X, NEW s \in Seq(X), NEW at \in 1..Len(s), NEW e \in X
    PROVE  /\ Append(RemoveAt(s, at), e) \in Seq(X)
           /\ Len(Append(RemoveAt(s, at), e)) = Len(s)
           /\ \A k \in 1..Len(s) :
                Append(RemoveAt(s, at), e)[k] =
                  IF k < at THEN s[k] ELSE IF k < Len(s) THEN s[k + 1] ELSE e
<1> DEFINE head == SubSeq(s, 1, at - 1)
           rest == SubSeq(s, at + 1, Len(s))
           t == RemoveAt(s, at)
<1>1. Len(s) \in Nat /\ s \in [1..Len(s) -> X] /\ at \in Nat /\ 1 <= at /\ at <= Len(s)
  BY LenProperties
<1>0. \E n \in Nat : n = Len(s) /\ 1 <= at /\ at <= n
  BY <1>1
<1>2. head \in Seq(X) /\ Len(head) = at - 1 /\ \A i \in 1..(at - 1) : head[i] = s[i]
  <2>1. \A i \in 1..(at - 1) : s[i] \in X
    BY <1>1
  <2>2. /\ SubSeq(s, 1, at - 1) \in Seq(X)
        /\ Len(SubSeq(s, 1, at - 1)) = IF 1 <= at - 1 THEN at - 1 - 1 + 1 ELSE 0
        /\ \A i \in 1..(at - 1 - 1 + 1) : SubSeq(s, 1, at - 1)[i] = s[1 + i - 1]
    BY <1>1, <2>1, SubSeqProperties
  <2>3. Len(SubSeq(s, 1, at - 1)) = at - 1
    BY <1>1, <2>2
  <2>4. \A i \in 1..(at - 1) : SubSeq(s, 1, at - 1)[i] = s[i]
    BY <1>1, <2>2
  <2> QED
    BY <2>2, <2>3, <2>4
<1>3. rest \in Seq(X) /\ Len(rest) = Len(s) - at
      /\ \A i \in 1..(Len(s) - at) : rest[i] = s[at + i]
  <2>1. \A i \in (at + 1)..Len(s) : s[i] \in X
    BY <1>1
  <2>2. /\ SubSeq(s, at + 1, Len(s)) \in Seq(X)
        /\ Len(SubSeq(s, at + 1, Len(s)))
             = IF at + 1 <= Len(s) THEN Len(s) - (at + 1) + 1 ELSE 0
        /\ \A i \in 1..(Len(s) - (at + 1) + 1) :
             SubSeq(s, at + 1, Len(s))[i] = s[at + 1 + i - 1]
    BY <1>1, <2>1, SubSeqProperties
  <2>3. Len(SubSeq(s, at + 1, Len(s))) = Len(s) - at
    <3>1. CASE at + 1 <= Len(s)
      <4>1. Len(s) - (at + 1) + 1 = Len(s) - at
        BY <1>1
      <4> QED
        BY <2>2, <3>1, <4>1, SMT
    <3>2. CASE ~(at + 1 <= Len(s))
      <4>1. 0 = Len(s) - at
        <5>1. PICK n \in Nat : n = Len(s) /\ 1 <= at /\ at <= n
          BY <1>0
        <5>2. at \in Nat /\ ~(at + 1 <= n)
          BY <1>1, <3>2, <5>1
        <5>3. at = n
          BY <5>1, <5>2
        <5> QED
          BY <5>1, <5>3
      <4> QED
        BY <2>2, <3>2, <4>1, SMT
    <3> QED
      BY <3>1, <3>2
  <2>4. \A i \in 1..(Len(s) - at) : SubSeq(s, at + 1, Len(s))[i] = s[at + i]
    BY <1>1, <2>2
  <2> QED
    BY <2>2, <2>3, <2>4
<1>4. t = head \o rest
  BY DEF RemoveAt
<1> HIDE DEF head, rest, t
<1>5. t \in Seq(X) /\ Len(t) = Len(s) - 1
      /\ \A i \in 1..(Len(s) - 1) : t[i] = IF i < at THEN s[i] ELSE s[i + 1]
  <2>1. /\ t \in Seq(X) /\ Len(t) = Len(head) + Len(rest)
        /\ \A i \in 1..(Len(head) + Len(rest)) :
             t[i] = IF i <= Len(head) THEN head[i] ELSE rest[i - Len(head)]
    BY <1>2, <1>3, <1>4, ConcatProperties
  <2>2. Len(t) = Len(s) - 1
    BY <1>1, <1>2, <1>3, <2>1
  <2>3. ASSUME NEW i \in 1..(Len(s) - 1)
        PROVE  t[i] = IF i < at THEN s[i] ELSE s[i + 1]
    <3>1. i \in 1..(Len(head) + Len(rest)) /\ i \in Nat
      BY <1>1, <1>2, <1>3
    <3>2. CASE i < at
      <4>1. i <= Len(head) /\ i \in 1..(at - 1)
        BY <1>1, <1>2, <3>1, <3>2
      <4> QED
        BY <1>2, <2>1, <3>1, <3>2, <4>1
    <3>3. CASE ~(i < at)
      <4>1. ~(i <= Len(head)) /\ i - Len(head) \in 1..(Len(s) - at)
            /\ at + (i - Len(head)) = i + 1
        BY <1>1, <1>2, <3>1, <3>3
      <4>2. rest[i - Len(head)] = s[at + (i - Len(head))]
        BY <1>3, <4>1
      <4> QED
        BY <2>1, <3>1, <3>3, <4>1, <4>2
    <3> QED
      BY <3>2, <3>3
  <2> QED
    BY <2>1, <2>2, <2>3
<1>6. Append(t, e) \in Seq(X) /\ Len(Append(t, e)) = Len(s)
      /\ \A k \in 1..Len(s) : Append(t, e)[k] = IF k < Len(s) THEN t[k] ELSE e
  <2>1. /\ Append(t, e) \in Seq(X) /\ Len(Append(t, e)) = Len(t) + 1
        /\ \A k \in 1..Len(t) : Append(t, e)[k] = t[k]
        /\ Append(t, e)[Len(t) + 1] = e
    BY <1>5, AppendProperties
  <2> QED
    BY <1>1, <1>5, <2>1
<1>7. \A k \in 1..Len(s) :
        Append(t, e)[k] = IF k < at THEN s[k] ELSE IF k < Len(s) THEN s[k + 1] ELSE e
  <2> TAKE k \in 1..Len(s)
  <2>1. CASE k < Len(s)
    <3>1. k \in 1..(Len(s) - 1)
      BY <1>1, <2>1
    <3> QED
      BY <1>5, <1>6, <2>1, <3>1
  <2>2. CASE ~(k < Len(s))
    <3>1. ~(k < at)
      BY <1>1, <2>2
    <3> QED
      BY <1>6, <2>2, <3>1
  <2> QED
    BY <2>1, <2>2
<1> QED
  BY <1>6, <1>7 DEF t

-----------------------------------------------------------------------------
(* Which steps change what.                                                *)

ReadSteps ==
    \/ AckArrives

ServerSteps ==
    \/ ForeignWrite
    \/ \E row \in DOMAIN log : \E kind \in {"edited", "deleted"} : Change(row, kind)
    \/ \E i \in DOMAIN posts : WriteMessage(i)
    \/ \E i \in DOMAIN posts : StoreKeyAndPublish(i)

LinkSteps ==
    \/ Deliver
    \/ Identified
    \/ Resumed
    \/ Lost
    \/ NewToken

ListSteps ==
    \/ Send
    \/ \E i \in DOMAIN posts : PostFails(i)
    \/ \E cid \in Own : Retry(cid)
    \/ \E cid \in Own : Cancel(cid)
    \/ Deliver
    \/ \E n \in DOMAIN loads : HistoryAnswered(n)
    \/ NewToken

FlagSteps ==
    \/ ensureHistory
    \/ \E n \in DOMAIN loads : HistoryAnswered(n)
    \/ \E n \in DOMAIN loads : HistoryFails(n)
    \/ Enter
    \/ NewToken

TypingSteps ==
    \/ Deliver
    \/ TypingStart
    \/ TypingTimeout
    \/ HushEnds
    \/ NewToken

UnreadSteps ==
    \/ AckArrives
    \/ \E g \in 1..MaxLives : ReadStatesAnswered(g)
    \/ \E g \in 1..MaxLives : SyncAnswered(g)
    \/ Deliver
    \/ \E n \in DOMAIN loads : HistoryAnswered(n)
    \/ Enter
    \/ NewToken

ComposerSteps ==
    \/ \E f \in File : AddFile(f)
    \/ \E f \in File : \E st \in {"done", "error"} : UploadEnds(f, st)
    \/ \E f \in File : AbortUpload(f)
    \/ Send
    \/ \E i \in DOMAIN posts : PostSucceeds(i)
    \/ \E i \in DOMAIN posts : PostFails(i)
    \/ Unmount

PostSteps ==
    \/ \E i \in DOMAIN posts : PostRefused(i)
    \/ \E i \in DOMAIN posts : CheckKey(i)
    \/ \E i \in DOMAIN posts : WriteMessage(i)
    \/ \E i \in DOMAIN posts : StoreKeyAndPublish(i)
    \/ Send
    \/ \E i \in DOMAIN posts : PostSucceeds(i)
    \/ \E i \in DOMAIN posts : PostFails(i)
    \/ \E cid \in Own : Retry(cid)

LoadSteps ==
    \/ ensureHistory
    \/ \E n \in DOMAIN loads : HistoryRead(n)
    \/ \E n \in DOMAIN loads : HistoryAnswered(n)
    \/ \E n \in DOMAIN loads : HistoryFails(n)
    \/ Enter

LifeSteps ==
    \/ \E g \in 1..MaxLives : ReadStatesAnswered(g)
    \/ \E g \in 1..MaxLives : SyncReads(g)
    \/ \E g \in 1..MaxLives : SyncAnswered(g)
    \/ \E g \in 1..MaxLives : BackfillFails(g)
    \/ NewToken

ViewSteps ==
    \/ Enter
    \/ Unmount

\* A step leaves alone what it is not listed for.
LEMMA Frames ==
    ASSUME Step
    PROVE  /\ UNCHANGED readPos \/ ReadSteps
           /\ UNCHANGED <<log, events, idem>> \/ ServerSteps
           /\ UNCHANGED linkVars \/ LinkSteps
           /\ UNCHANGED <<list, payload, clean>> \/ ListSteps
           /\ UNCHANGED <<loading, loaded>> \/ FlagSteps
           /\ UNCHANGED typingVars \/ TypingSteps
           /\ UNCHANGED unreadVars \/ UnreadSteps
           /\ UNCHANGED composerVars \/ ComposerSteps
           /\ UNCHANGED posts \/ PostSteps
           /\ UNCHANGED loads \/ LoadSteps
           /\ UNCHANGED <<lives, backfill>> \/ LifeSteps
           /\ UNCHANGED active \/ ViewSteps
<1> USE DEF serverVars, linkVars, listVars, typingVars, unreadVars, composerVars
<1>1. CASE AckArrives
  BY <1>1 DEF AckArrives, ReadSteps, UnreadSteps
<1>2. CASE ForeignWrite
  BY <1>2 DEF ForeignWrite, ServerSteps
<1>3. CASE Send
  BY <1>3 DEF Send, ListSteps, ComposerSteps, PostSteps
<1>4. CASE Deliver
  BY <1>4 DEF Deliver, LinkSteps, ListSteps, TypingSteps, UnreadSteps
<1>5. CASE TypingStart
  BY <1>5 DEF TypingStart, TypingSteps
<1>6. CASE TypingTimeout
  BY <1>6 DEF TypingTimeout, TypingSteps
<1>7. CASE HushEnds
  BY <1>7 DEF HushEnds, TypingSteps
<1>8. CASE ensureHistory
  BY <1>8 DEF ensureHistory, FlagSteps, LoadSteps
<1>9. CASE Enter
  BY <1>9 DEF Enter, FlagSteps, UnreadSteps, LoadSteps, ViewSteps
<1>10. CASE Unmount
  BY <1>10 DEF Unmount, ComposerSteps, ViewSteps
<1>11. CASE Identified
  BY <1>11 DEF Identified, LinkSteps
<1>12. CASE Resumed
  BY <1>12 DEF Resumed, LinkSteps
<1>13. CASE Lost
  BY <1>13 DEF Lost, LinkSteps
<1>14. CASE NewToken
  BY <1>14 DEF NewToken, LinkSteps, ListSteps, FlagSteps, TypingSteps, UnreadSteps, LifeSteps
<1>15. CASE \E g \in 1..MaxLives : ReadStatesAnswered(g)
  BY <1>15 DEF ReadStatesAnswered, UnreadSteps, LifeSteps
<1>16. CASE \E g \in 1..MaxLives : SyncReads(g)
  BY <1>16 DEF SyncReads, LifeSteps
<1>17. CASE \E g \in 1..MaxLives : SyncAnswered(g)
  BY <1>17 DEF SyncAnswered, UnreadSteps, LifeSteps
<1>18. CASE \E g \in 1..MaxLives : BackfillFails(g)
  BY <1>18 DEF BackfillFails, LifeSteps
<1>19. CASE \E row \in DOMAIN log : \E kind \in {"edited", "deleted"} : Change(row, kind)
  BY <1>19 DEF Change, ServerSteps
<1>20. CASE \E i \in DOMAIN posts : PostRefused(i)
  BY <1>20 DEF PostRefused, PostSteps
<1>21. CASE \E i \in DOMAIN posts : CheckKey(i)
  BY <1>21 DEF CheckKey, PostSteps
<1>22. CASE \E i \in DOMAIN posts : WriteMessage(i)
  BY <1>22 DEF WriteMessage, ServerSteps, PostSteps
<1>23. CASE \E i \in DOMAIN posts : StoreKeyAndPublish(i)
  BY <1>23 DEF StoreKeyAndPublish, ServerSteps, PostSteps
<1>24. CASE \E i \in DOMAIN posts : PostSucceeds(i)
  BY <1>24 DEF PostSucceeds, ComposerSteps, PostSteps
<1>25. CASE \E i \in DOMAIN posts : PostFails(i)
  BY <1>25 DEF PostFails, ListSteps, ComposerSteps, PostSteps
<1>26. CASE \E f \in File : AddFile(f)
  BY <1>26 DEF AddFile, ComposerSteps
<1>27. CASE \E f \in File : AbortUpload(f)
  BY <1>27 DEF AbortUpload, ComposerSteps
<1>28. CASE \E f \in File : \E st \in {"done", "error"} : UploadEnds(f, st)
  BY <1>28 DEF UploadEnds, ComposerSteps
<1>29. CASE \E cid \in Own : Retry(cid)
  BY <1>29 DEF Retry, ListSteps, PostSteps
<1>30. CASE \E cid \in Own : Cancel(cid)
  BY <1>30 DEF Cancel, ListSteps
<1>31. CASE \E n \in DOMAIN loads : HistoryRead(n)
  BY <1>31 DEF HistoryRead, LoadSteps
<1>32. CASE \E n \in DOMAIN loads : HistoryAnswered(n)
  BY <1>32 DEF HistoryAnswered, ListSteps, FlagSteps, UnreadSteps, LoadSteps
<1>33. CASE \E n \in DOMAIN loads : HistoryFails(n)
  BY <1>33 DEF HistoryFails, FlagSteps, LoadSteps
<1> QED
  BY <1>1, <1>2, <1>3, <1>4, <1>5, <1>6, <1>7, <1>8, <1>9, <1>10, <1>11, <1>12, <1>13, <1>14, <1>15, <1>16, <1>17, <1>18, <1>19, <1>20, <1>21, <1>22, <1>23, <1>24, <1>25, <1>26, <1>27, <1>28, <1>29, <1>30, <1>31, <1>32, <1>33 DEF Step

-----------------------------------------------------------------------------
(* Types.                                                                  *)

\* The constants.
LEMMA Constants == MaxOwn \in Nat /\ MaxLives \in Nat /\ 1 \in 1..MaxLives
  BY BoundsAssumption

\* The bounds of a behaviour.
LEMMA BoundTypes ==
    ASSUME LifeTypes
    PROVE  /\ bound.own \in 0..MaxOwn /\ bound.lives \in 1..MaxLives
           /\ bound.syncs \in 0..MaxLives /\ bound.chatty \in BOOLEAN
<1>1. bound \in BoundKinds
  BY BoundsAssumption DEF LifeTypes
<1> QED
  BY <1>1 DEF BoundKinds

\* The parts are what TypeOK says, and more.
LEMMA TypesSay == Types => TypeOK
  BY DEF Types, ServerTypes, ReadTypes, LinkTypes, ListTypes, ComposerTypes, TypeOK,
         LogRows, Events

\* A new channel.
LEMMA TypesInitially == Init => Types
<1> SUFFICES ASSUME Init PROVE Types
  OBVIOUS
<1>1. ServerTypes /\ NetTypes
  BY EmptySeq DEF Init, ServerTypes, NetTypes
<1>2. ReadTypes /\ ListTypes /\ FlagTypes
  BY DEF Init, ReadTypes, ListTypes, FlagTypes
<1>3. LinkTypes
  <2>1. Len(events) = 0
    BY DEF Init
  <2> QED
    BY <2>1 DEF Init, LinkTypes
<1>4. ComposerTypes
  <2>1. Len(posts) = 0
    BY DEF Init
  <2> QED
    BY <2>1 DEF Init, ComposerTypes
<1>5. LifeTypes
  BY Constants DEF Init, LifeTypes, Backfills
<1> QED
  BY <1>1, <1>2, <1>3, <1>4, <1>5 DEF Types

\* Domains and lengths.
LEMMA Shapes ==
    ASSUME Types
    PROVE  /\ Len(log) \in Nat /\ DOMAIN log = 1..Len(log)
           /\ Len(events) \in Nat /\ DOMAIN events = 1..Len(events)
           /\ Len(posts) \in Nat /\ DOMAIN posts = 1..Len(posts)
           /\ Len(loads) \in Nat /\ DOMAIN loads = 1..Len(loads)
           /\ \A r \in DOMAIN log : log[r] \in LogRows
           /\ \A n \in DOMAIN events : events[n] \in Events
           /\ \A i \in DOMAIN posts : posts[i] \in Posts
           /\ \A n \in DOMAIN loads : loads[n] \in Loads
<1>1. log \in Seq(LogRows) /\ events \in Seq(Events) /\ posts \in Seq(Posts)
      /\ loads \in Seq(Loads)
  BY DEF Types, ServerTypes, NetTypes
<1>2. Len(log) \in Nat /\ DOMAIN log = 1..Len(log)
  BY <1>1, LenProperties
<1>3. Len(events) \in Nat /\ DOMAIN events = 1..Len(events)
  BY <1>1, LenProperties
<1>4. Len(posts) \in Nat /\ DOMAIN posts = 1..Len(posts)
  BY <1>1, LenProperties
<1>5. Len(loads) \in Nat /\ DOMAIN loads = 1..Len(loads)
  BY <1>1, LenProperties
<1>6. \A r \in DOMAIN log : log[r] \in LogRows
  BY <1>1, <1>2, ElementOfSeq
<1>7. \A n \in DOMAIN events : events[n] \in Events
  BY <1>1, <1>3, ElementOfSeq
<1>8. \A i \in DOMAIN posts : posts[i] \in Posts
  BY <1>1, <1>4, ElementOfSeq
<1>9. \A n \in DOMAIN loads : loads[n] \in Loads
  BY <1>1, <1>5, ElementOfSeq
<1> QED
  BY <1>2, <1>3, <1>4, <1>5, <1>6, <1>7, <1>8, <1>9

\* The list, where there is one.
LEMMA ListShape ==
    ASSUME Types, list # None
    PROVE  /\ list \in Seq(Entries) /\ Len(list) \in Nat /\ DOMAIN list = 1..Len(list)
           /\ \A n \in DOMAIN list : list[n] \in Entries
<1>1. list \in Seq(Entries)
  BY DEF Types, ListTypes
<1>2. Len(list) \in Nat /\ DOMAIN list = 1..Len(list)
  BY <1>1, LenProperties
<1> QED
  BY <1>1, <1>2, ElementOfSeq

\* The log only grows, and a row keeps its client_id.
LEMMA LogGrows ==
    ASSUME Types, Step
    PROVE  /\ log' \in Seq(LogRows)
           /\ DOMAIN log \subseteq DOMAIN log'
           /\ \A r \in DOMAIN log : log'[r].cid = log[r].cid
           /\ \A r \in DOMAIN log' : r \notin DOMAIN log =>
                /\ r = Len(log) + 1
                /\ \/ log'[r].cid = Foreign
                   \/ \E i \in DOMAIN posts : log'[r].cid = posts[i].cid
<1>1. log \in Seq(LogRows)
  BY DEF Types, ServerTypes
<1>2. CASE UNCHANGED log
  BY <1>1, <1>2
<1>3. ASSUME NEW cid \in 0..MaxOwn, log' = Append(log, Row(cid)),
             cid = Foreign \/ \E i \in DOMAIN posts : cid = posts[i].cid
      PROVE  /\ log' \in Seq(LogRows)
             /\ DOMAIN log \subseteq DOMAIN log'
             /\ \A r \in DOMAIN log : log'[r].cid = log[r].cid
             /\ \A r \in DOMAIN log' : r \notin DOMAIN log =>
                  /\ r = Len(log) + 1
                  /\ \/ log'[r].cid = Foreign
                     \/ \E i \in DOMAIN posts : log'[r].cid = posts[i].cid
  <2>1. Row(cid) \in LogRows /\ Row(cid).cid = cid
    BY DEF Row, LogRows
  <2>2. /\ log' \in Seq(LogRows) /\ Len(log') = Len(log) + 1
        /\ \A r \in 1..Len(log) : log'[r] = log[r]
        /\ log'[Len(log) + 1] = Row(cid)
    BY <1>1, <1>3, <2>1, AppendProperties
  <2>3. DOMAIN log' = 1..(Len(log) + 1)
    BY <2>2, LenProperties
  <2>4. Len(log) \in Nat /\ DOMAIN log = 1..Len(log)
    BY Shapes
  <2>5. \A r \in DOMAIN log' : r \notin DOMAIN log => r = Len(log) + 1
    BY <2>3, <2>4
  <2>6. log'[Len(log) + 1].cid = cid
    BY <2>1, <2>2
  <2>7. DOMAIN log \subseteq DOMAIN log'
    BY <2>3, <2>4
  <2>8. \A r \in DOMAIN log : log'[r].cid = log[r].cid
    BY <2>2, <2>4
  <2> QED
    BY <1>3, <2>2, <2>5, <2>6, <2>7, <2>8
<1>4. CASE ForeignWrite
  <2>1. Foreign \in 0..MaxOwn /\ log' = Append(log, Row(Foreign))
    BY <1>4, Constants DEF ForeignWrite, Foreign
  <2> QED
    BY <1>3, <2>1
<1>5. CASE \E i \in DOMAIN posts : WriteMessage(i)
  <2>1. PICK i \in DOMAIN posts : WriteMessage(i)
    BY <1>5
  <2>2. posts[i].cid \in 0..MaxOwn
    BY Shapes DEF Posts, Own
  <2>3. log' = Append(log, Row(posts[i].cid))
    BY <2>1 DEF WriteMessage
  <2> QED
    BY <1>3, <2>2, <2>3
<1>6. CASE \E row \in DOMAIN log : \E kind \in {"edited", "deleted"} : Change(row, kind)
  <2>1. PICK row \in DOMAIN log, kind \in {"edited", "deleted"} : Change(row, kind)
    BY <1>6
  <2>2. log[row] \in LogRows
    BY Shapes
  <2>3. PICK b \in LogRows : b.cid = log[row].cid /\ log' = [log EXCEPT ![row] = b]
    <3>1. CASE kind = "deleted"
      <4>1. log' = [log EXCEPT ![row] = [log[row] EXCEPT !.gone = TRUE]]
        BY <2>1, <3>1 DEF Change
      <4>2. [log[row] EXCEPT !.gone = TRUE] \in LogRows
            /\ [log[row] EXCEPT !.gone = TRUE].cid = log[row].cid
        BY <2>2 DEF LogRows
      <4> QED
        BY <4>1, <4>2
    <3>2. CASE kind = "edited"
      <4>1. log' = [log EXCEPT ![row] = [log[row] EXCEPT !.edited = TRUE]]
        BY <2>1, <3>2 DEF Change
      <4>2. [log[row] EXCEPT !.edited = TRUE] \in LogRows
            /\ [log[row] EXCEPT !.edited = TRUE].cid = log[row].cid
        BY <2>2 DEF LogRows
      <4> QED
        BY <4>1, <4>2
    <3> QED
      BY <3>1, <3>2
  <2>4. log' \in Seq(LogRows) /\ DOMAIN log' = DOMAIN log
    BY <1>1, <2>3, ExceptSeq
  <2>5. \A r \in DOMAIN log : log'[r].cid = log[r].cid
    BY <2>3
  <2> QED
    BY <2>4, <2>5
<1>7. CASE \E i \in DOMAIN posts : StoreKeyAndPublish(i)
  BY <1>2, <1>7 DEF StoreKeyAndPublish
<1> QED
  BY <1>2, <1>4, <1>5, <1>6, <1>7, Frames DEF ServerSteps

-----------------------------------------------------------------------------
(* The list after a step.                                                  *)

\* The entries at the positions P, and no others, in some order; what a step
\* may change in one is its status and whether it was edited.
Carries(P) ==
    /\ list # None /\ list' # None /\ list' \in Seq(Entries)
    /\ P \subseteq DOMAIN list
    /\ \E from \in [DOMAIN list' -> P] :
         /\ \A k \in DOMAIN list' :
              list'[k].id = list[from[k]].id /\ list'[k].cid = list[from[k]].cid
         /\ \A j, k \in DOMAIN list' : from[j] = from[k] => j = k
         /\ \A n \in P : \E k \in DOMAIN list' : from[k] = n

\* A list is not undefined.
LEMMA ListThere == ASSUME NEW l \in Seq(Entries) PROVE l # None
  BY NoneAssumption

\* A filter of the list carries what it keeps.
LEMMA FilterCarries ==
    ASSUME Types, list # None, NEW P \in SUBSET DOMAIN list, list' = Filtered(list, P)
    PROVE  Carries(P)
<1>1. list \in Seq(Entries)
  BY ListShape
<1>2. list' \in Seq(Entries)
  BY <1>1, FilterKeeps
<1>3. PICK from \in [DOMAIN list' -> P] :
        /\ \A k \in DOMAIN list' : list'[k] = list[from[k]]
        /\ \A j, k \in DOMAIN list' : from[j] = from[k] => j = k
        /\ \A n \in P : \E k \in DOMAIN list' : from[k] = n
  BY <1>1, FilterKeeps
<1> QED
  BY <1>2, <1>3, ListThere DEF Carries

\* Entries changed where they stand.
LEMMA InPlaceCarries ==
    ASSUME Types, list # None, list' \in Seq(Entries), DOMAIN list' = DOMAIN list,
           \A k \in DOMAIN list : list'[k].id = list[k].id /\ list'[k].cid = list[k].cid
    PROVE  Carries(DOMAIN list)
<1> DEFINE from == [k \in DOMAIN list |-> k]
<1>1. from \in [DOMAIN list' -> DOMAIN list]
  OBVIOUS
<1>2. \A k \in DOMAIN list' :
        list'[k].id = list[from[k]].id /\ list'[k].cid = list[from[k]].cid
  OBVIOUS
<1>3. \A j, k \in DOMAIN list' : from[j] = from[k] => j = k
  OBVIOUS
<1>4. \A n \in DOMAIN list : \E k \in DOMAIN list' : from[k] = n
  OBVIOUS
<1> HIDE DEF from
<1> QED
  BY <1>1, <1>2, <1>3, <1>4, ListThere DEF Carries

\* An entry moved to the end.
LEMMA MoveCarries ==
    ASSUME Types, list # None, NEW at \in 1..Len(list), NEW e \in Entries,
           e.id = list[at].id, e.cid = list[at].cid,
           list' = Append(RemoveAt(list, at), e)
    PROVE  Carries(DOMAIN list)
<1>1. list \in Seq(Entries) /\ Len(list) \in Nat /\ DOMAIN list = 1..Len(list)
  BY ListShape
<1>2. /\ list' \in Seq(Entries) /\ Len(list') = Len(list)
      /\ \A k \in 1..Len(list) :
           list'[k] = IF k < at THEN list[k] ELSE IF k < Len(list) THEN list[k + 1] ELSE e
  <2> DEFINE m == Append(RemoveAt(list, at), e)
  <2>1. /\ Append(RemoveAt(list, at), e) \in Seq(Entries)
        /\ Len(Append(RemoveAt(list, at), e)) = Len(list)
        /\ \A k \in 1..Len(list) :
             Append(RemoveAt(list, at), e)[k] =
               IF k < at THEN list[k] ELSE IF k < Len(list) THEN list[k + 1] ELSE e
    <3>1. list \in Seq(Entries)
      BY <1>1
    <3> QED
      BY <3>1, MovedLast
  <2>2. list' = m
    OBVIOUS
  <2> HIDE DEF m
  <2> QED
    BY <2>1, <2>2
<1>3. DOMAIN list' = 1..Len(list)
  BY <1>2, LenProperties
<1> DEFINE K == 1..Len(list)
           from == [k \in K |-> IF k < at THEN k ELSE IF k < Len(list) THEN k + 1 ELSE at]
<1>4. from \in [K -> K]
  BY <1>1
<1>5. \A k \in K : list'[k].id = list[from[k]].id /\ list'[k].cid = list[from[k]].cid
  <2> TAKE k \in K
  <2>1. CASE k < at
    BY <1>2, <2>1
  <2>2. CASE ~(k < at) /\ k < Len(list)
    BY <1>2, <2>2
  <2>3. CASE ~(k < at) /\ ~(k < Len(list))
    <3>1. list'[k] = e /\ from[k] = at
      BY <1>2, <2>3
    <3> QED
      BY <3>1
  <2> QED
    BY <2>1, <2>2, <2>3
<1>6. \A j, k \in K : from[j] = from[k] => j = k
  BY <1>1
<1>7. \A n \in K : \E k \in K : from[k] = n
  <2> TAKE n \in K
  <2>1. CASE n < at
    BY <2>1
  <2>2. CASE n = at
    <3>1. PICK last \in Nat : last = Len(list)
      BY <1>1
    <3>2. last \in K /\ ~(last < last) /\ (last < at => FALSE)
      BY <1>1, <3>1
    <3>3. from[last] = at
      BY <3>1, <3>2
    <3> QED
      BY <2>2, <3>2, <3>3
  <2>3. CASE at < n
    <3>1. n - 1 \in K /\ ~(n - 1 < at) /\ n - 1 < Len(list) /\ (n - 1) + 1 = n
      BY <1>1, <2>3
    <3>2. from[n - 1] = (n - 1) + 1
      BY <3>1
    <3> QED
      BY <3>1, <3>2
  <2> QED
    BY <1>1, <2>1, <2>2, <2>3
<1> HIDE DEF from, K
<1>8. DOMAIN list' = K /\ DOMAIN list = K
  BY <1>1, <1>3 DEF K
<1>9. from \in [DOMAIN list' -> DOMAIN list]
  BY <1>4, <1>8
<1>10. /\ \A k \in DOMAIN list' :
            list'[k].id = list[from[k]].id /\ list'[k].cid = list[from[k]].cid
       /\ \A j, k \in DOMAIN list' : from[j] = from[k] => j = k
       /\ \A n \in DOMAIN list : \E k \in DOMAIN list' : from[k] = n
  BY <1>5, <1>6, <1>7, <1>8
<1>11. list' # None
  BY <1>2, ListThere
<1> QED
  BY <1>2, <1>9, <1>10, <1>11 DEF Carries

\* Sending puts a new entry at the end, and the client_id is a new one.
LEMMA SendLists ==
    ASSUME Types, Send
    PROVE  /\ Written \in Nat /\ Written + 1 \in Own
           /\ list' \in Seq(Entries)
           /\ \A k \in DOMAIN list' :
                \/ list'[k].id = syntheticMessageId /\ list'[k].cid = Written + 1
                \/ list # None /\ k \in DOMAIN list /\ list'[k] = list[k]
           /\ list # None => \A k \in DOMAIN list : k \in DOMAIN list' /\ list'[k] = list[k]
<1> DEFINE own == Entry(syntheticMessageId, Written + 1, "sending", FALSE)
<1>1. Written \in Nat /\ Written + 1 \in Own
  <2>1. IsFiniteSet(Own)
    BY Constants, FS_Interval DEF Own
  <2>2. {c \in Own : \E i \in DOMAIN posts : posts[i].cid = c} \in SUBSET Own
    OBVIOUS
  <2>3. Written \in Nat
    BY <2>1, <2>2, FS_Subset, FS_CardinalityType DEF Written
  <2>4. Written < bound.own /\ bound.own \in 0..MaxOwn
    BY BoundTypes DEF Send, Types
  <2> QED
    BY <2>3, <2>4, Constants DEF Own
<1>2. own \in Entries /\ own.id = syntheticMessageId /\ own.cid = Written + 1
  <2>1. syntheticMessageId \in Nat
    BY Shapes DEF syntheticMessageId
  <2>2. Written + 1 \in 0..MaxOwn
    BY <1>1 DEF Own
  <2> QED
    BY <2>1, <2>2 DEF Entry, Entries
<1>3. list' = IF list = None THEN <<own>> ELSE Append(list, own)
  BY DEF Send
<1> HIDE DEF own
<1>4. CASE list = None
  <2>1. list' = <<own>>
    BY <1>3, <1>4
  <2>2. list' \in Seq(Entries) /\ DOMAIN list' = 1..1 /\ list'[1] = own
    BY <1>2, <2>1
  <2>3. \A k \in DOMAIN list' : list'[k] = own
    BY <2>2
  <2> QED
    BY <1>1, <1>2, <1>4, <2>2, <2>3
<1>5. CASE list # None
  <2>1. list \in Seq(Entries) /\ Len(list) \in Nat /\ DOMAIN list = 1..Len(list)
    BY <1>5, ListShape
  <2>2. list' = Append(list, own)
    BY <1>3, <1>5
  <2>3. /\ list' \in Seq(Entries) /\ Len(list') = Len(list) + 1
        /\ \A k \in 1..Len(list) : list'[k] = list[k]
        /\ list'[Len(list) + 1] = own
    BY <1>2, <2>1, <2>2, AppendProperties
  <2>4. DOMAIN list' = 1..(Len(list) + 1)
    BY <2>3, LenProperties
  <2>5. \A k \in DOMAIN list' : k \in DOMAIN list \/ k = Len(list) + 1
    BY <2>1, <2>4
  <2>6. \A k \in DOMAIN list : k \in DOMAIN list' /\ list'[k] = list[k]
    BY <2>1, <2>3, <2>4
  <2>7. \A k \in DOMAIN list' :
          \/ list'[k].id = syntheticMessageId /\ list'[k].cid = Written + 1
          \/ k \in DOMAIN list /\ list'[k] = list[k]
    BY <1>2, <2>3, <2>5, <2>6
  <2> QED
    BY <1>1, <1>5, <2>3, <2>6, <2>7
<1> QED
  BY <1>4, <1>5

\* A failure marks an entry where it stands.
LEMMA PostFailsLists ==
    ASSUME Types, NEW i \in DOMAIN posts, PostFails(i)
    PROVE  (list = None /\ list' = None) \/ Carries(DOMAIN list)
<1> DEFINE at == IndexOf(posts[i].cid)
<1>1. posts[i].cid \in Own
  BY Shapes DEF Posts
<1>2. list' = (IF at = 0 THEN list ELSE [list EXCEPT ![at].status = "failed"])
      \/ UNCHANGED list
  BY DEF PostFails
<1>3. CASE list = None
  <2>1. at = 0
    BY <1>3 DEF IndexOf
  <2> QED
    BY <1>2, <1>3, <2>1
<1>4. CASE list # None
  <2>1. list \in Seq(Entries) /\ Len(list) \in Nat /\ DOMAIN list = 1..Len(list)
        /\ \A n \in DOMAIN list : list[n] \in Entries
    BY <1>4, ListShape
  <2>2. CASE UNCHANGED list
    BY <1>4, <2>1, <2>2, InPlaceCarries
  <2>3. CASE at # 0 /\ list' = [list EXCEPT ![at].status = "failed"]
    <3>1. at \in 0..Len(list)
      BY <1>1, <1>4, <2>1, IndexFinds
    <3>2. at \in 1..Len(list)
      BY <2>1, <2>3, <3>1
    <3> DEFINE e == [list[at] EXCEPT !.status = "failed"]
    <3>3. list[at] \in Entries
      BY <2>1, <3>2
    <3>4. e \in Entries /\ e.id = list[at].id /\ e.cid = list[at].cid
      BY <3>3 DEF Entries
    <3>5. list' = [list EXCEPT ![at] = e]
      BY <2>3
    <3> HIDE DEF at, e
    <3>6. list' \in Seq(Entries) /\ DOMAIN list' = DOMAIN list
      BY <2>1, <3>2, <3>4, <3>5, ExceptSeq
    <3>7. \A k \in DOMAIN list : list'[k].id = list[k].id /\ list'[k].cid = list[k].cid
      BY <3>4, <3>5
    <3> QED
      BY <1>4, <3>6, <3>7, InPlaceCarries
  <2> QED
    BY <1>2, <2>2, <2>3
<1> QED
  BY <1>3, <1>4

\* A retry moves the entry to the end.
LEMMA RetryLists ==
    ASSUME Types, NEW cid \in Own, Retry(cid)
    PROVE  Carries(DOMAIN list)
<1> DEFINE at == IndexOf(cid)
           e == [list[at] EXCEPT !.status = "sending"]
<1>1. list # None /\ \E n \in DOMAIN list : list[n].cid = cid
  BY DEF Retry, Offered
<1>2. list \in Seq(Entries) /\ Len(list) \in Nat /\ DOMAIN list = 1..Len(list)
      /\ \A n \in DOMAIN list : list[n] \in Entries
  BY <1>1, ListShape
<1>3. at \in 0..Len(list) /\ at # 0
  BY <1>1, <1>2, IndexFinds
<1>4. at \in 1..Len(list)
  BY <1>2, <1>3
<1>5. list[at] \in Entries
  BY <1>2, <1>4
<1>6. e \in Entries /\ e.id = list[at].id /\ e.cid = list[at].cid
  BY <1>5 DEF Entries
<1>7. list' = Append(RemoveAt(list, at), e)
  BY DEF Retry
<1> HIDE DEF at, e
<1> QED
  BY <1>1, <1>4, <1>6, <1>7, MoveCarries

\* Taking a message away filters the list.
LEMMA CancelLists ==
    ASSUME Types, NEW cid \in Own, Cancel(cid)
    PROVE  Carries({n \in DOMAIN list : list[n].cid # cid})
<1> DEFINE P == {n \in DOMAIN list : list[n].cid # cid}
<1>1. list # None /\ list' = Filtered(list, P)
  BY DEF Cancel, Offered
<1>2. P \in SUBSET DOMAIN list
  OBVIOUS
<1> HIDE DEF P
<1>3. Carries(P)
  BY <1>1, <1>2, FilterCarries
<1> QED
  BY <1>3 DEF P

\* So does a deletion; an edit marks the entries where they stand.
LEMMA ChangedLists ==
    ASSUME Types, NEW e \in Events, messageChanged(e)
    PROVE  /\ list = None => list' = None
           /\ list # None /\ e.kind = "deleted" =>
                Carries({n \in DOMAIN list : list[n].id # IdOf(e.row)})
           /\ list # None /\ e.kind # "deleted" => Carries(DOMAIN list)
<1>1. list = None => list' = None
  BY DEF messageChanged
<1>2. ASSUME list # None, e.kind = "deleted"
      PROVE  Carries({n \in DOMAIN list : list[n].id # IdOf(e.row)})
  <2> DEFINE P == {n \in DOMAIN list : list[n].id # IdOf(e.row)}
  <2>1. list' = Filtered(list, P)
    BY <1>2 DEF messageChanged
  <2>2. P \in SUBSET DOMAIN list
    OBVIOUS
  <2> HIDE DEF P
  <2>3. Carries(P)
    BY <1>2, <2>1, <2>2, FilterCarries
  <2> QED
    BY <2>3 DEF P
<1>3. ASSUME list # None, e.kind # "deleted"
      PROVE  Carries(DOMAIN list)
  <2>1. list' = [n \in DOMAIN list |->
                   IF list[n].id = IdOf(e.row)
                   THEN [list[n] EXCEPT !.edited = TRUE] ELSE list[n]]
    BY <1>3 DEF messageChanged
  <2>2. list \in Seq(Entries) /\ Len(list) \in Nat /\ DOMAIN list = 1..Len(list)
        /\ \A n \in DOMAIN list : list[n] \in Entries
    BY <1>3, ListShape
  <2>3. \A n \in DOMAIN list :
          /\ [list[n] EXCEPT !.edited = TRUE] \in Entries
          /\ [list[n] EXCEPT !.edited = TRUE].id = list[n].id
          /\ [list[n] EXCEPT !.edited = TRUE].cid = list[n].cid
    BY <2>2 DEF Entries
  <2>4. DOMAIN list' = DOMAIN list
    BY <2>1
  <2>5. \A n \in DOMAIN list :
          list'[n] \in Entries /\ list'[n].id = list[n].id /\ list'[n].cid = list[n].cid
    <3> TAKE n \in DOMAIN list
    <3>1. list'[n] = IF list[n].id = IdOf(e.row)
                     THEN [list[n] EXCEPT !.edited = TRUE] ELSE list[n]
      BY <2>1
    <3> QED
      BY <2>2, <2>3, <3>1
  <2>6. list' \in [1..Len(list) -> Entries]
    BY <2>1, <2>2, <2>5
  <2>7. list' \in Seq(Entries)
    BY <2>2, <2>6
  <2> QED
    BY <1>3, <2>4, <2>5, <2>7, InPlaceCarries
<1> QED
  BY <1>1, <1>2, <1>3

Message(row) == Entry(IdOf(row), log[row].cid, "sent", FALSE)

\* A message comes last, in the place of the entry of its client_id.
LEMMA ReceivedLists ==
    ASSUME Types, list # None, NEW row \in DOMAIN log, list' = Received(row)
    PROVE  LET at == IndexOf(log[row].cid)
               P == {n \in DOMAIN list : n # at}
           IN  /\ at # 0 => at \in DOMAIN list /\ list[at].cid = log[row].cid /\ OwnRow(row)
               /\ at = 0 /\ OwnRow(row) =>
                    \A n \in DOMAIN list : list[n].cid # log[row].cid
               /\ list' \in Seq(Entries) /\ Len(list') \in Nat
               /\ Len(list') > 0 /\ DOMAIN list' = 1..Len(list')
               /\ list'[Len(list')].id = IdOf(row)
               /\ list'[Len(list')].cid = log[row].cid
               /\ \E from \in [1..(Len(list') - 1) -> P] :
                    /\ \A k \in 1..(Len(list') - 1) : list'[k] = list[from[k]]
                    /\ \A j, k \in 1..(Len(list') - 1) : from[j] = from[k] => j = k
                    /\ \A n \in P : \E k \in 1..(Len(list') - 1) : from[k] = n
<1> DEFINE at == IndexOf(log[row].cid)
           P == {n \in DOMAIN list : n # at}
           msg == Message(row)
<1>1. list \in Seq(Entries) /\ DOMAIN list = 1..Len(list)
  BY ListShape
<1>2. PICK len \in Nat : len = Len(list)
  BY ListShape
<1>3. log[row].cid \in 0..MaxOwn /\ row \in Nat
  <2>1. log[row] \in LogRows /\ DOMAIN log = 1..Len(log) /\ Len(log) \in Nat
    BY Shapes
  <2> QED
    BY <2>1 DEF LogRows
<1>4. msg \in Entries /\ msg.id = IdOf(row) /\ msg.cid = log[row].cid
  BY <1>3 DEF Message, Entry, Entries, IdOf
<1>5. list' = IF at # 0 THEN Append(RemoveAt(list, at), msg) ELSE Append(list, msg)
  BY DEF Received, Message
<1>6. /\ at # 0 => at \in 1..Len(list) /\ list[at].cid = log[row].cid /\ OwnRow(row)
      /\ at = 0 /\ OwnRow(row) => \A n \in DOMAIN list : list[n].cid # log[row].cid
  <2>1. CASE OwnRow(row)
    <3>1. log[row].cid \in Own
      BY <1>3, <2>1, Constants DEF OwnRow, Foreign, Own
    <3>2. /\ at \in 0..Len(list)
          /\ at # 0 => list[at].cid = log[row].cid
          /\ at = 0 => \A n \in DOMAIN list : list[n].cid # log[row].cid
      BY <1>1, <3>1, IndexFinds
    <3>3. at # 0 => at \in 1..Len(list)
      BY <1>2, <3>2
    <3> QED
      BY <2>1, <3>2, <3>3
  <2>2. CASE ~OwnRow(row)
    <3>1. at = 0
      BY <2>2 DEF OwnRow, IndexOf
    <3> QED
      BY <2>2, <3>1
  <2> QED
    BY <2>1, <2>2
<1> HIDE DEF at, msg
<1>7. CASE at # 0
  <2>1. at \in 1..Len(list)
    BY <1>6, <1>7
  <2>2. list' = Append(RemoveAt(list, at), msg)
    BY <1>5, <1>7
  <2>3. list \in Seq(Entries)
    BY <1>1
  <2>4. /\ Append(RemoveAt(list, at), msg) \in Seq(Entries)
        /\ Len(Append(RemoveAt(list, at), msg)) = Len(list)
        /\ \A k \in 1..Len(list) :
             Append(RemoveAt(list, at), msg)[k] =
               IF k < at THEN list[k] ELSE IF k < Len(list) THEN list[k + 1] ELSE msg
    BY <1>4, <2>1, <2>3, MovedLast
  <2>5. /\ list' \in Seq(Entries) /\ Len(list') = len
        /\ \A k \in 1..len :
             list'[k] = IF k < at THEN list[k] ELSE IF k < len THEN list[k + 1] ELSE msg
    BY <1>2, <2>2, <2>4, Zenon
  <2>6. DOMAIN list' = 1..Len(list')
    BY <2>5, LenProperties
  <2>7. at \in 1..len /\ at \in Nat /\ len > 0
    BY <1>2, <2>1
  <2>8. list'[len] = msg
    <3>1. len \in 1..len /\ ~(len < at) /\ ~(len < len)
      BY <2>7
    <3> QED
      BY <2>5, <3>1
  <2> DEFINE K == 1..(len - 1)
             from == [k \in K |-> IF k < at THEN k ELSE k + 1]
  <2>9. from \in [K -> P]
    <3>1. DOMAIN list = 1..len
      BY <1>1, <1>2
    <3>2. \A k \in K : (IF k < at THEN k ELSE k + 1) \in 1..len
                       /\ (IF k < at THEN k ELSE k + 1) # at
      BY <2>7
    <3> QED
      BY <3>1, <3>2
  <2>10. \A k \in K : list'[k] = list[from[k]]
    <3> TAKE k \in K
    <3>1. k \in 1..len /\ k < len
      BY <2>7
    <3>2. list'[k] = IF k < at THEN list[k] ELSE list[k + 1]
      BY <2>5, <3>1
    <3> QED
      BY <3>2
  <2>11. \A j, k \in K : from[j] = from[k] => j = k
    BY <2>7
  <2>12. \A n \in P : \E k \in K : from[k] = n
    <3> TAKE n \in P
    <3>1. n \in 1..len /\ n # at
      BY <1>1, <1>2
    <3>2. CASE n < at
      <4>1. n \in K
        BY <2>7, <3>1, <3>2
      <4> QED
        BY <3>2, <4>1
    <3>3. CASE at < n
      <4>1. n - 1 \in K /\ ~(n - 1 < at) /\ (n - 1) + 1 = n
        BY <2>7, <3>1, <3>3
      <4>2. from[n - 1] = (n - 1) + 1
        BY <4>1
      <4> QED
        BY <4>1, <4>2
    <3> QED
      BY <2>7, <3>1, <3>2, <3>3
  <2> HIDE DEF from
  <2>13. K = 1..(Len(list') - 1)
    BY <2>5
  <2> HIDE DEF K, P
  <2>14. \E f \in [1..(Len(list') - 1) -> P] :
           /\ \A k \in 1..(Len(list') - 1) : list'[k] = list[f[k]]
           /\ \A j, k \in 1..(Len(list') - 1) : f[j] = f[k] => j = k
           /\ \A n \in P : \E k \in 1..(Len(list') - 1) : f[k] = n
    BY <2>9, <2>10, <2>11, <2>12, <2>13, Zenon
  <2>15. Len(list') \in Nat /\ Len(list') > 0
         /\ list'[Len(list')].id = IdOf(row) /\ list'[Len(list')].cid = log[row].cid
    BY <1>4, <2>5, <2>7, <2>8
  <2>16. at \in DOMAIN list /\ list[at].cid = log[row].cid /\ OwnRow(row)
    BY <1>1, <1>6, <1>7
  <2> QED
    BY <1>7, <2>5, <2>6, <2>14, <2>15, <2>16 DEF at, P
<1>8. CASE at = 0
  <2>1. list' = Append(list, msg)
    BY <1>5, <1>8
  <2>2. /\ Append(list, msg) \in Seq(Entries) /\ Len(Append(list, msg)) = Len(list) + 1
        /\ \A k \in 1..Len(list) : Append(list, msg)[k] = list[k]
        /\ Append(list, msg)[Len(list) + 1] = msg
    BY <1>1, <1>4, AppendProperties
  <2>3. /\ list' \in Seq(Entries) /\ Len(list') = len + 1
        /\ \A k \in 1..len : list'[k] = list[k]
        /\ list'[len + 1] = msg
    BY <1>2, <2>1, <2>2, Zenon
  <2>4. DOMAIN list' = 1..Len(list')
    BY <2>3, LenProperties
  <2> DEFINE K == 1..len
             from == [k \in K |-> k]
  <2>5. P = K /\ DOMAIN list = K
    BY <1>1, <1>2, <1>8
  <2>6. from \in [K -> P] /\ \A k \in K : list'[k] = list[from[k]]
    BY <2>3, <2>5
  <2>7. /\ \A j, k \in K : from[j] = from[k] => j = k
        /\ \A n \in P : \E k \in K : from[k] = n
    BY <2>5
  <2> HIDE DEF from
  <2>8. K = 1..(Len(list') - 1)
    BY <2>3
  <2> HIDE DEF K, P
  <2>9. \E f \in [1..(Len(list') - 1) -> P] :
           /\ \A k \in 1..(Len(list') - 1) : list'[k] = list[f[k]]
           /\ \A j, k \in 1..(Len(list') - 1) : f[j] = f[k] => j = k
           /\ \A n \in P : \E k \in 1..(Len(list') - 1) : f[k] = n
    BY <2>6, <2>7, <2>8, Zenon
  <2>10. Len(list') \in Nat /\ Len(list') > 0
         /\ list'[Len(list')].id = IdOf(row) /\ list'[Len(list')].cid = log[row].cid
    BY <1>4, <2>3
  <2> QED
    BY <1>6, <1>8, <2>3, <2>4, <2>9, <2>10 DEF at, P
<1> QED
  BY <1>7, <1>8

\* What is read of the history: rows of the log, under their ids.
LEMMA RowsRead ==
    ASSUME Types
    PROVE  /\ Rows \in Seq(Entries)
           /\ \A k \in DOMAIN Rows : \E r \in DOMAIN log :
                Rows[k].id = IdOf(r) /\ Rows[k].cid = log[r].cid
<1> DEFINE all == [r \in DOMAIN log |->
                     Entry(IdOf(r), log[r].cid, "sent", log[r].edited)]
           P == {r \in DOMAIN log : ~log[r].gone}
<1>1. Len(log) \in Nat /\ DOMAIN log = 1..Len(log) /\ \A r \in DOMAIN log : log[r] \in LogRows
  BY Shapes
<1>2. \A r \in DOMAIN log :
        /\ Entry(IdOf(r), log[r].cid, "sent", log[r].edited) \in Entries
        /\ Entry(IdOf(r), log[r].cid, "sent", log[r].edited).id = IdOf(r)
        /\ Entry(IdOf(r), log[r].cid, "sent", log[r].edited).cid = log[r].cid
  BY <1>1 DEF Entry, Entries, LogRows, IdOf
<1>3. all \in Seq(Entries) /\ DOMAIN all = DOMAIN log
  <2>1. all \in [1..Len(log) -> Entries]
    BY <1>1, <1>2
  <2> QED
    BY <1>1, <2>1
<1>4. \A r \in DOMAIN log : all[r].id = IdOf(r) /\ all[r].cid = log[r].cid
  BY <1>2
<1>5. P \in SUBSET DOMAIN all
  BY <1>3
<1>6. Rows = Filtered(all, P)
  BY DEF Rows
<1>7. P \subseteq DOMAIN log
  OBVIOUS
<1> HIDE DEF all, P
<1>8. Rows \in Seq(Entries)
  BY <1>3, <1>5, <1>6, FilterKeeps
<1>9. PICK from \in [DOMAIN Filtered(all, P) -> P] :
        \A k \in DOMAIN Filtered(all, P) : Filtered(all, P)[k] = all[from[k]]
  BY <1>3, <1>5, FilterKeeps
<1>10. ASSUME NEW k \in DOMAIN Rows
       PROVE  \E r \in DOMAIN log : Rows[k].id = IdOf(r) /\ Rows[k].cid = log[r].cid
  <2>1. from[k] \in DOMAIN log /\ Rows[k] = all[from[k]]
    BY <1>6, <1>7, <1>9
  <2> QED
    BY <1>4, <2>1
<1> QED
  BY <1>8, <1>10

\* The answer of a load: what was read, and entries that were there before.
LEMMA HistoryLists ==
    ASSUME Types, NEW n \in DOMAIN loads, HistoryAnswered(n)
    PROVE  /\ list' \in Seq(Entries)
           /\ \A k \in DOMAIN list' :
                \/ \E j \in DOMAIN loads[n].rows : list'[k] = loads[n].rows[j]
                \/ list # None /\ \E j \in DOMAIN list : list'[k] = list[j]
<1> DEFINE rows == loads[n].rows
           unseen == {p \in DOMAIN Pending : \A k \in DOMAIN rows : rows[k].id # Pending[p].id}
           kept == Filtered(Pending, unseen)
<1>1. rows \in Seq(Entries)
  BY Shapes DEF Loads
<1>2. /\ Pending \in Seq(Entries)
      /\ \A k \in DOMAIN Pending : list # None /\ \E j \in DOMAIN list : Pending[k] = list[j]
  <2>1. CASE list = None
    <3>1. Pending = <<>>
      BY <2>1 DEF Pending
    <3>2. Pending \in Seq(Entries) /\ DOMAIN Pending = {}
      BY <3>1, EmptySeq
    <3> QED
      BY <3>2
  <2>2. CASE list # None
    <3> DEFINE P == {m \in DOMAIN list : list[m].status # "sent"}
    <3>1. Pending = Filtered(list, P)
      BY <2>2 DEF Pending
    <3>2. list \in Seq(Entries)
      BY <2>2, ListShape
    <3>3. P \in SUBSET DOMAIN list
      OBVIOUS
    <3> HIDE DEF P
    <3>4. Filtered(list, P) \in Seq(Entries)
      BY <3>2, <3>3, FilterKeeps
    <3>5. PICK from \in [DOMAIN Filtered(list, P) -> P] :
            \A k \in DOMAIN Filtered(list, P) : Filtered(list, P)[k] = list[from[k]]
      BY <3>2, <3>3, FilterKeeps
    <3>6. \A k \in DOMAIN Filtered(list, P) : from[k] \in DOMAIN list
      BY <3>3, <3>5
    <3> QED
      BY <2>2, <3>1, <3>4, <3>5, <3>6
  <2> QED
    BY <2>1, <2>2
<1>3. unseen \in SUBSET DOMAIN Pending
  OBVIOUS
<1>4. list' = rows \o kept
  BY DEF HistoryAnswered
<1> HIDE DEF rows, unseen
<1>5. kept \in Seq(Entries)
  BY <1>2, <1>3, FilterKeeps
<1>6. PICK from \in [DOMAIN kept -> unseen] : \A k \in DOMAIN kept : kept[k] = Pending[from[k]]
  <2>1. Pending \in Seq(Entries)
    BY <1>2
  <2> QED
    BY <1>3, <2>1, FilterKeeps
<1> HIDE DEF kept
<1>7. /\ list' \in Seq(Entries) /\ Len(list') = Len(rows) + Len(kept)
      /\ \A k \in 1..(Len(rows) + Len(kept)) :
           list'[k] = IF k <= Len(rows) THEN rows[k] ELSE kept[k - Len(rows)]
  BY <1>1, <1>4, <1>5, ConcatProperties
<1>8. Len(rows) \in Nat /\ DOMAIN rows = 1..Len(rows)
      /\ Len(kept) \in Nat /\ DOMAIN kept = 1..Len(kept)
  BY <1>1, <1>5, LenProperties
<1>9. DOMAIN list' = 1..(Len(rows) + Len(kept))
  BY <1>7, LenProperties
<1>10. ASSUME NEW k \in DOMAIN list'
       PROVE  \/ \E j \in DOMAIN rows : list'[k] = rows[j]
              \/ list # None /\ \E j \in DOMAIN list : list'[k] = list[j]
  <2>1. CASE k <= Len(rows)
    <3>1. k \in DOMAIN rows /\ list'[k] = rows[k]
      BY <1>7, <1>8, <1>9, <2>1
    <3> QED
      BY <3>1
  <2>2. CASE ~(k <= Len(rows))
    <3>1. k - Len(rows) \in DOMAIN kept
      BY <1>8, <1>9, <2>2
    <3>2. list'[k] = kept[k - Len(rows)]
      BY <1>7, <1>9, <2>2
    <3>3. from[k - Len(rows)] \in DOMAIN Pending
          /\ list'[k] = Pending[from[k - Len(rows)]]
      BY <1>3, <1>6, <3>1, <3>2
    <3> QED
      BY <1>2, <3>3
  <2> QED
    BY <2>1, <2>2
<1> QED
  BY <1>7, <1>10 DEF rows

-----------------------------------------------------------------------------
(* The log, its events, and the link to the browser.                       *)

\* An event is added: of a row just written by another, of one whose POST
\* announces it, or of a change.
EventAdded ==
    \E e \in [kind : {"new", "edited", "deleted"}, row : DOMAIN log'] :
      /\ events' = Append(events, e)
      /\ \/ e.kind # "new"
         \/ e.row = Len(log) + 1 /\ UNCHANGED posts
         \/ \E i \in DOMAIN posts : StoreKeyAndPublish(i) /\ e.row = posts[i].row

\* No step adds two events.
LEMMA EventsStep ==
    ASSUME Types, AnnouncedOnce, Step
    PROVE  UNCHANGED events \/ EventAdded
<1>0. Len(log) \in Nat /\ DOMAIN log = 1..Len(log) /\ DOMAIN log \subseteq DOMAIN log'
  BY Shapes, LogGrows
<1>1. CASE ForeignWrite
  <2> DEFINE e == [kind |-> "new", row |-> Len(log) + 1]
  <2>1. events' = Append(events, e) /\ UNCHANGED posts
    BY <1>1 DEF ForeignWrite
  <2>2. log' = Append(log, Row(Foreign)) /\ Row(Foreign) \in LogRows
    BY <1>1, Constants DEF ForeignWrite, Row, LogRows, Foreign
  <2>3. log \in Seq(LogRows)
    BY DEF Types, ServerTypes
  <2>4. Len(log') = Len(log) + 1 /\ log' \in Seq(LogRows)
    BY <2>2, <2>3, AppendProperties
  <2>5. Len(log) + 1 \in DOMAIN log'
    BY <1>0, <2>4, LenProperties
  <2>6. e \in [kind : {"new", "edited", "deleted"}, row : DOMAIN log'] /\ e.row = Len(log) + 1
    BY <2>5
  <2> HIDE DEF e
  <2> QED
    BY <2>1, <2>6 DEF EventAdded
<1>2. CASE \E row \in DOMAIN log : \E kind \in {"edited", "deleted"} : Change(row, kind)
  <2>1. PICK row \in DOMAIN log, kind \in {"edited", "deleted"} : Change(row, kind)
    BY <1>2
  <2> DEFINE e == [kind |-> kind, row |-> row]
  <2>2. events' = Append(events, e)
    BY <2>1 DEF Change
  <2>3. e \in [kind : {"new", "edited", "deleted"}, row : DOMAIN log'] /\ e.kind # "new"
    BY <1>0, <2>1
  <2> HIDE DEF e
  <2> QED
    BY <2>2, <2>3 DEF EventAdded
<1>3. CASE \E i \in DOMAIN posts : StoreKeyAndPublish(i)
  <2>1. PICK i \in DOMAIN posts : StoreKeyAndPublish(i)
    BY <1>3
  <2> DEFINE e == [kind |-> "new", row |-> posts[i].row]
  <2>2. events' = Append(events, e) /\ posts[i].srv = "written"
    BY <2>1 DEF StoreKeyAndPublish
  <2>3. posts[i].row \in DOMAIN log'
    BY <1>0, <2>2 DEF AnnouncedOnce
  <2>4. e \in [kind : {"new", "edited", "deleted"}, row : DOMAIN log'] /\ e.row = posts[i].row
    BY <2>3
  <2> HIDE DEF e
  <2> QED
    BY <2>1, <2>2, <2>4 DEF EventAdded
<1>4. CASE \E i \in DOMAIN posts : WriteMessage(i)
  BY <1>4 DEF WriteMessage
<1> QED
  BY <1>1, <1>2, <1>3, <1>4, Frames DEF ServerSteps

\* Events stay where they are.
LEMMA EventsGrow ==
    ASSUME Types, AnnouncedOnce, Step
    PROVE  /\ events' \in Seq([kind : {"new", "edited", "deleted"}, row : DOMAIN log'])
           /\ Len(events') \in Nat /\ DOMAIN events' = 1..Len(events')
           /\ Len(events) <= Len(events')
           /\ \A n \in DOMAIN events : n \in DOMAIN events' /\ events'[n] = events[n]
<1> DEFINE E == [kind : {"new", "edited", "deleted"}, row : DOMAIN log']
<1>1. DOMAIN log \subseteq DOMAIN log'
  BY LogGrows
<1>2. Len(events) \in Nat /\ DOMAIN events = 1..Len(events)
      /\ \A n \in DOMAIN events : events[n] \in Events
  BY Shapes
<1>3. events \in Seq(E)
  <2>1. \A n \in 1..Len(events) : events[n] \in E
    BY <1>1, <1>2 DEF Events
  <2>2. events \in Seq(Events)
    BY DEF Types, ServerTypes
  <2>3. PICK n \in Nat : n = Len(events)
    BY <1>2
  <2>4. events \in [1..n -> E]
    BY <1>2, <2>1, <2>2, <2>3, LenProperties
  <2> HIDE DEF E
  <2> QED
    BY <2>4
<1> HIDE DEF E
<1>4. CASE UNCHANGED events
  BY <1>2, <1>3, <1>4 DEF E
<1>5. CASE EventAdded
  <2>1. PICK e \in E : events' = Append(events, e)
    BY <1>5 DEF EventAdded, E
  <2>2. /\ events' \in Seq(E) /\ Len(events') = Len(events) + 1
        /\ \A n \in 1..Len(events) : events'[n] = events[n]
    BY <1>3, <2>1, AppendProperties
  <2>3. DOMAIN events' = 1..Len(events')
    BY <2>2, LenProperties
  <2> QED
    BY <1>2, <2>2, <2>3 DEF E
<1> QED
  BY <1>4, <1>5, EventsStep

\* The types of the log and of its events.
LEMMA ServerTyped ==
    ASSUME Types, AnnouncedOnce, Step
    PROVE  ServerTypes'
<1>1. log' \in Seq(LogRows)
  BY LogGrows
<1>2. events' \in Seq([kind : {"new", "edited", "deleted"}, row : DOMAIN log'])
  BY EventsGrow
<1>3. idem' \subseteq Own
  <2>0. idem \subseteq Own
    BY DEF Types, ServerTypes
  <2>1. CASE \E i \in DOMAIN posts : StoreKeyAndPublish(i)
    <3>1. PICK i \in DOMAIN posts : idem' = idem \cup {posts[i].cid}
      BY <2>1 DEF StoreKeyAndPublish
    <3>2. posts[i].cid \in Own
      BY Shapes DEF Posts
    <3> QED
      BY <2>0, <3>1, <3>2
  <2>2. CASE UNCHANGED idem
    BY <2>0, <2>2
  <2>3. CASE \E i \in DOMAIN posts : WriteMessage(i)
    BY <2>2, <2>3 DEF WriteMessage
  <2>4. CASE ForeignWrite
    BY <2>2, <2>4 DEF ForeignWrite
  <2>5. CASE \E row \in DOMAIN log : \E kind \in {"edited", "deleted"} : Change(row, kind)
    BY <2>2, <2>5 DEF Change
  <2> QED
    BY <2>1, <2>2, <2>3, <2>4, <2>5, Frames DEF ServerSteps
<1> QED
  BY <1>1, <1>2, <1>3 DEF ServerTypes, Events

\* What was delivered is behind what there is, and never fewer.
LEMMA LinkTyped ==
    ASSUME Types, AnnouncedOnce, Step
    PROVE  LinkTypes' /\ delivered <= delivered'
<1>1. Len(events') \in Nat /\ Len(events) \in Nat /\ Len(events) <= Len(events')
  BY EventsGrow, Shapes
<1>2. conn \in {"new", "up", "down"} /\ delivered \in 0..Len(events) /\ drops \in Nat
  BY DEF Types, LinkTypes
<1>3. CASE UNCHANGED linkVars
  BY <1>1, <1>2, <1>3 DEF linkVars, LinkTypes
<1>4. CASE Deliver
  <2>1. UNCHANGED <<conn, drops, events>> /\ delivered < Len(events) /\ delivered' = delivered + 1
    BY <1>4 DEF Deliver, serverVars
  <2> QED
    BY <1>1, <1>2, <2>1 DEF LinkTypes
<1>5. CASE Identified
  <2>1. UNCHANGED <<drops, events>> /\ conn' = "up" /\ delivered' = Len(events)
    BY <1>5 DEF Identified, serverVars
  <2> QED
    BY <1>1, <1>2, <2>1 DEF LinkTypes
<1>6. CASE Resumed
  BY <1>1, <1>2, <1>6 DEF Resumed, serverVars, LinkTypes
<1>7. CASE Lost
  BY <1>1, <1>2, <1>7 DEF Lost, serverVars, LinkTypes
<1>8. CASE NewToken
  BY <1>1, <1>2, <1>8 DEF NewToken, serverVars, LinkTypes
<1> QED
  BY <1>3, <1>4, <1>5, <1>6, <1>7, <1>8, Frames DEF LinkSteps

-----------------------------------------------------------------------------
(* The count of unread messages.                                           *)

\* A reset of the count leaves one.
LEMMA AckResets ==
    ASSUME ReadTypes, NEW id \in Nat, ackUpTo(id)
    PROVE  acks' \subseteq Nat /\ badge' \in Badges /\ missed' = 0
<1>1. acks \subseteq Nat /\ (badge = None \/ badge \in Badges)
  BY DEF ReadTypes
<1>2. CASE NothingToAck(id)
  BY <1>1, <1>2 DEF ackUpTo, NothingToAck
<1>3. CASE ~NothingToAck(id)
  <2>1. acks' = acks \cup {id} /\ badge' = Advance(id) /\ missed' = 0
    BY <1>3 DEF ackUpTo
  <2>2. Advance(id) \in Badges
    BY <1>1 DEF Advance, Max2, Badges
  <2> QED
    BY <1>1, <2>1, <2>2
<1> QED
  BY <1>2, <1>3

\* A live message of another counts.
LEMMA LiveCounts ==
    ASSUME ReadTypes, LiveUnreadCounted
    PROVE  CountLive \in Badges /\ CountLive.unread >= missed + 1
<1>1. missed \in Nat /\ (badge = None \/ badge \in Badges)
      /\ (missed > 0 => badge # None /\ badge.unread >= missed)
  BY DEF ReadTypes, LiveUnreadCounted
<1>2. CASE badge = None
  <2>1. missed = 0
    BY <1>1, <1>2
  <2> QED
    BY <1>2, <2>1 DEF CountLive, Badges
<1>3. CASE badge # None
  <2>1. CountLive = [badge EXCEPT !.unread = badge.unread + 1]
    BY <1>3 DEF CountLive
  <2>2. badge \in Badges
    BY <1>1, <1>3
  <2>3. badge.unread \in Nat /\ badge.last \in Nat
    BY <2>2 DEF Badges
  <2>4. CountLive \in Badges /\ CountLive.unread = badge.unread + 1
    BY <2>1, <2>2, <2>3 DEF Badges
  <2>5. badge.unread >= missed
    BY <1>1, <1>3, <2>3
  <2> QED
    BY <1>1, <2>3, <2>4, <2>5
<1> QED
  BY <1>2, <1>3

\* Ids of rows, and of what is shown.
LEMMA NewestThere ==
    ASSUME NEW l \in Seq(Entries), l # <<>>
    PROVE  Newest(l) \in Nat
<1>1. Len(l) \in Nat \ {0}
  BY EmptySeq
<1>2. l[Len(l)] \in Entries
  BY <1>1, ElementOfSeq
<1> QED
  BY <1>2 DEF Newest, Entries

\* Whatever comes in between, the count covers what was missed.
LEMMA UnreadKept ==
    ASSUME Types, LiveUnreadCounted, Step
    PROVE  ReadTypes' /\ LiveUnreadCounted'
<1>1. /\ ReadTypes /\ readPos \in Nat /\ acks \subseteq Nat /\ missed \in Nat
      /\ badge = None \/ badge \in Badges
      /\ missed > 0 => badge # None /\ badge.unread >= missed
  BY DEF Types, ReadTypes, LiveUnreadCounted
<1>2. readPos' \in Nat
  <2>1. CASE AckArrives
    BY <1>1, <2>1 DEF AckArrives
  <2> QED
    BY <1>1, <2>1, Frames DEF ReadSteps
<1>3. ASSUME acks' \subseteq Nat, badge' \in Badges, missed' = 0
      PROVE  ReadTypes' /\ LiveUnreadCounted'
  BY <1>2, <1>3 DEF ReadTypes, LiveUnreadCounted
<1>4. ASSUME UNCHANGED <<badge, missed>>, acks' \subseteq Nat
      PROVE  ReadTypes' /\ LiveUnreadCounted'
  BY <1>1, <1>2, <1>4 DEF ReadTypes, LiveUnreadCounted
<1>5. CASE UNCHANGED unreadVars
  BY <1>1, <1>4, <1>5 DEF unreadVars
<1>6. ASSUME NEW id \in Nat, ackUpTo(id)
      PROVE  ReadTypes' /\ LiveUnreadCounted'
  BY <1>1, <1>3, <1>6, AckResets
<1>7. CASE AckArrives
  BY <1>1, <1>4, <1>7 DEF AckArrives
<1>8. CASE \E g \in 1..MaxLives : ReadStatesAnswered(g)
  <2>1. PICK g \in 1..MaxLives : ReadStatesAnswered(g)
    BY <1>8
  <2>2. UNCHANGED <<missed, acks>>
    BY <2>1 DEF ReadStatesAnswered
  <2>3. CASE badge' = badge
    BY <1>1, <1>4, <2>2, <2>3
  <2> DEFINE last == IF badge = None THEN readPos ELSE Max2(badge.last, readPos)
             unread == IF badge = None THEN 0 ELSE badge.unread
  <2>4. CASE badge' = [last |-> last, unread |-> unread]
    <3>1. last \in Nat /\ unread \in Nat
      BY <1>1 DEF Max2, Badges
    <3>2. missed > 0 => unread >= missed
      BY <1>1
    <3> HIDE DEF last, unread
    <3>3. badge' \in Badges /\ badge'.unread = unread
      BY <2>4, <3>1 DEF Badges
    <3>4. badge' # None
      BY <3>3, NoneAssumption
    <3> QED
      BY <1>1, <1>2, <2>2, <3>2, <3>3, <3>4 DEF ReadTypes, LiveUnreadCounted
  <2> QED
    BY <2>1, <2>3, <2>4 DEF ReadStatesAnswered
<1>9. CASE \E g \in 1..MaxLives : SyncAnswered(g)
  <2>1. PICK g \in 1..MaxLives : SyncAnswered(g)
    BY <1>9
  <2>2. UNCHANGED <<missed, acks>>
    BY <2>1 DEF SyncAnswered
  <2>3. CASE badge = None
    <3>1. badge' = badge
      BY <2>1, <2>3 DEF SyncAnswered
    <3> QED
      BY <1>1, <1>4, <2>2, <3>1
  <2>4. CASE badge # None
    <3> DEFINE n == backfill[g].n
    <3>1. n \in Nat
      BY DEF Types, LifeTypes, Backfills
    <3>2. badge' = [badge EXCEPT !.unread = Max2(badge.unread, n)]
      BY <2>1, <2>4 DEF SyncAnswered, Backfilled
    <3>3. badge \in Badges
      BY <1>1, <2>4
    <3>4. badge.unread \in Nat
      BY <3>3 DEF Badges
    <3> HIDE DEF n
    <3>5. Max2(badge.unread, n) \in Nat /\ Max2(badge.unread, n) >= badge.unread
      BY <3>1, <3>4 DEF Max2
    <3>6. badge' \in Badges /\ badge'.unread = Max2(badge.unread, n)
      BY <3>2, <3>3, <3>5 DEF Badges
    <3>7. badge' # None
      BY <3>6, NoneAssumption
    <3>8. missed > 0 => badge'.unread >= missed
      BY <1>1, <3>4, <3>5, <3>6
    <3> QED
      BY <1>1, <1>2, <2>2, <3>6, <3>7, <3>8 DEF ReadTypes, LiveUnreadCounted
  <2> QED
    BY <2>3, <2>4
<1>10. CASE Deliver
  <2> DEFINE e == events[delivered + 1]
  <2>1. e \in Events /\ (IF e.kind = "new" THEN messageNew(e.row) ELSE messageChanged(e))
    <3>1. delivered < Len(events) /\ delivered \in 0..Len(events)
      BY <1>10 DEF Deliver, Types, LinkTypes
    <3>2. delivered + 1 \in DOMAIN events
      BY <3>1, Shapes
    <3> QED
      BY <1>10, <3>2, Shapes DEF Deliver
  <2> HIDE DEF e
  <2>2. e.row \in DOMAIN log
    BY <2>1 DEF Events
  <2>3. IdOf(e.row) \in Nat
    BY <2>2, Shapes DEF IdOf
  <2>4. CASE e.kind # "new"
    BY <1>5, <2>1, <2>4 DEF messageChanged
  <2>5. CASE e.kind = "new" /\ OwnRow(e.row)
    <3>1. badge' = Advance(IdOf(e.row)) /\ missed' = 0 /\ UNCHANGED acks
      BY <2>1, <2>5 DEF messageNew
    <3>2. Advance(IdOf(e.row)) \in Badges
      BY <1>1, <2>3 DEF Advance, Max2, Badges
    <3> QED
      BY <1>1, <1>3, <3>1, <3>2
  <2>6. CASE e.kind = "new" /\ ~OwnRow(e.row) /\ active
    <3>1. ackUpTo(IdOf(e.row))
      BY <2>1, <2>6 DEF messageNew
    <3> QED
      BY <1>6, <2>3, <3>1
  <2>7. CASE e.kind = "new" /\ ~OwnRow(e.row) /\ ~active
    <3>1. badge' = CountLive /\ missed' = missed + 1 /\ UNCHANGED acks
      BY <2>1, <2>7 DEF messageNew
    <3>2. CountLive \in Badges /\ CountLive.unread >= missed + 1
      BY <1>1, LiveCounts
    <3>3. badge' # None
      BY <3>1, <3>2, NoneAssumption
    <3>4. badge' \in Badges /\ badge'.unread >= missed'
      BY <3>1, <3>2, Zenon
    <3>5. missed' \in Nat /\ acks' \subseteq Nat
      BY <1>1, <3>1
    <3> QED
      BY <1>2, <3>3, <3>4, <3>5 DEF ReadTypes, LiveUnreadCounted
  <2> QED
    BY <2>4, <2>5, <2>6, <2>7
<1>11. CASE \E n \in DOMAIN loads : HistoryAnswered(n)
  <2>1. PICK n \in DOMAIN loads : HistoryAnswered(n)
    BY <1>11
  <2> DEFINE rows == loads[n].rows
  <2>2. rows \in Seq(Entries)
    BY Shapes DEF Loads
  <2>3. UNCHANGED unreadVars \/ (rows # <<>> /\ ackUpTo(Newest(rows)))
    BY <2>1 DEF HistoryAnswered
  <2> HIDE DEF rows
  <2> QED
    BY <1>5, <1>6, <2>2, <2>3, NewestThere
<1>12. CASE Enter
  <2>1. CASE UNCHANGED unreadVars
    BY <1>5, <2>1
  <2>2. CASE list # None /\ list # <<>> /\ ackUpTo(Newest(list))
    <3>1. list \in Seq(Entries)
      BY <2>2, ListShape
    <3> QED
      BY <1>6, <2>2, <3>1, NewestThere
  <2>3. CASE badge # None /\ badge' = [badge EXCEPT !.unread = 0] /\ missed' = 0 /\ UNCHANGED acks
    <3>1. badge \in Badges
      BY <1>1, <2>3
    <3>2. badge' \in Badges
      BY <2>3, <3>1 DEF Badges
    <3> QED
      BY <1>1, <1>3, <2>3, <3>2
  <2> QED
    BY <1>12, <2>1, <2>2, <2>3 DEF Enter
<1>13. CASE NewToken
  <2>1. badge' = None /\ missed' = 0 /\ UNCHANGED acks
    BY <1>13 DEF NewToken
  <2> QED
    BY <1>1, <1>2, <2>1 DEF ReadTypes, LiveUnreadCounted
<1> QED
  BY <1>5, <1>7, <1>8, <1>9, <1>10, <1>11, <1>12, <1>13, Frames DEF UnreadSteps

-----------------------------------------------------------------------------
(* The typing indicator, the composer, the requests.                       *)

\* Who is shown as typing has a timeout.
LEMMA FlagsKept ==
    ASSUME Types, TypingEnds, Step
    PROVE  FlagTypes' /\ TypingEnds'
<1>1. /\ loading \in BOOLEAN /\ loaded \in BOOLEAN /\ active \in BOOLEAN
      /\ typing \in BOOLEAN /\ timer \in BOOLEAN /\ hushed \in BOOLEAN
      /\ bound.chatty \in BOOLEAN /\ (typing => timer)
  BY BoundTypes DEF Types, FlagTypes, TypingEnds
<1>2. loading' \in BOOLEAN /\ loaded' \in BOOLEAN
  <2>1. CASE UNCHANGED <<loading, loaded>>
    BY <1>1, <2>1
  <2>2. CASE ensureHistory
    BY <1>1, <2>2 DEF ensureHistory, AskHistory
  <2>3. CASE \E n \in DOMAIN loads : HistoryAnswered(n)
    BY <2>3 DEF HistoryAnswered
  <2>4. CASE \E n \in DOMAIN loads : HistoryFails(n)
    BY <1>1, <2>4 DEF HistoryFails
  <2>5. CASE Enter
    BY <1>1, <2>5 DEF Enter, AskHistory
  <2>6. CASE NewToken
    BY <2>6 DEF NewToken
  <2> QED
    BY <2>1, <2>2, <2>3, <2>4, <2>5, <2>6, Frames DEF FlagSteps
<1>3. active' \in BOOLEAN
  <2>1. CASE Enter
    BY <2>1 DEF Enter
  <2>2. CASE Unmount
    BY <2>2 DEF Unmount
  <2> QED
    BY <1>1, <2>1, <2>2, Frames DEF ViewSteps
<1>4. typing' \in BOOLEAN /\ timer' \in BOOLEAN /\ hushed' \in BOOLEAN /\ (typing' => timer')
  <2>1. CASE UNCHANGED typingVars
    BY <1>1, <2>1 DEF typingVars
  <2>2. CASE Deliver
    <3>1. PICK e \in {events[delivered + 1]} : messageNew(e.row) \/ messageChanged(e)
      BY <2>2 DEF Deliver
    <3>2. CASE messageChanged(e)
      BY <2>1, <3>2 DEF messageChanged
    <3>3. CASE messageNew(e.row)
      <4>1. UNCHANGED typingVars \/ (StopTyping /\ hushed' = bound.chatty)
        BY <3>3 DEF messageNew
      <4>2. CASE StopTyping /\ hushed' = bound.chatty
        BY <1>1, <4>2 DEF StopTyping
      <4> QED
        BY <2>1, <4>1, <4>2
    <3> QED
      BY <3>1, <3>2, <3>3
  <2>3. CASE TypingStart
    BY <1>1, <2>3 DEF TypingStart
  <2>4. CASE TypingTimeout
    BY <1>1, <2>4 DEF TypingTimeout
  <2>5. CASE HushEnds
    BY <1>1, <2>5 DEF HushEnds
  <2>6. CASE NewToken
    BY <2>6 DEF NewToken
  <2> QED
    BY <2>1, <2>2, <2>3, <2>4, <2>5, <2>6, Frames DEF TypingSteps
<1> QED
  BY <1>2, <1>3, <1>4 DEF FlagTypes, TypingEnds

\* Lives of the client, and their start-ups.
LEMMA LivesTyped ==
    ASSUME Types, Step, UNCHANGED bound
    PROVE  LifeTypes'
<1>1. bound' \in Bounds /\ lives \in 1..MaxLives /\ backfill \in [1..MaxLives -> Backfills]
  BY DEF Types, LifeTypes
<1>2. ASSUME NEW g \in 1..MaxLives, NEW b \in Backfills, backfill' = [backfill EXCEPT ![g] = b]
      PROVE  backfill' \in [1..MaxLives -> Backfills]
  BY <1>1, <1>2
<1>3. [st |-> "over", n |-> 0] \in Backfills /\ [st |-> "asked", n |-> 0] \in Backfills
  BY DEF Backfills
<1>4. ASSUME backfill' \in [1..MaxLives -> Backfills], UNCHANGED lives
      PROVE  LifeTypes'
  BY <1>1, <1>4 DEF LifeTypes
<1>5. CASE UNCHANGED <<lives, backfill>>
  BY <1>1, <1>4, <1>5
<1>6. CASE \E g \in 1..MaxLives : ReadStatesAnswered(g)
  <2>1. PICK g \in 1..MaxLives : ReadStatesAnswered(g)
    BY <1>6
  <2>2. [st |-> "syncing", n |-> readPos] \in Backfills
    BY DEF Types, ReadTypes, Backfills
  <2>3. UNCHANGED lives
    BY <2>1 DEF ReadStatesAnswered
  <2>4. backfill' = [backfill EXCEPT ![g] = [st |-> "syncing", n |-> readPos]]
        \/ backfill' = [backfill EXCEPT ![g] = [st |-> "over", n |-> 0]]
    BY <2>1 DEF ReadStatesAnswered
  <2> QED
    BY <1>2, <1>3, <1>4, <2>2, <2>3, <2>4
<1>7. CASE \E g \in 1..MaxLives : SyncReads(g)
  <2>1. PICK g \in 1..MaxLives : SyncReads(g)
    BY <1>7
  <2> DEFINE later == {r \in DOMAIN log : /\ IdOf(r) > backfill[g].n
                                          /\ ~log[r].gone /\ log[r].cid = Foreign}
             b == [st |-> "counted", n |-> Cardinality(later)]
  <2>2. Cardinality(later) \in Nat
    <3>1. IsFiniteSet(DOMAIN log)
      BY Shapes, FS_Interval
    <3> QED
      BY <3>1, FS_Subset, FS_CardinalityType
  <2>3. UNCHANGED lives /\ backfill' = [backfill EXCEPT ![g] = b]
    BY <2>1 DEF SyncReads
  <2> HIDE DEF later
  <2>4. b \in Backfills
    BY <2>2 DEF Backfills
  <2> HIDE DEF b
  <2> QED
    BY <1>2, <1>4, <2>3, <2>4
<1>8. CASE \E g \in 1..MaxLives : SyncAnswered(g)
  <2>1. PICK g \in 1..MaxLives : SyncAnswered(g)
    BY <1>8
  <2>2. UNCHANGED lives /\ backfill' = [backfill EXCEPT ![g] = [st |-> "over", n |-> 0]]
    BY <2>1 DEF SyncAnswered
  <2> QED
    BY <1>2, <1>3, <1>4, <2>2
<1>9. CASE \E g \in 1..MaxLives : BackfillFails(g)
  <2>1. PICK g \in 1..MaxLives : BackfillFails(g)
    BY <1>9
  <2>2. UNCHANGED lives /\ backfill' = [backfill EXCEPT ![g] = [st |-> "over", n |-> 0]]
    BY <2>1 DEF BackfillFails
  <2> QED
    BY <1>2, <1>3, <1>4, <2>2
<1>10. CASE NewToken
  <2>1. lives < bound.lives /\ bound.lives \in 1..MaxLives
    BY <1>10, BoundTypes DEF NewToken, Types
  <2>2. lives + 1 \in 1..MaxLives
    BY <1>1, <2>1, Constants
  <2>3. lives' = lives + 1
        /\ (backfill' = backfill
            \/ backfill' = [backfill EXCEPT ![lives + 1] = [st |-> "asked", n |-> 0]])
    BY <1>10 DEF NewToken
  <2>4. backfill' \in [1..MaxLives -> Backfills]
    BY <1>1, <1>2, <1>3, <2>2, <2>3
  <2> QED
    BY <1>1, <2>2, <2>3, <2>4 DEF LifeTypes
<1> QED
  BY <1>5, <1>6, <1>7, <1>8, <1>9, <1>10, Frames DEF LifeSteps

-----------------------------------------------------------------------------
(* Requests.                                                               *)

\* What becomes of a POST.
PostMoved(i, p) ==
    /\ p \in Posts /\ p.cid = posts[i].cid
    /\ posts' = [posts EXCEPT ![i] = p]
    /\ \/ p.srv = posts[i].srv /\ p.row = posts[i].row
       \/ p.srv = "refused"
       \/ /\ posts[i].srv = "arriving"
          /\ p.srv = IF posts[i].cid \in idem THEN "answered" ELSE "checked"
       \/ /\ posts[i].srv = "checked" /\ WriteMessage(i)
          /\ p.srv = "written" /\ p.row = Len(log) + 1
       \/ posts[i].srv = "written" /\ p.srv = "answered" /\ StoreKeyAndPublish(i)

PostAdded ==
    \E cid \in Own :
      /\ posts' = Append(posts, NewPost(cid))
      /\ (Send /\ cid = Written + 1) \/ Retry(cid)

\* A step leaves the POSTs, adds one, or takes one further.
LEMMA PostsStep ==
    ASSUME Types, Step
    PROVE  \/ UNCHANGED posts
           \/ PostAdded
           \/ \E i \in DOMAIN posts : \E p \in Posts : PostMoved(i, p)
<1>1. \A i \in DOMAIN posts : posts[i] \in Posts
  BY Shapes
<1>2. ASSUME NEW i \in DOMAIN posts, NEW st \in Ends
      PROVE  LET p == [posts[i] EXCEPT !.srv = st]
             IN  p \in Posts /\ p.cid = posts[i].cid /\ p.srv = st /\ p.row = posts[i].row
  <2>1. posts[i] \in Posts
    BY <1>1
  <2> QED
    BY <2>1 DEF Posts
<1>3. CASE Send
  <2>1. Written + 1 \in Own
    BY <1>3, SendLists
  <2>2. posts' = Append(posts, NewPost(Written + 1))
    BY <1>3 DEF Send
  <2> QED
    BY <1>3, <2>1, <2>2 DEF PostAdded
<1>4. CASE \E cid \in Own : Retry(cid)
  <2>1. PICK cid \in Own : Retry(cid)
    BY <1>4
  <2>2. posts' = Append(posts, NewPost(cid))
    BY <2>1 DEF Retry
  <2> QED
    BY <2>1, <2>2 DEF PostAdded
<1>5. CASE \E i \in DOMAIN posts : PostRefused(i)
  <2>1. PICK i \in DOMAIN posts : PostRefused(i)
    BY <1>5
  <2> DEFINE p == [posts[i] EXCEPT !.srv = "refused"]
  <2>2. posts' = [posts EXCEPT ![i] = p]
    BY <2>1 DEF PostRefused, Answer
  <2>3. p \in Posts /\ p.cid = posts[i].cid /\ p.srv = "refused"
    BY <1>2 DEF Ends
  <2> HIDE DEF p
  <2> QED
    BY <2>2, <2>3 DEF PostMoved
<1>6. CASE \E i \in DOMAIN posts : CheckKey(i)
  <2>1. PICK i \in DOMAIN posts : CheckKey(i)
    BY <1>6
  <2> DEFINE st == IF posts[i].cid \in idem THEN "answered" ELSE "checked"
             p == [posts[i] EXCEPT !.srv = st]
  <2>2. posts' = [posts EXCEPT ![i] = p] /\ posts[i].srv = "arriving"
    BY <2>1 DEF CheckKey, Answer
  <2>3. st \in Ends
    BY DEF Ends
  <2> HIDE DEF st
  <2>4. p \in Posts /\ p.cid = posts[i].cid /\ p.srv = st
    BY <1>2, <2>3
  <2> HIDE DEF p
  <2> QED
    BY <2>2, <2>4 DEF PostMoved, st
<1>7. CASE \E i \in DOMAIN posts : WriteMessage(i)
  <2>1. PICK i \in DOMAIN posts : WriteMessage(i)
    BY <1>7
  <2> DEFINE p == [cid |-> posts[i].cid, srv |-> "written", cli |-> posts[i].cli,
                   row |-> Len(log) + 1]
  <2>2. posts[i] \in Posts /\ Len(log) + 1 \in Nat
    BY <1>1, Shapes
  <2>3. p \in Posts /\ p.cid = posts[i].cid /\ p.srv = "written" /\ p.row = Len(log) + 1
    BY <2>2 DEF Posts, Ends
  <2>4. posts' = [posts EXCEPT ![i].srv = "written", ![i].row = Len(log) + 1]
        /\ posts[i].srv = "checked"
    BY <2>1 DEF WriteMessage
  <2>5. posts' = [posts EXCEPT ![i] = p]
    <3> DEFINE b == posts[i]
               c == [[b EXCEPT !.srv = "written"] EXCEPT !.row = Len(log) + 1]
    <3>1. posts' = [posts EXCEPT ![i] = c]
      BY <2>4
    <3>2. DOMAIN b = {"cid", "srv", "cli", "row"}
      BY <2>2 DEF Posts
    <3>3. b = [f \in {"cid", "srv", "cli", "row"} |-> b[f]]
      BY <2>2, <3>2 DEF Posts
    <3>4. c = [f \in {"cid", "srv", "cli", "row"} |->
                 IF f = "row" THEN Len(log) + 1 ELSE IF f = "srv" THEN "written" ELSE b[f]]
      BY <3>3
    <3>5. c = p
      BY <3>4
    <3> QED
      BY <3>1, <3>5
  <2> HIDE DEF p
  <2> QED
    BY <2>1, <2>3, <2>4, <2>5 DEF PostMoved
<1>8. CASE \E i \in DOMAIN posts : StoreKeyAndPublish(i)
  <2>1. PICK i \in DOMAIN posts : StoreKeyAndPublish(i)
    BY <1>8
  <2> DEFINE p == [posts[i] EXCEPT !.srv = "answered"]
  <2>2. posts' = [posts EXCEPT ![i] = p] /\ posts[i].srv = "written"
    BY <2>1 DEF StoreKeyAndPublish, Answer
  <2>3. p \in Posts /\ p.cid = posts[i].cid /\ p.srv = "answered"
    BY <1>2 DEF Ends
  <2> HIDE DEF p
  <2> QED
    BY <2>1, <2>2, <2>3 DEF PostMoved
<1>9. ASSUME NEW i \in DOMAIN posts, posts' = [posts EXCEPT ![i].cli = "over"]
      PROVE  \E p \in Posts : PostMoved(i, p)
  <2> DEFINE p == [posts[i] EXCEPT !.cli = "over"]
  <2>1. posts[i] \in Posts
    BY <1>1
  <2>2. p \in Posts /\ p.cid = posts[i].cid /\ p.srv = posts[i].srv /\ p.row = posts[i].row
    BY <2>1 DEF Posts
  <2>3. posts' = [posts EXCEPT ![i] = p]
    BY <1>9
  <2> HIDE DEF p
  <2> QED
    BY <2>2, <2>3 DEF PostMoved
<1>10. CASE \E i \in DOMAIN posts : PostSucceeds(i)
  BY <1>9, <1>10 DEF PostSucceeds
<1>11. CASE \E i \in DOMAIN posts : PostFails(i)
  BY <1>9, <1>11 DEF PostFails
<1> QED
  BY <1>3, <1>4, <1>5, <1>6, <1>7, <1>8, <1>10, <1>11, Frames DEF PostSteps

\* A POST added.
LEMMA PostsAdded ==
    ASSUME Types, NEW cid \in Own, posts' = Append(posts, NewPost(cid))
    PROVE  /\ posts' \in Seq(Posts)
           /\ Len(posts') = Len(posts) + 1 /\ DOMAIN posts' = 1..(Len(posts) + 1)
           /\ \A i \in DOMAIN posts : posts'[i] = posts[i]
           /\ posts'[Len(posts) + 1].cid = cid /\ posts'[Len(posts) + 1].srv = "arriving"
<1>1. posts \in Seq(Posts)
  BY DEF Types, NetTypes
<1>2. NewPost(cid) \in Posts /\ NewPost(cid).cid = cid /\ NewPost(cid).srv = "arriving"
  BY DEF NewPost, Posts, Ends
<1>3. /\ posts' \in Seq(Posts) /\ Len(posts') = Len(posts) + 1
      /\ \A i \in 1..Len(posts) : posts'[i] = posts[i]
      /\ posts'[Len(posts) + 1] = NewPost(cid)
  BY <1>1, <1>2, AppendProperties
<1>4. DOMAIN posts' = 1..(Len(posts) + 1)
  BY <1>3, LenProperties
<1> QED
  BY <1>2, <1>3, <1>4, Shapes

\* POSTs stay, with their client_ids.
LEMMA PostsGrow ==
    ASSUME Types, Step
    PROVE  /\ posts' \in Seq(Posts) /\ Len(posts') \in Nat /\ DOMAIN posts' = 1..Len(posts')
           /\ Len(posts) <= Len(posts') /\ DOMAIN posts \subseteq DOMAIN posts'
           /\ \A i \in DOMAIN posts : posts'[i].cid = posts[i].cid
           /\ \A i \in DOMAIN posts' : i \notin DOMAIN posts =>
                posts'[i].srv = "arriving" /\ PostAdded /\ i = Len(posts) + 1
<1>1. posts \in Seq(Posts) /\ Len(posts) \in Nat /\ DOMAIN posts = 1..Len(posts)
  BY Shapes DEF Types, NetTypes
<1>2. CASE UNCHANGED posts
  BY <1>1, <1>2
<1>3. CASE PostAdded
  <2>1. PICK cid \in Own : posts' = Append(posts, NewPost(cid))
    BY <1>3 DEF PostAdded
  <2>2. /\ posts' \in Seq(Posts)
        /\ Len(posts') = Len(posts) + 1 /\ DOMAIN posts' = 1..(Len(posts) + 1)
        /\ \A i \in DOMAIN posts : posts'[i] = posts[i]
        /\ posts'[Len(posts) + 1].srv = "arriving"
    BY <2>1, PostsAdded
  <2> QED
    BY <1>1, <1>3, <2>2
<1>4. CASE \E i \in DOMAIN posts : \E p \in Posts : PostMoved(i, p)
  <2>1. PICK i \in DOMAIN posts, p \in Posts : PostMoved(i, p)
    BY <1>4
  <2>2. posts' = [posts EXCEPT ![i] = p] /\ p.cid = posts[i].cid
    BY <2>1 DEF PostMoved
  <2>3. posts' \in Seq(Posts) /\ Len(posts') = Len(posts)
    BY <1>1, <2>2, ExceptSeq
  <2>4. DOMAIN posts' = DOMAIN posts /\ \A j \in DOMAIN posts : posts'[j].cid = posts[j].cid
    BY <2>2
  <2> QED
    BY <1>1, <2>3, <2>4
<1> QED
  BY <1>2, <1>3, <1>4, PostsStep

\* Loads, and what they have read.
LEMMA LoadsStep ==
    ASSUME Types, Step
    PROVE  /\ loads' \in Seq(Loads)
           /\ \A n \in DOMAIN loads' :
                \/ loads'[n].rows = <<>>
                \/ n \in DOMAIN loads /\ loads'[n].rows = loads[n].rows
                \/ loads'[n].rows = Rows
<1>1. loads \in Seq(Loads) /\ Len(loads) \in Nat /\ DOMAIN loads = 1..Len(loads)
  BY Shapes DEF Types, NetTypes
<1> DEFINE Fine == /\ loads' \in Seq(Loads)
                   /\ \A n \in DOMAIN loads' :
                        \/ loads'[n].rows = <<>>
                        \/ n \in DOMAIN loads /\ loads'[n].rows = loads[n].rows
                        \/ loads'[n].rows = Rows
<1>2. CASE UNCHANGED loads
  BY <1>1, <1>2
<1>3. ASSUME loads' = NewLoad
      PROVE  Fine
  <2> DEFINE l == [st |-> "asked", rows |-> <<>>]
  <2>1. l \in Loads /\ l.rows = <<>>
    BY EmptySeq DEF Loads
  <2>2. loads' = Append(loads, l)
    BY <1>3 DEF NewLoad
  <2> HIDE DEF l
  <2>3. /\ loads' \in Seq(Loads) /\ Len(loads') = Len(loads) + 1
        /\ \A n \in 1..Len(loads) : loads'[n] = loads[n]
        /\ loads'[Len(loads) + 1] = l
    BY <1>1, <2>1, <2>2, AppendProperties
  <2>4. DOMAIN loads' = 1..(Len(loads) + 1)
    BY <2>3, LenProperties
  <2>5. \A n \in DOMAIN loads' : n \in DOMAIN loads \/ n = Len(loads) + 1
    BY <1>1, <2>4
  <2> QED
    BY <1>1, <2>1, <2>3, <2>5
<1>4. ASSUME NEW n \in DOMAIN loads, NEW l \in Loads, loads' = [loads EXCEPT ![n] = l],
             l.rows = <<>> \/ l.rows = Rows
      PROVE  Fine
  <2>1. loads' \in Seq(Loads) /\ DOMAIN loads' = DOMAIN loads
    BY <1>1, <1>4, ExceptSeq
  <2>2. \A m \in DOMAIN loads : loads'[m] = IF m = n THEN l ELSE loads[m]
    BY <1>4
  <2> QED
    BY <1>4, <2>1, <2>2
<1>5. [st |-> "over", rows |-> <<>>] \in Loads /\ [st |-> "over", rows |-> <<>>].rows = <<>>
  BY EmptySeq DEF Loads
<1>6. [st |-> "read", rows |-> Rows] \in Loads /\ [st |-> "read", rows |-> Rows].rows = Rows
  BY RowsRead DEF Loads
<1> HIDE DEF Fine
<1>7. CASE ensureHistory
  <2>1. loads' = NewLoad
    BY <1>7 DEF ensureHistory, AskHistory
  <2> QED
    BY <1>3, <2>1 DEF Fine
<1>8. CASE Enter
  <2>1. loads' = NewLoad \/ UNCHANGED loads
    BY <1>8 DEF Enter, AskHistory
  <2> QED
    BY <1>2, <1>3, <2>1 DEF Fine
<1>9. CASE \E n \in DOMAIN loads : HistoryRead(n)
  <2>1. PICK n \in DOMAIN loads : loads' = [loads EXCEPT ![n] = [st |-> "read", rows |-> Rows]]
    BY <1>9 DEF HistoryRead
  <2> QED
    BY <1>4, <1>6, <2>1 DEF Fine
<1>10. CASE \E n \in DOMAIN loads : HistoryAnswered(n) \/ HistoryFails(n)
  <2>1. PICK n \in DOMAIN loads : loads' = [loads EXCEPT ![n] = [st |-> "over", rows |-> <<>>]]
    BY <1>10 DEF HistoryAnswered, HistoryFails
  <2> QED
    BY <1>4, <1>5, <2>1 DEF Fine
<1> QED
  BY <1>2, <1>7, <1>8, <1>9, <1>10, Frames DEF LoadSteps

\* A file goes with one message.
LEMMA ComposerKept ==
    ASSUME Types, FilesOnce, Step
    PROVE  ComposerTypes' /\ FilesOnce'
<1> DEFINE Ups == {"absent", "uploading", "done", "error"}
<1>1. /\ uploads \in [File -> Ups] /\ filesOf \in [Own -> SUBSET File]
      /\ awaiting \in 0..Len(posts)
      /\ awaiting = 0 => \A c \in Own : \A f \in filesOf[c] : uploads[f] = "absent"
      /\ \A c, d \in Own : c # d => filesOf[c] \cap filesOf[d] = {}
  BY DEF Types, ComposerTypes, FilesOnce
<1>2. Len(posts) \in Nat /\ Len(posts') \in Nat /\ Len(posts) <= Len(posts')
  BY Shapes, PostsGrow
<1>3. ASSUME uploads' \in [File -> Ups], UNCHANGED filesOf,
             awaiting' = 0 \/ UNCHANGED awaiting,
             awaiting' = 0 => \A c \in Own : \A f \in filesOf[c] : uploads'[f] = "absent"
      PROVE  ComposerTypes' /\ FilesOnce'
  <2>1. awaiting' \in 0..Len(posts')
    BY <1>1, <1>2, <1>3
  <2> QED
    BY <1>1, <1>3, <2>1 DEF ComposerTypes, FilesOnce
<1>4. CASE UNCHANGED composerVars
  BY <1>1, <1>3, <1>4 DEF composerVars
<1>5. ASSUME clearAll
      PROVE  uploads' \in [File -> Ups] /\ \A f \in File : uploads'[f] = "absent"
  BY <1>5 DEF clearAll
<1>6. \A c \in Own : filesOf[c] \subseteq File
  BY <1>1
<1>7. CASE \E f \in File : AddFile(f)
  <2>1. PICK f \in File : AddFile(f)
    BY <1>7
  <2>2. /\ uploads' = [uploads EXCEPT ![f] = "uploading"] /\ UNCHANGED <<awaiting, filesOf>>
        /\ \A c \in Own : f \notin filesOf[c]
    BY <2>1 DEF AddFile
  <2>3. uploads' \in [File -> Ups] /\ \A g \in File : g # f => uploads'[g] = uploads[g]
    BY <1>1, <2>2
  <2>4. awaiting' = 0 => \A c \in Own : \A g \in filesOf[c] : uploads'[g] = "absent"
    BY <1>1, <1>6, <2>2, <2>3
  <2> QED
    BY <1>3, <2>2, <2>3, <2>4
<1>8. CASE \E f \in File : \E st \in {"done", "error"} : UploadEnds(f, st)
  <2>1. PICK f \in File, st \in {"done", "error"} : UploadEnds(f, st)
    BY <1>8
  <2>2. /\ uploads' = [uploads EXCEPT ![f] = st] /\ UNCHANGED <<awaiting, filesOf>>
        /\ uploads[f] # "absent"
    BY <2>1 DEF UploadEnds
  <2>3. uploads' \in [File -> Ups] /\ \A g \in File : g # f => uploads'[g] = uploads[g]
    BY <1>1, <2>2
  <2>4. awaiting' = 0 => \A c \in Own : \A g \in filesOf[c] : uploads'[g] = "absent"
    BY <1>1, <1>6, <2>2, <2>3
  <2> QED
    BY <1>3, <2>2, <2>3, <2>4
<1>9. CASE \E f \in File : AbortUpload(f)
  <2>1. PICK f \in File : AbortUpload(f)
    BY <1>9
  <2>2. uploads' = [uploads EXCEPT ![f] = "absent"] /\ UNCHANGED <<awaiting, filesOf>>
    BY <2>1 DEF AbortUpload
  <2>3. /\ uploads' \in [File -> Ups] /\ uploads'[f] = "absent"
        /\ \A g \in File : g # f => uploads'[g] = uploads[g]
    BY <1>1, <2>2
  <2>4. awaiting' = 0 => \A c \in Own : \A g \in filesOf[c] : uploads'[g] = "absent"
    BY <1>1, <1>6, <2>2, <2>3
  <2> QED
    BY <1>3, <2>2, <2>3, <2>4
<1>10. CASE Send
  <2> DEFINE cid == Written + 1
  <2>1. cid \in Own
    BY <1>10, SendLists
  <2>2. /\ awaiting = 0 /\ awaiting' = Len(posts) + 1 /\ UNCHANGED uploads
        /\ filesOf' = [filesOf EXCEPT ![cid] = readyAttachments]
    BY <1>10 DEF Send, MaySend
  <2>3. Len(posts') = Len(posts) + 1
    <3>1. posts' = Append(posts, NewPost(cid))
      BY <1>10 DEF Send
    <3> QED
      BY <2>1, <3>1, PostsAdded
  <2> HIDE DEF cid
  <2>4. readyAttachments \subseteq File
        /\ \A c \in Own : readyAttachments \cap filesOf[c] = {}
    BY <1>1, <2>2 DEF readyAttachments
  <2>5. filesOf' \in [Own -> SUBSET File] /\ awaiting' \in 0..Len(posts') /\ awaiting' # 0
    BY <1>1, <1>2, <2>1, <2>2, <2>3, <2>4
  <2>6. \A c \in Own : filesOf'[c] = IF c = cid THEN readyAttachments ELSE filesOf[c]
    BY <1>1, <2>2
  <2>7. \A c, d \in Own : c # d => filesOf'[c] \cap filesOf'[d] = {}
    <3> SUFFICES ASSUME NEW c \in Own, NEW d \in Own, c # d
                 PROVE  filesOf'[c] \cap filesOf'[d] = {}
      OBVIOUS
    <3>1. CASE c = cid
      <4>1. filesOf'[c] = readyAttachments /\ filesOf'[d] = filesOf[d]
        BY <2>6, <3>1
      <4> QED
        BY <2>4, <4>1
    <3>2. CASE d = cid
      <4>1. filesOf'[d] = readyAttachments /\ filesOf'[c] = filesOf[c]
        BY <2>6, <3>2
      <4> QED
        BY <2>4, <4>1
    <3>3. CASE c # cid /\ d # cid
      <4>1. filesOf'[d] = filesOf[d] /\ filesOf'[c] = filesOf[c]
        BY <2>6, <3>3
      <4> QED
        BY <1>1, <4>1
    <3> QED
      BY <3>1, <3>2, <3>3
  <2> QED
    BY <1>1, <2>2, <2>5, <2>7 DEF ComposerTypes, FilesOnce
<1>11. ASSUME NEW i, ComposerReleased(i), UNCHANGED filesOf
       PROVE  ComposerTypes' /\ FilesOnce'
  <2>1. CASE awaiting = i
    BY <1>3, <1>5, <1>6, <1>11, <2>1 DEF ComposerReleased
  <2>2. CASE awaiting # i
    BY <1>1, <1>3, <1>11, <2>2 DEF ComposerReleased
  <2> QED
    BY <2>1, <2>2
<1>12. CASE \E i \in DOMAIN posts : PostSucceeds(i)
  BY <1>11, <1>12 DEF PostSucceeds
<1>13. CASE \E i \in DOMAIN posts : PostFails(i)
  BY <1>11, <1>13 DEF PostFails
<1>14. CASE Unmount
  <2>1. clearAll /\ awaiting' = 0 /\ UNCHANGED filesOf
    BY <1>14 DEF Unmount
  <2> QED
    BY <1>3, <1>5, <1>6, <2>1
<1> QED
  BY <1>4, <1>7, <1>8, <1>9, <1>10, <1>12, <1>13, <1>14, Frames DEF ComposerSteps

-----------------------------------------------------------------------------
(* What of the list is new, and what of the rows.                          *)

\* An event is delivered: of which row, and of which kind.
LEMMA Delivered ==
    ASSUME Types, Deliver
    PROVE  \E e \in Events :
             /\ delivered + 1 \in DOMAIN events /\ e = events[delivered + 1]
             /\ e.row \in DOMAIN log /\ delivered' = delivered + 1
             /\ \/ e.kind = "new" /\ messageNew(e.row)
                \/ e.kind # "new" /\ messageChanged(e)
<1>1. delivered < Len(events) /\ delivered \in 0..Len(events) /\ delivered' = delivered + 1
  BY DEF Deliver, Types, LinkTypes
<1>2. delivered + 1 \in DOMAIN events
  BY <1>1, Shapes
<1>3. events[delivered + 1] \in Events
  BY <1>2, Shapes
<1>4. IF events[delivered + 1].kind = "new" THEN messageNew(events[delivered + 1].row)
      ELSE messageChanged(events[delivered + 1])
  BY DEF Deliver
<1> DEFINE e == events[delivered + 1]
<1>5. e.row \in DOMAIN log
  BY <1>3 DEF Events
<1>6. \/ e.kind = "new" /\ messageNew(e.row)
      \/ e.kind # "new" /\ messageChanged(e)
  BY <1>4
<1>7. e = events[delivered + 1]
  OBVIOUS
<1> HIDE DEF e
<1> QED
  BY <1>1, <1>2, <1>3, <1>5, <1>6, <1>7

\* What comes clean, and is kept so.
LEMMA CleanStep ==
    ASSUME Types, Step
    PROVE  \A row \in clean' :
             \/ row \in clean
             \/ /\ Deliver /\ row \in DOMAIN log /\ delivered + 1 \in DOMAIN events
                /\ events[delivered + 1].kind = "new" /\ events[delivered + 1].row = row
<1>1. CASE UNCHANGED <<list, payload, clean>>
  BY <1>1
<1>2. CASE Send
  BY <1>2 DEF Send
<1>3. CASE \E i \in DOMAIN posts : PostFails(i)
  BY <1>3 DEF PostFails
<1>4. CASE \E cid \in Own : Retry(cid)
  BY <1>4 DEF Retry
<1>5. CASE \E cid \in Own : Cancel(cid)
  BY <1>5 DEF Cancel
<1>6. CASE \E n \in DOMAIN loads : HistoryAnswered(n)
  BY <1>6 DEF HistoryAnswered
<1>7. CASE NewToken
  BY <1>7 DEF NewToken
<1>8. CASE Deliver
  <2>1. PICK e \in Events :
             /\ delivered + 1 \in DOMAIN events /\ e = events[delivered + 1]
             /\ e.row \in DOMAIN log /\ delivered' = delivered + 1
             /\ \/ e.kind = "new" /\ messageNew(e.row)
                \/ e.kind # "new" /\ messageChanged(e)
    BY <1>8, Delivered
  <2>2. CASE e.kind = "new" /\ messageNew(e.row)
    <3>1. clean' = clean \cup {e.row} \/ clean' = clean
      BY <2>2 DEF messageNew
    <3> QED
      BY <1>8, <2>1, <2>2, <3>1
  <2>3. CASE e.kind # "new" /\ messageChanged(e)
    <3>1. clean' \subseteq clean
      BY <2>3 DEF messageChanged
    <3> QED
      BY <3>1
  <2> QED
    BY <2>1, <2>2, <2>3
<1> QED
  BY <1>1, <1>2, <1>3, <1>4, <1>5, <1>6, <1>7, <1>8, Frames DEF ListSteps

\* The list and what goes with it.
LEMMA ListTyped ==
    ASSUME Types, Step
    PROVE  ListTypes'
<1>1. payload \subseteq Own /\ clean \subseteq DOMAIN log /\ (list = None \/ list \in Seq(Entries))
  BY DEF Types, ListTypes
<1>2. clean' \subseteq DOMAIN log'
  BY <1>1, CleanStep, LogGrows
<1>3. payload' \subseteq Own
  <2>1. CASE Send
    <3>1. Written + 1 \in Own /\ payload' = payload \cup {Written + 1}
      BY <2>1, SendLists DEF Send
    <3> QED
      BY <1>1, <3>1
  <2>2. CASE Deliver
    <3>1. PICK e : messageNew(e.row) \/ messageChanged(e)
      BY <2>2, Delivered
    <3> QED
      BY <1>1, <3>1 DEF messageNew, messageChanged
  <2>3. CASE \E i \in DOMAIN posts : PostFails(i)
    BY <1>1, <2>3 DEF PostFails
  <2>4. CASE \E cid \in Own : Retry(cid)
    BY <1>1, <2>4 DEF Retry, KeepPayload
  <2>5. CASE \E cid \in Own : Cancel(cid)
    BY <1>1, <2>5 DEF Cancel
  <2>6. CASE \E n \in DOMAIN loads : HistoryAnswered(n)
    BY <1>1, <2>6 DEF HistoryAnswered
  <2>7. CASE NewToken
    BY <2>7 DEF NewToken
  <2>8. CASE UNCHANGED <<list, payload, clean>>
    BY <1>1, <2>8
  <2> QED
    BY <2>1, <2>2, <2>3, <2>4, <2>5, <2>6, <2>7, <2>8, Frames DEF ListSteps
<1>4. list' = None \/ list' \in Seq(Entries)
  <2>0. ASSUME NEW P, Carries(P) PROVE list' \in Seq(Entries)
    BY <2>0 DEF Carries
  <2>1. CASE Send
    BY <2>1, SendLists
  <2>2. CASE Deliver
    <3>1. PICK e \in Events :
             /\ e.row \in DOMAIN log
             /\ \/ e.kind = "new" /\ messageNew(e.row)
                \/ e.kind # "new" /\ messageChanged(e)
      BY <2>2, Delivered
    <3>2. CASE e.kind = "new" /\ messageNew(e.row)
      <4>1. list' = Received(e.row)
        BY <3>2 DEF messageNew
      <4>2. CASE list = None
        BY <4>1, <4>2 DEF Received
      <4>3. CASE list # None
        BY <3>1, <4>1, <4>3, ReceivedLists
      <4> QED
        BY <4>2, <4>3
    <3>3. CASE e.kind # "new" /\ messageChanged(e)
      BY <2>0, <3>3, ChangedLists
    <3> QED
      BY <3>1, <3>2, <3>3
  <2>3. CASE \E i \in DOMAIN posts : PostFails(i)
    BY <2>0, <2>3, PostFailsLists
  <2>4. CASE \E cid \in Own : Retry(cid)
    BY <2>0, <2>4, RetryLists
  <2>5. CASE \E cid \in Own : Cancel(cid)
    BY <2>0, <2>5, CancelLists
  <2>6. CASE \E n \in DOMAIN loads : HistoryAnswered(n)
    BY <2>6, HistoryLists
  <2>7. CASE NewToken
    BY <2>7 DEF NewToken
  <2>8. CASE UNCHANGED <<list, payload, clean>>
    BY <1>1, <2>8
  <2> QED
    BY <2>1, <2>2, <2>3, <2>4, <2>5, <2>6, <2>7, <2>8, Frames DEF ListSteps
<1> QED
  BY <1>2, <1>3, <1>4 DEF ListTypes

\* Every type.
LEMMA TypesKept ==
    ASSUME Types, LiveUnreadCounted, TypingEnds, FilesOnce, AnnouncedOnce, Next
    PROVE  Types'
<1>1. Step /\ UNCHANGED bound
  BY DEF Next
<1>2. ServerTypes' /\ LinkTypes'
  BY <1>1, ServerTyped, LinkTyped
<1>3. ReadTypes' /\ FlagTypes'
  BY <1>1, UnreadKept, FlagsKept
<1>4. ListTypes' /\ ComposerTypes' /\ LifeTypes'
  BY <1>1, ListTyped, ComposerKept, LivesTyped
<1>5. NetTypes'
  BY <1>1, PostsGrow, LoadsStep DEF NetTypes
<1> QED
  BY <1>2, <1>3, <1>4, <1>5 DEF Types

-----------------------------------------------------------------------------
(* client_ids.                                                             *)

\* What is posted counts what is written.
LEMMA WrittenCounts ==
    ASSUME NEW k \in 0..MaxOwn, \A c \in Own : Posted(c) <=> c <= k
    PROVE  Written = k
<1>1. MaxOwn \in Nat
  BY Constants
<1>2. {c \in Own : \E i \in DOMAIN posts : posts[i].cid = c} = 1..k
  <2>1. {c \in Own : \E i \in DOMAIN posts : posts[i].cid = c} = {c \in Own : c <= k}
    BY DEF Posted
  <2>2. {c \in Own : c <= k} = 1..k
    BY <1>1 DEF Own
  <2> QED
    BY <2>1, <2>2
<1>3. Cardinality(1..k) = k
  <2>1. Cardinality(1..k) = IF 1 > k THEN 0 ELSE k - 1 + 1
    BY FS_Interval
  <2> QED
    BY <2>1
<1> QED
  BY <1>2, <1>3 DEF Written

\* What was posted stays so; what is posted is a new message or a retry.
LEMMA PostedSteps ==
    ASSUME Types, CidsInOrder, Step
    PROVE  /\ \A c \in Own : Posted(c) => Posted(c)'
           /\ \/ \A c \in Own : Posted(c)' <=> Posted(c)
              \/ Send /\ \A c \in Own : Posted(c)' <=> Posted(c) \/ c = Written + 1
<1>1. /\ DOMAIN posts \subseteq DOMAIN posts'
      /\ \A i \in DOMAIN posts : posts'[i].cid = posts[i].cid
      /\ \A i \in DOMAIN posts' : i \notin DOMAIN posts => PostAdded /\ i = Len(posts) + 1
  BY PostsGrow
<1>2. \A c \in Own : Posted(c) => Posted(c)'
  BY <1>1 DEF Posted
<1>3. CASE ~PostAdded
  BY <1>1, <1>2, <1>3 DEF Posted
<1>4. CASE PostAdded
  <2>1. PICK cid \in Own : /\ posts' = Append(posts, NewPost(cid))
                           /\ (Send /\ cid = Written + 1) \/ Retry(cid)
    BY <1>4 DEF PostAdded
  <2>2. /\ DOMAIN posts' = 1..(Len(posts) + 1)
        /\ \A i \in DOMAIN posts : posts'[i] = posts[i]
        /\ posts'[Len(posts) + 1].cid = cid
    BY <2>1, PostsAdded
  <2>3. \A c \in Own : Posted(c)' <=> Posted(c) \/ c = cid
    <3>1. Len(posts) \in Nat /\ DOMAIN posts = 1..Len(posts)
      BY Shapes
    <3>2. Len(posts) + 1 \in DOMAIN posts'
      BY <2>2, <3>1
    <3>3. \A i \in DOMAIN posts' : i \in DOMAIN posts \/ i = Len(posts) + 1
      BY <2>2, <3>1
    <3>4. \A c \in Own : Posted(c)' => Posted(c) \/ c = cid
      BY <1>1, <2>2, <3>3 DEF Posted
    <3>5. Posted(cid)'
      BY <2>2, <3>2 DEF Posted
    <3> QED
      BY <1>2, <3>4, <3>5
  <2>4. CASE Send /\ cid = Written + 1
    BY <1>2, <2>3, <2>4
  <2>5. CASE Retry(cid)
    <3>1. Posted(cid)
      BY <2>5 DEF Retry, CidsInOrder
    <3> QED
      BY <1>2, <2>3, <3>1
  <2> QED
    BY <2>1, <2>4, <2>5
<1> QED
  BY <1>3, <1>4

\* A payload is kept of what is written, and of nothing else.
LEMMA PayloadStep ==
    ASSUME Types, Step
    PROVE  \A c \in payload' : c \in payload \/ (Send /\ c = Written + 1)
<1>1. CASE Send
  BY <1>1 DEF Send
<1>2. CASE Deliver
  <2>1. PICK e : messageNew(e.row) \/ messageChanged(e)
    BY <1>2, Delivered
  <2> QED
    BY <2>1 DEF messageNew, messageChanged
<1>3. CASE \E i \in DOMAIN posts : PostFails(i)
  BY <1>3 DEF PostFails
<1>4. CASE \E cid \in Own : Retry(cid)
  BY <1>4 DEF Retry, KeepPayload
<1>5. CASE \E cid \in Own : Cancel(cid)
  BY <1>5 DEF Cancel
<1>6. CASE \E n \in DOMAIN loads : HistoryAnswered(n)
  BY <1>6 DEF HistoryAnswered
<1>7. CASE NewToken
  BY <1>7 DEF NewToken
<1>8. CASE UNCHANGED <<list, payload, clean>>
  BY <1>8
<1> QED
  BY <1>1, <1>2, <1>3, <1>4, <1>5, <1>6, <1>7, <1>8, Frames DEF ListSteps

\* client_ids are given out in order.
LEMMA CidsKept ==
    ASSUME Types, CidsInOrder, Step
    PROVE  CidsInOrder'
<1>1. \A c \in Own : Posted(c) => Posted(c)'
  BY PostedSteps
<1>2. PICK k \in 0..MaxOwn : \A c \in Own : Posted(c) <=> c <= k
  BY DEF CidsInOrder
<1>3. Written = k
  BY <1>2, WrittenCounts
<1>4. Send => k + 1 \in Own /\ Posted(k + 1)'
  <2> SUFFICES ASSUME Send PROVE k + 1 \in Own /\ Posted(k + 1)'
    OBVIOUS
  <2>1. k + 1 \in Own /\ posts' = Append(posts, NewPost(k + 1))
    BY <1>3, SendLists DEF Send
  <2>2. DOMAIN posts' = 1..(Len(posts) + 1) /\ posts'[Len(posts) + 1].cid = k + 1
    BY <2>1, PostsAdded
  <2>3. Len(posts) + 1 \in DOMAIN posts'
    BY <2>2, Shapes
  <2> QED
    BY <2>1, <2>2, <2>3 DEF Posted
<1>5. \E n \in 0..MaxOwn : \A c \in Own : Posted(c)' <=> c <= n
  <2>1. CASE \A c \in Own : Posted(c)' <=> Posted(c)
    BY <1>2, <2>1
  <2>2. CASE Send /\ \A c \in Own : Posted(c)' <=> Posted(c) \/ c = Written + 1
    <3>1. k + 1 \in 0..MaxOwn
      BY <1>4, <2>2 DEF Own
    <3>2. \A c \in Own : Posted(c)' <=> c <= k \/ c = k + 1
      BY <1>2, <1>3, <2>2
    <3>3. \A c \in Own : Posted(c)' <=> c <= k + 1
      BY <3>2, Constants DEF Own
    <3> QED
      BY <3>1, <3>3
  <2> QED
    BY <2>1, <2>2, PostedSteps
<1>6. \A c \in payload' : Posted(c)'
  <2> TAKE c \in payload'
  <2>1. CASE c \in payload
    <3>1. c \in Own /\ Posted(c)
      BY <2>1 DEF Types, ListTypes, CidsInOrder
    <3> QED
      BY <1>1, <3>1
  <2>2. CASE Send /\ c = Written + 1
    BY <1>3, <1>4, <2>2
  <2> QED
    BY <2>1, <2>2, PayloadStep
<1>7. ASSUME NEW row \in DOMAIN log', OwnRow(row)'
      PROVE  Posted(log[row].cid)'
  <2>1. CASE row \in DOMAIN log
    <3>1. log'[row].cid = log[row].cid
      BY <2>1, LogGrows
    <3>2. OwnRow(row)
      BY <1>7, <3>1 DEF OwnRow
    <3>3. log[row].cid \in Own
      <4>1. log[row] \in LogRows
        BY <2>1, Shapes
      <4> QED
        BY <3>2, <4>1, Constants DEF LogRows, OwnRow, Own, Foreign
    <3>4. Posted(log[row].cid)
      BY <2>1, <3>2 DEF CidsInOrder
    <3>5. PICK i \in DOMAIN posts : posts[i].cid = log[row].cid
      BY <3>4 DEF Posted
    <3>6. i \in DOMAIN posts' /\ posts'[i].cid = log'[row].cid
      BY <3>1, <3>5, PostsGrow
    <3> QED
      BY <3>6 DEF Posted
  <2>2. CASE row \notin DOMAIN log
    <3>1. log'[row].cid # Foreign
      BY <1>7 DEF OwnRow
    <3>2. PICK i \in DOMAIN posts : log'[row].cid = posts[i].cid
      BY <2>2, <3>1, LogGrows
    <3>3. i \in DOMAIN posts' /\ posts'[i].cid = log'[row].cid
      BY <3>2, PostsGrow
    <3> QED
      BY <3>3 DEF Posted
  <2> QED
    BY <2>1, <2>2
<1> QED
  BY <1>5, <1>6, <1>7 DEF CidsInOrder

-----------------------------------------------------------------------------
(* A message is announced once.                                            *)

\* By the POST that wrote it, or with the peer's row.
LEMMA AnnouncedKept ==
    ASSUME Types, AnnouncedOnce, Step
    PROVE  AnnouncedOnce'
<1>1. /\ Len(log) \in Nat /\ DOMAIN log = 1..Len(log) /\ DOMAIN log \subseteq DOMAIN log'
      /\ Len(events) \in Nat /\ DOMAIN events = 1..Len(events)
      /\ \A n \in DOMAIN events : events[n].row \in DOMAIN log
  BY Shapes, LogGrows DEF Events
<1>2. Len(log) + 1 \notin DOMAIN log
  BY <1>1
<1>3. /\ DOMAIN events' = 1..Len(events') /\ Len(events') \in Nat
      /\ \A n \in DOMAIN events : n \in DOMAIN events' /\ events'[n] = events[n]
  BY EventsGrow
<1>4. ASSUME NEW e, events' = Append(events, e)
      PROVE  /\ Len(events) + 1 \in DOMAIN events' /\ events'[Len(events) + 1] = e
             /\ \A n \in DOMAIN events' : n \in DOMAIN events \/ n = Len(events) + 1
  <2> DEFINE S == Events \cup {e}
  <2>1. Len(events') = Len(events) + 1 /\ events'[Len(events) + 1] = e
    <3>1. events \in Seq(Events)
      BY DEF Types, ServerTypes
    <3>2. events \in Seq(S)
      <4>1. \A n \in 1..Len(events) : events[n] \in S
        BY <3>1, ElementOfSeq
      <4>2. PICK m \in Nat : m = Len(events)
        BY <1>1
      <4>3. events \in [1..m -> S]
        BY <3>1, <4>1, <4>2, LenProperties
      <4> HIDE DEF S
      <4> QED
        BY <4>3
    <3>3. e \in S
      OBVIOUS
    <3> HIDE DEF S
    <3> QED
      BY <1>4, <3>2, <3>3, AppendProperties
  <2> QED
    BY <1>1, <1>3, <2>1
<1>5. \A m, n \in DOMAIN events :
        events[m].kind = "new" /\ events[n].kind = "new" /\ events[m].row = events[n].row
          => m = n
  BY DEF AnnouncedOnce
<1>6. \A i \in DOMAIN posts : posts[i].srv = "written" =>
        /\ posts[i].row \in DOMAIN log
        /\ \A n \in DOMAIN events : events[n].kind = "new" => events[n].row # posts[i].row
        /\ \A j \in DOMAIN posts :
             posts[j].srv = "written" /\ posts[j].row = posts[i].row => j = i
  BY DEF AnnouncedOnce
<1>7. ASSUME NEW m \in DOMAIN events', NEW n \in DOMAIN events',
             events'[m].kind = "new", events'[n].kind = "new", events'[m].row = events'[n].row
      PROVE  m = n
  <2>1. CASE UNCHANGED events
    BY <1>5, <1>7, <2>1
  <2>2. CASE EventAdded
    <3>1. PICK e : /\ events' = Append(events, e)
                   /\ \/ e.kind # "new"
                      \/ e.row = Len(log) + 1
                      \/ \E i \in DOMAIN posts : StoreKeyAndPublish(i) /\ e.row = posts[i].row
      BY <2>2 DEF EventAdded
    <3>2. /\ Len(events) + 1 \in DOMAIN events' /\ events'[Len(events) + 1] = e
          /\ \A l \in DOMAIN events' : l \in DOMAIN events \/ l = Len(events) + 1
      BY <1>4, <3>1
    <3>3. e.kind = "new" =>
            \A l \in DOMAIN events : events[l].kind = "new" => events[l].row # e.row
      <4>1. CASE e.row = Len(log) + 1
        BY <1>1, <1>2, <4>1
      <4>2. CASE \E i \in DOMAIN posts : StoreKeyAndPublish(i) /\ e.row = posts[i].row
        BY <1>6, <4>2 DEF StoreKeyAndPublish
      <4> QED
        BY <3>1, <4>1, <4>2
    <3>4. CASE m \in DOMAIN events /\ n \in DOMAIN events
      BY <1>3, <1>5, <1>7, <3>4
    <3>5. CASE m \in DOMAIN events /\ n = Len(events) + 1
      BY <1>3, <1>7, <3>2, <3>3, <3>5
    <3>6. CASE n \in DOMAIN events /\ m = Len(events) + 1
      BY <1>3, <1>7, <3>2, <3>3, <3>6
    <3> QED
      BY <3>2, <3>4, <3>5, <3>6
  <2> QED
    BY <2>1, <2>2, EventsStep
<1>8. ASSUME NEW i \in DOMAIN posts', posts'[i].srv = "written"
      PROVE  \/ i \in DOMAIN posts /\ posts[i].srv = "written" /\ posts'[i].row = posts[i].row
             \/ i \in DOMAIN posts /\ WriteMessage(i) /\ posts'[i].row = Len(log) + 1
  <2>1. i \in DOMAIN posts
    BY <1>8, PostsGrow
  <2>2. CASE PostAdded
    <3>1. PICK cid \in Own : posts' = Append(posts, NewPost(cid))
      BY <2>2 DEF PostAdded
    <3>2. posts'[i] = posts[i]
      BY <2>1, <3>1, PostsAdded
    <3> QED
      BY <1>8, <2>1, <3>2
  <2>3. CASE \E j \in DOMAIN posts : \E p \in Posts : PostMoved(j, p)
    <3>1. PICK j \in DOMAIN posts, p \in Posts : PostMoved(j, p)
      BY <2>3
    <3>2. posts' = [posts EXCEPT ![j] = p]
      BY <3>1 DEF PostMoved
    <3>3. CASE i # j
      BY <1>8, <2>1, <3>2, <3>3
    <3>4. CASE i = j
      <4>1. posts'[i] = p
        BY <2>1, <3>2, <3>4
      <4>2. p.srv = "written"
        BY <1>8, <4>1
      <4>3. \/ p.srv = posts[i].srv /\ p.row = posts[i].row
            \/ WriteMessage(i) /\ p.row = Len(log) + 1
        BY <3>1, <3>4, <4>2 DEF PostMoved
      <4> QED
        BY <2>1, <4>1, <4>2, <4>3
    <3> QED
      BY <3>3, <3>4
  <2>4. CASE UNCHANGED posts
    BY <1>8, <2>1, <2>4
  <2> QED
    BY <2>2, <2>3, <2>4, PostsStep
<1>9. ASSUME NEW i \in DOMAIN posts, WriteMessage(i)
      PROVE  /\ UNCHANGED events /\ Len(log) + 1 \in DOMAIN log'
             /\ \A j \in DOMAIN posts' : j # i => posts'[j] = posts[j]
  <2>1. /\ UNCHANGED events /\ log' = Append(log, Row(posts[i].cid))
        /\ posts' = [posts EXCEPT ![i].srv = "written", ![i].row = Len(log) + 1]
    BY <1>9 DEF WriteMessage
  <2>2. log \in Seq(LogRows) /\ Row(posts[i].cid) \in LogRows
    <3>1. posts[i].cid \in 0..MaxOwn
      BY Shapes DEF Posts, Own
    <3> QED
      BY <3>1 DEF Types, ServerTypes, Row, LogRows
  <2>3. Len(log') = Len(log) + 1 /\ log' \in Seq(LogRows)
    BY <2>1, <2>2, AppendProperties
  <2>4. Len(log) + 1 \in DOMAIN log'
    BY <1>1, <2>3, LenProperties
  <2> QED
    BY <2>1, <2>4
<1>10. ASSUME NEW i \in DOMAIN posts', posts'[i].srv = "written"
       PROVE  posts'[i].row \in DOMAIN log'
  BY <1>1, <1>6, <1>8, <1>9, <1>10
<1>11. ASSUME NEW i \in DOMAIN posts', posts'[i].srv = "written",
              NEW n \in DOMAIN events', events'[n].kind = "new"
       PROVE  events'[n].row # posts'[i].row
  <2>1. CASE i \in DOMAIN posts /\ WriteMessage(i) /\ posts'[i].row = Len(log) + 1
    BY <1>1, <1>2, <1>9, <2>1
  <2>2. CASE i \in DOMAIN posts /\ posts[i].srv = "written" /\ posts'[i].row = posts[i].row
    <3>1. CASE UNCHANGED events
      BY <1>6, <1>11, <2>2, <3>1
    <3>2. CASE EventAdded
      <4>1. PICK e : /\ events' = Append(events, e)
                     /\ \/ e.kind # "new"
                        \/ e.row = Len(log) + 1
                        \/ \E j \in DOMAIN posts : StoreKeyAndPublish(j) /\ e.row = posts[j].row
        BY <3>2 DEF EventAdded
      <4>2. /\ events'[Len(events) + 1] = e
            /\ n \in DOMAIN events \/ n = Len(events) + 1
        BY <1>4, <4>1
      <4>3. CASE n \in DOMAIN events
        BY <1>3, <1>6, <1>11, <2>2, <4>3
      <4>4. CASE n = Len(events) + 1
        <5>1. e.kind = "new" /\ events'[n].row = e.row
          BY <1>11, <4>2, <4>4
        <5>2. CASE e.row = Len(log) + 1
          BY <1>2, <1>6, <2>2, <5>1, <5>2
        <5>3. CASE \E j \in DOMAIN posts : StoreKeyAndPublish(j) /\ e.row = posts[j].row
          <6>1. PICK j \in DOMAIN posts : StoreKeyAndPublish(j) /\ e.row = posts[j].row
            BY <5>3
          <6>2. posts[j].srv = "written" /\ posts' = [posts EXCEPT ![j].srv = "answered"]
            BY <6>1 DEF StoreKeyAndPublish, Answer
          <6>3. posts'[j].srv = "answered"
            <7>1. posts[j] \in Posts
              BY Shapes
            <7>2. posts'[j] = [posts[j] EXCEPT !.srv = "answered"]
              BY <6>2
            <7> QED
              BY <7>1, <7>2 DEF Posts
          <6>4. j # i
            BY <1>11, <6>3
          <6> QED
            BY <1>6, <2>2, <5>1, <6>1, <6>2, <6>4
        <5> QED
          BY <4>1, <5>1, <5>2, <5>3
      <4> QED
        BY <4>2, <4>3, <4>4
    <3> QED
      BY <3>1, <3>2, EventsStep
  <2> QED
    BY <1>8, <1>11, <2>1, <2>2
<1>12. ASSUME NEW i \in DOMAIN posts', posts'[i].srv = "written",
              NEW j \in DOMAIN posts', posts'[j].srv = "written", posts'[j].row = posts'[i].row
       PROVE  j = i
  <2> SUFFICES ASSUME j # i PROVE FALSE
    OBVIOUS
  <2>1. \/ i \in DOMAIN posts /\ posts[i].srv = "written" /\ posts'[i].row = posts[i].row
        \/ i \in DOMAIN posts /\ WriteMessage(i) /\ posts'[i].row = Len(log) + 1
    BY <1>8, <1>12
  <2>2. \/ j \in DOMAIN posts /\ posts[j].srv = "written" /\ posts'[j].row = posts[j].row
        \/ j \in DOMAIN posts /\ WriteMessage(j) /\ posts'[j].row = Len(log) + 1
    BY <1>8, <1>12
  <2>3. CASE i \in DOMAIN posts /\ WriteMessage(i) /\ posts'[i].row = Len(log) + 1
    <3>1. posts'[j] = posts[j] /\ posts[j].srv = "written" /\ j \in DOMAIN posts
      BY <1>9, <1>12, <2>2, <2>3
    <3> QED
      BY <1>2, <1>6, <1>12, <2>3, <3>1
  <2>4. CASE j \in DOMAIN posts /\ WriteMessage(j) /\ posts'[j].row = Len(log) + 1
    <3>1. posts'[i] = posts[i] /\ posts[i].srv = "written" /\ i \in DOMAIN posts
      BY <1>9, <1>12, <2>1, <2>4
    <3> QED
      BY <1>2, <1>6, <1>12, <2>4, <3>1
  <2>5. CASE /\ i \in DOMAIN posts /\ posts[i].srv = "written" /\ posts'[i].row = posts[i].row
             /\ j \in DOMAIN posts /\ posts[j].srv = "written" /\ posts'[j].row = posts[j].row
    BY <1>6, <1>12, <2>5
  <2> QED
    BY <2>1, <2>2, <2>3, <2>4, <2>5
<1>13. ASSUME NEW row \in clean'
       PROVE  \E n \in 1..delivered' : events'[n].kind = "new" /\ events'[n].row = row
  <2>0. delivered \in 0..Len(events) /\ delivered' \in Nat /\ delivered <= delivered'
    BY LinkTyped DEF Types, LinkTypes
  <2>1. CASE row \in clean
    <3>1. PICK n \in 1..delivered : events[n].kind = "new" /\ events[n].row = row
      BY <2>1 DEF AnnouncedOnce
    <3>2. n \in DOMAIN events /\ n \in 1..delivered'
      BY <1>1, <2>0
    <3> QED
      BY <1>3, <3>1, <3>2
  <2>2. CASE /\ Deliver /\ delivered + 1 \in DOMAIN events
             /\ events[delivered + 1].kind = "new" /\ events[delivered + 1].row = row
    <3>1. delivered + 1 \in 1..delivered'
      BY <2>0, <2>2 DEF Deliver
    <3> QED
      BY <1>3, <2>2, <3>1
  <2> QED
    BY <2>1, <2>2, CleanStep
<1> QED
  BY <1>7, <1>10, <1>11, <1>12, <1>13 DEF AnnouncedOnce

-----------------------------------------------------------------------------
(* What is shown fits the log.                                             *)

\* Fits, Logged and the list's part of EntriesFit after a step.
FitsNext(e) ==
    \A row \in Nat : e.id = IdOf(row) => row \in DOMAIN log' /\ e.cid = log'[row].cid
LoggedNext(cid) == \E row \in DOMAIN log' : log'[row].cid = cid
KeptNext(cid) == cid \in payload' \/ LoggedNext(cid)
ListFitsNext ==
    list' # None => \A n \in DOMAIN list' : FitsNext(list'[n]) /\ KeptNext(list'[n].cid)

\* The log only grows: what fitted fits, under the same ids.
LEMMA FitStays ==
    ASSUME Types, Step, NEW e, Fits(e), NEW f, f.id = e.id, f.cid = e.cid
    PROVE  FitsNext(f)
BY LogGrows DEF Fits, FitsNext

\* And what was logged stays so.
LEMMA LoggedStays ==
    ASSUME Types, Step, NEW cid, Logged(cid)
    PROVE  LoggedNext(cid)
BY LogGrows DEF Logged, LoggedNext

\* A list that carries entries over fits, if each is logged or to be sent again.
LEMMA CarriedFit ==
    ASSUME Types, EntriesFit, Step, NEW P, Carries(P),
           \A n \in P : KeptNext(list[n].cid)
    PROVE  ListFitsNext
<1>1. list # None /\ P \subseteq DOMAIN list
  BY DEF Carries
<1>2. PICK from \in [DOMAIN list' -> P] : \A k \in DOMAIN list' :
        list'[k].id = list[from[k]].id /\ list'[k].cid = list[from[k]].cid
  BY DEF Carries
<1>3. ASSUME NEW k \in DOMAIN list'
      PROVE  FitsNext(list'[k]) /\ KeptNext(list'[k].cid)
  <2>1. /\ from[k] \in P /\ from[k] \in DOMAIN list
        /\ list'[k].id = list[from[k]].id /\ list'[k].cid = list[from[k]].cid
    BY <1>1, <1>2, <1>3
  <2>2. Fits(list[from[k]])
    BY <1>1, <2>1 DEF EntriesFit
  <2>3. FitsNext(list'[k])
    BY <2>1, <2>2, FitStays
  <2> QED
    BY <2>1, <2>3
<1> QED
  BY <1>3 DEF ListFitsNext

\* An entry under a synthetic id fits: it is the id of no row.
LEMMA SyntheticFits ==
    ASSUME Types, NEW e, e.id = syntheticMessageId
    PROVE  FitsNext(e)
<1>1. PICK n \in Nat : n = Len(log)
  BY Shapes
<1>2. e.id = 2 * n + 1
  BY <1>1 DEF syntheticMessageId
<1>3. \A row \in Nat : 2 * n + 1 # 2 * row
  OBVIOUS
<1> QED
  BY <1>2, <1>3 DEF FitsNext, IdOf

\* An entry of a row, under its id, fits.
LEMMA RowFits ==
    ASSUME Types, Step, NEW row \in DOMAIN log, NEW e,
           e.id = IdOf(row), e.cid = log[row].cid
    PROVE  FitsNext(e) /\ LoggedNext(e.cid)
<1>1. DOMAIN log \subseteq Nat /\ DOMAIN log \subseteq DOMAIN log' /\ log'[row].cid = log[row].cid
  BY Shapes, LogGrows
<1>2. \A r \in Nat : IdOf(row) = IdOf(r) => r = row
  BY <1>1 DEF IdOf
<1>3. FitsNext(e)
  BY <1>1, <1>2 DEF FitsNext
<1> QED
  BY <1>1, <1>3 DEF LoggedNext

\* The list after a step.
LEMMA ListFitKept ==
    ASSUME Types, EntriesFit, Step
    PROVE  ListFitsNext
<1>1. ASSUME list # None, NEW n \in DOMAIN list
      PROVE  Fits(list[n]) /\ (list[n].cid \in payload \/ Logged(list[n].cid))
  BY <1>1 DEF EntriesFit
<1>2. ASSUME list # None, NEW n \in DOMAIN list, payload \subseteq payload'
      PROVE  FitsNext(list[n]) /\ KeptNext(list[n].cid)
  <2>1. FitsNext(list[n])
    BY <1>1, <1>2, FitStays
  <2>2. KeptNext(list[n].cid)
    BY <1>1, <1>2, LoggedStays DEF KeptNext
  <2> QED
    BY <2>1, <2>2
<1>3. ASSUME Carries(DOMAIN list), payload \subseteq payload'
      PROVE  ListFitsNext
  <2>1. list # None
    BY <1>3 DEF Carries
  <2>2. \A n \in DOMAIN list : KeptNext(list[n].cid)
    BY <1>2, <1>3, <2>1
  <2> QED
    BY <1>3, <2>2, CarriedFit
<1>4. CASE Send
  <2>1. payload' = payload \cup {Written + 1}
    BY <1>4 DEF Send
  <2>2. \A k \in DOMAIN list' :
          \/ list'[k].id = syntheticMessageId /\ list'[k].cid = Written + 1
          \/ list # None /\ k \in DOMAIN list /\ list'[k] = list[k]
    BY <1>4, SendLists
  <2>3. ASSUME NEW k \in DOMAIN list'
        PROVE  FitsNext(list'[k]) /\ KeptNext(list'[k].cid)
    <3>1. CASE list'[k].id = syntheticMessageId /\ list'[k].cid = Written + 1
      <4>1. FitsNext(list'[k])
        BY <3>1, SyntheticFits
      <4>2. KeptNext(list'[k].cid)
        BY <2>1, <3>1 DEF KeptNext
      <4> QED
        BY <4>1, <4>2
    <3>2. CASE list # None /\ k \in DOMAIN list /\ list'[k] = list[k]
      <4>1. FitsNext(list[k]) /\ KeptNext(list[k].cid)
        BY <1>2, <2>1, <3>2
      <4> QED
        BY <3>2, <4>1
    <3> QED
      BY <2>2, <3>1, <3>2
  <2> QED
    BY <2>3 DEF ListFitsNext
<1>5. CASE \E i \in DOMAIN posts : PostFails(i)
  <2>1. PICK i \in DOMAIN posts : PostFails(i)
    BY <1>5
  <2>2. payload' = payload
    BY <2>1 DEF PostFails
  <2>3. (list = None /\ list' = None) \/ Carries(DOMAIN list)
    BY <2>1, PostFailsLists
  <2> QED
    BY <1>3, <2>2, <2>3 DEF ListFitsNext
<1>6. CASE \E cid \in Own : Retry(cid)
  <2>1. PICK cid \in Own : Retry(cid)
    BY <1>6
  <2>2. payload' = payload
    BY <2>1 DEF Retry, KeepPayload
  <2>3. Carries(DOMAIN list)
    BY <2>1, RetryLists
  <2> QED
    BY <1>3, <2>2, <2>3
<1>7. CASE \E cid \in Own : Cancel(cid)
  <2>1. PICK cid \in Own : Cancel(cid)
    BY <1>7
  <2>2. payload' = payload \ {cid} /\ list # None
    BY <2>1 DEF Cancel, Offered
  <2> DEFINE P == {n \in DOMAIN list : list[n].cid # cid}
  <2>3. Carries(P)
    BY <2>1, CancelLists
  <2>4. \A n \in P : KeptNext(list[n].cid)
    BY <1>1, <2>2, LoggedStays DEF KeptNext
  <2> HIDE DEF P
  <2> QED
    BY <2>3, <2>4, CarriedFit
<1>8. CASE Deliver
  <2>1. PICK e \in Events : /\ e.row \in DOMAIN log
                            /\ \/ e.kind = "new" /\ messageNew(e.row)
                               \/ e.kind # "new" /\ messageChanged(e)
    BY <1>8, Delivered
  <2>2. CASE messageNew(e.row)
    <3>1. list' = Received(e.row) /\ payload' = payload \ {log[e.row].cid}
      BY <2>2 DEF messageNew
    <3>2. CASE list = None
      <4>1. list' = None
        BY <3>1, <3>2 DEF Received
      <4> QED
        BY <4>1 DEF ListFitsNext
    <3>3. CASE list # None
      <4> DEFINE at == IndexOf(log[e.row].cid)
                 P == {n \in DOMAIN list : n # at}
      <4>1. /\ Len(list') \in Nat /\ Len(list') > 0 /\ DOMAIN list' = 1..Len(list')
            /\ list'[Len(list')].id = IdOf(e.row)
            /\ list'[Len(list')].cid = log[e.row].cid
            /\ \E from \in [1..(Len(list') - 1) -> P] :
                 \A k \in 1..(Len(list') - 1) : list'[k] = list[from[k]]
        BY <2>1, <3>1, <3>3, ReceivedLists
      <4>2. FitsNext(list'[Len(list')]) /\ LoggedNext(list'[Len(list')].cid)
        BY <2>1, <4>1, RowFits
      <4>3. LoggedNext(log[e.row].cid)
        BY <4>1, <4>2
      <4>4. \A n \in DOMAIN list : FitsNext(list[n]) /\ KeptNext(list[n].cid)
        <5> TAKE n \in DOMAIN list
        <5>1. FitsNext(list[n])
          BY <1>1, <3>3, FitStays
        <5>2. KeptNext(list[n].cid)
          BY <1>1, <3>1, <3>3, <4>3, LoggedStays DEF KeptNext
        <5> QED
          BY <5>1, <5>2
      <4>5. ASSUME NEW k \in DOMAIN list'
            PROVE  FitsNext(list'[k]) /\ KeptNext(list'[k].cid)
        <5>1. CASE k = Len(list')
          BY <4>2, <5>1 DEF KeptNext
        <5>2. CASE k \in 1..(Len(list') - 1)
          <6>1. PICK n \in P : list'[k] = list[n]
            BY <4>1, <5>2
          <6> QED
            BY <4>4, <6>1
        <5> QED
          BY <4>1, <5>1, <5>2
      <4> QED
        BY <4>5 DEF ListFitsNext
    <3> QED
      BY <3>2, <3>3
  <2>3. CASE messageChanged(e)
    <3>1. payload' = payload
      BY <2>3 DEF messageChanged
    <3>2. \/ list' = None
          \/ Carries({n \in DOMAIN list : list[n].id # IdOf(e.row)})
          \/ Carries(DOMAIN list)
      BY <2>3, ChangedLists
    <3>3. CASE Carries({n \in DOMAIN list : list[n].id # IdOf(e.row)})
      <4> DEFINE P == {n \in DOMAIN list : list[n].id # IdOf(e.row)}
      <4>1. list # None
        BY <3>3 DEF Carries
      <4>2. \A n \in P : KeptNext(list[n].cid)
        BY <1>2, <3>1, <4>1
      <4>3. Carries(P)
        BY <3>3
      <4> HIDE DEF P
      <4> QED
        BY <4>2, <4>3, CarriedFit
    <3> QED
      BY <1>3, <3>1, <3>2, <3>3 DEF ListFitsNext
  <2> QED
    BY <2>1, <2>2, <2>3
<1>9. CASE \E n \in DOMAIN loads : HistoryAnswered(n)
  <2>1. PICK n \in DOMAIN loads : HistoryAnswered(n)
    BY <1>9
  <2>2. payload' = payload
    BY <2>1 DEF HistoryAnswered
  <2>3. \A k \in DOMAIN list' :
          \/ \E j \in DOMAIN loads[n].rows : list'[k] = loads[n].rows[j]
          \/ list # None /\ \E j \in DOMAIN list : list'[k] = list[j]
    BY <2>1, HistoryLists
  <2>4. ASSUME NEW k \in DOMAIN list'
        PROVE  FitsNext(list'[k]) /\ KeptNext(list'[k].cid)
    <3>1. CASE \E j \in DOMAIN loads[n].rows : list'[k] = loads[n].rows[j]
      <4>1. PICK j \in DOMAIN loads[n].rows : list'[k] = loads[n].rows[j]
        BY <3>1
      <4>2. Fits(loads[n].rows[j]) /\ Logged(loads[n].rows[j].cid)
        BY DEF EntriesFit
      <4>3. FitsNext(loads[n].rows[j])
        BY <4>2, FitStays
      <4>4. KeptNext(loads[n].rows[j].cid)
        BY <4>2, LoggedStays DEF KeptNext
      <4> QED
        BY <4>1, <4>3, <4>4
    <3>2. CASE list # None /\ \E j \in DOMAIN list : list'[k] = list[j]
      BY <1>2, <2>2, <3>2
    <3> QED
      BY <2>3, <3>1, <3>2
  <2> QED
    BY <2>4 DEF ListFitsNext
<1>10. CASE NewToken
  BY <1>10 DEF NewToken, ListFitsNext
<1>11. CASE UNCHANGED <<list, payload, clean>>
  <2>1. list # None => \A n \in DOMAIN list : FitsNext(list[n]) /\ KeptNext(list[n].cid)
    BY <1>2, <1>11
  <2> QED
    BY <1>11, <2>1 DEF ListFitsNext
<1> QED
  BY <1>4, <1>5, <1>6, <1>7, <1>8, <1>9, <1>10, <1>11, Frames DEF ListSteps

\* So does what is read of the history.
LEMMA EntriesKept ==
    ASSUME Types, EntriesFit, Step
    PROVE  EntriesFit'
<1>1. ListFitsNext
  BY ListFitKept
<1>2. ASSUME NEW m \in DOMAIN loads', NEW k \in DOMAIN loads'[m].rows
      PROVE  FitsNext(loads'[m].rows[k]) /\ LoggedNext(loads'[m].rows[k].cid)
  <2>1. \/ loads'[m].rows = <<>>
        \/ m \in DOMAIN loads /\ loads'[m].rows = loads[m].rows
        \/ loads'[m].rows = Rows
    BY LoadsStep
  <2>2. CASE loads'[m].rows = <<>>
    BY <2>2
  <2>3. CASE m \in DOMAIN loads /\ loads'[m].rows = loads[m].rows
    <3>1. Fits(loads[m].rows[k]) /\ Logged(loads[m].rows[k].cid)
      BY <2>3 DEF EntriesFit
    <3>2. FitsNext(loads[m].rows[k]) /\ LoggedNext(loads[m].rows[k].cid)
      BY <3>1, FitStays, LoggedStays
    <3> QED
      BY <2>3, <3>2
  <2>4. CASE loads'[m].rows = Rows
    <3>1. PICK r \in DOMAIN log : Rows[k].id = IdOf(r) /\ Rows[k].cid = log[r].cid
      BY <2>4, RowsRead
    <3>2. FitsNext(Rows[k]) /\ LoggedNext(Rows[k].cid)
      BY <3>1, RowFits
    <3> QED
      BY <2>4, <3>2
  <2> QED
    BY <2>1, <2>2, <2>3, <2>4
<1>3. EntriesFit' <=>
        /\ list' # None => \A n \in DOMAIN list' : FitsNext(list'[n]) /\ KeptNext(list'[n].cid)
        /\ \A m \in DOMAIN loads' : \A k \in DOMAIN loads'[m].rows :
             FitsNext(loads'[m].rows[k]) /\ LoggedNext(loads'[m].rows[k].cid)
  BY DEF EntriesFit, Fits, Logged, FitsNext, LoggedNext, KeptNext
<1> QED
  BY <1>1, <1>2, <1>3 DEF ListFitsNext

-----------------------------------------------------------------------------
(* A message that came clean is shown once.                                *)

\* OneShows after a step, for a row that was there before it.
OneShowsNext(row) ==
    \E n \in DOMAIN list' :
      /\ Shows(list'[n], row)
      /\ \A m \in DOMAIN list' : Shows(list'[m], row) => m = n

\* A list that carries over what shows a row shows it once.
LEMMA CarriedShows ==
    ASSUME NEW P, Carries(P), NEW row, OneShows(row),
           \A n \in DOMAIN list : Shows(list[n], row) => n \in P
    PROVE  list' # None /\ OneShowsNext(row)
<1>1. PICK n \in DOMAIN list :
        Shows(list[n], row) /\ \A m \in DOMAIN list : Shows(list[m], row) => m = n
  BY DEF OneShows
<1>2. list' # None /\ P \subseteq DOMAIN list
  BY DEF Carries
<1>3. PICK from \in [DOMAIN list' -> P] :
        /\ \A k \in DOMAIN list' :
             list'[k].id = list[from[k]].id /\ list'[k].cid = list[from[k]].cid
        /\ \A j, k \in DOMAIN list' : from[j] = from[k] => j = k
        /\ \A p \in P : \E k \in DOMAIN list' : from[k] = p
  BY DEF Carries
<1>4. n \in P
  BY <1>1
<1>5. PICK k \in DOMAIN list' : from[k] = n
  BY <1>3, <1>4
<1>6. \A m \in DOMAIN list' : Shows(list'[m], row) <=> Shows(list[from[m]], row)
  BY <1>3 DEF Shows
<1>7. Shows(list'[k], row)
  BY <1>1, <1>5, <1>6
<1>8. ASSUME NEW m \in DOMAIN list', Shows(list'[m], row)
      PROVE  m = k
  <2>1. from[m] \in DOMAIN list /\ Shows(list[from[m]], row)
    BY <1>2, <1>3, <1>6, <1>8
  <2>2. from[m] = n
    BY <1>1, <2>1
  <2> QED
    BY <1>3, <1>5, <2>2
<1> QED
  BY <1>2, <1>7, <1>8 DEF OneShowsNext

\* What shows a row is its author's.
LEMMA ShownFits ==
    ASSUME Types, EntriesFit, list # None, NEW n \in DOMAIN list,
           NEW row \in DOMAIN log, Shows(list[n], row)
    PROVE  list[n].cid = log[row].cid
<1>1. row \in Nat
  BY Shapes
<1>2. Fits(list[n])
  BY DEF EntriesFit
<1> QED
  BY <1>1, <1>2 DEF Shows, Fits

\* A new message leaves what shows another row, or comes in its place.
LEMMA ReceivedOther ==
    ASSUME Types, EntriesFit, list # None, NEW new \in DOMAIN log,
           list' = Received(new), NEW row \in DOMAIN log, row # new, OneShows(row)
    PROVE  OneShowsNext(row)
<1> DEFINE at == IndexOf(log[new].cid)
           P == {n \in DOMAIN list : n # at}
           last == Len(list')
<1>1. at # 0 => at \in DOMAIN list /\ list[at].cid = log[new].cid /\ OwnRow(new)
  BY ReceivedLists
<1>2. at = 0 /\ OwnRow(new) => \A n \in DOMAIN list : list[n].cid # log[new].cid
  BY ReceivedLists
<1>3. /\ last \in Nat /\ last > 0 /\ DOMAIN list' = 1..last
      /\ list'[last].id = IdOf(new) /\ list'[last].cid = log[new].cid
  BY ReceivedLists
<1>4. PICK from \in [1..(last - 1) -> P] :
        /\ \A k \in 1..(last - 1) : list'[k] = list[from[k]]
        /\ \A j, k \in 1..(last - 1) : from[j] = from[k] => j = k
        /\ \A n \in P : \E k \in 1..(last - 1) : from[k] = n
  BY ReceivedLists
<1>5. PICK n \in DOMAIN list :
        Shows(list[n], row) /\ \A m \in DOMAIN list : Shows(list[m], row) => m = n
  BY DEF OneShows
<1>6. DOMAIN list = 1..Len(list) /\ Len(list) \in Nat
  BY ListShape
<1> HIDE DEF at, last
<1>7. \A k \in 1..(last - 1) : from[k] \in DOMAIN list /\ from[k] # at
  BY <1>4
<1>8. last \in DOMAIN list' /\ \A m \in DOMAIN list' : m = last \/ m \in 1..(last - 1)
  BY <1>3
<1>9. IdOf(new) # IdOf(row)
  <2>1. new \in Nat /\ row \in Nat
    BY Shapes
  <2> QED
    BY <2>1 DEF IdOf
<1>10. CASE OwnRow(row) /\ log[row].cid = log[new].cid
  <2>1. list[n].cid = log[new].cid /\ OwnRow(new)
    BY <1>5, <1>10, ShownFits DEF OwnRow
  <2>2. at # 0
    BY <1>2, <2>1
  <2>3. Shows(list[at], row)
    BY <1>1, <1>10, <2>2 DEF Shows
  <2>4. n = at
    BY <1>1, <1>5, <2>2, <2>3
  <2>5. Shows(list'[last], row)
    BY <1>3, <1>10 DEF Shows
  <2>6. ASSUME NEW m \in 1..(last - 1) PROVE ~Shows(list'[m], row)
    BY <1>4, <1>5, <1>7, <2>4, <2>6
  <2> QED
    BY <1>8, <2>5, <2>6 DEF OneShowsNext
<1>11. CASE ~(OwnRow(row) /\ log[row].cid = log[new].cid)
  <2>1. ~Shows(list'[last], row)
    BY <1>3, <1>9, <1>11 DEF Shows
  <2>2. n # at
    <3>1. ASSUME n = at PROVE FALSE
      <4>1. at # 0
        BY <1>6, <3>1
      <4>2. log[row].cid = log[new].cid
        BY <1>1, <1>5, <3>1, <4>1, ShownFits
      <4> QED
        BY <1>1, <1>11, <4>1, <4>2 DEF OwnRow
    <3> QED
      BY <3>1
  <2>3. PICK k \in 1..(last - 1) : from[k] = n
    BY <1>4, <2>2
  <2>4. k \in DOMAIN list' /\ Shows(list'[k], row)
    BY <1>3, <1>4, <1>5, <2>3
  <2>5. ASSUME NEW m \in DOMAIN list', Shows(list'[m], row) PROVE m = k
    <3>1. m \in 1..(last - 1)
      BY <1>8, <2>1, <2>5
    <3>2. from[m] = n
      BY <1>4, <1>5, <1>7, <2>5, <3>1
    <3> QED
      BY <1>4, <2>3, <3>1, <3>2
  <2> QED
    BY <2>4, <2>5 DEF OneShowsNext
<1> QED
  BY <1>10, <1>11

\* And is itself shown once, if it comes clean.
LEMMA ReceivedClean ==
    ASSUME Types, NEW new \in DOMAIN log, list' = Received(new), CameClean(new)
    PROVE  list' # None /\ OneShowsNext(new)
<1>0. list # None
  BY DEF CameClean
<1> DEFINE at == IndexOf(log[new].cid)
           P == {n \in DOMAIN list : n # at}
           last == Len(list')
<1>1. at # 0 => at \in DOMAIN list /\ list[at].cid = log[new].cid /\ OwnRow(new)
  BY <1>0, ReceivedLists
<1>2. at = 0 /\ OwnRow(new) => \A n \in DOMAIN list : list[n].cid # log[new].cid
  BY <1>0, ReceivedLists
<1>3. /\ last \in Nat /\ last > 0 /\ DOMAIN list' = 1..last
      /\ list'[last].id = IdOf(new)
  BY <1>0, ReceivedLists
<1>4. PICK from \in [1..(last - 1) -> P] : \A k \in 1..(last - 1) : list'[k] = list[from[k]]
  BY <1>0, ReceivedLists
<1>5. list' \in Seq(Entries)
  BY <1>0, ReceivedLists
<1>6. list' # None
  BY <1>5, ListThere
<1> HIDE DEF at, last
<1>7. \A k \in 1..(last - 1) : from[k] \in DOMAIN list /\ from[k] # at
  BY <1>4
<1>8. last \in DOMAIN list' /\ \A m \in DOMAIN list' : m = last \/ m \in 1..(last - 1)
  BY <1>3
<1>9. Shows(list'[last], new)
  BY <1>3 DEF Shows
<1>10. IsFiniteSet(Showing(new)) /\ \A n \in DOMAIN list : Shows(list[n], new) <=> n \in Showing(new)
  <2>1. DOMAIN list = 1..Len(list) /\ Len(list) \in Nat
    BY <1>0, ListShape
  <2>2. IsFiniteSet(DOMAIN list)
    BY <2>1, FS_Interval
  <2>3. Showing(new) = {n \in DOMAIN list : Shows(list[n], new)}
    BY <1>0 DEF Showing
  <2>4. IsFiniteSet(Showing(new))
    BY <2>2, <2>3, FS_Subset
  <2> QED
    BY <2>3, <2>4
<1>11. ASSUME NEW m \in 1..(last - 1) PROVE ~Shows(list'[m], new)
  <2> SUFFICES ASSUME Shows(list'[m], new) PROVE FALSE
    OBVIOUS
  <2>1. from[m] \in DOMAIN list /\ from[m] # at /\ Shows(list[from[m]], new)
    BY <1>4, <1>7
  <2>2. from[m] \in Showing(new)
    BY <1>10, <2>1
  <2>3. list[from[m]].id # IdOf(new)
    BY <2>2 DEF CameClean
  <2>4. OwnRow(new) /\ list[from[m]].cid = log[new].cid
    BY <2>1, <2>3 DEF Shows
  <2>5. at # 0
    BY <1>2, <2>1, <2>4
  <2>6. at \in Showing(new)
    <3>1. Shows(list[at], new)
      BY <1>1, <2>4, <2>5 DEF Shows
    <3> QED
      BY <1>1, <1>10, <2>5, <3>1
  <2>7. from[m] = at
    BY <1>10, <2>2, <2>6, OneMember DEF CameClean
  <2> QED
    BY <2>1, <2>7
<1> QED
  BY <1>6, <1>8, <1>9, <1>11 DEF OneShowsNext

\* A row that came clean stays shown once.
LEMMA ShownNext ==
    ASSUME Types, CidsInOrder, AnnouncedOnce, EntriesFit, ShownOnce, Step,
           NEW row \in clean'
    PROVE  list' # None /\ OneShowsNext(row)
<1>1. ASSUME row \in clean
      PROVE  list # None /\ OneShows(row) /\ row \in DOMAIN log
  BY <1>1 DEF ShownOnce, Types, ListTypes
<1>2. ASSUME row \in clean, Carries(DOMAIN list)
      PROVE  list' # None /\ OneShowsNext(row)
  BY <1>1, <1>2, CarriedShows
<1>3. CASE Send
  <2>1. row \in clean
    BY <1>3 DEF Send
  <2>2. /\ list' \in Seq(Entries)
        /\ \A k \in DOMAIN list' :
             \/ list'[k].id = syntheticMessageId /\ list'[k].cid = Written + 1
             \/ list # None /\ k \in DOMAIN list /\ list'[k] = list[k]
        /\ list # None => \A k \in DOMAIN list : k \in DOMAIN list' /\ list'[k] = list[k]
    BY <1>3, SendLists
  <2>3. ASSUME NEW e, e.id = syntheticMessageId, e.cid = Written + 1
        PROVE  ~Shows(e, row)
    <3>1. e.id # IdOf(row)
      <4>1. PICK n \in Nat : n = Len(log)
        BY Shapes
      <4>2. row \in Nat
        BY <1>1, <2>1, Shapes
      <4>3. 2 * n + 1 # 2 * row
        BY <4>2
      <4> QED
        BY <2>3, <4>1, <4>3 DEF syntheticMessageId, IdOf
    <3>2. ASSUME OwnRow(row) PROVE log[row].cid # Written + 1
      <4>1. PICK k \in 0..MaxOwn : \A c \in Own : Posted(c) <=> c <= k
        BY DEF CidsInOrder
      <4>2. Written = k
        BY <4>1, WrittenCounts
      <4>3. log[row].cid \in Own
        <5>1. log[row].cid \in 0..MaxOwn
          BY <1>1, <2>1, Shapes DEF LogRows
        <5> QED
          BY <3>2, <5>1, Constants DEF OwnRow, Foreign, Own
      <4>4. log[row].cid <= k
        BY <1>1, <2>1, <3>2, <4>1, <4>3 DEF CidsInOrder
      <4> QED
        BY <4>2, <4>4
    <3> QED
      BY <2>3, <3>1, <3>2 DEF Shows
  <2>4. PICK n \in DOMAIN list :
          Shows(list[n], row) /\ \A m \in DOMAIN list : Shows(list[m], row) => m = n
    BY <1>1, <2>1 DEF OneShows
  <2>5. n \in DOMAIN list' /\ Shows(list'[n], row)
    BY <1>1, <2>1, <2>2, <2>4
  <2>6. \A m \in DOMAIN list' : Shows(list'[m], row) => m = n
    BY <2>2, <2>3, <2>4
  <2> QED
    BY <2>2, <2>5, <2>6, ListThere DEF OneShowsNext
<1>4. CASE \E i \in DOMAIN posts : PostFails(i)
  <2>1. PICK i \in DOMAIN posts : PostFails(i)
    BY <1>4
  <2>2. row \in clean
    BY <2>1 DEF PostFails
  <2>3. (list = None /\ list' = None) \/ Carries(DOMAIN list)
    BY <2>1, PostFailsLists
  <2> QED
    BY <1>1, <1>2, <2>2, <2>3
<1>5. CASE \E cid \in Own : Retry(cid)
  <2>1. PICK cid \in Own : Retry(cid)
    BY <1>5
  <2>2. row \in clean
    BY <2>1 DEF Retry
  <2>3. Carries(DOMAIN list)
    BY <2>1, RetryLists
  <2> QED
    BY <1>2, <2>2, <2>3
<1>6. CASE \E cid \in Own : Cancel(cid)
  <2>1. PICK cid \in Own : Cancel(cid)
    BY <1>6
  <2>2. row \in clean /\ log[row].cid # cid
    BY <2>1 DEF Cancel
  <2> DEFINE P == {n \in DOMAIN list : list[n].cid # cid}
  <2>3. Carries(P)
    BY <2>1, CancelLists
  <2>4. ASSUME NEW n \in DOMAIN list, Shows(list[n], row) PROVE n \in P
    <3>1. list[n].cid = log[row].cid
      BY <1>1, <2>2, <2>4, ShownFits
    <3> QED
      BY <2>2, <3>1
  <2> HIDE DEF P
  <2> QED
    BY <1>1, <2>2, <2>3, <2>4, CarriedShows
<1>7. CASE Deliver
  <2>1. PICK e \in Events :
          /\ delivered + 1 \in DOMAIN events /\ e = events[delivered + 1]
          /\ e.row \in DOMAIN log
          /\ \/ e.kind = "new" /\ messageNew(e.row)
             \/ e.kind # "new" /\ messageChanged(e)
    BY <1>7, Delivered
  <2>2. CASE e.kind = "new" /\ messageNew(e.row)
    <3>1. list' = Received(e.row)
      BY <2>2 DEF messageNew
    <3>2. CASE row \in clean
      <4>1. list # None /\ OneShows(row) /\ row \in DOMAIN log
        BY <1>1, <3>2
      <4>2. row # e.row
        <5>1. PICK n \in 1..delivered : events[n].kind = "new" /\ events[n].row = row
          BY <3>2 DEF AnnouncedOnce
        <5>2. delivered \in 0..Len(events) /\ DOMAIN events = 1..Len(events) /\ Len(events) \in Nat
          BY Shapes DEF Types, LinkTypes
        <5>3. n \in DOMAIN events /\ n # delivered + 1
          BY <5>2
        <5> QED
          BY <2>1, <2>2, <5>1, <5>3 DEF AnnouncedOnce
      <4>3. list' \in Seq(Entries)
        BY <2>1, <3>1, <4>1, ReceivedLists
      <4>4. OneShowsNext(row)
        BY <2>1, <3>1, <4>1, <4>2, ReceivedOther
      <4> QED
        BY <4>3, <4>4, ListThere
    <3>3. CASE row \notin clean
      <4>1. CameClean(e.row) /\ row = e.row
        BY <2>2, <3>3 DEF messageNew
      <4> QED
        BY <2>1, <3>1, <4>1, ReceivedClean
    <3> QED
      BY <3>2, <3>3
  <2>3. CASE e.kind # "new" /\ messageChanged(e)
    <3>1. row \in clean
      BY <2>3 DEF messageChanged
    <3>2. /\ list # None /\ e.kind = "deleted" =>
               Carries({n \in DOMAIN list : list[n].id # IdOf(e.row)})
          /\ list # None /\ e.kind # "deleted" => Carries(DOMAIN list)
      BY <2>3, ChangedLists
    <3>3. CASE e.kind = "deleted"
      <4> DEFINE P == {n \in DOMAIN list : list[n].id # IdOf(e.row)}
      <4>1. Carries(P)
        BY <1>1, <3>1, <3>2, <3>3
      <4>2. row # e.row /\ ~(OwnRow(row) /\ log[row].cid = log[e.row].cid)
        BY <2>3, <3>3 DEF messageChanged
      <4>3. ASSUME NEW n \in DOMAIN list, Shows(list[n], row), n \notin P PROVE FALSE
        <5>1. list[n].id = IdOf(e.row)
          BY <4>3
        <5>2. Shows(list[n], e.row)
          BY <5>1 DEF Shows
        <5>3. list[n].cid = log[row].cid /\ list[n].cid = log[e.row].cid
          BY <1>1, <2>1, <3>1, <4>3, <5>2, ShownFits
        <5>4. list[n].id = IdOf(row)
          BY <4>2, <4>3, <5>3 DEF Shows
        <5>5. row \in Nat /\ e.row \in Nat
          BY <1>1, <2>1, <3>1, Shapes
        <5> QED
          BY <4>2, <5>1, <5>4, <5>5 DEF IdOf
      <4> HIDE DEF P
      <4> QED
        BY <1>1, <3>1, <4>1, <4>3, CarriedShows
    <3>4. CASE e.kind # "deleted"
      BY <1>1, <1>2, <3>1, <3>2, <3>4
    <3> QED
      BY <3>3, <3>4
  <2> QED
    BY <2>1, <2>2, <2>3
<1>8. CASE \E n \in DOMAIN loads : HistoryAnswered(n)
  BY <1>8 DEF HistoryAnswered
<1>9. CASE NewToken
  BY <1>9 DEF NewToken
<1>10. CASE UNCHANGED <<list, payload, clean>>
  BY <1>1, <1>10 DEF OneShows, OneShowsNext
<1> QED
  BY <1>3, <1>4, <1>5, <1>6, <1>7, <1>8, <1>9, <1>10, Frames DEF ListSteps

\* So do all.
LEMMA ShownKept ==
    ASSUME Types, CidsInOrder, AnnouncedOnce, EntriesFit, ShownOnce, Step
    PROVE  ShownOnce'
<1>1. ASSUME NEW row \in clean'
      PROVE  list' # None /\ OneShows(row)'
  <2>1. row \in DOMAIN log
    BY CleanStep DEF Types, ListTypes
  <2>2. log'[row].cid = log[row].cid
    BY <2>1, LogGrows
  <2>3. list' # None /\ OneShowsNext(row)
    BY ShownNext
  <2> QED
    BY <2>2, <2>3 DEF OneShows, OneShowsNext, Shows, OwnRow
<1> QED
  BY <1>1 DEF ShownOnce

-----------------------------------------------------------------------------
(* Theorems.                                                               *)

\* Nothing is written, shown or counted at first.
LEMMA InvInitially == Init => ViewInv
<1> SUFFICES ASSUME Init PROVE ViewInv
  OBVIOUS
<1>1. Types
  BY TypesInitially
<1>2. TypingEnds /\ LiveUnreadCounted
  BY DEF Init, TypingEnds, LiveUnreadCounted
<1>3. CidsInOrder
  <2>1. 0 \in 0..MaxOwn /\ \A c \in Own : c > 0 /\ ~(c <= 0)
    BY Constants DEF Own
  <2>2. \A c \in Own : ~Posted(c)
    BY DEF Init, Posted
  <2>3. payload = {} /\ log = <<>>
    BY DEF Init
  <2> QED
    BY <2>1, <2>2, <2>3 DEF CidsInOrder
<1>4. FilesOnce
  BY DEF Init, FilesOnce
<1>5. AnnouncedOnce
  BY DEF Init, AnnouncedOnce
<1>6. EntriesFit /\ ShownOnce
  BY DEF Init, EntriesFit, ShownOnce
<1> QED
  BY <1>1, <1>2, <1>3, <1>4, <1>5, <1>6 DEF ViewInv

\* A stuttering step keeps it.
LEMMA InvStutters == ASSUME ViewInv, UNCHANGED vars PROVE ViewInv'
<1> USE DEF vars, serverVars, linkVars, listVars, typingVars, unreadVars, composerVars
<1>1. Types'
  <2>1. ServerTypes' /\ ReadTypes'
    BY DEF ViewInv, Types, ServerTypes, ReadTypes, Events
  <2>2. LinkTypes' /\ ListTypes'
    BY DEF ViewInv, Types, LinkTypes, ListTypes
  <2>3. FlagTypes' /\ ComposerTypes'
    BY DEF ViewInv, Types, FlagTypes, ComposerTypes
  <2>4. NetTypes' /\ LifeTypes'
    BY DEF ViewInv, Types, NetTypes, LifeTypes
  <2> QED
    BY <2>1, <2>2, <2>3, <2>4 DEF Types
<1>2. TypingEnds' /\ LiveUnreadCounted'
  BY DEF ViewInv, TypingEnds, LiveUnreadCounted
<1>3. CidsInOrder'
  BY DEF ViewInv, CidsInOrder, Posted, OwnRow
<1>4. FilesOnce'
  BY DEF ViewInv, FilesOnce
<1>5. AnnouncedOnce'
  BY DEF ViewInv, AnnouncedOnce
<1>6. EntriesFit'
  BY DEF ViewInv, EntriesFit, Fits, Logged
<1>7. ShownOnce'
  BY DEF ViewInv, ShownOnce, OneShows, Shows, OwnRow
<1> QED
  BY <1>1, <1>2, <1>3, <1>4, <1>5, <1>6, <1>7 DEF ViewInv

\* Every step keeps it.
LEMMA InvSteps == ViewInv /\ [Next]_vars => ViewInv'
<1>1. ASSUME ViewInv, Next PROVE ViewInv'
  <2>1. Step
    BY <1>1 DEF Next
  <2>2. /\ Types /\ TypingEnds /\ LiveUnreadCounted /\ CidsInOrder /\ FilesOnce
        /\ AnnouncedOnce /\ EntriesFit /\ ShownOnce
    BY <1>1 DEF ViewInv
  <2>3. Types'
    BY <1>1, <2>2, TypesKept
  <2>4. TypingEnds' /\ LiveUnreadCounted'
    BY <2>1, <2>2, FlagsKept, UnreadKept
  <2>5. CidsInOrder' /\ FilesOnce'
    BY <2>1, <2>2, CidsKept, ComposerKept
  <2>6. AnnouncedOnce' /\ EntriesFit' /\ ShownOnce'
    BY <2>1, <2>2, AnnouncedKept, EntriesKept, ShownKept
  <2> QED
    BY <2>3, <2>4, <2>5, <2>6 DEF ViewInv
<1> QED
  BY <1>1, InvStutters

\* The invariant holds throughout.
THEOREM ViewInvariant == Spec => []ViewInv
BY InvInitially, InvSteps, PTL DEF Spec

\* Every variable stays in its type, whatever the browser, the service and the
\* others do to the channel.
THEOREM TypeCorrect == Spec => []TypeOK
<1>1. ViewInv => TypeOK
  BY TypesSay DEF ViewInv
<1> QED
  BY <1>1, ViewInvariant, PTL

\* A peer shown as typing has a timeout that ends it: message.new and a new
\* provider clear both, and nothing clears the timeout alone (typingTimers).
THEOREM TypingCorrect == Spec => []TypingEnds
<1>1. ViewInv => TypingEnds
  BY DEF ViewInv
<1> QED
  BY <1>1, ViewInvariant, PTL

\* The count is never below the messages that came live to a channel that was
\* not in view, whatever the answers of the start-up bring meanwhile (/sync,
\* applied only where it counts more).
THEOREM UnreadCorrect == Spec => []LiveUnreadCounted
<1>1. ViewInv => LiveUnreadCounted
  BY DEF ViewInv
<1> QED
  BY <1>1, ViewInvariant, PTL

\* What the user wrote is not lost: every entry of the list, the failed ones
\* among them, is at the service or has its payload kept for a retry, and a
\* file goes out with one message only (pendingPayload, handleSend).
THEOREM WrittenCorrect == Spec => []NothingWrittenIsLost
<1>1. ViewInv => NothingWrittenIsLost
  BY DEF ViewInv, EntriesFit, FilesOnce, NothingWrittenIsLost, Logged
<1> QED
  BY <1>1, ViewInvariant, PTL

\* A message that came while the list was settled is shown once, until it is
\* deleted or its writer takes it away, for any number of messages, retries,
\* lost connections and loads of the history (message.new, doSend,
\* retryMessage).
THEOREM ShownCorrect == Spec => []LiveShownOnce
<1>1. ASSUME ViewInv, NEW row \in clean
      PROVE  Cardinality(Showing(row)) = 1
  <2>1. list # None /\ OneShows(row)
    BY <1>1 DEF ViewInv, ShownOnce
  <2>2. PICK n \in DOMAIN list :
          Shows(list[n], row) /\ \A m \in DOMAIN list : Shows(list[m], row) => m = n
    BY <2>1 DEF OneShows
  <2>3. Showing(row) = {n}
    BY <2>1, <2>2 DEF Showing
  <2> QED
    BY <2>3, FS_Singleton
<1>2. ViewInv => LiveShownOnce
  BY <1>1 DEF LiveShownOnce
<1> QED
  BY <1>2, ViewInvariant, PTL

\* Once a POST of a message has been through, no other POST of it that is still
\* to be checked writes it again (check_idempotency).
THEOREM RetryCorrect == Spec => RetryWritesOnce
<1>1. ASSUME ViewInv, [Next]_vars
      PROVE  [\A i \in DOMAIN posts :
                posts[i].srv = "arriving" /\ posts'[i].srv # "arriving"
                  /\ posts[i].cid \in idem
                => posts'[i].srv \in {"answered", "refused"}]_vars
  <2> SUFFICES ASSUME Step, NEW i \in DOMAIN posts, posts[i].srv = "arriving",
                      posts'[i].srv # "arriving", posts[i].cid \in idem
               PROVE  posts'[i].srv \in {"answered", "refused"}
    BY <1>1 DEF Next
  <2>1. Types
    BY <1>1 DEF ViewInv
  <2>2. CASE UNCHANGED posts
    BY <2>2
  <2>3. CASE PostAdded
    BY <2>1, <2>3, PostsAdded DEF PostAdded
  <2>4. CASE \E j \in DOMAIN posts : \E p \in Posts : PostMoved(j, p)
    <3>1. PICK j \in DOMAIN posts, p \in Posts : PostMoved(j, p)
      BY <2>4
    <3>2. posts' = [posts EXCEPT ![j] = p]
      BY <3>1 DEF PostMoved
    <3>3. i = j /\ posts'[i] = p
      BY <3>2
    <3> QED
      BY <3>1, <3>3 DEF PostMoved
  <2> QED
    BY <2>1, <2>2, <2>3, <2>4, PostsStep
<1> QED
  BY <1>1, ViewInvariant, PTL DEF Spec, RetryWritesOnce
=============================================================================
