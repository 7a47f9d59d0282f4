--------------------------- MODULE CallTabProofs ---------------------------
(***************************************************************************)
(* Proofs about CallTab.  The inductive invariant has two halves: that of  *)
(* the call (what is shown, joined and held) speaks of no direct call, and *)
(* that of the ring needs of the call only which one is shown.             *)
(***************************************************************************)
EXTENDS CallTab, SequenceTheorems, TLAPS

\* As long as no two joins overlap there is one at most.
OneJoin ==
    ~overlapped =>
       \A a, b \in Channel : joins[a] > 0 /\ joins[b] > 0 => a = b /\ joins[a] = 1

\* joinVoice has let go of the former client by the time it waits.
NothingHeld == ~overlapped /\ Pending => cur = None

CallInv ==
    /\ active \in Channel \cup {None} /\ sess \in Channel \cup {None}
    /\ joins \in [Channel -> 0..MaxJoins] /\ overlapped \in BOOLEAN
    /\ clients \in Seq(Client) /\ Len(clients) <= MaxClients
    /\ cur \in DOMAIN clients \cup {None}
    /\ isConnected \in BOOLEAN /\ peerIn \in BOOLEAN
    /\ kicks \subseteq DOMAIN clients
    /\ OneCallAtATime /\ OneJoin /\ NothingHeld

\* The watcher leaves no direct call that is not the one shown.
RingInv ==
    /\ dm \in DmCall \cup {None} /\ incoming \in Dm \cup {None}
    /\ posts \subseteq [kind : CallKind, chan : Dm]
    /\ inbox \in Seq(CallEvent) /\ Len(inbox) <= Backlog
    /\ peerEvents \in 0..MaxPeer
    /\ dm # None => dm.chan = active

IInv == CallInv /\ RingInv

-----------------------------------------------------------------------------
(* The call.                                                               *)

\* Nothing is there initially.
LEMMA InvInit == Init => IInv
<1> SUFFICES ASSUME Init PROVE IInv
  OBVIOUS
<1>1. joins \in [Channel -> 0..MaxJoins] /\ \A x \in Channel : joins[x] = 0
  BY BoundAssumption DEF Init
<1>2. clients \in Seq(Client) /\ Len(clients) = 0 /\ DOMAIN clients = {}
  BY DEF Init
<1>3. OneCallAtATime /\ OneJoin /\ NothingHeld
  BY <1>1, <1>2 DEF Init, OneCallAtATime, ShownCallIsConnected, OnlyCurrentLives,
                    OneJoin, NothingHeld
<1>4. CallInv
  <2>1. Len(clients) <= MaxClients /\ kicks \subseteq DOMAIN clients
    BY <1>2, BoundAssumption DEF Init
  <2>2. /\ active \in Channel \cup {None} /\ sess \in Channel \cup {None}
        /\ cur \in DOMAIN clients \cup {None} /\ overlapped \in BOOLEAN
        /\ isConnected \in BOOLEAN /\ peerIn \in BOOLEAN
    BY DEF Init
  <2> QED BY <1>1, <1>2, <1>3, <2>1, <2>2 DEF CallInv
<1>5. RingInv
  BY BoundAssumption DEF Init, RingInv
<1> QED BY <1>4, <1>5 DEF IInv

\* disconnect lets go of the client, and of no other.
LEMMA Disconnected ==
  ASSUME CallInv, Disconnect
  PROVE  /\ clients' \in Seq(Client) /\ Len(clients') = Len(clients)
         /\ DOMAIN clients' = DOMAIN clients
         /\ \A c \in DOMAIN clients : ~clients'[c].alive
         /\ cur' = None /\ isConnected' = FALSE /\ peerIn' = FALSE
<1>1. clients \in Seq(Client) /\ cur \in DOMAIN clients \cup {None}
  BY DEF CallInv
<1>2. \A c \in DOMAIN clients : clients[c] \in Client /\ (clients[c].alive <=> c = cur)
  BY <1>1 DEF CallInv, OneCallAtATime, OnlyCurrentLives
<1>3. \A c \in Client : Shut(c) \in Client /\ ~Shut(c).alive
  BY DEF Shut, Client
<1>4. CASE cur = None
  <2>1. None \notin DOMAIN clients
    BY <1>1, NoneAssumption
  <2> QED BY <1>1, <1>2, <1>4, <2>1 DEF Disconnect
<1>5. CASE cur # None
  <2>1. cur \in DOMAIN clients /\ clients' = [clients EXCEPT ![cur] = Shut(clients[cur])]
    BY <1>1, <1>5 DEF Disconnect
  <2>2. \A c \in DOMAIN clients :
          clients'[c] = IF c = cur THEN Shut(clients[c]) ELSE clients[c]
    BY <1>1, <2>1
  <2>3. \A c \in DOMAIN clients : clients'[c] \in Client /\ ~clients'[c].alive
    BY <1>2, <1>3, <2>2
  <2>4. clients' \in Seq(Client) /\ Len(clients') = Len(clients)
        /\ DOMAIN clients' = DOMAIN clients
    BY <1>1, <1>2, <1>3, <2>1
  <2> QED BY <2>3, <2>4 DEF Disconnect
<1> QED BY <1>4, <1>5

\* joinVoice keeps the half of the call.
LEMMA JoinKeeps ==
  ASSUME CallInv, NEW ch \in Channel, JoinVoice(ch), UNCHANGED <<active, kicks>>
  PROVE  CallInv' /\ peerIn' \in BOOLEAN
<1>1. CASE active = ch
  BY <1>1 DEF CallInv, JoinVoice, hookVars, OneCallAtATime, ShownCallIsConnected,
              OnlyCurrentLives, OneJoin, NothingHeld, Pending
<1>2. CASE active # ch
  <2>1. /\ \A a \in Channel : joins[a] < MaxJoins
        /\ joins' = [joins EXCEPT ![ch] = @ + 1]
        /\ overlapped' = (overlapped \/ Pending)
        /\ IF active = None THEN UNCHANGED <<sess, hookVars>>
           ELSE Disconnect /\ sess' = None
    BY <1>2 DEF JoinVoice, RoomToJoin
  <2>2. joins' \in [Channel -> 0..MaxJoins] /\ overlapped' \in BOOLEAN
    BY <2>1, BoundAssumption DEF CallInv, Pending
  <2>3. OneJoin'
    <3> SUFFICES ASSUME ~overlapped', NEW a \in Channel, NEW b \in Channel,
                        joins'[a] > 0, joins'[b] > 0
                 PROVE  a = b /\ joins'[a] = 1
      BY DEF OneJoin
    <3>0. ~Pending
      BY <2>1
    <3>1. \A x \in Channel : joins[x] \in Nat /\ ~(joins[x] > 0)
      BY <3>0, BoundAssumption DEF Pending, CallInv
    <3>2. \A x \in Channel : joins'[x] = IF x = ch THEN joins[x] + 1 ELSE joins[x]
      BY <2>1 DEF CallInv
    <3> QED BY <3>1, <3>2
  <2>4. /\ cur' = None /\ isConnected' = FALSE /\ peerIn' \in BOOLEAN
        /\ clients' \in Seq(Client) /\ Len(clients') = Len(clients)
        /\ DOMAIN clients' = DOMAIN clients
        /\ \A c \in DOMAIN clients : ~clients'[c].alive
        /\ sess' \in Channel \cup {None}
    <3>1. CASE active = None
      <4>1. cur = None /\ UNCHANGED <<sess, clients, cur, isConnected, peerIn>>
        BY <2>1, <3>1 DEF CallInv, OneCallAtATime, ShownCallIsConnected, hookVars
      <4>2. None \notin DOMAIN clients
        BY NoneAssumption DEF CallInv
      <4> QED BY <4>1, <4>2
              DEF CallInv, OneCallAtATime, ShownCallIsConnected, OnlyCurrentLives
    <3>2. CASE active # None
      BY <2>1, <3>2, Disconnected
    <3> QED BY <3>1, <3>2
  <2>5. None \notin DOMAIN clients
    BY NoneAssumption DEF CallInv
  <2>6. OneCallAtATime' /\ NothingHeld'
    BY <2>4, <2>5
       DEF OneCallAtATime, ShownCallIsConnected, OnlyCurrentLives, NothingHeld
  <2> QED BY <2>2, <2>3, <2>4, <2>6 DEF CallInv
<1> QED BY <1>1, <1>2

\* leaveVoice keeps it, and afterwards no call is shown.
LEMMA LeaveKeeps ==
  ASSUME CallInv, LeaveVoice, UNCHANGED <<joins, overlapped>>,
         kicks' \subseteq kicks
  PROVE  CallInv' /\ peerIn' \in BOOLEAN /\ active' = None
<1>1. CASE active = None
  <2>1. active' = None /\ UNCHANGED <<sess, clients, cur, isConnected, peerIn>>
    BY <1>1 DEF LeaveVoice, hookVars
  <2> QED BY <1>1, <2>1
          DEF CallInv, OneCallAtATime, ShownCallIsConnected, OnlyCurrentLives,
              OneJoin, NothingHeld, Pending
<1>2. CASE active # None
  <2>1. Disconnect /\ sess' = None /\ active' = None
    BY <1>2 DEF LeaveVoice
  <2>2. None \notin DOMAIN clients
    BY NoneAssumption DEF CallInv
  <2> QED BY <2>1, <2>2, Disconnected
          DEF CallInv, OneCallAtATime, ShownCallIsConnected, OnlyCurrentLives,
              OneJoin, NothingHeld, Pending
<1> QED BY <1>1, <1>2

\* The first message of a socket's life after another keeps the half of the
\* call as long as the client's channel and its peer connection are left alone.
LEMMA SocketKeeps ==
  ASSUME CallInv, NEW c \in DOMAIN clients, clients' \in Seq(Client),
         Len(clients') = Len(clients), UNCHANGED <<cur, peerIn, callVars>>,
         kicks' \subseteq DOMAIN clients,
         \A i \in DOMAIN clients : /\ clients'[i].chan = clients[i].chan
                                   /\ clients'[i].alive = clients[i].alive,
         \A i \in DOMAIN clients : clients[i].joined => clients'[i].joined,
         isConnected' \in BOOLEAN,
         isConnected' => isConnected \/ (c = cur /\ clients'[c].joined)
  PROVE  CallInv'
<1>1. DOMAIN clients' = DOMAIN clients /\ None \notin DOMAIN clients
  BY NoneAssumption DEF CallInv
<1>2. UNCHANGED <<active, sess, joins, overlapped, cur, peerIn>>
  BY DEF callVars
<1>3. OneJoin' /\ NothingHeld'
  BY <1>2 DEF CallInv, OneJoin, NothingHeld, Pending
<1>4. OnlyCurrentLives'
  BY <1>1, <1>2 DEF CallInv, OneCallAtATime, OnlyCurrentLives
<1>5. ShownCallIsConnected'
  BY <1>1, <1>2 DEF CallInv, OneCallAtATime, ShownCallIsConnected
<1> QED BY <1>1, <1>2, <1>3, <1>4, <1>5 DEF CallInv, OneCallAtATime

\* One join less under way.
LEMMA JoinEnds ==
  ASSUME CallInv, NEW ch \in Channel, joins[ch] > 0,
         joins' = [joins EXCEPT ![ch] = @ - 1], UNCHANGED overlapped
  PROVE  /\ joins' \in [Channel -> 0..MaxJoins]
         /\ OneJoin'
         /\ ~overlapped => ~Pending'
         /\ Pending
<1>1. \A x \in Channel : joins[x] \in 0..MaxJoins
  BY DEF CallInv
<1>2. \A x \in Channel : joins'[x] = IF x = ch THEN joins[x] - 1 ELSE joins[x]
  BY DEF CallInv
<1>3. joins' \in [Channel -> 0..MaxJoins]
  BY <1>1, BoundAssumption DEF CallInv
<1>4. ASSUME ~overlapped, NEW x \in Channel PROVE ~(joins'[x] > 0)
  <2>1. joins[x] > 0 => x = ch /\ joins[x] = 1
    BY <1>4 DEF CallInv, OneJoin
  <2>2. joins[x] \in Nat
    BY <1>1, BoundAssumption
  <2> QED BY <1>2, <2>1, <2>2
<1> QED BY <1>3, <1>4 DEF OneJoin, Pending

-----------------------------------------------------------------------------
(* The ring.                                                               *)

\* The watcher leaves no direct call that is not shown.
LEMMA Watched ==
  ASSUME NEW call \in DmCall \cup {None}, NEW shown, NEW said, 
         said \subseteq [kind : CallKind, chan : Dm],
         posts \subseteq [kind : CallKind, chan : Dm],
         Watch(call, shown, said), peerIn' \in BOOLEAN
  PROVE  /\ dm' \in DmCall \cup {None}
         /\ dm' # None => dm'.chan = shown
         /\ posts' \subseteq [kind : CallKind, chan : Dm]
         /\ ~Dropped(call, shown) => posts' = posts \cup said
<1>1. call # None => /\ call \in DmCall
                     /\ [call EXCEPT !.live = TRUE] \in DmCall
                     /\ [call EXCEPT !.live = TRUE].chan = call.chan
                     /\ call.chan \in Dm /\ call.live \in BOOLEAN
  BY DEF DmCall
<1>2. dm' \in DmCall \cup {None} /\ (dm' # None => dm'.chan = shown)
  BY <1>1 DEF Watch, Dropped
<1>3. ~Dropped(call, shown) => posts' = posts \cup said
  BY DEF Watch
<1>4. posts' \subseteq [kind : CallKind, chan : Dm]
  <2>1. CASE ~Dropped(call, shown)
    BY <1>3, <2>1
  <2>2. CASE Dropped(call, shown)
    <3>1. [kind |-> IF call.live THEN "ended" ELSE "cancel", chan |-> call.chan]
             \in [kind : CallKind, chan : Dm]
      BY <1>1, <2>2 DEF Dropped, CallKind
    <3> QED BY <2>2, <3>1 DEF Watch
  <2> QED BY <2>1, <2>2
<1> QED BY <1>2, <1>3, <1>4

\* What is left of the ring's half when the watcher has run.
LEMMA RingKeeps ==
  ASSUME IInv, NEW call \in DmCall \cup {None}, NEW said,
         said \subseteq [kind : CallKind, chan : Dm],
         Watch(call, active', said), peerIn' \in BOOLEAN,
         incoming' \in Dm \cup {None},
         inbox' \in Seq(CallEvent) /\ Len(inbox') <= Backlog,
         UNCHANGED peerEvents
  PROVE  RingInv'
<1>1. posts \subseteq [kind : CallKind, chan : Dm]
  BY DEF IInv, RingInv
<1>2. /\ dm' \in DmCall \cup {None}
      /\ dm' # None => dm'.chan = active'
      /\ posts' \subseteq [kind : CallKind, chan : Dm]
  BY <1>1, Watched
<1> QED BY <1>2 DEF IInv, RingInv

-----------------------------------------------------------------------------
(* One lemma per group of actions.                                         *)

\* A session is given or refused.
LEMMA SessionStep ==
  ASSUME IInv, NEW ch \in Channel, SessionGiven(ch) \/ SessionRefused(ch)
  PROVE  IInv'
<1>1. CallInv /\ RingInv /\ None \notin DOMAIN clients
  BY NoneAssumption DEF IInv, CallInv
<1>2. CASE SessionRefused(ch)
  <2>1. /\ joins' \in [Channel -> 0..MaxJoins] /\ OneJoin'
        /\ ~overlapped => ~Pending'
    BY <1>1, <1>2, JoinEnds DEF SessionRefused
  <2>2. UNCHANGED <<active, sess, overlapped, clients, cur, isConnected, peerIn,
                    kicks, dm, incoming, posts, inbox, peerEvents>>
    BY <1>2 DEF SessionRefused, clientVars, hookVars, ringVars
  <2>3. OneCallAtATime'
    BY <1>1, <2>2 DEF CallInv, OneCallAtATime, ShownCallIsConnected,
                      OnlyCurrentLives
  <2>4. CallInv'
    BY <1>1, <2>1, <2>2, <2>3 DEF CallInv, NothingHeld
  <2>5. RingInv'
    BY <1>1, <2>2 DEF RingInv
  <2> QED BY <2>4, <2>5 DEF IInv
<1>3. CASE SessionGiven(ch)
  <2>1. /\ joins' \in [Channel -> 0..MaxJoins] /\ OneJoin'
        /\ ~overlapped => ~Pending' /\ Pending
    BY <1>1, <1>3, JoinEnds DEF SessionGiven
  <2>2. /\ active' = ch /\ sess' = ch /\ Connect(ch) /\ Watch(dm, ch, {})
        /\ Len(clients) < MaxClients
        /\ UNCHANGED <<overlapped, kicks, incoming, inbox, peerEvents>>
    BY <1>3 DEF SessionGiven
  <2>3. active' # None
    BY <2>2, NoneAssumption
  <2>4. /\ clients' \in Seq(Client) /\ Len(clients') <= MaxClients
        /\ DOMAIN clients \subseteq DOMAIN clients'
        /\ cur' \in DOMAIN clients' \cup {None}
        /\ isConnected' \in BOOLEAN /\ peerIn' \in BOOLEAN
        /\ OneCallAtATime'
    <3>1. CASE cur # None
      <4>1. UNCHANGED <<clients, cur, isConnected, peerIn>>
        BY <2>2, <3>1 DEF Connect, hookVars
      <4>2. overlapped'
        BY <1>1, <2>1, <2>2, <3>1 DEF CallInv, NothingHeld
      <4>3. OneCallAtATime'
        BY <1>1, <2>3, <4>1, <4>2
           DEF CallInv, OneCallAtATime, ShownCallIsConnected, OnlyCurrentLives
      <4> QED BY <1>1, <4>1, <4>3 DEF CallInv
    <3>2. CASE cur = None
      <4> DEFINE new == [chan |-> ch, ws |-> "connecting", alive |-> TRUE,
                         joined |-> FALSE]
      <4>1. /\ clients' = Append(clients, new) /\ cur' = Len(clients) + 1
            /\ UNCHANGED <<isConnected, peerIn>>
        BY <2>2, <3>2 DEF Connect
      <4>2. new \in Client /\ new.alive /\ new.chan = ch
        BY DEF Client
      <4>3. /\ clients \in Seq(Client) /\ Len(clients) \in Nat
            /\ DOMAIN clients = 1..Len(clients)
        BY <1>1 DEF CallInv
      <4>4. /\ clients' \in Seq(Client) /\ Len(clients') = Len(clients) + 1
            /\ DOMAIN clients' = 1..Len(clients) + 1
            /\ \A i \in 1..Len(clients) : clients'[i] = clients[i]
            /\ clients'[Len(clients) + 1] = new
        <5> HIDE DEF new
        <5> QED BY <4>1, <4>2, <4>3
      <4>5. ~isConnected /\ \A c \in DOMAIN clients : ~clients[c].alive
        BY <1>1, <3>2 DEF CallInv, OneCallAtATime, ShownCallIsConnected,
                          OnlyCurrentLives
      <4>6. OnlyCurrentLives'
        <5> HIDE DEF new
        <5> SUFFICES ASSUME NEW c \in DOMAIN clients'
                     PROVE  clients'[c].alive <=> c = cur'
          BY DEF OnlyCurrentLives
        <5>1. CASE c = Len(clients) + 1
          BY <4>1, <4>2, <4>4, <5>1
        <5>2. CASE c # Len(clients) + 1
          <6>1. c \in DOMAIN clients
            BY <4>3, <4>4, <5>2
          <6> QED BY <4>1, <4>3, <4>4, <4>5, <5>2, <6>1
        <5> QED BY <5>1, <5>2
      <4>7. ShownCallIsConnected'
        <5> HIDE DEF new
        <5> QED BY <2>2, <2>3, <4>1, <4>2, <4>4, <4>5 DEF ShownCallIsConnected
      <4>8. Len(clients') <= MaxClients
        BY <2>2, <4>3, <4>4, BoundAssumption
      <4> HIDE DEF new
      <4> QED BY <1>1, <4>1, <4>3, <4>4, <4>6, <4>7, <4>8
              DEF CallInv, OneCallAtATime
    <3> QED BY <3>1, <3>2
  <2>5. CallInv'
    BY <1>1, <2>1, <2>2, <2>4 DEF CallInv, NothingHeld
  <2>6. RingInv'
    <3>1. dm \in DmCall \cup {None} /\ incoming \in Dm \cup {None}
          /\ inbox \in Seq(CallEvent) /\ Len(inbox) <= Backlog
      BY <1>1 DEF RingInv
    <3> QED BY <1>1, <2>2, <2>4, <3>1, RingKeeps
  <2> QED BY <2>5, <2>6 DEF IInv
<1> QED BY <1>2, <1>3

\* A click: joins and leaves.
LEMMA ClickStep ==
  ASSUME IInv, ClickLeave \/ (\E ch \in Channel : ClickJoin(ch))
  PROVE  IInv'
<1>1. CallInv /\ RingInv
  BY DEF IInv
<1>2. /\ dm \in DmCall \cup {None} /\ incoming \in Dm \cup {None}
      /\ inbox \in Seq(CallEvent) /\ Len(inbox) <= Backlog
  BY <1>1 DEF RingInv
<1>3. CASE ClickLeave
  <2>1. CallInv' /\ peerIn' \in BOOLEAN /\ active' = None
    BY <1>1, <1>3, LeaveKeeps DEF ClickLeave
  <2>2. RingInv'
    BY <1>2, <1>3, <2>1, RingKeeps DEF ClickLeave
  <2> QED BY <2>1, <2>2 DEF IInv
<1>4. ASSUME NEW ch \in Channel, ClickJoin(ch)
      PROVE  IInv'
  <2>1. CallInv'
    BY <1>1, <1>4, JoinKeeps DEF ClickJoin
  <2>2. RingInv'
    BY <1>1, <1>4 DEF ClickJoin, ringVars, RingInv
  <2> QED BY <2>1, <2>2 DEF IInv
<1> QED BY <1>3, <1>4

\* A step of a client's socket.
LEMMA SocketStep ==
  ASSUME IInv, NEW c \in DOMAIN clients,
         SocketOpens(c) \/ Answered(c) \/ SocketCloses(c) \/ KickArrives(c)
  PROVE  IInv'
<1>1. CallInv /\ RingInv
  BY DEF IInv
<1>2. /\ clients \in Seq(Client) /\ clients[c] \in Client
      /\ kicks \subseteq DOMAIN clients /\ isConnected \in BOOLEAN
      /\ \A i \in DOMAIN clients : clients[i].alive <=> i = cur
  BY <1>1 DEF CallInv, OneCallAtATime, OnlyCurrentLives
<1>3. UNCHANGED <<callVars, ringVars, cur, peerIn>>
  BY DEF SocketOpens, Answered, SocketCloses, KickArrives, hookVars
<1>4. RingInv'
  BY <1>1, <1>3 DEF RingInv, ringVars, callVars
<1>5. CASE SocketOpens(c)
  <2>1. clients' = [clients EXCEPT ![c] = [clients[c] EXCEPT !.ws = "open"]]
        /\ UNCHANGED <<isConnected, kicks>>
    BY <1>2, <1>5 DEF SocketOpens
  <2>2. [clients[c] EXCEPT !.ws = "open"] \in Client
    BY <1>2 DEF Client
  <2>3. /\ clients' \in Seq(Client) /\ Len(clients') = Len(clients)
        /\ \A i \in DOMAIN clients :
              /\ clients'[i].chan = clients[i].chan
              /\ clients'[i].alive = clients[i].alive
              /\ clients[i].joined => clients'[i].joined
    BY <1>2, <2>1, <2>2 DEF Client
  <2>4. CallInv'
    BY <1>1, <1>2, <1>3, <2>1, <2>3, SocketKeeps
  <2> QED BY <1>4, <2>4 DEF IInv
<1>6. CASE Answered(c)
  <2>1. clients' = [clients EXCEPT ![c] = [clients[c] EXCEPT !.joined = TRUE]]
        /\ isConnected' = TRUE /\ kicks' = kicks /\ c = cur
    BY <1>2, <1>6 DEF Answered
  <2>2. [clients[c] EXCEPT !.joined = TRUE] \in Client
    BY <1>2 DEF Client
  <2>3. /\ clients' \in Seq(Client) /\ Len(clients') = Len(clients)
        /\ \A i \in DOMAIN clients :
              /\ clients'[i].chan = clients[i].chan
              /\ clients'[i].alive = clients[i].alive
              /\ clients[i].joined => clients'[i].joined
        /\ clients'[c].joined
    BY <1>2, <2>1, <2>2 DEF Client
  <2>4. CallInv'
    BY <1>1, <1>2, <1>3, <2>1, <2>3, SocketKeeps
  <2> QED BY <1>4, <2>4 DEF IInv
<1>7. CASE SocketCloses(c)
  <2>1. clients' = [clients EXCEPT ![c] = [clients[c] EXCEPT !.ws = "closed"]]
        /\ isConnected' = FALSE /\ kicks' = kicks
    BY <1>2, <1>7 DEF SocketCloses
  <2>2. [clients[c] EXCEPT !.ws = "closed"] \in Client
    BY <1>2 DEF Client
  <2>3. /\ clients' \in Seq(Client) /\ Len(clients') = Len(clients)
        /\ \A i \in DOMAIN clients :
              /\ clients'[i].chan = clients[i].chan
              /\ clients'[i].alive = clients[i].alive
              /\ clients[i].joined => clients'[i].joined
    BY <1>2, <2>1, <2>2 DEF Client
  <2>4. CallInv'
    BY <1>1, <1>2, <1>3, <2>1, <2>3, SocketKeeps
  <2> QED BY <1>4, <2>4 DEF IInv
<1>8. CASE KickArrives(c)
  <2>1. UNCHANGED <<clients, isConnected>> /\ kicks' = kicks \cup {c}
    BY <1>8 DEF KickArrives, hookVars
  <2> QED BY <1>1, <1>2, <1>3, <1>4, <2>1, SocketKeeps DEF IInv
<1> QED BY <1>5, <1>6, <1>7, <1>8

\* A kick's turn.
LEMMA KickStep ==
  ASSUME IInv, NEW c \in DOMAIN clients, Kicked(c)
  PROVE  IInv'
<1>1. CallInv /\ RingInv
  BY DEF IInv
<1>2. /\ dm \in DmCall \cup {None} /\ incoming \in Dm \cup {None}
      /\ inbox \in Seq(CallEvent) /\ Len(inbox) <= Backlog
  BY <1>1 DEF RingInv
<1>3. /\ kicks' = kicks \ {c}
      /\ UNCHANGED <<joins, overlapped, incoming, inbox, peerEvents>>
  BY DEF Kicked
<1>4. CASE KickHeard(c)
  <2>1. LeaveVoice /\ Watch(dm, None, {})
    BY <1>4 DEF Kicked
  <2>2. CallInv' /\ peerIn' \in BOOLEAN /\ active' = None
    BY <1>1, <1>3, <2>1, LeaveKeeps
  <2>3. RingInv'
    BY <1>2, <1>3, <2>1, <2>2, RingKeeps
  <2> QED BY <2>2, <2>3 DEF IInv
<1>5. CASE ~KickHeard(c)
  <2>1. UNCHANGED <<active, sess, clients, cur, isConnected, peerIn, dm, posts>>
    BY <1>5 DEF Kicked, hookVars
  <2>2. CallInv'
    BY <1>1, <1>3, <2>1
       DEF CallInv, OneCallAtATime, ShownCallIsConnected, OnlyCurrentLives,
           OneJoin, NothingHeld, Pending
  <2>3. RingInv'
    BY <1>1, <1>3, <2>1 DEF RingInv
  <2> QED BY <2>2, <2>3 DEF IInv
<1> QED BY <1>4, <1>5

\* The peer comes and goes.
LEMMA PeerStep ==
  ASSUME IInv, PeerComesAndGoes
  PROVE  IInv'
<1>1. CallInv /\ RingInv
  BY DEF IInv
<1>2. /\ peerIn' \in BOOLEAN
      /\ UNCHANGED <<clients, cur, isConnected, kicks, active, sess, joins,
                     overlapped, incoming, posts, inbox, peerEvents>>
  BY <1>1 DEF PeerComesAndGoes, callVars, CallInv
<1>3. CallInv'
  BY <1>1, <1>2
     DEF CallInv, OneCallAtATime, ShownCallIsConnected, OnlyCurrentLives,
         OneJoin, NothingHeld, Pending
<1>4. dm # None => /\ [dm EXCEPT !.live = TRUE] \in DmCall
                   /\ [dm EXCEPT !.live = TRUE].chan = dm.chan
  BY <1>1 DEF RingInv, DmCall
<1>5. dm' \in DmCall \cup {None} /\ (dm' # None => dm'.chan = active')
  BY <1>1, <1>2, <1>4 DEF RingInv, PeerComesAndGoes
<1>6. RingInv'
  BY <1>1, <1>2, <1>5 DEF RingInv
<1> QED BY <1>3, <1>6 DEF IInv

\* A direct call is started or accepted.
LEMMA CallStep ==
  ASSUME IInv, Accept \/ (\E ch \in Dm : StartCall(ch))
  PROVE  IInv'
<1>1. CallInv /\ RingInv
  BY DEF IInv
<1>2. /\ dm \in DmCall \cup {None} /\ incoming \in Dm \cup {None}
      /\ inbox \in Seq(CallEvent) /\ Len(inbox) <= Backlog
  BY <1>1 DEF RingInv
<1>3. ASSUME NEW ch \in Dm, StartCall(ch)
      PROVE  IInv'
  <2>1. /\ JoinVoice(ch)
        /\ Watch([chan |-> ch, inviter |-> TRUE, live |-> FALSE], active,
                 {[kind |-> "invite", chan |-> ch]})
        /\ UNCHANGED <<active, kicks, incoming, inbox, peerEvents>>
    BY <1>3 DEF StartCall
  <2>2. CallInv' /\ peerIn' \in BOOLEAN
    BY <1>1, <2>1, DmAssumption, JoinKeeps
  <2>3. /\ [chan |-> ch, inviter |-> TRUE, live |-> FALSE] \in DmCall
        /\ {[kind |-> "invite", chan |-> ch]} \subseteq [kind : CallKind, chan : Dm]
    BY DEF DmCall, CallKind
  <2>4. RingInv'
    BY <1>2, <2>1, <2>2, <2>3, RingKeeps
  <2> QED BY <2>2, <2>4 DEF IInv
<1>4. CASE Accept
  <2>1. /\ incoming \in Dm /\ incoming' = None
        /\ JoinVoice(incoming)
        /\ Watch([chan |-> incoming, inviter |-> FALSE, live |-> TRUE], active, {})
        /\ UNCHANGED <<active, kicks, inbox, peerEvents>>
    BY <1>2, <1>4 DEF Accept
  <2>2. CallInv' /\ peerIn' \in BOOLEAN
    BY <1>1, <2>1, DmAssumption, JoinKeeps
  <2>3. [chan |-> incoming, inviter |-> FALSE, live |-> TRUE] \in DmCall
    BY <2>1 DEF DmCall
  <2>4. RingInv'
    BY <1>2, <2>1, <2>2, <2>3, RingKeeps
  <2> QED BY <2>2, <2>4 DEF IInv
<1> QED BY <1>3, <1>4

\* Requests and events on their way.
LEMMA WireStep ==
  ASSUME IInv,
         \/ Refuse
         \/ \E p \in posts : Served(p) \/ PostFails(p)
         \/ \E kind \in CallKind, ch \in Dm : PeerPosts(kind, ch)
  PROVE  IInv'
<1>1. CallInv /\ RingInv
  BY DEF IInv
<1>2. UNCHANGED <<active, sess, joins, overlapped, clients, cur, isConnected,
                  peerIn, kicks, dm>>
  BY DEF Refuse, Served, PostFails, PeerPosts, callVars, clientVars, hookVars
<1>3. CallInv'
  BY <1>1, <1>2
     DEF CallInv, OneCallAtATime, ShownCallIsConnected, OnlyCurrentLives,
         OneJoin, NothingHeld, Pending
<1>4. CASE Refuse
  <2>1. [kind |-> "decline", chan |-> incoming] \in [kind : CallKind, chan : Dm]
    BY <1>1, <1>4 DEF Refuse, RingInv, CallKind
  <2> QED BY <1>1, <1>2, <1>3, <1>4, <2>1 DEF Refuse, RingInv, IInv
<1>5. ASSUME NEW p \in posts, Served(p) PROVE IInv'
  <2>1. [kind |-> p.kind, chan |-> p.chan, own |-> TRUE] \in CallEvent
    BY <1>1 DEF RingInv, CallEvent
  <2>2. inbox' \in Seq(CallEvent) /\ Len(inbox') <= Backlog
    BY <1>1, <1>5, <2>1, BoundAssumption DEF Served, RingInv
  <2> QED BY <1>1, <1>2, <1>3, <1>5, <2>2 DEF Served, RingInv, IInv
<1>6. ASSUME NEW p \in posts, PostFails(p) PROVE IInv'
  BY <1>1, <1>2, <1>3, <1>6 DEF PostFails, RingInv, IInv
<1>7. ASSUME NEW kind \in CallKind, NEW ch \in Dm, PeerPosts(kind, ch) PROVE IInv'
  <2>1. [kind |-> kind, chan |-> ch, own |-> FALSE] \in CallEvent
    BY DEF CallEvent
  <2>2. inbox' \in Seq(CallEvent) /\ Len(inbox') <= Backlog
    BY <1>1, <1>7, <2>1, BoundAssumption DEF PeerPosts, RingInv
  <2>3. peerEvents' \in 0..MaxPeer
    BY <1>1, <1>7, BoundAssumption DEF PeerPosts, RingInv
  <2> QED BY <1>1, <1>2, <1>3, <1>7, <2>2, <2>3 DEF PeerPosts, RingInv, IInv
<1> QED BY <1>4, <1>5, <1>6, <1>7

\* The next event is handled.
LEMMA EventStep ==
  ASSUME IInv, HandleEvent
  PROVE  IInv'
<1>1. CallInv /\ RingInv
  BY DEF IInv
<1> DEFINE e == Head(inbox)
<1>2. /\ inbox # <<>> /\ inbox' = Tail(inbox)
      /\ UNCHANGED <<joins, overlapped, kicks, peerEvents>>
  BY DEF HandleEvent
<1>3. e \in CallEvent /\ inbox' \in Seq(CallEvent) /\ Len(inbox') <= Backlog
  BY <1>1, <1>2, BoundAssumption DEF RingInv
<1>4. e.chan \in Dm
  BY <1>3 DEF CallEvent
<1>5. ASSUME UNCHANGED <<active, sess, hookVars, dm, posts>>,
             incoming' \in Dm \cup {None}
      PROVE  IInv'
  <2>1. CallInv'
    BY <1>1, <1>2, <1>5
       DEF CallInv, OneCallAtATime, ShownCallIsConnected, OnlyCurrentLives,
           OneJoin, NothingHeld, Pending, hookVars
  <2>2. RingInv'
    BY <1>1, <1>2, <1>3, <1>5 DEF RingInv
  <2> QED BY <2>1, <2>2 DEF IInv
<1>6. CASE e.kind = "invite" /\ ~e.own
  BY <1>4, <1>5, <1>6 DEF HandleEvent
<1>7. CASE e.kind = "cancel"
  BY <1>1, <1>4, <1>5, <1>7 DEF HandleEvent, RingInv
<1>8. CASE e.kind \in {"decline", "ended"} /\ ~e.own
  <2>1. EndedByPeer(e.chan) /\ UNCHANGED incoming
    BY <1>8 DEF HandleEvent
  <2> DEFINE call == IF dm # None /\ dm.chan = e.chan THEN None ELSE dm
  <2>2. call \in DmCall \cup {None} /\ incoming' \in Dm \cup {None}
    BY <1>1, <2>1 DEF RingInv
  <2>3. CASE active = e.chan
    <3>1. LeaveVoice /\ Watch(call, None, {})
      BY <2>1, <2>3 DEF EndedByPeer
    <3>2. CallInv' /\ peerIn' \in BOOLEAN /\ active' = None
      BY <1>1, <1>2, <3>1, LeaveKeeps
    <3> HIDE DEF call
    <3>3. RingInv'
      BY <1>2, <1>3, <2>2, <3>1, <3>2, RingKeeps
    <3> QED BY <3>2, <3>3 DEF IInv
  <2>4. CASE active # e.chan
    <3>1. UNCHANGED <<active, sess, clients, cur, isConnected, peerIn>>
          /\ Watch(call, active, {})
      BY <2>1, <2>4 DEF EndedByPeer, hookVars
    <3>2. CallInv'
      BY <1>1, <1>2, <3>1
         DEF CallInv, OneCallAtATime, ShownCallIsConnected, OnlyCurrentLives,
             OneJoin, NothingHeld, Pending
    <3>3. peerIn' \in BOOLEAN
      BY <3>2 DEF CallInv
    <3> HIDE DEF call
    <3>4. RingInv'
      BY <1>2, <1>3, <2>2, <3>1, <3>3, RingKeeps
    <3> QED BY <3>2, <3>4 DEF IInv
  <2> QED BY <2>3, <2>4
<1>9. CASE /\ ~(e.kind = "invite" /\ ~e.own)
           /\ e.kind # "cancel"
           /\ ~(e.kind \in {"decline", "ended"} /\ ~e.own)
  <2>1. UNCHANGED <<active, sess, hookVars, dm, incoming, posts>>
    BY <1>9 DEF HandleEvent
  <2> QED BY <1>1, <1>5, <2>1 DEF RingInv
<1> QED BY <1>6, <1>7, <1>8, <1>9

-----------------------------------------------------------------------------
(* The invariant and the theorems.                                         *)

\* Every step keeps the invariant.
LEMMA InvNext == IInv /\ [Next]_vars => IInv'
<1> SUFFICES ASSUME IInv, [Next]_vars PROVE IInv'
  OBVIOUS
<1>1. CASE UNCHANGED vars
  <2>1. CallInv'
    BY <1>1 DEF IInv, CallInv, OneCallAtATime, ShownCallIsConnected,
                OnlyCurrentLives, OneJoin, NothingHeld, Pending, vars, callVars,
                clientVars, hookVars
  <2>2. RingInv'
    BY <1>1 DEF IInv, RingInv, vars, callVars, ringVars
  <2> QED BY <2>1, <2>2 DEF IInv
<1>2. CASE Next
  <2>1. ASSUME NEW ch \in Channel,
               ClickJoin(ch) \/ SessionGiven(ch) \/ SessionRefused(ch)
        PROVE  IInv'
    BY <2>1, ClickStep, SessionStep
  <2>2. CASE ClickLeave
    BY <2>2, ClickStep
  <2>3. ASSUME NEW c \in DOMAIN clients,
               \/ SocketOpens(c) \/ Answered(c) \/ SocketCloses(c)
               \/ KickArrives(c) \/ Kicked(c)
        PROVE  IInv'
    BY <2>3, SocketStep, KickStep
  <2>4. CASE PeerComesAndGoes
    BY <2>4, PeerStep
  <2>5. ASSUME NEW ch \in Dm, StartCall(ch) PROVE IInv'
    BY <2>5, CallStep
  <2>6. CASE Accept
    BY <2>6, CallStep
  <2>7. CASE Decline \/ RingTimesOut
    BY <2>7, WireStep DEF Decline, RingTimesOut
  <2>8. ASSUME NEW p \in posts, Served(p) \/ PostFails(p) PROVE IInv'
    BY <2>8, WireStep
  <2>9. ASSUME NEW kind \in CallKind, NEW ch \in Dm, PeerPosts(kind, ch)
        PROVE  IInv'
    BY <2>9, WireStep
  <2>10. CASE HandleEvent
    BY <2>10, EventStep
  <2> QED BY <1>2, <2>1, <2>2, <2>3, <2>4, <2>5, <2>6, <2>7, <2>8, <2>9, <2>10
          DEF Next
<1> QED BY <1>1, <1>2

\* Every reachable state satisfies the invariant.
LEMMA Reached == Spec => []IInv
BY InvInit, InvNext, PTL DEF Spec

\* Every variable keeps its type, whatever the bounds: in particular the
\* current client is one of those the tab made, and no kick waits for another.
THEOREM TypeCorrect == Spec => []TypeOK
<1>1. IInv => TypeOK
  BY DEF IInv, CallInv, RingInv, TypeOK
<1> QED BY <1>1, Reached, PTL

\* A tab without a call holds no client, a tab that says it is connected holds
\* one that joined, every other client has been disconnected, and without
\* overlapping joins the call shown is the one connected: joinVoice,
\* leaveVoice and the hook's connect and disconnect keep it that way for any
\* number of channels, clients, joins, kicks and events.
THEOREM OneCallCorrect == Spec => []OneCallAtATime
<1>1. IInv => OneCallAtATime
  BY DEF IInv, CallInv
<1> QED BY <1>1, Reached, PTL

\* The only kick that changes the call shown is one of the client the tab
\* holds: handleServerMessage drops what a disconnected client still hears,
\* and every client but the current one is disconnected.
THEOREM KickCorrect == Spec => OnlyOwnKickEndsCall
<1>1. ASSUME IInv, [Next]_vars
      PROVE  [\A c \in kicks \ kicks' : active' # active => c = cur]_vars
  <2> SUFFICES ASSUME NEW c \in kicks, c \notin kicks', active' # active, Next
               PROVE  c = cur
    BY <1>1 DEF vars, clientVars
  <2>1. \E k \in DOMAIN clients : Kicked(k)
    BY DEF Next, ClickJoin, SessionGiven, SessionRefused, ClickLeave, SocketOpens,
           Answered, SocketCloses, KickArrives, PeerComesAndGoes, StartCall, Accept,
           Decline, RingTimesOut, Refuse, Served, PostFails, PeerPosts, HandleEvent,
           clientVars, hookVars, callVars
  <2>2. PICK k \in DOMAIN clients : Kicked(k)
    BY <2>1
  <2>3. c = k /\ KickHeard(k)
    BY <2>2 DEF Kicked
  <2> QED BY <1>1, <2>2, <2>3
          DEF KickHeard, IInv, CallInv, OneCallAtATime, OnlyCurrentLives
<1> QED BY <1>1, Reached, PTL DEF Spec, OnlyOwnKickEndsCall

\* The peer's decline or hang-up sends nothing: the handler clears dmCall
\* before it leaves, and the direct call, if there is one, is the call shown, so
\* the watcher finds nothing dropped.
THEOREM PeerCorrect == Spec => PeerEndsOnce
<1>1. ASSUME IInv, [Next]_vars
      PROVE  [Len(inbox') < Len(inbox) /\ ~Head(inbox).own
                 => posts' \subseteq posts]_vars
  <2> SUFFICES ASSUME Len(inbox') < Len(inbox), ~Head(inbox).own, Next
               PROVE  posts' \subseteq posts
    BY <1>1
  <2>1. inbox \in Seq(CallEvent) /\ dm \in DmCall \cup {None}
        /\ (dm # None => dm.chan = active) /\ peerIn \in BOOLEAN
        /\ posts \subseteq [kind : CallKind, chan : Dm]
    BY <1>1 DEF IInv, RingInv, CallInv
  <2>2. ~UNCHANGED inbox /\ \A e \in CallEvent : inbox' # Append(inbox, e)
    <3>1. \A e \in CallEvent : Len(Append(inbox, e)) = Len(inbox) + 1
      BY <2>1
    <3> QED BY <2>1, <3>1
  <2>3. ~\E p \in posts : Served(p) \/ PostFails(p)
    <3>1. \A p \in posts : [kind |-> p.kind, chan |-> p.chan, own |-> TRUE] \in CallEvent
      BY <2>1 DEF CallEvent
    <3> QED BY <2>2, <3>1 DEF Served, PostFails
  <2>4. ~\E kind \in CallKind, ch \in Dm : PeerPosts(kind, ch)
    <3>1. \A kind \in CallKind, ch \in Dm :
             [kind |-> kind, chan |-> ch, own |-> FALSE] \in CallEvent
      BY DEF CallEvent
    <3> QED BY <2>2, <3>1 DEF PeerPosts
  <2>5. HandleEvent
    BY <2>2, <2>3, <2>4
       DEF Next, ClickJoin, SessionGiven, SessionRefused, ClickLeave, SocketOpens,
           Answered, SocketCloses, KickArrives, Kicked, PeerComesAndGoes, StartCall,
           Accept, Decline, RingTimesOut, Refuse, ringVars
  <2>6. posts' = posts
    <3> DEFINE e == Head(inbox)
    <3>1. CASE e.kind \in {"decline", "ended"}
      <4>1. EndedByPeer(e.chan)
        BY <2>5, <3>1 DEF HandleEvent
      <4> QED BY <2>1, <4>1 DEF EndedByPeer, Watch, Dropped
    <3>2. CASE e.kind \notin {"decline", "ended"}
      BY <2>5, <3>2 DEF HandleEvent
    <3> QED BY <3>1, <3>2
  <2> QED BY <2>6
<1> QED BY <1>1, Reached, PTL DEF Spec, PeerEndsOnce
=============================================================================
