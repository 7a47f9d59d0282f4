----------------------------- MODULE ChatSocket -----------------------------
(***************************************************************************)
(* The timers of the chat SDK: heartbeats, their acknowledgements, and the *)
(* delays of reconnecting.  ChatGateway has the sessions that the frames   *)
(* are about; here a connection is up, dead without anybody being told, or *)
(* gone, and time matters.                                                 *)
(*                                                                         *)
(* Time goes by in units, `Beat` of them to the interval of HELLO.  A      *)
(* timer is the number of units it still has to run; time does not go on   *)
(* while one is due, nor while an acknowledgement is late on a connection  *)
(* that is up.  The timers that are due at the same time fire in any order *)
(* and before or after whatever else happens then.                         *)
(***************************************************************************)
EXTENDS Integers, Sequences

CONSTANTS Beat,      \* HEARTBEAT_INTERVAL_MS, in units
          Lag,       \* the most units an acknowledgement takes
          MaxDialed  \* bound on the WebSockets one client opens

ASSUME SocketAssumption ==
    /\ Beat \in Nat \ {0} /\ MaxDialed \in Nat \ {0}
    /\ Lag \in Nat /\ Lag < Beat

VARIABLES ws,          \* `ws`: how far it is, its network, and HELLO
          dialed,      \* WebSockets opened so far
          firsts,      \* the setTimeouts of startHeartbeat, by connection
          beats,       \* the setIntervals they became
          tracked,     \* heartbeatInterval: the connection of the one, or 0
          ackPending,  \* heartbeatAckPending
          acks,        \* the ages of the acknowledgements on their way
          retry,       \* reconnectTimer: {} or what it has left
          ended,       \* intentionalClose
          quiet,       \* ghost: how long the connection has been dead
          struckDown   \* ghost: a connection that was up was closed by a
                       \* heartbeat, with no interval but its own about

socketVars == <<ws, dialed, firsts, beats, tracked, ackPending, acks, retry,
                ended, quiet, struckDown>>

timers == <<firsts, beats, tracked>>

-----------------------------------------------------------------------------
NoSocket == [is |-> "none", up |-> FALSE, greeted |-> FALSE]
Opening == [is |-> "opening", up |-> TRUE, greeted |-> FALSE]

Timers(longest) == [of : 1..MaxDialed, left : 0..longest]

(* The longest delay of a reconnect is below the interval: 30 s of 41.      *)
Delays == 0..(Beat - 1)

SocketTypeOK ==
    /\ ws \in [is : {"none", "opening", "open", "closing"},
                   up : BOOLEAN, greeted : BOOLEAN]
    /\ dialed \in 1..MaxDialed
    /\ firsts \subseteq Timers(Beat - 1) /\ beats \subseteq Timers(Beat)
    /\ tracked \in 0..MaxDialed
    /\ ackPending \in BOOLEAN
    /\ acks \in Seq(0..Lag)
    /\ \E d \in Delays : retry \in {{}, {d}}
    /\ ended \in BOOLEAN
    /\ quiet \in 0..(2 * Beat + 1) /\ struckDown \in BOOLEAN

(* connect(), which the page calls once, with the client it has just made.    *)
SocketInit ==
    /\ ws = Opening /\ dialed = 1
    /\ firsts = {} /\ beats = {} /\ tracked = 0
    /\ ackPending = FALSE /\ acks = <<>>
    /\ retry = {} /\ ended = FALSE
    /\ quiet = 0 /\ struckDown = FALSE

-----------------------------------------------------------------------------
Open == ws.is = "open"

(* The WebSocket is open.                                                   *)
Opened ==
    /\ ws.is = "opening" /\ ws.up
    /\ ws' = [ws EXCEPT !.is = "open"]
    /\ UNCHANGED <<dialed, timers, ackPending, acks, retry, ended, quiet, struckDown>>

(* clearHeartbeat knows of one interval, the last that was started.         *)
ClearHeartbeat ==
    /\ beats' = {b \in beats : b.of # tracked}
    /\ tracked' = 0

(* Faulty variant: the interval begins with HELLO, not with the first       *)
(* heartbeat.                                                               *)
HelloEager ==
    /\ Open /\ ws.up /\ ~ws.greeted
    /\ ws' = [ws EXCEPT !.greeted = TRUE]
    /\ beats' = {b \in beats : b.of # tracked} \cup {[of |-> dialed, left |-> Beat]}
    /\ tracked' = dialed
    /\ ackPending' = FALSE
    /\ \E d \in 0..(Beat - 1) : firsts' = firsts \cup {[of |-> dialed, left |-> d]}
    /\ UNCHANGED <<dialed, acks, retry, ended, quiet, struckDown>>

(* HELLO: startHeartbeat draws the delay of the first heartbeat, and keeps  *)
(* no handle of that timer.                                                 *)
Hello ==
    /\ Open /\ ws.up /\ ~ws.greeted
    /\ ws' = [ws EXCEPT !.greeted = TRUE]
    /\ ClearHeartbeat
    /\ ackPending' = FALSE
    /\ \E d \in 0..(Beat - 1) : firsts' = firsts \cup {[of |-> dialed, left |-> d]}
    /\ UNCHANGED <<dialed, acks, retry, ended, quiet, struckDown>>

(* sendHeartbeat waits for an acknowledgement even when there is nothing it *)
(* could be sent on; the gateway acknowledges once it knows who is there.   *)
SendHeartbeat ==
    /\ ackPending' = TRUE
    /\ acks' = IF Open /\ ws.up /\ ws.greeted THEN Append(acks, 0) ELSE acks

(* The first timer of a connection, the one that is on or an earlier one.   *)
FirstFires(t) ==
    /\ t.left = 0
    /\ firsts' = firsts \ {t}
    /\ SendHeartbeat
    /\ beats' = beats \cup {[of |-> t.of, left |-> Beat]}
    /\ tracked' = t.of
    /\ UNCHANGED <<ws, dialed, retry, ended, quiet, struckDown>>

(* ws.close(4000).  What arrives from now on is not told to the client.     *)
Shut ==
    /\ ws' = IF ws.is \in {"opening", "open"}
                   THEN [ws EXCEPT !.is = "closing"] ELSE ws
    /\ acks' = <<>>

BeatFires(b) ==
    /\ b.left = 0
    /\ beats' = (beats \ {b}) \cup {[b EXCEPT !.left = Beat]}
    /\ \/ /\ ackPending /\ Shut
          /\ struckDown' = (struckDown \/ (/\ Open /\ ws.up
                                           /\ \A other \in beats : other.of = dialed))
          /\ UNCHANGED ackPending
       \/ /\ ~ackPending /\ SendHeartbeat
          /\ UNCHANGED <<ws, struckDown>>
    /\ UNCHANGED <<dialed, firsts, tracked, retry, ended, quiet>>

(* HEARTBEAT_ACK.                                                           *)
AckComes ==
    /\ Open /\ ws.up /\ acks # <<>>
    /\ ackPending' = FALSE
    /\ acks' = Tail(acks)
    /\ UNCHANGED <<ws, dialed, timers, retry, ended, quiet, struckDown>>

(* RECONNECT.                                                               *)
ReconnectComes ==
    /\ Open /\ ws.up
    /\ Shut
    /\ UNCHANGED <<dialed, timers, ackPending, retry, ended, quiet, struckDown>>

(* The network is gone, and nobody is told.                                 *)
Dies ==
    /\ ws.up
    /\ ws' = [ws EXCEPT !.up = FALSE]
    /\ acks' = <<>>
    /\ UNCHANGED <<dialed, timers, ackPending, retry, ended, quiet, struckDown>>

(* onclose, and scheduleReconnect: the gateway has closed the connection,   *)
(* close() has come to its end, or the browser has given up.                *)
Closed ==
    /\ ws # NoSocket
    /\ ws' = NoSocket /\ acks' = <<>> /\ quiet' = 0
    /\ ClearHeartbeat
    /\ \E d \in Delays : retry' = IF dialed < MaxDialed THEN {d} ELSE {}
    /\ UNCHANGED <<dialed, firsts, ackPending, ended, struckDown>>

(* The reconnect timer: openWebSocket.                                      *)
Retries ==
    /\ retry = {0} /\ retry' = {}
    /\ dialed' = dialed + 1
    /\ ws' = Opening
    /\ UNCHANGED <<timers, ackPending, acks, ended, quiet, struckDown>>

(* disconnect(), when the page goes or the token is renewed: the handlers   *)
(* are taken off before the close.                                          *)
Disconnects ==
    /\ ~ended /\ ended' = TRUE
    /\ ClearHeartbeat /\ retry' = {}
    /\ ws' = NoSocket /\ acks' = <<>> /\ quiet' = 0
    /\ UNCHANGED <<dialed, firsts, ackPending, struckDown>>

(* A unit goes by.                                                          *)
Passes(T) == {[t EXCEPT !.left = @ - 1] : t \in T}

Tick ==
    /\ \A t \in firsts \cup beats : t.left > 0
    /\ \A i \in DOMAIN acks : acks[i] < Lag
    /\ firsts' = Passes(firsts) /\ beats' = Passes(beats)
    /\ acks' = [i \in DOMAIN acks |-> acks[i] + 1]
    /\ 0 \notin retry /\ retry' = {d - 1 : d \in retry}
    /\ quiet' = IF Open /\ ~ws.up /\ ws.greeted THEN quiet + 1 ELSE quiet
    /\ UNCHANGED <<ws, dialed, tracked, ackPending, ended, struckDown>>

SocketNext ==
    \/ Opened \/ Hello \/ AckComes \/ ReconnectComes \/ Dies \/ Closed
    \/ Retries \/ Disconnects \/ Tick
    \/ \E t \in firsts : FirstFires(t)
    \/ \E b \in beats : BeatFires(b)

-----------------------------------------------------------------------------
(* Properties. *)

(* "Missed ACK -> zombie connection" (client.ts:359): a connection that     *)
(* died without being closed is given up within two intervals, wherever     *)
(* the death falls between HELLO, the first heartbeat and an                *)
(* acknowledgement.                                                         *)
DeadIsNoticed == quiet <= 2 * Beat

(* A connection that is up, and acknowledges within an interval, is not     *)
(* taken for a zombie, not even just after a reconnect that left            *)
(* acknowledgements and timers behind; unless an interval of an earlier     *)
(* connection is still running: the first timer of each connection is not   *)
(* cancelled, and its interval is then cleared by nobody (client.ts:347).   *)
UpIsKept == ~struckDown

(* After disconnect() no WebSocket is opened again and none is left open    *)
(* (client.ts:119), whichever timers are still to fire.                     *)
EndIsFinal == ended => ws = NoSocket /\ retry = {}

(* What the heartbeats make of a connection is right.                       *)
HeartbeatsJudgeRight == DeadIsNoticed /\ UpIsKept /\ EndIsFinal
=============================================================================
