---------------------------- MODULE ChatService ----------------------------
(***************************************************************************)
(* The chat service's two halves that every event passes: the permission   *)
(* check (ChatAccess) and the gateway (ChatGateway).  run_session asks     *)
(* access::check for each event of the hub and passes on what the user may *)
(* read (services/chat/src/gateway.rs); what it was answered decides which *)
(* events are those of ChatGateway, and nothing of the gateway reaches the *)
(* check.  They share no variable: `half` says which one moves in a        *)
(* behaviour, and what holds of each alone holds of both.                  *)
(***************************************************************************)
EXTENDS ChatGateway, ChatAccess

VARIABLE half

serviceVars == <<half, vars, accessVars>>

\* Of the channels there may be at first, all while the check rests.
ServiceInit ==
    /\ half \in {"gateway", "access"}
    /\ Init /\ AccessInit /\ (half = "gateway" => rooms = Rooms)

GatewayMoves(A) == half = "gateway" /\ A /\ UNCHANGED <<half, accessVars>>
AccessMoves(A) == half = "access" /\ A /\ UNCHANGED <<half, vars>>

ServiceNext == GatewayMoves(Next) \/ AccessMoves(AccessNext)

\* The fairness of the gateway where it moves, as in ChatGateway.  Of the
\* check: what is under way goes on and Redis forgets in time; that anybody
\* announces anything, or that the consumer lives, is not assumed.
ServiceFairness ==
    /\ \A c \in Conn : /\ WF_serviceVars(GatewayMoves(Progress(c)))
                       /\ WF_serviceVars(GatewayMoves(AuthTimeout(c)))
                       /\ WF_serviceVars(GatewayMoves(WriterFails(c) \/ FrameLost(c)))
                       /\ WF_serviceVars(GatewayMoves(TtlElapses(c)))
    /\ WF_serviceVars(GatewayMoves(Receive))
    /\ WF_serviceVars(GatewayMoves(\E c \in Conn : Reconnect(c)))
    /\ WF_serviceVars(GatewayMoves(Reap))
    /\ \A c \in Checks : WF_serviceVars(AccessMoves(CheckGoesOn(c)))
    /\ \A k \in Key : WF_serviceVars(AccessMoves(Expires(k)))

ServiceSpec == ServiceInit /\ [][ServiceNext]_serviceVars /\ ServiceFairness
=============================================================================
