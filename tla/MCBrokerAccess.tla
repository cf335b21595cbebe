--------------------------- MODULE MCBrokerAccess ---------------------------
(***************************************************************************)
(* Access to the broker on small instances: the token shared by the        *)
(* processes, and the gateway of one process.  The gateway sees the token  *)
(* only as a call that answers or raises, so a behaviour is of one or of   *)
(* the other and "part" says which.                                        *)
(***************************************************************************)
EXTENDS TokenManager, ApiGateway, TLC

CONSTANTS trader, dashboard, t1, t2, t3

VARIABLE part

(* Two threads of the trader and one of the dashboard. *)
MCHostOf == (t1 :> trader) @@ (t2 :> trader) @@ (t3 :> dashboard)

vars == <<tokenVars, gatewayVars, part>>

Init == part \in {"token", "gateway"} /\ TokenInit /\ GatewayInit
        /\ (part = "gateway" => disk = NoToken)

Next == \/ part = "token" /\ TokenNext /\ UNCHANGED <<gatewayVars, part>>
        \/ part = "gateway" /\ GatewayNext /\ UNCHANGED <<tokenVars, part>>

Spec == Init /\ [][Next]_vars
        /\ \A c \in Callers : WF_vars(/\ part = "gateway"
                                      /\ CallWork(c)
                                      /\ UNCHANGED <<tokenVars, part>>)

(* A process dies or the broker revokes a token, not both (bound).         *)
OneTrouble == crashes > 0 => revoked = NoToken

(* The token: a process issues at most one in five seconds, and two threads *)
(* hold the lock file at once only after a wait timed out or a file was    *)
(* taken for stale.                                                        *)
TokenSound == part = "token" => TokenTypeOK /\ RefreshRateBounded /\ OverlapIsExcused

(* The gateway: an order is accepted twice by one call only when an answer *)
(* was lost, a circuit counts its threshold exactly when it is not NORMAL, *)
(* and a balance lacks pages only after a follower gave up waiting.        *)
GatewaySound ==
  part = "gateway" => /\ GatewayTypeOK
                      /\ ResentOnlyUnanswered /\ OpenCircuitCounts /\ PartialOnlyAfterGivingUp
=============================================================================
