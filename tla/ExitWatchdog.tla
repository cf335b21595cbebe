---------------------------- MODULE ExitWatchdog ----------------------------
(***************************************************************************)
(* The exit watchdog (execution/exit_watchdog.py), step 0 of every cycle   *)
(* of the trading loop: it drives the stops of all open positions, symbol  *)
(* by symbol, looks for exits that hang, records critical failures, blocks *)
(* new BUYs while there are any, and sells again what hangs.               *)
(*                                                                         *)
(* A position is its symbol, its id and whether its last price was at or   *)
(* below its stop.  Its exits (execution/position_manager.py) are modelled *)
(* by their outcome: refused, waiting, or closed; module ExitFlow has the  *)
(* detail of quantities.  One account.                                     *)
(***************************************************************************)
EXTENDS Integers, FiniteSets

CONSTANTS WatchSymbols,
          Rank,             \* symbol -> its place in the table of positions
          Quoted,           \* symbols whose quotes and orders work again and again
          FailLimit,        \* refusals after which a position is quarantined (3)
          MaxBuys           \* bound of the instance

ASSUME WatchdogAssumption ==
  /\ Quoted \subseteq WatchSymbols /\ Rank \in [WatchSymbols -> Nat]
  /\ FailLimit \in Nat \ {0} /\ MaxBuys \in Nat

VARIABLES
  pos,          \* symbol -> [open, id, below, fails]
  holds,        \* symbol -> the account holds shares of it
  pending,      \* symbol -> its SELL: "none", "live", "filled" (not yet reported)
  stamps,       \* position -> lifecycle stages recorded for its id
  failures,     \* active_critical_failures: positions
  blocked,      \* the router's critical_exit_failure_active
  phase,        \* "idle", "check", "retry"
  todo,         \* positions the phase has yet to visit
  buys

watchdogVars == <<pos, holds, pending, stamps, failures, blocked, phase, todo, buys>>

(* A position bought here has an id of its own, one recovered from the     *)
(* broker has the id RECOVERED_<horizon>_<symbol> every time.              *)
Ids == {"BOUGHT", "RECOVERED"}
Positions == WatchSymbols \X Ids
ExitStages == {"STOP", "TRIGGERED", "CREATED"}

NoPosition == [open |-> FALSE, id |-> "BOUGHT", below |-> FALSE, fails |-> 0]
Opened(i) == [NoPosition EXCEPT !.open = TRUE, !.id = i]
Pid(s) == <<s, pos[s].id>>

(* The condition's stamp is not looked at once there is a trigger's.       *)
Last(stages) == IF "TRIGGERED" \in stages THEN stages \ {"STOP"} ELSE stages
Stamp(p, new) == stamps' = [stamps EXCEPT ![p] = Last(@ \cup new)]

(* A bought position's id never comes back: when it closes its stamps no   *)
(* longer matter.                                                          *)
Forget(s) == stamps' = [stamps EXCEPT ![<<s, "BOUGHT">>] = {}]

-----------------------------------------------------------------------------
(* The cycle.                                                              *)

StartCycle ==
  /\ phase = "idle"
  /\ phase' = "check"
  /\ todo' = {Pid(s) : s \in {t \in WatchSymbols : pos[t].open}}
  /\ UNCHANGED <<pos, holds, pending, stamps, failures, blocked, buys>>

(* In the order of the positions' table.                                   *)
Visit(s, p) == /\ s = p[1] /\ p \in todo /\ todo' = todo \ {p}
               /\ \A q \in todo : Rank[s] <= Rank[q[1]]

(* Mutant of CheckFails: the error ends the whole pass.                    *)
CheckFailsAll(s) ==
  /\ phase = "check" /\ \E p \in todo : Visit(s, p)
  /\ phase' = "idle"
  /\ UNCHANGED <<pos, holds, pending, stamps, failures, blocked, buys>>

(* No quote, or an error while the position is managed, when the price is  *)
(* set and the stop's condition stamped: only this position is passed over. *)
CheckFails(s) ==
  /\ phase = "check"
  /\ \E p \in todo :
       /\ Visit(s, p)
       /\ \/ UNCHANGED <<pos, stamps>>
          \/ pos' = [pos EXCEPT ![s].below = TRUE] /\ Stamp(p, {"STOP"})
  /\ UNCHANGED <<holds, pending, failures, blocked, phase, buys>>

(* The stop's condition is stamped before the position is managed, the     *)
(* trigger after; the exits before the close of the market count none.     *)
StopStamps(b) == IF b THEN {{"STOP"}, {"TRIGGERED"}} ELSE {{}}

(* The price is away from the stop, or the session is closed: the trigger  *)
(* is recorded, nothing is ordered.                                        *)
CheckQuiet(s, b) ==
  /\ phase = "check"
  /\ \E p \in todo : Visit(s, p) /\ \E new \in StopStamps(b) : Stamp(p, new)
  /\ pos' = [pos EXCEPT ![s].below = b]
  /\ UNCHANGED <<holds, pending, failures, blocked, phase, buys>>

(* The position is managed and left open: its exit was refused, is waiting *)
(* (the override of a waiting one included), or another SELL of the symbol *)
(* is.                                                                     *)
CheckExits(s, b) ==
  /\ phase = "check" /\ pos[s].open
  /\ \E p \in todo : Visit(s, p) /\ \E new \in StopStamps(b) : Stamp(p, new)
  /\ \/ /\ pending[s] \in {"none", "live"}               \* accepted
        /\ holds[s]
        /\ pending' = [pending EXCEPT ![s] = "live"]
        /\ pos' = [pos EXCEPT ![s].below = b]
     \/ /\ pending[s] \in {"none", "live"}               \* refused, shares still there
        /\ holds[s] /\ pos[s].fails < FailLimit - 1
        /\ pending' = [pending EXCEPT ![s] = "none"]
        /\ pos' = [pos EXCEPT ![s].below = b, ![s].fails = @ + 1]
     \/ /\ pending[s] # "none"                           \* somebody else's SELL
        /\ pos' = [pos EXCEPT ![s].below = b]
        /\ UNCHANGED pending
  /\ UNCHANGED <<holds, failures, blocked, phase, buys>>

(* The position closes within the call: sold at once, found gone after a   *)
(* refusal, or quarantined at its last refusal.  The watchdog takes each  *)
(* for a created exit order and releases the failure.                      *)
CheckCloses(s, b) ==
  /\ phase = "check" /\ pos[s].open
  /\ \E p \in todo : /\ Visit(s, p)
                     /\ IF p[2] = "BOUGHT" THEN Forget(s)
                        ELSE \E new \in StopStamps(b) : Stamp(p, {"CREATED"} \cup new)
                     /\ failures' = failures \ {p}
  /\ \/ holds[s] /\ holds' = [holds EXCEPT ![s] = FALSE]          \* filled at once
     \/ ~holds[s] /\ UNCHANGED holds                              \* gone
     \/ holds[s] /\ pos[s].fails >= FailLimit - 1 /\ UNCHANGED holds          \* quarantined
  /\ pending' = [pending EXCEPT ![s] = "none"]
  /\ pos' = [pos EXCEPT ![s] = NoPosition]
  /\ UNCHANGED <<blocked, phase, buys>>

(* _evaluate_critical_exit_invariants.  Each also wants its first stamp to *)
(* be some seconds old; since a slow cycle may age any stamp, any of them  *)
(* may hold or not hold yet.  (The third one waits for an order with       *)
(* status PENDING, which the router never gives.)                          *)
TriggerMissing(p) ==
  pos[p[1]].below /\ "TRIGGERED" \notin stamps[p] /\ "STOP" \in stamps[p]
OrderMissing(p) == "TRIGGERED" \in stamps[p] /\ "CREATED" \notin stamps[p]
Hangs(p) == TriggerMissing(p) \/ OrderMissing(p)

Evaluate ==
  /\ phase = "check" /\ todo = {}
  /\ \E hung \in SUBSET {p \in Positions : p = Pid(p[1]) /\ pos[p[1]].open /\ Hangs(p)} :
       failures' = failures \cup hung
  /\ phase' = "retry"
  /\ todo' = failures'
  /\ UNCHANGED <<pos, holds, pending, stamps, blocked, buys>>

(* _execute_exit_retry_failsafe for one record.  It acts on whatever open  *)
(* position the symbol has; without one the record stays.                  *)
RetryNothing(s) ==
  /\ phase = "retry"
  /\ \E p \in todo : Visit(s, p)
  /\ ~pos[s].open \/ pending[s] # "none"
  /\ UNCHANGED <<pos, holds, pending, stamps, failures, blocked, phase, buys>>

RetryRefused(s) ==
  /\ phase = "retry" /\ pos[s].open /\ pending[s] = "none"
  /\ \E p \in todo : Visit(s, p)
  /\ UNCHANGED <<pos, holds, pending, stamps, failures, blocked, phase, buys>>

(* The shares are gone, or the SELL is accepted: an acknowledgement is     *)
(* enough to mark the position closed.                                     *)
RetryCloses(s) ==
  /\ phase = "retry" /\ pos[s].open
  /\ \E p \in todo : Visit(s, p) /\ failures' = failures \ {p}
  /\ \/ ~holds[s] /\ UNCHANGED <<holds, pending>>
     \/ /\ holds[s] /\ pending[s] = "none"
        /\ \/ pending' = [pending EXCEPT ![s] = "live"] /\ UNCHANGED holds
           \/ holds' = [holds EXCEPT ![s] = FALSE] /\ UNCHANGED pending
  /\ pos' = [pos EXCEPT ![s] = NoPosition] /\ Forget(s)
  /\ UNCHANGED <<blocked, phase, buys>>

(* Mutant of EndCycle: the router is told only of new failures.            *)
EndCycleUnsynced ==
  /\ phase = "retry" /\ todo = {} /\ phase' = "idle"
  /\ UNCHANGED <<pos, holds, pending, stamps, failures, blocked, todo, buys>>

(* The loop hands the protective mode to the router.                       *)
EndCycle ==
  /\ phase = "retry" /\ todo = {}
  /\ phase' = "idle"
  /\ blocked' = (failures # {})
  /\ UNCHANGED <<pos, holds, pending, stamps, failures, todo, buys>>

-----------------------------------------------------------------------------
(* The rest of the loop, between two cycles.                               *)

(* A BUY that fills at once opens a position with a new id.                *)
BuyAtOnce(s) ==
  /\ phase = "idle" /\ ~blocked /\ buys < MaxBuys
  /\ ~pos[s].open /\ pending[s] = "none" /\ ~holds[s]
  /\ pos' = [pos EXCEPT ![s] = Opened("BOUGHT")]
  /\ holds' = [holds EXCEPT ![s] = TRUE]
  /\ buys' = buys + 1
  /\ UNCHANGED <<pending, stamps, failures, blocked, phase, todo>>

(* reconcile_orders: the fill's listener closes the position.              *)
FillReported(s) ==
  /\ phase = "idle" /\ pending[s] = "filled"
  /\ pending' = [pending EXCEPT ![s] = "none"]
  /\ pos' = [pos EXCEPT ![s] = NoPosition] /\ Forget(s)
  /\ UNCHANGED <<holds, failures, blocked, phase, todo, buys>>

(* A SELL times out or is found withdrawn; the position stays open.        *)
OrderEnds(s) ==
  /\ phase = "idle" /\ pending[s] = "live"
  /\ pending' = [pending EXCEPT ![s] = "none"]
  /\ UNCHANGED <<pos, holds, stamps, failures, blocked, phase, todo, buys>>

(* perform_reconciliation: holdings without a position are adopted,        *)
(* positions without holdings close.                                       *)
Adopt(s) ==
  /\ phase = "idle" /\ holds[s] /\ ~pos[s].open
  /\ pos' = [pos EXCEPT ![s] = Opened("RECOVERED")]
  /\ UNCHANGED <<holds, pending, stamps, failures, blocked, phase, todo, buys>>

CloseMissing(s) ==
  /\ phase = "idle" /\ ~holds[s] /\ pos[s].open
  /\ pos' = [pos EXCEPT ![s] = NoPosition] /\ Forget(s)
  /\ UNCHANGED <<holds, pending, failures, blocked, phase, todo, buys>>

BrokerFill(s) ==
  /\ pending[s] = "live"
  /\ pending' = [pending EXCEPT ![s] = "filled"]
  /\ holds' = [holds EXCEPT ![s] = FALSE]
  /\ UNCHANGED <<pos, stamps, failures, blocked, phase, todo, buys>>

-----------------------------------------------------------------------------
WatchdogInit ==
  /\ pos = [s \in WatchSymbols |-> NoPosition]
  /\ holds \in [WatchSymbols -> BOOLEAN]
  /\ pending = [s \in WatchSymbols |-> "none"]
  /\ stamps = [p \in Positions |-> {}]
  /\ failures = {} /\ blocked = FALSE
  /\ phase = "idle" /\ todo = {} /\ buys = 0

Priced(s) == \E b \in BOOLEAN : CheckExits(s, b) \/ CheckCloses(s, b)
CheckPosition(s) == CheckFails(s) \/ Priced(s) \/ \E b \in BOOLEAN : CheckQuiet(s, b)
RetryExit(s) == RetryNothing(s) \/ RetryRefused(s) \/ RetryCloses(s)
WatchdogCycle == \/ StartCycle \/ Evaluate \/ EndCycle
                 \/ \E s \in WatchSymbols : CheckPosition(s) \/ RetryExit(s)
RestOfLoop(s) == BuyAtOnce(s) \/ FillReported(s) \/ OrderEnds(s) \/ Adopt(s) \/ CloseMissing(s)

WatchdogNext == WatchdogCycle \/ \E s \in WatchSymbols : RestOfLoop(s) \/ BrokerFill(s)

WatchdogSpec == WatchdogInit /\ [][WatchdogNext]_watchdogVars

(* The loop runs a cycle every three seconds and each of its parts ends;   *)
(* reconciliation runs every 180 s.  Nothing is assumed of the symbols     *)
(* outside Quoted.                                                         *)
WatchdogFair ==
  /\ WatchdogSpec
  /\ WF_watchdogVars(WatchdogCycle)
  /\ \A s \in WatchSymbols : WF_watchdogVars(phase = "idle" /\ Adopt(s))
  /\ \A s \in Quoted : SF_watchdogVars(Priced(s))

-----------------------------------------------------------------------------
WatchdogTypeOK ==
  /\ pos \in [WatchSymbols -> [open : BOOLEAN, id : Ids, below : BOOLEAN, fails : 0..(FailLimit - 1)]]
  /\ holds \in [WatchSymbols -> BOOLEAN]
  /\ pending \in [WatchSymbols -> {"none", "live", "filled"}]
  /\ stamps \in [Positions -> SUBSET ExitStages]
  /\ failures \subseteq Positions /\ todo \subseteq Positions
  /\ blocked \in BOOLEAN /\ buys \in 0..MaxBuys
  /\ phase \in {"idle", "check", "retry"}

(* Protective mode: no BUY while an exit is recorded as failing, although  *)
(* the router only has the flag of the last cycle.                         *)
BuysWaitForExits == [][buys' # buys => failures = {}]_watchdogVars

(* Isolation: whatever fails for other symbols, a position at its stop     *)
(* whose own quotes and orders work is sold, gone, or waits for its SELL.  *)
StopIsActedOn ==
  \A s \in Quoted : pos[s].open /\ pos[s].below
                      ~> ~pos[s].open \/ ~pos[s].below \/ pending[s] # "none"
=============================================================================
