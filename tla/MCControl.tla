------------------------------ MODULE MCControl ------------------------------
(***************************************************************************)
(* Three components that share no state, checked in one run: part says     *)
(* which of them this behaviour is about, the others stand still.          *)
(***************************************************************************)
EXTENDS ExitWatchdog, ProcessControl, CircuitBreaker, TLC

CONSTANTS quotedStock, failingStock, dualSup, liveSup

(* The symbol that may fail comes first.                                   *)
MCRank == (failingStock :> 1) @@ (quotedStock :> 2)

(* A supervisor of both accounts and one of the live account.              *)
MCAccountsOf == (dualSup :> {"LIVE", "MOCK"}) @@ (liveSup :> {"LIVE"})

VARIABLE part

vars == <<part, watchdogVars, controlVars, breakerVars>>

Init == /\ part \in {"watchdog", "processes", "breaker"}
        /\ WatchdogInit /\ ControlInit /\ BreakerInit
        /\ part # "watchdog" => \A s \in WatchSymbols : ~holds[s]
        /\ part # "breaker" => host = "live"

ExitWatchdogRuns == part = "watchdog" /\ UNCHANGED <<part, controlVars, breakerVars>>
ProcessesRun == part = "processes" /\ UNCHANGED <<part, watchdogVars, breakerVars>>
BreakerRuns == part = "breaker" /\ UNCHANGED <<part, watchdogVars, controlVars>>

(* A bound of the instance: the stock whose orders work is bought, and was *)
(* not recovered and watched before.                                       *)
BuyOfNew == \/ buys' = buys
            \/ BuyAtOnce(quotedStock) /\ stamps[<<quotedStock, "RECOVERED">>] = {}

Next == \/ WatchdogNext /\ BuyOfNew /\ ExitWatchdogRuns
        \/ ControlNext /\ ProcessesRun
        \/ BreakerNext /\ BreakerRuns

(* The watchdog's fairness (see WatchdogFair), and for each supervisor and *)
(* each trader that it takes its own next step.                            *)
Fairness ==
  /\ WF_vars(WatchdogCycle /\ ExitWatchdogRuns)
  /\ \A s \in WatchSymbols : WF_vars(phase = "idle" /\ Adopt(s) /\ ExitWatchdogRuns)
  /\ \A s \in Quoted : SF_vars(Priced(s) /\ ExitWatchdogRuns)
  /\ \A s \in Supervisors : WF_vars(SupervisorWork(s) /\ ProcessesRun)
  /\ \A p \in Pids : WF_vars(TraderLock(p) /\ ProcessesRun)

Spec == Init /\ [][Next]_vars /\ Fairness

(* An account is traded by one process at most, whatever is killed,        *)
(* restarted or started twice (account_lock.py, supervisor, trader).       *)
AccountsSound == part = "processes" => ControlTypeOK /\ AccountTradedOnce

(* The gates before a BUY: the breaker is closed only while fewer orders in *)
(* a row have failed than it allows; the watchdog's records keep their type.*)
GatesSound == /\ part = "breaker" => BreakerTypeOK /\ FewErrorsWhenClosed
              /\ part = "watchdog" => WatchdogTypeOK
=============================================================================
