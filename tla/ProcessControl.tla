--------------------------- MODULE ProcessControl ---------------------------
(***************************************************************************)
(* Supervisors, the trader processes they start, and the lock files that   *)
(* keep two processes off one account: execution/auto_restart_supervisor.py*)
(* core/account_lock.py and main() of execution/live_quant_trader.py.  A   *)
(* supervisor locks the accounts of its mode as a supervisor, its trader   *)
(* locks them once more as a trader, one by one, LIVE first; the operating *)
(* system drops the locks of a process that ends in any way.               *)
(*                                                                         *)
(* Left out: the status file and the clock (a cooldown ends at some time). *)
(***************************************************************************)
EXTENDS Integers, FiniteSets

CONSTANTS Supervisors, Pids, NoProcess,
          AccountsOf,      \* supervisor -> accounts of its mode
          DegradedAt,      \* quick exits after which it reports DEGRADED (6)
          MaxEnds          \* bound: processes that end or fail to start

Accounts == {"LIVE", "MOCK"}

ASSUME ProcessAssumption ==
  /\ AccountsOf \in [Supervisors -> (SUBSET Accounts) \ {{}}]
  /\ DegradedAt \in Nat /\ MaxEnds \in Nat
  /\ NoProcess \notin Pids \cup Supervisors

VARIABLES
  sup,         \* supervisor -> "off", "locking", "ready", "watching", "cooling"
  rapid,       \* supervisor -> rapid_failure_count
  child,       \* supervisor -> its process
  supLock,     \* account -> supervisor that holds supervisor_<account>.lock
  trader,      \* process -> [st, needs]: "free", "locking", "trading", "ended"
  acctLock,    \* account -> process that holds account_<account>.lock
  ends

controlVars == <<sup, rapid, child, supLock, trader, acctLock, ends>>

NotRun == [st |-> "free", needs |-> {}]

ControlInit ==
  /\ sup = [s \in Supervisors |-> "off"]
  /\ rapid = [s \in Supervisors |-> 0]
  /\ child = [s \in Supervisors |-> NoProcess]
  /\ supLock = [a \in Accounts |-> NoProcess]
  /\ trader = [p \in Pids |-> NotRun]
  /\ acctLock = [a \in Accounts |-> NoProcess]
  /\ ends = 0

(* Locks are tried LIVE first.                                             *)
NextLock(lock, needs, owner) ==
  LET missing == {a \in needs : lock[a] # owner}
  IN  IF "LIVE" \in missing THEN "LIVE" ELSE "MOCK"
HasAll(lock, needs, owner) == \A a \in needs : lock[a] = owner
Freed(lock, owner) == [a \in Accounts |-> IF lock[a] = owner THEN NoProcess ELSE lock[a]]

-----------------------------------------------------------------------------
(* The supervisor.                                                         *)

StartSupervisor(s) ==
  /\ sup[s] = "off"
  /\ sup' = [sup EXCEPT ![s] = "locking"]
  /\ rapid' = [rapid EXCEPT ![s] = 0]
  /\ UNCHANGED <<child, supLock, trader, acctLock, ends>>

(* _acquire_supervisor_lock: one account at a time, all or none.           *)
SupervisorLock(s) ==
  /\ sup[s] = "locking"
  /\ \/ /\ HasAll(supLock, AccountsOf[s], s)
        /\ sup' = [sup EXCEPT ![s] = "ready"]
        /\ UNCHANGED supLock
     \/ /\ ~HasAll(supLock, AccountsOf[s], s)
        /\ LET a == NextLock(supLock, AccountsOf[s], s)
           IN  IF supLock[a] = NoProcess
               THEN supLock' = [supLock EXCEPT ![a] = s] /\ UNCHANGED sup
               ELSE supLock' = Freed(supLock, s) /\ sup' = [sup EXCEPT ![s] = "off"]
  /\ UNCHANGED <<rapid, child, trader, acctLock, ends>>

Spawn(s) ==
  /\ sup[s] = "ready"
  /\ \E p \in Pids :
       /\ trader[p].st = "free"
       /\ trader' = [trader EXCEPT ![p] = [st |-> "locking", needs |-> AccountsOf[s]]]
       /\ child' = [child EXCEPT ![s] = p]
  /\ sup' = [sup EXCEPT ![s] = "watching"]
  /\ UNCHANGED <<rapid, supLock, acctLock, ends>>

OneMore(n) == IF n < DegradedAt THEN n + 1 ELSE n

SpawnFails(s) ==
  /\ sup[s] = "ready" /\ ends < MaxEnds
  /\ ends' = ends + 1
  /\ rapid' = [rapid EXCEPT ![s] = OneMore(@)]
  /\ sup' = [sup EXCEPT ![s] = "cooling"]
  /\ UNCHANGED <<child, supLock, trader, acctLock>>

(* Mutant of NoticeExit: a supervisor gives up once it is DEGRADED.        *)
NoticeExitGivesUp(s) ==
  /\ sup[s] = "watching" /\ trader[child[s]].st = "ended"
  /\ rapid[s] + 1 < DegradedAt
  /\ trader' = [trader EXCEPT ![child[s]] = NotRun]
  /\ child' = [child EXCEPT ![s] = NoProcess]
  /\ rapid' = [rapid EXCEPT ![s] = @ + 1]
  /\ sup' = [sup EXCEPT ![s] = "cooling"]
  /\ UNCHANGED <<supLock, acctLock, ends>>

(* The heartbeat loop finds the child gone.  A run of 60 seconds forgives  *)
(* the quick exits before it.                                              *)
NoticeExit(s) ==
  /\ sup[s] = "watching" /\ trader[child[s]].st = "ended"
  /\ trader' = [trader EXCEPT ![child[s]] = NotRun]
  /\ child' = [child EXCEPT ![s] = NoProcess]
  /\ \E n \in {0, OneMore(rapid[s])} : rapid' = [rapid EXCEPT ![s] = n]
  /\ sup' = [sup EXCEPT ![s] = "cooling"]
  /\ UNCHANGED <<supLock, acctLock, ends>>

Resume(s) ==
  /\ sup[s] = "cooling"
  /\ sup' = [sup EXCEPT ![s] = "ready"]
  /\ UNCHANGED <<rapid, child, supLock, trader, acctLock, ends>>

(* Ctrl+C or SIGTERM at any point: the child is killed before the locks    *)
(* are given back.                                                         *)
Interrupt(s) ==
  /\ sup[s] # "off"
  /\ sup' = [sup EXCEPT ![s] = "off"]
  /\ supLock' = Freed(supLock, s)
  /\ IF child[s] = NoProcess THEN UNCHANGED <<trader, acctLock>>
     ELSE /\ trader' = [trader EXCEPT ![child[s]] = NotRun]
          /\ acctLock' = Freed(acctLock, child[s])
  /\ child' = [child EXCEPT ![s] = NoProcess]
  /\ UNCHANGED <<rapid, ends>>

(* The supervisor is killed; its child lives on without one.               *)
KillSupervisor(s) ==
  /\ sup[s] # "off" /\ ends < MaxEnds
  /\ ends' = ends + 1
  /\ sup' = [sup EXCEPT ![s] = "off"]
  /\ supLock' = Freed(supLock, s)
  /\ child' = [child EXCEPT ![s] = NoProcess]
  /\ trader' = [p \in Pids |-> IF p = child[s] /\ trader[p].st = "ended"
                               THEN NotRun ELSE trader[p]]
  /\ UNCHANGED <<rapid, acctLock>>

-----------------------------------------------------------------------------
(* The trader.                                                             *)

(* A process that has ended is seen by its supervisor, if it has one.      *)
After(p) == IF \E s \in Supervisors : child[s] = p THEN [NotRun EXCEPT !.st = "ended"] ELSE NotRun

(* Mutant of TraderLock: the trader goes on with the locks it could get.   *)
TraderLockPartly(p) ==
  /\ trader[p].st = "locking"
  /\ IF HasAll(acctLock, trader[p].needs, p)
     THEN /\ trader' = [trader EXCEPT ![p].st = "trading"]
          /\ UNCHANGED acctLock
     ELSE LET a == NextLock(acctLock, trader[p].needs, p)
          IN  IF acctLock[a] = NoProcess
              THEN acctLock' = [acctLock EXCEPT ![a] = p] /\ UNCHANGED trader
              ELSE /\ trader' = [trader EXCEPT ![p].st = "trading"]
                   /\ UNCHANGED acctLock
  /\ UNCHANGED <<sup, rapid, child, supLock, ends>>

(* acquire_all: without one of its locks the trader gives back the others  *)
(* and exits; with all of them it trades.                                  *)
TraderLock(p) ==
  /\ trader[p].st = "locking"
  /\ IF HasAll(acctLock, trader[p].needs, p)
     THEN /\ trader' = [trader EXCEPT ![p].st = "trading"]
          /\ UNCHANGED acctLock
     ELSE LET a == NextLock(acctLock, trader[p].needs, p)
          IN  IF acctLock[a] = NoProcess
              THEN acctLock' = [acctLock EXCEPT ![a] = p] /\ UNCHANGED trader
              ELSE /\ trader' = [trader EXCEPT ![p] = After(p)]
                   /\ acctLock' = Freed(acctLock, p)
  /\ UNCHANGED <<sup, rapid, child, supLock, ends>>

(* Crash, an uncaught error, or the user's stop.                           *)
TraderEnds(p) ==
  /\ trader[p].st \in {"locking", "trading"} /\ ends < MaxEnds
  /\ ends' = ends + 1
  /\ trader' = [trader EXCEPT ![p] = After(p)]
  /\ acctLock' = Freed(acctLock, p)
  /\ UNCHANGED <<sup, rapid, child, supLock>>

ControlNext ==
  \/ \E s \in Supervisors :
       \/ StartSupervisor(s) \/ SupervisorLock(s) \/ Spawn(s) \/ SpawnFails(s)
       \/ NoticeExit(s) \/ Resume(s) \/ Interrupt(s) \/ KillSupervisor(s)
  \/ \E p \in Pids : TraderLock(p) \/ TraderEnds(p)

(* What a supervisor and its trader do by themselves.                      *)
SupervisorWork(s) == SupervisorLock(s) \/ Spawn(s) \/ NoticeExit(s) \/ Resume(s)

-----------------------------------------------------------------------------
ControlTypeOK ==
  /\ sup \in [Supervisors -> {"off", "locking", "ready", "watching", "cooling"}]
  /\ rapid \in [Supervisors -> 0 .. DegradedAt]
  /\ child \in [Supervisors -> Pids \cup {NoProcess}]
  /\ supLock \in [Accounts -> Supervisors \cup {NoProcess}]
  /\ trader \in [Pids -> [st : {"free", "locking", "trading", "ended"},
                          needs : SUBSET Accounts]]
  /\ acctLock \in [Accounts -> Pids \cup {NoProcess}]
  /\ ends \in 0 .. MaxEnds

Trades(p, a) == trader[p].st = "trading" /\ a \in trader[p].needs

(* An account is traded by one process at most, whatever supervisors are   *)
(* killed, restarted or started twice while their traders live on          *)
(* (account_lock.py acquire_all, live_quant_trader.py main).               *)
AccountTradedOnce ==
  \A a \in Accounts : Cardinality({p \in Pids : Trades(p, a)}) <= 1

(* A supervisor that is up is stopped, or in the end an account of its     *)
(* mode is traded: by its own trader, or by the one that keeps its trader  *)
(* from the lock (auto_restart_supervisor.py run).                         *)
TradingResumes ==
  \A s \in Supervisors :
    (sup[s] # "off") ~> (sup[s] = "off" \/ \E a \in AccountsOf[s], p \in Pids : Trades(p, a))
=============================================================================
