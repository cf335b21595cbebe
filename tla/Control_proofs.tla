---------------------------- MODULE Control_proofs ----------------------------
(***************************************************************************)
(* Proofs about the gates before a trade: one process trades an account,   *)
(* a closed breaker has few errors behind it, and no BUY goes out while an *)
(* exit is recorded as failing; for any processes, positions and limits.   *)
(***************************************************************************)
EXTENDS MCControl, FiniteSetTheorems, TLAPS

-----------------------------------------------------------------------------
(* Supervisors and traders (ProcessControl).                               *)

(* Who trades an account holds its lock.                                   *)
TradersHoldLocks == \A p \in Pids, a \in Accounts : Trades(p, a) => acctLock[a] = p

ControlInv == ControlTypeOK /\ TradersHoldLocks

TraderType == [st : {"free", "locking", "trading", "ended"}, needs : SUBSET Accounts]

LEMMA ControlInitInv == ControlInit => ControlInv
BY ProcessAssumption
   DEF ControlInit, ControlInv, ControlTypeOK, TradersHoldLocks, Trades, NotRun, Accounts

(* Giving locks back frees those of one process only.                      *)
LEMMA FreedLocks ==
  ASSUME NEW S, NEW lock \in [Accounts -> S \cup {NoProcess}], NEW owner
  PROVE  /\ Freed(lock, owner) \in [Accounts -> S \cup {NoProcess}]
         /\ \A a \in Accounts : lock[a] # owner => Freed(lock, owner)[a] = lock[a]
BY DEF Freed

LEMMA NextLockIsAccount ==
  ASSUME NEW lock, NEW needs, NEW owner
  PROVE  NextLock(lock, needs, owner) \in Accounts
BY DEF NextLock, Accounts

LEMMA NotRunType == NotRun \in TraderType /\ \A p \in Pids : After(p) \in TraderType
BY DEF NotRun, TraderType, After, Accounts

LEMMA OneMoreType == \A n \in 0 .. DegradedAt : OneMore(n) \in 0 .. DegradedAt
BY ProcessAssumption DEF OneMore

(* What a supervisor does to itself leaves traders and their locks alone,  *)
(* starts a trader that holds nothing yet, or takes a trader out.          *)
LEMMA SupervisorStep ==
  ASSUME ControlInv, NEW s \in Supervisors,
         \/ StartSupervisor(s) \/ SupervisorLock(s) \/ Spawn(s) \/ SpawnFails(s)
         \/ NoticeExit(s) \/ Resume(s)
  PROVE  ControlInv'
<1> USE ProcessAssumption DEF ControlInv, ControlTypeOK
<1>1. CASE StartSupervisor(s)
  BY <1>1 DEF StartSupervisor, TradersHoldLocks, Trades
<1>2. CASE SupervisorLock(s)
  <2>1. supLock' \in [Accounts -> Supervisors \cup {NoProcess}]
    <3> DEFINE a == NextLock(supLock, AccountsOf[s], s)
    <3>1. Freed(supLock, s) \in [Accounts -> Supervisors \cup {NoProcess}]
      BY FreedLocks
    <3>2. [supLock EXCEPT ![a] = s] \in [Accounts -> Supervisors \cup {NoProcess}]
      OBVIOUS
    <3>3. supLock' \in {supLock, Freed(supLock, s), [supLock EXCEPT ![a] = s]}
      BY <1>2 DEF SupervisorLock
    <3> QED
      BY <3>1, <3>2, <3>3
  <2> QED
    BY <1>2, <2>1 DEF SupervisorLock, TradersHoldLocks, Trades
<1>3. CASE Spawn(s)
  <2>1. PICK p \in Pids :
          /\ trader' = [trader EXCEPT ![p] = [st |-> "locking", needs |-> AccountsOf[s]]]
          /\ child' = [child EXCEPT ![s] = p]
    BY <1>3 DEF Spawn
  <2>2. trader' \in [Pids -> TraderType]
    BY <2>1 DEF TraderType
  <2>3. ControlTypeOK'
    BY <1>3, <2>1, <2>2 DEF Spawn, TraderType
  <2>4. TradersHoldLocks'
    BY <1>3, <2>1 DEF Spawn, TradersHoldLocks, Trades
  <2> QED
    BY <2>3, <2>4
<1>4. CASE SpawnFails(s)
  BY <1>4, OneMoreType DEF SpawnFails, TradersHoldLocks, Trades
<1>5. CASE NoticeExit(s)
  <2>1. trader' \in [Pids -> TraderType]
    BY <1>5, NotRunType DEF NoticeExit, TraderType
  <2>2. rapid' \in [Supervisors -> 0 .. DegradedAt]
    BY <1>5, OneMoreType DEF NoticeExit
  <2>3. ControlTypeOK'
    BY <1>5, <2>1, <2>2 DEF NoticeExit, TraderType
  <2>4. TradersHoldLocks'
    BY <1>5 DEF NoticeExit, TradersHoldLocks, Trades, NotRun
  <2> QED
    BY <2>3, <2>4
<1>6. CASE Resume(s)
  BY <1>6 DEF Resume, TradersHoldLocks, Trades
<1> QED
  BY <1>1, <1>2, <1>3, <1>4, <1>5, <1>6

(* A supervisor that is stopped takes its trader and the trader's locks    *)
(* with it; one that is killed leaves them.                                *)
LEMMA SupervisorStops ==
  ASSUME ControlInv, NEW s \in Supervisors, Interrupt(s) \/ KillSupervisor(s)
  PROVE  ControlInv'
<1> USE ProcessAssumption DEF ControlInv, ControlTypeOK
<1>1. supLock' \in [Accounts -> Supervisors \cup {NoProcess}]
  <2>1. Freed(supLock, s) \in [Accounts -> Supervisors \cup {NoProcess}]
    BY FreedLocks
  <2> QED
    BY <2>1 DEF Interrupt, KillSupervisor
<1>2. CASE Interrupt(s)
  <2>1. trader' \in [Pids -> TraderType]
    BY <1>2, NotRunType DEF Interrupt, TraderType
  <2>2. acctLock' \in [Accounts -> Pids \cup {NoProcess}]
    <3>1. Freed(acctLock, child[s]) \in [Accounts -> Pids \cup {NoProcess}]
      BY FreedLocks
    <3> QED
      BY <1>2, <3>1 DEF Interrupt
  <2>3. ControlTypeOK'
    BY <1>1, <1>2, <2>1, <2>2 DEF Interrupt, TraderType
  <2>4. ASSUME NEW p \in Pids, NEW a \in Accounts, Trades(p, a)'
        PROVE  acctLock'[a] = p
    <3>1. CASE child[s] = NoProcess
      BY <1>2, <2>4, <3>1 DEF Interrupt, TradersHoldLocks, Trades
    <3>2. CASE child[s] # NoProcess
      <4>1. p # child[s] /\ trader'[p] = trader[p]
        BY <1>2, <2>4, <3>2 DEF Interrupt, Trades, NotRun
      <4>2. acctLock[a] = p
        BY <2>4, <4>1 DEF TradersHoldLocks, Trades
      <4> QED
        BY <1>2, <3>2, <4>1, <4>2 DEF Interrupt, Freed
    <3> QED
      BY <3>1, <3>2
  <2> QED
    BY <2>3, <2>4 DEF TradersHoldLocks
<1>3. CASE KillSupervisor(s)
  <2>1. trader' \in [Pids -> TraderType]
    BY <1>3, NotRunType DEF KillSupervisor, TraderType
  <2>2. ControlTypeOK'
    BY <1>1, <1>3, <2>1 DEF KillSupervisor, TraderType
  <2>3. TradersHoldLocks'
    BY <1>3 DEF KillSupervisor, TradersHoldLocks, Trades, NotRun
  <2> QED
    BY <2>2, <2>3
<1> QED
  BY <1>2, <1>3

(* A trader trades once it holds every lock it needs, and drops its locks  *)
(* when it stops trading.                                                  *)
LEMMA TraderStep ==
  ASSUME ControlInv, NEW p \in Pids, TraderLock(p) \/ TraderEnds(p)
  PROVE  ControlInv'
<1> USE ProcessAssumption DEF ControlInv, ControlTypeOK
<1> DEFINE a == NextLock(acctLock, trader[p].needs, p)
<1>1. CASE TraderLock(p) /\ HasAll(acctLock, trader[p].needs, p)
  <2>1. /\ trader' = [trader EXCEPT ![p].st = "trading"]
        /\ UNCHANGED <<sup, rapid, child, supLock, acctLock, ends>>
    BY <1>1 DEF TraderLock
  <2>2. ASSUME NEW q \in Pids, NEW b \in Accounts, Trades(q, b)'
        PROVE  acctLock[b] = q
    <3>1. CASE q = p
      BY <1>1, <2>1, <2>2, <3>1 DEF Trades, HasAll
    <3>2. CASE q # p
      BY <2>1, <2>2, <3>2 DEF Trades, TradersHoldLocks
    <3> QED
      BY <3>1, <3>2
  <2> QED
    BY <2>1, <2>2 DEF TradersHoldLocks
<1>2. CASE /\ TraderLock(p) /\ ~HasAll(acctLock, trader[p].needs, p)
           /\ acctLock[a] = NoProcess
  BY <1>2, NextLockIsAccount DEF TraderLock, TradersHoldLocks, Trades
<1>3. CASE /\ trader' = [trader EXCEPT ![p] = After(p)]
           /\ acctLock' = Freed(acctLock, p)
           /\ UNCHANGED <<sup, rapid, child, supLock>> /\ ends' \in 0 .. MaxEnds
  <2>1. trader' \in [Pids -> TraderType]
    BY <1>3, NotRunType DEF TraderType
  <2>2. acctLock' \in [Accounts -> Pids \cup {NoProcess}]
    BY <1>3, FreedLocks
  <2>3. ControlTypeOK'
    BY <1>3, <2>1, <2>2 DEF TraderType
  <2>4. TradersHoldLocks'
    <3> SUFFICES ASSUME NEW q \in Pids, NEW b \in Accounts, Trades(q, b)'
                 PROVE  acctLock'[b] = q
      BY DEF TradersHoldLocks
    <3>1. q # p
      BY <1>3 DEF Trades, After, NotRun
    <3>2. acctLock[b] = q
      BY <1>3, <3>1 DEF Trades, TradersHoldLocks
    <3> QED
      BY <1>3, <3>1, <3>2 DEF Freed
  <2> QED
    BY <2>3, <2>4
<1> QED
  BY <1>1, <1>2, <1>3 DEF TraderLock, TraderEnds

LEMMA ControlStep == ControlInv /\ [ControlNext]_controlVars => ControlInv'
<1>1. ASSUME ControlInv, ControlNext PROVE ControlInv'
  BY <1>1, SupervisorStep, SupervisorStops, TraderStep DEF ControlNext
<1>2. ASSUME ControlInv, UNCHANGED controlVars PROVE ControlInv'
  BY <1>2 DEF ControlInv, ControlTypeOK, TradersHoldLocks, Trades, controlVars
<1> QED
  BY <1>1, <1>2

(* A lock has one holder, so an account has one trader.                    *)
LEMMA OneTrader == ControlInv => AccountTradedOnce
<1> SUFFICES ASSUME ControlInv, NEW a \in Accounts
             PROVE  Cardinality({p \in Pids : Trades(p, a)}) <= 1
  BY DEF AccountTradedOnce
<1> DEFINE T == {p \in Pids : Trades(p, a)}
<1>1. T \subseteq {acctLock[a]}
  BY DEF ControlInv, TradersHoldLocks
<1>2. IsFiniteSet({acctLock[a]}) /\ Cardinality({acctLock[a]}) = 1
  BY FS_Singleton
<1> QED
  BY <1>1, <1>2, FS_Subset

-----------------------------------------------------------------------------
(* The circuit breaker.                                                    *)

BreakerInv == BreakerTypeOK /\ FewErrorsWhenClosed

Breakers == [tripped : {"no", "SYSTEM_FAILURE", "DATA_STALE"},
             trippedFor : 0 .. Longest, restoredFor : Never .. Longest,
             errors : 0 .. MaxErrors + 1, beatAge : Never .. Longest]

(* A breaker that is closed has fewer errors than would open it.           *)
GoodBreaker(b) == b \in Breakers /\ (b.tripped = "no" => b.errors < MaxErrors)

LEMMA TimesType == /\ MaxErrors \in Nat /\ MaxErrors > 0
                   /\ Longest \in Nat /\ Never \in Never .. Longest /\ Never = -1
                   /\ \A n \in Never .. Longest : Older(n) \in Never .. Longest
                   /\ \A n \in 0 .. Longest : Older(n) \in 0 .. Longest
BY BreakerAssumption DEF Longest, Older, Never

LEMMA BrkIsGood == BreakerInv => GoodBreaker(Brk)
BY DEF BreakerInv, BreakerTypeOK, FewErrorsWhenClosed, GoodBreaker, Breakers, Brk

LEMMA RecoveredIsGood == ASSUME NEW b \in Breakers PROVE GoodBreaker(Recovered(b))
<1>1. /\ Recovered(b).tripped = "no" /\ Recovered(b).trippedFor = 0
      /\ Recovered(b).restoredFor = 0 /\ Recovered(b).errors = 0
      /\ Recovered(b).beatAge = b.beatAge
  BY DEF Breakers, Recovered
<1>2. 0 \in 0 .. Longest /\ 0 \in Never .. Longest /\ 0 \in 0 .. MaxErrors + 1
  BY TimesType
<1>3. Recovered(b) \in Breakers
  BY <1>2 DEF Breakers, Recovered
<1> QED
  BY <1>1, <1>3, TimesType DEF GoodBreaker

LEMMA TripIsGood ==
  ASSUME NEW b \in Breakers, NEW why \in {"SYSTEM_FAILURE", "DATA_STALE"},
         b.tripped = "no" \/ GoodBreaker(b)
  PROVE  GoodBreaker(Trip(b, why))
<1>1. CASE b.tripped # "no"
  BY <1>1 DEF Trip, GoodBreaker
<1>2. CASE b.tripped = "no"
  <2>1. Trip(b, why) = [b EXCEPT !.tripped = why, !.trippedFor = 0, !.restoredFor = Never]
    BY <1>2 DEF Trip
  <2>2. 0 \in 0 .. Longest /\ Never \in Never .. Longest
    BY TimesType
  <2>3. Trip(b, why) \in Breakers
    BY <2>1, <2>2 DEF Breakers
  <2>4. Trip(b, why).tripped = why /\ why # "no"
    BY <2>1 DEF Breakers
  <2> QED
    BY <2>3, <2>4 DEF GoodBreaker
<1> QED
  BY <1>1, <1>2

LEMMA AttemptIsGood ==
  ASSUME NEW b, GoodBreaker(b), NEW h \in BOOLEAN
  PROVE  GoodBreaker(Attempt(b, h))
BY RecoveredIsGood DEF Attempt, GoodBreaker

LEMMA BeatIsGood == ASSUME NEW b, GoodBreaker(b) PROVE GoodBreaker(Beat(b))
<1> DEFINE c == [b EXCEPT !.beatAge = 0]
           d == [c EXCEPT !.restoredFor = IF @ = Never THEN 0 ELSE @]
<1>1. GoodBreaker(c)
  BY TimesType DEF GoodBreaker, Breakers
<1>2. GoodBreaker(d)
  <2> HIDE DEF c
  <2> QED
    BY <1>1, TimesType DEF GoodBreaker, Breakers
<1>3. Beat(b) = IF b.tripped # "DATA_STALE" THEN c ELSE Attempt(d, TRUE)
  BY DEF Beat
<1> QED
  BY <1>1, <1>2, <1>3, AttemptIsGood

LEMMA AnswersAreGood ==
  ASSUME NEW b, GoodBreaker(b), NEW c \in Answers(b)
  PROVE  GoodBreaker(c)
<1>1. GoodBreaker(Accepted(b))
  BY TimesType DEF Accepted, GoodBreaker, Breakers
<1>2. GoodBreaker(Failed(b))
  <2> DEFINE d == [b EXCEPT !.errors = IF @ <= MaxErrors THEN @ + 1 ELSE @]
  <2>1. d \in Breakers /\ d.tripped = b.tripped
    BY TimesType DEF GoodBreaker, Breakers
  <2>2. Failed(b) = IF d.errors >= MaxErrors THEN Trip(d, "SYSTEM_FAILURE") ELSE d
    BY DEF Failed
  <2>3. CASE d.errors < MaxErrors
    BY <2>1, <2>2, <2>3, TimesType DEF GoodBreaker, Breakers
  <2>4. CASE ~(d.errors < MaxErrors)
    <3> HIDE DEF d
    <3>1. d.errors >= MaxErrors
      BY <2>1, <2>4, TimesType DEF Breakers
    <3>2. d.tripped = "no" \/ GoodBreaker(d)
      BY <2>1 DEF GoodBreaker
    <3> QED
      BY <2>1, <2>2, <3>1, <3>2, TripIsGood
  <2> QED
    BY <2>3, <2>4
<1> QED
  BY <1>1, <1>2 DEF Answers

LEMMA GoodBecomes ==
  ASSUME NEW b, GoodBreaker(b), Becomes(b), host' \in {"live", "legacy"},
         feedAge' \in 0 .. Longest
  PROVE  BreakerInv'
BY DEF GoodBreaker, Breakers, Becomes, BreakerInv, BreakerTypeOK, FewErrorsWhenClosed, Longest

LEMMA BreakerStep == BreakerInv /\ [BreakerNext]_breakerVars => BreakerInv'
<1> SUFFICES ASSUME BreakerInv, [BreakerNext]_breakerVars PROVE BreakerInv'
  OBVIOUS
<1>0. /\ GoodBreaker(Brk) /\ host \in {"live", "legacy"} /\ feedAge \in 0 .. Longest
      /\ 0 \in 0 .. Longest
  BY BrkIsGood, TimesType DEF BreakerInv, BreakerTypeOK
<1>1. CASE TimePasses
  BY <1>1, TimesType
     DEF TimePasses, BreakerInv, BreakerTypeOK, FewErrorsWhenClosed, Longest
<1>2. CASE Cycle
  <2>1. PICK h \in BOOLEAN : Becomes(Attempt(Beat(Brk), h))
    BY <1>2 DEF Cycle
  <2> QED
    BY <1>0, <1>2, <2>1, BeatIsGood, AttemptIsGood, GoodBecomes DEF Cycle
<1>3. CASE OnTick
  <2>1. CASE host = "live"
    BY <1>0, <1>3, <2>1 DEF OnTick, BreakerInv, BreakerTypeOK, FewErrorsWhenClosed, Longest
  <2>2. CASE host # "live"
    <3>1. GoodBreaker(Beat(Brk))
      BY <1>0, BeatIsGood
    <3>2. GoodBreaker(CheckStaleness(Beat(Brk)))
      BY <3>1, TripIsGood DEF CheckStaleness, GoodBreaker
    <3> QED
      BY <1>0, <1>3, <2>2, <3>1, <3>2, GoodBecomes DEF OnTick
  <2> QED
    BY <2>1, <2>2
<1>4. CASE Buy
  <2>1. PICK h \in BOOLEAN :
          LET b == Attempt(Brk, h)
          IN  IF b.tripped = "no" THEN \E c \in Answers(b) : Becomes(c) ELSE Becomes(b)
    BY <1>4 DEF Buy
  <2>2. GoodBreaker(Attempt(Brk, h))
    BY <1>0, AttemptIsGood
  <2>3. \E c : GoodBreaker(c) /\ Becomes(c)
    BY <2>1, <2>2, AnswersAreGood
  <2> QED
    BY <1>0, <1>4, <2>3, GoodBecomes DEF Buy
<1>5. CASE Sell
  BY <1>0, <1>5, AnswersAreGood, GoodBecomes DEF Sell
<1>6. CASE UNCHANGED breakerVars
  BY <1>6 DEF breakerVars, BreakerInv, BreakerTypeOK, FewErrorsWhenClosed, Longest
<1> QED
  BY <1>1, <1>2, <1>3, <1>4, <1>5, <1>6 DEF BreakerNext

LEMMA BreakerInitInv == BreakerInit => BreakerInv
BY TimesType DEF BreakerInit, BreakerInv, BreakerTypeOK, FewErrorsWhenClosed

-----------------------------------------------------------------------------
(* The exit watchdog.                                                      *)

(* Between two cycles the router's flag stands whenever a failure does.    *)
FlagStands == phase = "idle" /\ failures # {} => blocked

WatchInv == WatchdogTypeOK /\ FlagStands

PosType == [open : BOOLEAN, id : Ids, below : BOOLEAN, fails : 0..(FailLimit - 1)]

(* A position opened, closed, or checked once more keeps its type.         *)
LEMMA PositionTypes ==
  /\ NoPosition \in PosType
  /\ \A i \in Ids : Opened(i) \in PosType
<1>1. 0 \in 0..(FailLimit - 1)
  BY WatchdogAssumption
<1>2. NoPosition \in PosType
  BY <1>1 DEF NoPosition, PosType, Ids
<1>3. ASSUME NEW i \in Ids PROVE Opened(i) \in PosType
  BY <1>2, <1>3 DEF Opened, PosType
<1> QED
  BY <1>2, <1>3

LEMMA WatchInitInv == WatchdogInit => WatchInv
<1> SUFFICES ASSUME WatchdogInit PROVE WatchInv
  OBVIOUS
<1>1. pos \in [WatchSymbols -> PosType]
  BY PositionTypes DEF WatchdogInit
<1>2. buys \in 0..MaxBuys
  BY WatchdogAssumption DEF WatchdogInit
<1>3. stamps \in [Positions -> SUBSET ExitStages]
  BY DEF WatchdogInit
<1> QED
  BY <1>1, <1>2, <1>3 DEF WatchdogInit, WatchInv, WatchdogTypeOK, FlagStands, PosType

LEMMA StampTypes ==
  ASSUME WatchdogTypeOK
  PROVE  /\ \A p, new : new \subseteq ExitStages /\ Stamp(p, new)
                          => stamps' \in [Positions -> SUBSET ExitStages]
         /\ \A s : Forget(s) => stamps' \in [Positions -> SUBSET ExitStages]
<1>1. \A st, new : st \subseteq ExitStages /\ new \subseteq ExitStages
                     => Last(st \cup new) \subseteq ExitStages
  BY DEF Last
<1>2. ASSUME NEW p, NEW new, new \subseteq ExitStages, Stamp(p, new)
      PROVE  stamps' \in [Positions -> SUBSET ExitStages]
  BY <1>1, <1>2 DEF WatchdogTypeOK, Stamp
<1>3. ASSUME NEW s, Forget(s)
      PROVE  stamps' \in [Positions -> SUBSET ExitStages]
  BY <1>3 DEF WatchdogTypeOK, Forget
<1> QED
  BY <1>2, <1>3

LEMMA VisitTypes ==
  ASSUME WatchdogTypeOK, NEW s, NEW p, Visit(s, p)
  PROVE  todo' \subseteq Positions
BY DEF WatchdogTypeOK, Visit

LEMMA CheckStep ==
  ASSUME WatchInv, NEW s \in WatchSymbols, CheckPosition(s)
  PROVE  WatchInv'
<1> USE WatchdogAssumption DEF WatchInv, WatchdogTypeOK, FlagStands
<1>0. \A b : \A new \in StopStamps(b) : new \subseteq ExitStages
  BY DEF StopStamps, ExitStages
<1>1. CASE CheckFails(s)
  <2>1. stamps' \in [Positions -> SUBSET ExitStages]
    BY <1>1, StampTypes DEF CheckFails, ExitStages
  <2>2. pos' \in [WatchSymbols -> PosType]
    <3>1. TRUE \in BOOLEAN
      OBVIOUS
    <3>2. CASE pos' = pos
      BY <3>2 DEF PosType
    <3>3. CASE pos' = [pos EXCEPT ![s].below = TRUE]
      BY <3>1, <3>3 DEF PosType
    <3> QED
      BY <1>1, <3>2, <3>3 DEF CheckFails
  <2> QED
    BY <1>1, <2>1, <2>2, VisitTypes DEF CheckFails, PosType
<1>2. ASSUME NEW b \in BOOLEAN, CheckQuiet(s, b) PROVE WatchInv'
  <2>1. stamps' \in [Positions -> SUBSET ExitStages]
    BY <1>0, <1>2, StampTypes DEF CheckQuiet
  <2> QED
    BY <1>2, <2>1, VisitTypes DEF CheckQuiet
<1>3. ASSUME NEW b \in BOOLEAN, CheckExits(s, b) PROVE WatchInv'
  <2>1. stamps' \in [Positions -> SUBSET ExitStages]
    BY <1>0, <1>3, StampTypes DEF CheckExits
  <2>2. pos' \in [WatchSymbols -> PosType]
    <3>1. CASE pos' = [pos EXCEPT ![s].below = b]
      BY <3>1 DEF PosType
    <3>2. CASE /\ pos' = [pos EXCEPT ![s].below = b, ![s].fails = @ + 1]
               /\ pos[s].fails < FailLimit - 1
      <4>1. pos'[s] = [pos[s] EXCEPT !.below = b, !.fails = pos[s].fails + 1]
        BY <3>2
      <4>2. pos[s].fails + 1 \in 0..(FailLimit - 1)
        BY <3>2
      <4>3. pos'[s] \in PosType
        BY <4>1, <4>2 DEF PosType
      <4>4. \A t \in WatchSymbols : t # s => pos'[t] = pos[t]
        BY <3>2
      <4>5. DOMAIN pos' = WatchSymbols /\ pos' = [t \in WatchSymbols |-> pos'[t]]
        BY <3>2
      <4> QED
        BY <4>3, <4>4, <4>5 DEF PosType
    <3> QED
      BY <1>3, <3>1, <3>2 DEF CheckExits
  <2>3. pending' \in [WatchSymbols -> {"none", "live", "filled"}]
    BY <1>3 DEF CheckExits
  <2> QED
    BY <1>3, <2>1, <2>2, <2>3, VisitTypes DEF CheckExits, PosType
<1>4. ASSUME NEW b \in BOOLEAN, CheckCloses(s, b) PROVE WatchInv'
  <2>1. stamps' \in [Positions -> SUBSET ExitStages]
    <3>1. \A new \in StopStamps(b) : {"CREATED"} \cup new \subseteq ExitStages
      BY <1>0 DEF ExitStages
    <3> QED
      BY <1>4, <3>1, StampTypes DEF CheckCloses
  <2>2. pos' \in [WatchSymbols -> PosType]
    BY <1>4, PositionTypes DEF CheckCloses, PosType
  <2>3. holds' \in [WatchSymbols -> BOOLEAN]
    BY <1>4 DEF CheckCloses
  <2> QED
    BY <1>4, <2>1, <2>2, <2>3, VisitTypes DEF CheckCloses, PosType
<1> QED
  BY <1>1, <1>2, <1>3, <1>4 DEF CheckPosition, Priced

LEMMA RetryStep ==
  ASSUME WatchInv, NEW s \in WatchSymbols, RetryExit(s)
  PROVE  WatchInv'
<1> USE WatchdogAssumption DEF WatchInv, WatchdogTypeOK, FlagStands
<1>1. CASE RetryNothing(s) \/ RetryRefused(s)
  BY <1>1, VisitTypes DEF RetryNothing, RetryRefused
<1>2. CASE RetryCloses(s)
  <2>1. stamps' \in [Positions -> SUBSET ExitStages]
    BY <1>2, StampTypes DEF RetryCloses
  <2>2. pos' \in [WatchSymbols -> PosType]
    BY <1>2, PositionTypes DEF RetryCloses, PosType
  <2> QED
    BY <1>2, <2>1, <2>2, VisitTypes DEF RetryCloses, PosType
<1> QED
  BY <1>1, <1>2 DEF RetryExit

(* New failures are recorded inside a cycle, whose end sets the flag.      *)
LEMMA CycleStep ==
  ASSUME WatchInv, StartCycle \/ Evaluate \/ EndCycle
  PROVE  WatchInv'
<1> USE DEF WatchInv, WatchdogTypeOK, FlagStands
<1>1. CASE StartCycle
  <2>1. \A s \in WatchSymbols : Pid(s) \in Positions
    BY DEF Pid, Positions
  <2> QED
    BY <1>1, <2>1 DEF StartCycle
<1>2. CASE Evaluate
  BY <1>2 DEF Evaluate
<1>3. CASE EndCycle
  BY <1>3 DEF EndCycle
<1> QED
  BY <1>1, <1>2, <1>3

LEMMA RestStep ==
  ASSUME WatchInv, NEW s \in WatchSymbols, RestOfLoop(s) \/ BrokerFill(s)
  PROVE  WatchInv'
<1> USE WatchdogAssumption DEF WatchInv, WatchdogTypeOK, FlagStands
<1>1. CASE BuyAtOnce(s) \/ Adopt(s)
  <2>1. pos' \in [WatchSymbols -> PosType]
    BY <1>1, PositionTypes DEF BuyAtOnce, Adopt, PosType, Ids
  <2>2. buys' \in 0..MaxBuys
    BY <1>1 DEF BuyAtOnce, Adopt
  <2>3. holds' \in [WatchSymbols -> BOOLEAN]
    BY <1>1 DEF BuyAtOnce, Adopt
  <2> QED
    BY <1>1, <2>1, <2>2, <2>3 DEF BuyAtOnce, Adopt, PosType
<1>2. CASE FillReported(s) \/ CloseMissing(s)
  <2>1. pos' \in [WatchSymbols -> PosType]
    BY <1>2, PositionTypes DEF FillReported, CloseMissing, PosType
  <2>2. stamps' \in [Positions -> SUBSET ExitStages]
    BY <1>2, StampTypes DEF FillReported, CloseMissing
  <2> QED
    BY <1>2, <2>1, <2>2 DEF FillReported, CloseMissing, PosType
<1>3. CASE OrderEnds(s)
  BY <1>3 DEF OrderEnds
<1>4. CASE BrokerFill(s)
  BY <1>4 DEF BrokerFill
<1> QED
  BY <1>1, <1>2, <1>3, <1>4 DEF RestOfLoop

LEMMA WatchStep == WatchInv /\ [WatchdogNext]_watchdogVars => WatchInv'
<1>1. ASSUME WatchInv, WatchdogNext PROVE WatchInv'
  BY <1>1, CheckStep, RetryStep, CycleStep, RestStep DEF WatchdogNext, WatchdogCycle
<1>2. ASSUME WatchInv, UNCHANGED watchdogVars PROVE WatchInv'
  BY <1>2 DEF watchdogVars, WatchInv, WatchdogTypeOK, FlagStands
<1> QED
  BY <1>1, <1>2

(* A BUY goes out between two cycles and with the flag down.               *)
LEMMA BuyStep == WatchInv /\ [WatchdogNext]_watchdogVars
                   => [buys' # buys => failures = {}]_watchdogVars
<1> SUFFICES ASSUME WatchInv, WatchdogNext, buys' # buys
             PROVE  failures = {}
  OBVIOUS
<1>1. PICK s \in WatchSymbols : BuyAtOnce(s)
  BY DEF WatchdogNext, WatchdogCycle, RestOfLoop, CheckPosition, Priced, RetryExit, StartCycle,
         Evaluate, EndCycle, CheckFails, CheckQuiet, CheckExits, CheckCloses, RetryNothing,
         RetryRefused, RetryCloses, FillReported, OrderEnds, Adopt, CloseMissing, BrokerFill
<1> QED
  BY <1>1 DEF BuyAtOnce, WatchInv, FlagStands

-----------------------------------------------------------------------------
(* The three together: a step of one leaves the others alone.              *)

GatesInv == ControlInv /\ BreakerInv /\ WatchInv

LEMMA StepOfOne ==
  [Next]_vars => /\ [ControlNext]_controlVars /\ [BreakerNext]_breakerVars
                 /\ [WatchdogNext]_watchdogVars
BY DEF Next, vars, ExitWatchdogRuns, ProcessesRun, BreakerRuns

(* The inductive invariant holds in every reachable state: who trades      *)
(* holds the lock, a closed breaker has few errors, the router's flag      *)
(* stands between two cycles while a failure does.                         *)
THEOREM GatesInvariant == Spec => []GatesInv
<1>1. Init => GatesInv
  BY ControlInitInv, BreakerInitInv, WatchInitInv DEF Init, GatesInv
<1>2. GatesInv /\ [Next]_vars => GatesInv'
  BY StepOfOne, ControlStep, BreakerStep, WatchStep DEF GatesInv
<1> QED
  BY <1>1, <1>2, PTL DEF Spec

(* An account is traded by one process at most, for any supervisors and    *)
(* processes, whatever is killed, restarted or started twice               *)
(* (account_lock.py acquire_all, live_quant_trader.py main).               *)
THEOREM OneProcessPerAccount == Spec => []AccountsSound
<1>1. GatesInv => AccountsSound
  BY OneTrader DEF GatesInv, ControlInv, AccountsSound
<1> QED
  BY <1>1, GatesInvariant, PTL

(* The breaker is closed only while fewer orders in a row have failed than *)
(* it allows, for any limits and times, and the watchdog's state keeps its *)
(* type (circuit_breaker.py record_order_failure, attempt_recovery).       *)
THEOREM ClosedBreakerHasFewErrors == Spec => []GatesSound
<1>1. GatesInv => GatesSound
  BY DEF GatesInv, BreakerInv, WatchInv, GatesSound
<1> QED
  BY <1>1, GatesInvariant, PTL

(* No BUY goes out while an exit is recorded as failing, for any number of *)
(* positions and failures, although the router has the flag of the last    *)
(* cycle only (exit_watchdog.py, critical_exit_failure_active).            *)
THEOREM NoBuyDuringFailure == Spec => BuysWaitForExits
<1>1. GatesInv /\ [Next]_vars => [buys' # buys => failures = {}]_watchdogVars
  BY StepOfOne, BuyStep DEF GatesInv
<1> QED
  BY <1>1, GatesInvariant, PTL DEF Spec, BuysWaitForExits
=============================================================================
