--------------------------- MODULE CircuitBreaker ---------------------------
(***************************************************************************)
(* The circuit breaker of one account (risk/circuit_breaker.py) with its   *)
(* callers: the cycle of the live trader, the ticks of the older trader    *)
(* (execution/ai_quant_trader.py with risk/trading_firewall.py) and the    *)
(* orders of the router.  Time is counted in steps; Stall, Window and      *)
(* Confirm are the code's 3, 30 and 10 seconds.                            *)
(***************************************************************************)
EXTENDS Integers

CONSTANTS Stall, Window, Confirm, MaxErrors

ASSUME BreakerAssumption == {Stall, Window, Confirm, MaxErrors} \subseteq Nat \ {0}

Never == -1

VARIABLES
  host,        \* "live" or "legacy"
  tripped,     \* "no", "SYSTEM_FAILURE", "DATA_STALE"
  trippedFor,  \* time since trip
  restoredFor, \* time since recovered_at (Never: None)
  errors,      \* consecutive_order_errors
  beatAge,     \* time since last_data_timestamp (Never: none yet)
  feedAge      \* time since the market last sent anything

breakerVars == <<host, tripped, trippedFor, restoredFor, errors, beatAge, feedAge>>

Longest == Window + Confirm + Stall
Older(age) == IF age = Never \/ age = Longest THEN age ELSE age + 1

BreakerInit ==
  /\ host \in {"live", "legacy"}
  /\ tripped = "no" /\ trippedFor = 0 /\ restoredFor = Never
  /\ errors = 0 /\ beatAge = Never /\ feedAge = 0

Brk == [tripped |-> tripped, trippedFor |-> trippedFor, restoredFor |-> restoredFor,
        errors |-> errors, beatAge |-> beatAge]
Becomes(b) == /\ tripped' = b.tripped /\ trippedFor' = b.trippedFor
              /\ restoredFor' = b.restoredFor /\ errors' = b.errors /\ beatAge' = b.beatAge

(* Mutant of Recovered: the errors are not forgiven.                       *)
RecoveredKeepsErrors(b) == [b EXCEPT !.tripped = "no", !.trippedFor = 0, !.restoredFor = 0]
Recovered(b) == [b EXCEPT !.tripped = "no", !.trippedFor = 0, !.restoredFor = 0, !.errors = 0]

Trip(b, why) == IF b.tripped # "no" THEN b
                ELSE [b EXCEPT !.tripped = why, !.trippedFor = 0, !.restoredFor = Never]

(* attempt_recovery.  Tripped by stale data, it wants the data of now, the *)
(* confirmation time, and no order error on the count.  (Its branch for a  *)
(* trip whose reason names a refusal 23962 meets no trip of this code: the *)
(* router, the one caller of record_order_failure, counts no such error.)  *)
StableFor(b) == IF b.restoredFor = Never THEN b.trippedFor ELSE b.restoredFor
Attempt(b, healthy) ==
  IF \/ /\ b.tripped = "DATA_STALE" /\ b.beatAge \in 0 .. Stall
        /\ StableFor(b) >= Confirm /\ b.errors = 0
     \/ b.tripped = "SYSTEM_FAILURE" /\ b.trippedFor >= Window /\ healthy
  THEN Recovered(b) ELSE b

Beat(b) ==
  LET c == [b EXCEPT !.beatAge = 0]
  IN  IF b.tripped # "DATA_STALE" THEN c
      ELSE Attempt([c EXCEPT !.restoredFor = IF @ = Never THEN 0 ELSE @], TRUE)

CheckStaleness(b) == IF b.beatAge > Stall THEN Trip(b, "DATA_STALE") ELSE b

Failed(b) == LET c == [b EXCEPT !.errors = IF @ <= MaxErrors THEN @ + 1 ELSE @]
             IN  IF c.errors >= MaxErrors THEN Trip(c, "SYSTEM_FAILURE") ELSE c
Accepted(b) == [b EXCEPT !.errors = 0]

(* The broker's answer to an order: a business rejection counts as none.   *)
Answers(b) == {Accepted(b), Failed(b), b}

-----------------------------------------------------------------------------
TimePasses ==
  /\ trippedFor' = (IF tripped = "no" THEN 0 ELSE Older(trippedFor))
  /\ restoredFor' = (IF tripped = "no" THEN restoredFor ELSE Older(restoredFor))
  /\ beatAge' = Older(beatAge) /\ feedAge' = Older(feedAge)
  /\ UNCHANGED <<host, tripped, errors>>

(* run_cycle of the live trader: its own clock is the heartbeat, whatever  *)
(* the market sends.                                                       *)
Cycle ==
  /\ host = "live"
  /\ \E healthy \in BOOLEAN : Becomes(Attempt(Beat(Brk), healthy))
  /\ UNCHANGED <<host, feedAge>>

(* on_tick of the older trader: heartbeat and staleness are taken at the   *)
(* same instant, the tick's own time.                                      *)
OnTick ==
  /\ feedAge' = 0
  /\ IF host = "live" THEN UNCHANGED <<tripped, trippedFor, restoredFor, errors, beatAge>>
     ELSE \E b \in {Beat(Brk), CheckStaleness(Beat(Brk))} : Becomes(b)
  /\ UNCHANGED host

(* A BUY passes the gate of submit_order only if the breaker is closed or  *)
(* recovers on the spot.                                                   *)
Buy ==
  /\ \E healthy \in BOOLEAN :
       LET b == Attempt(Brk, healthy)
       IN  IF b.tripped = "no" THEN \E c \in Answers(b) : Becomes(c) ELSE Becomes(b)
  /\ UNCHANGED <<host, feedAge>>

Sell == /\ \E c \in Answers(Brk) : Becomes(c)
        /\ UNCHANGED <<host, feedAge>>

BreakerNext == TimePasses \/ Cycle \/ OnTick \/ Buy \/ Sell

-----------------------------------------------------------------------------
BreakerTypeOK ==
  /\ host \in {"live", "legacy"}
  /\ tripped \in {"no", "SYSTEM_FAILURE", "DATA_STALE"}
  /\ trippedFor \in 0 .. Longest /\ restoredFor \in Never .. Longest
  /\ errors \in 0 .. MaxErrors + 1
  /\ beatAge \in Never .. Longest /\ feedAge \in 0 .. Longest

(* BUYs go out only while fewer than MaxErrors orders in a row have failed *)
(* since the last one the broker accepted or the last recovery, although   *)
(* SELLs go on failing behind a closed gate (record_order_failure,         *)
(* attempt_recovery).                                                      *)
FewErrorsWhenClosed == tripped = "no" => errors < MaxErrors
=============================================================================
