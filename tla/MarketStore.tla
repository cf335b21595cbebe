--------------------------- MODULE MarketStore ---------------------------
(***************************************************************************)
(* Which of the listed stocks the trader looks at closely                  *)
(* (core/symbol_store, core/candidate_promotion, core/low_cost_scanner and *)
(* the scanning stages of run_cycle).  A stock is INACTIVE, watched,       *)
(* active, or has given a signal; events on its price move it up, time and *)
(* silence move it down.  Besides the stocks of interest a rolling batch   *)
(* of all stocks is quoted in every cycle.                                 *)
(* The other two states are never entered: no caller sets a cooldown in    *)
(* the store, and none moves a bought stock to POSITION.                   *)
(***************************************************************************)
EXTENDS Naturals, Sequences, FiniteSets

CONSTANTS Codes,        \* sequence: _all_symbol_codes
          Lively,       \* those with any event on their price
          BatchSize,    \* _rolling_batch_size
          Ttl,          \* candidate_ttl_seconds
          MaxIdle,      \* max_idle_seconds of check_watch_timeouts
          CyclePauses,  \* time between the starts of two cycles
          StoreEnd      \* bound on the clock

ASSUME StoreAssumption ==
  /\ BatchSize \in Nat \ {0} /\ Len(Codes) \in Nat /\ Len(Codes) >= BatchSize
  /\ Ttl \in Nat /\ MaxIdle \in Nat /\ Ttl <= MaxIdle /\ StoreEnd \in Nat
  /\ CyclePauses \subseteq Nat \ {0}

VARIABLES stocks,       \* of each stock: state, candidate_time, promoted_at, interest
          rolling,      \* _rolling_scan_index
          idle,         \* of each stock: cycles since it was in the batch
          storeClock,
          scan,         \* the stage of the cycle: "start", "radar", "quotes", "signals"
          raisedAt      \* of each stock: when it last deserved its place (history)
storeVars == <<stocks, rolling, idle, storeClock, scan, raisedAt>>

CodeSet == {Codes[i] : i \in 1..Len(Codes)}
Never == StoreEnd + 1   \* no time yet

(* What an evaluation finds: a score of 55 and more (priority 1 or 2), a   *)
(* score of 35 or an event, or nothing.                                    *)
Evaluations == {"strong", "weak", "none"}

StoreInit ==
  /\ stocks = [c \in CodeSet |-> [state |-> "INACTIVE", since |-> Never,
                                  promoted |-> Never, interest |-> "none"]]
  /\ rolling = 0 /\ idle = [c \in CodeSet |-> 0]
  /\ storeClock = 0 /\ scan = "start"
  /\ raisedAt = [c \in CodeSet |-> Never]

(* transition_state: the candidate's time runs from where it left INACTIVE.*)
MovedTo(x, new) ==
  [x EXCEPT !.state = new,
            !.since = IF new = "INACTIVE" THEN Never
                      ELSE IF @ = Never THEN storeClock ELSE @]

WithinTtl(x) == x.promoted # Never /\ storeClock <= x.promoted + Ttl

(* Mutant of Evaluated: a promotion is remembered, not its confirmation.   *)
EvaluatedOnce(x, e) ==
  LET y == [x EXCEPT !.interest = e] IN
  CASE e = "strong" /\ x.state \in {"ACTIVE", "SIGNAL"} -> y
    [] e = "strong" -> [MovedTo(y, "ACTIVE") EXCEPT !.promoted = storeClock]
    [] e = "weak" /\ x.state = "INACTIVE" -> [MovedTo(y, "WATCH") EXCEPT !.promoted = storeClock]
    [] e = "weak" /\ x.state = "ACTIVE" /\ ~WithinTtl(x) -> MovedTo(y, "WATCH")
    [] e = "none" /\ x.state \in {"ACTIVE", "WATCH"} /\ ~WithinTtl(x) -> MovedTo(y, "INACTIVE")
    [] OTHER -> y

(* process_event_evaluation                                                *)
Evaluated(x, e) ==
  LET y == [x EXCEPT !.interest = e] IN
  CASE e = "strong" ->
         [(IF x.state \in {"ACTIVE", "SIGNAL"} THEN y ELSE MovedTo(y, "ACTIVE"))
            EXCEPT !.promoted = storeClock]
    [] e = "weak" /\ x.state = "INACTIVE" -> [MovedTo(y, "WATCH") EXCEPT !.promoted = storeClock]
    [] e = "weak" /\ x.state = "ACTIVE" /\ ~WithinTtl(x) -> MovedTo(y, "WATCH")
    [] e = "none" /\ x.state \in {"ACTIVE", "WATCH"} /\ ~WithinTtl(x) -> MovedTo(y, "INACTIVE")
    [] OTHER -> y

(* What evaluating a set of stocks may give, one finding each; a stock     *)
(* without a valid quote is left out.                                      *)
Findings(S) == [S \cap Lively -> Evaluations \cup {"no quote"}]

Scan(found) ==
  LET seen == {c \in DOMAIN found : found[c] # "no quote"} IN
  /\ stocks' = [c \in CodeSet |-> IF c \in seen THEN Evaluated(stocks[c], found[c]) ELSE stocks[c]]
  /\ raisedAt' = [c \in CodeSet |->
       IF c \in seen /\ \/ found[c] = "strong"
                        \/ found[c] = "weak" /\ stocks[c].state = "INACTIVE"
       THEN storeClock ELSE raisedAt[c]]

(* The cycle begins: check_watch_timeouts.                                 *)
StartScan ==
  /\ scan = "start"
  /\ \E pause \in CyclePauses :
       /\ storeClock + pause <= StoreEnd
       /\ storeClock' = storeClock + pause
  /\ stocks' = [c \in CodeSet |->
       IF stocks[c].state = "WATCH" /\ storeClock' > stocks[c].since + MaxIdle
       THEN MovedTo(stocks[c], "INACTIVE") ELSE stocks[c]]
  /\ scan' = "radar"
  /\ UNCHANGED <<rolling, idle, raisedAt>>

(* The market radar lists any stocks.                                      *)
RadarScan ==
  /\ scan = "radar"
  /\ \E found \in Findings(CodeSet) : Scan(found)
  /\ scan' = "quotes"
  /\ UNCHANGED <<rolling, idle, storeClock>>

(* The slice of the list from the index on, wrapped around its end.        *)
Batch ==
  LET end == (rolling + BatchSize) % Len(Codes) IN
  {Codes[i + 1] : i \in IF rolling < end THEN rolling..end - 1
                        ELSE (rolling..Len(Codes) - 1) \cup (0..end - 1)}

InView == {c \in CodeSet : stocks[c].state \in {"WATCH", "ACTIVE", "SIGNAL"}}

QuoteStocks ==
  /\ scan = "quotes"
  /\ \E found \in Findings(InView \cup Batch) : Scan(found)
  /\ idle' = [c \in CodeSet |-> IF c \in Batch THEN 0 ELSE idle[c] + 1]
  /\ rolling' = (rolling + BatchSize) % Len(Codes)
  /\ scan' = "signals"
  /\ UNCHANGED storeClock

(* get_promoted_candidates: a watched stock only while something is going  *)
(* on.                                                                     *)
Promoted == {c \in InView : stocks[c].state # "WATCH" \/ stocks[c].interest # "none"}

(* scan_active_signals: every candidate is evaluated once more, and those  *)
(* a strategy likes become signals.  The stage may be left out.            *)
ScanSignals ==
  /\ scan = "signals"
  /\ \/ UNCHANGED <<stocks, raisedAt>>
     \/ \E found \in [Promoted \cap Lively -> Evaluations], liked \in SUBSET (Promoted \cap Lively) :
          /\ stocks' = [c \in CodeSet |->
               IF c \notin DOMAIN found THEN stocks[c]
               ELSE LET x == Evaluated(stocks[c], found[c]) IN
                    IF c \in liked THEN MovedTo(x, "SIGNAL") ELSE x]
          /\ raisedAt' = [c \in CodeSet |->
               IF c \in DOMAIN found /\ found[c] = "strong" THEN storeClock ELSE raisedAt[c]]
  /\ scan' = "start"
  /\ UNCHANGED <<rolling, idle, storeClock>>

StoreNext == StartScan \/ RadarScan \/ QuoteStocks \/ ScanSignals

StoreSpec == StoreInit /\ [][StoreNext]_storeVars

-----------------------------------------------------------------------------
StoreTypeOK ==
  /\ \A c \in CodeSet : /\ stocks[c].state \in {"INACTIVE", "WATCH", "ACTIVE", "SIGNAL"}
                        /\ stocks[c].interest \in Evaluations
                        /\ (stocks[c].since = Never) = (stocks[c].state = "INACTIVE")
  /\ rolling \in 0..Len(Codes) - 1
  /\ scan \in {"start", "radar", "quotes", "signals"}

Rank(state) == CASE state = "INACTIVE" -> 0 [] state = "WATCH" -> 1
                 [] state = "ACTIVE" -> 2   [] state = "SIGNAL" -> 3

(* Hysteresis: a stock moves down only when more than the observation time *)
(* has passed since it last showed a strong event, or a first one, whether *)
(* an evaluation moves it down or the time limit on watched stocks.        *)
DownInTime ==
  \A c \in CodeSet : Rank(stocks'[c].state) < Rank(stocks[c].state)
                        => storeClock' > raisedAt[c] + Ttl
HysteresisKept == [][DownInTime]_storeVars

(* The rolling batch reaches every stock, wherever it wraps: no stock      *)
(* waits longer than it takes to go once through the list.                 *)
RollingScanReachesAll ==
  \A c \in CodeSet : idle[c] * BatchSize <= Len(Codes)
=============================================================================
