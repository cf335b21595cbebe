---------------------------- MODULE LearningData ----------------------------
(***************************************************************************)
(* From decisions to training labels.  The cycle of the trader stores a    *)
(* snapshot of every signal it evaluates and follows what the refused ones *)
(* would have earned (ml/experience_memory.py); the end-of-day batch       *)
(* (ml/eod_worker.py) labels the decisions of the day from what is stored  *)
(* (database/persistence.py).  Both write experience_outcomes.             *)
(*                                                                         *)
(* Returns are in thousandths; 1 R counts 20 of them.  An event is known by*)
(* its symbol and its second, whatever strategy it came from.              *)
(***************************************************************************)
EXTENDS Integers, FiniteSets, FiniteSetsExt, Functions

CONSTANTS LearnSymbols,
          Strategies,   \* whose virtual trades have stops and targets of their own
          Gains, Losses,   \* returns that prices may show
          SecondsADay,
          PageLimit,    \* decisions labelled in a batch (500)
          LastSecond, MaxSnapshots   \* bounds

ASSUME LearningAssumption ==
  /\ Gains \subseteq Nat \ {0} /\ Losses \subseteq Nat \ {0}
  /\ {SecondsADay, PageLimit, LastSecond, MaxSnapshots} \subseteq Nat \ {0}

Moves == Gains \cup {0} \cup {-l : l \in Losses}

VARIABLES
  second,
  snapshots,    \* experience_snapshots: event -> decision
  refusals,     \* no_trade_records
  tracking,     \* memory: event -> strategy whose virtual trade is followed
  outcomes,     \* experience_outcomes: event -> outcome
  labels,       \* retrospective_labels: event or refusal -> [ret, label]
  batchDay      \* day of the last batch

learningVars == <<second, snapshots, refusals, tracking, outcomes, labels, batchDay>>

Decisions == {"BUY", "WAIT", "NO_TRADE"}
Event(s) == [kind |-> "EVT", sym |-> s, at |-> second]
Refusal(s) == [kind |-> "OP_NT", sym |-> s, at |-> second]

Today == second \div SecondsADay
MarketClosed == (second + 1) % SecondsADay = 0    \* the day's last second

LearningInit ==
  /\ second = 0
  /\ snapshots = <<>> /\ refusals = {} /\ tracking = <<>>
  /\ outcomes = <<>> /\ labels = <<>>
  /\ batchDay = -1

SecondPasses ==
  /\ second < LastSecond /\ second' = second + 1
  /\ UNCHANGED <<snapshots, refusals, tracking, outcomes, labels, batchDay>>

With(f, x, y) == [z \in DOMAIN f \cup {x} |-> IF z = x THEN y ELSE f[z]]

(* A signal is evaluated.  record_snapshot never changes a row, but the    *)
(* virtual trade followed is the one of the last signal of that second.    *)
EvaluateDecision(s, strategy, decision) ==
  LET e == Event(s)
  IN
  /\ ~MarketClosed
  /\ e \in DOMAIN snapshots \/ Cardinality(DOMAIN snapshots) < MaxSnapshots
  /\ snapshots' = IF e \in DOMAIN snapshots THEN snapshots ELSE With(snapshots, e, decision)
  /\ tracking' = IF decision = "BUY" THEN tracking ELSE With(tracking, e, strategy)
  /\ refusals' = IF decision = "BUY" THEN refusals ELSE refusals \cup {Refusal(s)}
  /\ UNCHANGED <<second, outcomes, labels, batchDay>>

(* on_price_update of one followed event: at its target, its stop, both,   *)
(* or its time limit it gets the market's outcome: the best move since (or *)
(* before, on that day: the price update brings the day's high), and the   *)
(* return at the last price.  Its category is left out.                    *)
Resolve(e) ==
  /\ e \in DOMAIN tracking /\ e.at < second
  /\ \E best \in {m \in Moves : m >= 0} : \E net \in {m \in Moves : m <= best} :
       outcomes' = With(outcomes, e, [best |-> best, net |-> net])
  /\ tracking' = Restrict(tracking, DOMAIN tracking \ {e})
  /\ UNCHANGED <<second, snapshots, refusals, labels, batchDay>>

(* What is followed is kept in memory only.                                *)
ForgetTracking ==
  /\ tracking # <<>> /\ tracking' = <<>>
  /\ UNCHANGED <<second, snapshots, refusals, outcomes, labels, batchDay>>

-----------------------------------------------------------------------------
(* The end-of-day batch.                                                   *)

Newest(S, n) ==
  {x \in S : Cardinality({y \in S : y.at > x.at}) < n}

(* get_pending_labels: snapshots without a label, newest first, then the   *)
(* refusals, whether or not they have one.  (Limits are cut at a second.)  *)
Pending ==
  LET open == Newest(DOMAIN snapshots \ DOMAIN labels, PageLimit)
  IN  open \cup Newest(refusals, PageLimit - Cardinality(open))

DecisionOf(r) == IF r.kind = "OP_NT" THEN "NO_TRADE" ELSE snapshots[r]

ReturnOf(o) == IF o.best > 0 THEN o.best ELSE o.net

(* Mutant of FirstWithOutcome: only snapshots after the decision count.    *)
FirstAfter(r) ==
  LET S == {e \in DOMAIN outcomes \cap DOMAIN snapshots : e.sym = r.sym /\ e.at > r.at}
  IN  {e \in S : \A f \in S : e.at <= f.at}

(* The first snapshot of the symbol from the decision on with an outcome.  *)
FirstWithOutcome(r) ==
  LET S == {e \in DOMAIN outcomes \cap DOMAIN snapshots : e.sym = r.sym /\ e.at >= r.at}
  IN  {e \in S : \A f \in S : e.at <= f.at}

(* calculate_future_return: that outcome, else the prices of the snapshots *)
(* that follow (one alone shows no move), else a trade of the day, else    *)
(* half a per cent.                                                        *)
FutureReturns(r) ==
  LET known == FirstWithOutcome(r)
      later == {e \in DOMAIN snapshots : e.sym = r.sym /\ e.at > r.at}
  IN  IF known # {} THEN {ReturnOf(outcomes[e]) : e \in known}
      ELSE IF later # {} THEN IF Cardinality(later) = 1 THEN {0} ELSE Moves
      ELSE Moves \cup {5}

LabelOf(decision, ret) ==
  CASE decision = "NO_TRADE" /\ ret >= 50 -> "MISSED_WINNER"
    [] decision = "NO_TRADE" /\ ret < 0   -> "CORRECT_REJECT"
    [] decision = "NO_TRADE" /\ ret \in 0 .. 49 -> "NEUTRAL_REJECT"
    [] decision = "BUY" /\ ret > 0  -> "WINNING_TRADE"
    [] decision = "BUY" /\ ret <= 0 -> "FALSE_SIGNAL"
    [] OTHER -> "UNRESOLVED"

(* update_labels: the label, and an outcome made from it in the place of   *)
(* the market's.                                                           *)
LabelOutcome(ret) == [best |-> Max({ret, 0}), net |-> ret]

CollectAndLabel ==
  /\ MarketClosed /\ batchDay # Today
  /\ batchDay' = Today
  /\ \E ret \in [Pending -> Moves \cup {5}] :
       /\ \A r \in Pending : ret[r] \in FutureReturns(r)
       /\ labels' = [r \in Pending \cup DOMAIN labels |->
            IF r \in Pending THEN [ret |-> ret[r], label |-> LabelOf(DecisionOf(r), ret[r])]
            ELSE labels[r]]
       /\ outcomes' = [r \in Pending \cup DOMAIN outcomes |->
            IF r \in Pending THEN LabelOutcome(ret[r])
            ELSE outcomes[r]]
  /\ UNCHANGED <<second, snapshots, refusals, tracking>>

LearningNext ==
  \/ SecondPasses \/ ForgetTracking \/ CollectAndLabel
  \/ \E s \in LearnSymbols, p \in Strategies, d \in Decisions : EvaluateDecision(s, p, d)
  \/ \E e \in DOMAIN tracking : Resolve(e)

LearningSpec == LearningInit /\ [][LearningNext]_learningVars

-----------------------------------------------------------------------------
(* Rows, memory and labels have their types; only stored events are        *)
(* followed.                                                               *)
LearningTypeOK ==
  /\ second \in 0 .. LastSecond /\ batchDay \in -1 .. Today
  /\ snapshots \in [DOMAIN snapshots -> Decisions]
  /\ tracking \in [DOMAIN tracking -> Strategies] /\ DOMAIN tracking \subseteq DOMAIN snapshots
  /\ DOMAIN labels \subseteq DOMAIN snapshots \cup refusals
  /\ DOMAIN outcomes \subseteq DOMAIN snapshots \cup refusals

(* Whatever else happened to its symbol, a decision that was followed to   *)
(* its end is labelled by its own outcome, and the outcome that takes its  *)
(* place says the same return (calculate_future_return, update_labels).    *)
LabelledByOwnOutcome ==
  [][\A e \in DOMAIN labels' \cap DOMAIN outcomes \cap DOMAIN snapshots :
       e \notin DOMAIN labels =>
         /\ labels'[e].ret = ReturnOf(outcomes[e])
         /\ ReturnOf(outcomes'[e]) = labels'[e].ret]_learningVars
=============================================================================
