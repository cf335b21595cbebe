-------------------------------- MODULE Replay --------------------------------
(***************************************************************************)
(* backtester/realistic_engine.py and the decision core it calls           *)
(* (shared_decision_core.py, risk/): history bar by bar.  At a time stamp  *)
(* every symbol's position is managed, then every symbol may be bought,    *)
(* then the portfolio is marked to market.                                 *)
(*                                                                         *)
(* Which strategy matches is any signal of Signals; scores, similarity and *)
(* edge only decide whether there is one.  Counterfactuals of refused      *)
(* signals, the funnel and the summary are output.                         *)
(***************************************************************************)
EXTENDS BacktestTracker

CONSTANTS BarList,      \* sequence: the symbols in the order of their bars
          AtrValues,    \* the ATRs a bar may carry, 0 for none
          Capital,      \* initial_capital, in won
          BarTimes,     \* sequence of minutes of the day with a bar
          Markets,      \* the bars of one time stamp: symbol -> bar
          Signals(_),   \* the signals a bar may give
          MaxStamps     \* bound on the time stamps

ReplaySymbols == Range(BarList)

ASSUME ReplayAssumption ==
  /\ Capital \in Nat /\ AtrValues \subseteq Nat
  /\ BarList \in Seq(ReplaySymbols) /\ BarList # <<>>
  /\ BarTimes \in Seq(Nat) /\ BarTimes # <<>>
  /\ \A m \in Markets : \A s \in ReplaySymbols :
       /\ m[s] \in [open : Nat, high : Nat, low : Nat, close : Nat, volume : Nat]
       /\ WellFormed(m[s])
       /\ \A sig \in Signals(m[s]) :
            /\ sig.hz \in {"INTRADAY", "SWING"} /\ sig.kind \in {"MARKET", "LIMIT"}
            /\ {sig.entry, sig.stop, sig.t1, sig.t2} \subseteq Nat

VARIABLES cash, equity, dayStart,  \* money, in units of 1/100000 won
          tracker, cooldowns,      \* cooldowns: symbol -> minute
          clock,                   \* [day, slot]
          phase, next, bars        \* inside one time stamp; next: index in BarList
replayVars == <<cash, equity, dayStart, tracker, cooldowns, clock, phase, next, bars>>

At  == BarTimes[clock.slot]
Now == clock.day * 1440 + At

ReplayInit ==
  /\ cash = Value(Capital, 1) /\ equity = Value(Capital, 1) /\ dayStart = Value(Capital, 1)
  /\ tracker = EmptyTracker(ReplaySymbols)
  /\ cooldowns = [s \in ReplaySymbols |-> 0]
  /\ clock = [day |-> 1, slot |-> 1]
  /\ phase = "manage" /\ next = 1
  /\ bars \in Markets

(***************************************************************************)
(* Managing.                                                               *)
(***************************************************************************)
(* Mutant of Proceeds: the sales tax stays in the trade record.            *)
ProceedsUntaxed(r) == Value(r.price, r.qty) - Commission(r.price, r.qty)

(* The cash an exit brings: its commission and tax, the entry's commission *)
(* was paid when the shares were bought.                                   *)
Proceeds(r) == Value(r.price, r.qty) - Commission(r.price, r.qty) - SalesTax(r.price, r.qty)

(* record_stop_loss, for every reason with STOP in it: 20 minutes without  *)
(* the symbol.                                                             *)
CooledDown(s, recs) ==
  IF \E i \in DOMAIN recs : recs[i].reason = "stop"
  THEN [cooldowns EXCEPT ![s] = Now + 20] ELSE cooldowns

OnToNext(this, following) ==
  IF next = Len(BarList) THEN next' = 1 /\ phase' = following
                         ELSE next' = next + 1 /\ phase' = this

Manage(s) ==
  /\ phase = "manage" /\ s = BarList[next]
  /\ \E atr \in AtrValues :
       LET u == Updated(tracker, s, bars[s], [at |-> At, now |-> Now, atr |-> atr, avg |-> 0])
       IN  /\ tracker' = u.tracker
           /\ cash' = cash + Total(u.recs, Proceeds)
           /\ cooldowns' = CooledDown(s, u.recs)
  /\ OnToNext("manage", "evaluate")
  /\ UNCHANGED <<equity, dayStart, clock, bars>>

(***************************************************************************)
(* Evaluating: evaluate_bar.                                               *)
(***************************************************************************)
Held == {s \in ReplaySymbols : tracker.held[s] # NoPosition}

(* LossLimitManager.evaluate_loss_limits on the day's loss: at 2.5 % no    *)
(* intraday entries, at 3 % none at all.                                   *)
LossAllows(hz) ==
  LET loss == dayStart - equity
  IN  loss < (dayStart \div 1000) * (IF hz = "INTRADAY" THEN 25 ELSE 30)

(* PortfolioRiskManager.calculate_total_open_risk: over 4 % is BLOCKED.    *)
OpenRisk == FoldFunctionOnSet(LAMBDA p, sum : p.r * p.initial + sum, 0, tracker.held, Held)
RiskAllows == OpenRisk * Won <= (equity \div 100) * 4

(* PositionSizer.calculate_shares: half a percent of the equity at risk    *)
(* (one percent for a swing, half of that from 8 % of distance on), all of *)
(* it covered by the cash at 1.25 times the price for a market order, plus *)
(* 0.065 % of costs; a single share if 35 % of the equity pay for it.      *)
StopDistance(sig) ==
  IF sig.stop = sig.entry THEN Greatest(1, (sig.entry * 2) \div 100)
  ELSE Distance(sig.entry, sig.stop)
TooFar(sig) ==
  StopDistance(sig) * 1000 > sig.entry * (IF sig.hz = "INTRADAY" THEN 35 ELSE 120)
PerShare(sig) ==
  StopDistance(sig) * (IF sig.hz = "SWING" /\ StopDistance(sig) * 100 < sig.entry * 8
                       THEN 100 ELSE 200)
Required(qty, sig) ==
  ((qty * sig.entry * (IF sig.kind = "MARKET" THEN 125 ELSE 100)) \div 100) * 100065

Shares(sig) ==
  LET byRisk == equity \div (PerShare(sig) * Won)
  IN  IF TooFar(sig) \/ Required(Greatest(1, byRisk), sig) > cash THEN 0
      ELSE IF byRisk = 0 /\ Value(sig.entry, 1) <= (equity \div 20) * 7 THEN 1
      ELSE byRisk

(* The guards of evaluate_bar in their order: no intraday entry from 15:00 *)
(* on, none of a symbol held, none in a cooldown that is not a strong      *)
(* re-entry, the loss and risk limits.                                     *)
InTime(sig) == sig.hz = "INTRADAY" => At < 900
Rested(s, sig) == Now < cooldowns[s] => sig.strong
Approved(s, sig) ==
  /\ InTime(sig) /\ s \notin Held /\ Rested(s, sig)
  /\ LossAllows(sig.hz) /\ RiskAllows /\ Shares(sig) > 0

(* The order meets the bar whose close gave the signal.                    *)
Bought(s, sig) ==
  LET fill == EntryFill(sig.kind, Shares(sig), sig.entry, bars[s])
  IN  /\ fill.qty > 0
      /\ cash' = cash - Value(fill.price, fill.qty) - Commission(fill.price, fill.qty)
      /\ tracker' = OpenPosition(tracker, s, sig.hz, fill.qty, fill.price,
                                sig.stop, sig.t1, sig.t2, Now)

Evaluate(s) ==
  /\ phase = "evaluate" /\ s = BarList[next]
  /\ \/ \E sig \in Signals(bars[s]) : Approved(s, sig) /\ Bought(s, sig)
     \/ UNCHANGED <<cash, tracker>>
  /\ OnToNext("evaluate", "mark")
  /\ UNCHANGED <<equity, dayStart, cooldowns, clock, bars>>

(***************************************************************************)
(* Marking to market, and the next time stamp.                             *)
(***************************************************************************)
MarketValue ==
  SumFunction([s \in Held |-> Value(tracker.held[s].last, tracker.held[s].qty)])

Mark ==
  /\ phase = "mark"
  /\ equity' = cash + MarketValue
  /\ phase' = "marked"
  /\ UNCHANGED <<cash, dayStart, tracker, cooldowns, clock, next, bars>>

NextBars ==
  /\ phase = "marked" /\ (clock.day - 1) * Len(BarTimes) + clock.slot < MaxStamps
  /\ IF clock.slot < Len(BarTimes)
     THEN clock' = [clock EXCEPT !.slot = @ + 1] /\ UNCHANGED dayStart
     ELSE /\ clock' = [day |-> clock.day + 1, slot |-> 1]
          /\ dayStart' = equity
  /\ phase' = "manage" /\ next' = 1
  /\ bars' \in Markets
  /\ UNCHANGED <<cash, equity, tracker, cooldowns>>

ReplayNext ==
  \/ \E s \in ReplaySymbols : Manage(s) \/ Evaluate(s)
  \/ Mark \/ NextBars

ReplaySpec == ReplayInit /\ [][ReplayNext]_replayVars

(***************************************************************************)
(* Properties                                                              *)
(***************************************************************************)
ReplayTypeOK ==
  /\ cash \in Int /\ equity \in Int /\ dayStart \in Int
  /\ cooldowns \in [ReplaySymbols -> Nat] /\ bars \in Markets
  /\ phase \in {"manage", "evaluate", "mark", "marked"} /\ next \in DOMAIN BarList
  /\ \A s \in Held : tracker.held[s].qty \in 1 .. tracker.held[s].initial

(* What an open position has cost so far, net of what its sold shares      *)
(* brought in.                                                             *)
Invested(p) == Value(p.entry, p.initial) + Commission(p.entry, p.initial) - Total(p.outs, NetSale)

(* What the engine adds up after marking: the results of its list of round *)
(* trips, and what the open shares have gained since the entry.  The       *)
(* difference to the equity it reports as reconciliation_diff.             *)
TripsNet   == Total(tracker.trips, LAMBDA t : t.net)
Unrealized ==
  SumFunction([s \in Held |->
    Value(tracker.held[s].last - tracker.held[s].entry, tracker.held[s].qty)])
ReconciliationDiff == equity - (Value(Capital, 1) + TripsNet + Unrealized)

(* The entries of the list that write a round trip again.                  *)
Repeated ==
  {i \in DOMAIN tracker.trips : \E j \in 1 .. (i - 1) : tracker.trips[j].id = tracker.trips[i].id}
RepeatedNet == SumFunction([i \in Repeated |-> tracker.trips[i].net])

(* What open positions have realised already: their sold shares, less the  *)
(* commission of the entry.  It is in the cash and in no round trip yet.   *)
Realized(p) ==
  Total(p.outs, NetSale) - Value(p.entry, p.initial - p.qty) - Commission(p.entry, p.initial)
AllInvested == SumFunction([s \in Held |-> Invested(tracker.held[s])])
AllRealized == SumFunction([s \in Held |-> Realized(tracker.held[s])])

(* Every won is accounted for at every moment: the cash is the capital     *)
(* plus the results listed, each round trip's first entry only, less what  *)
(* is invested in the open positions.  And the engine's difference is      *)
(* exactly what it leaves out, the realised part of open positions, less   *)
(* what it counts twice, the round trips written again: no error of the    *)
(* cash hides in it.                                                       *)
ReplayReconciles ==
  /\ cash = Value(Capital, 1) + TripsNet - RepeatedNet - AllInvested
  /\ phase = "marked" => ReconciliationDiff = AllRealized - RepeatedNet

(* A round trip is over when, and only when, it has sold what it bought.   *)
RoundTripsAreWhole ==
  \A i \in DOMAIN tracker.trips : tracker.trips[i].sold = tracker.trips[i].initial

(* No intraday position is open when the day is over: the cut-off at 15:00 *)
(* and the sale at 15:20 leave none behind as long as the day has a bar    *)
(* after 15:20.                                                            *)
NothingHeldOvernight ==
  phase = "marked" /\ clock.slot = Len(BarTimes) /\ At >= 920 =>
    \A s \in Held : tracker.held[s].hz = "SWING"

(* "Trade Count = 1" (position_tracker.py): one round trip for a position. *)
(* A tranche that sells the last share closes it, and the trailing or the  *)
(* time stop of the same bar closes it again.  So this does not hold of    *)
(* the code, and its result is counted again in the list: RepeatedNet.     *)
RoundTripCountedOnce ==
  \A i, j \in DOMAIN tracker.trips : tracker.trips[i].id = tracker.trips[j].id => i = j
=============================================================================
