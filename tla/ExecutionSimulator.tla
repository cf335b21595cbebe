------------------------- MODULE ExecutionSimulator --------------------------
(***************************************************************************)
(* backtester/execution_simulator.py: what an order of the replay fills,   *)
(* at which price and cost, given the minute bar it meets.                 *)
(*                                                                         *)
(* Prices are whole won below 2000, where the tick is one won and          *)
(* normalize_price keeps what int() has cut off (core/tick_normalizer.py). *)
(* Money is counted in units of 1/100000 won, in which both rates are      *)
(* exact: the commission is 15 and the tax 180 units for a won traded.     *)
(***************************************************************************)
EXTENDS PriceMeasures

Won == 100000

Value(price, qty)      == price * qty * Won
Commission(price, qty) == price * qty * 15
SalesTax(price, qty)   == price * qty * 180

(* A bar: four prices and the volume of one minute.                        *)
WellFormed(b) == /\ b.low <= b.open /\ b.open <= b.high
                 /\ b.low <= b.close /\ b.close <= b.high

CeilDiv(a, b)  == (a + b - 1) \div b

(* A fraction of the price, in 1/1000000 of it: half the spread of 0.15 %, *)
(* 0.05 % of impact and 5 % of the order's share in the bar's volume.      *)
Impact(qty, volume) == 1250 + (50000 * Least(qty, volume)) \div Greatest(1, volume)

Unfilled == [qty |-> 0, price |-> 0]

(* simulate_entry_execution: at most a tenth of the bar's volume; a market *)
(* order at the open plus spread and impact, inside the bar; a limit order *)
(* at the better of limit and open, if the bar came down to the limit.     *)
EntryFill(kind, qty, limit, b) ==
  LET filled == Least(qty, Greatest(1, b.volume \div 10))
  IN  CASE kind = "MARKET" ->
             [qty |-> filled,
              price |-> Least(b.high, Greatest(b.low,
                          b.open + (b.open * Impact(qty, b.volume)) \div 1000000))]
        [] kind = "LIMIT" /\ b.low <= limit ->
             [qty |-> filled, price |-> Least(limit, b.open)]
        [] OTHER -> Unfilled

(* simulate_exit_execution, the branch for stops: every reason with the    *)
(* letters STOP in it, which the trailing and the time stop have as well.  *)
(* A bar that opens below the stop fills at the open less 0.1 %, another   *)
(* at the stop less 0.05 %.                                                *)
StopPrice(stop, b) ==
  LET raw == IF b.open < stop THEN b.open * 9990 ELSE Least(stop, b.open) * 9995
  IN  Least(b.high * 10000, Greatest(b.low * 9900, raw)) \div 10000

(* The branch for targets: a limit order, 15 % of the bar's volume at most.*)
TargetFill(qty, target, b) ==
  IF b.high < target THEN Unfilled
  ELSE [qty |-> Least(qty, Greatest(1, (b.volume * 15) \div 100)),
        price |-> Greatest(target, b.open)]

(* The rest, the two closing hours: all of it, at the open less spread and *)
(* impact.                                                                 *)
MarketPrice(qty, b) ==
  Greatest(b.low, Least(b.high,
    b.open - CeilDiv(b.open * Impact(qty, b.volume), 1000000)))

ExitFill(kind, qty, ref, b) ==
  CASE kind = "stop"   -> [qty |-> qty, price |-> StopPrice(ref, b)]
    [] kind = "target" -> TargetFill(qty, ref, b)
    [] kind = "market" -> [qty |-> qty, price |-> MarketPrice(qty, b)]
=============================================================================
