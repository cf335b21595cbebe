---------------------------- MODULE PriceMeasures ----------------------------
(***************************************************************************)
(* How far a position's price has moved: the measures both versions of     *)
(* _check_time_stop (position_manager.py, position_tracker.py) decide by,  *)
(* compared with thresholds in 1/10000 so that no rounding is needed.      *)
(***************************************************************************)
EXTENDS Integers, FiniteSetsExt

Least(a, b)    == Min({a, b})
Greatest(a, b) == Max({a, b})
Distance(a, b) == IF a < b THEN b - a ELSE a - b

(* pct_change <= limit                                                     *)
ChangeWithin(p, price, limit) == Distance(price, p.entry) * 10000 <= limit * p.entry

(* progress < limit: the way to the first target, or to entry + 2 % when   *)
(* the target is not above the entry.                                      *)
Way50(p) == IF p.t1 > p.entry THEN (p.t1 - p.entry) * 50 ELSE p.entry
ProgressBelow(p, price, limit) == (price - p.entry) * 50 * 100 < (limit \div 100) * Way50(p)

(* atr_move < limit, with r_unit in the place of an unknown ATR.           *)
AtrMoveBelow(p, price, atr, limit) ==
  Distance(price, p.entry) * 10000 < limit * (IF atr > 0 THEN atr ELSE p.r)

(* int(highest - k/2 * atr), or the stop while there is no ATR.            *)
TrailTarget(p, halves, atr) ==
  IF atr > 0 THEN (2 * p.high - halves * atr) \div 2 ELSE p.stop
=============================================================================
