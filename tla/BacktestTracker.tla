--------------------------- MODULE BacktestTracker ---------------------------
(***************************************************************************)
(* backtester/position_tracker.py: the positions of the replay, managed on *)
(* every bar, and the two ledgers they leave behind, one record for each   *)
(* exit (closed_trades) and one for each round trip (round_trip_trades).   *)
(*                                                                         *)
(* The tracker is a value: the open position of each symbol (one at most,  *)
(* the decision core buys no symbol it holds), the round trips in order    *)
(* and the sum of the closed trades' net results.  A position on its way   *)
(* through update_and_manage is carried in w = [p, trips, recs, done]:     *)
(* the Position object lives on after it left active_positions.            *)
(***************************************************************************)
EXTENDS ExecutionSimulator, Sequences, Functions

NoPosition == [qty |-> 0]
EmptyTracker(symbols) ==
  [held |-> [s \in symbols |-> NoPosition], trips |-> <<>>, tradeNet |-> 0, opened |-> 0]

(* open_position: a stop that is not below the entry becomes 98 % of it.   *)
OpenPosition(tr, s, hz, qty, entry, stop, t1, t2, at) ==
  LET low == IF stop < entry THEN stop ELSE (entry * 98) \div 100
  IN  [tr EXCEPT
        !.opened = @ + 1,
        !.held[s] =
          [id |-> tr.opened + 1, hz |-> hz, qty |-> qty, initial |-> qty,
           entry |-> entry, stop |-> low, t1 |-> t1, t2 |-> t2,
           r |-> Greatest(1, entry - low), took1 |-> FALSE, took2 |-> FALSE,
           trail |-> low, high |-> entry, last |-> entry, status |-> "ACTIVE",
           since |-> at, feeLeft |-> Commission(entry, qty), outs |-> <<>>]]

(* What one exit brings in, net of its own commission and tax.             *)
NetSale(x) == Value(x.price, x.qty) - Commission(x.price, x.qty) - SalesTax(x.price, x.qty)

Total(seq, Op(_)) == SumFunction([i \in DOMAIN seq |-> Op(seq[i])])

(* _finalize_round_trip: everything the position sold against everything   *)
(* it bought, the commission of the entry included.                        *)
RoundTrip(p) ==
  [id |-> p.id, initial |-> p.initial,
   sold |-> Total(p.outs, LAMBDA x : x.qty),
   net  |-> Total(p.outs, NetSale) - Value(p.entry, p.initial) - Commission(p.entry, p.initial)]

(* The end of both _execute_ functions: a position without shares leaves   *)
(* active_positions and its round trip is written.                         *)
Sold(w, x, entryFee) ==
  LET p    == [w.p EXCEPT !.qty = @ - x.qty, !.outs = Append(@, x), !.feeLeft = @ - entryFee]
      rec  == [x EXCEPT !.net = NetSale(x) - Value(p.entry, x.qty) - entryFee]
  IN  [w EXCEPT !.p = p, !.recs = Append(@, rec),
                !.trips = IF p.qty = 0 THEN Append(@, RoundTrip(p)) ELSE @]

Exit(fill, reason) == [qty |-> fill.qty, price |-> fill.price, reason |-> reason, net |-> 0]

(* _execute_full_exit: the remaining shares, also when there are none, and *)
(* the rest of the entry's commission; the caller goes on to the next      *)
(* position.                                                               *)
FullExit(w, kind, ref, reason, b) ==
  [Sold(w, Exit(ExitFill(kind, w.p.qty, ref, b), reason), w.p.feeLeft) EXCEPT !.done = TRUE]

(* _execute_partial_exit: a share of the present quantity, one at least,   *)
(* and as much of it as the bar's volume lets through.                     *)
Tranche(w, percent, target, reason, b) ==
  LET wanted == Least(Greatest(1, (w.p.qty * percent) \div 100), w.p.qty)
      fill   == ExitFill("target", wanted, target, b)
  IN  IF fill.qty = 0 THEN w
      ELSE Sold(w, Exit(fill, reason), Commission(w.p.entry, fill.qty))

(* _check_time_stop for an intraday position, e minutes after the bar it   *)
(* was bought on (0.3 s before the fill): 20 minutes without movement make *)
(* it stale, after 30 it is sold unless it is on its way.                  *)
Aged(p, c, e) ==
  IF /\ e > 20 /\ p.status = "ACTIVE"
     /\ ChangeWithin(p, c, 30) /\ ProgressBelow(p, c, 2000)
  THEN [p EXCEPT !.status = "STALE_POSITION"] ELSE p

TimeIsUp(p, c, e, atr) ==
  /\ e > 30
  /\ ProgressBelow(p, c, 3500)
  /\ ~(c * 1000 >= p.entry * 1008 /\ c * 1000 >= p.high * 995)
  /\ ProgressBelow(p, c, 2500)
  /\ \/ ChangeWithin(p, c, 20) \/ p.status = "STALE_POSITION"
     \/ AtrMoveBelow(p, c, atr, 3000)

(* Targets: 30 % of an intraday, 20 % of a swing position; the first one   *)
(* lifts the stop to the entry.                                            *)
Percent(p) == IF p.hz = "INTRADAY" THEN 30 ELSE 20
FirstTaken(p) == [p EXCEPT !.took1 = TRUE, !.stop = Greatest(@, p.entry)]
FirstTarget(w, b) ==
  IF w.p.took1 \/ b.high < w.p.t1 THEN w
  ELSE [Tranche(w, Percent(w.p), w.p.t1, "1R", b) EXCEPT !.p = FirstTaken(@)]
SecondTarget(w, b) ==
  IF w.p.took2 \/ b.high < w.p.t2 THEN w
  ELSE [Tranche(w, Percent(w.p), w.p.t2, "2R", b) EXCEPT !.p.took2 = TRUE]

(* The trailing stop, from the bar after the first target: 1.5 or 2.5 ATR  *)
(* below the high, or a close below the moving average.                    *)
Halves(p) == IF p.hz = "INTRADAY" THEN 3 ELSE 5
Trailing(w, b, x) ==
  LET trail == Greatest(w.p.trail, TrailTarget(w.p, Halves(w.p), x.atr))
      v     == [w EXCEPT !.p.trail = trail]
  IN  IF b.low <= trail \/ (x.avg > 0 /\ b.close < x.avg)
      THEN FullExit(v, "stop", trail, "stop", b) ELSE v

TimeStop(w, b, x) ==
  LET v == [w EXCEPT !.p = Aged(@, b.close, x.now - w.p.since)]
  IN  IF w.p.hz # "INTRADAY" THEN w
      ELSE IF TimeIsUp(v.p, b.close, x.now - w.p.since, x.atr)
      THEN FullExit(v, "stop", b.low, "stop", b) ELSE v

(* From 15:20 an intraday position goes at the market, from 15:10 if it    *)
(* is losing.                                                              *)
Closing(p, b, x) ==
  p.hz = "INTRADAY" /\ (x.at >= 920 \/ (x.at >= 910 /\ b.close < p.entry))

Seen(p, b) == [p EXCEPT !.last = b.close, !.high = Greatest(@, b.high)]

(* update_and_manage for one position.                                     *)
Managed(w, b, x) ==
  LET v == [w EXCEPT !.p = Seen(@, b)]
      targets == SecondTarget(FirstTarget(v, b), b)
      trailed == IF v.p.took1 THEN Trailing(targets, b, x) ELSE targets
  IN  IF Closing(v.p, b, x)          THEN FullExit(v, "market", 0, "close", b)
      ELSE IF b.low <= v.p.stop      THEN FullExit(v, "stop", v.p.stop, "stop", b)
      ELSE IF trailed.done           THEN trailed
      ELSE TimeStop(trailed, b, x)

(* The whole call: the exits of the bar are its result, recs.              *)
AfterBar(tr, s, w) ==
  [tracker |-> [tr EXCEPT
     !.held[s] = IF w.p.qty = 0 THEN NoPosition ELSE w.p,
     !.trips = w.trips,
     !.tradeNet = @ + Total(w.recs, LAMBDA r : r.net)],
   recs |-> w.recs]
Updated(tr, s, b, x) ==
  IF tr.held[s] = NoPosition THEN [tracker |-> tr, recs |-> <<>>]
  ELSE AfterBar(tr, s, Managed([p |-> tr.held[s], trips |-> tr.trips, recs |-> <<>>, done |-> FALSE], b, x))
=============================================================================
