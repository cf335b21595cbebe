------------------------------ MODULE LiveExits ------------------------------
(***************************************************************************)
(* PositionManager.update_price_and_manage with _check_time_stop and the   *)
(* two functions that order its exits: what a tick makes of one position.  *)
(*                                                                         *)
(* ExitFlow has the orders' life at the broker and the closing of          *)
(* positions for any reason; here the reasons, their precedence, and the   *)
(* kind of order exit_order_policy.py gives each are the subject.  A       *)
(* position is a value: LiveManaged(p, x) is p after the tick x, with the  *)
(* answer x.answer to every order of the tick.                             *)
(***************************************************************************)
EXTENDS PriceMeasures, Sequences

CONSTANTS Ticks,        \* what a quote may be: [price, atr, avg, vwap, mom], avg: EMA9
          LiveEntries,  \* positions as open_position and sync_from_broker make them
          LiveMinutes,  \* sequence: the minutes of the day in which a tick may come
          Found         \* quantities the broker may report after a refusal

OrderTypes == {"NONE", "LIMIT", "MARKET", "AGGRESSIVE_LIMIT"}

(* An opened position may sell all of itself (psbl) and waits for nothing. *)
(* sync_from_broker takes an adopted one's psbl and pend, its shares in    *)
(* unfilled sales, from the broker, and its order, if there are such       *)
(* shares, from the router.  What waits beyond that order, for sales the   *)
(* program does not know, is foreign.  A sale the router has and the       *)
(* broker reports no shares for stays outside the position: other.         *)
ASSUME LiveAssumption ==
  /\ Found \subseteq Nat
  /\ \A p \in LiveEntries :
       /\ {"qty", "psbl", "pend", "foreign", "other", "order", "status"} \subseteq DOMAIN p
       /\ {p.qty, p.psbl, p.pend, p.foreign, p.other} \subseteq Nat /\ p.status = "ACTIVE"
       /\ p.order \in [qty : Nat, size : Nat, type : OrderTypes]
       /\ p.pend <= p.order.qty + p.foreign
       /\ p.other > 0 => p.order = [qty |-> 0, size |-> 0, type |-> "NONE"]

VARIABLES live,         \* the position
          tickNo,       \* the place of the last tick in LiveMinutes
          lastTick      \* the tick just served and the stop it met, or NoTick
liveVars == <<live, tickNo, lastTick>>

NoOrder == [qty |-> 0, size |-> 0, type |-> "NONE"]     \* qty: not yet filled
NoTick  == [price |-> 0]
Unread  == -1                                           \* the holdings cannot be read

Open(p)      == p.qty > 0 /\ p.status # "EXIT_QUARANTINED"
Waits(p)     == p.order # NoOrder
Less(a, b)   == Greatest(0, a - b)
Sellable(p)  == Less(p.qty, p.pend)
InExit(p)    == p.status \in {"EXIT_ORDER_SENT", "EXIT_PENDING"}

(* is_sell_order_execution_allowed: the regular session for a real         *)
(* account, always for a paper one.                                        *)
SellAllowed(x) == x.answer = "filled" \/ x.at \in 540 .. 929

-----------------------------------------------------------------------------
(* parse_exit_reason and POLICY_MAP.  Targets are limit orders.  Stops,    *)
(* trailing stops and the close are market orders, and so are both time    *)
(* stops: their text contains no word for time that the parser knows, and  *)
(* the default is a stop.                                                  *)
PolicyOf(reason) ==
  CASE reason \in {"1R", "2R", "3R"}                     -> "LIMIT"
    [] reason \in {"stop", "trailing", "time", "close"}  -> "MARKET"

(* The order is placed; paper orders are filled by the caller, which       *)
(* leaves the rest of the position PARTIAL_EXITED.                         *)
Placed(p, n, reason, status) ==
  [p EXCEPT !.order = [qty |-> n, size |-> n, type |-> PolicyOf(reason)],
            !.pend = @ + n, !.status = status]

(* on_order_fill.                                                          *)
LiveFill(p, n, whole) ==
  [p EXCEPT !.qty = Less(@, n), !.pend = Less(@, n),
            !.order = IF whole \/ p.qty <= n THEN NoOrder ELSE [p.order EXCEPT !.qty = Less(@, n)],
            !.status = IF p.qty <= n THEN "POSITION_CLOSED"
                       ELSE IF whole THEN @ ELSE "PARTIAL_EXITED"]

(* on_order_cancel_or_reject.                                              *)
Withdrawn(p) ==
  [p EXCEPT !.pend = Less(@, p.order.qty), !.order = NoOrder,
            !.status = IF InExit(p) THEN "OPEN" ELSE @]

(* After a refusal the quantity is what the broker holds.                  *)
Synced(p, x) ==
  IF x.found = Unread THEN p
  ELSE [p EXCEPT !.qty = x.found, !.status = IF x.found = 0 THEN "POSITION_CLOSED" ELSE @]

(* _partial_exit: nothing while an exit order waits, nothing without       *)
(* sellable shares; the router refuses a second sale of the symbol.        *)
PartialExit(p, percent, reason, x) ==
  LET n == Least(Greatest(1, (p.qty * percent) \div 100), Sellable(p))
  IN  IF Waits(p) \/ n = 0 THEN p
      ELSE IF x.answer = "refused" \/ p.other > 0 THEN Synced(p, x)
      ELSE IF x.answer = "filled" THEN LiveFill(p, n, FALSE)
      ELSE Placed(p, n, reason, "EXIT_PENDING")

(* _close_position: all its reasons here override an exit order that       *)
(* waits, whose shares are released by the listener and once more here.    *)
Overridden(p) ==
  IF Waits(p) THEN [Withdrawn(p) EXCEPT !.pend = Less(@, p.order.qty)] ELSE p

(* No more is sold than the broker had to give.                            *)
ToSell(p) == Least(Sellable(p), p.psbl)

(* The third refusal quarantines what the broker still holds.              *)
Refused(p, x) ==
  LET q == Synced([p EXCEPT !.fails = @ + 1, !.status = "EXIT_FAILED"], x)
  IN  IF q.qty > 0 /\ p.fails >= 2 THEN [q EXCEPT !.status = "EXIT_QUARANTINED"] ELSE q

SoldOff(p, reason, x) ==
  IF p.other > 0 THEN p
  ELSE IF ToSell(p) = 0 THEN [p EXCEPT !.status = IF p.qty = 0 THEN "POSITION_CLOSED" ELSE @]
  ELSE IF x.answer = "filled" THEN [p EXCEPT !.qty = 0, !.status = "POSITION_CLOSED"]
  ELSE IF x.answer = "waits" THEN Placed(p, ToSell(p), reason, "EXIT_ORDER_SENT")
  ELSE Refused(p, x)

(* Mutant of ClosePosition: a waiting exit order keeps its place.          *)
ClosePositionUnlessWaiting(p, reason, x) == IF Waits(p) THEN p ELSE SoldOff(p, reason, x)

ClosePosition(p, reason, x) == SoldOff(Overridden(p), reason, x)

-----------------------------------------------------------------------------
(* _check_time_stop, never while an exit order waits.                      *)
Elapsed(p, x) == x.at - p.since

LiveAged(p, x) ==
  IF /\ Elapsed(p, x) >= 20 /\ p.status = "ACTIVE"
     /\ ChangeWithin(p, x.price, 30) /\ ProgressBelow(p, x.price, 2000) /\ x.price <= p.entry
  THEN [p EXCEPT !.status = "STALE_POSITION"] ELSE p

(* An intraday position on its way is spared at any age.                   *)
Trending(p, x) ==
  \/ x.price > p.entry /\ x.price * 1000 >= p.high * 985
  \/ x.vwap > 0 /\ x.price >= x.vwap /\ x.mom >= 0
  \/ ~ProgressBelow(p, x.price, 2500)

Stagnant(p, x) ==
  /\ ProgressBelow(p, x.price, 2000)
  /\ \/ ChangeWithin(p, x.price, 25) \/ x.mom < 0
     \/ x.vwap > 0 /\ x.price * 1000 < x.vwap * 995
     \/ p.status = "STALE_POSITION" \/ x.price < p.entry
     \/ AtrMoveBelow(p, x.price, x.atr, 3000)

LiveTimeIsUp(p, x) ==
  IF p.hz = "INTRADAY" THEN Elapsed(p, x) >= 30 /\ ~Trending(p, x) /\ Stagnant(p, x)
  ELSE /\ Elapsed(p, x) >= 4320 /\ ChangeWithin(p, x.price, 50)
       /\ AtrMoveBelow(p, x.price, x.atr, 5000) /\ ProgressBelow(p, x.price, 2000)

LiveTimeStop(p, x) ==
  LET q == IF p.hz = "INTRADAY" THEN LiveAged(p, x) ELSE p
  IN  IF Waits(p) THEN p
      ELSE IF LiveTimeIsUp(q, x)
      THEN ClosePosition([q EXCEPT !.status = "TIME_STOP_TRIGGERED"], "time", x)
      ELSE q

-----------------------------------------------------------------------------
(* The targets: taken whether or not their order was; the first lifts the  *)
(* stop to the entry.  The third is a swing position's.                    *)
Share(p) == IF p.hz = "INTRADAY" THEN 30 ELSE 20

Take1(p, x) ==
  IF p.took1 \/ x.price < p.t1 \/ ~SellAllowed(x) THEN p
  ELSE [PartialExit(p, Share(p), "1R", x) EXCEPT !.took1 = TRUE, !.stop = Greatest(@, p.entry)]
Take2(p, x) ==
  IF p.took2 \/ x.price < p.t2 \/ ~SellAllowed(x) THEN p
  ELSE [PartialExit(p, Share(p), "2R", x) EXCEPT !.took2 = TRUE]
Take3(p, x) ==
  IF p.took3 \/ p.hz = "INTRADAY" \/ x.price < p.t3 \/ ~SellAllowed(x) THEN p
  ELSE [PartialExit(p, Share(p), "3R", x) EXCEPT !.took3 = TRUE]

(* From the first target on, in the same tick already: 1.5 or 2.5 ATR      *)
(* below the high, or an intraday price below EMA9.  A swing position has  *)
(* the MA20 for that, which no caller passes.                              *)
Trailed(p, x) ==
  IF p.took1
  THEN [p EXCEPT !.trail = Greatest(@, TrailTarget(p, IF p.hz = "INTRADAY" THEN 3 ELSE 5, x.atr))]
  ELSE p
TrailHit(p, x) ==
  /\ p.took1
  /\ x.price <= p.trail \/ (p.hz = "INTRADAY" /\ x.avg > 0 /\ x.price < x.avg)

(* From 15:20 an intraday position goes, from 15:10 if it is losing.       *)
AtClose(p, x) ==
  p.hz = "INTRADAY" /\ (x.at \in 920 .. 930 \/ (x.at \in 910 .. 919 /\ x.price < p.entry))

LiveManaged(p, x) ==
  LET v == [p EXCEPT !.high = Greatest(@, x.price)]
      t == Trailed(Take3(Take2(Take1(v, x), x), x), x)
      Exits(q, reason) == IF SellAllowed(x) THEN ClosePosition(q, reason, x) ELSE q
  IN  IF ~Open(p)               THEN p
      ELSE IF AtClose(v, x)     THEN Exits(v, "close")
      ELSE IF x.price <= v.stop THEN Exits(v, "stop")
      ELSE IF TrailHit(t, x)    THEN Exits(t, "trailing")
      ELSE IF SellAllowed(x)    THEN LiveTimeStop(t, x)
      ELSE t

-----------------------------------------------------------------------------
LiveInit == live \in LiveEntries /\ tickNo = 0 /\ lastTick = NoTick

TickAt(q, i, answer, found) ==
  [price |-> q.price, atr |-> q.atr, avg |-> q.avg, vwap |-> q.vwap, mom |-> q.mom,
   at |-> LiveMinutes[i], answer |-> answer, found |-> found]

(* The holdings are read after a refusal only.                             *)
Tick(i, x) ==
  /\ x.found # Unread => x.answer = "refused" \/ live.other > 0
  /\ tickNo' = i /\ live' = LiveManaged(live, x)
  /\ lastTick' = IF x.answer = "refused" THEN NoTick
                 ELSE [price |-> x.price, at |-> x.at, stop |-> live.stop]

(* Between two ticks the broker fills the waiting order, in part or whole, *)
(* or withdraws it; or check_exit_order_timeouts replaces it by an         *)
(* aggressive limit order of its whole size, which no longer counts as     *)
(* waiting, unless the router refuses it.                                  *)
ExitFills(n) ==
  /\ Waits(live) /\ n \in 1 .. live.order.qty
  /\ live' = LiveFill(live, n, n = live.order.qty)
  /\ lastTick' = NoTick /\ UNCHANGED tickNo

ExitWithdrawn ==
  /\ Waits(live)
  /\ live' = Withdrawn(live)
  /\ lastTick' = NoTick /\ UNCHANGED tickNo

ExitTimesOut(accepted) ==
  /\ Waits(live)
  /\ LET n == live.order.size
     IN  live' = [Withdrawn(live) EXCEPT
           !.order = IF accepted THEN [qty |-> n, size |-> n, type |-> "AGGRESSIVE_LIMIT"]
                     ELSE NoOrder]
  /\ lastTick' = NoTick /\ UNCHANGED tickNo

(* The listeners tell the position of every fill of its symbol, and of     *)
(* the end of its own order only.                                          *)
OtherFills(n) ==
  /\ Open(live) /\ n \in 1 .. live.other
  /\ live' = [LiveFill(live, n, n = live.other) EXCEPT !.other = @ - n]
  /\ lastTick' = NoTick /\ UNCHANGED tickNo

OtherEnds ==
  /\ Open(live) /\ live.other > 0
  /\ live' = [live EXCEPT !.other = 0]
  /\ lastTick' = NoTick /\ UNCHANGED tickNo

LiveNext ==
  \/ \E q \in Ticks, i \in tickNo + 1 .. Len(LiveMinutes), answer \in {"waits", "refused"},
        found \in Found \cup {Unread} : Tick(i, TickAt(q, i, answer, found))
  \/ \E n \in 1 .. live.order.qty : ExitFills(n)
  \/ ExitWithdrawn
  \/ \E accepted \in BOOLEAN : ExitTimesOut(accepted)
  \/ \E n \in 1 .. live.other : OtherFills(n)
  \/ OtherEnds

-----------------------------------------------------------------------------
(* Properties.                                                             *)

(* "위험 회피 계열: 체결 우선 MARKET" (exit_order_policy.py) as far as it   *)
(* goes: after a tick at or below the stop, in the session and unless the  *)
(* router refused or has a sale of its own, no limit order stands in the   *)
(* way, whatever profit target's waited for the broker before, and a       *)
(* market order sells all but what the broker had not to give when the     *)
(* position was made and what waits in sales the program does not know.    *)
StopBeatsTarget ==
  /\ lastTick # NoTick /\ Open(live) /\ live.other = 0 /\ lastTick.at \in 540 .. 929
  /\ lastTick.price <= lastTick.stop
  => /\ live.order.type \in {"NONE", "MARKET"}
     /\ live.qty <= live.order.qty + Less(live.qty, live.psbl) + live.foreign

(* The position's own bookkeeping of what waits never exceeds what waits   *)
(* in its order or waited in foreign ones, or a later stop would leave     *)
(* shares unsold that nothing holds.                                       *)
NothingHeldBack == Open(live) => live.pend <= live.order.qty + live.foreign
=============================================================================
