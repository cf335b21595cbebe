------------------------------ MODULE ExitParity ------------------------------
(***************************************************************************)
(* The same position in the trader (a paper account, whose orders fill at  *)
(* once) and in the replay, over the same prices: every bar has one price, *)
(* volume enough and no MA20, which the trader never has.                  *)
(***************************************************************************)
EXTENDS LiveExits, BacktestTracker

CONSTANT Liquid         \* the volume of a bar

(* A position open_position made, none that was taken over.                *)
NewlyOpened(p) == p.psbl = p.qty /\ p.pend = 0 /\ p.order = NoOrder /\ p.other = 0

(* The quotes, and the entries as open_position makes them of a stop below *)
(* the entry; 15 % of a bar are enough for the whole position.             *)
ASSUME ParityAssumption ==
  /\ Liquid \in Nat
  /\ \A q \in Ticks : q.price \in Nat /\ q.atr \in Nat /\ q.avg \in Nat
  /\ \A i \in 1 .. Len(LiveMinutes) : LiveMinutes[i] \in Nat
  /\ \A p \in LiveEntries : NewlyOpened(p) =>
       /\ {"hz", "entry", "since", "t1", "t2", "t3", "stop", "trail", "high",
            "took1", "took2", "took3"} \subseteq DOMAIN p
       /\ p.hz \in {"INTRADAY", "SWING"} /\ p.qty <= (Liquid * 15) \div 100
       /\ p.entry \in Nat /\ p.since \in Nat /\ {p.t1, p.t2, p.t3, p.stop} \subseteq Int
       /\ p.stop < p.entry /\ p.trail = p.stop /\ p.high = p.entry
       /\ p.took1 = FALSE /\ p.took2 = FALSE /\ p.took3 = FALSE

VARIABLES replayed,     \* the replay's position, with what it has sold
          parted,       \* a difference of the rules listed below has shown
          slow          \* the position has been without progress for 20 minutes
parityVars == <<liveVars, replayed, parted, slow>>

Bar(price) == [open |-> price, high |-> price, low |-> price, close |-> price, volume |-> Liquid]

(* open_position of the tracker makes of the entry what the live one does. *)
Replayed(p) ==
  LET tr == OpenPosition(EmptyTracker({1}), 1, p.hz, p.qty, p.entry, p.stop, p.t1, p.t2, p.since)
  IN  [p |-> tr.held[1], trips |-> <<>>, recs |-> <<>>, done |-> FALSE]

ParityInit ==
  /\ LiveInit /\ NewlyOpened(live) /\ replayed = Replayed(live)
  /\ parted = FALSE /\ slow = FALSE

(* Differences of the two rule sets other than the time stops: the trader  *)
(* looks at the trailing stop in the tick that takes the first target; the *)
(* trail of that tick stays where its ATR put it, while the replay begins  *)
(* with the next one's.                                                    *)
TrailsAtOnce(p, x) ==
  /\ ~p.took1 /\ x.price >= p.t1
  /\ LET v == [p EXCEPT !.high = Greatest(@, x.price)]
     IN  TrailHit(Trailed(Take1(v, x), x), x)
KeepsTrail(p, r, x) ==
  /\ p.took1 /\ r.took1
  /\ p.trail > Trailed([p EXCEPT !.high = Greatest(@, x.price), !.trail = r.trail], x).trail

(* The trader gives a swing position a third target, and leaves an         *)
(* intraday one alone after 15:30, which the replay still closes.          *)
ThirdTarget(p, x) == p.hz = "SWING" /\ ~p.took3 /\ x.price >= p.t3
AfterTheSession(p, x) == p.hz = "INTRADAY" /\ x.at > 930

ParityTick(i, x) ==
  /\ Tick(i, x)
  /\ Open(live) \/ replayed.p.qty > 0
  /\ LET f == [at |-> x.at, now |-> x.at, atr |-> x.atr, avg |-> IF live.hz = "INTRADAY" THEN x.avg ELSE 0]
     IN  replayed' = IF replayed.p.qty = 0 THEN replayed
                     ELSE Managed(replayed, Bar(x.price), f)
  /\ parted' = \/ parted \/ TrailsAtOnce(live, x) \/ KeepsTrail(live, replayed.p, x)
                \/ ThirdTarget(live, x) \/ AfterTheSession(live, x)
  /\ slow' = (slow \/ (Elapsed(live, x) >= 20 /\ ProgressBelow(live, x.price, 2500)))

ParityNext ==
  \E q \in Ticks, i \in tickNo + 1 .. Len(LiveMinutes) :
    ParityTick(i, TickAt(q, i, "filled", Unread))

Same ==
  /\ replayed.p.qty = live.qty
  /\ live.qty > 0 => /\ replayed.p.stop = live.stop /\ replayed.p.high = live.high
                     /\ replayed.p.took1 = live.took1 /\ replayed.p.took2 = live.took2

(* "100% LIVE Parity" (position_tracker.py) as far as it goes: the replay  *)
(* sells what the trader sells, tick by tick, until one of the listed      *)
(* differences shows or the position enters the time stops' territory.     *)
ParityExceptNamed == parted \/ slow \/ Same

(* "LIVE execution/position_manager.py Section 5와 100% 동일 로직"           *)
(* (position_tracker.py, _check_time_stop): the time stops part them.      *)
TimeStopsAgree == parted \/ Same
=============================================================================
