----------------------------- MODULE MCDecisions -----------------------------
(***************************************************************************)
(* The parts that decide and report, which share no state here, checked in *)
(* one run: part says which of them a behaviour is about, the others stand *)
(* still.                                                                  *)
(***************************************************************************)
EXTENDS Replay, ExitParity, EntryStage, TelemetryExporter, TelemetryGitSync,
        MarketStore, MarketCandles

CONSTANTS Parts,  \* the parts this run is about
          q1, q2  \* the replayed symbols

(* Replay: a flat bar, one that touches the targets and falls back, a gap  *)
(* below the stop that hardly trades; an intraday and a swing signal.      *)
B(o, h, l, c, v) == [open |-> o, high |-> h, low |-> l, close |-> c, volume |-> v]
Flat  == B(1000, 1004, 996, 1000, 100)
Spike == B(1005, 1025, 999, 1001, 100)
Gap   == B(950, 955, 940, 950, 10)
Pair(b, c) == [s \in ReplaySymbols |-> IF s = q1 THEN b ELSE c]
MCMarkets == {Pair(Flat, Flat), Pair(Spike, Flat), Pair(Gap, Flat), Pair(Gap, Gap)}
MCSignals(b) ==
  {[hz |-> "INTRADAY", kind |-> "LIMIT", entry |-> b.close, stop |-> b.close - 10,
    t1 |-> b.close + 10, t2 |-> b.close + 20, strong |-> FALSE],
   [hz |-> "SWING", kind |-> "MARKET", entry |-> b.close, stop |-> b.close - 20,
    t1 |-> b.close + 20, t2 |-> b.close + 40, strong |-> FALSE]}
MCBarList == <<q1, q2>>
MCTimes == <<865, 899, 921>>

(* Exits: positions of one share and of some, of both horizons, and some   *)
(* taken over with a sale of their own, of someone else's and of the       *)
(* router's; ticks at the stop, at the targets and around the averages.    *)
Bought1000(hz, n) ==
  [hz |-> hz, entry |-> 1000, qty |-> n, stop |-> 980, t1 |-> 1020, t2 |-> 1040, t3 |-> 1060,
   r |-> 20, took1 |-> FALSE, took2 |-> FALSE, took3 |-> FALSE, trail |-> 980, high |-> 1000,
   status |-> "ACTIVE", since |-> 560, order |-> NoOrder, pend |-> 0, fails |-> 0,
   psbl |-> n, foreign |-> 0, other |-> 0]
TakenOver(psbl, pend, order, other) ==
  [Bought1000("INTRADAY", 3) EXCEPT
     !.stop = 975, !.trail = 975, !.r = 25, !.t1 = 1025, !.t2 = 1050, !.t3 = 1075,
     !.psbl = psbl, !.pend = pend, !.order = order, !.other = other,
     !.foreign = Less(pend, order.qty)]
MCEntries == {TakenOver(2, 1, [qty |-> 1, size |-> 1, type |-> "LIMIT"], 0),
              TakenOver(2, 1, NoOrder, 0), TakenOver(3, 0, NoOrder, 1),
              Bought1000("INTRADAY", 1), Bought1000("INTRADAY", 3), Bought1000("SWING", 3)}
PricedTick(p, avg, vwap, mom) == [price |-> p, atr |-> 10, avg |-> avg, vwap |-> vwap, mom |-> mom]
MCTicks == {PricedTick(p, 0, 0, 0) : p \in {975, 1004, 1020, 1070}}
             \cup {PricedTick(1001, 0, 1000, 1), PricedTick(1022, 1025, 0, 0),
                   PricedTick(998, 0, 1000, -1)}
             \cup {[PricedTick(1030, 0, 0, 0) EXCEPT !.atr = 4]}
MCMinutes == <<565, 581, 591, 912, 921, 931>>

MCKinds == {[strong |-> TRUE, rising |-> TRUE], [strong |-> FALSE, rising |-> FALSE]}

MCItems == {[kind |-> "order", owner |-> "A", id |-> 1], [kind |-> "order", owner |-> "B", id |-> 1],
            [kind |-> "position", owner |-> "B", id |-> 1]}
MCCodes == <<"a", "b", "c">>

Symmetry == Permutations(Traders)

VARIABLE part

vars == <<part, replayVars, parityVars, entryVars, exporterVars, gitVars, storeVars, candleVars>>

Init == /\ part \in Parts
        /\ ReplayInit
        /\ IF part = "parity" THEN ParityInit
           ELSE LiveInit /\ replayed = 0 /\ parted = FALSE /\ slow = FALSE
        /\ part \notin {"live", "parity"} => live = Bought1000("SWING", 3)
        /\ part # "replay" => bars = Pair(Flat, Flat)
        /\ EntryInit /\ ExporterInit /\ GitInit /\ StoreInit /\ CandlesInit

(* The second account of the entries is followed for three minutes only.   *)
BothEnter ==
  minute' > 602 => books'["MOCK"]["s1"] = NewBook /\ UNCHANGED <<mayBuy["MOCK"], reading["MOCK"]>>

(* Of the orders and positions, two at most begin.                         *)
TwoBegin == Cardinality({i \in Items : truth'[i] # "new"}) <= 2

Next ==
  /\ UNCHANGED part
  /\ IF part = "replay" THEN ReplayNext ELSE UNCHANGED replayVars
  /\ CASE part = "live"   -> LiveNext /\ UNCHANGED <<replayed, parted, slow>>
       [] part = "parity" -> ParityNext
       [] OTHER           -> UNCHANGED parityVars
  /\ IF part = "entries" THEN EntryNext /\ BothEnter ELSE UNCHANGED entryVars
  /\ IF part = "status" THEN ExporterNext /\ TwoBegin ELSE UNCHANGED exporterVars
  /\ IF part = "git" THEN GitNext ELSE UNCHANGED gitVars
  /\ IF part = "stocks" THEN StoreNext ELSE UNCHANGED storeVars
  /\ IF part = "candles" THEN CandlesNext ELSE UNCHANGED candleVars

Spec == Init /\ [][Next]_vars

-----------------------------------------------------------------------------
(* The replay accounts for every won, the engine's difference is what it   *)
(* leaves out and counts twice, its round trips sell what they bought, and *)
(* no intraday position is held over night.                                *)
ReplaySound ==
  part = "replay" =>
    ReplayTypeOK /\ ReplayReconciles /\ RoundTripsAreWhole /\ NothingHeldOvernight

(* A stop is served before a target and sells what the broker had to give, *)
(* and no share is held back for an order that is not there.               *)
ExitsSound == part = "live" => StopBeatsTarget /\ NothingHeldBack

(* A buy follows the last balance that could be read, and a rest follows   *)
(* every exit the loop saw.                                                *)
EntriesSound == part = "entries" => BuysFollowLastReading /\ RestsAfterSeenExit

(* What is published is right once everything is worked off, but for items *)
(* whose events were lost or counted out of order; two threads are in git  *)
(* at once only after a stale lock or a stop.                              *)
TelemetrySound == /\ part = "status" => ExporterTypeOK /\ StatusSettles
                  /\ part = "git" => GitTypeOK /\ GitOverlapIsExcused

(* Stocks move down after their time only, the rolling batch reaches all,  *)
(* and the day's volume is counted once.                                   *)
MarketSound ==
  [][/\ part = "stocks" => DownInTime /\ (StoreTypeOK /\ RollingScanReachesAll)'
     /\ part = "candles" => (CandlesTypeOK /\ VolumeCountedOnce)']_vars

(* What is computed twice comes out alike: the longer bars tell what the   *)
(* shortest ones tell, and the replay exits as the trader does, up to the  *)
(* differences named.                                                      *)
TwinsAgree == /\ part = "candles" => CandlesAgree
              /\ part = "parity" => ParityExceptNamed
=============================================================================
