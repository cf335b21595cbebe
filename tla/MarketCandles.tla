-------------------------- MODULE MarketCandles --------------------------
(***************************************************************************)
(* The bars and the running totals of one stock (core/aggregator), fed by  *)
(* two sources: the broker's quote, which is up to date, and a web page of *)
(* the market's movers, which is older (core/market_radar).  Both report   *)
(* the volume traded since the opening; the aggregator turns it into the   *)
(* volume of a tick.  Every tick first passes the data quality gate        *)
(* (core/data_quality_gate).                                               *)
(* Left out: the page of indicators computed from the bars.                *)
(***************************************************************************)
EXTENDS Naturals, Sequences, FiniteSetsExt, SequencesExt

CONSTANTS Frames,       \* lengths of bars, in units of the shortest
          Prices,
          MaxJump,      \* max_price_jump_pct, in percent
          KeepBars,     \* finished bars kept of each length
          Baseline,     \* n_bars: bars prefill_history makes
          MaxTraded,    \* bound: volume of the day
          LastUnit,     \* bound: the clock
          MaxTicks      \* bound: ticks taken

ASSUME CandlesAssumption ==
  /\ Frames \subseteq Nat \ {0} /\ 1 \in Frames
  /\ Prices \subseteq Nat \ {0}
  /\ {MaxJump, KeepBars, Baseline, MaxTraded, LastUnit, MaxTicks} \subseteq Nat
  /\ Baseline <= KeepBars

VARIABLES candles,      \* of each length: current bar, finished ones, baseline bars kept
          sums,      \* cum_volume, cum_turnover, last_acml_vol
          gate,      \* last valid price, 0 before the first
          unit,      \* the clock
          traded,    \* volume the market has really traded today
          page,      \* volume shown on the web page
          ticks,     \* ticks taken
          sawOlder,  \* a tick reported less volume than an earlier one
          extremes   \* lowest and highest price of the ticks taken
candleVars == <<candles, sums, gate, unit, traded, page, ticks, sawOlder, extremes>>

NoBar == [start |-> LastUnit + 1, open |-> 0, high |-> 0, low |-> 0, close |-> 0, vol |-> 0]

CandlesInit ==
  /\ candles = [f \in Frames |-> [cur |-> NoBar, closed |-> <<>>, made |-> 0]]
  /\ sums = [vol |-> 0, turnover |-> 0, last |-> 0]
  /\ gate = 0 /\ unit = 0 /\ traded = 0 /\ page = 0 /\ ticks = 0
  /\ sawOlder = FALSE
  /\ extremes = [low |-> 0, high |-> 0]

-----------------------------------------------------------------------------
Larger(a, b) == IF a >= b THEN a ELSE b
Smaller(a, b) == IF a <= b THEN a ELSE b
Apart(a, b) == Larger(a, b) - Smaller(a, b)

(* validate_tick, as far as these sources can fail it: a volume is not     *)
(* compared with the one before.                                           *)
Valid(p) == gate = 0 \/ Apart(p, gate) * 100 <= MaxJump * gate

(* The volume of a tick from the volume of the day.                        *)
Delta(t, raw) == IF t.last > 0 /\ raw >= t.last THEN raw - t.last ELSE raw

TickVolume(t, raw) ==
  IF raw > 0 /\ t.vol > 0 THEN Larger(1, Delta(t, raw)) ELSE raw

Summed(t, p, raw) ==
  LET v == TickVolume(t, raw) IN
  [vol |-> t.vol + v, turnover |-> t.turnover + p * v, last |-> Larger(t.last, raw)]

(* prefill_history: the volume is taken over, the turnover is not.         *)
Seeded(t, total) == [t EXCEPT !.vol = Larger(@, total), !.last = Larger(@, total)]

(* Mutant of NewBar: a bar begins with its first tick.                     *)
NewBarUnaligned(f, p, v) ==
  [start |-> unit, open |-> p, high |-> p, low |-> p, close |-> p, vol |-> v]

NewBar(f, p, v) ==
  [start |-> unit - (unit % f), open |-> p, high |-> p, low |-> p, close |-> p, vol |-> v]

Kept(b) ==
  LET all == Append(b.closed, b.cur) IN
  IF b.made + Len(all) <= KeepBars THEN [b EXCEPT !.closed = all]
  ELSE IF b.made > 0 THEN [b EXCEPT !.closed = all, !.made = @ - 1]
  ELSE [b EXCEPT !.closed = Tail(all)]

(* _update_timeframe_sec, _update_timeframe_min                            *)
Barred(b, f, p, v) ==
  LET new == NewBar(f, p, v) IN
  CASE b.cur = NoBar -> [b EXCEPT !.cur = new]
    [] b.cur # NoBar /\ new.start > b.cur.start -> [Kept(b) EXCEPT !.cur = new]
    [] OTHER -> [b EXCEPT !.cur.high = Larger(@, p), !.cur.low = Smaller(@, p),
                          !.cur.close = p, !.cur.vol = @ + v]

(* on_tick, with the totals t and bars bs it finds                            *)
OnTick(t, bs, p, raw) ==
  /\ sums' = Summed(t, p, raw)
  /\ candles' = [f \in Frames |-> Barred(bs[f], f, p, TickVolume(t, raw))]
  /\ ticks' = ticks + 1
  /\ sawOlder' = (sawOlder \/ raw < sums.last)
  /\ extremes' = IF ticks = 0 THEN [low |-> p, high |-> p]
                 ELSE [low |-> Smaller(extremes.low, p), high |-> Larger(extremes.high, p)]
  /\ gate' = p

-----------------------------------------------------------------------------
(* The stock is quoted: the broker's volume is the day's.                  *)
Quote == /\ ticks < MaxTicks
         /\ \E p \in Prices : Valid(p) /\ OnTick(sums, candles, p, traded)
         /\ UNCHANGED <<unit, traded, page>>

(* The radar finds the stock on a page that may be older.  A stock without *)
(* a finished bar gets a baseline first.                                   *)
RadarFinds ==
  /\ ticks < MaxTicks
  /\ \E v \in page..traded : page' = v
  /\ page' > 0
  /\ \E p \in Prices :
       /\ Valid(p)
       /\ IF candles[1].closed = <<>> /\ candles[1].made = 0
          THEN OnTick(Seeded(sums, page'), [candles EXCEPT ![1].made = Baseline], p, page')
          ELSE OnTick(sums, candles, p, page')
  /\ UNCHANGED <<unit, traded>>

Trades == /\ \E v \in traded + 1..MaxTraded : traded' = v
          /\ UNCHANGED <<candles, sums, gate, unit, page, ticks, sawOlder, extremes>>

TimePasses == /\ unit < LastUnit /\ unit' = unit + 1
              /\ UNCHANGED <<candles, sums, gate, traded, page, ticks, sawOlder, extremes>>

CandlesNext == Quote \/ RadarFinds \/ Trades \/ TimePasses

CandlesSpec == CandlesInit /\ [][CandlesNext]_candleVars

-----------------------------------------------------------------------------
CandlesTypeOK ==
  /\ \A f \in Frames : /\ candles[f].made + Len(candles[f].closed) <= KeepBars
                       /\ candles[f].cur = NoBar \/ candles[f].cur.start % f = 0
  /\ sums.last <= traded /\ page <= traded
  /\ gate \in Prices \cup {0}

(* Each longer bar that was finished tells what the shortest bars of its   *)
(* span tell, though each is formed by itself: the volume, the open, the   *)
(* close and the extremes.  Once as many are kept as may be, the shortest  *)
(* may be gone.                                                            *)
CandlesAgree ==
  Len(candles[1].closed) < KeepBars =>
    \A f \in Frames \ {1} : \A i \in DOMAIN candles[f].closed :
      LET long  == candles[f].closed[i]
          short == candles[1].closed
          span  == {j \in DOMAIN short : short[j].start \in long.start .. long.start + f - 1}
      IN  /\ span # {}
          /\ long.open = short[Min(span)].open /\ long.close = short[Max(span)].close
          /\ long.high = Max({short[j].high : j \in span})
          /\ long.low = Min({short[j].low : j \in span})
          /\ long.vol = SumFunctionOnSet([j \in DOMAIN short |-> short[j].vol], span)

(* While no source has told less than another, the day's volume is counted *)
(* once: the sum is what was last reported, plus at most one for each tick *)
(* (a tick counts for one at least).                                       *)
VolumeCountedOnce ==
  ~sawOlder => sums.last <= sums.vol /\ sums.vol <= sums.last + ticks

(* The volume-weighted price lies between the prices it is made of: the    *)
(* baseline "at once" of aggregator.py:174.                                *)
VwapWithinPrices ==
  /\ extremes.low * sums.vol <= sums.turnover
  /\ sums.turnover <= extremes.high * sums.vol
=============================================================================
