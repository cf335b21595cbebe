----------------------------- MODULE TradeBooks -----------------------------
(***************************************************************************)
(* What the dashboard reports of finished trades (core/trade_accounting.py)*)
(* from the two databases the trader writes: orders, fills and positions   *)
(* of operational_v16.db (execution/deadlock_transaction.py, whose         *)
(* transactions module ExecutionLedger has in detail) and the trades of    *)
(* trade_history_v7.db (ml/trade_db.py).                                   *)
(*                                                                         *)
(* One account.  A sale is a number; a profit is a set of records that say *)
(* for how many shares of which sale it stands, so that counting shares    *)
(* twice or not at all shows.  Times are minutes, the unit the report      *)
(* removes duplicates by.  Prices are left out, but for what the report    *)
(* asks of them: whether the profit of a row comes to nothing.             *)
(***************************************************************************)
EXTENDS Integers, Sequences, FiniteSets, Functions

CONSTANTS BookSymbols, DayLength, MaxLot,
          LastMinute, MaxSales, MaxLost   \* bounds

ASSUME BooksAssumption == /\ {LastMinute, DayLength, MaxLot, MaxSales} \subseteq Nat \ {0}
                          /\ DayLength <= LastMinute /\ MaxLost \in Nat

VARIABLES
  paper,       \* the client is a dry run: SELLs fill without a fill event
  minute,
  shares,      \* symbol -> shares in the account
  held,        \* symbol -> [qty, trip, booked]: the position in memory, and
               \* whether its purchase was recorded
  saleOf,      \* history: sale -> [sym, trip, booked, qty]
  posRows,     \* positions table
  fillRows,    \* fills table, its SELL rows
  tradeRows,   \* trades table
  lostRows,    \* fills whose transaction was given up
  doubled      \* a fill was recorded twice

booksVars == <<paper, minute, shares, held, saleOf, posRows, fillRows, tradeRows,
               lostRows, doubled>>

DayOf(m) == m \div DayLength
NextSale == Len(saleOf) + 1
SalesMade == DOMAIN saleOf
SumQty(S) == SumFunction([x \in S |-> x.qty])

-----------------------------------------------------------------------------
(* The tables, as values.  A position row is OPEN while closedAt is 0; a   *)
(* fill goes to the oldest open row of its symbol.  even: the prices of    *)
(* its sales will make the row's profit nothing.                           *)

OpenRows(rows, s) == {r \in rows : r.sym = s /\ r.closedAt = 0}
Oldest(R) == CHOOSE r \in R : \A q \in R : r.entry <= q.entry

BuyApplied(s, n, even) ==
  IF OpenRows(posRows, s) = {}
  THEN posRows \cup {[id |-> Cardinality(posRows) + 1, sym |-> s, entry |-> minute, qty |-> n,
                      profit |-> {}, closedAt |-> 0, even |-> even]}
  ELSE LET r == Oldest(OpenRows(posRows, s))
       IN  (posRows \ {r}) \cup {[r EXCEPT !.qty = @ + n]}

(* Mutant of SellApplied: a sale of all that is left does not close the row. *)
SellAppliedLeavesOpen(rows, s, n, fill) ==
  IF OpenRows(rows, s) = {} THEN rows
  ELSE LET r == Oldest(OpenRows(rows, s))
           cut == IF n >= r.qty THEN r.qty ELSE n
       IN  (rows \ {r}) \cup
             {[r EXCEPT !.qty = @ - cut,
                        !.profit = @ \cup {[fill |-> fill, sale |-> NextSale, qty |-> cut]},
                        !.closedAt = IF n > r.qty THEN minute ELSE 0]}

SellApplied(rows, s, n, fill) ==
  IF OpenRows(rows, s) = {} THEN rows
  ELSE LET r == Oldest(OpenRows(rows, s))
           cut == IF n >= r.qty THEN r.qty ELSE n
       IN  (rows \ {r}) \cup
             {[r EXCEPT !.qty = @ - cut,
                        !.profit = @ \cup {[fill |-> fill, sale |-> NextSale, qty |-> cut]},
                        !.closedAt = IF cut = r.qty THEN minute ELSE 0]}

(* record_fill of a sale, k times.                                         *)
Record(s, n, k) ==
  LET first == Cardinality(fillRows) + 1
      Fill(i) == [fill |-> i, sale |-> NextSale, sym |-> s, qty |-> n, at |-> minute]
      once == SellApplied(posRows, s, n, first)
  IN  CASE k = 0 -> UNCHANGED <<posRows, fillRows>>
        [] k = 1 -> posRows' = once /\ fillRows' = fillRows \cup {Fill(first)}
        [] k = 2 -> /\ posRows' = SellApplied(once, s, n, first + 1)
                    /\ fillRows' = fillRows \cup {Fill(first), Fill(first + 1)}

Lose == lostRows < MaxLost /\ lostRows' = lostRows + 1

-----------------------------------------------------------------------------
(* A BUY comes back filled: record_order, record_fill, open_position.      *)
BookBuy(s, n) ==
  /\ held[s].qty = 0 /\ shares[s] = 0 /\ Len(saleOf) < MaxSales
  /\ held' = [held EXCEPT ![s] = [qty |-> n, trip |-> @.trip + 1, booked |-> TRUE]]
  /\ shares' = [shares EXCEPT ![s] = n]
  /\ \/ (\E even \in BOOLEAN : posRows' = BuyApplied(s, n, even)) /\ UNCHANGED lostRows
     \/ posRows' = posRows /\ Lose
  /\ UNCHANGED <<paper, minute, saleOf, fillRows, tradeRows, doubled>>

(* A BUY that fills later: no position, no record.                         *)
BuyFillsLate(s, n) ==
  /\ held[s].qty = 0 /\ shares[s] = 0 /\ Len(saleOf) < MaxSales
  /\ shares' = [shares EXCEPT ![s] = n]
  /\ UNCHANGED <<paper, minute, held, saleOf, posRows, fillRows, tradeRows, lostRows, doubled>>

(* The reconciliation: shares without a position get one that no row knows.*)
AdoptShares(s) ==
  /\ held[s].qty = 0 /\ shares[s] > 0
  /\ held' = [held EXCEPT ![s] = [qty |-> shares[s], trip |-> @.trip + 1, booked |-> FALSE]]
  /\ UNCHANGED <<paper, minute, shares, saleOf, posRows, fillRows, tradeRows, lostRows, doubled>>

MinQty(a, b) == IF a <= b THEN a ELSE b

(* n shares are sold; the position is reduced by k times as many, once for *)
(* each call of on_order_fill.                                             *)
Sold(s, n, k) ==
  /\ n \in 1 .. MinQty(held[s].qty, shares[s]) /\ Len(saleOf) < MaxSales
  /\ saleOf' = Append(saleOf, [sym |-> s, trip |-> held[s].trip, booked |-> held[s].booked,
                               qty |-> n])
  /\ shares' = [shares EXCEPT ![s] = @ - n]
  /\ held' = [held EXCEPT ![s].qty = @ - MinQty(k * n, @)]
  /\ doubled' = (doubled \/ k = 2)
  /\ UNCHANGED <<paper, minute>>

Recorded(s, n, k) ==
  \/ Record(s, n, k) /\ UNCHANGED lostRows
  \/ k > 0 /\ Lose /\ Record(s, n, k - 1)

(* _execute_partial_exit.  Filled at once, its caller reports the fill     *)
(* itself, on a real account after the listener did.  Its trade record     *)
(* names a method the database does not have and is given up.              *)
SellPart(s, n) ==
  /\ n < held[s].qty
  /\ \E k \in IF paper THEN {1} ELSE {1, 2} : Sold(s, n, k) /\ Recorded(s, n, k)
  /\ UNCHANGED tradeRows

(* The exit's clock was read before the order, in the same cycle.          *)
ExitMinutes == {m \in {minute - 1, minute} : DayOf(m) = DayOf(minute)}
TradeRow(s, n) ==
  \E m \in ExitMinutes :
    tradeRows' = tradeRows \cup {[sale |-> NextSale, sym |-> s, qty |-> n, at |-> m]}

(* The last shares of the position are sold.  Only _close_position, whose  *)
(* order comes back filled, writes a trade row, of this sale's shares; a   *)
(* fill reported later closes the position without one, and a dry run      *)
(* closes it without a fill.                                               *)
SellRest(s) ==
  LET n == held[s].qty
  IN  /\ Sold(s, n, 1)
      /\ IF paper THEN TradeRow(s, n) /\ Record(s, n, 0) /\ UNCHANGED lostRows
         ELSE (TradeRow(s, n) \/ UNCHANGED tradeRows) /\ Recorded(s, n, 1)

MinutePasses ==
  /\ minute < LastMinute /\ minute' = minute + 1
  /\ UNCHANGED <<paper, shares, held, saleOf, posRows, fillRows, tradeRows, lostRows, doubled>>

-----------------------------------------------------------------------------
(* get_completed_trades.                                                   *)

(* A closed row, with the quantity of all fills of the symbol since the    *)
(* row's entry, also of those of later positions.  Its own profit is       *)
(* reported unless it is nothing: then it is worked out from those fills.  *)
SoldSince(r) == {f \in fillRows : f.sym = r.sym /\ f.at >= r.entry}
RowEntry(r) ==
  [sym |-> r.sym, at |-> r.closedAt, qty |-> SumQty(SoldSince(r)),
   profit |-> IF r.even
              THEN {[fill |-> f.fill, sale |-> f.sale, qty |-> f.qty] : f \in SoldSince(r)}
              ELSE r.profit]
RowEntries == {RowEntry(r) : r \in {q \in posRows : q.closedAt > 0}}

(* Mutant of ClosedSameDay: the day's closed rows hide nothing.            *)
NeverClosed(t) == FALSE
ClosedSameDay(t) == \E e \in RowEntries : e.sym = t.sym /\ DayOf(e.at) = DayOf(t.at)
SameKey(e, t) == e.sym = t.sym /\ (e.at = t.at \/ e.qty = t.qty)

TradeEntry(t) == [sym |-> t.sym, at |-> t.at, qty |-> t.qty,
                  profit |-> {[fill |-> 0, sale |-> t.sale, qty |-> t.qty]}]

(* Trades, newest first, each taken unless a row of its symbol closed that *)
(* day or an entry taken before shares its minute or its quantity.         *)
Newer(t, u) == t.at > u.at \/ (t.at = u.at /\ t.sale > u.sale)
Unhidden == {t \in tradeRows : ~ClosedSameDay(t)}
Taken[t \in Unhidden] ==
  LET before == {TradeEntry(u) : u \in {v \in Unhidden : Newer(v, t) /\ Taken[v]}}
  IN  ~ \E e \in RowEntries \cup before : SameKey(e, t)
TradeEntries == {TradeEntry(t) : t \in {u \in Unhidden : Taken[u]}}

Completed == RowEntries \cup TradeEntries

(* get_trade_summary and get_period_statistics: sums over the completed    *)
(* trades of a period.                                                     *)
Period(since) == {e \in Completed : e.at >= since}
ReportedOf(sale, since) ==
  SumFunction([e \in Period(since) |-> SumQty({p \in e.profit : p.sale = sale})])

-----------------------------------------------------------------------------
BooksInit ==
  /\ paper \in BOOLEAN
  /\ minute = DayLength
  /\ shares = [s \in BookSymbols |-> 0]
  /\ held = [s \in BookSymbols |-> [qty |-> 0, trip |-> 0, booked |-> FALSE]]
  /\ saleOf = <<>>
  /\ posRows = {} /\ fillRows = {} /\ tradeRows = {}
  /\ lostRows = 0 /\ doubled = FALSE

BooksNext ==
  \/ \E s \in BookSymbols : \/ AdoptShares(s) \/ SellRest(s)
                            \/ \E n \in 1 .. MaxLot : BookBuy(s, n) \/ BuyFillsLate(s, n) \/ SellPart(s, n)
  \/ MinutePasses

BooksSpec == BooksInit /\ [][BooksNext]_booksVars

-----------------------------------------------------------------------------
(* Rows, positions and counters have their types; a row is closed when     *)
(* nothing is left of it.                                                  *)
BooksTypeOK ==
  /\ paper \in BOOLEAN /\ minute \in DayLength .. LastMinute
  /\ \A s \in BookSymbols : held[s].qty \in 0 .. MaxLot /\ shares[s] \in 0 .. MaxLot
  /\ \A r \in posRows : /\ r.qty = 0 <=> r.closedAt > 0
                         /\ {p.sale : p \in r.profit} \subseteq SalesMade
  /\ {t.sale : t \in tradeRows} \subseteq SalesMade
  /\ lostRows \in 0 .. MaxLost /\ doubled \in BOOLEAN

Finished(x) == LET h == held[saleOf[x].sym] IN h.qty = 0 \/ h.trip > saleOf[x].trip

(* A closed row of no profit that takes the sale for one of its own.       *)
TakenForOwn(x) ==
  \E r \in posRows : \E f \in SoldSince(r) :
    r.closedAt > 0 /\ r.even /\ f.sale = x /\ \A p \in r.profit : p.sale # x

(* Tranches, adopted shares and re-entries of the same symbol and day      *)
(* notwithstanding, the two databases together report the profit of no     *)
(* share twice, and on a real account that of every share of a finished    *)
(* round trip whose purchase was recorded; unless the record of a fill was *)
(* given up or made twice, or the symbol was sold again after a round trip *)
(* that broke even, whose row is reported with all the fills since its     *)
(* entry (get_completed_trades' de-duplication).                           *)
ProfitReportedOnce ==
  lostRows = 0 /\ ~doubled =>
    \A x \in SalesMade : ~TakenForOwn(x) =>
      /\ ReportedOf(x, 0) <= saleOf[x].qty
      /\ ~paper /\ saleOf[x].booked /\ Finished(x)
           => ReportedOf(x, 0) = saleOf[x].qty
=============================================================================
