----------------------------- MODULE EntryStage -----------------------------
(***************************************************************************)
(* LiveQuantTrader.run_cycle as the one thread that both sells and buys:   *)
(* the order of its stages, what each of them leaves to the next, and the  *)
(* guards a purchase passes (positions held, rests after an exit, counts   *)
(* of entries, the account's loss limit).  Money, quotes and the router's  *)
(* own checks are the subject of other modules: here they may withhold any *)
(* order.  The outcome of every exit and order is open.                    *)
(***************************************************************************)
EXTENDS Naturals, Sequences, FiniteSets, SequencesExt

CONSTANTS Accounts, Stocks,
          SignalKinds,  \* [strong, rising]: score of 85 and more; momentum not negative
          Pauses,       \* minutes between the starts of two cycles
          LastMinute,   \* bound on the clock
          MaxQueue      \* bound on the signals of one cycle

ASSUME EntryAssumption == Pauses \subseteq Nat \ {0} /\ LastMinute \in Nat

Opening == 600

VARIABLES books,        \* of an account, of a stock: what the trader knows
          mayBuy,       \* loss_eval and port_risk_status of each account
          stage,        \* where the cycle is
          queue,        \* the approved signals still to be tried
          minute,       \* now, fixed for a cycle
          lastRecon,    \* last_recon_time
          reading,      \* the last balance that could be read, in one word
          past          \* minutes of the last exit seen, loss, and purchase
entryVars == <<books, mayBuy, stage, queue, minute, lastRecon, reading, past>>

(* pos: the position and where it came from; buy: a BUY that waits at the  *)
(* broker, or has brought shares no position knows; exit: an exit order    *)
(* waits; rest: end of the cooldown, 0 for none; n: daily_entry_counts,    *)
(* told apart up to 2; outcome: last_trade_outcomes; last: what            *)
(* last_closed_trades says.                                                *)
NewBook == [pos |-> "none", buy |-> "none", exit |-> FALSE, rest |-> 0,
            n |-> 0, outcome |-> "NONE", last |-> "none"]
Results == {"loss", "profit"}

EntryInit ==
  /\ books = [a \in Accounts |-> [s \in Stocks |-> NewBook]]
  /\ mayBuy = [a \in Accounts |-> TRUE]
  /\ reading = [a \in Accounts |-> "none"]
  /\ stage = "idle" /\ queue = <<>>
  /\ minute = Opening /\ lastRecon = Opening
  /\ past = [a \in Accounts |-> [s \in Stocks |-> [seen |-> 0, lost |-> 0, bought |-> 0]]]

EachBook(F(_, _)) == [a \in Accounts |-> [s \in Stocks |-> F(a, s)]]

-----------------------------------------------------------------------------
(* The position is closed with result r.  The trade of an adopted position *)
(* is recorded only by the fill listener, not by record_trade_completion.  *)
Closed(b, r, told) ==
  [b EXCEPT !.pos = "none", !.exit = FALSE,
            !.last = IF told THEN r ELSE @]

(* What may become of a position in one pass over it: nothing, an exit     *)
(* order that waits, or its end.                                           *)
Fates == {[what |-> "nothing"], [what |-> "waits"]} \cup
         [what : {"ends"}, result : Results, told : BOOLEAN]
Possible(b, f) ==
  /\ f.what # "nothing" => b.pos # "none"
  /\ f.what = "ends" /\ b.pos = "ours" => f.told
FatesOf == {f \in [Accounts -> [Stocks -> Fates]] :
              \A a \in Accounts, s \in Stocks : Possible(books[a][s], f[a][s])}

Met(b, f, AtEnd(_)) ==
  CASE f.what = "nothing" -> b
    [] f.what = "waits"   -> [b EXCEPT !.exit = TRUE]
    [] f.what = "ends"    -> AtEnd(Closed(b, f.result, f.told))

Losses(fate) ==
  EachBook(LAMBDA a, s : IF fate[a][s].what = "ends" /\ fate[a][s].result = "loss"
                         THEN [past[a][s] EXCEPT !.lost = minute] ELSE past[a][s])
SeenOut(fate) ==
  LET p == Losses(fate)
  IN  EachBook(LAMBDA a, s : IF fate[a][s].what = "ends"
                             THEN [p[a][s] EXCEPT !.seen = minute] ELSE p[a][s])

-----------------------------------------------------------------------------
(* The start of run_cycle: rests that are over are forgotten; every three  *)
(* minutes shares without a position are adopted, if the account answers.  *)
Expired(b, now) == IF now >= b.rest THEN [b EXCEPT !.rest = 0] ELSE b

Adopted(b) == IF b.buy = "bought"
              THEN [b EXCEPT !.buy = "none", !.pos = IF @ = "none" THEN "adopted" ELSE @] ELSE b

StartCycle(pause) ==
  /\ stage = "idle" /\ minute + pause <= LastMinute
  /\ minute' = minute + pause
  /\ \E answering \in SUBSET Accounts :
       /\ books' = EachBook(LAMBDA a, s :
                     LET b == Expired(books[a][s], minute')
                     IN  IF a \in answering /\ minute' - lastRecon >= 3 THEN Adopted(b) ELSE b)
       /\ lastRecon' = IF minute' - lastRecon >= 3 THEN minute' ELSE lastRecon
  /\ stage' = "balances"
  /\ UNCHANGED <<mayBuy, queue, reading, past>>

(* Mutant of Judged: a balance that cannot be read is no limit.            *)
JudgedAnew(old, answer) == answer # "limit"

(* The loss limits and the open risk, judged on the balance; without one   *)
(* the old judgement stands.                                               *)
Judged(old, answer) == IF answer = "fails" THEN old ELSE answer = "ok"

ReadBalances ==
  /\ stage = "balances"
  /\ \E answers \in [Accounts -> {"ok", "limit", "fails"}] :
       /\ mayBuy' = [a \in Accounts |-> Judged(mayBuy[a], answers[a])]
       /\ reading' = [a \in Accounts |-> IF answers[a] = "fails" THEN reading[a] ELSE answers[a]]
  /\ stage' = "watchdog"
  /\ UNCHANGED <<books, queue, minute, lastRecon, past>>

(* The watchdog rests the stock ten minutes, whatever the result.          *)
WatchdogRest(b) == [b EXCEPT !.rest = minute + 10]

Watchdog ==
  /\ stage = "watchdog"
  /\ \E fate \in FatesOf :
       /\ books' = EachBook(LAMBDA a, s : Met(books[a][s], fate[a][s], WatchdogRest))
       /\ past' = SeenOut(fate)
  /\ stage' = "scan"
  /\ UNCHANGED <<mayBuy, queue, minute, lastRecon, reading>>

(* The quote scan: a position that is gone after its tick rests ten        *)
(* minutes, fifteen if the last trade on record was a loss.  (It too asks  *)
(* for get_candles: at this commit it raises before the tick of a held     *)
(* stock, which is caught, the fate "nothing".)                            *)
ScanRest(b) ==
  [b EXCEPT !.rest = minute + (IF b.last = "loss" THEN 15 ELSE 10),
            !.outcome = IF b.last = "loss" THEN "LOSS" ELSE "PROFIT"]

QuoteScan ==
  /\ stage = "scan"
  /\ \E fate \in FatesOf :
       /\ books' = EachBook(LAMBDA a, s : Met(books[a][s], fate[a][s], ScanRest))
       /\ past' = SeenOut(fate)
  /\ stage' = "timeouts"
  /\ UNCHANGED <<mayBuy, queue, minute, lastRecon, reading>>

(* Either the scan or the promotion of candidates fails: check_exit_order_ *)
(* timeouts has its turn and the cycle ends without purchases and without  *)
(* the look at orders that wait.                                           *)
NoRest(b) == b
ExitTimeouts ==
  /\ stage = "timeouts"
  /\ \E fate \in FatesOf :
       /\ \A a \in Accounts, s \in Stocks : fate[a][s].what # "nothing" => books[a][s].exit
       /\ books' = EachBook(LAMBDA a, s : Met(books[a][s], fate[a][s], NoRest))
       /\ past' = Losses(fate)
  /\ stage' \in {"signals", "idle"}
  /\ UNCHANGED <<mayBuy, queue, minute, lastRecon, reading>>

-----------------------------------------------------------------------------
(* can_any_trade, and what setup, score, edge and meta decision leave of   *)
(* the candidates, in the order of priority.                               *)
MakeSignals ==
  /\ stage = "signals"
  /\ \/ queue' = <<>>
     \/ /\ \E a \in Accounts : mayBuy[a]
        /\ queue' \in BoundedSeq([stock : Stocks, kind : SignalKinds], MaxQueue)
  /\ stage' = "orders"
  /\ UNCHANGED <<books, mayBuy, minute, lastRecon, reading, past>>

(* The guards of the entry stage for an account: its limits, its positions *)
(* (not its orders: the router refuses a second one while the first        *)
(* waits), its rests, and the counts of entries.                           *)
Resting(b)  == b.rest # 0 /\ minute < b.rest
Reentry(b, kind) ==
  /\ b.n = 1 /\ b.outcome = "LOSS" => kind.rising
  /\ b.n >= 2 => kind.strong

Allowed(a, sig) ==
  LET b == books[a][sig.stock]
  IN  mayBuy[a] /\ b.pos = "none" /\ ~Resting(b) /\ Reentry(b, sig.kind) /\ b.buy # "waiting"

(* An order filled at once makes a position and counts as an entry; one    *)
(* that waits does neither.                                                *)
Ordered(b, answer) ==
  IF answer = "filled"
  THEN [b EXCEPT !.pos = "ours", !.n = IF @ = 2 THEN 2 ELSE @ + 1, !.outcome = "ACTIVE"]
  ELSE [b EXCEPT !.buy = "waiting"]

(* The next signal, for every account; "none": withheld or refused.        *)
TrySignal ==
  /\ stage = "orders" /\ queue # <<>>
  /\ LET s == Head(queue).stock IN
     \E answers \in [Accounts -> {"none", "filled", "waits"}] :
       LET Buys(a) == answers[a] # "none"
       IN  /\ \A a \in Accounts : Buys(a) => Allowed(a, Head(queue))
           /\ books' = [a \in Accounts |-> IF Buys(a)
                          THEN [books[a] EXCEPT ![s] = Ordered(@, answers[a])] ELSE books[a]]
           /\ past' = [a \in Accounts |-> IF Buys(a)
                          THEN [past[a] EXCEPT ![s].bought = minute] ELSE past[a]]
  /\ queue' = Tail(queue)
  /\ UNCHANGED <<mayBuy, stage, minute, lastRecon, reading>>

(* The look at a signal's bars raises and ends the cycle.  It asks the      *)
(* aggregator for get_candles, which CandleAggregator does not have, so at *)
(* this commit every signal that gets there ends so; TrySignal has the     *)
(* purchases that the code behind that line makes.                         *)
SignalRaises ==
  /\ stage = "orders" /\ queue # <<>>
  /\ stage' = "idle" /\ queue' = <<>>
  /\ UNCHANGED <<books, mayBuy, minute, lastRecon, reading, past>>

-----------------------------------------------------------------------------
(* The look at orders that wait longer than three seconds: a BUY has been  *)
(* filled, which opens no position, or withdrawn; an exit order has ended  *)
(* its position, which nobody here sees, or was withdrawn.                 *)
Looked(b, f) ==
  LET c == Met(b, f, NoRest)
  IN  {c, [c EXCEPT !.exit = FALSE]} \cup
      (IF b.buy = "waiting" THEN {[c EXCEPT !.buy = "none"], [c EXCEPT !.buy = "bought"]} ELSE {})

AllLooked(fate) ==
  UNION {UNION {Looked(books[a][s], fate[a][s]) : s \in Stocks} : a \in Accounts}

CheckZombies ==
  /\ stage = "orders" /\ queue = <<>>
  /\ \E fate \in FatesOf :
       /\ \A a \in Accounts, s \in Stocks :
            fate[a][s].what # "nothing" => fate[a][s].what = "ends" /\ books[a][s].exit
       /\ books' \in {bs \in [Accounts -> [Stocks -> AllLooked(fate)]] :
                        \A a \in Accounts, s \in Stocks : bs[a][s] \in Looked(books[a][s], fate[a][s])}
       /\ past' = Losses(fate)
  /\ stage' = "idle"
  /\ UNCHANGED <<mayBuy, queue, minute, lastRecon, reading>>

EntryNext ==
  \/ \E pause \in Pauses : StartCycle(pause)
  \/ ReadBalances \/ Watchdog \/ QuoteScan \/ ExitTimeouts
  \/ MakeSignals \/ TrySignal \/ SignalRaises \/ CheckZombies

-----------------------------------------------------------------------------
(* Properties.                                                             *)

BoughtAt(a, s) == past[a][s].bought

(* An account whose last readable balance was at a limit buys nothing,     *)
(* though the signals were made for the other account and though the       *)
(* balance may have been unreadable since.                                 *)
BuysFollowLastReading ==
  stage = "orders" =>
    \A a \in Accounts, s \in Stocks : BoughtAt(a, s) = minute => reading[a] # "limit"

(* A stock whose position the loop saw go is not bought again for ten      *)
(* minutes, whoever closed it and whatever has been adopted or withdrawn   *)
(* in the meantime.                                                        *)
RestsAfterSeenExit ==
  \A a \in Accounts, s \in Stocks :
    past[a][s].seen > 0 /\ BoughtAt(a, s) > past[a][s].seen
      => BoughtAt(a, s) >= past[a][s].seen + 10

(* "손절 시 최소 15분(900초) 쿨다운" (live_quant_trader.py): nothing is bought *)
(* within fifteen minutes of a loss.                                       *)
RestAfterLoss ==
  \A a \in Accounts, s \in Stocks :
    past[a][s].lost > 0 /\ BoughtAt(a, s) > past[a][s].lost
      => BoughtAt(a, s) >= past[a][s].lost + 15
=============================================================================
