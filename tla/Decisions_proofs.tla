-------------------------- MODULE Decisions_proofs --------------------------
(***************************************************************************)
(* Proofs about the parts that decide and report, each for any number of   *)
(* accounts, stocks, items, events and processes.                          *)
(***************************************************************************)
EXTENDS MCDecisions, Sums_proofs, SequenceTheorems, TLAPS

-----------------------------------------------------------------------------
(* Purchases and rests (EntryStage).                                       *)

BookType == [pos : {"none", "ours", "adopted"}, buy : {"none", "waiting", "bought"},
             exit : BOOLEAN, rest : Nat, n : 0..2,
             outcome : {"NONE", "ACTIVE", "LOSS", "PROFIT"}, last : {"none"} \cup Results]
PastType == [seen : Nat, lost : Nat, bought : Nat]

(* A stock seen to go rests, or its ten minutes are over; and it has not   *)
(* been bought in them.                                                    *)
ZombieRests(b, p, now) ==
  /\ p.seen <= now /\ p.bought <= now
  /\ p.seen > 0 => b.rest >= p.seen + 10 \/ now >= p.seen + 10
  /\ p.seen > 0 /\ p.bought > p.seen => p.bought >= p.seen + 10

(* Before the purchases of a cycle nothing has been bought in its minute.  *)
BoughtBefore(p, st, now) ==
  st \in {"balances", "watchdog", "scan", "timeouts", "signals"} => p.bought < now

EntryTypes ==
  /\ books \in [Accounts -> [Stocks -> BookType]]
  /\ past \in [Accounts -> [Stocks -> PastType]]
  /\ mayBuy \in [Accounts -> BOOLEAN]
  /\ reading \in [Accounts -> {"none", "ok", "limit"}]
  /\ minute \in Nat /\ lastRecon \in Nat

BooksRested ==
  \A a \in Accounts, s \in Stocks :
    /\ ZombieRests(books[a][s], past[a][s], minute)
    /\ BoughtBefore(past[a][s], stage, minute)

LimitForbids == \A a \in Accounts : reading[a] = "limit" => ~mayBuy[a]

EntryInv == EntryTypes /\ BooksRested /\ LimitForbids /\ BuysFollowLastReading

LEMMA EntryInitInv == EntryInit => EntryInv
<1> SUFFICES ASSUME EntryInit PROVE EntryInv
  OBVIOUS
<1>1. NewBook \in BookType /\ NewBook.rest = 0
  BY DEF NewBook, BookType
<1>2. [seen |-> 0, lost |-> 0, bought |-> 0] \in PastType
  BY DEF PastType
<1>3. minute \in Nat /\ minute > 0 /\ lastRecon \in Nat /\ stage = "idle"
  BY DEF EntryInit, Opening
<1>4. EntryTypes
  BY <1>1, <1>2, <1>3 DEF EntryInit, EntryTypes
<1>5. \A a \in Accounts, s \in Stocks : past[a][s].seen = 0 /\ past[a][s].bought = 0
  BY DEF EntryInit
<1>6. BooksRested
  BY <1>3, <1>5 DEF BooksRested, ZombieRests, BoughtBefore
<1> QED
  BY <1>3, <1>4, <1>6 DEF EntryInv, LimitForbids, BuysFollowLastReading, EntryInit

(* A pass over the positions: what ends is seen and rests.                 *)
LEMMA ClosedIs ==
  ASSUME NEW b \in BookType, NEW r \in Results, NEW told
  PROVE  Closed(b, r, told) \in BookType /\ Closed(b, r, told).rest = b.rest
<1> DEFINE l == IF told THEN r ELSE b.last
<1>1. l \in {"none"} \cup Results
  BY DEF BookType
<1>2. Closed(b, r, told) = [b EXCEPT !.pos = "none", !.exit = FALSE, !.last = l]
  BY DEF Closed
<1> HIDE DEF l
<1>3. /\ [b EXCEPT !.pos = "none", !.exit = FALSE, !.last = l] \in BookType
      /\ [b EXCEPT !.pos = "none", !.exit = FALSE, !.last = l].rest = b.rest
  BY <1>1 DEF BookType
<1> QED
  BY <1>2, <1>3

LEMMA FateIs ==
  ASSUME NEW f \in Fates
  PROVE  \/ f.what = "nothing" \/ f.what = "waits"
         \/ f.what = "ends" /\ f.result \in Results
BY DEF Fates

LEMMA WaitsIs ==
  ASSUME NEW b \in BookType
  PROVE  [b EXCEPT !.exit = TRUE] \in BookType /\ [b EXCEPT !.exit = TRUE].rest = b.rest
BY DEF BookType

LEMMA MetWatchdog ==
  ASSUME NEW b \in BookType, NEW f \in Fates, minute \in Nat
  PROVE  /\ Met(b, f, WatchdogRest) \in BookType
         /\ f.what # "ends" => Met(b, f, WatchdogRest).rest = b.rest
         /\ f.what = "ends" => Met(b, f, WatchdogRest).rest >= minute + 10
<1>1. CASE f.what = "ends"
  <2> DEFINE c == Closed(b, f.result, f.told)
             m == minute + 10
  <2>1. Met(b, f, WatchdogRest) = [c EXCEPT !.rest = m]
    BY <1>1 DEF Met, WatchdogRest
  <2>2. c \in BookType /\ m \in Nat /\ m >= minute + 10
    BY <1>1, FateIs, ClosedIs
  <2> HIDE DEF c, m
  <2>3. [c EXCEPT !.rest = m] \in BookType /\ [c EXCEPT !.rest = m].rest = m
    BY <2>2 DEF BookType
  <2> QED
    BY <1>1, <2>1, <2>2, <2>3
<1>2. CASE f.what # "ends"
  BY <1>2, FateIs, WaitsIs DEF Met
<1> QED
  BY <1>1, <1>2

LEMMA MetScan ==
  ASSUME NEW b \in BookType, NEW f \in Fates, minute \in Nat
  PROVE  /\ Met(b, f, ScanRest) \in BookType
         /\ f.what # "ends" => Met(b, f, ScanRest).rest = b.rest
         /\ f.what = "ends" => Met(b, f, ScanRest).rest >= minute + 10
<1>1. CASE f.what = "ends"
  <2> DEFINE c == Closed(b, f.result, f.told)
             m == minute + (IF c.last = "loss" THEN 15 ELSE 10)
             o == IF c.last = "loss" THEN "LOSS" ELSE "PROFIT"
  <2>1. Met(b, f, ScanRest) = [c EXCEPT !.rest = m, !.outcome = o]
    BY <1>1 DEF Met, ScanRest
  <2>2. c \in BookType /\ m \in Nat /\ m >= minute + 10 /\ o \in {"LOSS", "PROFIT"}
    BY <1>1, FateIs, ClosedIs
  <2> HIDE DEF c, m, o
  <2>3. /\ [c EXCEPT !.rest = m, !.outcome = o] \in BookType
        /\ [c EXCEPT !.rest = m, !.outcome = o].rest = m
    BY <2>2 DEF BookType
  <2> QED
    BY <1>1, <2>1, <2>2, <2>3
<1>2. CASE f.what # "ends"
  BY <1>2, FateIs, WaitsIs DEF Met
<1> QED
  BY <1>1, <1>2

LEMMA MetElse ==
  ASSUME NEW b \in BookType, NEW f \in Fates
  PROVE  Met(b, f, NoRest) \in BookType /\ Met(b, f, NoRest).rest = b.rest
<1>1. CASE f.what = "ends"
  BY <1>1, FateIs, ClosedIs DEF Met, NoRest
<1>2. CASE f.what # "ends"
  BY <1>2, FateIs, WaitsIs DEF Met
<1> QED
  BY <1>1, <1>2

(* Minutes of losses and of what was seen.                                 *)
LEMMA LossesAre ==
  ASSUME EntryTypes, NEW fate \in FatesOf
  PROVE  /\ Losses(fate) \in [Accounts -> [Stocks -> PastType]]
         /\ \A a \in Accounts, s \in Stocks :
              /\ Losses(fate)[a][s].seen = past[a][s].seen
              /\ Losses(fate)[a][s].bought = past[a][s].bought
<1>1. \A a \in Accounts, s \in Stocks :
        /\ past[a][s] \in PastType /\ minute \in Nat
        /\ Losses(fate)[a][s] = IF fate[a][s].what = "ends" /\ fate[a][s].result = "loss"
                                THEN [past[a][s] EXCEPT !.lost = minute] ELSE past[a][s]
  BY DEF EntryTypes, Losses, EachBook
<1>2. \A p \in PastType : \A m \in Nat :
        /\ [p EXCEPT !.lost = m] \in PastType
        /\ [p EXCEPT !.lost = m].seen = p.seen /\ [p EXCEPT !.lost = m].bought = p.bought
  BY DEF PastType
<1>3. ASSUME NEW a \in Accounts, NEW s \in Stocks
      PROVE  /\ Losses(fate)[a][s] \in PastType
             /\ Losses(fate)[a][s].seen = past[a][s].seen
             /\ Losses(fate)[a][s].bought = past[a][s].bought
  <2> DEFINE p == past[a][s]
             l == Losses(fate)[a][s]
  <2>1. p \in PastType /\ minute \in Nat
    BY <1>1
  <2>2. l = [p EXCEPT !.lost = minute] \/ l = p
    BY <1>1
  <2> HIDE DEF p, l
  <2>3. l \in PastType /\ l.seen = p.seen /\ l.bought = p.bought
    BY <1>2, <2>1, <2>2
  <2> QED
    BY <2>3 DEF p, l
<1>4. Losses(fate) = [a \in Accounts |-> [s \in Stocks |-> Losses(fate)[a][s]]]
  BY DEF Losses, EachBook
<1> QED
  BY <1>3, <1>4

LEMMA SeenAre ==
  ASSUME EntryTypes, NEW fate \in FatesOf
  PROVE  /\ SeenOut(fate) \in [Accounts -> [Stocks -> PastType]]
         /\ \A a \in Accounts, s \in Stocks :
              /\ SeenOut(fate)[a][s].seen = IF fate[a][s].what = "ends" THEN minute
                                            ELSE past[a][s].seen
              /\ SeenOut(fate)[a][s].bought = past[a][s].bought
<1> DEFINE L == Losses(fate)
<1>1. /\ L \in [Accounts -> [Stocks -> PastType]] /\ minute \in Nat
      /\ \A a \in Accounts, s \in Stocks :
           L[a][s] \in PastType /\ L[a][s].seen = past[a][s].seen /\ L[a][s].bought = past[a][s].bought
  BY LossesAre DEF EntryTypes
<1>2. SeenOut(fate) = [a \in Accounts |-> [s \in Stocks |->
        IF fate[a][s].what = "ends" THEN [L[a][s] EXCEPT !.seen = minute] ELSE L[a][s]]]
  BY DEF SeenOut, EachBook
<1> HIDE DEF L
<1>3. \A p \in PastType : \A m \in Nat :
        /\ [p EXCEPT !.seen = m] \in PastType
        /\ [p EXCEPT !.seen = m].seen = m /\ [p EXCEPT !.seen = m].bought = p.bought
  BY DEF PastType
<1>4. ASSUME NEW a \in Accounts, NEW s \in Stocks
      PROVE  /\ SeenOut(fate)[a][s] \in PastType
             /\ SeenOut(fate)[a][s].seen = IF fate[a][s].what = "ends" THEN minute
                                           ELSE past[a][s].seen
             /\ SeenOut(fate)[a][s].bought = past[a][s].bought
  BY <1>1, <1>2, <1>3
<1>5. SeenOut(fate) = [a \in Accounts |-> [s \in Stocks |-> SeenOut(fate)[a][s]]]
  BY <1>2
<1> QED
  BY <1>4, <1>5

(* The steps of a cycle.                                                   *)
LEMMA ExpiredIs ==
  ASSUME NEW b \in BookType, NEW now \in Nat
  PROVE  /\ Expired(b, now) \in BookType
         /\ Expired(b, now).rest = IF now >= b.rest THEN 0 ELSE b.rest
BY DEF Expired, BookType

LEMMA AdoptedIs ==
  ASSUME NEW b \in BookType
  PROVE  Adopted(b) \in BookType /\ Adopted(b).rest = b.rest
<1> DEFINE q == IF b.pos = "none" THEN "adopted" ELSE b.pos
<1>1. q \in {"none", "ours", "adopted"}
  BY DEF BookType
<1>2. Adopted(b) = IF b.buy = "bought" THEN [b EXCEPT !.buy = "none", !.pos = q] ELSE b
  BY DEF Adopted
<1> HIDE DEF q
<1>3. /\ [b EXCEPT !.buy = "none", !.pos = q] \in BookType
      /\ [b EXCEPT !.buy = "none", !.pos = q].rest = b.rest
  BY <1>1 DEF BookType
<1> QED
  BY <1>2, <1>3

LEMMA StartCycleStep ==
  ASSUME EntryInv, NEW pause \in Pauses, StartCycle(pause)
  PROVE  EntryInv'
<1>1. /\ minute \in Nat /\ minute' \in Nat /\ minute' > minute /\ stage' = "balances"
      /\ lastRecon' \in Nat
      /\ UNCHANGED <<mayBuy, reading, past>>
  <2>1. /\ minute' = minute + pause /\ stage' = "balances"
        /\ lastRecon' = IF minute' - lastRecon >= 3 THEN minute' ELSE lastRecon
        /\ UNCHANGED <<mayBuy, queue, reading, past>>
    BY Zenon DEF StartCycle
  <2>2. minute \in Nat /\ lastRecon \in Nat /\ pause \in Nat \ {0}
    BY EntryAssumption DEF EntryInv, EntryTypes
  <2> QED
    BY <2>1, <2>2
<1>2. PICK answering \in SUBSET Accounts :
        books' = EachBook(LAMBDA a, s :
                   LET b == Expired(books[a][s], minute')
                   IN  IF a \in answering /\ minute' - lastRecon >= 3 THEN Adopted(b) ELSE b)
  BY DEF StartCycle
<1>3. books' = [a \in Accounts |-> [s \in Stocks |->
                  IF a \in answering /\ minute' - lastRecon >= 3
                  THEN Adopted(Expired(books[a][s], minute')) ELSE Expired(books[a][s], minute')]]
  BY <1>2 DEF EachBook
<1>4. ASSUME NEW a \in Accounts, NEW s \in Stocks
      PROVE  /\ books'[a][s] \in BookType
             /\ books'[a][s].rest = IF minute' >= books[a][s].rest THEN 0 ELSE books[a][s].rest
  <2>1. books[a][s] \in BookType
    BY DEF EntryInv, EntryTypes
  <2> DEFINE e == Expired(books[a][s], minute')
  <2>2. /\ e \in BookType /\ e.rest = IF minute' >= books[a][s].rest THEN 0 ELSE books[a][s].rest
        /\ books'[a][s] = e \/ books'[a][s] = Adopted(e)
    BY <1>1, <1>3, <2>1, ExpiredIs
  <2> HIDE DEF e
  <2> QED
    BY <2>2, AdoptedIs
<1>5. EntryTypes'
  <2>1. books' \in [Accounts -> [Stocks -> BookType]]
    BY <1>3, <1>4
  <2> QED
    BY <1>1, <2>1 DEF EntryInv, EntryTypes
<1>6. BooksRested'
  <2> SUFFICES ASSUME NEW a \in Accounts, NEW s \in Stocks
               PROVE  ZombieRests(books'[a][s], past[a][s], minute') /\ past[a][s].bought < minute'
    BY <1>1 DEF BooksRested, BoughtBefore
  <2>1. /\ ZombieRests(books[a][s], past[a][s], minute)
        /\ past[a][s] \in PastType /\ books[a][s].rest \in Nat
    BY DEF EntryInv, EntryTypes, BooksRested, BookType
  <2> QED
    BY <1>1, <1>4, <2>1 DEF ZombieRests, PastType
<1> QED
  BY <1>1, <1>5, <1>6 DEF EntryInv, LimitForbids, BuysFollowLastReading

LEMMA ReadBalancesStep ==
  ASSUME EntryInv, ReadBalances
  PROVE  EntryInv'
<1>1. PICK answers \in [Accounts -> {"ok", "limit", "fails"}] :
        /\ mayBuy' = [a \in Accounts |-> Judged(mayBuy[a], answers[a])]
        /\ reading' = [a \in Accounts |-> IF answers[a] = "fails" THEN reading[a] ELSE answers[a]]
  BY DEF ReadBalances
<1>2. stage = "balances" /\ stage' = "watchdog" /\ UNCHANGED <<books, minute, lastRecon, past>>
  BY DEF ReadBalances
<1>3. EntryTypes'
  <2>1. \A a \in Accounts : mayBuy[a] \in BOOLEAN => Judged(mayBuy[a], answers[a]) \in BOOLEAN
    BY DEF Judged
  <2>2. mayBuy' \in [Accounts -> BOOLEAN]
    BY <1>1, <2>1 DEF EntryInv, EntryTypes
  <2>3. reading' \in [Accounts -> {"none", "ok", "limit"}]
    BY <1>1 DEF EntryInv, EntryTypes
  <2> QED
    BY <1>2, <2>2, <2>3 DEF EntryInv, EntryTypes
<1>4. LimitForbids'
  <2> SUFFICES ASSUME NEW a \in Accounts, reading'[a] = "limit" PROVE ~mayBuy'[a]
    BY DEF LimitForbids
  <2>1. CASE answers[a] = "fails"
    <3>1. reading[a] = "limit" /\ (mayBuy'[a] <=> mayBuy[a])
      BY <1>1, <2>1 DEF Judged
    <3> QED
      BY <3>1 DEF EntryInv, LimitForbids
  <2>2. CASE answers[a] # "fails"
    BY <1>1, <2>2 DEF Judged
  <2> QED
    BY <2>1, <2>2
<1>5. BooksRested'
  BY <1>2 DEF EntryInv, BooksRested, BoughtBefore
<1> QED
  BY <1>2, <1>3, <1>4, <1>5 DEF EntryInv, BuysFollowLastReading

(* A pass that sees what ends and rests it, and one that does not.         *)
LEMMA PassSeen ==
  ASSUME EntryInv, NEW fate \in FatesOf, past' = SeenOut(fate),
         UNCHANGED <<mayBuy, minute, lastRecon, reading>>,
         stage \in {"watchdog", "scan"}, stage' \in {"scan", "timeouts"},
         books' \in [Accounts -> [Stocks -> BookType]],
         \A a \in Accounts, s \in Stocks :
           /\ fate[a][s].what # "ends" => books'[a][s].rest = books[a][s].rest
           /\ fate[a][s].what = "ends" => books'[a][s].rest >= minute + 10
  PROVE  EntryInv'
<1>1. EntryTypes'
  BY SeenAre DEF EntryInv, EntryTypes
<1>2. BooksRested'
  <2> SUFFICES ASSUME NEW a \in Accounts, NEW s \in Stocks
               PROVE  ZombieRests(books'[a][s], past'[a][s], minute) /\ past'[a][s].bought < minute
    BY DEF BooksRested, BoughtBefore
  <2>1. /\ past'[a][s].seen = IF fate[a][s].what = "ends" THEN minute ELSE past[a][s].seen
        /\ past'[a][s].bought = past[a][s].bought
    BY SeenAre DEF EntryInv
  <2>2. /\ ZombieRests(books[a][s], past[a][s], minute) /\ past[a][s].bought < minute
        /\ past[a][s] \in PastType /\ books[a][s].rest \in Nat /\ minute \in Nat
        /\ books'[a][s].rest \in Nat
    BY DEF EntryInv, EntryTypes, BooksRested, BoughtBefore, BookType
  <2>3. CASE fate[a][s].what = "ends"
    BY <2>1, <2>2, <2>3 DEF ZombieRests, PastType
  <2>4. CASE fate[a][s].what # "ends"
    BY <2>1, <2>2, <2>4 DEF ZombieRests, PastType
  <2> QED
    BY <2>3, <2>4
<1> QED
  BY <1>1, <1>2 DEF EntryInv, LimitForbids, BuysFollowLastReading

LEMMA WatchdogStep ==
  ASSUME EntryInv, Watchdog
  PROVE  EntryInv'
<1>1. PICK fate \in FatesOf :
        /\ books' = EachBook(LAMBDA a, s : Met(books[a][s], fate[a][s], WatchdogRest))
        /\ past' = SeenOut(fate)
  BY DEF Watchdog
<1>2. books' = [a \in Accounts |-> [s \in Stocks |-> Met(books[a][s], fate[a][s], WatchdogRest)]]
  BY <1>1 DEF EachBook
<1>3. ASSUME NEW a \in Accounts, NEW s \in Stocks
      PROVE  /\ books'[a][s] \in BookType
             /\ fate[a][s].what # "ends" => books'[a][s].rest = books[a][s].rest
             /\ fate[a][s].what = "ends" => books'[a][s].rest >= minute + 10
  <2>1. books[a][s] \in BookType /\ fate[a][s] \in Fates /\ minute \in Nat
    BY DEF EntryInv, EntryTypes, FatesOf
  <2> QED
    BY <1>2, <2>1, MetWatchdog
<1>4. books' \in [Accounts -> [Stocks -> BookType]]
  BY <1>2, <1>3
<1>5. /\ stage = "watchdog" /\ stage' = "scan" /\ UNCHANGED <<mayBuy, minute, lastRecon, reading>>
  BY DEF Watchdog
<1> QED
  BY <1>1, <1>3, <1>4, <1>5, PassSeen

LEMMA QuoteScanStep ==
  ASSUME EntryInv, QuoteScan
  PROVE  EntryInv'
<1>1. PICK fate \in FatesOf :
        /\ books' = EachBook(LAMBDA a, s : Met(books[a][s], fate[a][s], ScanRest))
        /\ past' = SeenOut(fate)
  BY DEF QuoteScan
<1>2. books' = [a \in Accounts |-> [s \in Stocks |-> Met(books[a][s], fate[a][s], ScanRest)]]
  BY <1>1 DEF EachBook
<1>3. ASSUME NEW a \in Accounts, NEW s \in Stocks
      PROVE  /\ books'[a][s] \in BookType
             /\ fate[a][s].what # "ends" => books'[a][s].rest = books[a][s].rest
             /\ fate[a][s].what = "ends" => books'[a][s].rest >= minute + 10
  <2>1. books[a][s] \in BookType /\ fate[a][s] \in Fates /\ minute \in Nat
    BY DEF EntryInv, EntryTypes, FatesOf
  <2> QED
    BY <1>2, <2>1, MetScan
<1>4. books' \in [Accounts -> [Stocks -> BookType]]
  BY <1>2, <1>3
<1>5. /\ stage = "scan" /\ stage' = "timeouts" /\ UNCHANGED <<mayBuy, minute, lastRecon, reading>>
  BY DEF QuoteScan
<1> QED
  BY <1>1, <1>3, <1>4, <1>5, PassSeen

LEMMA PassUnseen ==
  ASSUME EntryInv, NEW fate \in FatesOf, past' = Losses(fate),
         UNCHANGED <<mayBuy, minute, lastRecon, reading>>,
         \/ stage = "timeouts" /\ stage' \in {"signals", "idle"}
         \/ stage = "orders" /\ stage' = "idle",
         books' \in [Accounts -> [Stocks -> BookType]],
         \A a \in Accounts, s \in Stocks : books'[a][s].rest = books[a][s].rest
  PROVE  EntryInv'
<1>1. EntryTypes'
  BY LossesAre DEF EntryInv, EntryTypes
<1>2. BooksRested'
  <2> SUFFICES ASSUME NEW a \in Accounts, NEW s \in Stocks
               PROVE  ZombieRests(books'[a][s], past'[a][s], minute) /\ BoughtBefore(past'[a][s], stage', minute)
    BY DEF BooksRested
  <2>1. past'[a][s].seen = past[a][s].seen /\ past'[a][s].bought = past[a][s].bought
    BY LossesAre DEF EntryInv
  <2>2. ZombieRests(books[a][s], past[a][s], minute) /\ BoughtBefore(past[a][s], stage, minute)
    BY DEF EntryInv, BooksRested
  <2>3. books'[a][s].rest = books[a][s].rest
    OBVIOUS
  <2>4. ZombieRests(books'[a][s], past'[a][s], minute)
    BY <2>1, <2>2, <2>3 DEF ZombieRests
  <2> QED
    BY <2>1, <2>2, <2>4 DEF BoughtBefore
<1> QED
  BY <1>1, <1>2 DEF EntryInv, LimitForbids, BuysFollowLastReading

LEMMA ExitTimeoutsStep ==
  ASSUME EntryInv, ExitTimeouts
  PROVE  EntryInv'
<1>1. PICK fate \in FatesOf :
        /\ books' = EachBook(LAMBDA a, s : Met(books[a][s], fate[a][s], NoRest))
        /\ past' = Losses(fate)
  BY DEF ExitTimeouts
<1>2. books' = [a \in Accounts |-> [s \in Stocks |-> Met(books[a][s], fate[a][s], NoRest)]]
  BY <1>1 DEF EachBook
<1>3. ASSUME NEW a \in Accounts, NEW s \in Stocks
      PROVE  books'[a][s] \in BookType /\ books'[a][s].rest = books[a][s].rest
  <2>1. books[a][s] \in BookType /\ fate[a][s] \in Fates
    BY DEF EntryInv, EntryTypes, FatesOf
  <2> QED
    BY <1>2, <2>1, MetElse
<1>4. books' \in [Accounts -> [Stocks -> BookType]]
  BY <1>2, <1>3
<1>5. /\ stage = "timeouts" /\ stage' \in {"signals", "idle"}
      /\ UNCHANGED <<mayBuy, minute, lastRecon, reading>>
  BY DEF ExitTimeouts
<1> QED
  BY <1>1, <1>3, <1>4, <1>5, PassUnseen

LEMMA MakeSignalsStep ==
  ASSUME EntryInv, MakeSignals
  PROVE  EntryInv'
<1>1. /\ stage = "signals" /\ stage' = "orders"
      /\ UNCHANGED <<books, mayBuy, minute, lastRecon, reading, past>>
  BY DEF MakeSignals
<1>2. BooksRested' /\ \A a \in Accounts, s \in Stocks : past'[a][s].bought < minute'
  BY <1>1 DEF EntryInv, BooksRested, BoughtBefore
<1>3. EntryTypes' /\ LimitForbids'
  BY <1>1 DEF EntryInv, EntryTypes, LimitForbids
<1>4. BuysFollowLastReading'
  <2>1. \A a \in Accounts, s \in Stocks : past'[a][s].bought \in Nat /\ minute' \in Nat
    BY <1>3 DEF EntryTypes, PastType
  <2> QED
    BY <1>2, <2>1 DEF BuysFollowLastReading, BoughtAt
<1> QED
  BY <1>2, <1>3, <1>4 DEF EntryInv

LEMMA OrderedIs ==
  ASSUME NEW b \in BookType, NEW answer
  PROVE  Ordered(b, answer) \in BookType /\ Ordered(b, answer).rest = b.rest
<1> DEFINE m == IF b.n = 2 THEN 2 ELSE b.n + 1
<1>1. m \in 0..2
  BY DEF BookType
<1>2. Ordered(b, answer) = IF answer = "filled"
                           THEN [b EXCEPT !.pos = "ours", !.n = m, !.outcome = "ACTIVE"]
                           ELSE [b EXCEPT !.buy = "waiting"]
  BY DEF Ordered
<1> HIDE DEF m
<1>3. /\ [b EXCEPT !.pos = "ours", !.n = m, !.outcome = "ACTIVE"] \in BookType
      /\ [b EXCEPT !.pos = "ours", !.n = m, !.outcome = "ACTIVE"].rest = b.rest
  BY <1>1 DEF BookType
<1>4. [b EXCEPT !.buy = "waiting"] \in BookType /\ [b EXCEPT !.buy = "waiting"].rest = b.rest
  BY DEF BookType
<1> QED
  BY <1>2, <1>3, <1>4

(* Who buys has been allowed to: at no limit, and after the rest.          *)
LEMMA TrySignalStep ==
  ASSUME EntryInv, TrySignal
  PROVE  EntryInv'
<1> DEFINE sig == Head(queue)
           t == Head(queue).stock
<1>1. /\ stage = "orders" /\ UNCHANGED <<mayBuy, stage, minute, lastRecon, reading>>
  BY DEF TrySignal
<1>2. PICK answers \in [Accounts -> {"none", "filled", "waits"}] :
        /\ \A a \in Accounts : answers[a] # "none" => Allowed(a, sig)
        /\ books' = [a \in Accounts |-> IF answers[a] # "none"
                       THEN [books[a] EXCEPT ![t] = Ordered(books[a][t], answers[a])] ELSE books[a]]
        /\ past' = [a \in Accounts |-> IF answers[a] # "none"
                      THEN [past[a] EXCEPT ![t] = [past[a][t] EXCEPT !.bought = minute]] ELSE past[a]]
  BY DEF TrySignal
<1>3. ASSUME NEW a \in Accounts, NEW s \in Stocks
      PROVE  \/ books'[a][s] = books[a][s] /\ past'[a][s] = past[a][s]
             \/ /\ books'[a][s] = Ordered(books[a][s], answers[a])
                /\ past'[a][s] = [past[a][s] EXCEPT !.bought = minute]
                /\ mayBuy[a] /\ ~Resting(books[a][s])
  <2>1. books[a] \in [Stocks -> BookType] /\ past[a] \in [Stocks -> PastType]
    BY DEF EntryInv, EntryTypes
  <2>2. CASE answers[a] # "none" /\ s = t
    BY <1>2, <2>1, <2>2 DEF Allowed
  <2>3. CASE ~(answers[a] # "none" /\ s = t)
    BY <1>2, <2>1, <2>3
  <2> QED
    BY <2>2, <2>3
<1>4. ASSUME NEW a \in Accounts, NEW s \in Stocks
      PROVE  /\ books'[a][s] \in BookType /\ past'[a][s] \in PastType
             /\ ZombieRests(books'[a][s], past'[a][s], minute)
             /\ past'[a][s].bought = minute => reading[a] # "limit"
  <2>1. /\ books[a][s] \in BookType /\ past[a][s] \in PastType /\ minute \in Nat
        /\ ZombieRests(books[a][s], past[a][s], minute)
    BY DEF EntryInv, EntryTypes, BooksRested
  <2>2. CASE books'[a][s] = books[a][s] /\ past'[a][s] = past[a][s]
    BY <1>1, <2>1, <2>2 DEF EntryInv, BuysFollowLastReading, BoughtAt
  <2>3. CASE /\ books'[a][s] = Ordered(books[a][s], answers[a])
             /\ past'[a][s] = [past[a][s] EXCEPT !.bought = minute]
             /\ mayBuy[a] /\ ~Resting(books[a][s])
    <3> DEFINE b == books[a][s]
               p == past[a][s]
               q == [p EXCEPT !.bought = minute]
    <3>1. q \in PastType /\ q.seen = p.seen /\ q.bought = minute
      BY <2>1 DEF PastType
    <3>2. books'[a][s] \in BookType /\ books'[a][s].rest = b.rest /\ past'[a][s] = q
      BY <2>1, <2>3, OrderedIs
    <3>3. b.rest = 0 \/ minute >= b.rest
      BY <2>1, <2>3 DEF Resting, BookType
    <3>4. ZombieRests(b, p, minute) /\ p.seen \in Nat /\ b.rest \in Nat
      BY <2>1 DEF PastType, BookType
    <3>5. reading[a] # "limit"
      BY <2>3 DEF EntryInv, LimitForbids
    <3> HIDE DEF b, p, q
    <3>6. ZombieRests(books'[a][s], q, minute)
      BY <2>1, <3>1, <3>2, <3>3, <3>4 DEF ZombieRests
    <3> QED
      BY <3>1, <3>2, <3>5, <3>6
  <2> QED
    BY <1>3, <2>2, <2>3
<1>5. EntryTypes'
  <2>1. books' = [a \in Accounts |-> books'[a]] /\ past' = [a \in Accounts |-> past'[a]]
    BY <1>2
  <2>2. ASSUME NEW a \in Accounts
        PROVE  books'[a] \in [Stocks -> BookType] /\ past'[a] \in [Stocks -> PastType]
    <3>1. books[a] \in [Stocks -> BookType] /\ past[a] \in [Stocks -> PastType]
      BY DEF EntryInv, EntryTypes
    <3>2. books'[a] = [s \in Stocks |-> books'[a][s]] /\ past'[a] = [s \in Stocks |-> past'[a][s]]
      BY <1>2, <3>1
    <3> QED
      BY <1>4, <3>2
  <2>3. books' \in [Accounts -> [Stocks -> BookType]] /\ past' \in [Accounts -> [Stocks -> PastType]]
    BY <2>1, <2>2
  <2> QED
    BY <1>1, <2>3 DEF EntryInv, EntryTypes
<1>6. BooksRested'
  BY <1>1, <1>4 DEF BooksRested, BoughtBefore
<1> QED
  BY <1>1, <1>4, <1>5, <1>6 DEF EntryInv, LimitForbids, BuysFollowLastReading, BoughtAt

LEMMA LookedIs ==
  ASSUME NEW b \in BookType, NEW f \in Fates, NEW c \in Looked(b, f)
  PROVE  c \in BookType /\ c.rest = b.rest
<1> DEFINE m == Met(b, f, NoRest)
<1>1. m \in BookType /\ m.rest = b.rest
  BY MetElse
<1>2. \/ c = m \/ c = [m EXCEPT !.exit = FALSE]
      \/ c = [m EXCEPT !.buy = "none"] \/ c = [m EXCEPT !.buy = "bought"]
  BY DEF Looked
<1> HIDE DEF m
<1> QED
  BY <1>1, <1>2 DEF BookType

LEMMA CheckZombiesStep ==
  ASSUME EntryInv, CheckZombies
  PROVE  EntryInv'
<1>1. PICK fate \in FatesOf :
        /\ books' \in {bs \in [Accounts -> [Stocks -> AllLooked(fate)]] :
                        \A a \in Accounts, s \in Stocks : bs[a][s] \in Looked(books[a][s], fate[a][s])}
        /\ past' = Losses(fate)
  BY DEF CheckZombies
<1>2. \A a \in Accounts, s \in Stocks : books'[a][s] \in Looked(books[a][s], fate[a][s])
  BY <1>1
<1>3. ASSUME NEW a \in Accounts, NEW s \in Stocks
      PROVE  books'[a][s] \in BookType /\ books'[a][s].rest = books[a][s].rest
  <2>1. books[a][s] \in BookType /\ fate[a][s] \in Fates
    BY DEF EntryInv, EntryTypes, FatesOf
  <2> QED
    BY <1>2, <2>1, LookedIs
<1>4. books' \in [Accounts -> [Stocks -> BookType]]
  <2>1. books' \in [Accounts -> [Stocks -> AllLooked(fate)]]
    BY <1>1
  <2>2. /\ books' = [a \in Accounts |-> books'[a]]
        /\ \A a \in Accounts : books'[a] = [s \in Stocks |-> books'[a][s]]
    BY <2>1
  <2>3. \A a \in Accounts : books'[a] \in [Stocks -> BookType]
    BY <1>3, <2>2
  <2> QED
    BY <2>2, <2>3
<1>5. /\ stage = "orders" /\ stage' = "idle" /\ UNCHANGED <<mayBuy, minute, lastRecon, reading>>
  BY DEF CheckZombies
<1> QED
  BY <1>1, <1>3, <1>4, <1>5, PassUnseen

LEMMA SignalRaisesStep ==
  ASSUME EntryInv, SignalRaises
  PROVE  EntryInv'
<1>1. stage' = "idle" /\ UNCHANGED <<books, mayBuy, minute, lastRecon, reading, past>>
  BY DEF SignalRaises
<1>2. BooksRested'
  BY <1>1 DEF EntryInv, BooksRested, BoughtBefore
<1>3. EntryTypes' /\ LimitForbids' /\ BuysFollowLastReading'
  BY <1>1 DEF EntryInv, EntryTypes, LimitForbids, BuysFollowLastReading
<1> QED
  BY <1>2, <1>3 DEF EntryInv

LEMMA EntryStep ==
  ASSUME EntryInv, EntryNext \/ UNCHANGED entryVars
  PROVE  EntryInv'
<1>1. CASE UNCHANGED entryVars
  BY <1>1 DEF entryVars, EntryInv, EntryTypes, BooksRested, LimitForbids,
     BuysFollowLastReading, BoughtAt
<1> QED
  BY <1>1, StartCycleStep, ReadBalancesStep, WatchdogStep, QuoteScanStep, ExitTimeoutsStep,
     MakeSignalsStep, TrySignalStep, SignalRaisesStep, CheckZombiesStep DEF EntryNext

LEMMA EntryPromise == EntryInv => BuysFollowLastReading /\ RestsAfterSeenExit
BY DEF EntryInv, BooksRested, ZombieRests, RestsAfterSeenExit, BoughtAt

-----------------------------------------------------------------------------
(* The upload of the telemetry (TelemetryGitSync).                         *)

GitSteps == {"flush", "add", "diff", "reset", "commit", "push"}

(* Time limits, in half minutes, of a step and of the steps before it.  A  *)
(* flush has none: it may linger.                                          *)
Limit(step) == CASE step = "push" -> 2 [] step \in {"idle", "judge", "flush"} -> 0 [] OTHER -> 1
Before(step) == CASE step = "push" -> 3 [] step \in {"commit", "reset"} -> 2
                  [] step = "diff" -> 1 [] OTHER -> 0

GitTypes ==
  /\ worker \in [Threads -> GitSteps \cup {"idle", "judge"}]
  /\ spent \in [Threads -> Nat]
  /\ lockAge \in 0..StaleAge + 1 \cup {NoLock}
  /\ up \in [Traders -> {"running", "stopping", "down"}]
  /\ {written, staged, committed, pushed, gitEnds} \subseteq Nat
  /\ pushed <= committed /\ committed <= staged /\ staged <= written
  /\ gitStatus \in [Traders -> {"OK", "DEGRADED"}]
  /\ excused \in BOOLEAN /\ lingered \in BOOLEAN

(* Unless a lock file was taken away, one thread synchronises, and the     *)
(* lock file is there.                                                     *)
OneHolder ==
  ~excused => /\ \A t, u \in Holding : t = u
              /\ Holding # {} => lockAge # NoLock

(* While no flush lingered and no process ended, the lock file is that of  *)
(* a thread at work, is no older than the limits of its steps so far, and  *)
(* nobody judges it stale.                                                 *)
LockIsYoung ==
  ~lingered /\ gitEnds = 0 =>
    /\ ~excused
    /\ \A p \in Traders : up[p] = "running"
    /\ lockAge # NoLock => Holding # {}
    /\ \A t \in Threads : worker[t] # "judge"
    /\ \A t \in Holding : /\ spent[t] <= Limit(worker[t])
                          /\ lockAge <= Before(worker[t]) + spent[t]

GitInv == GitTypes /\ OneHolder /\ LockIsYoung

LEMMA GitInitInv == GitInit => GitInv
<1> SUFFICES ASSUME GitInit PROVE GitInv
  OBVIOUS
<1>1. Holding = {}
  BY DEF GitInit, Holding
<1>2. GitTypes
  <2>1. /\ worker \in [Threads -> GitSteps \cup {"idle", "judge"}] /\ spent \in [Threads -> Nat]
        /\ up \in [Traders -> {"running", "stopping", "down"}]
        /\ gitStatus \in [Traders -> {"OK", "DEGRADED"}]
    BY DEF GitInit
  <2>2. /\ written = 0 /\ staged = 0 /\ committed = 0 /\ pushed = 0 /\ gitEnds = 0
        /\ lockAge = NoLock
    BY DEF GitInit
  <2>3. excused \in BOOLEAN /\ lingered \in BOOLEAN
    BY DEF GitInit
  <2>4. /\ {written, staged, committed, pushed, gitEnds} \subseteq Nat
        /\ pushed <= committed /\ committed <= staged /\ staged <= written
        /\ lockAge \in 0..StaleAge + 1 \cup {NoLock}
    BY <2>2
  <2> QED
    BY <2>1, <2>3, <2>4 DEF GitTypes
<1> QED
  BY <1>1, <1>2 DEF GitInv, OneHolder, LockIsYoung, GitInit

LEMMA HoldersAre == \A t : t \in Holding <=> t \in Threads /\ worker[t] \notin {"idle", "judge"}
BY DEF Holding

LEMMA ThreadIs ==
  /\ \A p \in Traders : <<p, "loop">> \in Threads /\ <<p, "main">> \in Threads
  /\ \A t \in Threads : t[1] \in Traders
BY DEF Threads

(* What depends on the threads at work and on the lock file only.          *)
LEMMA GitFrame ==
  ASSUME GitInv, GitTypes', UNCHANGED <<worker, spent, lockAge, excused>>,
         lingered' = lingered, gitEnds' = gitEnds, up' = up
  PROVE  GitInv'
<1>1. Holding' = Holding
  BY DEF Holding
<1> QED
  BY <1>1 DEF GitInv, OneHolder, LockIsYoung

(* A thread that takes the lock.                                           *)
LEMMA LockKeeps ==
  ASSUME GitInv, NEW t \in Threads, Lock(t), spent' = [spent EXCEPT ![t] = 0],
         worker[t] = "idle" \/ gitEnds' > 0, UNCHANGED <<lingered, excused>>, gitEnds' \in Nat,
         gitEnds' >= gitEnds, up' = up \/ gitEnds' > 0, GitTypes'
  PROVE  GitInv'
<1>1. /\ worker \in [Threads -> GitSteps \cup {"idle", "judge"}] /\ spent \in [Threads -> Nat]
      /\ lockAge \in 0..StaleAge + 1 \cup {NoLock} /\ gitEnds \in Nat
      /\ excused \in BOOLEAN /\ lingered \in BOOLEAN
  BY DEF GitInv, GitTypes
<1>2. CASE lockAge = NoLock
  <2>1. /\ lockAge' = 0 /\ worker' = [worker EXCEPT ![t] = "flush"] /\ excused' = excused
    BY <1>2 DEF Lock, Stale
  <2>2. \A u : u \in Holding' <=> u \in Threads /\ (u = t \/ u \in Holding)
    BY <1>1, <2>1, HoldersAre DEF Holding
  <2>3. ASSUME ~excused' PROVE Holding = {} /\ ~excused
    BY <1>2, <2>1, <2>3 DEF GitInv, OneHolder
  <2>4. OneHolder'
    BY <2>1, <2>2, <2>3 DEF OneHolder, NoLock
  <2>5. LockIsYoung'
    <3> SUFFICES ASSUME ~lingered, gitEnds' = 0
                 PROVE  /\ ~excused' /\ \A p \in Traders : up'[p] = "running"
                        /\ t \in Holding'
                        /\ \A u \in Threads : worker'[u] # "judge"
                        /\ \A u \in Holding' : /\ spent'[u] <= Limit(worker'[u])
                                               /\ lockAge' <= Before(worker'[u]) + spent'[u]
      BY DEF LockIsYoung
    <3>1. /\ ~excused /\ gitEnds = 0 /\ up' = up
          /\ \A p \in Traders : up[p] = "running"
          /\ \A u \in Threads : worker[u] # "judge"
      BY <1>1 DEF GitInv, LockIsYoung
    <3>2. Holding = {} /\ ~excused'
      BY <2>1, <2>3, <3>1
    <3>3. \A u \in Holding' : u = t
      BY <2>2, <3>2
    <3>4. spent'[t] = 0 /\ worker'[t] = "flush" /\ lockAge' = 0
      BY <1>1, <2>1
    <3>5. spent'[t] <= Limit(worker'[t]) /\ lockAge' <= Before(worker'[t]) + spent'[t]
      BY <3>4 DEF Limit, Before
    <3>6. t \in Holding' /\ \A u \in Threads : worker'[u] # "judge"
      BY <1>1, <2>1, <2>2, <3>1
    <3> QED
      BY <3>1, <3>2, <3>3, <3>5, <3>6
  <2> QED
    BY <2>4, <2>5 DEF GitInv
<1>4. CASE Stale
  <2>1. /\ UNCHANGED <<lockAge, excused>> /\ worker' = [worker EXCEPT ![t] = "judge"]
        /\ lockAge # NoLock
    BY <1>4 DEF Lock, Stale
  <2>2. Holding' \subseteq Holding
    BY <1>1, <2>1 DEF Holding
  <2>3. OneHolder'
    BY <2>1, <2>2 DEF GitInv, OneHolder
  <2>4. LockIsYoung'
    <3> SUFFICES ASSUME ~lingered, gitEnds' = 0
                 PROVE  FALSE
      BY DEF LockIsYoung
    <3>1. PICK u \in Holding : spent[u] <= Limit(worker[u]) /\ lockAge <= Before(worker[u]) + spent[u]
      BY <1>1, <2>1 DEF GitInv, LockIsYoung
    <3>2. Before(worker[u]) \in Nat /\ spent[u] \in Nat /\ Before(worker[u]) + Limit(worker[u]) <= 5
          /\ Limit(worker[u]) \in Nat
      BY <1>1, HoldersAre DEF Before, Limit, GitSteps
    <3>3. lockAge > 6
      BY <1>4 DEF Stale, StaleAge
    <3> QED
      BY <1>1, <2>1, <3>1, <3>2, <3>3 DEF NoLock, StaleAge
  <2> QED
    BY <2>3, <2>4 DEF GitInv
<1>3. CASE ~(lockAge = NoLock \/ Stale)
  <2>1. UNCHANGED <<lockAge, worker, excused>>
    BY <1>3 DEF Lock
  <2>2. Holding' = Holding /\ OneHolder'
    BY <2>1 DEF Holding, GitInv, OneHolder
  <2>3. LockIsYoung'
    <3> SUFFICES ASSUME ~lingered, gitEnds' = 0
                 PROVE  /\ ~excused /\ \A p \in Traders : up'[p] = "running"
                        /\ lockAge # NoLock => Holding # {}
                        /\ \A u \in Threads : worker[u] # "judge"
                        /\ \A u \in Holding : /\ spent'[u] <= Limit(worker[u])
                                              /\ lockAge <= Before(worker[u]) + spent'[u]
      BY <2>1, <2>2 DEF LockIsYoung
    <3>1. /\ ~excused /\ gitEnds = 0 /\ up' = up
          /\ \A p \in Traders : up[p] = "running"
          /\ lockAge # NoLock => Holding # {}
          /\ \A u \in Threads : worker[u] # "judge"
          /\ \A u \in Holding : /\ spent[u] <= Limit(worker[u])
                                /\ lockAge <= Before(worker[u]) + spent[u]
      BY <1>1 DEF GitInv, LockIsYoung
    <3>2. \A u \in Holding : u # t /\ spent'[u] = spent[u]
      BY <1>1, HoldersAre
    <3> QED
      BY <3>1, <3>2
  <2> QED
    BY <2>2, <2>3 DEF GitInv
<1> QED
  BY <1>2, <1>3, <1>4

(* A thread that goes on to its next step within its time limits.          *)
LEMMA EnterKeeps ==
  ASSUME GitInv, NEW t \in Threads, NEW step \in GitSteps, Enter(t, step), worker[t] \in GitSteps,
         Before(worker[t]) + Limit(worker[t]) <= Before(step),
         UNCHANGED <<lockAge, excused, lingered, gitEnds, up>>, GitTypes'
  PROVE  GitInv'
<1>1. /\ worker \in [Threads -> GitSteps \cup {"idle", "judge"}] /\ spent \in [Threads -> Nat]
      /\ lockAge \in 0..StaleAge + 1 \cup {NoLock}
  BY DEF GitInv, GitTypes
<1>2. worker' = [worker EXCEPT ![t] = step] /\ spent' = [spent EXCEPT ![t] = 0]
  BY DEF Enter
<1>3. Holding' = Holding
  BY <1>1, <1>2 DEF Holding, GitSteps
<1>4. OneHolder'
  BY <1>3 DEF GitInv, OneHolder
<1>5. LockIsYoung'
  <2>0. ~lingered /\ gitEnds = 0 => \A u \in Threads : worker'[u] # "judge"
    BY <1>1, <1>2 DEF GitInv, LockIsYoung, GitSteps
  <2> SUFFICES ASSUME ~lingered, gitEnds = 0, NEW u \in Holding
               PROVE  spent'[u] <= Limit(worker'[u]) /\ lockAge <= Before(worker'[u]) + spent'[u]
    BY <1>3, <2>0 DEF GitInv, LockIsYoung
  <2>1. spent[u] <= Limit(worker[u]) /\ lockAge <= Before(worker[u]) + spent[u]
    BY DEF GitInv, LockIsYoung
  <2>2. u \in Threads
    BY HoldersAre
  <2>3. CASE u = t
    <3>1. spent'[u] = 0 /\ worker'[u] = step
      BY <1>1, <1>2, <2>2, <2>3
    <3>2. /\ Limit(step) \in Nat /\ Before(step) \in Nat /\ Limit(worker[t]) \in Nat
          /\ Before(worker[t]) \in Nat
      BY DEF Limit, Before
    <3>3. spent[u] \in Nat /\ lockAge \in Nat
      BY <1>1, <2>2 DEF NoLock, StaleAge
    <3> QED
      BY <2>1, <2>3, <3>1, <3>2, <3>3
  <2>4. CASE u # t
    BY <1>1, <1>2, <2>1, <2>2, <2>4
  <2> QED
    BY <2>3, <2>4
<1> QED
  BY <1>4, <1>5 DEF GitInv

(* A thread that ends its work removes the lock file: its own.             *)
LEMMA LeaveKeeps ==
  ASSUME GitInv, NEW t \in Threads, Leave(t), worker[t] \in GitSteps,
         UNCHANGED <<lingered, gitEnds, up>>, GitTypes'
  PROVE  GitInv'
<1>1. /\ worker \in [Threads -> GitSteps \cup {"idle", "judge"}] /\ spent \in [Threads -> Nat]
      /\ excused \in BOOLEAN
  BY DEF GitInv, GitTypes
<1>2. /\ worker' = [worker EXCEPT ![t] = "idle"] /\ spent' = [spent EXCEPT ![t] = 0]
      /\ lockAge' = NoLock
      /\ excused' = (excused \/ (lockAge # NoLock /\ Holding # {t}))
  BY DEF Leave, Enter
<1>3. \A u : u \in Holding' <=> u \in Holding /\ u # t
  BY <1>1, <1>2 DEF Holding
<1>4. t \in Holding
  BY HoldersAre DEF GitSteps
<1>5. ~excused => Holding = {t} /\ lockAge # NoLock
  BY <1>4 DEF GitInv, OneHolder
<1>6. ~excused => ~excused' /\ Holding' = {}
  BY <1>2, <1>3, <1>5
<1>7. excused => excused'
  BY <1>2
<1>8. OneHolder'
  BY <1>1, <1>6, <1>7 DEF OneHolder
<1>9. LockIsYoung'
  BY <1>1, <1>2, <1>6 DEF GitInv, LockIsYoung
<1> QED
  BY <1>8, <1>9 DEF GitInv

LEMMA ToldType ==
  ASSUME GitTypes, NEW t \in Threads, NEW x \in {"OK", "DEGRADED"}, Told(t, x)
  PROVE  gitStatus' \in [Traders -> {"OK", "DEGRADED"}]
BY ThreadIs DEF GitTypes, Told

LEMMA EnterType ==
  ASSUME GitTypes, NEW t \in Threads, NEW step \in GitSteps \cup {"idle", "judge"}, Enter(t, step)
  PROVE  worker' \in [Threads -> GitSteps \cup {"idle", "judge"}] /\ spent' \in [Threads -> Nat]
BY DEF GitTypes, Enter

LEMMA LeaveType ==
  ASSUME GitTypes, NEW t \in Threads, Leave(t)
  PROVE  /\ worker' \in [Threads -> GitSteps \cup {"idle", "judge"}] /\ spent' \in [Threads -> Nat]
         /\ lockAge' \in 0..StaleAge + 1 \cup {NoLock} /\ excused' \in BOOLEAN
<1>1. Enter(t, "idle") /\ lockAge' = NoLock
  BY DEF Leave
<1>2. excused' \in BOOLEAN
  BY DEF Leave, GitTypes
<1> QED
  BY <1>1, <1>2, EnterType

LEMMA LockType ==
  ASSUME GitTypes, NEW t \in Threads, Lock(t)
  PROVE  /\ worker' \in [Threads -> GitSteps \cup {"idle", "judge"}]
         /\ lockAge' \in 0..StaleAge + 1 \cup {NoLock}
<1>1. CASE lockAge = NoLock
  BY <1>1 DEF Lock, GitTypes, GitSteps, StaleAge
<1>2. CASE Stale
  BY <1>2 DEF Lock, Stale, GitTypes
<1>3. CASE ~(lockAge = NoLock \/ Stale)
  BY <1>3 DEF Lock, GitTypes
<1> QED
  BY <1>1, <1>2, <1>3

LEMMA SyncStep ==
  ASSUME GitInv, NEW p \in Traders, LoopSyncs(p) \/ ShutdownSyncs(p)
  PROVE  GitInv'
<1>1. PICK t \in Threads : Lock(t) /\ spent' = [spent EXCEPT ![t] = 0]
                           /\ (LoopSyncs(p) => worker[t] = "idle")
  BY ThreadIs DEF LoopSyncs, ShutdownSyncs
<1>2. /\ gitEnds' \in Nat /\ gitEnds' >= gitEnds /\ lingered' = lingered
      /\ up' \in [Traders -> {"running", "stopping", "down"}]
      /\ worker[t] = "idle" \/ gitEnds' > 0
      /\ up' = up \/ gitEnds' > 0
  <2>1. gitEnds \in Nat /\ up \in [Traders -> {"running", "stopping", "down"}]
    BY DEF GitInv, GitTypes
  <2>2. CASE LoopSyncs(p)
    <3>1. worker[t] = "idle"
      BY <1>1, <2>2
    <3>2. UNCHANGED <<up, gitEnds, lingered>>
      BY <2>2 DEF LoopSyncs
    <3> QED
      BY <2>1, <3>1, <3>2
  <2>3. CASE ShutdownSyncs(p)
    BY <2>1, <2>3 DEF ShutdownSyncs
  <2> QED
    BY <2>2, <2>3
<1>3. UNCHANGED <<written, staged, committed, pushed, gitStatus, lingered, excused>>
  BY DEF LoopSyncs, ShutdownSyncs
<1>4. GitTypes'
  <2>1. /\ worker' \in [Threads -> GitSteps \cup {"idle", "judge"}] /\ lockAge' \in 0..StaleAge + 1 \cup {NoLock}
        /\ excused' \in BOOLEAN
    BY <1>1, <1>3, LockType DEF GitInv, GitTypes
  <2>2. spent' \in [Threads -> Nat]
    BY <1>1 DEF GitInv, GitTypes
  <2>3. /\ gitStatus' \in [Traders -> {"OK", "DEGRADED"}] /\ lingered' \in BOOLEAN
        /\ {written', staged', committed', pushed'} \subseteq Nat
        /\ pushed' <= committed' /\ committed' <= staged' /\ staged' <= written'
    BY <1>3 DEF GitInv, GitTypes
  <2> QED
    BY <1>2, <2>1, <2>2, <2>3 DEF GitTypes
<1> QED
  BY <1>1, <1>2, <1>3, <1>4, LockKeeps

(* A thread that removes what it judged stale; unless the lock file is a   *)
(* worker's by then, nobody holds it.                                      *)
LEMMA RemoveStaleStep ==
  ASSUME GitInv, NEW t \in Threads, RemoveStale(t)
  PROVE  GitInv'
<1>1. /\ worker \in [Threads -> GitSteps \cup {"idle", "judge"}] /\ worker[t] = "judge"
      /\ excused \in BOOLEAN /\ lockAge \in 0..StaleAge + 1 \cup {NoLock}
      /\ UNCHANGED <<spent, up, written, staged, committed, pushed, gitStatus, lingered, gitEnds>>
  BY DEF GitInv, GitTypes, RemoveStale
<1>2. LockIsYoung'
  BY <1>1 DEF GitInv, LockIsYoung
<1>3. CASE worker' = [worker EXCEPT ![t] = "flush"]
  <2>1. lockAge' = 0 /\ excused' = (excused \/ (lockAge # NoLock /\ Holding # {}))
    BY <1>1, <1>3 DEF RemoveStale
  <2>2. \A u : u \in Holding' <=> u \in Threads /\ (u = t \/ u \in Holding)
    BY <1>1, <1>3, HoldersAre DEF Holding
  <2>3. ~excused' => Holding = {}
    BY <1>1, <2>1 DEF GitInv, OneHolder
  <2>4. OneHolder'
    BY <2>1, <2>2, <2>3 DEF OneHolder, NoLock
  <2>5. GitTypes'
    <3>1. worker' \in [Threads -> GitSteps \cup {"idle", "judge"}]
      BY <1>1, <1>3 DEF GitSteps
    <3>2. lockAge' \in 0..StaleAge + 1 \cup {NoLock} /\ excused' \in BOOLEAN
      BY <1>1, <2>1 DEF StaleAge
    <3> QED
      BY <1>1, <3>1, <3>2 DEF GitInv, GitTypes
  <2> QED
    BY <1>2, <2>4, <2>5 DEF GitInv
<1>4. CASE worker' = [worker EXCEPT ![t] = "idle"] /\ UNCHANGED <<lockAge, excused>>
  <2>1. Holding' = Holding
    BY <1>1, <1>4 DEF Holding
  <2>2. OneHolder'
    BY <1>4, <2>1 DEF GitInv, OneHolder
  <2>3. GitTypes'
    BY <1>1, <1>4 DEF GitInv, GitTypes
  <2> QED
    BY <1>2, <2>2, <2>3 DEF GitInv
<1> QED
  BY <1>3, <1>4 DEF RemoveStale

LEMMA WorkStep ==
  ASSUME GitInv, NEW t \in Threads,
         Flush(t) \/ Add(t) \/ Diff(t) \/ Reset(t) \/ Commit(t) \/ Push(t)
  PROVE  GitInv'
<1>1. /\ UNCHANGED <<up, written, lingered, gitEnds>>
      /\ worker[t] \in GitSteps
  BY DEF Flush, Add, Diff, Reset, Commit, Push, GitSteps
<1>2. GitTypes
  BY DEF GitInv
<1>3. /\ {staged', committed', pushed'} \subseteq Nat
      /\ pushed' <= committed' /\ committed' <= staged' /\ staged' <= written
  BY <1>2 DEF GitTypes, Flush, Add, Diff, Reset, Commit, Push
<1>4. \/ \E step \in GitSteps : /\ Enter(t, step) /\ Before(worker[t]) + Limit(worker[t]) <= Before(step)
                                /\ UNCHANGED <<lockAge, gitStatus, excused>>
      \/ Leave(t) /\ \E x \in {"OK", "DEGRADED"} : Told(t, x)
  <2>1. CASE Flush(t)
    <3>1. /\ Enter(t, "add") /\ worker[t] = "flush" /\ "add" \in GitSteps
          /\ UNCHANGED <<lockAge, gitStatus, excused>>
      BY <2>1 DEF Flush, GitSteps
    <3>2. Before("flush") + Limit("flush") <= Before("add")
      BY DEF Before, Limit
    <3> QED
      BY <3>1, <3>2
  <2>2. CASE Add(t)
    <3>1. \/ Enter(t, "diff") /\ UNCHANGED <<lockAge, gitStatus, excused>>
          \/ Leave(t) /\ Told(t, "DEGRADED")
      BY <2>2 DEF Add
    <3>2. Before("add") + Limit("add") <= Before("diff") /\ "diff" \in GitSteps /\ worker[t] = "add"
      BY <2>2 DEF Before, Limit, GitSteps, Add
    <3> QED
      BY <3>1, <3>2
  <2>3. CASE Diff(t)
    <3>1. \/ Enter(t, "commit") /\ UNCHANGED <<lockAge, gitStatus, excused>>
          \/ Enter(t, "reset") /\ UNCHANGED <<lockAge, gitStatus, excused>>
          \/ Leave(t) /\ Told(t, "OK")
      BY <2>3 DEF Diff
    <3>2. /\ Before("diff") + Limit("diff") <= Before("commit") /\ "commit" \in GitSteps
          /\ Before("diff") + Limit("diff") <= Before("reset") /\ "reset" \in GitSteps
          /\ worker[t] = "diff"
      BY <2>3 DEF Before, Limit, GitSteps, Diff
    <3> QED
      BY <3>1, <3>2
  <2>4. CASE Commit(t)
    <3>1. \/ Enter(t, "push") /\ UNCHANGED <<lockAge, gitStatus, excused>>
          \/ Leave(t) /\ Told(t, "OK")
      BY <2>4 DEF Commit
    <3>2. Before("commit") + Limit("commit") <= Before("push") /\ "push" \in GitSteps
          /\ worker[t] = "commit"
      BY <2>4 DEF Before, Limit, GitSteps, Commit
    <3> QED
      BY <3>1, <3>2
  <2>5. CASE Reset(t) \/ Push(t)
    BY <2>5 DEF Reset, Push
  <2> QED
    BY <2>1, <2>2, <2>3, <2>4, <2>5
<1>5. CASE \E step \in GitSteps : /\ Enter(t, step)
                                  /\ Before(worker[t]) + Limit(worker[t]) <= Before(step)
                                  /\ UNCHANGED <<lockAge, gitStatus, excused>>
  <2>1. PICK step \in GitSteps : /\ Enter(t, step)
                                 /\ Before(worker[t]) + Limit(worker[t]) <= Before(step)
                                 /\ UNCHANGED <<lockAge, gitStatus, excused>>
    BY <1>5
  <2>2. GitTypes'
    BY <1>1, <1>2, <1>3, <2>1, EnterType DEF GitTypes
  <2> QED
    BY <1>1, <2>1, <2>2, EnterKeeps
<1>6. CASE Leave(t) /\ \E x \in {"OK", "DEGRADED"} : Told(t, x)
  <2>1. gitStatus' \in [Traders -> {"OK", "DEGRADED"}]
    BY <1>2, <1>6, ToldType
  <2>2. GitTypes'
    BY <1>1, <1>2, <1>3, <1>6, <2>1, LeaveType DEF GitTypes
  <2> QED
    BY <1>1, <1>6, <2>2, LeaveKeeps
<1> QED
  BY <1>4, <1>5, <1>6

LEMMA StopStep ==
  ASSUME GitInv, NEW p \in Traders, Stop(p)
  PROVE  GitInv'
<1> DEFINE t == <<p, "loop">>
<1>1. /\ worker \in [Threads -> GitSteps \cup {"idle", "judge"}] /\ spent \in [Threads -> Nat]
      /\ up \in [Traders -> {"running", "stopping", "down"}] /\ t \in Threads
  BY ThreadIs DEF GitInv, GitTypes
<1>2. /\ up[p] = "stopping" /\ up' = [up EXCEPT ![p] = "down"]
      /\ worker' = [worker EXCEPT ![t] = "idle"] /\ spent' = [spent EXCEPT ![t] = 0]
      /\ lockAge' = NoLock /\ excused' = (excused \/ Holding \ {t} # {})
      /\ UNCHANGED <<written, staged, committed, pushed, gitStatus, lingered, gitEnds>>
  BY DEF Stop
<1> HIDE DEF t
<1>3. excused' \in BOOLEAN
  BY <1>2 DEF GitInv, GitTypes
<1>4. GitTypes'
  BY <1>1, <1>2, <1>3 DEF GitInv, GitTypes
<1>5. \A u : u \in Holding' <=> u \in Holding /\ u # t
  BY <1>1, <1>2 DEF Holding
<1>6. OneHolder'
  BY <1>2, <1>5 DEF OneHolder
<1>7. LockIsYoung'
  BY <1>2 DEF GitInv, LockIsYoung
<1> QED
  BY <1>4, <1>6, <1>7 DEF GitInv

LEMMA CrashStep ==
  ASSUME GitInv, NEW p \in Traders, Crash(p)
  PROVE  GitInv'
<1>1. /\ worker \in [Threads -> GitSteps \cup {"idle", "judge"}] /\ spent \in [Threads -> Nat]
      /\ up \in [Traders -> {"running", "stopping", "down"}] /\ gitEnds \in Nat
  BY DEF GitInv, GitTypes
<1>2. /\ gitEnds' = gitEnds + 1 /\ up' = [up EXCEPT ![p] = "down"]
      /\ worker' = [t \in Threads |-> IF t[1] = p THEN "idle" ELSE worker[t]]
      /\ spent' = [t \in Threads |-> IF t[1] = p THEN 0 ELSE spent[t]]
      /\ UNCHANGED <<lockAge, written, staged, committed, pushed, gitStatus, excused, lingered>>
  BY DEF Crash
<1>3. GitTypes'
  BY <1>1, <1>2 DEF GitInv, GitTypes
<1>4. Holding' \subseteq Holding
  BY <1>1, <1>2 DEF Holding
<1>5. OneHolder'
  BY <1>2, <1>4 DEF GitInv, OneHolder
<1>6. LockIsYoung'
  BY <1>1, <1>2 DEF LockIsYoung
<1> QED
  BY <1>3, <1>5, <1>6 DEF GitInv

LEMMA RestartStep ==
  ASSUME GitInv, NEW p \in Traders, Restart(p)
  PROVE  GitInv'
<1>1. /\ up[p] = "down" /\ up' = [up EXCEPT ![p] = "running"]
      /\ gitStatus' = [gitStatus EXCEPT ![p] = "OK"]
      /\ UNCHANGED <<worker, spent, lockAge, written, staged, committed, pushed,
                     excused, lingered, gitEnds>>
  BY DEF Restart
<1>2. GitTypes'
  BY <1>1 DEF GitInv, GitTypes
<1>3. Holding' = Holding
  BY <1>1 DEF Holding
<1>4. OneHolder'
  BY <1>1, <1>3 DEF GitInv, OneHolder
<1>5. LockIsYoung'
  BY <1>1, <1>3 DEF GitInv, LockIsYoung
<1> QED
  BY <1>2, <1>4, <1>5 DEF GitInv

(* Half a minute passes: the lock file and every step grow older alike.    *)
LEMMA HalfMinuteStep ==
  ASSUME GitInv, HalfMinute
  PROVE  GitInv'
<1>1. /\ worker \in [Threads -> GitSteps \cup {"idle", "judge"}] /\ spent \in [Threads -> Nat]
      /\ lockAge \in 0..StaleAge + 1 \cup {NoLock}
  BY DEF GitInv, GitTypes
<1>2. /\ \A t \in InGit : spent[t] < TimeLimit(worker[t])
      /\ spent' = [t \in Threads |-> IF worker[t] \in {"idle", "judge", "flush"} THEN spent[t]
                                     ELSE spent[t] + 1]
      /\ lockAge' = IF lockAge = NoLock THEN NoLock
                    ELSE IF Stale THEN lockAge ELSE lockAge + 1
      /\ lingered' = (lingered \/ \E t \in Threads : worker[t] = "flush")
      /\ UNCHANGED <<worker, up, written, staged, committed, pushed, gitStatus, excused, gitEnds>>
  BY DEF HalfMinute
<1>3. lockAge' \in 0..StaleAge + 1 \cup {NoLock} /\ lockAge' <= lockAge + 1
      /\ (lockAge # NoLock => lockAge' # NoLock)
  BY <1>1, <1>2 DEF Stale, NoLock, StaleAge
<1>4. lingered' \in BOOLEAN /\ spent' \in [Threads -> Nat]
  BY <1>1, <1>2
<1>5. GitTypes'
  BY <1>2, <1>3, <1>4 DEF GitInv, GitTypes
<1>6. Holding' = Holding
  BY <1>2 DEF Holding
<1>7. OneHolder'
  BY <1>2, <1>3, <1>6 DEF GitInv, OneHolder
<1>8. LockIsYoung'
  <2> SUFFICES ASSUME ~lingered', gitEnds = 0, NEW t \in Holding
               PROVE  spent'[t] <= Limit(worker[t]) /\ lockAge' <= Before(worker[t]) + spent'[t]
    BY <1>2, <1>6 DEF GitInv, LockIsYoung
  <2>1. ~lingered /\ t \in Threads /\ worker[t] \notin {"idle", "judge", "flush"} /\ worker[t] \in GitSteps
    BY <1>1, <1>2, HoldersAre DEF GitSteps
  <2>2. spent[t] <= Limit(worker[t]) /\ lockAge <= Before(worker[t]) + spent[t]
    BY <2>1 DEF GitInv, LockIsYoung
  <2>3. spent[t] < TimeLimit(worker[t])
    BY <1>2, <2>1 DEF InGit, GitSteps
  <2>4. TimeLimit(worker[t]) = Limit(worker[t]) /\ Before(worker[t]) \in Nat /\ Limit(worker[t]) \in Nat
    BY <2>1 DEF TimeLimit, Limit, Before, GitSteps
  <2>5. spent'[t] = spent[t] + 1 /\ spent[t] \in Nat /\ lockAge \in Nat /\ lockAge' \in Nat
    BY <1>1, <1>2, <1>3, <2>1 DEF NoLock, StaleAge
  <2> QED
    BY <1>3, <2>2, <2>3, <2>4, <2>5
<1> QED
  BY <1>5, <1>7, <1>8 DEF GitInv

LEMMA GitStep ==
  ASSUME GitInv, GitNext \/ UNCHANGED gitVars
  PROVE  GitInv'
<1>1. CASE UNCHANGED gitVars
  <2>1. GitTypes'
    BY <1>1 DEF GitInv, GitTypes, gitVars
  <2> QED
    BY <1>1, <2>1, GitFrame DEF gitVars
<1>2. ASSUME NEW p \in Traders, WriteLines(p) PROVE GitInv'
  <2>1. GitTypes'
    BY <1>2 DEF GitInv, GitTypes, WriteLines
  <2> QED
    BY <1>2, <2>1, GitFrame DEF WriteLines
<1> QED
  BY <1>1, <1>2, SyncStep, RemoveStaleStep, WorkStep, StopStep, CrashStep, RestartStep, HalfMinuteStep DEF GitNext

(* One thread at work is at most one thread in git.                        *)
LEMMA GitPromise == GitInv => GitTypeOK /\ GitOverlapIsExcused
<1> SUFFICES ASSUME GitInv PROVE GitTypeOK /\ GitOverlapIsExcused
  OBVIOUS
<1>1. GitTypeOK
  BY DEF GitInv, GitTypes, GitSteps, GitTypeOK
<1>2. ASSUME ~excused PROVE ~(Cardinality(InGit) > 1)
  <2>1. \A t, u \in InGit : t = u
    <3>1. InGit \subseteq Holding
      BY DEF InGit, Holding
    <3> QED
      BY <1>2, <3>1 DEF GitInv, OneHolder
  <2>2. CASE InGit = {}
    BY <2>2, FS_EmptySet
  <2>3. CASE InGit # {}
    <3>1. PICK t : InGit = {t}
      BY <2>1, <2>3
    <3> QED
      BY <3>1, FS_Singleton
  <2> QED
    BY <2>2, <2>3
<1>3. excused => lingered \/ gitEnds > 0
  BY DEF GitInv, GitTypes, LockIsYoung
<1> QED
  BY <1>1, <1>2, <1>3 DEF GitOverlapIsExcused

-----------------------------------------------------------------------------
(* The published status (TelemetryExporter).                               *)

EventType ==
  {e \in [item : Items, full : BOOLEAN,
          state : {"SENT", "NONE", "CANCELLED", "OPEN", "PARTIAL_EXITED", "CLOSED"}] :
     e.state = "PARTIAL_EXITED" => ~e.full}

ExporterTypes ==
  /\ ExporterTypeOK
  /\ events \in Seq(EventType) /\ hand \in [Consumers -> EventType \cup {Nothing}]
  /\ unfinished \in Nat /\ raises \in Nat /\ DOMAIN lastSynced = {"order", "position"}

(* An event tells of i when counting it says whether i is shown.           *)
Tells(e, i) == e.item = i /\ e.state # "PARTIAL_EXITED"

(* An event that tells what has become of i.                               *)
True(e, i, tr) == tr # "new" /\ (Terminal(e) <=> tr = "ended")

(* The last event in the queue that tells of i is true; none tells of it.  *)
LastTells(q, i, tr) ==
  \E k \in DOMAIN q : /\ Tells(q[k], i) /\ True(q[k], i, tr)
                      /\ \A j \in DOMAIN q : Tells(q[j], i) => j <= k
NoneTells(q, i) == \A k \in DOMAIN q : ~Tells(q[k], i)

(* The event in hand tells of i, or what is shown of i is right.           *)
HandTells(h, i) == h # Nothing /\ Tells(h, i)
ShownRight(i, sh, last, tr) ==
  /\ i \in sh => tr = "open"
  /\ i \notin sh /\ i.owner = last[i.kind] => tr # "open"
HandSettles(h, i, sh, last, tr) ==
  IF HandTells(h, i) THEN True(h, i, tr) ELSE ShownRight(i, sh, last, tr)

(* Of two hands the event of b was taken after that of a.                  *)
HandsSettle(b, a, i, sh, last, tr) ==
  IF HandTells(b, i) THEN True(b, i, tr) ELSE HandSettles(a, i, sh, last, tr)
LaterHand == hand[Other(ahead)]
EarlierHand == hand[ahead]

(* What will be shown of an item once all its events are counted in order. *)
Settles(q, b, a, i, sh, last, tr) ==
  \/ LastTells(q, i, tr)
  \/ NoneTells(q, i) /\ HandsSettle(b, a, i, sh, last, tr)

AllSettle ==
  \A i \in Items \ unsure : Settles(events, LaterHand, EarlierHand, i, shown, lastSynced, truth[i])

ExporterInv == ExporterTypes /\ AllSettle

LEMMA NothingIsNoEvent == Nothing \notin EventType
<1>1. ASSUME NEW e \in EventType PROVE e # Nothing
  <2>1. DOMAIN e = {"item", "full", "state"}
    BY DEF EventType
  <2>2. DOMAIN Nothing = {"kind"}
    BY DEF Nothing
  <2>3. "item" # "kind" /\ "item" \in {"item", "full", "state"}
    OBVIOUS
  <2> QED
    BY <2>1, <2>2, <2>3
<1> QED
  BY <1>1

LEMMA ExporterInitInv == ExporterInit => ExporterInv
<1> SUFFICES ASSUME ExporterInit PROVE ExporterInv
  OBVIOUS
<1>1. /\ events = <<>> /\ unsynced = Nothing /\ shown = {} /\ unsure = {}
      /\ hand = [c \in Consumers |-> Nothing] /\ ahead \in Consumers /\ draining \in BOOLEAN
      /\ unfinished = 0 /\ raises = 0 /\ truth = [i \in Items |-> "new"]
      /\ running \in BOOLEAN /\ writer \in {"alive", "ended"} /\ closing = "trading"
  BY DEF ExporterInit, Consumers
<1>2. events \in Seq(EventType) /\ Len(events) = 0 /\ QueueSize \in Nat
  BY <1>1, ExporterAssumption
<1>3. ExporterTypes
  <2>1. DOMAIN lastSynced = {"order", "position"}
    BY DEF ExporterInit
  <2>2. InHand("writer") = 0 /\ InHand("git") = 0
    BY <1>1 DEF InHand, Consumers
  <2> QED
    BY <1>1, <1>2, <2>1, <2>2 DEF ExporterTypes, ExporterTypeOK
<1>4. DOMAIN events = {}
  BY <1>1
<1>5. LaterHand = Nothing /\ EarlierHand = Nothing
  BY <1>1 DEF LaterHand, EarlierHand, Consumers, Other
<1> QED
  BY <1>1, <1>3, <1>4, <1>5 DEF ExporterInv, AllSettle, Settles, NoneTells, HandsSettle, HandSettles,
     HandTells, ShownRight

(* An event put into the queue.                                            *)
LEMMA AppendedTells ==
  ASSUME NEW q \in Seq(EventType), NEW e \in EventType, NEW i, NEW tr, NEW new, NEW b, NEW a, NEW sh,
         NEW last, Settles(q, b, a, i, sh, last, tr),
         IF Tells(e, i) THEN True(e, i, new) ELSE new = tr
  PROVE  Settles(Append(q, e), b, a, i, sh, last, new)
<1> DEFINE p == Append(q, e)
           n == Len(q)
<1>1. /\ n \in Nat /\ DOMAIN q = 1 .. n /\ DOMAIN p = 1 .. n + 1 /\ p[n + 1] = e
      /\ \A k \in 1 .. n : p[k] = q[k]
  BY AppendProperties, LenProperties
<1> HIDE DEF p, n
<1>2. CASE Tells(e, i)
  <2>1. /\ n + 1 \in DOMAIN p /\ Tells(p[n + 1], i) /\ True(p[n + 1], i, new)
        /\ \A j \in DOMAIN p : Tells(p[j], i) => j <= n + 1
    BY <1>1, <1>2
  <2> QED
    BY <2>1 DEF Settles, LastTells, p
<1>3. CASE ~Tells(e, i) /\ LastTells(q, i, tr)
  <2>1. PICK k \in DOMAIN q : /\ Tells(q[k], i) /\ True(q[k], i, tr)
                              /\ \A j \in DOMAIN q : Tells(q[j], i) => j <= k
    BY <1>3 DEF LastTells
  <2>2. /\ k \in DOMAIN p /\ Tells(p[k], i) /\ True(p[k], i, new)
        /\ \A j \in DOMAIN p : Tells(p[j], i) => j <= k
    BY <1>1, <1>3, <2>1
  <2> QED
    BY <2>2 DEF Settles, LastTells, p
<1>4. CASE ~Tells(e, i) /\ ~LastTells(q, i, tr)
  <2>1. NoneTells(q, i) /\ HandsSettle(b, a, i, sh, last, new)
    BY <1>4 DEF Settles
  <2>2. NoneTells(p, i)
    BY <1>1, <1>4, <2>1 DEF NoneTells
  <2> QED
    BY <2>1, <2>2 DEF Settles, p
<1> QED
  BY <1>2, <1>3, <1>4

(* An event taken after the one in the other hand.                         *)
LEMMA TakenTells ==
  ASSUME NEW q \in Seq(EventType), q # <<>>, NEW i, NEW tr, NEW sh, NEW last,
         NEW a, Settles(q, Nothing, a, i, sh, last, tr)
  PROVE  Settles(Tail(q), Head(q), a, i, sh, last, tr)
<1> DEFINE p == Tail(q)
           n == Len(p)
<1>1. /\ n \in Nat /\ DOMAIN q = 1 .. n + 1 /\ DOMAIN p = 1 .. n /\ Head(q) = q[1]
      /\ \A k \in 1 .. n : p[k] = q[k + 1]
      /\ Head(q) # Nothing
  <2>1. /\ Tail(q) \in Seq(EventType) /\ Len(Tail(q)) = Len(q) - 1 /\ Head(q) \in EventType
        /\ Head(q) = q[1] /\ Len(q) \in Nat /\ Len(q) # 0
        /\ \A k \in 1 .. Len(q) - 1 : Tail(q)[k] = q[k + 1]
    BY HeadTailProperties, EmptySeq, LenProperties
  <2>2. DOMAIN q = 1 .. Len(q) /\ DOMAIN Tail(q) = 1 .. Len(Tail(q))
    BY <2>1, LenProperties
  <2> QED
    BY <2>1, <2>2, NothingIsNoEvent
<1> DEFINE h == Head(q)
<1> HIDE DEF p, n, h
<1>2. CASE LastTells(q, i, tr)
  <2>1. PICK k \in DOMAIN q : /\ Tells(q[k], i) /\ True(q[k], i, tr)
                              /\ \A j \in DOMAIN q : Tells(q[j], i) => j <= k
    BY <1>2 DEF LastTells
  <2>2. CASE k = 1
    <3>1. \A j \in 1 .. n : j + 1 \in DOMAIN q /\ ~(j + 1 <= 1)
      BY <1>1
    <3>2. NoneTells(p, i)
      BY <1>1, <2>1, <2>2, <3>1 DEF NoneTells
    <3>3. HandTells(h, i) /\ True(h, i, tr)
      BY <1>1, <2>1, <2>2 DEF HandTells, h
    <3> QED
      BY <3>2, <3>3 DEF Settles, HandsSettle, p, h
  <2>3. CASE k # 1
    <3>1. /\ k - 1 \in DOMAIN p /\ p[k - 1] = q[k]
      BY <1>1, <2>1, <2>3
    <3>2. ASSUME NEW j \in DOMAIN p, Tells(p[j], i) PROVE j <= k - 1
      <4>1. j \in 1 .. n /\ j + 1 \in DOMAIN q /\ q[j + 1] = p[j]
        BY <1>1
      <4>2. j + 1 <= k
        BY <2>1, <3>2, <4>1
      <4>3. k \in 1 .. n + 1
        BY <1>1
      <4> QED
        BY <1>1, <4>1, <4>2, <4>3
    <3>3. LastTells(p, i, tr)
      BY <2>1, <3>1, <3>2 DEF LastTells
    <3> QED
      BY <3>3 DEF Settles, p
  <2> QED
    BY <2>2, <2>3
<1>3. CASE ~LastTells(q, i, tr)
  <2>1. NoneTells(q, i) /\ HandsSettle(Nothing, a, i, sh, last, tr)
    BY <1>3 DEF Settles
  <2>2. NoneTells(p, i) /\ ~Tells(h, i)
    BY <1>1, <2>1 DEF NoneTells, h
  <2>3. HandsSettle(h, a, i, sh, last, tr)
    BY <2>1, <2>2 DEF HandsSettle, HandTells
  <2> QED
    BY <2>2, <2>3 DEF Settles, p, h
<1> QED
  BY <1>2, <1>3

LEMMA ExportTypes ==
  ASSUME NEW i \in Items, NEW e, e \in (IF i.kind = "order" THEN OrderEvents(i) ELSE PositionEvents(i))
  PROVE  e \in EventType /\ e.item = i
<1>1. CASE e \in OrderEvents(i)
  <2>1. \E st \in {"SENT", "NONE", "CANCELLED"}, f \in BOOLEAN : e = [item |-> i, state |-> st, full |-> f]
    BY <1>1, Zenon DEF OrderEvents
  <2>2. PICK st \in {"SENT", "NONE", "CANCELLED"}, f \in BOOLEAN : e = [item |-> i, state |-> st, full |-> f]
    BY <2>1
  <2> QED
    BY <2>2 DEF EventType
<1>2. CASE e \in PositionEvents(i)
  <2>1. PICK st \in {"OPEN", "PARTIAL_EXITED", "CLOSED"} : e = [item |-> i, state |-> st, full |-> FALSE]
    BY <1>2 DEF PositionEvents
  <2> QED
    BY <2>1 DEF EventType
<1> QED
  BY <1>1, <1>2

(* A snapshot of a kind settles each item of it no event of which waits.   *)
LEMMA SnapshotSettles ==
  ASSUME NEW q, NEW b, NEW a, NEW i, NEW sh, NEW last, NEW tr, NEW sh2, NEW last2,
         \/ Settles(q, b, a, i, sh, last, tr)
         \/ NoneTells(q, i) /\ ~HandTells(b, i) /\ ~HandTells(a, i),
         ShownRight(i, sh2, last2, tr)
  PROVE  Settles(q, b, a, i, sh2, last2, tr)
<1>1. CASE LastTells(q, i, tr)
  BY <1>1 DEF Settles
<1>2. CASE ~LastTells(q, i, tr)
  <2>1. NoneTells(q, i) /\ (HandsSettle(b, a, i, sh, last, tr) \/ (~HandTells(b, i) /\ ~HandTells(a, i)))
    BY <1>2 DEF Settles
  <2>2. HandsSettle(b, a, i, sh2, last2, tr)
    BY <2>1 DEF HandsSettle, HandSettles
  <2> QED
    BY <2>1, <2>2 DEF Settles
<1> QED
  BY <1>1, <1>2

(* No event of an item that does not wait tells of it.                     *)
LEMMA NotWaiting ==
  ASSUME ExporterTypes, NEW i, ~Waiting(i)
  PROVE  NoneTells(events, i) /\ ~HandTells(LaterHand, i) /\ ~HandTells(EarlierHand, i)
<1>1. \A k \in DOMAIN events : events[k].item # i
  BY DEF Waiting, Range
<1>2. ahead \in Consumers /\ Other(ahead) \in Consumers /\ DOMAIN hand = Consumers
  BY DEF ExporterTypes, ExporterTypeOK, Consumers, Other
<1>3. \A c \in Consumers : hand[c] \in Range(hand)
  BY <1>2 DEF Range
<1>4. \A c \in Consumers : hand[c] # Nothing => hand[c].item # i
  BY <1>3 DEF Waiting
<1> QED
  BY <1>1, <1>2, <1>4 DEF NoneTells, HandTells, Tells, LaterHand, EarlierHand

LEMMA SnapshotStep ==
  ASSUME ExporterInv, NEW kind \in {"order", "position"}, NEW owner, Snapshot(kind, owner),
         UNCHANGED <<truth, events, hand, ahead>>
  PROVE  /\ AllSettle'
         /\ shown' \subseteq Items /\ unsure' \subseteq Items
<1>1. truth \in [Items -> {"new", "open", "ended"}] /\ shown \subseteq Items /\ unsure \subseteq Items
  BY DEF ExporterInv, ExporterTypes, ExporterTypeOK
<1>2. shown' \subseteq Items /\ unsure' \subseteq Items
  BY <1>1 DEF Snapshot, OpenOf
<1>3. ASSUME NEW i \in Items \ unsure' PROVE Settles(events, LaterHand, EarlierHand, i, shown', lastSynced', truth[i])
  <2>1. CASE i.kind = kind
    <3>1. i \in unsure => NoneTells(events, i) /\ ~HandTells(LaterHand, i) /\ ~HandTells(EarlierHand, i)
      BY <1>3, <2>1, NotWaiting DEF Snapshot, ExporterInv
    <3>2. Settles(events, LaterHand, EarlierHand, i, shown, lastSynced, truth[i])
          \/ (NoneTells(events, i) /\ ~HandTells(LaterHand, i) /\ ~HandTells(EarlierHand, i))
      <4>1. i \notin unsure => Settles(events, LaterHand, EarlierHand, i, shown, lastSynced, truth[i])
        BY DEF ExporterInv, AllSettle
      <4> QED
        BY <3>1, <4>1, Zenon
    <3>3. ShownRight(i, shown', lastSynced', truth[i])
      <4>1. i \in shown' <=> i \in OpenOf(kind, owner)
        BY <2>1 DEF Snapshot
      <4>2. lastSynced'[i.kind] = owner
        BY <2>1 DEF Snapshot, ExporterInv, ExporterTypes
      <4> QED
        BY <2>1, <4>1, <4>2 DEF ShownRight, OpenOf
    <3> QED
      BY <3>2, <3>3, SnapshotSettles
  <2>2. CASE i.kind # kind
    <3>1. Settles(events, LaterHand, EarlierHand, i, shown, lastSynced, truth[i])
      BY <1>3, <2>2 DEF ExporterInv, AllSettle, Snapshot
    <3>2. /\ i \in shown' <=> i \in shown
          /\ lastSynced'[i.kind] = lastSynced[i.kind]
      BY <2>2 DEF Snapshot, OpenOf
    <3> QED
      BY <3>1, <3>2 DEF Settles, HandsSettle, HandSettles, ShownRight
  <2> QED
    BY <2>1, <2>2
<1> QED
  BY <1>2, <1>3 DEF AllSettle, LaterHand, EarlierHand

LEMMA SyncsSettle ==
  ASSUME ExporterInv, SyncOrders \/ SyncPositions
  PROVE  ExporterInv'
<1>1. CASE SyncOrders
  <2>1. AllSettle' /\ shown' \subseteq Items /\ unsure' \subseteq Items
    BY <1>1, SnapshotStep DEF SyncOrders, queueVars
  <2>2. ExporterTypes'
    BY <1>1, <2>1 DEF ExporterInv, ExporterTypes, ExporterTypeOK, InHand, SyncOrders, Snapshot, queueVars
  <2> QED
    BY <2>1, <2>2 DEF ExporterInv
<1>2. CASE SyncPositions
  <2>1. AllSettle' /\ shown' \subseteq Items /\ unsure' \subseteq Items
    BY <1>2, SnapshotStep DEF SyncPositions, queueVars
  <2>2. ExporterTypes'
    BY <1>2, <2>1 DEF ExporterInv, ExporterTypes, ExporterTypeOK, InHand, SyncPositions, Snapshot, queueVars
  <2> QED
    BY <2>1, <2>2 DEF ExporterInv
<1> QED
  BY <1>1, <1>2

LEMMA ShutdownSettles ==
  ASSUME ExporterInv, NEW owner, Shutdown(owner)
  PROVE  ExporterInv'
<1>1. truth \in [Items -> {"new", "open", "ended"}] /\ unsure \subseteq Items
  BY DEF ExporterInv, ExporterTypes, ExporterTypeOK
<1>2. ExporterTypes'
  BY <1>1 DEF ExporterInv, ExporterTypes, ExporterTypeOK, InHand, Shutdown, OpenOf, queueVars
<1>3. ASSUME NEW i \in Items \ unsure' PROVE Settles(events, LaterHand, EarlierHand, i, shown', lastSynced', truth[i])
  <2>1. i \in unsure => NoneTells(events, i) /\ ~HandTells(LaterHand, i) /\ ~HandTells(EarlierHand, i)
    BY <1>3, NotWaiting DEF Shutdown, ExporterInv
  <2>2. Settles(events, LaterHand, EarlierHand, i, shown, lastSynced, truth[i])
        \/ (NoneTells(events, i) /\ ~HandTells(LaterHand, i) /\ ~HandTells(EarlierHand, i))
    <3>1. i \notin unsure => Settles(events, LaterHand, EarlierHand, i, shown, lastSynced, truth[i])
      BY DEF ExporterInv, AllSettle
    <3> QED
      BY <2>1, <3>1, Zenon
  <2>3. ShownRight(i, shown', lastSynced', truth[i])
    <3>1. i.kind = "order" \/ i.kind = "position"
      BY ExporterAssumption
    <3>2. lastSynced'[i.kind] = owner
      BY <3>1 DEF Shutdown
    <3>3. i \in shown' <=> truth[i] = "open" /\ i.owner = owner
      BY <3>1 DEF Shutdown, OpenOf
    <3> QED
      BY <3>2, <3>3 DEF ShownRight
  <2> QED
    BY <2>2, <2>3, SnapshotSettles
<1>4. UNCHANGED <<truth, events, hand, ahead>>
  BY DEF Shutdown, queueVars
<1> QED
  BY <1>2, <1>3, <1>4 DEF ExporterInv, AllSettle, LaterHand, EarlierHand

(* A hand that does not tell of i makes no difference to it.               *)
LEMMA OneHand ==
  ASSUME NEW b, NEW a, NEW i, NEW sh, NEW last, NEW tr
  PROVE  /\ ~HandTells(b, i) => (HandsSettle(b, a, i, sh, last, tr) <=> HandSettles(a, i, sh, last, tr))
         /\ ~HandTells(a, i) => (HandsSettle(b, a, i, sh, last, tr) <=> HandSettles(b, i, sh, last, tr))
BY DEF HandsSettle, HandSettles

LEMMA HandEmptied ==
  ASSUME ExporterTypes, NEW c \in Consumers, hand' = [hand EXCEPT ![c] = Nothing],
         ahead' \in Consumers, NEW i, NEW sh, NEW last, NEW tr
  PROVE  /\ HandsSettle(LaterHand', EarlierHand', i, sh, last, tr) <=> HandSettles(hand[Other(c)], i, sh, last, tr)
         /\ ~HandTells(hand[c], i) =>
              (HandsSettle(LaterHand, EarlierHand, i, sh, last, tr) <=> HandSettles(hand[Other(c)], i, sh, last, tr))
<1>1. /\ hand \in [Consumers -> EventType \cup {Nothing}] /\ ahead \in Consumers
      /\ Other(c) \in Consumers /\ Other(c) # c /\ ~HandTells(Nothing, i)
  BY DEF ExporterTypes, ExporterTypeOK, Consumers, Other, HandTells
<1>2. hand'[c] = Nothing /\ hand'[Other(c)] = hand[Other(c)]
  BY <1>1
<1>3. \A f \in Consumers : \/ f = c /\ Other(f) = Other(c)
                           \/ f = Other(c) /\ Other(f) = c
  BY DEF Consumers, Other
<1>4. \/ EarlierHand = hand[c] /\ LaterHand = hand[Other(c)]
      \/ EarlierHand = hand[Other(c)] /\ LaterHand = hand[c]
  BY <1>1, <1>3 DEF EarlierHand, LaterHand
<1>5. \/ EarlierHand' = Nothing /\ LaterHand' = hand[Other(c)]
      \/ EarlierHand' = hand[Other(c)] /\ LaterHand' = Nothing
  BY <1>2, <1>3 DEF EarlierHand, LaterHand
<1> QED
  BY <1>1, <1>4, <1>5, OneHand

(* What happens to one item unseen or half-done leaves it unsure; the      *)
(* others are as before.                                                   *)
LEMMA OneUnsure ==
  ASSUME ExporterInv, NEW x, unsure' = unsure \cup {x},
         UNCHANGED <<events, lastSynced>>,
         \A i \in Items \ {x} :
           /\ truth'[i] = truth[i] /\ (i \in shown' <=> i \in shown)
           /\ HandsSettle(LaterHand', EarlierHand', i, shown, lastSynced, truth[i])
                <=> HandsSettle(LaterHand, EarlierHand, i, shown, lastSynced, truth[i])
  PROVE  AllSettle'
<1>1. ASSUME NEW i \in Items \ unsure'
      PROVE Settles(events, LaterHand', EarlierHand', i, shown', lastSynced, truth'[i])
  <2>1. /\ i \notin unsure /\ truth'[i] = truth[i] /\ (i \in shown' <=> i \in shown)
        /\ HandsSettle(LaterHand', EarlierHand', i, shown, lastSynced, truth[i])
             <=> HandsSettle(LaterHand, EarlierHand, i, shown, lastSynced, truth[i])
    BY <1>1
  <2>2. Settles(events, LaterHand, EarlierHand, i, shown, lastSynced, truth[i])
    BY <2>1 DEF ExporterInv, AllSettle
  <2>3. Settles(events, LaterHand', EarlierHand', i, shown, lastSynced, truth[i])
    BY <2>1, <2>2 DEF Settles
  <2> QED
    BY <2>1, <2>3 DEF Settles, HandsSettle, HandSettles, ShownRight
<1> QED
  BY <1>1 DEF AllSettle

LEMMA UntoldSettles ==
  ASSUME ExporterInv, NEW x \in Items, ChangeUntold(x)
  PROVE  ExporterInv'
<1>1. truth \in [Items -> {"new", "open", "ended"}] /\ unsure \subseteq Items
  BY DEF ExporterInv, ExporterTypes, ExporterTypeOK
<1>2. ExporterTypes'
  BY <1>1 DEF ExporterInv, ExporterTypes, ExporterTypeOK, InHand, ChangeUntold, queueVars
<1>3. LaterHand' = LaterHand /\ EarlierHand' = EarlierHand
  BY DEF ChangeUntold, queueVars, LaterHand, EarlierHand
<1>4. AllSettle'
  BY <1>1, <1>3, OneUnsure DEF ChangeUntold, queueVars
<1> QED
  BY <1>2, <1>4 DEF ExporterInv

LEMMA ExportSettles ==
  ASSUME ExporterInv, NEW x \in Items, Export(x)
  PROVE  ExporterInv'
<1>1. /\ truth \in [Items -> {"new", "open", "ended"}] /\ unsure \subseteq Items
      /\ events \in Seq(EventType) /\ Len(events) \in Nat /\ unfinished \in Nat /\ QueueSize \in Nat
      /\ raises \in Nat
  BY ExporterAssumption, LenProperties DEF ExporterInv, ExporterTypes, ExporterTypeOK
<1>2. PICK e \in IF x.kind = "order" THEN OrderEvents(x) ELSE PositionEvents(x) :
        /\ Fits(e) /\ Put(e)
        /\ truth' = [truth EXCEPT ![x] = IF Terminal(e) THEN "ended" ELSE "open"]
  BY DEF Export
<1>3. e \in EventType /\ e.item = x
  BY ExportTypes
<1>4. /\ UNCHANGED <<hand, ahead, draining, shown, lastSynced, raises, running, writer, closing>>
      /\ unsynced' = x /\ LaterHand' = LaterHand /\ EarlierHand' = EarlierHand
  BY DEF Export, LaterHand, EarlierHand
<1>5. truth' \in [Items -> {"new", "open", "ended"}]
  BY <1>1, <1>2
<1>6. CASE Len(events) < QueueSize
  <2>1. events' = Append(events, e) /\ unfinished' = unfinished + 1 /\ unsure' = unsure
    BY <1>2, <1>6 DEF Put
  <2>2. events' \in Seq(EventType) /\ Len(events') = Len(events) + 1
    BY <1>1, <1>3, <2>1, AppendProperties
  <2>3. ExporterTypes'
    <3> DEFINE n == InHand("writer")
               m == InHand("git")
    <3>1. /\ n \in Nat /\ m \in Nat /\ Len(events) <= QueueSize
          /\ unfinished = Len(events) + n + m + raises
      BY DEF ExporterInv, ExporterTypes, ExporterTypeOK, InHand
    <3>2. InHand("writer")' = n /\ InHand("git")' = m
      BY <1>4 DEF InHand
    <3> HIDE DEF n, m
    <3>3. /\ unfinished' = Len(events') + n + m + raises
          /\ Len(events') <= QueueSize /\ unfinished' \in Nat
      BY <1>1, <1>6, <2>1, <2>2, <3>1
    <3> QED
      BY <1>4, <1>5, <2>1, <2>2, <3>2, <3>3 DEF ExporterInv, ExporterTypes, ExporterTypeOK
  <2>4. ASSUME NEW i \in Items \ unsure
        PROVE Settles(Append(events, e), LaterHand, EarlierHand, i, shown, lastSynced, truth'[i])
    <3>1. Settles(events, LaterHand, EarlierHand, i, shown, lastSynced, truth[i])
      BY DEF ExporterInv, AllSettle
    <3>2. IF Tells(e, i) THEN True(e, i, truth'[i]) ELSE truth'[i] = truth[i]
      <4>1. CASE i # x
        BY <1>1, <1>2, <1>3, <4>1 DEF Tells
      <4>2. CASE i = x /\ Tells(e, i)
        BY <1>1, <1>2, <4>2 DEF True
      <4>3. CASE i = x /\ ~Tells(e, i)
        <5>1. e.state = "PARTIAL_EXITED" /\ ~e.full
          BY <1>3, <4>3 DEF Tells, EventType
        <5>2. truth[x] = "open"
          BY <1>1, <1>2, <1>3, <5>1 DEF Fits
        <5>3. truth'[x] = "open"
          BY <1>1, <1>2, <5>1 DEF Terminal
        <5> QED
          BY <4>3, <5>2, <5>3
      <4> QED
        BY <4>1, <4>2, <4>3
    <3> DEFINE old == truth[i]
               new == truth'[i]
               b == LaterHand
               a == EarlierHand
    <3>3. /\ Settles(events, b, a, i, shown, lastSynced, old)
          /\ IF Tells(e, i) THEN True(e, i, new) ELSE new = old
      BY <3>1, <3>2
    <3> HIDE DEF old, new, b, a
    <3>4. Settles(Append(events, e), b, a, i, shown, lastSynced, new)
      BY <1>1, <1>3, <3>3, AppendedTells
    <3> QED
      BY <3>4 DEF new, b, a
  <2> QED
    BY <1>4, <2>1, <2>3, <2>4 DEF ExporterInv, AllSettle
<1>7. CASE ~(Len(events) < QueueSize)
  <2>1. unsure' = unsure \cup {x} /\ events' = events /\ unfinished' = unfinished
    BY <1>2, <1>3, <1>7 DEF Put
  <2>2. ExporterTypes'
    BY <1>1, <1>4, <1>5, <2>1 DEF ExporterInv, ExporterTypes, ExporterTypeOK, InHand
  <2>3. AllSettle'
    BY <1>1, <1>2, <1>4, <2>1, OneUnsure
  <2> QED
    BY <2>2, <2>3 DEF ExporterInv
<1> QED
  BY <1>6, <1>7

LEMMA TakeSettles ==
  ASSUME ExporterInv, NEW c \in Consumers, TakeEvent(c)
  PROVE  ExporterInv'
<1>1. /\ events \in Seq(EventType) /\ events # <<>> /\ hand[c] = Nothing
      /\ hand \in [Consumers -> EventType \cup {Nothing}] /\ ahead \in Consumers
      /\ hand' = [hand EXCEPT ![c] = Head(events)] /\ events' = Tail(events)
      /\ ahead' = IF hand[Other(c)] = Nothing THEN "writer" ELSE Other(c)
      /\ UNCHANGED <<truth, unsynced, draining, unfinished, shown, lastSynced, unsure, raises,
                     running, writer, closing>>
  BY DEF ExporterInv, ExporterTypes, ExporterTypeOK, TakeEvent
<1>2. /\ Tail(events) \in Seq(EventType) /\ Len(Tail(events)) = Len(events) - 1
      /\ Head(events) \in EventType /\ Len(events) \in Nat /\ Head(events) # Nothing
  BY <1>1, HeadTailProperties, LenProperties, NothingIsNoEvent
<1>3. /\ hand' \in [Consumers -> EventType \cup {Nothing}] /\ ahead' \in Consumers
      /\ Other(c) \in Consumers /\ Other(c) # c /\ DOMAIN hand' = Consumers
      /\ hand'[c] = Head(events) /\ hand'[Other(c)] = hand[Other(c)]
  BY <1>1, <1>2 DEF Consumers, Other
<1>4. ExporterTypes'
  <2>1. /\ unfinished = Len(events) + InHand("writer") + InHand("git") + raises
        /\ raises \in Nat /\ unfinished \in Nat /\ Len(events) <= QueueSize /\ QueueSize \in Nat
    BY ExporterAssumption DEF ExporterInv, ExporterTypes, ExporterTypeOK
  <2>2. /\ InHand(c) = 0 /\ InHand(c)' = 1 /\ InHand(Other(c))' = InHand(Other(c))
        /\ InHand(Other(c)) \in Nat
    BY <1>1, <1>2, <1>3 DEF InHand
  <2>3. InHand("writer")' + InHand("git")' = InHand("writer") + InHand("git") + 1
    BY <2>2 DEF Consumers, Other
  <2>4. InHand("writer") \in Nat /\ InHand("git") \in Nat /\ InHand("writer")' \in Nat /\ InHand("git")' \in Nat
    BY DEF InHand
  <2>5. /\ unfinished' = Len(events') + InHand("writer")' + InHand("git")' + raises'
        /\ Len(events') <= QueueSize
    <3> DEFINE w == InHand("writer")
               g == InHand("git")
               w2 == InHand("writer")'
               g2 == InHand("git")'
               m == Len(events)
               m2 == Len(events')
    <3>1. /\ w \in Nat /\ g \in Nat /\ w2 \in Nat /\ g2 \in Nat /\ w2 + g2 = w + g + 1
          /\ m \in Nat /\ m2 = m - 1 /\ m <= QueueSize /\ unfinished = m + w + g + raises
      BY <1>1, <1>2, <2>1, <2>3, <2>4
    <3> HIDE DEF w, g, w2, g2, m, m2
    <3>2. unfinished = m2 + w2 + g2 + raises /\ m2 <= QueueSize
      BY <2>1, <3>1
    <3> QED
      BY <1>1, <3>2 DEF w2, g2, m2
  <2> QED
    BY <1>1, <1>2, <1>3, <2>5 DEF ExporterInv, ExporterTypes, ExporterTypeOK
<1> DEFINE d == hand[Other(c)]
<1>5. \/ LaterHand = d /\ EarlierHand = Nothing
      \/ LaterHand = Nothing /\ EarlierHand = d
  BY <1>1 DEF LaterHand, EarlierHand, Consumers, Other
<1>6. \/ LaterHand' = Head(events) /\ EarlierHand' = d
      \/ d = Nothing /\ LaterHand' = Nothing /\ EarlierHand' = Head(events)
  BY <1>1, <1>3 DEF LaterHand, EarlierHand, Consumers, Other
<1>7. ASSUME NEW i \in Items \ unsure
      PROVE Settles(Tail(events), LaterHand', EarlierHand', i, shown, lastSynced, truth[i])
  <2> DEFINE tr == truth[i]
             e == Head(events)
             q == Tail(events)
             b == LaterHand
             a == EarlierHand
             b2 == LaterHand'
             a2 == EarlierHand'
  <2>1. Settles(events, b, a, i, shown, lastSynced, tr) /\ ~HandTells(Nothing, i)
    BY DEF ExporterInv, AllSettle, HandTells
  <2>2. (b = d /\ a = Nothing) \/ (b = Nothing /\ a = d)
    BY <1>5
  <2>3. (b2 = e /\ a2 = d) \/ (d = Nothing /\ b2 = Nothing /\ a2 = e)
    BY <1>6
  <2> HIDE DEF tr, d, b, a, b2, a2
  <2>4. Settles(events, Nothing, d, i, shown, lastSynced, tr)
    BY <2>1, <2>2, OneHand DEF Settles
  <2>5. Settles(q, e, d, i, shown, lastSynced, tr)
    BY <1>1, <2>4, TakenTells
  <2> HIDE DEF e, q
  <2>6. Settles(q, b2, a2, i, shown, lastSynced, tr)
    BY <2>1, <2>3, <2>5, OneHand DEF Settles
  <2> QED
    BY <2>6 DEF tr, q, b2, a2
<1> QED
  BY <1>1, <1>4, <1>7 DEF ExporterInv, AllSettle

(* A hand is emptied: one event less is in hand.                           *)
LEMMA OneLessInHand ==
  ASSUME NEW u \in Nat, NEW u2 \in Int, NEW m \in Nat, NEW n \in Nat, NEW n2 \in Nat,
         NEW w \in Nat, NEW w2 \in Nat,
         u = m + n + w, n2 + 1 = n, u2 + w + 1 = u + w2
  PROVE  u2 \in Nat /\ u2 = m + n2 + w2
OBVIOUS

LEMMA HandCounts ==
  ASSUME ExporterTypes, NEW c \in Consumers, hand[c] # Nothing, hand' = [hand EXCEPT ![c] = Nothing],
         unfinished' + raises + 1 = unfinished + raises', events' = events, raises' \in Nat,
         unfinished' \in Int
  PROVE  /\ unfinished' \in Nat
         /\ unfinished' = Len(events') + InHand("writer")' + InHand("git")' + raises'
         /\ hand' \in [Consumers -> EventType \cup {Nothing}] /\ DOMAIN hand' = Consumers
<1>1. /\ unfinished = Len(events) + InHand("writer") + InHand("git") + raises
      /\ hand \in [Consumers -> EventType \cup {Nothing}]
      /\ raises \in Nat /\ unfinished \in Nat /\ Len(events) \in Nat
  BY LenProperties DEF ExporterTypes, ExporterTypeOK
<1>2. /\ hand' \in [Consumers -> EventType \cup {Nothing}] /\ DOMAIN hand' = Consumers
      /\ hand'[c] = Nothing /\ hand'[Other(c)] = hand[Other(c)]
  BY <1>1 DEF Consumers, Other
<1>3. InHand(c) = 1 /\ InHand(c)' = 0 /\ InHand(Other(c))' = InHand(Other(c)) /\ InHand(Other(c)) \in {0, 1}
  BY <1>2 DEF InHand
<1>4. InHand("writer")' + InHand("git")' + 1 = InHand("writer") + InHand("git")
  BY <1>3 DEF Consumers, Other
<1>5. InHand("writer") \in Nat /\ InHand("git") \in Nat /\ InHand("writer")' \in Nat /\ InHand("git")' \in Nat
  BY DEF InHand
<1> QED
  <2> DEFINE n == InHand("writer") + InHand("git")
             n2 == InHand("writer")' + InHand("git")'
  <2>1. n \in Nat /\ n2 \in Nat /\ n2 + 1 = n
    BY <1>4, <1>5
  <2>2. unfinished = Len(events) + n + raises
    BY <1>1, <1>5
  <2> HIDE DEF n, n2
  <2>3. unfinished' \in Nat /\ unfinished' = Len(events) + n2 + raises'
    BY <1>1, <2>1, <2>2, OneLessInHand
  <2> USE DEF n2
  <2>4. unfinished' = Len(events) + InHand("writer")' + InHand("git")' + raises'
    BY <1>1, <1>5, <2>3
  <2> QED
    BY <1>2, <2>3, <2>4

LEMMA ProcessSettles ==
  ASSUME ExporterInv, NEW c \in Consumers, ProcessItem(c)
  PROVE  ExporterInv'
<1> DEFINE h == hand[c]
           d == hand[Other(c)]
<1>1. /\ h \in EventType /\ h # Nothing /\ ExporterTypes
      /\ shown' = Counted(h) /\ unfinished' = unfinished - 1
      /\ hand' = [hand EXCEPT ![c] = Nothing] /\ ahead' = "writer"
      /\ unsure' = IF Overtakes(c) THEN unsure \cup {h.item} ELSE unsure
      /\ UNCHANGED <<truth, unsynced, events, draining, lastSynced, raises, running, writer, closing>>
  BY DEF ExporterInv, ExporterTypes, ProcessItem
<1>2. /\ h.item \in Items /\ (h.state = "PARTIAL_EXITED" => ~h.full)
      /\ truth \in [Items -> {"new", "open", "ended"}] /\ shown \subseteq Items
      /\ raises \in Nat /\ unfinished \in Nat
  BY <1>1 DEF EventType, ExporterTypes, ExporterTypeOK
<1>3. shown' \subseteq Items /\ unsure' \subseteq Items /\ ahead' \in Consumers
  BY <1>1, <1>2 DEF Counted, ExporterTypes, ExporterTypeOK, Consumers
<1>4. ExporterTypes'
  <2>1. /\ unfinished' + raises + 1 = unfinished + raises'
        /\ raises' \in Nat /\ unfinished' \in Int
    BY <1>1, <1>2
  <2> QED
    BY <1>1, <1>3, <2>1, HandCounts DEF ExporterTypes, ExporterTypeOK
<1>5. ASSUME NEW i \in Items \ unsure'
      PROVE Settles(events, LaterHand', EarlierHand', i, shown', lastSynced, truth[i])
  <2>1. Settles(events, LaterHand, EarlierHand, i, shown, lastSynced, truth[i]) /\ (Overtakes(c) => h.item # i)
    BY <1>1, <1>5 DEF ExporterInv, AllSettle
  <2>2. HandsSettle(LaterHand', EarlierHand', i, shown', lastSynced, truth[i])
          <=> HandSettles(d, i, shown', lastSynced, truth[i])
    BY <1>1, <1>3, HandEmptied
  <2>3. CASE LastTells(events, i, truth[i])
    BY <2>3 DEF Settles
  <2>4. CASE NoneTells(events, i) /\ HandsSettle(LaterHand, EarlierHand, i, shown, lastSynced, truth[i])
    <3>1. CASE HandTells(h, i) /\ HandTells(d, i)
      <4>1. h.item = i /\ d.item = i /\ d # Nothing
        BY <3>1 DEF HandTells, Tells
      <4>2. ahead = c
        <5>1. ahead # Other(c)
          BY <2>1, <4>1 DEF Overtakes
        <5> QED
          BY <1>1, <5>1 DEF ExporterTypes, ExporterTypeOK, Consumers, Other
      <4>3. HandSettles(d, i, shown', lastSynced, truth[i])
        BY <2>4, <3>1, <4>2 DEF HandsSettle, HandSettles, LaterHand
      <4> QED
        BY <2>2, <2>4, <4>3 DEF Settles
    <3>2. CASE HandTells(h, i) /\ ~HandTells(d, i)
      <4>1. HandSettles(h, i, shown, lastSynced, truth[i])
        <5>1. (EarlierHand = h /\ LaterHand = d) \/ (EarlierHand = d /\ LaterHand = h)
          BY <1>1 DEF ExporterTypes, ExporterTypeOK, Consumers, Other, EarlierHand, LaterHand
        <5> HIDE DEF h, d
        <5> QED
          BY <2>4, <3>2, <5>1, OneHand
      <4>2. h.item = i /\ h.state # "PARTIAL_EXITED" /\ True(h, i, truth[i])
        BY <3>2, <4>1 DEF HandTells, Tells, HandSettles
      <4>3. truth[i] \in {"open", "ended"}
        BY <1>2, <4>2 DEF True
      <4>4. i \in shown' <=> ~Terminal(h)
        BY <1>1, <4>2 DEF Counted
      <4>5. HandSettles(d, i, shown', lastSynced, truth[i])
        BY <3>2, <4>2, <4>3, <4>4 DEF True, ShownRight, HandSettles
      <4> QED
        BY <2>2, <2>4, <4>5 DEF Settles
    <3>3. CASE ~HandTells(h, i)
      <4>1. HandSettles(d, i, shown, lastSynced, truth[i])
        BY <1>1, <1>3, <2>4, <3>3, HandEmptied
      <4>2. i \in shown' <=> i \in shown
        <5>1. CASE h.item # i
          BY <1>1, <5>1 DEF Counted
        <5>2. CASE h.state = "PARTIAL_EXITED"
          BY <1>1, <1>2, <5>2 DEF Counted, Terminal
        <5> QED
          BY <1>1, <3>3, <5>1, <5>2 DEF HandTells, Tells
      <4>3. HandSettles(d, i, shown', lastSynced, truth[i])
        BY <4>1, <4>2 DEF HandSettles, ShownRight
      <4> QED
        BY <2>2, <2>4, <4>3 DEF Settles
    <3> QED
      BY <3>1, <3>2, <3>3
  <2> QED
    BY <2>1, <2>3, <2>4 DEF Settles
<1> QED
  BY <1>1, <1>4, <1>5 DEF ExporterInv, AllSettle

LEMMA RaiseSettles ==
  ASSUME ExporterInv, NEW c \in Consumers, ProcessingRaises(c)
  PROVE  ExporterInv'
<1> DEFINE h == hand[c]
<1>1. /\ h \in EventType /\ h # Nothing /\ ExporterTypes
      /\ hand' = [hand EXCEPT ![c] = Nothing] /\ ahead' = "writer"
      /\ raises' = raises + 1 /\ shown' \in {shown, Counted(h)}
      /\ unsure' = unsure \cup {h.item}
      /\ UNCHANGED <<truth, unsynced, events, draining, unfinished, lastSynced, running, writer, closing>>
  BY DEF ExporterInv, ExporterTypes, ProcessingRaises
<1>2. /\ h.item \in Items /\ shown \subseteq Items /\ unsure \subseteq Items
      /\ raises \in Nat /\ unfinished \in Nat /\ ahead' \in Consumers
  BY <1>1 DEF EventType, ExporterTypes, ExporterTypeOK, Consumers
<1>3. Counted(h) \subseteq Items /\ \A i \in Items \ {h.item} : i \in Counted(h) <=> i \in shown
  BY <1>2 DEF Counted
<1>4. ExporterTypes'
  <2>1. /\ unfinished' + raises + 1 = unfinished + raises'
        /\ raises' \in Nat /\ unfinished' \in Int
    BY <1>1, <1>2
  <2> QED
    BY <1>1, <1>2, <1>3, <2>1, HandCounts DEF ExporterTypes, ExporterTypeOK
<1>5. ASSUME NEW i \in Items \ {h.item}
      PROVE HandsSettle(LaterHand', EarlierHand', i, shown, lastSynced, truth[i])
              <=> HandsSettle(LaterHand, EarlierHand, i, shown, lastSynced, truth[i])
  <2>1. ~HandTells(h, i)
    BY <1>5 DEF HandTells, Tells
  <2> QED
    BY <1>1, <1>2, <2>1, HandEmptied
<1>6. AllSettle'
  BY <1>1, <1>3, <1>5, OneUnsure
<1> QED
  BY <1>4, <1>6 DEF ExporterInv

LEMMA ExporterStep ==
  ASSUME ExporterInv, ExporterNext \/ UNCHANGED exporterVars
  PROVE  ExporterInv'
<1>1. CASE UNCHANGED <<truth, events, hand, ahead, unfinished, shown, lastSynced, unsure, raises>>
           /\ unsynced' = unsynced
           /\ draining' \in BOOLEAN /\ running' \in BOOLEAN /\ writer' \in {"alive", "ended"}
           /\ closing' \in {"trading", "flushing", "stopping", "down"}
  <2>1. ExporterTypes'
    BY <1>1 DEF ExporterInv, ExporterTypes, ExporterTypeOK, InHand
  <2>2. AllSettle'
    BY <1>1 DEF ExporterInv, AllSettle, LaterHand, EarlierHand
  <2> QED
    BY <2>1, <2>2 DEF ExporterInv
<1>2. UNCHANGED exporterVars => ExporterInv'
  BY <1>1 DEF exporterVars, queueVars, ExporterInv, ExporterTypes, ExporterTypeOK
<1>3. ThreadStep \/ Flushed => ExporterInv'
  BY <1>1 DEF ThreadStep, WriterEnds, GitFlushes, DrainEnds, Flushed, queueVars, ExporterInv, ExporterTypes, ExporterTypeOK
<1> QED
  BY <1>2, <1>3, ExportSettles, UntoldSettles, ShutdownSettles, SyncsSettle, TakeSettles,
     ProcessSettles, RaiseSettles DEF ExporterNext, ConsumerStep, TraderStep

(* With no event left to count, what is shown is all there is to say.      *)
LEMMA ExporterPromise == ExporterInv => ExporterTypeOK /\ StatusSettles
<1> SUFFICES ASSUME ExporterInv PROVE ExporterTypeOK /\ StatusSettles
  OBVIOUS
<1>1. ASSUME Quiet, NEW i \in Items \ unsure
      PROVE ShownRight(i, shown, lastSynced, truth[i])
  <2>1. events = <<>> /\ DOMAIN events = {}
    BY <1>1 DEF Quiet
  <2>2. LaterHand = Nothing /\ EarlierHand = Nothing
    <3>1. \A c \in Consumers : hand[c] \in Range(hand)
      BY DEF ExporterInv, ExporterTypes, Range
    <3>2. ahead \in Consumers /\ Other(ahead) \in Consumers
      BY DEF ExporterInv, ExporterTypes, ExporterTypeOK, Consumers, Other
    <3> QED
      BY <1>1, <3>1, <3>2 DEF Quiet, LaterHand, EarlierHand
  <2>3. Settles(events, LaterHand, EarlierHand, i, shown, lastSynced, truth[i])
    BY <1>1 DEF ExporterInv, AllSettle
  <2> QED
    BY <2>1, <2>2, <2>3 DEF Settles, LastTells, HandsSettle, HandSettles, HandTells
<1>2. shown \subseteq Items
  BY DEF ExporterInv, ExporterTypes, ExporterTypeOK
<1>3. StatusSettles
  BY <1>1, <1>2 DEF StatusSettles, ShownRight
<1> QED
  BY <1>3 DEF ExporterInv, ExporterTypes

-----------------------------------------------------------------------------
(* Exits of one position (LiveExits).                                      *)

ExitOrder == [qty : Nat, size : Nat, type : OrderTypes]
ExitFields == {"qty", "psbl", "pend", "foreign", "other", "order", "status"}

(* What is held back from sale waits in the position's order or in foreign *)
(* ones; a quarantined position has no order, and one beside whose back    *)
(* the router sells has none either.                                       *)
Sane(p) ==
  /\ ExitFields \subseteq DOMAIN p
  /\ p.qty \in Nat /\ p.psbl \in Nat /\ p.pend \in Nat /\ p.foreign \in Nat /\ p.other \in Nat
  /\ p.order \in ExitOrder
  /\ p.qty > 0 => p.pend <= p.order.qty + p.foreign
  /\ p.status = "EXIT_QUARANTINED" => p.order = NoOrder
  /\ p.other > 0 => p.order = NoOrder

Managing(p) == Sane(p) /\ p.status # "EXIT_QUARANTINED"

(* Sold as far as the broker had it to give and no foreign sale holds it.  *)
SoldAtMarket(p) ==
  /\ p.order.type \in {"NONE", "MARKET"}
  /\ p.qty <= p.order.qty + Less(p.qty, p.psbl) + p.foreign

LiveInv ==
  /\ Sane(live)
  /\ StopBeatsTarget

LEMMA LeastGreatest ==
  ASSUME NEW a \in Int, NEW b \in Int
  PROVE  /\ Greatest(a, b) = IF a >= b THEN a ELSE b
         /\ Least(a, b) = IF a <= b THEN a ELSE b
<1>1. Greatest(a, b) \in {a, b} /\ Greatest(a, b) >= a /\ Greatest(a, b) >= b
  <2>1. \E m \in {a, b} : \A y \in {a, b} : m >= y
    OBVIOUS
  <2> QED
    BY <2>1 DEF Greatest, Max
<1>2. Least(a, b) \in {a, b} /\ Least(a, b) <= a /\ Least(a, b) <= b
  <2>1. \E m \in {a, b} : \A y \in {a, b} : m <= y
    OBVIOUS
  <2> QED
    BY <2>1 DEF Least, Min
<1> QED
  BY <1>1, <1>2

LEMMA LessIsNat ==
  ASSUME NEW a \in Nat, NEW b \in Nat
  PROVE  Less(a, b) \in Nat /\ Less(a, b) = IF a >= b THEN a - b ELSE 0
BY LeastGreatest DEF Less

LEMMA NoOrderIs == NoOrder \in ExitOrder /\ NoOrder.qty = 0 /\ NoOrder.type = "NONE"
BY DEF NoOrder, ExitOrder, OrderTypes

(* What is released of what waits leaves the foreign sales' part at most.  *)
LEMMA Released ==
  ASSUME NEW pend \in Nat, NEW waiting \in Nat, NEW alien \in Nat
  PROVE  /\ Less(pend, waiting) \in Nat
         /\ pend <= waiting + alien => Less(pend, waiting) <= alien
         /\ pend <= alien => Less(pend, waiting) <= alien
<1>1. Less(pend, waiting) \in Nat /\ Less(pend, waiting) = IF pend >= waiting THEN pend - waiting ELSE 0
  BY LessIsNat
<1> QED
  BY <1>1

LEMMA SaneWithdrawn ==
  ASSUME NEW p, Sane(p), Waits(p)
  PROVE  LET w == Withdrawn(p)
         IN  /\ Managing(w) /\ w.qty = p.qty /\ w.psbl = p.psbl /\ w.other = p.other
             /\ w.foreign = p.foreign /\ w.order = NoOrder
             /\ w.qty > 0 => w.pend <= w.foreign
<1>1. /\ p.pend \in Nat /\ p.foreign \in Nat /\ p.order.qty \in Nat
      /\ p.status # "EXIT_QUARANTINED"
  BY DEF Sane, Waits, ExitOrder
<1> DEFINE w == Withdrawn(p)
<1>2. /\ ExitFields \subseteq DOMAIN w
      /\ w.qty = p.qty /\ w.psbl = p.psbl /\ w.other = p.other /\ w.foreign = p.foreign
      /\ w.pend = Less(p.pend, p.order.qty) /\ w.order = NoOrder
      /\ w.status # "EXIT_QUARANTINED"
  BY <1>1 DEF Sane, Withdrawn, ExitFields
<1> HIDE DEF w
<1>3. /\ Less(p.pend, p.order.qty) \in Nat
      /\ p.pend <= p.order.qty + p.foreign => Less(p.pend, p.order.qty) <= p.foreign
  BY <1>1, Released
<1>4. w.pend \in Nat /\ (w.qty > 0 => w.pend <= w.foreign)
  BY <1>2, <1>3 DEF Sane
<1>5. w.pend <= w.foreign => w.pend <= w.order.qty + w.foreign
  BY <1>1, <1>2, <1>4, NoOrderIs
<1>6. Managing(w)
  BY <1>2, <1>4, <1>5, NoOrderIs DEF Sane, Managing
<1> QED
  BY <1>2, <1>4, <1>6 DEF w

LEMMA SaneOverridden ==
  ASSUME NEW p, Managing(p)
  PROVE  LET q == Overridden(p)
         IN  /\ Managing(q) /\ q.qty = p.qty /\ q.psbl = p.psbl /\ q.other = p.other
             /\ q.foreign = p.foreign /\ q.order = NoOrder
             /\ q.qty > 0 => q.pend <= q.foreign
<1> DEFINE q == Overridden(p)
<1>1. CASE Waits(p)
  <2> DEFINE w == Withdrawn(p)
             left == Less(w.pend, p.order.qty)
  <2>1. /\ Managing(w) /\ w.qty = p.qty /\ w.psbl = p.psbl /\ w.other = p.other
        /\ w.foreign = p.foreign /\ w.order = NoOrder
        /\ w.qty > 0 => w.pend <= w.foreign
    BY <1>1, SaneWithdrawn DEF Managing
  <2>2. q = [w EXCEPT !.pend = left]
    BY <1>1 DEF Overridden
  <2>3. p.order.qty \in Nat
    BY DEF Managing, Sane, ExitOrder
  <2> HIDE DEF w, q
  <2>4. left \in Nat /\ (w.qty > 0 => left <= w.foreign)
    BY <2>1, <2>3, Released DEF Managing, Sane
  <2> HIDE DEF left
  <2>5. /\ q.qty = w.qty /\ q.psbl = w.psbl /\ q.other = w.other /\ q.foreign = w.foreign
        /\ q.order = w.order /\ q.status = w.status /\ q.pend = left /\ DOMAIN q = DOMAIN w
    BY <2>1, <2>2 DEF Managing, Sane, ExitFields
  <2>6. q.qty > 0 => q.pend <= q.order.qty + q.foreign
    BY <2>1, <2>4, <2>5, NoOrderIs DEF Managing, Sane
  <2>7. Managing(q)
    BY <2>1, <2>4, <2>5, <2>6 DEF Managing, Sane
  <2> QED
    BY <2>1, <2>4, <2>5, <2>7 DEF q
<1>2. CASE ~Waits(p)
  <2>1. q = p /\ p.order = NoOrder
    BY <1>2 DEF Overridden, Waits
  <2>2. p.qty > 0 => p.pend <= p.foreign
    BY <2>1, NoOrderIs DEF Managing, Sane
  <2> HIDE DEF q
  <2>3. /\ Managing(q) /\ q.qty = p.qty /\ q.psbl = p.psbl /\ q.other = p.other
        /\ q.foreign = p.foreign /\ q.order = NoOrder
        /\ q.qty > 0 => q.pend <= q.foreign
    BY <2>1, <2>2
  <2> QED
    BY <2>3 DEF q
<1> QED
  BY <1>1, <1>2

(* An order of n shares is placed; all that waits beside it is foreign.    *)
LEMMA SanePlaced ==
  ASSUME NEW p, Managing(p), p.order = NoOrder, p.other = 0, p.qty > 0,
         NEW n \in Nat, NEW reason \in {"1R", "2R", "3R", "stop", "trailing", "time", "close"},
         NEW status \in {"EXIT_PENDING", "EXIT_ORDER_SENT"}
  PROVE  LET r == Placed(p, n, reason, status)
         IN  /\ Managing(r) /\ r.qty = p.qty /\ r.psbl = p.psbl /\ r.other = p.other
             /\ r.foreign = p.foreign /\ r.order.qty = n /\ r.order.type = PolicyOf(reason)
<1> DEFINE r == Placed(p, n, reason, status)
           o == [qty |-> n, size |-> n, type |-> PolicyOf(reason)]
<1>1. PolicyOf(reason) \in {"LIMIT", "MARKET"}
  BY DEF PolicyOf
<1>2. o \in ExitOrder /\ o.qty = n /\ o.type = PolicyOf(reason)
  BY <1>1 DEF ExitOrder, OrderTypes
<1> HIDE DEF o
<1>3. /\ r.qty = p.qty /\ r.psbl = p.psbl /\ r.other = p.other /\ r.foreign = p.foreign
      /\ r.order = o /\ r.status = status /\ r.pend = p.pend + n /\ ExitFields \subseteq DOMAIN r
  BY DEF Placed, Managing, Sane, ExitFields, o
<1> HIDE DEF r
<1>4. p.pend \in Nat /\ p.foreign \in Nat /\ p.pend <= p.foreign
  BY NoOrderIs DEF Managing, Sane
<1>5. r.pend \in Nat /\ r.pend <= r.order.qty + r.foreign
  BY <1>2, <1>3, <1>4
<1>6. Managing(r)
  BY <1>2, <1>3, <1>5 DEF Managing, Sane
<1> QED
  BY <1>2, <1>3, <1>6 DEF r

(* What is read after a refusal is held, in whatever way the status goes.  *)
LEMMA SaneSynced ==
  ASSUME NEW p, Managing(p), p.order = NoOrder, p.qty > 0,
         NEW x, x.found \in Nat \cup {Unread}
  PROVE  LET r == Synced(p, x)
         IN  /\ Managing(r) /\ r.psbl = p.psbl /\ r.other = p.other /\ r.foreign = p.foreign
             /\ r.order = NoOrder
<1> DEFINE r == Synced(p, x)
<1>1. CASE x.found = Unread
  BY <1>1 DEF Synced
<1>2. CASE x.found # Unread
  <2>1. x.found \in Nat
    BY <1>2
  <2>2. /\ r.qty = x.found /\ r.psbl = p.psbl /\ r.other = p.other /\ r.foreign = p.foreign
        /\ r.order = p.order /\ r.pend = p.pend /\ ExitFields \subseteq DOMAIN r
        /\ r.status \in {p.status, "POSITION_CLOSED"}
    BY <1>2 DEF Synced, Managing, Sane, ExitFields
  <2> HIDE DEF r
  <2>3. Managing(r)
    BY <2>1, <2>2 DEF Managing, Sane
  <2> QED
    BY <2>2, <2>3 DEF r
<1> QED
  BY <1>1, <1>2

LEMMA SaneRefused ==
  ASSUME NEW p, Managing(p), p.order = NoOrder, p.qty > 0,
         NEW x, x.found \in Nat \cup {Unread}
  PROVE  Sane(Refused(p, x)) /\ Refused(p, x).other = p.other
<1> DEFINE f == [p EXCEPT !.fails = p.fails + 1, !.status = "EXIT_FAILED"]
           q == Synced(f, x)
           r == Refused(p, x)
<1>1. r = IF q.qty > 0 /\ p.fails >= 2 THEN [q EXCEPT !.status = "EXIT_QUARANTINED"] ELSE q
  BY DEF Refused
<1>2. /\ f.qty = p.qty /\ f.psbl = p.psbl /\ f.other = p.other /\ f.foreign = p.foreign
      /\ f.order = p.order /\ f.pend = p.pend /\ ExitFields \subseteq DOMAIN f
      /\ f.status = "EXIT_FAILED"
  BY DEF Managing, Sane, ExitFields
<1> HIDE DEF f
<1>3. Managing(f)
  BY <1>2 DEF Managing, Sane
<1>4. Managing(q) /\ q.other = p.other /\ q.order = NoOrder
  BY <1>2, <1>3, SaneSynced
<1> HIDE DEF q, r
<1>5. r = q \/ r = [q EXCEPT !.status = "EXIT_QUARANTINED"]
  BY <1>1
<1>6. Sane(r) /\ r.other = p.other
  BY <1>4, <1>5 DEF Managing, Sane, ExitFields
<1> QED
  BY <1>6 DEF r

(* What is to be sold, and that it is all the broker had to give but what  *)
(* foreign sales hold.                                                     *)
LEMMA ToSellIs ==
  ASSUME NEW p, Managing(p), p.pend <= p.foreign
  PROVE  ToSell(p) \in Nat /\ p.qty <= ToSell(p) + Less(p.qty, p.psbl) + p.foreign
<1> DEFINE qty == p.qty
           psbl == p.psbl
           pend == p.pend
           alien == p.foreign
<1>1. qty \in Nat /\ psbl \in Nat /\ pend \in Nat /\ alien \in Nat /\ pend <= alien
  BY DEF Managing, Sane
<1>2. ToSell(p) = Least(Less(qty, pend), psbl)
  BY DEF ToSell, Sellable
<1> HIDE DEF qty, psbl, pend, alien
<1>3. /\ Less(qty, pend) \in Nat /\ Less(qty, pend) = IF qty >= pend THEN qty - pend ELSE 0
      /\ Less(qty, psbl) \in Nat /\ Less(qty, psbl) = IF qty >= psbl THEN qty - psbl ELSE 0
  BY <1>1, LessIsNat
<1>4. ToSell(p) = IF Less(qty, pend) <= psbl THEN Less(qty, pend) ELSE psbl
  BY <1>1, <1>2, <1>3, LeastGreatest
<1> DEFINE a == Less(qty, pend)
           b == Less(qty, psbl)
           n == ToSell(p)
<1> HIDE DEF a, b, n
<1>5. n \in Nat /\ qty <= (n + b) + alien
  BY <1>1, <1>3, <1>4 DEF a, b, n
<1> QED
  BY <1>5 DEF n, b, qty, psbl, alien

(* A position is closed as far as it can be, whatever waited.              *)
LEMMA SaneClose ==
  ASSUME NEW p, Managing(p), NEW x, x.answer \in {"waits", "refused"},
         x.found \in Nat \cup {Unread},
         NEW reason \in {"stop", "trailing", "time", "close"}
  PROVE  /\ Sane(ClosePosition(p, reason, x))
         /\ ClosePosition(p, reason, x).other = p.other
         /\ p.qty > 0 /\ p.other = 0 /\ x.answer = "waits" => SoldAtMarket(ClosePosition(p, reason, x))
<1> DEFINE q == Overridden(p)
           n == ToSell(q)
           r == ClosePosition(p, reason, x)
<1>1. /\ Managing(q) /\ q.qty = p.qty /\ q.psbl = p.psbl /\ q.other = p.other
      /\ q.foreign = p.foreign /\ q.order = NoOrder
      /\ q.qty > 0 => q.pend <= q.foreign
  BY SaneOverridden
<1>2. r = SoldOff(q, reason, x)
  BY DEF ClosePosition
<1> HIDE DEF q
<1>3. q.qty > 0 => n \in Nat /\ q.qty <= n + Less(q.qty, q.psbl) + q.foreign
  BY <1>1, ToSellIs
<1>4. q.qty = 0 => n = 0
  <2>1. ASSUME q.qty = 0 PROVE n = 0
    <3> DEFINE pend == q.pend
    <3>0. pend \in Nat /\ q.psbl \in Nat /\ Sellable(q) = Less(0, pend)
      BY <1>1, <2>1 DEF Sellable, Managing, Sane
    <3> HIDE DEF pend
    <3>1. Sellable(q) = 0
      BY <3>0, LessIsNat
    <3> QED
      BY <3>0, <3>1, LeastGreatest DEF ToSell, n
  <2> QED
    BY <2>1
<1> HIDE DEF n
<1>5. CASE q.other > 0
  <2>1. r = q
    BY <1>2, <1>5 DEF SoldOff
  <2> HIDE DEF r
  <2> QED
    BY <1>1, <1>5, <2>1 DEF Managing, r
<1>6. CASE ~(q.other > 0) /\ n = 0
  <2>1. r = [q EXCEPT !.status = IF q.qty = 0 THEN "POSITION_CLOSED" ELSE q.status]
    BY <1>2, <1>6 DEF SoldOff, n
  <2> HIDE DEF r
  <2>2. /\ r.qty = q.qty /\ r.psbl = q.psbl /\ r.other = q.other /\ r.foreign = q.foreign
        /\ r.order = q.order /\ r.pend = q.pend /\ ExitFields \subseteq DOMAIN r
        /\ r.status # "EXIT_QUARANTINED"
    BY <1>1, <2>1 DEF Managing, Sane, ExitFields
  <2>3. Sane(r) /\ r.other = p.other
    BY <1>1, <2>2 DEF Managing, Sane
  <2>4. r.qty > 0 => SoldAtMarket(r)
    BY <1>1, <1>3, <1>6, <2>2, NoOrderIs DEF SoldAtMarket
  <2> QED
    BY <1>1, <2>2, <2>3, <2>4 DEF r
<1>7. CASE ~(q.other > 0) /\ n # 0 /\ x.answer = "waits"
  <2>1. r = Placed(q, n, reason, "EXIT_ORDER_SENT")
    BY <1>2, <1>7 DEF SoldOff, n
  <2>2. q.qty > 0 /\ n \in Nat /\ q.other = 0
    BY <1>1, <1>3, <1>4, <1>7 DEF Managing, Sane
  <2> HIDE DEF r
  <2>3. /\ Managing(r) /\ r.qty = q.qty /\ r.psbl = q.psbl /\ r.other = q.other
        /\ r.foreign = q.foreign /\ r.order.qty = n /\ r.order.type = "MARKET"
    <3>1. PolicyOf(reason) = "MARKET"
      BY DEF PolicyOf
    <3> QED
      BY <1>1, <2>1, <2>2, <3>1, SanePlaced
  <2>4. SoldAtMarket(r)
    BY <1>3, <2>2, <2>3 DEF SoldAtMarket
  <2> QED
    BY <1>1, <2>3, <2>4 DEF Managing, r
<1>8. CASE ~(q.other > 0) /\ n # 0 /\ x.answer = "refused"
  <2>1. r = Refused(q, x)
    BY <1>2, <1>8 DEF SoldOff, n
  <2>2. q.qty > 0
    BY <1>1, <1>4, <1>8 DEF Managing, Sane
  <2> HIDE DEF r
  <2>3. Sane(r) /\ r.other = q.other
    BY <1>1, <2>1, <2>2, SaneRefused
  <2> QED
    BY <1>1, <1>8, <2>3 DEF r
<1> QED
  BY <1>5, <1>6, <1>7, <1>8

LEMMA SanePartial ==
  ASSUME NEW p, Managing(p), NEW x, x.answer \in {"waits", "refused"},
         x.found \in Nat \cup {Unread},
         NEW percent \in Nat, NEW reason \in {"1R", "2R", "3R"}
  PROVE  Managing(PartialExit(p, percent, reason, x))
<1> DEFINE m == Greatest(1, (p.qty * percent) \div 100)
           n == Least(m, Sellable(p))
           r == PartialExit(p, percent, reason, x)
<1>1. p.qty \in Nat /\ p.pend \in Nat
  BY DEF Managing, Sane
<1>2. n \in Nat /\ (p.qty = 0 => n = 0)
  <2>1. p.qty * percent \in Nat
    BY <1>1
  <2>2. (p.qty * percent) \div 100 \in Int
    BY <2>1
  <2>3. m \in Int /\ m >= 1
    BY <2>2, LeastGreatest
  <2>4. Sellable(p) \in Nat /\ (p.qty = 0 => Sellable(p) = 0)
    <3>1. Less(p.qty, p.pend) \in Nat /\ Less(p.qty, p.pend) = IF p.qty >= p.pend THEN p.qty - p.pend ELSE 0
      BY <1>1, LessIsNat
    <3> QED
      BY <1>1, <3>1 DEF Sellable
  <2> HIDE DEF m
  <2>5. n = IF m <= Sellable(p) THEN m ELSE Sellable(p)
    BY <2>3, <2>4, LeastGreatest
  <2> QED
    BY <2>3, <2>4, <2>5
<1>3. CASE Waits(p) \/ n = 0
  BY <1>3 DEF PartialExit
<1>4. CASE ~(Waits(p) \/ n = 0)
  <2>1. p.order = NoOrder /\ p.qty > 0
    BY <1>1, <1>2, <1>4 DEF Waits
  <2>2. CASE x.answer = "refused" \/ p.other > 0
    <3>1. r = Synced(p, x)
      BY <1>4, <2>2 DEF PartialExit
    <3> QED
      BY <2>1, <3>1, SaneSynced
  <2>3. CASE ~(x.answer = "refused" \/ p.other > 0)
    <3>1. r = Placed(p, n, reason, "EXIT_PENDING")
      BY <1>4, <2>3 DEF PartialExit
    <3>2. p.other = 0
      BY <2>3 DEF Managing, Sane
    <3> HIDE DEF n, r
    <3>3. Managing(r)
      BY <1>2, <2>1, <3>1, <3>2, SanePlaced
    <3> QED
      BY <3>3 DEF r
  <2> QED
    BY <2>2, <2>3
<1> QED
  BY <1>3, <1>4

LEMMA SaneStays ==
  ASSUME NEW p, Managing(p), NEW q,
         q.qty = p.qty, q.psbl = p.psbl, q.pend = p.pend, q.foreign = p.foreign,
         q.other = p.other, q.order = p.order, q.status # "EXIT_QUARANTINED",
         ExitFields \subseteq DOMAIN q
  PROVE  Managing(q)
BY DEF Managing, Sane

(* Targets and trailing stop leave the position to be managed.             *)
LEMMA SaneTargets ==
  ASSUME NEW p, Managing(p), NEW x, x.answer \in {"waits", "refused"},
         x.found \in Nat \cup {Unread}
  PROVE  /\ Managing(Take1(p, x)) /\ Managing(Take2(p, x))
         /\ Managing(Take3(p, x)) /\ Managing(Trailed(p, x))
<1>0. Share(p) \in Nat /\ p.status # "EXIT_QUARANTINED"
  BY DEF Share, Managing
<1>1. Managing(Take1(p, x))
  <2> DEFINE q == PartialExit(p, Share(p), "1R", x)
  <2>1. Managing(q)
    BY <1>0, SanePartial
  <2>2. Take1(p, x) = p \/ Take1(p, x) = [q EXCEPT !.took1 = TRUE, !.stop = Greatest(q.stop, p.entry)]
    BY DEF Take1
  <2> HIDE DEF q
  <2> QED
    BY <2>1, <2>2, SaneStays DEF Managing, Sane, ExitFields
<1>2. Managing(Take2(p, x))
  <2> DEFINE q == PartialExit(p, Share(p), "2R", x)
  <2>1. Managing(q)
    BY <1>0, SanePartial
  <2>2. Take2(p, x) = p \/ Take2(p, x) = [q EXCEPT !.took2 = TRUE]
    BY DEF Take2
  <2> HIDE DEF q
  <2> QED
    BY <2>1, <2>2, SaneStays DEF Managing, Sane, ExitFields
<1>3. Managing(Take3(p, x))
  <2> DEFINE q == PartialExit(p, Share(p), "3R", x)
  <2>1. Managing(q)
    BY <1>0, SanePartial
  <2>2. Take3(p, x) = p \/ Take3(p, x) = [q EXCEPT !.took3 = TRUE]
    BY DEF Take3
  <2> HIDE DEF q
  <2> QED
    BY <2>1, <2>2, SaneStays DEF Managing, Sane, ExitFields
<1>4. Managing(Trailed(p, x))
  <2>1. Trailed(p, x) = p \/ \E tr : Trailed(p, x) = [p EXCEPT !.trail = tr]
    BY Zenon DEF Trailed
  <2> QED
    BY <1>0, <2>1, SaneStays DEF Managing, Sane, ExitFields
<1> QED
  BY <1>1, <1>2, <1>3, <1>4

LEMMA SaneTimeStop ==
  ASSUME NEW p, Managing(p), NEW x, x.answer \in {"waits", "refused"},
         x.found \in Nat \cup {Unread}
  PROVE  Sane(LiveTimeStop(p, x))
<1> DEFINE q == IF p.hz = "INTRADAY" THEN LiveAged(p, x) ELSE p
           w == [q EXCEPT !.status = "TIME_STOP_TRIGGERED"]
<1>1. Managing(q)
  <2>1. q = p \/ q = [p EXCEPT !.status = "STALE_POSITION"]
    BY DEF LiveAged
  <2> HIDE DEF q
  <2> QED
    BY <2>1, SaneStays DEF Managing, Sane, ExitFields
<1>2. LiveTimeStop(p, x) \in {p, q, ClosePosition(w, "time", x)}
  BY DEF LiveTimeStop
<1> HIDE DEF q
<1>3. Managing(w)
  BY <1>1, SaneStays DEF Managing, Sane, ExitFields
<1> HIDE DEF w
<1>4. Sane(ClosePosition(w, "time", x))
  BY <1>3, SaneClose
<1> QED
  BY <1>1, <1>2, <1>4 DEF Managing

(* What a tick does; at or below the stop, in the session and unless it is *)
(* refused, all that can be is sold at the market.                         *)
LEMMA SaneManaged ==
  ASSUME NEW p, Sane(p), NEW x, x.answer \in {"waits", "refused"},
         x.found \in Nat \cup {Unread}
  PROVE  /\ Sane(LiveManaged(p, x))
         /\ Open(p) /\ x.price <= p.stop /\ x.at \in 540 .. 929 /\ x.answer = "waits"
            /\ LiveManaged(p, x).other = 0
              => SoldAtMarket(LiveManaged(p, x))
         /\ ~Open(p) => LiveManaged(p, x) = p
<1> DEFINE v == [p EXCEPT !.high = Greatest(@, x.price)]
           t == Trailed(Take3(Take2(Take1(v, x), x), x), x)
           r == LiveManaged(p, x)
<1>1. CASE ~Open(p)
  BY <1>1 DEF LiveManaged
<1>2. CASE Open(p)
  <2>1. Managing(v) /\ v.qty > 0 /\ v.stop = p.stop
    <3>1. /\ v.qty = p.qty /\ v.psbl = p.psbl /\ v.pend = p.pend /\ v.foreign = p.foreign
          /\ v.other = p.other /\ v.order = p.order /\ v.status = p.status /\ v.stop = p.stop
          /\ DOMAIN v = DOMAIN p
      BY DEF Sane, ExitFields
    <3> HIDE DEF v
    <3>2. p.status # "EXIT_QUARANTINED" /\ p.qty > 0 /\ Managing(p)
      BY <1>2 DEF Open, Managing
    <3> QED
      BY <3>1, <3>2, SaneStays DEF Sane
  <2>2. r \in {v, t, ClosePosition(v, "close", x), ClosePosition(v, "stop", x),
               ClosePosition(t, "trailing", x), LiveTimeStop(t, x)}
    BY <1>2 DEF LiveManaged
  <2>3. x.price <= v.stop /\ SellAllowed(x)
          => r \in {ClosePosition(v, "close", x), ClosePosition(v, "stop", x)}
    BY <1>2 DEF LiveManaged
  <2> HIDE DEF v, r
  <2>4. Managing(t)
    <3> DEFINE a == Take1(v, x)
               b == Take2(a, x)
               c == Take3(b, x)
    <3>1. Managing(a)
      BY <2>1, SaneTargets
    <3> HIDE DEF a
    <3>2. Managing(b)
      BY <3>1, SaneTargets
    <3> HIDE DEF b
    <3>3. Managing(c)
      BY <3>2, SaneTargets
    <3> HIDE DEF c
    <3>4. Managing(Trailed(c, x))
      BY <3>3, SaneTargets
    <3> QED
      BY <3>4 DEF a, b, c
  <2> HIDE DEF t
  <2>5. /\ Sane(ClosePosition(v, "close", x)) /\ Sane(ClosePosition(v, "stop", x))
        /\ Sane(ClosePosition(t, "trailing", x)) /\ Sane(LiveTimeStop(t, x))
        /\ ClosePosition(v, "close", x).other = v.other /\ ClosePosition(v, "stop", x).other = v.other
        /\ x.answer = "waits" /\ v.other = 0 => /\ SoldAtMarket(ClosePosition(v, "close", x))
                                                /\ SoldAtMarket(ClosePosition(v, "stop", x))
    BY <2>1, <2>4, SaneClose, SaneTimeStop
  <2>6. Sane(r)
    BY <2>1, <2>2, <2>4, <2>5 DEF Managing
  <2>7. x.at \in 540 .. 929 => SellAllowed(x)
    BY DEF SellAllowed
  <2>8. x.price <= p.stop /\ x.at \in 540 .. 929 /\ x.answer = "waits" /\ r.other = 0 => SoldAtMarket(r)
    BY <2>1, <2>3, <2>5, <2>7
  <2> QED
    BY <1>2, <2>6, <2>8 DEF r
<1> QED
  BY <1>1, <1>2

(* A fill of the position's own order or of another sale, of which it      *)
(* knows nothing but the shares that are gone.                             *)
LEMMA SaneFill ==
  ASSUME NEW p, Sane(p), NEW n \in Nat, NEW whole \in BOOLEAN,
         \/ p.status # "EXIT_QUARANTINED" /\ n <= p.order.qty /\ (whole <=> n = p.order.qty)
         \/ Open(p) /\ p.order = NoOrder
  PROVE  /\ Sane(LiveFill(p, n, whole))
         /\ p.order = NoOrder => LiveFill(p, n, whole).order = NoOrder
         /\ LiveFill(p, n, whole).other = p.other
<1> DEFINE r == LiveFill(p, n, whole)
           left == [qty |-> Less(p.order.qty, n), size |-> p.order.size, type |-> p.order.type]
<1>1. /\ p.qty \in Nat /\ p.pend \in Nat /\ p.foreign \in Nat
      /\ p.order \in ExitOrder /\ p.order.qty \in Nat
      /\ p.status # "EXIT_QUARANTINED"
  BY DEF Sane, ExitOrder, Open
<1>2. /\ ExitFields \subseteq DOMAIN r
      /\ r.psbl = p.psbl /\ r.foreign = p.foreign /\ r.other = p.other
      /\ r.qty = Less(p.qty, n) /\ r.pend = Less(p.pend, n)
      /\ r.order = IF whole \/ p.qty <= n THEN NoOrder ELSE [p.order EXCEPT !.qty = Less(p.order.qty, n)]
      /\ r.status = IF p.qty <= n THEN "POSITION_CLOSED" ELSE IF whole THEN p.status ELSE "PARTIAL_EXITED"
  BY DEF LiveFill, Sane, ExitFields
<1>3. [p.order EXCEPT !.qty = Less(p.order.qty, n)] = left
  BY <1>1 DEF ExitOrder
<1> HIDE DEF r
<1>4. /\ r.qty \in Nat /\ r.qty = IF p.qty >= n THEN p.qty - n ELSE 0
      /\ r.pend \in Nat /\ r.pend = IF p.pend >= n THEN p.pend - n ELSE 0
      /\ Less(p.order.qty, n) \in Nat
      /\ Less(p.order.qty, n) = IF p.order.qty >= n THEN p.order.qty - n ELSE 0
  BY <1>1, <1>2, LessIsNat
<1>5. left \in ExitOrder /\ left.qty = Less(p.order.qty, n)
  BY <1>1, <1>4 DEF ExitOrder
<1>6. p.order = NoOrder => left = NoOrder
  <2>1. ASSUME p.order = NoOrder PROVE left = NoOrder
    <3>1. Less(p.order.qty, n) = 0
      BY <1>4, <2>1, NoOrderIs
    <3> QED
      BY <2>1, <3>1 DEF NoOrder
  <2> QED
    BY <2>1
<1> HIDE DEF left
<1>7. /\ r.order \in ExitOrder /\ r.status # "EXIT_QUARANTINED"
      /\ p.order = NoOrder => r.order = NoOrder
  BY <1>1, <1>2, <1>3, <1>5, <1>6, NoOrderIs
<1>8. ASSUME r.qty > 0 PROVE r.pend <= r.order.qty + r.foreign
  <2>1. p.qty > n /\ p.qty > 0
    BY <1>1, <1>4, <1>8
  <2>2. p.pend <= p.order.qty + p.foreign
    BY <2>1 DEF Sane
  <2>3. r.order = IF whole THEN NoOrder ELSE left
    BY <1>1, <1>2, <1>3, <2>1
  <2>4. CASE p.order = NoOrder
    <3>1. r.order.qty = 0 /\ p.pend <= p.foreign
      BY <1>1, <1>7, <2>2, <2>4, NoOrderIs
    <3> QED
      BY <1>1, <1>2, <1>4, <3>1
  <2>5. CASE p.order # NoOrder
    <3>1. n <= p.order.qty /\ (whole <=> n = p.order.qty)
      BY <2>5
    <3>2. r.order.qty = p.order.qty - n
      BY <1>1, <1>4, <1>5, <2>3, <3>1, NoOrderIs
    <3> QED
      BY <1>1, <1>2, <1>4, <2>2, <3>1, <3>2
  <2> QED
    BY <2>4, <2>5
<1>9. Sane(r)
  BY <1>2, <1>4, <1>7, <1>8 DEF Sane
<1> QED
  BY <1>2, <1>7, <1>9 DEF r

LEMMA LiveInitInv == LiveInit => LiveInv
<1> SUFFICES ASSUME LiveInit PROVE LiveInv
  OBVIOUS
<1> DEFINE p == live
<1>1. p \in LiveEntries /\ lastTick = NoTick
  BY DEF LiveInit
<1>2. /\ ExitFields \subseteq DOMAIN p
      /\ p.qty \in Nat /\ p.psbl \in Nat /\ p.pend \in Nat /\ p.foreign \in Nat /\ p.other \in Nat
      /\ p.status = "ACTIVE" /\ p.order \in ExitOrder
      /\ p.pend <= p.order.qty + p.foreign
      /\ p.other > 0 => p.order = NoOrder
  BY <1>1, LiveAssumption DEF ExitFields, ExitOrder, NoOrder
<1> HIDE DEF p
<1>3. Sane(p)
  BY <1>2 DEF Sane
<1> QED
  BY <1>1, <1>3 DEF LiveInv, StopBeatsTarget, p

LEMMA LiveStep ==
  ASSUME LiveInv, LiveNext \/ UNCHANGED liveVars
  PROVE  LiveInv'
<1>0. Sane(live)
  BY DEF LiveInv
<1>1. CASE UNCHANGED liveVars
  BY <1>1 DEF liveVars, LiveInv, StopBeatsTarget
<1>2. ASSUME NEW q \in Ticks, NEW i \in tickNo + 1 .. Len(LiveMinutes),
             NEW answer \in {"waits", "refused"}, NEW found \in Found \cup {Unread},
             Tick(i, TickAt(q, i, answer, found))
      PROVE  LiveInv'
  <2> DEFINE x == TickAt(q, i, answer, found)
  <2>1. /\ live' = LiveManaged(live, x)
        /\ lastTick' = IF x.answer = "refused" THEN NoTick
                       ELSE [price |-> x.price, at |-> x.at, stop |-> live.stop]
    BY <1>2 DEF Tick
  <2>2. x.answer \in {"waits", "refused"} /\ x.found \in Nat \cup {Unread}
    BY LiveAssumption DEF TickAt
  <2> HIDE DEF x
  <2>3. /\ Sane(live')
        /\ Open(live) /\ x.price <= live.stop /\ x.at \in 540 .. 929 /\ x.answer = "waits"
           /\ live'.other = 0
             => SoldAtMarket(live')
        /\ ~Open(live) => live' = live
    BY <1>0, <2>1, <2>2, SaneManaged
  <2>4. StopBeatsTarget'
    <3>1. CASE x.answer = "refused"
      BY <2>1, <3>1 DEF StopBeatsTarget
    <3>2. CASE x.answer = "waits"
      BY <2>1, <2>3, <3>2 DEF StopBeatsTarget, SoldAtMarket
    <3> QED
      BY <2>2, <3>1, <3>2
  <2> QED
    BY <2>3, <2>4 DEF LiveInv
<1>3. ASSUME NEW n \in 1 .. live.order.qty, ExitFills(n) PROVE LiveInv'
  <2>1. Waits(live) /\ n <= live.order.qty /\ n \in Nat /\ live' = LiveFill(live, n, n = live.order.qty)
        /\ lastTick' = NoTick
    BY <1>0, <1>3 DEF ExitFills, Sane, ExitOrder
  <2> DEFINE whole == n = live.order.qty
  <2>2. whole \in BOOLEAN /\ (whole <=> n = live.order.qty) /\ live' = LiveFill(live, n, whole)
    BY <2>1
  <2> HIDE DEF whole
  <2>3. live.status # "EXIT_QUARANTINED"
    BY <1>0, <2>1 DEF Waits, Sane
  <2>4. Sane(live')
    BY <1>0, <2>1, <2>2, <2>3, SaneFill
  <2> QED
    BY <2>1, <2>4 DEF LiveInv, StopBeatsTarget
<1>4. CASE ExitWithdrawn
  <2>1. Sane(live')
    BY <1>0, <1>4, SaneWithdrawn DEF ExitWithdrawn, Managing
  <2> QED
    BY <1>4, <2>1 DEF ExitWithdrawn, LiveInv, StopBeatsTarget
<1>5. ASSUME NEW accepted \in BOOLEAN, ExitTimesOut(accepted) PROVE LiveInv'
  <2> DEFINE w == Withdrawn(live)
             n == live.order.size
             o == IF accepted THEN [qty |-> n, size |-> n, type |-> "AGGRESSIVE_LIMIT"] ELSE NoOrder
  <2>1. Waits(live) /\ live' = [w EXCEPT !.order = o] /\ lastTick' = NoTick
    BY <1>5 DEF ExitTimesOut
  <2>2. /\ Managing(w) /\ w.other = live.other
        /\ w.qty > 0 => w.pend <= w.foreign
    BY <1>0, <2>1, SaneWithdrawn
  <2>3. o \in ExitOrder
    <3>1. n \in Nat
      BY <1>0 DEF Sane, ExitOrder
    <3> HIDE DEF n
    <3> QED
      BY <3>1, NoOrderIs DEF ExitOrder, OrderTypes
  <2>4. live.other = 0
    BY <1>0, <2>1 DEF Sane, Waits
  <2> HIDE DEF w, n, o
  <2>5. o.qty \in Nat
    BY <2>3 DEF ExitOrder
  <2> DEFINE r == live'
  <2>6. /\ r.qty = w.qty /\ r.psbl = w.psbl /\ r.other = 0 /\ r.foreign = w.foreign
        /\ r.order = o /\ r.pend = w.pend /\ r.status = w.status /\ DOMAIN r = DOMAIN w
    BY <2>1, <2>2, <2>4 DEF Managing, Sane, ExitFields
  <2>7. r.qty > 0 => r.pend <= r.order.qty + r.foreign
    BY <2>2, <2>5, <2>6 DEF Managing, Sane
  <2> HIDE DEF r
  <2>8. Sane(r)
    BY <2>2, <2>3, <2>6, <2>7 DEF Managing, Sane
  <2> QED
    BY <2>1, <2>8 DEF LiveInv, StopBeatsTarget, r
<1>6. ASSUME NEW n \in 1 .. live.other, OtherFills(n) PROVE LiveInv'
  <2> DEFINE whole == n = live.other
             f == LiveFill(live, n, whole)
             r == live'
  <2>1. Open(live) /\ n \in 1 .. live.other /\ r = [f EXCEPT !.other = f.other - n] /\ lastTick' = NoTick
    BY <1>6 DEF OtherFills
  <2>2. live.other \in Nat /\ n \in Nat /\ n <= live.other /\ whole \in BOOLEAN /\ live.order = NoOrder
    BY <1>0, <2>1 DEF Sane
  <2> HIDE DEF whole
  <2>3. Sane(f) /\ f.order = NoOrder /\ f.other = live.other
    BY <1>0, <2>1, <2>2, SaneFill
  <2> HIDE DEF f, r
  <2>4. /\ r.qty = f.qty /\ r.psbl = f.psbl /\ r.other = f.other - n /\ r.foreign = f.foreign
        /\ r.order = f.order /\ r.pend = f.pend /\ r.status = f.status /\ DOMAIN r = DOMAIN f
    BY <2>1, <2>3 DEF Sane, ExitFields
  <2>5. r.other \in Nat
    BY <2>2, <2>3, <2>4
  <2>6. Sane(r)
    BY <2>3, <2>4, <2>5 DEF Sane
  <2> QED
    BY <2>1, <2>6 DEF LiveInv, StopBeatsTarget, r
<1>7. CASE OtherEnds
  <2> DEFINE r == live'
  <2>1. r = [live EXCEPT !.other = 0] /\ lastTick' = NoTick
    BY <1>7 DEF OtherEnds
  <2>2. /\ r.qty = live.qty /\ r.psbl = live.psbl /\ r.other = 0 /\ r.foreign = live.foreign
        /\ r.order = live.order /\ r.pend = live.pend /\ r.status = live.status /\ DOMAIN r = DOMAIN live
    BY <1>0, <2>1 DEF Sane, ExitFields
  <2> HIDE DEF r
  <2>3. Sane(r)
    BY <1>0, <2>2 DEF Sane
  <2> QED
    BY <2>1, <2>3 DEF LiveInv, StopBeatsTarget, r
<1> QED
  BY <1>1, <1>2, <1>3, <1>4, <1>5, <1>6, <1>7 DEF LiveNext

LEMMA LivePromise == LiveInv => StopBeatsTarget /\ NothingHeldBack
BY DEF LiveInv, Sane, NothingHeldBack, Open

-----------------------------------------------------------------------------
(* The stocks looked at (MarketStore).                                     *)

StockType == [state : {"INACTIVE", "WATCH", "ACTIVE", "SIGNAL"}, since : Nat, promoted : Nat,
              interest : Evaluations]

(* A stock in view was promoted when it last deserved it, r; a watched one *)
(* has been in view since, or has had its time.                            *)
InPlace(x, r, now) ==
  /\ x.since = Never <=> x.state = "INACTIVE"
  /\ x.promoted = r
  /\ x.state # "INACTIVE" => x.promoted <= now
  /\ x.state = "WATCH" => x.since = x.promoted \/ now > x.promoted + Ttl

(* The positions of the list the batch has passed since index i.           *)
Passed(i, at) == IF i < at THEN at - 1 - i ELSE Len(Codes) + at - 1 - i

StoreInv ==
  /\ stocks \in [CodeSet -> StockType] /\ raisedAt \in [CodeSet -> Nat]
  /\ idle \in [CodeSet -> Nat] /\ rolling \in 0 .. Len(Codes) - 1
  /\ storeClock \in 0 .. StoreEnd /\ scan \in {"start", "radar", "quotes", "signals"}
  /\ \A c \in CodeSet : InPlace(stocks[c], raisedAt[c], storeClock)
  /\ \A i \in 0 .. Len(Codes) - 1 : idle[Codes[i + 1]] * BatchSize <= Passed(i, rolling)

LEMMA StoreInitInv == StoreInit => StoreInv
<1> SUFFICES ASSUME StoreInit PROVE StoreInv
  OBVIOUS
<1>1. Never \in Nat /\ 0 \in Nat /\ 0 \in 0 .. StoreEnd /\ 0 \in 0 .. Len(Codes) - 1
  BY StoreAssumption DEF Never
<1>2. stocks \in [CodeSet -> StockType] /\ \A c \in CodeSet : InPlace(stocks[c], raisedAt[c], storeClock)
  BY <1>1 DEF StoreInit, StockType, Evaluations, InPlace
<1>3. ASSUME NEW i \in 0 .. Len(Codes) - 1 PROVE idle[Codes[i + 1]] * BatchSize <= Passed(i, rolling)
  <2>1. Codes[i + 1] \in CodeSet
    BY StoreAssumption DEF CodeSet
  <2>2. idle[Codes[i + 1]] = 0 /\ rolling = 0
    BY <2>1 DEF StoreInit
  <2> QED
    BY <2>2, StoreAssumption DEF Passed
<1> QED
  BY <1>1, <1>2, <1>3 DEF StoreInit, StoreInv

LEMMA MovedInPlace ==
  ASSUME storeClock \in 0 .. StoreEnd, NEW x \in StockType,
         NEW new \in {"INACTIVE", "WATCH", "ACTIVE", "SIGNAL"},
         x.since = Never <=> x.state = "INACTIVE"
  PROVE  LET y == MovedTo(x, new) IN
         /\ y \in StockType /\ y.state = new /\ y.promoted = x.promoted
         /\ y.since = Never <=> new = "INACTIVE"
         /\ new # "INACTIVE" => y.since = IF x.state = "INACTIVE" THEN storeClock ELSE x.since
<1> DEFINE s == IF new = "INACTIVE" THEN Never ELSE IF x.since = Never THEN storeClock ELSE x.since
           y == MovedTo(x, new)
<1>1. y = [x EXCEPT !.state = new, !.since = s]
  BY DEF MovedTo
<1>2. Never \in Nat /\ storeClock \in Nat /\ storeClock # Never /\ x.since \in Nat
  BY StoreAssumption DEF Never, StockType
<1>3. s \in Nat /\ (s = Never <=> new = "INACTIVE")
      /\ (new # "INACTIVE" => s = IF x.state = "INACTIVE" THEN storeClock ELSE x.since)
  BY <1>2
<1> HIDE DEF s, y
<1>4. y \in StockType /\ y.state = new /\ y.promoted = x.promoted /\ y.since = s
  BY <1>1, <1>3 DEF StockType
<1> QED
  BY <1>3, <1>4 DEF y

(* What an evaluation makes of a stock in place.                           *)
Deserves(x, e) == e = "strong" \/ (e = "weak" /\ x.state = "INACTIVE")

LEMMA EvaluatedInPlace ==
  ASSUME storeClock \in 0 .. StoreEnd, NEW x \in StockType, NEW r \in Nat,
         InPlace(x, r, storeClock), NEW e \in Evaluations
  PROVE  LET y == Evaluated(x, e) IN
         /\ y \in StockType /\ InPlace(y, IF Deserves(x, e) THEN storeClock ELSE r, storeClock)
         /\ Rank(y.state) < Rank(x.state) => storeClock > r + Ttl
         /\ x.state # "INACTIVE" => y.promoted <= storeClock
<1> DEFINE z == [x EXCEPT !.interest = e]
           y == Evaluated(x, e)
           w == IF x.state \in {"ACTIVE", "SIGNAL"} THEN z ELSE MovedTo(z, "ACTIVE")
           v == MovedTo(z, "WATCH")
           u == MovedTo(z, "INACTIVE")
<1>0. storeClock \in Nat /\ storeClock < Never /\ r \in Nat /\ Ttl \in Nat
  BY StoreAssumption DEF Never
<1>1. /\ z \in StockType /\ z.state = x.state /\ z.since = x.since /\ z.promoted = x.promoted
      /\ x.promoted = r /\ (x.since = Never <=> x.state = "INACTIVE")
  BY DEF StockType, InPlace
<1>2. x.state \in {"INACTIVE", "WATCH", "ACTIVE", "SIGNAL"}
  BY DEF StockType
<1>3. CASE e = "strong"
  <2>1. y = [w EXCEPT !.promoted = storeClock]
    BY <1>3 DEF Evaluated
  <2>2. w \in StockType /\ w.state \in {"ACTIVE", "SIGNAL"} /\ w.since # Never
        /\ (x.state = "SIGNAL" => w.state = "SIGNAL")
    <3>1. CASE x.state \in {"ACTIVE", "SIGNAL"}
      BY <1>1, <3>1
    <3>2. CASE x.state \notin {"ACTIVE", "SIGNAL"}
      <4>1. w = MovedTo(z, "ACTIVE")
        BY <3>2
      <4> HIDE DEF z, w
      <4>2. z.since = Never <=> z.state = "INACTIVE"
        BY <1>1
      <4>3. w \in StockType /\ w.state = "ACTIVE" /\ (w.since = Never <=> "ACTIVE" = "INACTIVE")
        BY <1>1, <4>1, <4>2, MovedInPlace
      <4> QED
        BY <3>2, <4>3
    <3> QED
      BY <3>1, <3>2
  <2> HIDE DEF w, y
  <2>3. /\ y \in StockType /\ y.state = w.state /\ y.since = w.since /\ y.promoted = storeClock
    BY <1>0, <2>1, <2>2 DEF StockType
  <2>4. ~(Rank(y.state) < Rank(x.state))
    BY <1>2, <2>2, <2>3 DEF Rank
  <2> QED
    BY <1>0, <1>3, <2>2, <2>3, <2>4 DEF InPlace, Deserves, y
<1>4. CASE e = "weak" /\ x.state = "INACTIVE"
  <2>1. y = [v EXCEPT !.promoted = storeClock]
    BY <1>4 DEF Evaluated
  <2>2. v \in StockType /\ v.state = "WATCH" /\ v.since = storeClock
    <3> HIDE DEF z
    <3>1. z.since = Never <=> z.state = "INACTIVE"
      BY <1>1
    <3>2. v \in StockType /\ v.state = "WATCH" /\ v.since = IF z.state = "INACTIVE" THEN storeClock ELSE z.since
      BY <1>1, <3>1, MovedInPlace
    <3> QED
      BY <1>1, <1>4, <3>2
  <2> HIDE DEF v, y
  <2>3. /\ y \in StockType /\ y.state = "WATCH" /\ y.since = storeClock /\ y.promoted = storeClock
    BY <1>0, <2>1, <2>2 DEF StockType
  <2>4. ~(Rank(y.state) < Rank(x.state))
    BY <1>4, <2>3 DEF Rank
  <2> QED
    BY <1>0, <1>4, <2>3, <2>4 DEF InPlace, Deserves, y
<1>5. CASE e = "weak" /\ x.state = "ACTIVE" /\ ~WithinTtl(x)
  <2>1. y = v
    BY <1>5 DEF Evaluated
  <2>2. v \in StockType /\ v.state = "WATCH" /\ v.since # Never /\ v.promoted = r
    BY <1>1, <1>5, MovedInPlace
  <2>3. r <= storeClock /\ storeClock > r + Ttl
    BY <1>0, <1>1, <1>5 DEF InPlace, WithinTtl
  <2> HIDE DEF v, y
  <2> QED
    BY <1>0, <1>5, <2>1, <2>2, <2>3 DEF InPlace, Deserves, y
<1>6. CASE e = "none" /\ x.state \in {"ACTIVE", "WATCH"} /\ ~WithinTtl(x)
  <2>1. y = u
    BY <1>6 DEF Evaluated
  <2>2. u \in StockType /\ u.state = "INACTIVE" /\ u.since = Never /\ u.promoted = r
    BY <1>1, <1>6, MovedInPlace
  <2>3. r <= storeClock /\ storeClock > r + Ttl
    BY <1>0, <1>1, <1>6 DEF InPlace, WithinTtl
  <2> HIDE DEF u, y
  <2> QED
    BY <1>0, <1>6, <2>1, <2>2, <2>3 DEF InPlace, Deserves, y
<1>7. CASE /\ e # "strong" /\ ~(e = "weak" /\ x.state = "INACTIVE")
           /\ ~(e = "weak" /\ x.state = "ACTIVE" /\ ~WithinTtl(x))
           /\ ~(e = "none" /\ x.state \in {"ACTIVE", "WATCH"} /\ ~WithinTtl(x))
  <2>1. y = z
    BY <1>7 DEF Evaluated
  <2> HIDE DEF z, y
  <2>2. ~(Rank(y.state) < Rank(x.state))
    BY <1>1, <1>2, <2>1 DEF Rank
  <2> QED
    BY <1>0, <1>1, <1>7, <2>1, <2>2 DEF InPlace, Deserves, y
<1> QED
  BY <1>3, <1>4, <1>5, <1>6, <1>7

(* An evaluation of some stocks, at the radar or among the quotes.         *)
LEMMA ScanInPlace ==
  ASSUME StoreInv, NEW S, NEW found \in Findings(S), S \subseteq CodeSet, Scan(found),
         storeClock' = storeClock
  PROVE  /\ stocks' \in [CodeSet -> StockType] /\ raisedAt' \in [CodeSet -> Nat]
         /\ \A c \in CodeSet : InPlace(stocks'[c], raisedAt'[c], storeClock)
         /\ DownInTime
<1> DEFINE seen == {c \in DOMAIN found : found[c] # "no quote"}
           Up(c) == c \in seen /\ (found[c] = "strong" \/ (found[c] = "weak" /\ stocks[c].state = "INACTIVE"))
<1>1. /\ stocks' = [c \in CodeSet |-> IF c \in seen THEN Evaluated(stocks[c], found[c]) ELSE stocks[c]]
      /\ raisedAt' = [c \in CodeSet |-> IF Up(c) THEN storeClock ELSE raisedAt[c]]
  BY DEF Scan
<1>2. \A c \in seen : found[c] \in Evaluations /\ c \in CodeSet
  BY DEF Findings
<1>3. storeClock \in 0 .. StoreEnd /\ storeClock \in Nat
  BY StoreAssumption DEF StoreInv
<1> HIDE DEF seen
<1>4. ASSUME NEW c \in CodeSet
      PROVE /\ stocks'[c] \in StockType /\ raisedAt'[c] \in Nat
            /\ InPlace(stocks'[c], raisedAt'[c], storeClock)
            /\ Rank(stocks'[c].state) < Rank(stocks[c].state) => storeClock > raisedAt[c] + Ttl
  <2>1. stocks[c] \in StockType /\ raisedAt[c] \in Nat /\ InPlace(stocks[c], raisedAt[c], storeClock)
    BY DEF StoreInv
  <2>2. CASE c \in seen
    <3> DEFINE x == stocks[c]
               e == found[c]
               q == raisedAt[c]
    <3>1. stocks'[c] = Evaluated(x, e) /\ raisedAt'[c] = IF Deserves(x, e) THEN storeClock ELSE q
      BY <1>1, <2>2 DEF Deserves
    <3>2. x \in StockType /\ q \in Nat /\ InPlace(x, q, storeClock) /\ e \in Evaluations
      BY <1>2, <2>1, <2>2
    <3> HIDE DEF x, e, q
    <3>3. /\ Evaluated(x, e) \in StockType
          /\ InPlace(Evaluated(x, e), IF Deserves(x, e) THEN storeClock ELSE q, storeClock)
          /\ Rank(Evaluated(x, e).state) < Rank(x.state) => storeClock > q + Ttl
      BY <1>3, <3>2, EvaluatedInPlace
    <3>4. (IF Deserves(x, e) THEN storeClock ELSE q) \in Nat
      BY <1>3, <3>2
    <3> QED
      BY <3>1, <3>3, <3>4 DEF x, q
  <2>3. CASE c \notin seen
    <3>1. stocks'[c] = stocks[c] /\ raisedAt'[c] = raisedAt[c]
      BY <1>1, <2>3
    <3>2. ~(Rank(stocks[c].state) < Rank(stocks[c].state))
      BY <2>1 DEF StockType, Rank
    <3> QED
      BY <2>1, <3>1, <3>2
  <2> QED
    BY <2>2, <2>3
<1>5. stocks' \in [CodeSet -> StockType] /\ raisedAt' \in [CodeSet -> Nat]
  <2>1. /\ DOMAIN stocks' = CodeSet /\ stocks' = [c \in CodeSet |-> stocks'[c]]
        /\ DOMAIN raisedAt' = CodeSet /\ raisedAt' = [c \in CodeSet |-> raisedAt'[c]]
    BY <1>1
  <2> QED
    BY <1>4, <2>1
<1> QED
  BY <1>4, <1>5 DEF DownInTime

LEMMA StartScanStep ==
  ASSUME StoreInv, StartScan
  PROVE  StoreInv' /\ DownInTime
<1> DEFINE Late(c) == stocks[c].state = "WATCH" /\ storeClock' > stocks[c].since + MaxIdle
<1>1. PICK pause \in CyclePauses : storeClock + pause <= StoreEnd /\ storeClock' = storeClock + pause
  BY DEF StartScan
<1>2. /\ storeClock' \in 0 .. StoreEnd /\ storeClock \in 0 .. StoreEnd /\ storeClock' > storeClock
      /\ storeClock \in Nat /\ storeClock' \in Nat /\ Ttl \in Nat /\ MaxIdle \in Nat /\ Ttl <= MaxIdle
  BY <1>1, StoreAssumption DEF StoreInv
<1>3. /\ stocks' = [c \in CodeSet |-> IF Late(c)
                    THEN [stocks[c] EXCEPT !.state = "INACTIVE", !.since = Never] ELSE stocks[c]]
      /\ scan' = "radar" /\ UNCHANGED <<rolling, idle, raisedAt>>
  BY DEF StartScan, MovedTo
<1>4. Never \in Nat
  BY StoreAssumption DEF Never
<1>5. ASSUME NEW c \in CodeSet
      PROVE /\ stocks'[c] \in StockType
            /\ InPlace(stocks'[c], raisedAt[c], storeClock')
            /\ Rank(stocks'[c].state) < Rank(stocks[c].state) => storeClock' > raisedAt[c] + Ttl
  <2>1. /\ stocks[c] \in StockType /\ raisedAt[c] \in Nat /\ InPlace(stocks[c], raisedAt[c], storeClock)
        /\ stocks[c].since \in Nat /\ stocks[c].promoted \in Nat
    BY DEF StoreInv, StockType
  <2>2. CASE Late(c)
    <3>1. stocks'[c] = [stocks[c] EXCEPT !.state = "INACTIVE", !.since = Never]
      BY <1>3, <2>2
    <3>2. storeClock' > raisedAt[c] + Ttl
      BY <1>2, <2>1, <2>2 DEF InPlace
    <3>3. /\ stocks'[c] \in StockType /\ stocks'[c].state = "INACTIVE" /\ stocks'[c].since = Never
          /\ stocks'[c].promoted = stocks[c].promoted
      BY <1>4, <2>1, <3>1 DEF StockType
    <3> QED
      BY <2>1, <3>2, <3>3 DEF InPlace
  <2>3. CASE ~Late(c)
    <3>1. stocks'[c] = stocks[c]
      BY <1>3, <2>3
    <3>2. ~(Rank(stocks[c].state) < Rank(stocks[c].state))
      BY <2>1 DEF StockType, Rank
    <3>3. InPlace(stocks[c], raisedAt[c], storeClock')
      BY <1>2, <2>1 DEF InPlace
    <3> QED
      BY <2>1, <3>1, <3>2, <3>3
  <2> QED
    BY <2>2, <2>3
<1>6. stocks' \in [CodeSet -> StockType]
  <2>1. DOMAIN stocks' = CodeSet /\ stocks' = [c \in CodeSet |-> stocks'[c]]
    BY <1>3
  <2> QED
    BY <1>5, <2>1
<1>7. StoreInv'
  BY <1>2, <1>3, <1>5, <1>6 DEF StoreInv, Passed
<1> QED
  BY <1>5, <1>7 DEF DownInTime

LEMMA RadarStep ==
  ASSUME StoreInv, RadarScan
  PROVE  StoreInv' /\ DownInTime
<1>1. PICK found \in Findings(CodeSet) : Scan(found)
  BY DEF RadarScan
<1>2. scan' = "quotes" /\ UNCHANGED <<rolling, idle, storeClock>>
  BY DEF RadarScan
<1>3. /\ stocks' \in [CodeSet -> StockType] /\ raisedAt' \in [CodeSet -> Nat]
      /\ \A c \in CodeSet : InPlace(stocks'[c], raisedAt'[c], storeClock)
      /\ DownInTime
  BY <1>1, <1>2, ScanInPlace
<1> QED
  BY <1>2, <1>3 DEF StoreInv, Passed

(* The batch that moves on by its size has passed so many more positions.  *)
LEMMA BatchPasses ==
  ASSUME StoreInv, NEW i \in 0 .. Len(Codes) - 1
  PROVE  LET at == (rolling + BatchSize) % Len(Codes) IN
         /\ at \in 0 .. Len(Codes) - 1
         /\ Passed(i, at) \in Nat /\ Passed(i, rolling) \in Nat
         /\ Codes[i + 1] \notin Batch => Passed(i, at) = Passed(i, rolling) + BatchSize
<1> DEFINE n == Len(Codes)
           at == (rolling + BatchSize) % Len(Codes)
<1>1. n \in Nat /\ BatchSize \in Nat /\ BatchSize > 0 /\ BatchSize <= n /\ rolling \in 0 .. n - 1 /\ i \in 0 .. n - 1
  BY StoreAssumption DEF StoreInv
<1>2. at = IF rolling + BatchSize < n THEN rolling + BatchSize ELSE rolling + BatchSize - n
  BY <1>1
<1>3. Codes[i + 1] \notin Batch
        => i \notin (IF rolling < at THEN rolling .. at - 1 ELSE (rolling .. n - 1) \cup (0 .. at - 1))
  BY DEF Batch
<1> HIDE DEF n, at
<1>4. at \in 0 .. n - 1
  BY <1>1, <1>2
<1>5. ASSUME NEW j \in 0 .. n - 1
      PROVE Passed(i, j) \in Nat /\ Passed(i, j) = IF i < j THEN j - 1 - i ELSE n + j - 1 - i
  BY <1>1, <1>5 DEF Passed, n
<1>6. Codes[i + 1] \notin Batch => Passed(i, at) = Passed(i, rolling) + BatchSize
  <2> SUFFICES ASSUME Codes[i + 1] \notin Batch PROVE Passed(i, at) = Passed(i, rolling) + BatchSize
    OBVIOUS
  <2>1. Passed(i, at) = IF i < at THEN at - 1 - i ELSE n + at - 1 - i
    BY <1>4, <1>5
  <2>2. Passed(i, rolling) = IF i < rolling THEN rolling - 1 - i ELSE n + rolling - 1 - i
    BY <1>1, <1>5
  <2>3. CASE rolling + BatchSize < n
    BY <1>1, <1>2, <1>3, <2>1, <2>2, <2>3
  <2>4. CASE ~(rolling + BatchSize < n)
    BY <1>1, <1>2, <1>3, <2>1, <2>2, <2>4
  <2> QED
    BY <2>3, <2>4
<1> QED
  BY <1>1, <1>4, <1>5, <1>6 DEF n, at

LEMMA QuotesStep ==
  ASSUME StoreInv, QuoteStocks
  PROVE  StoreInv' /\ DownInTime
<1> DEFINE at == (rolling + BatchSize) % Len(Codes)
<1>1. PICK found \in Findings(InView \cup Batch) : Scan(found)
  BY DEF QuoteStocks
<1>2. /\ scan' = "signals" /\ UNCHANGED storeClock /\ rolling' = at
      /\ idle' = [c \in CodeSet |-> IF c \in Batch THEN 0 ELSE idle[c] + 1]
  BY DEF QuoteStocks
<1>3. InView \cup Batch \subseteq CodeSet
  <2>1. rolling \in 0 .. Len(Codes) - 1 /\ at \in 0 .. Len(Codes) - 1 /\ Len(Codes) \in Nat
    BY StoreAssumption, BatchPasses DEF StoreInv
  <2>2. Batch \subseteq CodeSet
    BY <2>1 DEF Batch, CodeSet
  <2> QED
    BY <2>2 DEF InView
<1>4. /\ stocks' \in [CodeSet -> StockType] /\ raisedAt' \in [CodeSet -> Nat]
      /\ \A c \in CodeSet : InPlace(stocks'[c], raisedAt'[c], storeClock)
      /\ DownInTime
  BY <1>1, <1>2, <1>3, ScanInPlace
<1>5. idle' \in [CodeSet -> Nat]
  BY <1>2 DEF StoreInv
<1>6. at \in 0 .. Len(Codes) - 1
  BY StoreAssumption, BatchPasses DEF StoreInv
<1>7. ASSUME NEW i \in 0 .. Len(Codes) - 1
      PROVE  idle'[Codes[i + 1]] * BatchSize <= Passed(i, at)
  <2> DEFINE c == Codes[i + 1]
             k == idle[c]
             b == Passed(i, rolling)
  <2>1. c \in CodeSet /\ k \in Nat /\ k * BatchSize <= b /\ b \in Nat /\ Passed(i, at) \in Nat
        /\ BatchSize \in Nat
    <3>1. c \in CodeSet /\ BatchSize \in Nat
      BY StoreAssumption DEF CodeSet
    <3>2. k \in Nat /\ k * BatchSize <= b
      BY <3>1 DEF StoreInv
    <3>3. b \in Nat /\ Passed(i, at) \in Nat
      BY BatchPasses
    <3> QED
      BY <3>1, <3>2, <3>3
  <2>2. CASE c \in Batch
    BY <1>2, <2>1, <2>2
  <2>3. CASE c \notin Batch
    <3>1. idle'[c] = k + 1 /\ Passed(i, at) = b + BatchSize
      BY <1>2, <2>1, <2>3, BatchPasses
    <3> HIDE DEF c, k, b, at
    <3>2. (k + 1) * BatchSize = k * BatchSize + BatchSize
      BY <2>1
    <3>3. k * BatchSize \in Nat
      BY <2>1
    <3>4. (k + 1) * BatchSize <= b + BatchSize
      BY <2>1, <3>2, <3>3
    <3> QED
      BY <3>1, <3>4 DEF c
  <2> QED
    BY <2>2, <2>3
<1> HIDE DEF at
<1> QED
  BY <1>2, <1>4, <1>5, <1>6, <1>7 DEF StoreInv, Passed

LEMMA SignalsStep ==
  ASSUME StoreInv, ScanSignals
  PROVE  StoreInv' /\ DownInTime
<1>1. scan' = "start" /\ UNCHANGED <<rolling, idle, storeClock>>
  BY DEF ScanSignals
<1>2. \A c \in CodeSet : ~(Rank(stocks[c].state) < Rank(stocks[c].state))
  BY DEF StoreInv, StockType, Rank
<1>3. CASE UNCHANGED <<stocks, raisedAt>>
  BY <1>1, <1>2, <1>3 DEF StoreInv, Passed, DownInTime
<1>4. ASSUME NEW found \in [Promoted \cap Lively -> Evaluations], NEW liked \in SUBSET (Promoted \cap Lively),
             /\ stocks' = [c \in CodeSet |->
                  IF c \notin DOMAIN found THEN stocks[c]
                  ELSE LET x == Evaluated(stocks[c], found[c]) IN
                       IF c \in liked THEN MovedTo(x, "SIGNAL") ELSE x]
             /\ raisedAt' = [c \in CodeSet |->
                  IF c \in DOMAIN found /\ found[c] = "strong" THEN storeClock ELSE raisedAt[c]]
      PROVE  StoreInv' /\ DownInTime
  <2>1. storeClock \in 0 .. StoreEnd /\ storeClock \in Nat
    BY StoreAssumption DEF StoreInv
  <2>2. ASSUME NEW c \in CodeSet
        PROVE /\ stocks'[c] \in StockType /\ raisedAt'[c] \in Nat
              /\ InPlace(stocks'[c], raisedAt'[c], storeClock)
              /\ Rank(stocks'[c].state) < Rank(stocks[c].state) => storeClock > raisedAt[c] + Ttl
    <3>1. stocks[c] \in StockType /\ raisedAt[c] \in Nat /\ InPlace(stocks[c], raisedAt[c], storeClock)
      BY DEF StoreInv
    <3>2. CASE c \in DOMAIN found
      <4> DEFINE x == stocks[c]
                 e == found[c]
                 q == raisedAt[c]
                 s == IF e = "strong" THEN storeClock ELSE q
                 y == Evaluated(x, e)
                 z == MovedTo(y, "SIGNAL")
      <4>1. raisedAt'[c] = s /\ stocks'[c] \in {y, z}
        BY <1>4, <3>2
      <4>2. x \in StockType /\ q \in Nat /\ InPlace(x, q, storeClock) /\ e \in Evaluations
            /\ x.state # "INACTIVE"
        BY <3>1, <3>2 DEF Promoted, InView
      <4> HIDE DEF x, e, q
      <4>3. ~(e = "weak" /\ x.state = "INACTIVE")
        BY <4>2
      <4>4. /\ y \in StockType /\ InPlace(y, s, storeClock)
            /\ Rank(y.state) < Rank(x.state) => storeClock > q + Ttl
            /\ y.promoted <= storeClock
        BY <2>1, <4>2, <4>3, EvaluatedInPlace DEF Deserves
      <4>5. s \in Nat
        BY <2>1, <4>2
      <4> HIDE DEF y, s
      <4>6. y.since = Never <=> y.state = "INACTIVE"
        BY <4>4 DEF InPlace
      <4>7. z \in StockType /\ z.state = "SIGNAL" /\ z.promoted = y.promoted /\ z.since # Never
        BY <2>1, <4>4, <4>6, MovedInPlace
      <4> HIDE DEF z
      <4>8. InPlace(z, s, storeClock)
        BY <4>4, <4>7 DEF InPlace
      <4>9. ~(Rank(z.state) < Rank(x.state))
        BY <4>2, <4>7 DEF Rank, StockType
      <4> QED
        BY <4>1, <4>4, <4>5, <4>7, <4>8, <4>9 DEF x, q
    <3>3. CASE c \notin DOMAIN found
      <4>1. stocks'[c] = stocks[c] /\ raisedAt'[c] = raisedAt[c]
        BY <1>4, <3>3
      <4> QED
        BY <1>2, <3>1, <4>1
    <3> QED
      BY <3>2, <3>3
  <2>3. stocks' \in [CodeSet -> StockType] /\ raisedAt' \in [CodeSet -> Nat]
    <3>1. /\ DOMAIN stocks' = CodeSet /\ stocks' = [c \in CodeSet |-> stocks'[c]]
          /\ DOMAIN raisedAt' = CodeSet /\ raisedAt' = [c \in CodeSet |-> raisedAt'[c]]
      BY <1>4
    <3> QED
      BY <2>2, <3>1
  <2> QED
    BY <1>1, <2>2, <2>3 DEF StoreInv, Passed, DownInTime
<1> QED
  BY <1>3, <1>4 DEF ScanSignals

LEMMA StoreStep ==
  ASSUME StoreInv, StoreNext \/ UNCHANGED storeVars
  PROVE  StoreInv' /\ DownInTime
<1>1. CASE UNCHANGED storeVars
  <2>1. \A c \in CodeSet : ~(Rank(stocks[c].state) < Rank(stocks[c].state))
    BY DEF StoreInv, StockType, Rank
  <2> QED
    BY <1>1, <2>1 DEF storeVars, StoreInv, Passed, DownInTime
<1> QED
  BY <1>1, StartScanStep, RadarStep, QuotesStep, SignalsStep DEF StoreNext

LEMMA StorePromise == StoreInv => StoreTypeOK /\ RollingScanReachesAll
<1> SUFFICES ASSUME StoreInv PROVE StoreTypeOK /\ RollingScanReachesAll
  OBVIOUS
<1>1. StoreTypeOK
  BY DEF StoreInv, StoreTypeOK, StockType, InPlace
<1>2. ASSUME NEW c \in CodeSet PROVE idle[c] * BatchSize <= Len(Codes)
  <2>1. PICK j \in 1 .. Len(Codes) : c = Codes[j]
    BY DEF CodeSet
  <2> DEFINE i == j - 1
  <2>2. i \in 0 .. Len(Codes) - 1 /\ i + 1 = j /\ Len(Codes) \in Nat
    BY StoreAssumption
  <2> HIDE DEF i
  <2>3. idle[c] * BatchSize <= Passed(i, rolling)
    BY <2>1, <2>2 DEF StoreInv
  <2>4. Passed(i, rolling) <= Len(Codes) /\ Passed(i, rolling) \in Int
    BY <2>2 DEF StoreInv, Passed
  <2>5. idle[c] \in Nat /\ BatchSize \in Nat
    BY StoreAssumption DEF StoreInv
  <2>6. idle[c] * BatchSize \in Int
    BY <2>5
  <2> QED
    BY <2>2, <2>3, <2>4, <2>6
<1> QED
  BY <1>1, <1>2 DEF RollingScanReachesAll

-----------------------------------------------------------------------------
(* Bars and totals of a stock (MarketCandles).                             *)

CandleType == [start : Nat, open : Nat, high : Nat, low : Nat, close : Nat, vol : Nat]
BarsType == [cur : CandleType, closed : Seq(CandleType), made : Nat]

(* A bar begins at a multiple of its length, and no more are kept than may.*)
BarsOf(f, b) ==
  /\ b \in BarsType
  /\ b.made + Len(b.closed) <= KeepBars
  /\ b.cur = NoBar \/ b.cur.start % f = 0

CandlesInv ==
  /\ DOMAIN candles = Frames /\ \A f \in Frames : BarsOf(f, candles[f])
  /\ sums.vol \in Nat /\ sums.last \in Nat /\ {"vol", "last"} \subseteq DOMAIN sums
  /\ unit \in Nat /\ ticks \in Nat /\ traded \in Nat /\ page \in Nat /\ sawOlder \in BOOLEAN
  /\ sums.last <= traded /\ page <= traded
  /\ gate \in Prices \cup {0}
  /\ VolumeCountedOnce

LEMMA BarsAligned ==
  ASSUME NEW u \in Nat, NEW f \in Nat \ {0}
  PROVE  u - (u % f) \in Nat /\ (u - (u % f)) % f = 0
<1> DEFINE d == u \div f
           m == u % f
<1>1. u = f * d + m /\ m \in 0 .. f - 1 /\ d \in Nat
  OBVIOUS
<1> HIDE DEF d, m
<1>2. u - m = f * d
  BY <1>1
<1>3. f * d \in Nat
  BY <1>1
<1>4. (f * d) % f = 0
  <2> DEFINE a == f * d
             e == a \div f
             k == a % f
  <2>1. a = f * e + k /\ k \in 0 .. f - 1 /\ e \in Int
    BY <1>3
  <2> HIDE DEF e, k
  <2>2. f * (d - e) = k
    BY <1>1, <2>1
  <2>3. d - e \in Int
    BY <1>1, <2>1
  <2>4. CASE d - e >= 1
    <3>1. f * (d - e) >= f
      BY <2>3, <2>4
    <3> QED
      BY <2>1, <2>2, <3>1
  <2>5. CASE d - e <= -1
    <3>1. f * (d - e) <= -f
      BY <2>3, <2>5
    <3> QED
      BY <2>1, <2>2, <3>1
  <2>6. CASE d - e = 0
    BY <2>2, <2>6 DEF k
  <2> QED
    BY <2>3, <2>4, <2>5, <2>6
<1> QED
  BY <1>2, <1>3, <1>4 DEF m

LEMMA LargerSmaller ==
  ASSUME NEW a \in Nat, NEW b \in Nat
  PROVE  /\ Larger(a, b) \in Nat /\ Larger(a, b) = IF a >= b THEN a ELSE b
         /\ Smaller(a, b) \in Nat
BY DEF Larger, Smaller

LEMMA KeptBars ==
  ASSUME NEW f, NEW b, BarsOf(f, b)
  PROVE  LET k == Kept(b) IN
         k \in BarsType /\ k.made + Len(k.closed) <= KeepBars /\ k.cur = b.cur
<1> DEFINE all == Append(b.closed, b.cur)
           k == Kept(b)
<1>1. /\ b.cur \in CandleType /\ b.closed \in Seq(CandleType) /\ b.made \in Nat
      /\ Len(b.closed) \in Nat /\ KeepBars \in Nat
  BY CandlesAssumption, LenProperties DEF BarsOf, BarsType
<1>2. all \in Seq(CandleType) /\ Len(all) = Len(b.closed) + 1 /\ all # <<>>
  BY <1>1, AppendProperties
<1>3. Tail(all) \in Seq(CandleType) /\ Len(Tail(all)) = Len(b.closed)
  BY <1>1, <1>2, HeadTailProperties
<1>4. k = IF b.made + Len(all) <= KeepBars THEN [b EXCEPT !.closed = all]
          ELSE IF b.made > 0 THEN [b EXCEPT !.closed = all, !.made = b.made - 1]
          ELSE [b EXCEPT !.closed = Tail(all)]
  BY DEF Kept
<1> HIDE DEF all, k
<1>5. CASE b.made + Len(all) <= KeepBars
  <2>1. k = [b EXCEPT !.closed = all]
    BY <1>4, <1>5
  <2>2. k \in BarsType /\ k.made = b.made /\ k.closed = all /\ k.cur = b.cur
    BY <1>1, <1>2, <2>1 DEF BarsOf, BarsType
  <2> QED
    BY <1>5, <2>2 DEF k
<1>6. CASE ~(b.made + Len(all) <= KeepBars) /\ b.made > 0
  <2>1. k = [b EXCEPT !.closed = all, !.made = b.made - 1]
    BY <1>4, <1>6
  <2>4. b.made - 1 \in Nat
    BY <1>1, <1>6
  <2>2. k \in BarsType /\ k.made = b.made - 1 /\ k.closed = all /\ k.cur = b.cur
    BY <1>1, <1>2, <2>1, <2>4 DEF BarsOf, BarsType
  <2>3. k.made + Len(k.closed) <= KeepBars
    BY <1>1, <1>2, <2>2 DEF BarsOf
  <2> QED
    BY <2>2, <2>3 DEF k
<1>7. CASE ~(b.made + Len(all) <= KeepBars) /\ ~(b.made > 0)
  <2>1. k = [b EXCEPT !.closed = Tail(all)]
    BY <1>4, <1>7
  <2>2. k \in BarsType /\ k.made = b.made /\ k.closed = Tail(all) /\ k.cur = b.cur
    BY <1>1, <1>3, <2>1 DEF BarsOf, BarsType
  <2>3. k.made + Len(k.closed) <= KeepBars
    BY <1>1, <1>3, <2>2 DEF BarsOf
  <2> QED
    BY <2>2, <2>3 DEF k
<1> QED
  BY <1>5, <1>6, <1>7

LEMMA BarredBars ==
  ASSUME NEW f \in Nat \ {0}, NEW b, BarsOf(f, b), NEW p \in Nat, NEW v \in Nat, unit \in Nat
  PROVE  BarsOf(f, Barred(b, f, p, v))
<1> DEFINE new == NewBar(f, p, v)
           k == Kept(b)
           r == Barred(b, f, p, v)
           c == [start |-> b.cur.start, open |-> b.cur.open, high |-> Larger(b.cur.high, p),
                 low |-> Smaller(b.cur.low, p), close |-> p, vol |-> b.cur.vol + v]
<1>1. new \in CandleType /\ new.start % f = 0
  <2>1. unit - (unit % f) \in Nat /\ (unit - (unit % f)) % f = 0
    BY BarsAligned
  <2> QED
    BY <2>1 DEF NewBar, CandleType
<1>2. k \in BarsType /\ k.made + Len(k.closed) <= KeepBars
  BY KeptBars
<1>3. b \in BarsType /\ b.made + Len(b.closed) <= KeepBars /\ b.cur \in CandleType
  BY DEF BarsOf, BarsType
<1>4. c \in CandleType /\ c.start = b.cur.start
  <2>1. b.cur.high \in Nat /\ b.cur.low \in Nat /\ b.cur.start \in Nat /\ b.cur.open \in Nat /\ b.cur.vol \in Nat
    BY <1>3 DEF CandleType
  <2>2. Larger(b.cur.high, p) \in Nat /\ Smaller(b.cur.low, p) \in Nat
    BY <2>1, LargerSmaller
  <2> QED
    BY <2>1, <2>2 DEF CandleType
<1>5. \/ r = [b EXCEPT !.cur = new]
      \/ r = [k EXCEPT !.cur = new]
      \/ b.cur # NoBar /\ r = [b EXCEPT !.cur = c]
  <2>1. CASE b.cur = NoBar
    BY <2>1 DEF Barred
  <2>2. CASE b.cur # NoBar /\ new.start > b.cur.start
    BY <2>2 DEF Barred
  <2>3. CASE b.cur # NoBar /\ ~(new.start > b.cur.start)
    <3>1. r = [b EXCEPT !.cur.high = Larger(b.cur.high, p), !.cur.low = Smaller(b.cur.low, p),
                        !.cur.close = p, !.cur.vol = b.cur.vol + v]
      BY <2>3 DEF Barred
    <3>2. r = [b EXCEPT !.cur = c]
      BY <1>3, <3>1 DEF BarsType, CandleType
    <3> QED
      BY <2>3, <3>2
  <2> QED
    BY <2>1, <2>2, <2>3
<1> HIDE DEF new, k, r, c
<1>6. CASE r = [b EXCEPT !.cur = new]
  <2>1. r \in BarsType /\ r.made = b.made /\ r.closed = b.closed /\ r.cur = new
    BY <1>1, <1>3, <1>6 DEF BarsType
  <2> QED
    BY <1>1, <1>3, <2>1 DEF BarsOf, r
<1>7. CASE r = [k EXCEPT !.cur = new]
  <2>1. r \in BarsType /\ r.made = k.made /\ r.closed = k.closed /\ r.cur = new
    BY <1>1, <1>2, <1>7 DEF BarsType
  <2> QED
    BY <1>1, <1>2, <2>1 DEF BarsOf, r
<1>8. CASE b.cur # NoBar /\ r = [b EXCEPT !.cur = c]
  <2>1. r \in BarsType /\ r.made = b.made /\ r.closed = b.closed /\ r.cur = c
    BY <1>3, <1>4, <1>8 DEF BarsType
  <2>2. r.cur.start % f = 0
    BY <1>4, <1>8, <2>1 DEF BarsOf
  <2> QED
    BY <1>3, <2>1, <2>2 DEF BarsOf, r
<1> QED
  BY <1>5, <1>6, <1>7, <1>8

(* A tick that tells no less than the last: the totals it makes of totals  *)
(* that lie between the volume told and that much more.                    *)
LEMMA SummedOnce ==
  ASSUME NEW t, t.vol \in Nat, t.last \in Nat, NEW p, NEW raw \in Nat
  PROVE  LET s == Summed(t, p, raw) IN
         /\ s.vol \in Nat /\ s.last \in Nat /\ {"vol", "last"} \subseteq DOMAIN s
         /\ s.last \in {t.last, raw}
         /\ TickVolume(t, raw) \in Nat
         /\ \A k \in Nat : raw >= t.last /\ t.last <= t.vol /\ t.vol <= t.last + k
              => s.last <= s.vol /\ s.vol <= s.last + k + 1
         /\ \A k \in Nat : raw = t.last /\ t.vol <= raw + k /\ raw <= t.vol
              => s.last <= s.vol /\ s.vol <= s.last + k + 1
<1> DEFINE d == Delta(t, raw)
           v == TickVolume(t, raw)
           s == Summed(t, p, raw)
           l == Larger(t.last, raw)
<1>1. d \in Nat /\ d = IF t.last > 0 /\ raw >= t.last THEN raw - t.last ELSE raw
  BY DEF Delta
<1>2. v = IF raw > 0 /\ t.vol > 0 THEN Larger(1, d) ELSE raw
  BY DEF TickVolume
<1>3. s.vol = t.vol + v /\ s.last = l /\ {"vol", "last"} \subseteq DOMAIN s
  BY DEF Summed
<1>4. l \in Nat /\ l = IF t.last >= raw THEN t.last ELSE raw
  BY LargerSmaller
<1> HIDE DEF d, s, l
<1>5. Larger(1, d) \in Nat /\ Larger(1, d) = IF 1 >= d THEN 1 ELSE d
  BY <1>1, LargerSmaller
<1> HIDE DEF v
<1>6. v \in Nat /\ v = IF raw > 0 /\ t.vol > 0 THEN (IF 1 >= d THEN 1 ELSE d) ELSE raw
  BY <1>2, <1>5
<1>7. ASSUME NEW k \in Nat, raw >= t.last, t.last <= t.vol, t.vol <= t.last + k
      PROVE  s.last <= s.vol /\ s.vol <= s.last + k + 1
  BY <1>1, <1>3, <1>4, <1>6, <1>7
<1>8. ASSUME NEW k \in Nat, raw = t.last, t.vol <= raw + k, raw <= t.vol
      PROVE  s.last <= s.vol /\ s.vol <= s.last + k + 1
  BY <1>7, <1>8
<1>9. s.vol \in Nat /\ s.last \in Nat /\ s.last \in {t.last, raw}
  BY <1>3, <1>4, <1>6
<1> QED
  BY <1>3, <1>6, <1>7, <1>8, <1>9 DEF s, v

LEMMA CandlesInitInv == CandlesInit => CandlesInv
<1> SUFFICES ASSUME CandlesInit PROVE CandlesInv
  OBVIOUS
<1>1. NoBar \in CandleType /\ <<>> \in Seq(CandleType) /\ Len(<<>>) = 0 /\ KeepBars \in Nat
  BY CandlesAssumption DEF NoBar, CandleType
<1>2. \A f \in Frames : BarsOf(f, candles[f])
  BY <1>1 DEF CandlesInit, BarsOf, BarsType
<1>3. sums.vol = 0 /\ sums.last = 0 /\ {"vol", "last"} \subseteq DOMAIN sums /\ DOMAIN candles = Frames
  BY DEF CandlesInit
<1>4. unit = 0 /\ ticks = 0 /\ traded = 0 /\ page = 0 /\ sawOlder = FALSE /\ gate = 0
  BY DEF CandlesInit
<1>5. VolumeCountedOnce
  BY <1>3, <1>4 DEF VolumeCountedOnce
<1>6. unit \in Nat /\ ticks \in Nat /\ traded \in Nat /\ page \in Nat /\ sawOlder \in BOOLEAN
  BY <1>4
<1>7. sums.last <= traded /\ page <= traded /\ gate \in Prices \cup {0} /\ sums.vol \in Nat /\ sums.last \in Nat
  BY <1>3, <1>4
<1> QED
  BY <1>2, <1>3, <1>5, <1>6, <1>7 DEF CandlesInv

LEMMA TickTaken ==
  ASSUME CandlesInv, NEW t, t.vol \in Nat, t.last \in Nat, NEW bs, \A f \in Frames : BarsOf(f, bs[f]),
         NEW p \in Prices, NEW raw \in Nat, raw <= traded, OnTick(t, bs, p, raw),
         \/ t = sums
         \/ t.vol = Larger(sums.vol, raw) /\ t.last = Larger(sums.last, raw),
         UNCHANGED <<unit, traded>>, page' \in Nat, page' <= traded
  PROVE  CandlesInv'
<1> DEFINE s == Summed(t, p, raw)
<1>1. /\ sums' = s /\ ticks' = ticks + 1 /\ gate' = p
      /\ sawOlder' = (sawOlder \/ raw < sums.last)
      /\ candles' = [f \in Frames |-> Barred(bs[f], f, p, TickVolume(t, raw))]
  BY DEF OnTick
<1>2. /\ s.vol \in Nat /\ s.last \in Nat /\ {"vol", "last"} \subseteq DOMAIN s
      /\ s.last \in {t.last, raw} /\ TickVolume(t, raw) \in Nat
      /\ \A k \in Nat : raw >= t.last /\ t.last <= t.vol /\ t.vol <= t.last + k
           => s.last <= s.vol /\ s.vol <= s.last + k + 1
  BY SummedOnce
<1> HIDE DEF s
<1>3. /\ sums.vol \in Nat /\ sums.last \in Nat /\ ticks \in Nat /\ traded \in Nat /\ unit \in Nat
      /\ sawOlder \in BOOLEAN /\ sums.last <= traded
      /\ ~sawOlder => sums.last <= sums.vol /\ sums.vol <= sums.last + ticks
  BY DEF CandlesInv, VolumeCountedOnce
<1>4. DOMAIN candles' = Frames /\ \A f \in Frames : BarsOf(f, candles'[f])
  <2>1. ASSUME NEW f \in Frames PROVE BarsOf(f, Barred(bs[f], f, p, TickVolume(t, raw)))
    <3>1. f \in Nat \ {0} /\ p \in Nat
      BY CandlesAssumption
    <3> QED
      BY <1>2, <1>3, <3>1, BarredBars
  <2> QED
    BY <1>1, <2>1
<1>5. Larger(sums.last, raw) = IF sums.last >= raw THEN sums.last ELSE raw
  BY <1>3, LargerSmaller
<1>6. Larger(sums.vol, raw) = IF sums.vol >= raw THEN sums.vol ELSE raw
  BY <1>3, LargerSmaller
<1>7. t.last <= traded
  BY <1>3, <1>5
<1>8. ASSUME ~sawOlder, ~(raw < sums.last)
      PROVE  s.last <= s.vol /\ s.vol <= s.last + ticks + 1
  <2>1. raw >= t.last /\ t.last <= t.vol /\ t.vol <= t.last + ticks
    BY <1>3, <1>5, <1>6, <1>8
  <2> QED
    BY <1>2, <1>3, <2>1
<1>9. VolumeCountedOnce'
  <2>1. ~sawOlder' => s.last <= s.vol /\ s.vol <= s.last + ticks'
    <3>1. ~sawOlder' => ~sawOlder /\ ~(raw < sums.last)
      BY <1>1
    <3>2. s.last + ticks' = s.last + ticks + 1
      BY <1>1, <1>2, <1>3
    <3> QED
      BY <1>8, <3>1, <3>2
  <2> QED
    BY <1>1, <2>1 DEF VolumeCountedOnce
<1>10. sawOlder' \in BOOLEAN
  BY <1>1
<1>11. s.last <= traded
  BY <1>2, <1>7
<1> QED
  BY <1>1, <1>2, <1>3, <1>4, <1>9, <1>10, <1>11 DEF CandlesInv

LEMMA QuoteStep ==
  ASSUME CandlesInv, Quote
  PROVE  CandlesInv'
<1>1. PICK p \in Prices : OnTick(sums, candles, p, traded)
  BY DEF Quote
<1>2. /\ UNCHANGED <<unit, traded, page>> /\ traded \in Nat /\ page \in Nat /\ page <= traded
      /\ sums.vol \in Nat /\ sums.last \in Nat /\ \A f \in Frames : BarsOf(f, candles[f])
  BY DEF Quote, CandlesInv
<1>3. page' \in Nat /\ page' <= traded /\ traded <= traded
  BY <1>2
<1> QED
  BY <1>1, <1>2, <1>3, TickTaken

LEMMA RadarFindsStep ==
  ASSUME CandlesInv, RadarFinds
  PROVE  CandlesInv'
<1>1. /\ page \in Nat /\ traded \in Nat /\ UNCHANGED <<unit, traded>>
      /\ sums.vol \in Nat /\ sums.last \in Nat /\ {"vol", "last"} \subseteq DOMAIN sums
      /\ DOMAIN candles = Frames /\ \A f \in Frames : BarsOf(f, candles[f])
      /\ page' \in page .. traded
  BY DEF RadarFinds, CandlesInv
<1>2. page' \in Nat /\ page' <= traded
  BY <1>1
<1>3. PICK p \in Prices :
        IF candles[1].closed = <<>> /\ candles[1].made = 0
        THEN OnTick(Seeded(sums, page'), [candles EXCEPT ![1].made = Baseline], p, page')
        ELSE OnTick(sums, candles, p, page')
  BY DEF RadarFinds
<1> DEFINE raw == page'
<1>4. raw \in Nat /\ raw <= traded
  BY <1>2
<1>5. CASE candles[1].closed = <<>> /\ candles[1].made = 0
  <2> DEFINE t == Seeded(sums, raw)
             bs == [candles EXCEPT ![1].made = Baseline]
  <2>1. OnTick(t, bs, p, raw)
    BY <1>3, <1>5
  <2>2. t.vol = Larger(sums.vol, raw) /\ t.last = Larger(sums.last, raw)
    BY <1>1 DEF Seeded
  <2>3. \A f \in Frames : BarsOf(f, bs[f])
    <3> DEFINE b == [candles[1] EXCEPT !.made = Baseline]
    <3>1. 1 \in Frames /\ Baseline \in Nat /\ Baseline <= KeepBars /\ KeepBars \in Nat
      BY CandlesAssumption
    <3>2. BarsOf(1, candles[1])
      BY <1>1, <3>1
    <3>3. b \in BarsType /\ b.made = Baseline /\ b.closed = <<>> /\ b.cur = candles[1].cur
      BY <1>5, <3>1, <3>2 DEF BarsOf, BarsType
    <3>4. bs[1] = b /\ \A f \in Frames \ {1} : bs[f] = candles[f]
      BY <1>1, <3>1
    <3> HIDE DEF b, bs
    <3>5. BarsOf(1, b)
      BY <3>1, <3>2, <3>3 DEF BarsOf
    <3> QED
      BY <1>1, <3>4, <3>5
  <2> HIDE DEF t, bs, raw
  <2>4. \A a, b \in Nat : Larger(a, b) \in Nat /\ Larger(a, b) = IF a >= b THEN a ELSE b
    BY LargerSmaller
  <2>5. sums.vol \in Nat /\ sums.last \in Nat /\ raw \in Nat
    BY <1>1, <1>4
  <2>6. t.vol \in Nat /\ t.vol = IF sums.vol >= raw THEN sums.vol ELSE raw
    BY <2>2, <2>4, <2>5
  <2>7. t.last \in Nat /\ t.last = IF sums.last >= raw THEN sums.last ELSE raw
    BY <2>2, <2>4, <2>5
  <2> QED
    BY <1>1, <1>2, <1>4, <2>1, <2>2, <2>3, <2>6, <2>7, TickTaken
<1>6. CASE ~(candles[1].closed = <<>> /\ candles[1].made = 0)
  <2>1. OnTick(sums, candles, p, raw)
    BY <1>3, <1>6
  <2> HIDE DEF raw
  <2> QED
    BY <1>1, <1>2, <1>4, <2>1, TickTaken
<1> QED
  BY <1>5, <1>6

LEMMA CandlesStep ==
  ASSUME CandlesInv, CandlesNext \/ UNCHANGED candleVars
  PROVE  CandlesInv'
<1>1. CASE UNCHANGED candleVars
  BY <1>1 DEF candleVars, CandlesInv, VolumeCountedOnce
<1>2. CASE Trades
  <2>1. traded' \in Nat /\ traded' > traded /\ traded \in Nat
        /\ UNCHANGED <<candles, sums, gate, unit, page, ticks, sawOlder, extremes>>
    BY <1>2, CandlesAssumption DEF Trades, CandlesInv
  <2>2. sums.last <= traded' /\ page <= traded'
    BY <2>1 DEF CandlesInv
  <2> QED
    BY <2>1, <2>2 DEF CandlesInv, VolumeCountedOnce
<1>3. CASE TimePasses
  BY <1>3 DEF TimePasses, CandlesInv, VolumeCountedOnce
<1> QED
  BY <1>1, <1>2, <1>3, QuoteStep, RadarFindsStep DEF CandlesNext

LEMMA CandlesPromise == CandlesInv => CandlesTypeOK /\ VolumeCountedOnce
BY DEF CandlesInv, CandlesTypeOK, BarsOf

-----------------------------------------------------------------------------
(* What a longer bar tells of the shortest bars S with the indices A.      *)
Volumes(S) == [j \in DOMAIN S |-> S[j].vol]

TellsBars(L, S, A) ==
  /\ A \subseteq DOMAIN S
  /\ \E m \in A : L.open = S[m].open /\ \A j \in A : m <= j
  /\ \E m \in A : L.close = S[m].close /\ \A j \in A : j <= m
  /\ \E m \in A : L.high = S[m].high /\ \A j \in A : S[j].high <= L.high
  /\ \E m \in A : L.low = S[m].low /\ \A j \in A : L.low <= S[j].low
  /\ L.vol = SumFunctionOnSet(Volumes(S), A)

SpanOf(L, f, S) == {j \in DOMAIN S : S[j].start \in L.start .. L.start + f - 1}

(* The bar of one tick, and a bar after one tick more.                     *)
OneTick(L, p, v) == L.open = p /\ L.high = p /\ L.low = p /\ L.close = p /\ L.vol = v
TickMore(M, L, p, v) ==
  /\ M.start = L.start /\ M.open = L.open /\ M.close = p /\ M.vol = L.vol + v
  /\ M.high = Larger(L.high, p) /\ M.low = Smaller(L.low, p)

LEMMA SpanFinite ==
  ASSUME NEW S \in Seq(CandleType), NEW A, A \subseteq DOMAIN S
  PROVE  /\ IsFiniteSet(A) /\ A \subseteq Nat /\ \A j \in A : S[j] \in CandleType
         /\ \A j \in A : Volumes(S)[j] = S[j].vol /\ Volumes(S)[j] \in Int
<1>1. DOMAIN S = 1 .. Len(S) /\ Len(S) \in Nat /\ \A j \in DOMAIN S : S[j] \in CandleType
  BY LenProperties, ElementOfSeq
<1>2. IsFiniteSet(1 .. Len(S))
  BY <1>1, FS_Interval
<1>3. IsFiniteSet(A) /\ A \subseteq Nat
  BY <1>1, <1>2, FS_Subset
<1>4. \A j \in A : Volumes(S)[j] = S[j].vol /\ S[j].vol \in Int
  BY <1>1 DEF Volumes, CandleType
<1> QED
  BY <1>1, <1>3, <1>4

(* The same bars, other ones beside them.                                  *)
LEMMA TellsStill ==
  ASSUME NEW L, NEW S \in Seq(CandleType), NEW T \in Seq(CandleType), NEW A, TellsBars(L, S, A),
         A \subseteq DOMAIN T, \A j \in A : T[j] = S[j]
  PROVE  TellsBars(L, T, A)
<1>1. A \subseteq DOMAIN S
  BY DEF TellsBars
<1>2. \A j \in A : Volumes(S)[j] \in Int /\ Volumes(S)[j] = Volumes(T)[j]
  BY <1>1, SpanFinite
<1>3. SumFunctionOnSet(Volumes(S), A) = SumFunctionOnSet(Volumes(T), A)
  BY <1>1, <1>2, SpanFinite, SumEqual
<1> QED
  BY <1>3 DEF TellsBars

(* A bar of one tick tells of one bar.                                     *)
LEMMA TellsOne ==
  ASSUME NEW L, NEW S \in Seq(CandleType), NEW n \in DOMAIN S, NEW p \in Nat, NEW v \in Nat,
         OneTick(L, p, v), OneTick(S[n], p, v)
  PROVE  TellsBars(L, S, {n})
<1>1. n \in Nat /\ Volumes(S)[n] = v /\ v \in Int
  <2>1. {n} \subseteq DOMAIN S
    OBVIOUS
  <2> QED
    BY <2>1, SpanFinite DEF OneTick
<1>2. SumFunctionOnSet(Volumes(S), {n}) = v
  <2>1. IsFiniteSet({}) /\ {} \cup {n} = {n} /\ n \notin {}
    BY FS_EmptySet
  <2>2. SumFunctionOnSet(Volumes(S), {} \cup {n}) = SumFunctionOnSet(Volumes(S), {}) + Volumes(S)[n]
    BY <1>1, <2>1, SumAdd
  <2> QED
    BY <1>1, <2>1, <2>2, SumEmpty
<1> QED
  BY <1>1, <1>2 DEF TellsBars, OneTick

(* One bar more, of one tick, at the end of the span.                      *)
LEMMA TellsMore ==
  ASSUME NEW L \in CandleType, NEW S \in Seq(CandleType), NEW T \in Seq(CandleType), NEW A,
         TellsBars(L, S, A), NEW n \in DOMAIN T, A \subseteq DOMAIN T, \A j \in A : T[j] = S[j] /\ j < n,
         NEW p \in Nat, NEW v \in Nat, NEW M, TickMore(M, L, p, v), OneTick(T[n], p, v)
  PROVE  TellsBars(M, T, A \cup {n})
<1>1. TellsBars(L, T, A)
  BY TellsStill
<1> DEFINE Q == A \cup {n}
<1>2. /\ Q \subseteq DOMAIN T /\ IsFiniteSet(A) /\ A \subseteq Nat /\ n \in Nat /\ n \notin A
      /\ \A j \in Q : T[j] \in CandleType /\ Volumes(T)[j] = T[j].vol /\ Volumes(T)[j] \in Int
  <2>1. Q \subseteq DOMAIN T
    OBVIOUS
  <2>2. IsFiniteSet(A) /\ Q \subseteq Nat
    BY <2>1, SpanFinite
  <2>3. \A j \in Q : T[j] \in CandleType /\ Volumes(T)[j] = T[j].vol /\ Volumes(T)[j] \in Int
    BY <2>1, SpanFinite
  <2> QED
    BY <2>1, <2>2, <2>3
<1>3. \A j \in Q : T[j].high \in Nat /\ T[j].low \in Nat
  BY <1>2 DEF CandleType
<1>4. L.high \in Nat /\ L.low \in Nat /\ L.vol \in Nat
  BY DEF CandleType
<1>5. \E m \in Q : M.open = T[m].open /\ \A j \in Q : m <= j
  <2>1. PICK m \in A : L.open = T[m].open /\ \A j \in A : m <= j
    BY <1>1 DEF TellsBars
  <2>2. M.open = T[m].open /\ \A j \in Q : m <= j
    BY <1>2, <2>1 DEF TickMore
  <2> QED
    BY <2>2
<1>6. M.close = T[n].close /\ \A j \in Q : j <= n
  BY <1>2 DEF TickMore, OneTick
<1>7. \E m \in Q : M.high = T[m].high /\ \A j \in Q : T[j].high <= M.high
  <2>1. PICK m \in A : L.high = T[m].high /\ \A j \in A : T[j].high <= L.high
    BY <1>1 DEF TellsBars
  <2>2. M.high = (IF L.high >= p THEN L.high ELSE p) /\ T[n].high = p
    BY DEF TickMore, OneTick, Larger
  <2>3. \A j \in Q : T[j].high <= M.high
    BY <1>3, <1>4, <2>1, <2>2
  <2> QED
    BY <2>1, <2>2, <2>3
<1>8. \E m \in Q : M.low = T[m].low /\ \A j \in Q : M.low <= T[j].low
  <2>1. PICK m \in A : L.low = T[m].low /\ \A j \in A : L.low <= T[j].low
    BY <1>1 DEF TellsBars
  <2>2. M.low = (IF L.low <= p THEN L.low ELSE p) /\ T[n].low = p
    BY DEF TickMore, OneTick, Smaller
  <2>3. \A j \in Q : M.low <= T[j].low
    BY <1>3, <1>4, <2>1, <2>2
  <2> QED
    BY <2>1, <2>2, <2>3
<1>9. M.vol = SumFunctionOnSet(Volumes(T), Q)
  <2>1. SumFunctionOnSet(Volumes(T), Q) = SumFunctionOnSet(Volumes(T), A) + Volumes(T)[n]
    BY <1>2, SumAdd
  <2>2. Volumes(T)[n] = v
    BY <1>2 DEF OneTick
  <2> QED
    BY <1>1, <2>1, <2>2 DEF TickMore, TellsBars
<1> QED
  BY <1>2, <1>5, <1>6, <1>7, <1>8, <1>9 DEF TellsBars

LEMMA VolumesChange ==
  ASSUME NEW S, NEW T, NEW A, IsFiniteSet(A), NEW n \in A,
         \A j \in A : Volumes(S)[j] \in Int, \A j \in A : Volumes(T)[j] \in Int,
         \A j \in A \ {n} : Volumes(S)[j] = Volumes(T)[j]
  PROVE  SumFunctionOnSet(Volumes(T), A)
           = SumFunctionOnSet(Volumes(S), A) + Volumes(T)[n] - Volumes(S)[n]
<1>1. \A f, g : (/\ \A j \in A : f[j] \in Int /\ g[j] \in Int
                 /\ \A j \in A \ {n} : f[j] = g[j])
                  => SumFunctionOnSet(g, A) = SumFunctionOnSet(f, A) + g[n] - f[n]
  BY SumChange
<1> QED
  BY <1>1

(* One tick more in the last bar of the span.                              *)
LEMMA TellsTick ==
  ASSUME NEW L \in CandleType, NEW S \in Seq(CandleType), NEW T \in Seq(CandleType), NEW A,
         TellsBars(L, S, A), NEW n \in A, A \subseteq DOMAIN T,
         \A j \in A : j <= n /\ (j # n => T[j] = S[j]),
         NEW p \in Nat, NEW v \in Nat, NEW M, TickMore(M, L, p, v), TickMore(T[n], S[n], p, v)
  PROVE  TellsBars(M, T, A)
<1>1. A \subseteq DOMAIN S
  BY DEF TellsBars
<1>2. /\ IsFiniteSet(A) /\ A \subseteq Nat
      /\ \A j \in A : S[j] \in CandleType /\ Volumes(S)[j] = S[j].vol /\ Volumes(S)[j] \in Int
      /\ \A j \in A : T[j] \in CandleType /\ Volumes(T)[j] = T[j].vol /\ Volumes(T)[j] \in Int
  BY <1>1, SpanFinite
<1>3. \A j \in A : T[j].high \in Nat /\ T[j].low \in Nat /\ S[j].high \in Nat /\ S[j].low \in Nat
  BY <1>2 DEF CandleType
<1>4. L.high \in Nat /\ L.low \in Nat /\ L.vol \in Nat /\ S[n].vol \in Nat
  BY <1>2 DEF CandleType
<1>5. \E m \in A : M.open = T[m].open /\ \A j \in A : m <= j
  <2>1. PICK m \in A : L.open = S[m].open /\ \A j \in A : m <= j
    BY DEF TellsBars
  <2>2. T[m].open = S[m].open
    BY DEF TickMore
  <2> QED
    BY <2>1, <2>2 DEF TickMore
<1>6. M.close = T[n].close /\ \A j \in A : j <= n
  BY DEF TickMore
<1>7. \E m \in A : M.high = T[m].high /\ \A j \in A : T[j].high <= M.high
  <2>1. PICK m \in A : L.high = S[m].high /\ \A j \in A : S[j].high <= L.high
    BY DEF TellsBars
  <2>2. /\ M.high = (IF L.high >= p THEN L.high ELSE p)
        /\ T[n].high = (IF S[n].high >= p THEN S[n].high ELSE p)
    BY DEF TickMore, Larger
  <2>3. \A j \in A : j # n => T[j].high = S[j].high
    OBVIOUS
  <2>6. T[n].high <= M.high
    BY <1>3, <1>4, <2>1, <2>2
  <2>4. \A j \in A : T[j].high <= M.high
    <3>0. L.high <= M.high /\ M.high \in Nat
      BY <1>4, <2>2
    <3>1. ASSUME NEW j \in A, j # n PROVE T[j].high <= M.high
      <4>1. S[j].high \in Nat /\ S[j].high <= L.high
        BY <1>3, <2>1
      <4>2. T[j].high = S[j].high
        BY <2>3, <3>1
      <4>3. S[j].high <= M.high
        <5>1. L.high \in Nat /\ M.high \in Nat
          BY <1>4, <3>0
        <5> QED
          BY <3>0, <4>1, <5>1
      <4> QED
        BY <4>2, <4>3
    <3> QED
      BY <2>6, <3>1
  <2>5. M.high = T[m].high \/ M.high = T[n].high
    BY <1>3, <1>4, <2>1, <2>2, <2>3
  <2> QED
    BY <2>4, <2>5
<1>8. \E m \in A : M.low = T[m].low /\ \A j \in A : M.low <= T[j].low
  <2>1. PICK m \in A : L.low = S[m].low /\ \A j \in A : L.low <= S[j].low
    BY DEF TellsBars
  <2>2. /\ M.low = (IF L.low <= p THEN L.low ELSE p)
        /\ T[n].low = (IF S[n].low <= p THEN S[n].low ELSE p)
    BY DEF TickMore, Smaller
  <2>3. \A j \in A : j # n => T[j].low = S[j].low
    OBVIOUS
  <2>6. M.low <= T[n].low
    BY <1>3, <1>4, <2>1, <2>2
  <2>4. \A j \in A : M.low <= T[j].low
    <3>0. M.low <= L.low /\ M.low \in Nat
      BY <1>4, <2>2
    <3>1. ASSUME NEW j \in A, j # n PROVE M.low <= T[j].low
      <4>1. S[j].low \in Nat /\ L.low <= S[j].low
        BY <1>3, <2>1
      <4>2. T[j].low = S[j].low
        BY <2>3, <3>1
      <4>3. M.low <= S[j].low
        <5>1. L.low \in Nat /\ M.low \in Nat
          BY <1>4, <3>0
        <5> QED
          BY <3>0, <4>1, <5>1
      <4> QED
        BY <4>2, <4>3
    <3> QED
      BY <2>6, <3>1
  <2>5. M.low = T[m].low \/ M.low = T[n].low
    BY <1>3, <1>4, <2>1, <2>2, <2>3
  <2> QED
    BY <2>4, <2>5
<1>9. M.vol = SumFunctionOnSet(Volumes(T), A)
  <2> DEFINE s == SumFunctionOnSet(Volumes(S), A)
             t == SumFunctionOnSet(Volumes(T), A)
             a == Volumes(T)[n]
             b == Volumes(S)[n]
  <2>4. \A j \in A \ {n} : Volumes(S)[j] = Volumes(T)[j]
    BY <1>2
  <2>1. t = s + a - b
    BY <1>2, <2>4, VolumesChange
  <2>2. a = b + v /\ b \in Int
    BY <1>2, <1>4 DEF TickMore
  <2>3. M.vol = s + v /\ s \in Int
    BY <1>2, SumType DEF TickMore, TellsBars
  <2> HIDE DEF s, t, a, b
  <2> QED
    BY <2>1, <2>2, <2>3 DEF t
<1> QED
  BY <1>5, <1>6, <1>7, <1>8, <1>9 DEF TellsBars

-----------------------------------------------------------------------------
(* Where a bar begins.                                                     *)
Aligned(u, f) == u - (u % f)

LEMMA AlignedIs ==
  ASSUME NEW s \in Nat, NEW u \in Nat, s <= u, NEW f \in Nat \ {0}
  PROVE  /\ Aligned(s, f) \in Nat /\ Aligned(u, f) \in Nat
         /\ Aligned(s, f) <= s /\ s <= Aligned(s, f) + f - 1
         /\ Aligned(u, f) <= u /\ u <= Aligned(u, f) + f - 1
         /\ \/ Aligned(u, f) = Aligned(s, f)
            \/ Aligned(u, f) > Aligned(s, f) /\ Aligned(s, f) + f <= Aligned(u, f)
<1> DEFINE d == u \div f
           m == u % f
           e == s \div f
           k == s % f
<1>1. /\ u = f * d + m /\ m \in 0 .. f - 1 /\ d \in Nat
      /\ s = f * e + k /\ k \in 0 .. f - 1 /\ e \in Nat
  OBVIOUS
<1>2. Aligned(u, f) = u - m /\ Aligned(s, f) = s - k
  BY DEF Aligned
<1> HIDE DEF d, m, e, k
<1> DEFINE a == f * d
           b == f * e
<1>3. a \in Nat /\ b \in Nat
  BY <1>1
<1>4. Aligned(u, f) = a /\ Aligned(s, f) = b /\ u = a + m /\ s = b + k
  BY <1>1, <1>2, <1>3
<1>5. a = b + f * (d - e)
  BY <1>1
<1>6. CASE d - e >= 1
  <2>1. f * (d - e) >= f
    BY <1>1, <1>6
  <2>2. f * (d - e) \in Int
    BY <1>1
  <2> DEFINE g == f * (d - e)
  <2>3. g \in Int /\ g >= f /\ a = b + g
    BY <1>5, <2>1, <2>2
  <2> HIDE DEF g, a, b
  <2> QED
    BY <1>1, <1>3, <1>4, <2>3
<1>7. CASE d - e = 0
  <2>1. a = b
    BY <1>1, <1>7
  <2> HIDE DEF a, b
  <2> QED
    BY <1>1, <1>3, <1>4, <2>1
<1>8. CASE d - e <= -1
  <2>1. f * (d - e) <= -f
    BY <1>1, <1>8
  <2>2. f * (d - e) \in Int
    BY <1>1
  <2> DEFINE g == f * (d - e)
  <2>3. g \in Int /\ g <= -f /\ a = b + g
    BY <1>5, <2>1, <2>2
  <2> HIDE DEF g, a, b
  <2> QED
    BY <1>1, <1>3, <1>4, <2>3
<1> QED
  BY <1>1, <1>6, <1>7, <1>8

LEMMA KeptClosed ==
  ASSUME NEW f, NEW b, BarsOf(f, b)
  PROVE  LET k == Kept(b) IN
         /\ k.closed \in Seq(CandleType) /\ Len(k.closed) >= Len(b.closed)
         /\ \A L \in Range(k.closed) : L \in Range(b.closed) \/ L = b.cur
         /\ Len(k.closed) < KeepBars => k.closed = Append(b.closed, b.cur)
<1> DEFINE all == Append(b.closed, b.cur)
           k == Kept(b)
<1>1. /\ b \in BarsType /\ b.cur \in CandleType /\ b.closed \in Seq(CandleType) /\ b.made \in Nat
      /\ Len(b.closed) \in Nat /\ KeepBars \in Nat /\ b.made + Len(b.closed) <= KeepBars
  BY CandlesAssumption, LenProperties DEF BarsOf, BarsType
<1>2. /\ all \in Seq(CandleType) /\ Len(all) = Len(b.closed) + 1 /\ all # <<>>
      /\ DOMAIN all = 1 .. Len(b.closed) + 1 /\ DOMAIN b.closed = 1 .. Len(b.closed)
      /\ \A i \in 1 .. Len(b.closed) : all[i] = b.closed[i]
      /\ all[Len(b.closed) + 1] = b.cur
  BY <1>1, AppendProperties, LenProperties
<1>3. \A L \in Range(all) : L \in Range(b.closed) \/ L = b.cur
  BY <1>1, <1>2 DEF Range
<1>4. /\ Tail(all) \in Seq(CandleType) /\ Len(Tail(all)) = Len(b.closed)
      /\ \A L \in Range(Tail(all)) : L \in Range(all)
  <2>1. /\ Tail(all) \in Seq(CandleType) /\ Len(Tail(all)) = Len(all) - 1
        /\ \A i \in 1 .. Len(all) - 1 : Tail(all)[i] = all[i + 1]
    BY <1>2, HeadTailProperties
  <2> HIDE DEF all
  <2>2. DOMAIN Tail(all) = 1 .. Len(all) - 1
    BY <2>1, LenProperties
  <2> QED
    BY <1>1, <1>2, <2>1, <2>2 DEF Range
<1>5. k.closed = IF b.made + Len(all) <= KeepBars \/ b.made > 0 THEN all ELSE Tail(all)
  BY <1>1 DEF Kept, BarsType
<1> HIDE DEF all, k
<1>6. CASE b.made + Len(all) <= KeepBars \/ b.made > 0
  BY <1>1, <1>2, <1>3, <1>5, <1>6 DEF k, all
<1>7. CASE ~(b.made + Len(all) <= KeepBars \/ b.made > 0)
  <2>1. k.closed = Tail(all) /\ ~(Len(k.closed) < KeepBars)
    BY <1>1, <1>2, <1>4, <1>5, <1>7
  <2> QED
    BY <1>1, <1>3, <1>4, <2>1 DEF k
<1> QED
  BY <1>6, <1>7

(* What a tick makes of the bars of a length.                              *)
LEMMA BarredIs ==
  ASSUME NEW f \in Nat \ {0}, NEW b, BarsOf(f, b), NEW p \in Nat, NEW v \in Nat
  PROVE  LET r == Barred(b, f, p, v) IN
         /\ b.cur = NoBar \/ Aligned(unit, f) > b.cur.start
              => r.cur.start = Aligned(unit, f) /\ OneTick(r.cur, p, v)
         /\ b.cur = NoBar => r.closed = b.closed
         /\ b.cur # NoBar /\ Aligned(unit, f) > b.cur.start => r.closed = Kept(b).closed
         /\ b.cur # NoBar /\ ~(Aligned(unit, f) > b.cur.start)
              => TickMore(r.cur, b.cur, p, v) /\ r.closed = b.closed
<1> DEFINE new == NewBar(f, p, v)
           k == Kept(b)
           r == Barred(b, f, p, v)
<1>1. new.start = Aligned(unit, f) /\ OneTick(new, p, v)
  BY DEF NewBar, OneTick, Aligned
<1>2. b \in BarsType /\ k \in BarsType
  BY KeptBars DEF BarsOf
<1> HIDE DEF new, k
<1>3. CASE b.cur = NoBar
  <2>1. r = [b EXCEPT !.cur = new]
    BY <1>3 DEF Barred, new
  <2> HIDE DEF r
  <2>2. r.cur = new /\ r.closed = b.closed
    BY <1>2, <2>1 DEF BarsType
  <2> QED
    BY <1>1, <1>3, <2>2 DEF r
<1>4. CASE b.cur # NoBar /\ Aligned(unit, f) > b.cur.start
  <2>1. r = [k EXCEPT !.cur = new]
    BY <1>1, <1>4 DEF Barred, new, k
  <2> HIDE DEF r
  <2>2. r.cur = new /\ r.closed = k.closed
    BY <1>2, <2>1 DEF BarsType
  <2> QED
    BY <1>1, <1>4, <2>2 DEF r, k
<1>5. CASE b.cur # NoBar /\ ~(Aligned(unit, f) > b.cur.start)
  <2>1. r = [b EXCEPT !.cur.high = Larger(b.cur.high, p), !.cur.low = Smaller(b.cur.low, p),
                      !.cur.close = p, !.cur.vol = b.cur.vol + v]
    BY <1>1, <1>5 DEF Barred, new
  <2> HIDE DEF r
  <2>2. TickMore(r.cur, b.cur, p, v) /\ r.closed = b.closed
    BY <1>2, <2>1 DEF BarsType, CandleType, TickMore
  <2> QED
    BY <1>5, <2>2 DEF r
<1> QED
  BY <1>3, <1>4, <1>5

(* The bars begin together, each length's at its own multiple, and the     *)
(* clock does not run back.                                                *)
BarsBegin(cs, u) ==
  /\ cs[1].cur = NoBar => \A f \in Frames : cs[f].cur = NoBar /\ cs[f].closed = <<>>
  /\ cs[1].cur # NoBar =>
       /\ cs[1].cur.start <= u
       /\ \A f \in Frames : cs[f].cur # NoBar /\ cs[f].cur.start = Aligned(cs[1].cur.start, f)

(* A longer bar tells what the shortest bars of its span tell: the finished*)
(* ones of the finished, the current one of the current as well.           *)
LongOf(b, f, s) ==
  LET S == Append(s.closed, s.cur)
  IN  /\ TellsBars(b.cur, S, SpanOf(b.cur, f, S))
      /\ \A L \in Range(b.closed) :
           L.start + f <= s.cur.start /\ TellsBars(L, s.closed, SpanOf(L, f, s.closed))

Earlier(s) == \A j \in DOMAIN s.closed : s.closed[j].start < s.cur.start

LongTell(cs) ==
  cs[1].cur # NoBar /\ Len(cs[1].closed) < KeepBars =>
    Earlier(cs[1]) /\ \A f \in Frames \ {1} : LongOf(cs[f], f, cs[1])

(* T is S with the bar c after it, at n.                                   *)
Added(T, S, c, n) ==
  /\ T \in Seq(CandleType) /\ S \in Seq(CandleType) /\ n \in Nat
  /\ DOMAIN T = DOMAIN S \cup {n} /\ T[n] = c /\ DOMAIN S \subseteq Nat
  /\ \A j \in DOMAIN S : j < n /\ T[j] = S[j] /\ S[j] \in CandleType

LEMMA AppendAdds ==
  ASSUME NEW S \in Seq(CandleType), NEW c \in CandleType
  PROVE  Added(Append(S, c), S, c, Len(S) + 1)
<1> DEFINE T == Append(S, c)
<1>1. /\ T \in Seq(CandleType) /\ Len(T) = Len(S) + 1 /\ Len(S) \in Nat
      /\ \A i \in 1 .. Len(S) : T[i] = S[i]
      /\ T[Len(S) + 1] = c
  BY AppendProperties, LenProperties
<1>2. DOMAIN T = 1 .. Len(S) + 1 /\ DOMAIN S = 1 .. Len(S)
  BY <1>1, LenProperties
<1>3. \A j \in DOMAIN S : S[j] \in CandleType
  BY ElementOfSeq, <1>2
<1> HIDE DEF T
<1>4. DOMAIN T = DOMAIN S \cup {Len(S) + 1} /\ \A j \in DOMAIN S : j < Len(S) + 1 /\ T[j] = S[j]
  BY <1>1, <1>2
<1> QED
  BY <1>1, <1>2, <1>3, <1>4 DEF Added, T

LEMMA SpanAdded ==
  ASSUME NEW T, NEW S, NEW c, NEW n, Added(T, S, c, n), NEW L, NEW f
  PROVE  /\ c.start \in L.start .. L.start + f - 1 => SpanOf(L, f, T) = SpanOf(L, f, S) \cup {n}
         /\ c.start \notin L.start .. L.start + f - 1 => SpanOf(L, f, T) = SpanOf(L, f, S)
BY DEF Added, SpanOf

LEMMA BeyondSpan ==
  \A x, y, z, a, f \in Nat : x <= y /\ y <= z + f - 1 /\ a >= z + f => x < a
OBVIOUS

(* The first tick.                                                         *)
LEMMA LongFirst ==
  ASSUME NEW s, NEW b, s.closed = <<>>, b.closed = <<>>, s.cur \in CandleType, b.cur \in CandleType,
         NEW p \in Nat, NEW v \in Nat, OneTick(s.cur, p, v), OneTick(b.cur, p, v),
         NEW f \in Nat \ {0}, s.cur.start = unit, unit \in Nat, b.cur.start = Aligned(unit, f)
  PROVE  LongOf(b, f, s)
<1> DEFINE S == Append(s.closed, s.cur)
<1>1. Added(S, <<>>, s.cur, 1)
  <2>1. <<>> \in Seq(CandleType) /\ Len(<<>>) = 0
    OBVIOUS
  <2>2. Added(Append(<<>>, s.cur), <<>>, s.cur, Len(<<>>) + 1)
    BY <2>1, AppendAdds
  <2> QED
    BY <2>1, <2>2
<1>2. s.cur.start \in b.cur.start .. b.cur.start + f - 1
  BY AlignedIs
<1>3. SpanOf(b.cur, f, S) = {1}
  <2>1. SpanOf(b.cur, f, S) = SpanOf(b.cur, f, <<>>) \cup {1}
    BY <1>1, <1>2, SpanAdded
  <2>2. SpanOf(b.cur, f, <<>>) = {}
    BY DEF SpanOf
  <2> QED
    BY <2>1, <2>2
<1> HIDE DEF S
<1>4. TellsBars(b.cur, S, {1})
  BY <1>1, TellsOne DEF Added
<1>5. Range(b.closed) = {}
  BY DEF Range
<1> QED
  BY <1>3, <1>4, <1>5 DEF LongOf, S

(* A tick in the shortest bar that is open: the longer one takes it too.   *)
LEMMA LongTick ==
  ASSUME NEW s, NEW b, NEW s2, NEW b2, NEW f \in Nat \ {0}, LongOf(b, f, s),
         s \in BarsType, b \in BarsType, s2 \in BarsType, NEW p \in Nat, NEW v \in Nat,
         TickMore(s2.cur, s.cur, p, v), s2.closed = s.closed,
         TickMore(b2.cur, b.cur, p, v), b2.closed = b.closed,
         b.cur.start = Aligned(s.cur.start, f)
  PROVE  LongOf(b2, f, s2)
<1> DEFINE S == Append(s.closed, s.cur)
           T == Append(s2.closed, s2.cur)
           n == Len(s.closed) + 1
           A == SpanOf(b.cur, f, S)
<1>1. /\ s.closed \in Seq(CandleType) /\ s.cur \in CandleType /\ s2.cur \in CandleType
      /\ b.cur \in CandleType /\ s.cur.start \in Nat
  BY DEF BarsType, CandleType
<1>2. Added(S, s.closed, s.cur, n) /\ Added(T, s.closed, s2.cur, n)
  BY <1>1, AppendAdds
<1>3. s2.cur.start = s.cur.start /\ b2.cur.start = b.cur.start
  BY DEF TickMore
<1>4. s.cur.start \in b.cur.start .. b.cur.start + f - 1
  <2>1. s.cur.start <= s.cur.start
    BY <1>1
  <2>2. /\ b.cur.start \in Nat /\ b.cur.start <= s.cur.start
        /\ s.cur.start <= b.cur.start + f - 1
    BY <1>1, <2>1, AlignedIs
  <2> QED
    BY <1>1, <2>2
<1> HIDE DEF S, T, n
<1>5. A = SpanOf(b.cur, f, s.closed) \cup {n}
  BY <1>2, <1>4, SpanAdded
<1>6. SpanOf(b2.cur, f, T) = A
  <2>1. SpanOf(b2.cur, f, T) = SpanOf(b2.cur, f, s.closed) \cup {n}
    BY <1>2, <1>3, <1>4, SpanAdded
  <2>2. SpanOf(b2.cur, f, s.closed) = SpanOf(b.cur, f, s.closed)
    BY <1>3 DEF SpanOf
  <2> QED
    BY <1>5, <2>1, <2>2
<1>7. TellsBars(b.cur, S, A)
  BY DEF LongOf, S
<1>8. SpanOf(b.cur, f, s.closed) \subseteq DOMAIN s.closed
  BY DEF SpanOf
<1> HIDE DEF A
<1>9. /\ S \in Seq(CandleType) /\ T \in Seq(CandleType) /\ n \in A /\ A \subseteq DOMAIN T
      /\ \A j \in A : j <= n /\ (j # n => T[j] = S[j])
      /\ TickMore(T[n], S[n], p, v)
  BY <1>2, <1>5, <1>8 DEF Added
<1>10. TellsBars(b2.cur, T, A)
  BY <1>1, <1>7, <1>9, TellsTick
<1>11. \A L \in Range(b.closed) :
         L.start + f <= s.cur.start /\ TellsBars(L, s.closed, SpanOf(L, f, s.closed))
  BY DEF LongOf
<1> QED
  BY <1>3, <1>6, <1>10, <1>11 DEF LongOf, T

(* A tick that begins a new shortest bar: the longer one goes on or closes.*)
LEMMA LongBar ==
  ASSUME NEW s, NEW b, NEW s2, NEW b2, NEW f \in Nat \ {0}, LongOf(b, f, s), Earlier(s),
         s \in BarsType, b \in BarsType, s2 \in BarsType, b2 \in BarsType, NEW p \in Nat, NEW v \in Nat,
         unit \in Nat, unit > s.cur.start, b.cur.start = Aligned(s.cur.start, f),
         s2.cur.start = unit, OneTick(s2.cur, p, v), s2.closed = Append(s.closed, s.cur),
         \/ /\ Aligned(unit, f) > b.cur.start /\ b2.cur.start = Aligned(unit, f)
            /\ OneTick(b2.cur, p, v)
            /\ \A L \in Range(b2.closed) : L \in Range(b.closed) \/ L = b.cur
         \/ /\ ~(Aligned(unit, f) > b.cur.start)
            /\ TickMore(b2.cur, b.cur, p, v) /\ b2.closed = b.closed
  PROVE  LongOf(b2, f, s2)
<1> DEFINE S == Append(s.closed, s.cur)
           T == Append(S, s2.cur)
           m == Len(s.closed) + 1
           n == Len(S) + 1
           A == SpanOf(b.cur, f, S)
           a == Aligned(unit, f)
<1>1. /\ s.closed \in Seq(CandleType) /\ s.cur \in CandleType /\ s2.cur \in CandleType
      /\ b.cur \in CandleType /\ s.cur.start \in Nat /\ b2.cur \in CandleType
      /\ b.closed \in Seq(CandleType)
  BY DEF BarsType, CandleType
<1>2. Added(S, s.closed, s.cur, m) /\ Added(T, S, s2.cur, n)
  <2>1. Added(S, s.closed, s.cur, m)
    BY <1>1, AppendAdds
  <2>2. S \in Seq(CandleType)
    BY <2>1 DEF Added
  <2> QED
    BY <1>1, <2>1, <2>2, AppendAdds
<1>3. /\ a \in Nat /\ a <= unit /\ unit <= a + f - 1
      /\ b.cur.start \in Nat /\ b.cur.start <= s.cur.start /\ s.cur.start <= b.cur.start + f - 1
      /\ a # b.cur.start => a > b.cur.start /\ b.cur.start + f <= a
  <2> DEFINE e == Aligned(s.cur.start, f)
  <2>1. s.cur.start <= unit
    BY <1>1
  <2>2. /\ e \in Nat /\ a \in Nat /\ e <= s.cur.start /\ s.cur.start <= e + f - 1
        /\ a <= unit /\ unit <= a + f - 1
        /\ a # e => a > e /\ e + f <= a
    BY <1>1, <2>1, AlignedIs
  <2> QED
    BY <2>2
<1> HIDE DEF S, T, m, n, a
<1>4. TellsBars(b.cur, S, A) /\ A \subseteq DOMAIN S
  BY DEF LongOf, S, SpanOf
<1>5. \A j \in DOMAIN S : S[j].start \in Nat /\ S[j].start <= s.cur.start
  <2>1. \A j \in DOMAIN s.closed : s.closed[j].start \in Nat /\ s.closed[j].start <= s.cur.start
    <3>1. \A j \in DOMAIN s.closed : s.closed[j] \in CandleType
      BY <1>2 DEF Added
    <3>2. \A j \in DOMAIN s.closed : s.closed[j].start \in Nat
      BY <3>1 DEF CandleType
    <3>3. \A j \in DOMAIN s.closed : s.closed[j].start < s.cur.start
      BY DEF Earlier
    <3> QED
      BY <1>1, <3>2, <3>3
  <2>2. /\ DOMAIN S = DOMAIN s.closed \cup {m} /\ S[m] = s.cur
        /\ \A j \in DOMAIN s.closed : S[j] = s.closed[j]
    BY <1>2 DEF Added
  <2> QED
    BY <1>1, <2>1, <2>2
<1>6. ASSUME NEW L \in Range(b.closed)
      PROVE  L.start + f <= unit /\ TellsBars(L, S, SpanOf(L, f, S))
  <2>1. L.start + f <= s.cur.start /\ TellsBars(L, s.closed, SpanOf(L, f, s.closed))
    BY <1>6 DEF LongOf
  <2>2. L.start \in Nat
    <3>1. L \in CandleType
      <4>1. PICK i \in DOMAIN b.closed : L = b.closed[i]
        BY <1>6 DEF Range
      <4>2. i \in 1 .. Len(b.closed)
        BY <1>1, LenProperties
      <4> QED
        BY <1>1, <4>1, <4>2, ElementOfSeq
    <3> QED
      BY <3>1 DEF CandleType
  <2>3. SpanOf(L, f, S) = SpanOf(L, f, s.closed)
    BY <1>1, <1>2, <2>1, <2>2, SpanAdded
  <2>4. SpanOf(L, f, s.closed) \subseteq DOMAIN s.closed
    BY DEF SpanOf
  <2>5. TellsBars(L, S, SpanOf(L, f, s.closed))
    BY <1>1, <1>2, <2>1, <2>4, TellsStill DEF Added
  <2> QED
    BY <1>1, <2>1, <2>2, <2>3, <2>5
<1>7. CASE a > b.cur.start
  <2>1. /\ b2.cur.start = a /\ OneTick(b2.cur, p, v)
        /\ \A L \in Range(b2.closed) : L \in Range(b.closed) \/ L = b.cur
    BY <1>7 DEF a
  <2>2. b.cur.start + f <= unit
    BY <1>1, <1>3, <1>7
  <2>3. \A L \in Range(b2.closed) : L.start + f <= unit /\ TellsBars(L, S, SpanOf(L, f, S))
    BY <1>4, <1>6, <2>1, <2>2
  <2>4. SpanOf(b2.cur, f, T) = {n}
    <3>1. SpanOf(b2.cur, f, T) = SpanOf(b2.cur, f, S) \cup {n}
      <4>1. s2.cur.start \in b2.cur.start .. b2.cur.start + f - 1
        BY <1>3, <2>1
      <4> QED
        BY <1>2, <4>1, SpanAdded
    <3>2. \A j \in DOMAIN S : S[j].start < a
      <4>1. a >= b.cur.start + f
        BY <1>3, <1>7
      <4> QED
        BY <1>1, <1>3, <1>5, <4>1, BeyondSpan
    <3>3. SpanOf(b2.cur, f, S) = {}
      BY <1>3, <1>5, <2>1, <3>2 DEF SpanOf
    <3> QED
      BY <3>1, <3>3
  <2>5. TellsBars(b2.cur, T, {n})
    BY <1>2, <2>1, TellsOne DEF Added
  <2> QED
    BY <2>3, <2>4, <2>5 DEF LongOf, S, T
<1>8. CASE ~(a > b.cur.start)
  <2>1. TickMore(b2.cur, b.cur, p, v) /\ b2.closed = b.closed /\ a = b.cur.start
    BY <1>3, <1>8 DEF a
  <2>2. b2.cur.start = b.cur.start
    BY <2>1 DEF TickMore
  <2>3. SpanOf(b2.cur, f, T) = A \cup {n}
    <3>1. SpanOf(b2.cur, f, T) = SpanOf(b2.cur, f, S) \cup {n}
      <4>1. s2.cur.start \in b2.cur.start .. b2.cur.start + f - 1
        BY <1>3, <2>1, <2>2
      <4> QED
        BY <1>2, <4>1, SpanAdded
    <3>2. SpanOf(b2.cur, f, S) = A
      BY <2>2 DEF SpanOf
    <3> QED
      BY <3>1, <3>2
  <2> HIDE DEF A
  <2>4. TellsBars(b2.cur, T, A \cup {n})
    <3>1. /\ S \in Seq(CandleType) /\ T \in Seq(CandleType) /\ n \in DOMAIN T /\ A \subseteq DOMAIN T
          /\ \A j \in A : T[j] = S[j] /\ j < n
          /\ OneTick(T[n], p, v)
      BY <1>2, <1>4 DEF Added
    <3> QED
      BY <1>1, <1>4, <2>1, <3>1, TellsMore
  <2> QED
    BY <1>6, <2>1, <2>3, <2>4 DEF LongOf, S, T
<1> QED
  BY <1>7, <1>8

-----------------------------------------------------------------------------
(* A tick keeps the bars of all lengths together.                          *)
TickBarred(bs, cs, p, v) ==
  /\ \A f \in Frames : BarsOf(f, bs[f]) /\ cs[f] = Barred(bs[f], f, p, v)
  /\ p \in Nat /\ v \in Nat /\ unit \in Nat /\ unit <= LastUnit
  /\ BarsBegin(bs, unit)

LEMMA FramesAre == 1 \in Frames /\ \A f \in Frames : f \in Nat \ {0}
BY CandlesAssumption

(* What the tick makes of the bars of length f, when they are open.        *)
LEMMA TickBegins ==
  ASSUME NEW bs, NEW cs, NEW p, NEW v, TickBarred(bs, cs, p, v), NEW f \in Frames
  PROVE  /\ cs[f] \in BarsType /\ bs[f] \in BarsType
         /\ cs[f].cur.start = Aligned(unit, f)
         /\ bs[1].cur = NoBar => OneTick(cs[f].cur, p, v) /\ cs[f].closed = <<>>
         /\ bs[1].cur # NoBar =>
              /\ bs[1].cur.start \in Nat /\ bs[1].cur.start <= unit
              /\ bs[f].cur # NoBar /\ bs[f].cur.start = Aligned(bs[1].cur.start, f)
         /\ bs[1].cur # NoBar /\ Aligned(unit, f) > bs[f].cur.start =>
              OneTick(cs[f].cur, p, v) /\ cs[f].closed = Kept(bs[f]).closed
         /\ bs[1].cur # NoBar /\ ~(Aligned(unit, f) > bs[f].cur.start) =>
              TickMore(cs[f].cur, bs[f].cur, p, v) /\ cs[f].closed = bs[f].closed
<1> DEFINE s == bs[1]
           b == bs[f]
           c == cs[f]
<1>1. /\ f \in Nat \ {0} /\ BarsOf(f, b) /\ c = Barred(b, f, p, v) /\ BarsOf(1, s)
      /\ p \in Nat /\ v \in Nat /\ unit \in Nat /\ unit <= LastUnit
  BY FramesAre DEF TickBarred
<1>2. /\ s.cur = NoBar => b.cur = NoBar /\ b.closed = <<>>
      /\ s.cur # NoBar => s.cur.start <= unit /\ b.cur # NoBar
                         /\ b.cur.start = Aligned(s.cur.start, f)
  BY FramesAre DEF TickBarred, BarsBegin
<1>3. c \in BarsType /\ b \in BarsType /\ s.cur.start \in Nat
  <2>1. BarsOf(f, Barred(b, f, p, v))
    BY <1>1, BarredBars
  <2> QED
    BY <1>1, <2>1 DEF BarsOf, BarsType, CandleType
<1>4. /\ b.cur = NoBar \/ Aligned(unit, f) > b.cur.start
           => c.cur.start = Aligned(unit, f) /\ OneTick(c.cur, p, v)
      /\ b.cur = NoBar => c.closed = b.closed
      /\ b.cur # NoBar /\ Aligned(unit, f) > b.cur.start => c.closed = Kept(b).closed
      /\ b.cur # NoBar /\ ~(Aligned(unit, f) > b.cur.start)
           => TickMore(c.cur, b.cur, p, v) /\ c.closed = b.closed
  BY <1>1, BarredIs
<1> HIDE DEF s, b, c
<1>5. CASE s.cur = NoBar
  BY <1>2, <1>3, <1>4, <1>5 DEF s, b, c
<1>6. CASE s.cur # NoBar
  <2>1. /\ Aligned(s.cur.start, f) \in Nat /\ Aligned(unit, f) \in Nat
        /\ ~(Aligned(unit, f) > Aligned(s.cur.start, f)) => Aligned(unit, f) = Aligned(s.cur.start, f)
    BY <1>1, <1>2, <1>3, <1>6, AlignedIs
  <2>2. c.cur.start = Aligned(unit, f)
    <3>1. CASE Aligned(unit, f) > b.cur.start
      BY <1>4, <3>1
    <3>2. CASE ~(Aligned(unit, f) > b.cur.start)
      BY <1>2, <1>4, <1>6, <2>1, <3>2 DEF TickMore
    <3> QED
      BY <3>1, <3>2
  <2> QED
    BY <1>2, <1>3, <1>4, <1>6, <2>2 DEF s, b, c
<1> QED
  BY <1>5, <1>6

LEMMA AlignedToOne == \A u \in Nat : Aligned(u, 1) = u
<1> SUFFICES ASSUME NEW u \in Nat PROVE Aligned(u, 1) = u
  OBVIOUS
<1>1. u <= u /\ 1 \in Nat \ {0}
  OBVIOUS
<1>2. Aligned(u, 1) \in Nat /\ Aligned(u, 1) <= u /\ u <= Aligned(u, 1) + 1 - 1
  BY <1>1, AlignedIs
<1> DEFINE a == Aligned(u, 1)
<1> HIDE DEF a
<1>3. a \in Nat /\ a <= u /\ u <= a + 1 - 1
  BY <1>2 DEF a
<1>4. a = u
  BY <1>3
<1> QED
  BY <1>4 DEF a

LEMMA TickBarsBegin ==
  ASSUME NEW bs, NEW cs, NEW p, NEW v, TickBarred(bs, cs, p, v)
  PROVE  BarsBegin(cs, unit) /\ cs[1].cur.start = unit
<1>1. /\ 1 \in Frames /\ unit \in Nat /\ unit <= LastUnit /\ LastUnit \in Nat
      /\ \A f \in Frames : f \in Nat \ {0}
  BY FramesAre, CandlesAssumption DEF TickBarred
<1>2. \A f \in Frames : cs[f].cur.start = Aligned(unit, f)
  BY TickBegins
<1>3. cs[1].cur.start = unit
  BY <1>1, <1>2, AlignedToOne
<1>4. ASSUME NEW f \in Frames PROVE cs[f].cur # NoBar
  <2>1. unit <= unit
    BY <1>1
  <2>2. Aligned(unit, f) \in Nat /\ Aligned(unit, f) <= unit
    BY <1>1, <2>1, AlignedIs
  <2>3. cs[f].cur.start <= LastUnit /\ cs[f].cur.start \in Nat
    BY <1>1, <1>2, <2>2
  <2>4. NoBar.start = LastUnit + 1
    BY DEF NoBar
  <2>5. cs[f].cur.start # NoBar.start
    BY <1>1, <2>3, <2>4
  <2> QED
    BY <2>5
<1> QED
  BY <1>1, <1>2, <1>3, <1>4 DEF BarsBegin

LEMMA TickLongTell ==
  ASSUME NEW bs, NEW cs, NEW p, NEW v, TickBarred(bs, cs, p, v), LongTell(bs),
         Len(cs[1].closed) < KeepBars
  PROVE  Earlier(cs[1]) /\ \A f \in Frames \ {1} : LongOf(cs[f], f, cs[1])
<1> DEFINE s == bs[1]
           t == cs[1]
<1>1. /\ 1 \in Frames /\ p \in Nat /\ v \in Nat /\ unit \in Nat /\ BarsOf(1, s)
      /\ \A f \in Frames : f \in Nat \ {0} /\ BarsOf(f, bs[f])
      /\ Aligned(unit, 1) = unit
  BY FramesAre, AlignedToOne DEF TickBarred
<1>2. /\ t \in BarsType /\ s \in BarsType /\ t.cur.start = unit
      /\ s.cur = NoBar => OneTick(t.cur, p, v) /\ t.closed = <<>>
      /\ s.cur # NoBar => s.cur.start \in Nat /\ s.cur.start <= unit
      /\ s.cur # NoBar /\ unit > s.cur.start => OneTick(t.cur, p, v) /\ t.closed = Kept(s).closed
      /\ s.cur # NoBar /\ ~(unit > s.cur.start) =>
           TickMore(t.cur, s.cur, p, v) /\ t.closed = s.closed
  BY <1>1, TickBegins
<1>3. CASE s.cur = NoBar
  <2>1. Earlier(t)
    BY <1>2, <1>3 DEF Earlier
  <2>2. ASSUME NEW f \in Frames \ {1} PROVE LongOf(cs[f], f, t)
    <3>1. /\ cs[f] \in BarsType /\ cs[f].cur.start = Aligned(unit, f)
          /\ OneTick(cs[f].cur, p, v) /\ cs[f].closed = <<>>
      BY <1>3, TickBegins
    <3>2. cs[f].cur \in CandleType /\ t.cur \in CandleType
      BY <1>2, <3>1 DEF BarsType
    <3> QED
      BY <1>1, <1>2, <1>3, <3>1, <3>2, LongFirst
  <2> QED
    BY <2>1, <2>2
<1>4. CASE s.cur # NoBar /\ ~(unit > s.cur.start)
  <2>1. Earlier(s) /\ \A f \in Frames \ {1} : LongOf(bs[f], f, s)
    BY <1>2, <1>4 DEF LongTell
  <2>2. Earlier(t)
    BY <1>2, <1>4, <2>1 DEF Earlier, TickMore
  <2>3. s.cur.start = unit
    BY <1>1, <1>2, <1>4
  <2>4. ASSUME NEW f \in Frames \ {1} PROVE LongOf(cs[f], f, t)
    <3>1. /\ cs[f] \in BarsType /\ bs[f] \in BarsType
          /\ bs[f].cur.start = Aligned(s.cur.start, f)
      BY <1>4, TickBegins
    <3>2. ~(Aligned(unit, f) > bs[f].cur.start)
      <4>1. Aligned(unit, f) \in Nat
        BY <1>1, <1>2, <1>4, <2>3, AlignedIs
      <4> QED
        BY <2>3, <3>1, <4>1
    <3>3. TickMore(cs[f].cur, bs[f].cur, p, v) /\ cs[f].closed = bs[f].closed
      BY <1>4, <3>2, TickBegins
    <3> HIDE DEF s, t
    <3> QED
      BY <1>1, <1>2, <1>4, <2>1, <3>1, <3>3, LongTick
  <2> QED
    BY <2>2, <2>4
<1>5. CASE s.cur # NoBar /\ unit > s.cur.start
  <2>1. /\ Len(Kept(s).closed) >= Len(s.closed) /\ t.closed = Append(s.closed, s.cur)
        /\ OneTick(t.cur, p, v)
    <3>1. /\ Len(Kept(s).closed) >= Len(s.closed)
          /\ Len(Kept(s).closed) < KeepBars => Kept(s).closed = Append(s.closed, s.cur)
      BY <1>1, KeptClosed
    <3> QED
      BY <1>2, <1>5, <3>1
  <2>2. Len(s.closed) < KeepBars
    <3>1. Len(s.closed) \in Nat /\ Len(t.closed) \in Nat /\ KeepBars \in Nat
      BY <1>2, CandlesAssumption, LenProperties DEF BarsType
    <3>2. Len(t.closed) >= Len(s.closed)
      BY <1>2, <1>5, <2>1
    <3> QED
      BY <3>1, <3>2
  <2>3. Earlier(s) /\ \A f \in Frames \ {1} : LongOf(bs[f], f, s)
    BY <1>5, <2>2 DEF LongTell
  <2>4. Earlier(t)
    <3>1. Added(Append(s.closed, s.cur), s.closed, s.cur, Len(s.closed) + 1)
      BY <1>2, AppendAdds DEF BarsType
    <3>2. /\ DOMAIN t.closed = DOMAIN s.closed \cup {Len(s.closed) + 1}
          /\ t.closed[Len(s.closed) + 1] = s.cur
          /\ \A j \in DOMAIN s.closed : t.closed[j] = s.closed[j] /\ s.closed[j] \in CandleType
      BY <2>1, <3>1 DEF Added
    <3>3. \A j \in DOMAIN s.closed : s.closed[j].start \in Nat /\ s.closed[j].start < s.cur.start
      BY <2>3, <3>2 DEF Earlier, CandleType
    <3>4. \A j \in DOMAIN s.closed : s.closed[j].start < unit
      BY <1>1, <1>2, <1>5, <3>3
    <3> HIDE DEF s, t
    <3> QED
      BY <1>2, <1>5, <3>2, <3>4 DEF Earlier
  <2>5. ASSUME NEW f \in Frames \ {1} PROVE LongOf(cs[f], f, t)
    <3> DEFINE b == bs[f]
               c == cs[f]
    <3>1. /\ c \in BarsType /\ b \in BarsType /\ f \in Nat \ {0}
          /\ c.cur.start = Aligned(unit, f) /\ b.cur.start = Aligned(s.cur.start, f)
          /\ Aligned(unit, f) > b.cur.start => OneTick(c.cur, p, v) /\ c.closed = Kept(b).closed
          /\ ~(Aligned(unit, f) > b.cur.start) =>
                 TickMore(c.cur, b.cur, p, v) /\ c.closed = b.closed
      BY <1>1, <1>5, TickBegins
    <3>2. \A L \in Range(Kept(b).closed) : L \in Range(b.closed) \/ L = b.cur
      BY <1>1, KeptClosed
    <3>3. LongOf(b, f, s)
      BY <2>3
    <3> HIDE DEF s, t, b, c
    <3>4. LongOf(c, f, t)
      <4>1. CASE Aligned(unit, f) > b.cur.start
        BY <1>1, <1>2, <1>5, <2>1, <2>3, <3>1, <3>2, <3>3, <4>1, LongBar
      <4>2. CASE ~(Aligned(unit, f) > b.cur.start)
        BY <1>1, <1>2, <1>5, <2>1, <2>3, <3>1, <3>3, <4>2, LongBar
      <4> QED
        BY <4>1, <4>2
    <3> QED
      BY <3>4 DEF t, c
  <2> QED
    BY <2>4, <2>5
<1> QED
  BY <1>3, <1>4, <1>5

(* The bars of all lengths tell one story.                                 *)
BarsTogether == unit <= LastUnit /\ BarsBegin(candles, unit) /\ LongTell(candles)

LEMMA BarsTogetherInit == CandlesInit => BarsTogether
<1> SUFFICES ASSUME CandlesInit PROVE BarsTogether
  OBVIOUS
<1>1. /\ unit = 0 /\ LastUnit \in Nat /\ 1 \in Frames
      /\ \A f \in Frames : candles[f].cur = NoBar /\ candles[f].closed = <<>>
  BY CandlesAssumption DEF CandlesInit
<1> QED
  BY <1>1 DEF BarsTogether, BarsBegin, LongTell

(* Bars that differ in the baseline kept only.                             *)
LEMMA SameBars ==
  ASSUME NEW bs, NEW cs, \A f \in Frames : bs[f].cur = cs[f].cur /\ bs[f].closed = cs[f].closed,
         NEW u, BarsBegin(cs, u), LongTell(cs)
  PROVE  BarsBegin(bs, u) /\ LongTell(bs)
<1>1. BarsBegin(bs, u)
  BY FramesAre DEF BarsBegin
<1>2. bs[1].cur = cs[1].cur /\ bs[1].closed = cs[1].closed
  BY FramesAre
<1>3. \A f \in Frames : LongOf(cs[f], f, cs[1]) => LongOf(bs[f], f, bs[1])
  BY <1>2 DEF LongOf
<1>4. Earlier(cs[1]) => Earlier(bs[1])
  BY <1>2 DEF Earlier
<1>5. LongTell(bs)
  BY <1>2, <1>3, <1>4 DEF LongTell
<1> QED
  BY <1>1, <1>5

LEMMA TickTogether ==
  ASSUME CandlesInv, unit <= LastUnit, NEW bs, \A f \in Frames : BarsOf(f, bs[f]),
         BarsBegin(bs, unit), LongTell(bs),
         NEW t, t.vol \in Nat, t.last \in Nat, NEW p \in Prices, NEW raw \in Nat,
         OnTick(t, bs, p, raw), UNCHANGED unit
  PROVE  BarsTogether'
<1> DEFINE v == TickVolume(t, raw)
           cs == [f \in Frames |-> Barred(bs[f], f, p, v)]
<1>1. v \in Nat
  BY SummedOnce
<1>2. candles' = cs /\ \A f \in Frames : cs[f] = Barred(bs[f], f, p, v)
  BY DEF OnTick
<1>3. p \in Nat /\ unit \in Nat
  BY CandlesAssumption DEF CandlesInv
<1> HIDE DEF v, cs
<1>4. TickBarred(bs, cs, p, v)
  BY <1>1, <1>2, <1>3 DEF TickBarred
<1>5. BarsBegin(cs, unit) /\ cs[1].cur.start = unit
  BY <1>4, TickBarsBegin
<1>6. LongTell(cs)
  BY <1>4, TickLongTell DEF LongTell
<1>7. BarsBegin(candles', unit') /\ LongTell(candles')
  BY <1>2, <1>5, <1>6
<1> QED
  BY <1>7 DEF BarsTogether

LEMMA BarsTogetherStep ==
  ASSUME CandlesInv, BarsTogether, CandlesNext \/ UNCHANGED candleVars
  PROVE  BarsTogether'
<1>1. /\ \A f \in Frames : BarsOf(f, candles[f])
      /\ DOMAIN candles = Frames /\ sums.vol \in Nat /\ sums.last \in Nat
      /\ {"vol", "last"} \subseteq DOMAIN sums
      /\ unit \in Nat /\ traded \in Nat /\ page \in Nat /\ unit <= LastUnit
      /\ BarsBegin(candles, unit) /\ LongTell(candles)
  BY DEF CandlesInv, BarsTogether
<1>2. CASE UNCHANGED candleVars \/ Trades
  BY <1>1, <1>2 DEF candleVars, Trades, BarsTogether
<1>3. CASE TimePasses
  <2>1. unit' = unit + 1 /\ unit' <= LastUnit /\ candles' = candles
    BY <1>1, <1>3, CandlesAssumption DEF TimePasses
  <2>2. candles[1].cur # NoBar => candles[1].cur.start <= unit'
    <3>1. BarsOf(1, candles[1])
      BY <1>1, FramesAre
    <3>2. candles[1].cur.start \in Nat
      BY <3>1 DEF BarsOf, BarsType, CandleType
    <3>3. candles[1].cur # NoBar => candles[1].cur.start <= unit
      BY <1>1 DEF BarsBegin
    <3> QED
      BY <1>1, <2>1, <3>2, <3>3
  <2>3. BarsBegin(candles, unit')
    BY <1>1, <2>2 DEF BarsBegin
  <2> QED
    BY <1>1, <2>1, <2>3 DEF BarsTogether
<1>4. CASE Quote
  <2>1. PICK p \in Prices : OnTick(sums, candles, p, traded)
    BY <1>4 DEF Quote
  <2>2. UNCHANGED unit
    BY <1>4 DEF Quote
  <2> QED
    BY <1>1, <2>1, <2>2, TickTogether
<1>5. CASE RadarFinds
  <2>1. page' \in Nat /\ UNCHANGED unit
    BY <1>1, <1>5 DEF RadarFinds
  <2>2. PICK p \in Prices :
          IF candles[1].closed = <<>> /\ candles[1].made = 0
          THEN OnTick(Seeded(sums, page'), [candles EXCEPT ![1].made = Baseline], p, page')
          ELSE OnTick(sums, candles, p, page')
    BY <1>5 DEF RadarFinds
  <2> DEFINE raw == page'
             t == Seeded(sums, raw)
             bs == [candles EXCEPT ![1].made = Baseline]
  <2>3. raw \in Nat
    BY <2>1
  <2>4. CASE candles[1].closed = <<>> /\ candles[1].made = 0
    <3>1. OnTick(t, bs, p, raw)
      BY <2>2, <2>4
    <3>2. t.vol \in Nat /\ t.last \in Nat
      <4>1. t.vol = Larger(sums.vol, raw) /\ t.last = Larger(sums.last, raw)
        BY <1>1 DEF Seeded
      <4> QED
        BY <1>1, <2>3, <4>1, LargerSmaller
    <3> DEFINE b == [candles[1] EXCEPT !.made = Baseline]
    <3>3. 1 \in Frames /\ Baseline \in Nat /\ Baseline <= KeepBars /\ KeepBars \in Nat
      BY CandlesAssumption
    <3>4. BarsOf(1, candles[1])
      BY <1>1, <3>3
    <3>5. b \in BarsType /\ b.made = Baseline /\ b.closed = candles[1].closed /\ b.cur = candles[1].cur
      BY <2>4, <3>3, <3>4 DEF BarsOf, BarsType
    <3>6. bs[1] = b /\ \A f \in Frames \ {1} : bs[f] = candles[f]
      BY <1>1, <3>3
    <3> HIDE DEF b, bs, t, raw
    <3>7. BarsOf(1, b)
      BY <2>4, <3>3, <3>4, <3>5 DEF BarsOf
    <3>8. \A f \in Frames : BarsOf(f, bs[f]) /\ bs[f].cur = candles[f].cur
                              /\ bs[f].closed = candles[f].closed
      BY <1>1, <3>5, <3>6, <3>7
    <3>9. BarsBegin(bs, unit) /\ LongTell(bs)
      BY <1>1, <3>8, SameBars
    <3> QED
      BY <1>1, <2>1, <2>3, <3>1, <3>2, <3>8, <3>9, TickTogether
  <2>5. CASE ~(candles[1].closed = <<>> /\ candles[1].made = 0)
    <3>1. OnTick(sums, candles, p, raw)
      BY <2>2, <2>5
    <3> HIDE DEF raw
    <3> QED
      BY <1>1, <2>1, <2>3, <3>1, TickTogether
  <2> QED
    BY <2>4, <2>5
<1> QED
  BY <1>2, <1>3, <1>4, <1>5 DEF CandlesNext

(* The greatest and the least of a set that has them.                      *)
LEMMA MaxMinAre ==
  ASSUME NEW A \in SUBSET Int, NEW m \in A
  PROVE  /\ (\A x \in A : x <= m) => Max(A) = m
         /\ (\A x \in A : m <= x) => Min(A) = m
<1>1. ASSUME \A x \in A : x <= m PROVE Max(A) = m
  <2>1. \E z \in A : \A y \in A : z >= y
    BY <1>1
  <2>2. Max(A) \in A /\ \A y \in A : Max(A) >= y
    BY <2>1 DEF Max
  <2> DEFINE z == Max(A)
  <2>3. z \in Int /\ z >= m /\ z <= m /\ m \in Int
    BY <1>1, <2>2
  <2> HIDE DEF z
  <2>4. z = m
    BY <2>3
  <2> QED
    BY <2>4 DEF z
<1>2. ASSUME \A x \in A : m <= x PROVE Min(A) = m
  <2>1. \E z \in A : \A y \in A : z <= y
    BY <1>2
  <2>2. Min(A) \in A /\ \A y \in A : Min(A) <= y
    BY <2>1 DEF Min
  <2> DEFINE z == Min(A)
  <2>3. z \in Int /\ z >= m /\ z <= m /\ m \in Int
    BY <1>2, <2>2
  <2> HIDE DEF z
  <2>4. z = m
    BY <2>3
  <2> QED
    BY <2>4 DEF z
<1> QED
  BY <1>1, <1>2

LEMMA BarsAgree ==
  ASSUME NEW L, NEW S \in Seq(CandleType), NEW A, TellsBars(L, S, A)
  PROVE  /\ A # {}
         /\ L.open = S[Min(A)].open /\ L.close = S[Max(A)].close
         /\ L.high = Max({S[j].high : j \in A}) /\ L.low = Min({S[j].low : j \in A})
<1>1. A \subseteq DOMAIN S
  BY DEF TellsBars
<1>2. A \in SUBSET Int /\ \A j \in A : S[j].high \in Int /\ S[j].low \in Int
  <2>1. A \subseteq Nat /\ \A j \in A : S[j] \in CandleType
    BY <1>1, SpanFinite
  <2>2. \A j \in A : S[j].high \in Nat /\ S[j].low \in Nat
    BY <2>1 DEF CandleType
  <2> QED
    BY <2>1, <2>2
<1>3. L.open = S[Min(A)].open
  <2>1. PICK m \in A : L.open = S[m].open /\ \A j \in A : m <= j
    BY DEF TellsBars
  <2>2. Min(A) = m
    BY <1>2, <2>1, MaxMinAre
  <2> QED
    BY <2>1, <2>2
<1>4. L.close = S[Max(A)].close
  <2>1. PICK m \in A : L.close = S[m].close /\ \A j \in A : j <= m
    BY DEF TellsBars
  <2>2. Max(A) = m
    BY <1>2, <2>1, MaxMinAre
  <2> QED
    BY <2>1, <2>2
<1>5. L.high = Max({S[j].high : j \in A})
  <2> DEFINE H == {S[j].high : j \in A}
  <2>1. PICK m \in A : L.high = S[m].high /\ \A j \in A : S[j].high <= L.high
    BY DEF TellsBars
  <2>2. L.high \in H /\ H \in SUBSET Int /\ \A x \in H : x <= L.high
    BY <1>2, <2>1
  <2> HIDE DEF H
  <2>3. Max(H) = L.high
    BY <2>2, MaxMinAre
  <2> QED
    BY <2>3 DEF H
<1>6. L.low = Min({S[j].low : j \in A})
  <2> DEFINE H == {S[j].low : j \in A}
  <2>1. PICK m \in A : L.low = S[m].low /\ \A j \in A : L.low <= S[j].low
    BY DEF TellsBars
  <2>2. L.low \in H /\ H \in SUBSET Int /\ \A x \in H : L.low <= x
    BY <1>2, <2>1
  <2> HIDE DEF H
  <2>3. Min(H) = L.low
    BY <2>2, MaxMinAre
  <2> QED
    BY <2>3 DEF H
<1> QED
  BY <1>3, <1>4, <1>5, <1>6 DEF TellsBars

LEMMA BarsPromise == CandlesInv /\ BarsTogether => CandlesAgree
<1> SUFFICES ASSUME CandlesInv, BarsTogether, Len(candles[1].closed) < KeepBars,
                    NEW f \in Frames \ {1}, NEW i \in DOMAIN candles[f].closed
             PROVE  LET long  == candles[f].closed[i]
                        short == candles[1].closed
                        span  == {j \in DOMAIN short :
                                    short[j].start \in long.start .. long.start + f - 1}
                    IN  /\ span # {}
                        /\ long.open = short[Min(span)].open /\ long.close = short[Max(span)].close
                        /\ long.high = Max({short[j].high : j \in span})
                        /\ long.low = Min({short[j].low : j \in span})
                        /\ long.vol = SumFunctionOnSet([j \in DOMAIN short |-> short[j].vol], span)
  BY DEF CandlesAgree
<1> DEFINE L == candles[f].closed[i]
           S == candles[1].closed
           A == SpanOf(L, f, S)
<1>1. BarsBegin(candles, unit) /\ LongTell(candles)
  BY DEF BarsTogether
<1>2. candles[1].cur # NoBar
  <2>1. candles[f].closed = <<>> => FALSE
    OBVIOUS
  <2> QED
    BY <1>1, <2>1 DEF BarsBegin
<1>3. LongOf(candles[f], f, candles[1])
  BY <1>1, <1>2 DEF LongTell
<1>4. L \in Range(candles[f].closed)
  BY DEF Range
<1>5. TellsBars(L, S, A)
  BY <1>3, <1>4 DEF LongOf
<1>6. S \in Seq(CandleType)
  <2>1. BarsOf(1, candles[1])
    BY FramesAre DEF CandlesInv
  <2> QED
    BY <2>1 DEF BarsOf, BarsType
<1>7. /\ A # {}
      /\ L.open = S[Min(A)].open /\ L.close = S[Max(A)].close
      /\ L.high = Max({S[j].high : j \in A}) /\ L.low = Min({S[j].low : j \in A})
  <2> HIDE DEF L, S, A
  <2> QED
    BY <1>5, <1>6, BarsAgree
<1>8. L.vol = SumFunctionOnSet(Volumes(S), A)
  BY <1>5 DEF TellsBars
<1> QED
  BY <1>7, <1>8 DEF SpanOf, Volumes

-----------------------------------------------------------------------------
(* The replayed positions (Replay, BacktestTracker).                       *)

Reasons  == {"1R", "2R", "stop", "close"}
ExitRec  == [qty : Nat, price : Int, reason : Reasons, net : Int]
TripType == [id : Nat, initial : Nat, sold : Int, net : Int]
BarType  == [open : Nat, high : Nat, low : Nat, close : Nat, volume : Nat]

PositionFields ==
  {"id", "hz", "qty", "initial", "entry", "stop", "t1", "t2", "r", "took1", "took2", "trail",
   "high", "last", "status", "since", "feeLeft", "outs"}

(* What some exits sold, and what they brought in.                         *)
SoldBy(outs) == Total(outs, LAMBDA x : x.qty)
NetOf(outs)  == Total(outs, NetSale)

(* A position has sold what it no longer has.                              *)
Position(p) ==
  /\ PositionFields \subseteq DOMAIN p
  /\ p.id \in Nat /\ p.hz \in {"INTRADAY", "SWING"}
  /\ p.qty \in Nat /\ p.initial \in Nat /\ p.outs \in Seq(ExitRec)
  /\ {p.entry, p.stop, p.t1, p.t2, p.trail, p.high, p.last, p.feeLeft} \subseteq Int
  /\ p.initial = p.qty + SoldBy(p.outs)

(* A position on its way through a bar, which began it as p with the trips *)
(* S: what it has brought in since is in the records of its exits, and it  *)
(* has a trip when nothing is left of it, one however often it was written.*)
Carried(w, p, S) ==
  /\ {"p", "trips", "recs", "done"} \subseteq DOMAIN w
  /\ Position(w.p) /\ Position(p) /\ w.recs \in Seq(ExitRec) /\ w.trips \in Seq(TripType)
  /\ w.p.id = p.id /\ w.p.hz = p.hz /\ w.p.entry = p.entry /\ w.p.initial = p.initial
  /\ NetOf(w.p.outs) = NetOf(p.outs) + NetOf(w.recs)
  /\ Range(w.trips) = S \cup (IF w.p.qty = 0 THEN {RoundTrip(w.p)} ELSE {})

LEMMA SumAppend ==
  ASSUME NEW n \in Nat, NEW f, NEW g, DOMAIN f = 1 .. n, DOMAIN g = 1 .. n + 1,
         \A i \in 1 .. n : f[i] \in Int /\ g[i] = f[i], g[n + 1] \in Int
  PROVE  SumFunction(g) = SumFunction(f) + g[n + 1]
<1>1. IsFiniteSet(1 .. n) /\ n + 1 \notin 1 .. n /\ 1 .. n + 1 = (1 .. n) \cup {n + 1}
  <2>1. IsFiniteSet(1 .. n)
    BY FS_Interval
  <2> QED
    BY <2>1
<1>2. \A i \in (1 .. n) \cup {n + 1} : g[i] \in Int
  OBVIOUS
<1>3. SumFunctionOnSet(g, (1 .. n) \cup {n + 1}) = SumFunctionOnSet(g, 1 .. n) + g[n + 1]
  BY <1>1, <1>2, SumAdd
<1>4. SumFunctionOnSet(f, 1 .. n) = SumFunctionOnSet(g, 1 .. n)
  BY <1>1, SumEqual
<1> QED
  BY <1>1, <1>3, <1>4 DEF SumFunction

LEMMA NetSaleIs ==
  ASSUME NEW x, x.qty \in Nat, x.price \in Int
  PROVE  NetSale(x) \in Int /\ (x.qty = 0 => NetSale(x) = 0)
<1> DEFINE a == x.price
           b == x.qty
           k == a * b
<1>1. k \in Int /\ (b = 0 => k = 0)
  OBVIOUS
<1>2. NetSale(x) = k * 100000 - k * 15 - k * 180
  BY DEF NetSale, Value, Commission, SalesTax, Won
<1> HIDE DEF k
<1> QED
  BY <1>1, <1>2

(* One exit more.                                                          *)
LEMMA OneExitMore ==
  ASSUME NEW s \in Seq(ExitRec), NEW x \in ExitRec
  PROVE  /\ Append(s, x) \in Seq(ExitRec)
         /\ SoldBy(s) \in Nat /\ SoldBy(Append(s, x)) = SoldBy(s) + x.qty
         /\ NetOf(s) \in Int /\ NetOf(Append(s, x)) = NetOf(s) + NetSale(x)
<1> DEFINE n == Len(s)
           t == Append(s, x)
<1>1. n \in Nat /\ DOMAIN s = 1 .. n /\ t \in Seq(ExitRec) /\ DOMAIN t = 1 .. n + 1
  BY AppendProperties, LenProperties
<1>2. /\ \A i \in 1 .. n : t[i] = s[i] /\ s[i] \in ExitRec
      /\ t[n + 1] = x
  BY <1>1, AppendProperties, ElementOfSeq
<1> HIDE DEF n, t
<1>3. IsFiniteSet(1 .. n)
  BY <1>1, FS_Interval
<1>4. SoldBy(s) \in Nat /\ SoldBy(t) = SoldBy(s) + x.qty
  <2> DEFINE f == [i \in 1 .. n |-> s[i].qty]
             g == [i \in 1 .. n + 1 |-> t[i].qty]
  <2>1. SoldBy(s) = SumFunction(f) /\ SoldBy(t) = SumFunction(g)
    BY <1>1 DEF SoldBy, Total
  <2>2. /\ DOMAIN f = 1 .. n /\ DOMAIN g = 1 .. n + 1 /\ g[n + 1] = x.qty /\ x.qty \in Nat
        /\ \A i \in 1 .. n : f[i] \in Nat /\ g[i] = f[i]
    BY <1>1, <1>2 DEF ExitRec
  <2> HIDE DEF f, g
  <2>3. SumFunction(g) = SumFunction(f) + g[n + 1]
    BY <1>1, <2>2, SumAppend
  <2>4. SumFunction(f) \in Nat
    BY <1>3, <2>2, SumNatural DEF SumFunction
  <2> QED
    BY <2>1, <2>2, <2>3, <2>4
<1>5. NetOf(s) \in Int /\ NetOf(t) = NetOf(s) + NetSale(x)
  <2> DEFINE f == [i \in 1 .. n |-> NetSale(s[i])]
             g == [i \in 1 .. n + 1 |-> NetSale(t[i])]
  <2>1. NetOf(s) = SumFunction(f) /\ NetOf(t) = SumFunction(g)
    BY <1>1 DEF NetOf, Total
  <2>0. \A y \in ExitRec : NetSale(y) \in Int
    BY NetSaleIs DEF ExitRec
  <2>2. /\ DOMAIN f = 1 .. n /\ DOMAIN g = 1 .. n + 1 /\ g[n + 1] = NetSale(x) /\ NetSale(x) \in Int
        /\ \A i \in 1 .. n : f[i] \in Int /\ g[i] = f[i]
    BY <1>1, <1>2, <2>0
  <2> HIDE DEF f, g
  <2>3. SumFunction(g) = SumFunction(f) + g[n + 1]
    BY <1>1, <2>2, SumAppend
  <2>4. SumFunction(f) \in Int
    BY <1>3, <2>2, SumType DEF SumFunction
  <2> QED
    BY <2>1, <2>2, <2>3, <2>4
<1> QED
  BY <1>1, <1>4, <1>5 DEF t

LEMMA NoExit == SoldBy(<<>>) = 0 /\ NetOf(<<>>) = 0
<1>1. DOMAIN <<>> = {}
  OBVIOUS
<1> QED
  BY <1>1, SumEmpty DEF SoldBy, NetOf, Total, SumFunction

LEMMA RangeAppend ==
  ASSUME NEW T, NEW s \in Seq(T), NEW x \in T
  PROVE  Range(Append(s, x)) = Range(s) \cup {x}
<1> DEFINE a == Append(s, x)
           n == Len(s)
<1>1. /\ n \in Nat /\ DOMAIN s = 1 .. n /\ DOMAIN a = 1 .. n + 1
      /\ a[n + 1] = x /\ \A i \in 1 .. n : a[i] = s[i]
  BY AppendProperties, LenProperties
<1> HIDE DEF a, n
<1>2. 1 .. n + 1 = (1 .. n) \cup {n + 1}
  BY <1>1
<1>3. Range(a) \subseteq Range(s) \cup {x} /\ x \in Range(a)
  BY <1>1, <1>2 DEF Range
<1>4. Range(s) \subseteq Range(a)
  BY <1>1, <1>2 DEF Range
<1> QED
  BY <1>3, <1>4 DEF a

(* The end of an exit: what is sold leaves the position, and when nothing  *)
(* is left its trip is written, perhaps again.                             *)
LEMMA SoldCarries ==
  ASSUME NEW w, NEW p, NEW S, Carried(w, p, S),
         NEW x \in ExitRec, x.qty <= w.p.qty, NEW fee \in Int
  PROVE  Carried(Sold(w, x, fee), p, S) /\ Sold(w, x, fee).p.qty = w.p.qty - x.qty
<1> DEFINE o == w.p
           q == [o EXCEPT !.qty = o.qty - x.qty, !.outs = Append(o.outs, x),
                          !.feeLeft = o.feeLeft - fee]
           rec == [x EXCEPT !.net = NetSale(x) - Value(q.entry, x.qty) - fee]
           v == Sold(w, x, fee)
<1>1. /\ Position(o) /\ w.recs \in Seq(ExitRec) /\ w.trips \in Seq(TripType)
      /\ {"p", "trips", "recs", "done"} \subseteq DOMAIN w
      /\ x.qty \in Nat /\ x.price \in Int
  BY DEF Carried, ExitRec
<1>2. v = [w EXCEPT !.p = q, !.recs = Append(w.recs, rec),
                    !.trips = IF q.qty = 0 THEN Append(w.trips, RoundTrip(q)) ELSE w.trips]
  BY DEF Sold
<1>3. /\ q.qty = o.qty - x.qty /\ q.outs = Append(o.outs, x) /\ q.feeLeft = o.feeLeft - fee
      /\ q.id = o.id /\ q.hz = o.hz /\ q.initial = o.initial /\ q.entry = o.entry
      /\ q.stop = o.stop /\ q.t1 = o.t1 /\ q.t2 = o.t2 /\ q.trail = o.trail /\ q.high = o.high
      /\ q.last = o.last /\ PositionFields \subseteq DOMAIN q
  BY <1>1 DEF Position, PositionFields
<1> HIDE DEF q, o
<1>4. /\ q.outs \in Seq(ExitRec) /\ SoldBy(q.outs) = SoldBy(o.outs) + x.qty
      /\ NetOf(q.outs) = NetOf(o.outs) + NetSale(x)
      /\ SoldBy(o.outs) \in Nat /\ NetOf(o.outs) \in Int
  <2>1. o.outs \in Seq(ExitRec)
    BY <1>1 DEF Position
  <2>2. q.outs = Append(o.outs, x)
    BY <1>3
  <2> QED
    BY <2>1, <2>2, OneExitMore
<1>5. Position(q)
  <2>1. /\ o.qty \in Nat /\ o.initial \in Nat /\ o.initial = o.qty + SoldBy(o.outs)
        /\ o.id \in Nat /\ o.hz \in {"INTRADAY", "SWING"}
        /\ {o.entry, o.stop, o.t1, o.t2, o.trail, o.high, o.last, o.feeLeft} \subseteq Int
    BY <1>1 DEF Position
  <2>2. x.qty <= o.qty
    BY DEF o
  <2>3. q.qty \in Nat /\ q.initial = q.qty + SoldBy(q.outs)
    <3> DEFINE n == q.qty
               m == o.qty
               k == x.qty
               a == SoldBy(o.outs)
               c == SoldBy(q.outs)
    <3>1. n = m - k /\ m \in Nat /\ k \in Nat /\ k <= m /\ a \in Nat /\ c = a + k
          /\ q.initial = m + a
      BY <1>1, <1>3, <1>4, <2>1, <2>2
    <3> HIDE DEF n, m, k, a, c
    <3>2. n \in Nat /\ q.initial = n + c
      BY <3>1
    <3> QED
      BY <3>2 DEF n, c
  <2>4. {q.entry, q.stop, q.t1, q.t2, q.trail, q.high, q.last, q.feeLeft} \subseteq Int
    BY <1>3, <2>1
  <2> QED
    BY <1>3, <1>4, <2>1, <2>3, <2>4 DEF Position
<1>6. /\ rec \in ExitRec /\ rec.qty = x.qty /\ rec.price = x.price
  <2>1. NetSale(x) \in Int /\ Value(q.entry, x.qty) \in Int
    <3>1. q.entry \in Int
      BY <1>5 DEF Position
    <3>2. q.entry * x.qty \in Int
      BY <1>1, <3>1
    <3> QED
      BY <1>1, <3>2, NetSaleIs DEF Value, Won
  <2> DEFINE net == NetSale(x) - Value(q.entry, x.qty) - fee
  <2>2. net \in Int
    BY <2>1
  <2> HIDE DEF net
  <2> QED
    BY <2>2 DEF ExitRec, net
<1>7. NetSale(rec) = NetSale(x) /\ NetSale(x) \in Int /\ (x.qty = 0 => NetSale(x) = 0)
  BY <1>1, <1>6, NetSaleIs DEF NetSale
<1> HIDE DEF rec
<1>8. /\ Append(w.recs, rec) \in Seq(ExitRec)
      /\ NetOf(Append(w.recs, rec)) = NetOf(w.recs) + NetSale(x) /\ NetOf(w.recs) \in Int
  BY <1>1, <1>6, <1>7, OneExitMore
<1>9. RoundTrip(q) \in TripType
  <2>1. /\ RoundTrip(q) = [id |-> q.id, initial |-> q.initial, sold |-> SoldBy(q.outs),
                           net |-> NetOf(q.outs) - Value(q.entry, q.initial)
                                     - Commission(q.entry, q.initial)]
    BY DEF RoundTrip, SoldBy, NetOf
  <2>2. q.id \in Nat /\ q.initial \in Nat /\ q.entry \in Int
    BY <1>5 DEF Position
  <2>3. q.entry * q.initial \in Int
    BY <2>2
  <2>4. Value(q.entry, q.initial) \in Int /\ Commission(q.entry, q.initial) \in Int
    BY <2>3 DEF Value, Commission, Won
  <2>5. SoldBy(q.outs) \in Int /\ NetOf(q.outs) \in Int
    BY <1>1, <1>4, <1>7
  <2> DEFINE net == NetOf(q.outs) - Value(q.entry, q.initial) - Commission(q.entry, q.initial)
  <2>6. net \in Int
    BY <2>4, <2>5
  <2> HIDE DEF net
  <2> QED
    BY <2>1, <2>2, <2>5, <2>6 DEF TripType, net
<1> DEFINE ts == IF q.qty = 0 THEN Append(w.trips, RoundTrip(q)) ELSE w.trips
<1>10. /\ ts \in Seq(TripType)
       /\ Range(ts) = Range(w.trips) \cup (IF q.qty = 0 THEN {RoundTrip(q)} ELSE {})
  <2>1. ASSUME NEW t \in TripType
        PROVE  /\ Append(w.trips, t) \in Seq(TripType)
               /\ Range(Append(w.trips, t)) = Range(w.trips) \cup {t}
    BY <1>1, <2>1, RangeAppend, AppendProperties
  <2> QED
    BY <1>1, <1>9, <2>1
<1> HIDE DEF ts
<1>11. /\ v.p = q /\ v.recs = Append(w.recs, rec) /\ v.trips = ts
       /\ {"p", "trips", "recs", "done"} \subseteq DOMAIN v
  BY <1>1, <1>2 DEF ts
<1> HIDE DEF v
<1>12. /\ o.id = p.id /\ o.hz = p.hz /\ o.entry = p.entry /\ o.initial = p.initial
       /\ NetOf(o.outs) = NetOf(p.outs) + NetOf(w.recs)
       /\ Range(w.trips) = S \cup (IF o.qty = 0 THEN {RoundTrip(o)} ELSE {})
       /\ o.qty \in Nat /\ x.qty <= o.qty
  BY <1>1 DEF Carried, o, Position
<1>13. o.qty = 0 => q.qty = 0 /\ RoundTrip(o) = RoundTrip(q)
  <2>1. SUFFICES ASSUME o.qty = 0 PROVE q.qty = 0 /\ RoundTrip(o) = RoundTrip(q)
    OBVIOUS
  <2>2. x.qty = 0 /\ q.qty = 0
    BY <1>1, <1>3, <1>12, <2>1
  <2>3. SoldBy(q.outs) = SoldBy(o.outs) /\ NetOf(q.outs) = NetOf(o.outs)
    BY <1>4, <1>7, <2>2
  <2> QED
    BY <1>3, <2>2, <2>3 DEF RoundTrip, SoldBy, NetOf
<1>14. Range(v.trips) = S \cup (IF v.p.qty = 0 THEN {RoundTrip(v.p)} ELSE {})
  BY <1>10, <1>11, <1>12, <1>13
<1>15. NetOf(v.p.outs) = NetOf(p.outs) + NetOf(v.recs)
  <2>1. p.outs \in Seq(ExitRec)
    BY DEF Carried, Position
  <2>2. NetOf(p.outs) \in Int
    BY <2>1, OneExitMore
  <2> QED
    BY <1>4, <1>7, <1>8, <1>11, <1>12, <2>2
<1> QED
  BY <1>3, <1>5, <1>8, <1>10, <1>11, <1>12, <1>14, <1>15 DEF Carried, v, o

(* A mark on the position changes nothing of that.                         *)
LEMMA MarkCarries ==
  ASSUME NEW w, NEW p, NEW S, Carried(w, p, S), NEW q, Position(q),
         q.id = w.p.id, q.hz = w.p.hz, q.entry = w.p.entry, q.initial = w.p.initial,
         q.outs = w.p.outs, q.qty = w.p.qty
  PROVE  Carried([w EXCEPT !.p = q], p, S)
<1> DEFINE v == [w EXCEPT !.p = q]
<1>1. v.p = q /\ v.recs = w.recs /\ v.trips = w.trips /\ {"p", "trips", "recs", "done"} \subseteq DOMAIN v
  BY DEF Carried
<1> HIDE DEF v
<1>2. RoundTrip(q) = RoundTrip(w.p)
  BY DEF RoundTrip
<1>3. Carried(v, p, S)
  BY <1>1, <1>2 DEF Carried
<1> QED
  BY <1>3 DEF v

(* What is filled, and at a price.                                         *)
LEMMA StopPriceIs ==
  ASSUME NEW b \in BarType, NEW stop \in Int
  PROVE  StopPrice(stop, b) \in Int
<1> DEFINE raw == IF b.open < stop THEN b.open * 9990 ELSE Least(stop, b.open) * 9995
           g == Greatest(b.low * 9900, raw)
           m == Least(b.high * 10000, g)
<1>1. b.open \in Int /\ b.low * 9900 \in Int /\ b.high * 10000 \in Int
  BY DEF BarType
<1>2. raw \in Int
  <2>1. Least(stop, b.open) \in Int
    BY <1>1, LeastGreatest
  <2> QED
    BY <1>1, <2>1
<1> HIDE DEF raw
<1>3. g \in Int
  BY <1>1, <1>2, LeastGreatest
<1> HIDE DEF g
<1>4. m \in Int
  BY <1>1, <1>3, LeastGreatest
<1>5. StopPrice(stop, b) = m \div 10000
  BY DEF StopPrice, m, g, raw
<1> HIDE DEF m
<1> QED
  BY <1>4, <1>5

LEMMA ImpactIs ==
  ASSUME NEW qty \in Nat, NEW volume \in Nat
  PROVE  Impact(qty, volume) \in Int
<1> DEFINE k == 50000 * Least(qty, volume)
           v == Greatest(1, volume)
<1>1. k \in Int
  <2>1. Least(qty, volume) \in Int
    BY LeastGreatest
  <2> QED
    BY <2>1
<1>2. v \in Int /\ v > 0
  BY LeastGreatest
<1>3. Impact(qty, volume) = 1250 + k \div v
  BY DEF Impact
<1> HIDE DEF k, v
<1>4. k \div v \in Int
  BY <1>1, <1>2
<1> QED
  BY <1>3, <1>4

LEMMA MarketPriceIs ==
  ASSUME NEW b \in BarType, NEW qty \in Nat
  PROVE  MarketPrice(qty, b) \in Int
<1> DEFINE i == Impact(qty, b.volume)
           a == b.open * i
           c == CeilDiv(a, 1000000)
           d == b.open - c
           m == Least(b.high, d)
<1>1. b.open \in Nat /\ b.low \in Nat /\ b.high \in Nat /\ b.volume \in Nat
  BY DEF BarType
<1>2. i \in Int
  BY <1>1, ImpactIs
<1> HIDE DEF i
<1>3. a \in Int
  BY <1>1, <1>2
<1> HIDE DEF a
<1>4. c \in Int
  BY <1>3 DEF CeilDiv
<1> HIDE DEF c
<1>5. d \in Int
  BY <1>1, <1>4
<1> HIDE DEF d
<1>6. m \in Int
  BY <1>1, <1>5, LeastGreatest
<1> HIDE DEF m
<1>7. Greatest(b.low, m) \in Int
  BY <1>1, <1>6, LeastGreatest
<1>8. MarketPrice(qty, b) = Greatest(b.low, m)
  BY DEF MarketPrice, m, d, c, a, i
<1> QED
  BY <1>7, <1>8

LEMMA TargetFillIs ==
  ASSUME NEW b \in BarType, NEW qty \in Nat, NEW target \in Int
  PROVE  LET f == TargetFill(qty, target, b) IN f.qty \in Nat /\ f.qty <= qty /\ f.price \in Int
<1> DEFINE f == TargetFill(qty, target, b)
           v == (b.volume * 15) \div 100
           g == Greatest(1, v)
<1>1. b.volume \in Nat /\ b.open \in Nat
  BY DEF BarType
<1>2. v \in Int
  BY <1>1
<1> HIDE DEF v
<1>3. g \in Int /\ g >= 1
  BY <1>2, LeastGreatest
<1> HIDE DEF g
<1>4. Least(qty, g) \in Nat /\ Least(qty, g) <= qty
  BY <1>3, LeastGreatest
<1>5. Greatest(target, b.open) \in Int
  BY <1>1, LeastGreatest
<1>6. \/ f.qty = 0 /\ f.price = 0
      \/ f.qty = Least(qty, g) /\ f.price = Greatest(target, b.open)
  BY DEF TargetFill, Unfilled, g, v
<1> HIDE DEF f
<1>7. f.qty \in Nat /\ f.qty <= qty /\ f.price \in Int
  BY <1>4, <1>5, <1>6
<1> QED
  BY <1>7 DEF f

(* All that is left is sold.                                               *)
LEMMA FullExitCarries ==
  ASSUME NEW w, NEW p, NEW S, Carried(w, p, S), NEW b \in BarType,
         NEW kind \in {"stop", "market"}, NEW ref \in Int, NEW reason \in Reasons
  PROVE  /\ Carried(FullExit(w, kind, ref, reason, b), p, S)
         /\ FullExit(w, kind, ref, reason, b).p.qty = 0
<1> DEFINE n == w.p.qty
           f == ExitFill(kind, n, ref, b)
           x == Exit(f, reason)
           v == Sold(w, x, w.p.feeLeft)
<1>1. n \in Nat /\ w.p.feeLeft \in Int
  BY DEF Carried, Position
<1> HIDE DEF n
<1>2. f.qty = n /\ f.price \in Int
  BY <1>1, StopPriceIs, MarketPriceIs DEF ExitFill
<1> HIDE DEF f
<1>3. x \in ExitRec /\ x.qty = n
  BY <1>1, <1>2 DEF Exit, ExitRec
<1> HIDE DEF x
<1>4. Carried(v, p, S) /\ v.p.qty = 0
  BY <1>1, <1>3, SoldCarries DEF n
<1>5. FullExit(w, kind, ref, reason, b) = [v EXCEPT !.done = TRUE]
  BY DEF FullExit, v, x, f, n
<1> HIDE DEF v
<1>6. Carried([v EXCEPT !.done = TRUE], p, S) /\ [v EXCEPT !.done = TRUE].p.qty = 0
  BY <1>4 DEF Carried
<1> QED
  BY <1>5, <1>6

(* A part is sold, or nothing when the bar does not let it through.        *)
LEMMA TrancheCarries ==
  ASSUME NEW w, NEW p, NEW S, Carried(w, p, S), NEW b \in BarType,
         NEW percent \in Nat, NEW target \in Int, NEW reason \in Reasons
  PROVE  Carried(Tranche(w, percent, target, reason, b), p, S)
<1> DEFINE n == w.p.qty
           part1 == (n * percent) \div 100
           g == Greatest(1, part1)
           wanted == Least(g, n)
           f == TargetFill(wanted, target, b)
           x == Exit(f, reason)
           fee == Commission(w.p.entry, f.qty)
<1>1. n \in Nat /\ w.p.entry \in Int
  BY DEF Carried, Position
<1> HIDE DEF n
<1>2. part1 \in Int
  <2>1. n * percent \in Int
    BY <1>1
  <2> QED
    BY <2>1
<1> HIDE DEF part1
<1>3. g \in Int /\ g >= 1
  BY <1>2, LeastGreatest
<1> HIDE DEF g
<1>4. wanted \in Nat /\ wanted <= n
  BY <1>1, <1>3, LeastGreatest
<1> HIDE DEF wanted
<1>5. f.qty \in Nat /\ f.qty <= n /\ f.price \in Int
  BY <1>1, <1>4, TargetFillIs
<1>6. Tranche(w, percent, target, reason, b) = IF f.qty = 0 THEN w ELSE Sold(w, x, fee)
  BY DEF Tranche, ExitFill, f, x, fee, wanted, g, part1, n
<1> HIDE DEF f
<1>7. x \in ExitRec /\ x.qty = f.qty
  BY <1>5 DEF Exit, ExitRec
<1>8. fee \in Int
  <2>1. w.p.entry * f.qty \in Int
    BY <1>1, <1>5
  <2> QED
    BY <2>1 DEF Commission
<1> HIDE DEF x, fee
<1>9. Carried(Sold(w, x, fee), p, S)
  BY <1>5, <1>7, <1>8, SoldCarries DEF n
<1> QED
  BY <1>6, <1>9

LEMMA MarkedPosition ==
  ASSUME NEW q, Position(q), NEW r, PositionFields \subseteq DOMAIN r,
         r.id = q.id, r.hz = q.hz, r.qty = q.qty, r.initial = q.initial, r.outs = q.outs,
         r.entry = q.entry, r.t1 = q.t1, r.t2 = q.t2, r.feeLeft = q.feeLeft,
         {r.stop, r.trail, r.high, r.last} \subseteq Int
  PROVE  Position(r)
BY DEF Position

(* The sections of a bar.                                                  *)
LEMMA TargetsCarry ==
  ASSUME NEW w, NEW p, NEW S, Carried(w, p, S), NEW b \in BarType
  PROVE  Carried(FirstTarget(w, b), p, S) /\ Carried(SecondTarget(w, b), p, S)
<1>1. Percent(w.p) \in Nat /\ w.p.t1 \in Int /\ w.p.t2 \in Int
  BY DEF Percent, Carried, Position
<1>2. Carried(FirstTarget(w, b), p, S)
  <2> DEFINE v == Tranche(w, Percent(w.p), w.p.t1, "1R", b)
             o == v.p
             q == FirstTaken(o)
  <2>0. Carried(v, p, S)
    BY <1>1, TrancheCarries DEF Reasons
  <2>1. Carried(v, p, S) /\ Position(o)
    BY <2>0 DEF Carried
  <2>2. FirstTarget(w, b) = w \/ FirstTarget(w, b) = [v EXCEPT !.p = q]
    BY DEF FirstTarget
  <2> HIDE DEF v
  <2>3. q = [o EXCEPT !.took1 = TRUE, !.stop = Greatest(o.stop, o.entry)]
    BY DEF FirstTaken
  <2>4. Greatest(o.stop, o.entry) \in Int
    <3>1. o.stop \in Int /\ o.entry \in Int
      BY <2>1 DEF Position
    <3> QED
      BY <3>1, LeastGreatest
  <2> HIDE DEF o, q
  <2>5. /\ q.id = o.id /\ q.hz = o.hz /\ q.qty = o.qty /\ q.initial = o.initial /\ q.outs = o.outs
        /\ q.entry = o.entry /\ q.t1 = o.t1 /\ q.t2 = o.t2 /\ q.feeLeft = o.feeLeft
        /\ {q.stop, q.trail, q.high, q.last} \subseteq Int /\ PositionFields \subseteq DOMAIN q
    BY <2>1, <2>3, <2>4 DEF Position, PositionFields
  <2>6. Position(q)
    BY <2>1, <2>5, MarkedPosition
  <2>7. Carried([v EXCEPT !.p = q], p, S)
    BY <2>1, <2>5, <2>6, MarkCarries DEF o
  <2> QED
    BY <2>2, <2>7
<1>3. Carried(SecondTarget(w, b), p, S)
  <2> DEFINE v == Tranche(w, Percent(w.p), w.p.t2, "2R", b)
             o == v.p
             q == [o EXCEPT !.took2 = TRUE]
  <2>0. Carried(v, p, S)
    BY <1>1, TrancheCarries DEF Reasons
  <2>1. Carried(v, p, S) /\ Position(o)
    BY <2>0 DEF Carried
  <2>2. SecondTarget(w, b) = w \/ SecondTarget(w, b) = [v EXCEPT !.p = q]
    BY DEF SecondTarget
  <2> HIDE DEF v, o
  <2>5. /\ q.id = o.id /\ q.hz = o.hz /\ q.qty = o.qty /\ q.initial = o.initial /\ q.outs = o.outs
        /\ q.entry = o.entry /\ q.t1 = o.t1 /\ q.t2 = o.t2 /\ q.feeLeft = o.feeLeft
        /\ {q.stop, q.trail, q.high, q.last} \subseteq Int /\ PositionFields \subseteq DOMAIN q
    BY <2>1 DEF Position, PositionFields
  <2> HIDE DEF q
  <2>6. Position(q)
    BY <2>1, <2>5, MarkedPosition
  <2>7. Carried([v EXCEPT !.p = q], p, S)
    BY <2>1, <2>5, <2>6, MarkCarries DEF o
  <2> QED
    BY <2>2, <2>7
<1> QED
  BY <1>2, <1>3

LEMMA TrailTargetIs ==
  ASSUME NEW q, q.high \in Int, q.stop \in Int, NEW k \in Int, NEW atr \in Nat
  PROVE  TrailTarget(q, k, atr) \in Int
<1>1. k * atr \in Int
  OBVIOUS
<1> DEFINE e == 2 * q.high - k * atr
<1>2. e \in Int
  BY <1>1
<1>3. TrailTarget(q, k, atr) = IF atr > 0 THEN e \div 2 ELSE q.stop
  BY DEF TrailTarget
<1> HIDE DEF e
<1> QED
  BY <1>2, <1>3

LEMMA TrailingCarries ==
  ASSUME NEW w, NEW p, NEW S, Carried(w, p, S), NEW b \in BarType, NEW x, x.atr \in Nat
  PROVE  Carried(Trailing(w, b, x), p, S)
<1> DEFINE o == w.p
           t == Greatest(o.trail, TrailTarget(o, Halves(o), x.atr))
           q == [o EXCEPT !.trail = t]
           v == [w EXCEPT !.p = q]
<1>1. Position(o)
  BY DEF Carried
<1>2. t \in Int
  <2>1. Halves(o) \in Int /\ o.high \in Int /\ o.stop \in Int /\ o.trail \in Int
    BY <1>1 DEF Halves, Position
  <2>2. TrailTarget(o, Halves(o), x.atr) \in Int
    BY <2>1, TrailTargetIs
  <2> QED
    BY <2>1, <2>2, LeastGreatest
<1>3. \/ Trailing(w, b, x) = v
      \/ Trailing(w, b, x) = FullExit(v, "stop", t, "stop", b)
  BY DEF Trailing, v, q, t, o
<1> HIDE DEF t, o
<1>5. /\ q.id = o.id /\ q.hz = o.hz /\ q.qty = o.qty /\ q.initial = o.initial /\ q.outs = o.outs
      /\ q.entry = o.entry /\ q.t1 = o.t1 /\ q.t2 = o.t2 /\ q.feeLeft = o.feeLeft
      /\ {q.stop, q.trail, q.high, q.last} \subseteq Int /\ PositionFields \subseteq DOMAIN q
  BY <1>1, <1>2 DEF Position, PositionFields
<1> HIDE DEF q
<1>6. Position(q)
  BY <1>1, <1>5, MarkedPosition
<1>7. Carried(v, p, S)
  BY <1>5, <1>6, MarkCarries DEF o
<1> HIDE DEF v
<1>8. Carried(FullExit(v, "stop", t, "stop", b), p, S)
  BY <1>2, <1>7, FullExitCarries DEF Reasons
<1> QED
  BY <1>3, <1>7, <1>8

LEMMA TimeStopCarries ==
  ASSUME NEW w, NEW p, NEW S, Carried(w, p, S), NEW b \in BarType, NEW x
  PROVE  Carried(TimeStop(w, b, x), p, S)
<1> DEFINE o == w.p
           q == Aged(o, b.close, x.now - o.since)
           v == [w EXCEPT !.p = q]
<1>1. Position(o)
  BY DEF Carried
<1>2. \/ TimeStop(w, b, x) = w \/ TimeStop(w, b, x) = v
      \/ TimeStop(w, b, x) = FullExit(v, "stop", b.low, "stop", b)
  BY DEF TimeStop
<1>3. q = o \/ q = [o EXCEPT !.status = "STALE_POSITION"]
  BY DEF Aged
<1> HIDE DEF q, o
<1>5. /\ q.id = o.id /\ q.hz = o.hz /\ q.qty = o.qty /\ q.initial = o.initial /\ q.outs = o.outs
      /\ q.entry = o.entry /\ q.t1 = o.t1 /\ q.t2 = o.t2 /\ q.feeLeft = o.feeLeft
      /\ {q.stop, q.trail, q.high, q.last} \subseteq Int /\ PositionFields \subseteq DOMAIN q
  BY <1>1, <1>3 DEF Position, PositionFields
<1>6. Position(q)
  BY <1>1, <1>5, MarkedPosition
<1>7. Carried(v, p, S)
  BY <1>5, <1>6, MarkCarries DEF o
<1> HIDE DEF v
<1>8. b.low \in Int
  BY DEF BarType
<1>9. Carried(FullExit(v, "stop", b.low, "stop", b), p, S)
  BY <1>7, <1>8, FullExitCarries DEF Reasons
<1> QED
  BY <1>2, <1>7, <1>9

(* The whole bar; an intraday position does not outlive 15:20.             *)
LEMMA ManagedCarries ==
  ASSUME NEW w, NEW p, NEW S, Carried(w, p, S), NEW b \in BarType, NEW x, x.atr \in Nat, x.at \in Nat
  PROVE  /\ Carried(Managed(w, b, x), p, S)
         /\ p.hz = "INTRADAY" /\ x.at >= 920 => Managed(w, b, x).p.qty = 0
<1> DEFINE o == w.p
           q == Seen(o, b)
           v == [w EXCEPT !.p = q]
           first == FirstTarget(v, b)
           targets == SecondTarget(first, b)
           trailed == IF q.took1 THEN Trailing(targets, b, x) ELSE targets
           r == Managed(w, b, x)
<1>1. Position(o) /\ b.close \in Int /\ b.high \in Int
  BY DEF Carried, BarType
<1>2. q = [o EXCEPT !.last = b.close, !.high = Greatest(o.high, b.high)]
  BY DEF Seen
<1>3. Greatest(o.high, b.high) \in Int
  <2>1. o.high \in Int
    BY <1>1 DEF Position
  <2> QED
    BY <1>1, <2>1, LeastGreatest
<1>4. v.p = q
  BY DEF Carried
<1>5. r = IF Closing(q, b, x)    THEN FullExit(v, "market", 0, "close", b)
          ELSE IF b.low <= q.stop THEN FullExit(v, "stop", q.stop, "stop", b)
          ELSE IF trailed.done    THEN trailed
          ELSE TimeStop(trailed, b, x)
  BY <1>4 DEF Managed
<1> HIDE DEF q, o, r
<1>6. /\ q.id = o.id /\ q.hz = o.hz /\ q.qty = o.qty /\ q.initial = o.initial /\ q.outs = o.outs
      /\ q.entry = o.entry /\ q.t1 = o.t1 /\ q.t2 = o.t2 /\ q.feeLeft = o.feeLeft
      /\ {q.stop, q.trail, q.high, q.last} \subseteq Int /\ PositionFields \subseteq DOMAIN q
  BY <1>1, <1>2, <1>3 DEF Position, PositionFields
<1>7. Position(q)
  BY <1>1, <1>6, MarkedPosition
<1>8. Carried(v, p, S)
  BY <1>6, <1>7, MarkCarries DEF o
<1> HIDE DEF v
<1>9. Carried(first, p, S)
  BY <1>8, TargetsCarry
<1> HIDE DEF first
<1>10. Carried(targets, p, S)
  BY <1>9, TargetsCarry
<1> HIDE DEF targets
<1>11. Carried(trailed, p, S)
  BY <1>10, TrailingCarries
<1> HIDE DEF trailed
<1>12. Carried(TimeStop(trailed, b, x), p, S)
  BY <1>11, TimeStopCarries
<1>13. Carried(FullExit(v, "stop", q.stop, "stop", b), p, S)
  BY <1>6, <1>8, FullExitCarries DEF Reasons
<1>14. /\ Carried(FullExit(v, "market", 0, "close", b), p, S)
       /\ FullExit(v, "market", 0, "close", b).p.qty = 0
  BY <1>8, FullExitCarries DEF Reasons
<1>15. p.hz = "INTRADAY" /\ x.at >= 920 => Closing(q, b, x)
  <2>1. q.hz = p.hz
    BY <1>6 DEF o, Carried
  <2> QED
    BY <2>1 DEF Closing
<1> QED
  BY <1>5, <1>11, <1>12, <1>13, <1>14, <1>15 DEF r

(* Sums of which one term is new, or another.                              *)
Joins(f, g, H, x) ==
  /\ IsFiniteSet(H) /\ x \notin H /\ DOMAIN f = H /\ DOMAIN g = H \cup {x}
  /\ \A y \in H : f[y] \in Int /\ g[y] = f[y]
  /\ g[x] \in Int

LEMMA SumJoined ==
  ASSUME NEW H, NEW x, NEW f, NEW g, Joins(f, g, H, x)
  PROVE  SumFunction(g) = SumFunction(f) + g[x] /\ SumFunction(f) \in Int
<1> USE DEF Joins
<1>1. \A y \in H \cup {x} : g[y] \in Int
  OBVIOUS
<1>2. SumFunctionOnSet(g, H \cup {x}) = SumFunctionOnSet(g, H) + g[x]
  BY <1>1, SumAdd
<1>3. SumFunctionOnSet(f, H) = SumFunctionOnSet(g, H)
  BY SumEqual
<1>4. SumFunctionOnSet(f, H) \in Int
  BY SumType
<1> QED
  BY <1>2, <1>3, <1>4 DEF SumFunction

LEMMA SumReplaced ==
  ASSUME NEW H, IsFiniteSet(H), NEW x \in H, NEW f, NEW g, DOMAIN f = H, DOMAIN g = H,
         \A y \in H : f[y] \in Int, \A y \in H \ {x} : g[y] = f[y], g[x] \in Int
  PROVE  SumFunction(g) = SumFunction(f) + g[x] - f[x] /\ SumFunction(f) \in Int
<1>1. \A y \in H : f[y] \in Int /\ g[y] \in Int
  OBVIOUS
<1>2. SumFunctionOnSet(g, H) = SumFunctionOnSet(f, H) + g[x] - f[x]
  BY <1>1, SumChange
<1>3. SumFunctionOnSet(f, H) \in Int
  BY SumType
<1> QED
  BY <1>2, <1>3 DEF SumFunction

(* What a position has cost, and its trip.                                 *)
LEMMA InvestedIs ==
  ASSUME NEW p, Position(p)
  PROVE  /\ Invested(p) \in Int /\ NetOf(p.outs) \in Int
         /\ SoldBy(p.outs) \in Nat
         /\ RoundTrip(p) \in TripType /\ RoundTrip(p).id = p.id
         /\ RoundTrip(p).net = 0 - Invested(p)
         /\ RoundTrip(p).initial = p.initial /\ RoundTrip(p).sold = SoldBy(p.outs)
<1> DEFINE v == Value(p.entry, p.initial)
           c == Commission(p.entry, p.initial)
           n == NetOf(p.outs)
           k == SoldBy(p.outs)
<1>1. v \in Int /\ c \in Int
  <2>1. p.entry * p.initial \in Int
    BY DEF Position
  <2> QED
    BY <2>1 DEF Value, Commission, Won
<1>2. n \in Int /\ k \in Nat
  <2>1. p.outs \in Seq(ExitRec) /\ [qty |-> 0, price |-> 0, reason |-> "1R", net |-> 0] \in ExitRec
    BY DEF Position, ExitRec, Reasons
  <2> QED
    BY <2>1, OneExitMore
<1>3. Invested(p) = v + c - n
  BY DEF Invested, NetOf
<1>4. RoundTrip(p) = [id |-> p.id, initial |-> p.initial, sold |-> k, net |-> n - v - c]
  BY DEF RoundTrip, NetOf, SoldBy
<1>5. p.id \in Nat /\ p.initial \in Nat
  BY DEF Position
<1> HIDE DEF v, c, n, k
<1>6. Invested(p) \in Int /\ n - v - c \in Int /\ n - v - c = 0 - Invested(p)
  BY <1>1, <1>2, <1>3
<1>7. /\ RoundTrip(p) \in TripType /\ RoundTrip(p).id = p.id /\ RoundTrip(p).net = n - v - c
      /\ RoundTrip(p).initial = p.initial /\ RoundTrip(p).sold = k
  BY <1>2, <1>4, <1>5, <1>6 DEF TripType
<1> QED
  BY <1>2, <1>6, <1>7 DEF n, k

LEMMA InvestedSplit ==
  ASSUME NEW p
  PROVE  Invested(p) = Value(p.entry, p.initial) + Commission(p.entry, p.initial) - NetOf(p.outs)
BY DEF Invested, NetOf

(* While a position sells, its investment shrinks by what it brings in.    *)
LEMMA CarriedInvested ==
  ASSUME NEW w, NEW p, NEW S, Carried(w, p, S)
  PROVE  /\ Invested(w.p) = Invested(p) - NetOf(w.recs)
         /\ Invested(w.p) \in Int /\ Invested(p) \in Int /\ NetOf(w.recs) \in Int
<1> DEFINE o == w.p
<1>1. /\ Position(o) /\ Position(p) /\ o.entry = p.entry /\ o.initial = p.initial
      /\ NetOf(o.outs) = NetOf(p.outs) + NetOf(w.recs) /\ w.recs \in Seq(ExitRec)
  BY DEF Carried
<1> HIDE DEF o
<1>2. /\ Invested(o) \in Int /\ NetOf(o.outs) \in Int
      /\ Invested(p) \in Int /\ NetOf(p.outs) \in Int
  BY <1>1, InvestedIs
<1>3. NetOf(w.recs) \in Int
  <2>1. [qty |-> 0, price |-> 0, reason |-> "1R", net |-> 0] \in ExitRec
    BY DEF ExitRec, Reasons
  <2> QED
    BY <1>1, <2>1, OneExitMore
<1> DEFINE a == Value(p.entry, p.initial)
           c == Commission(p.entry, p.initial)
           m == NetOf(o.outs)
           n == NetOf(p.outs)
           r == NetOf(w.recs)
<1>4. a \in Int /\ c \in Int
  <2>1. p.entry * p.initial \in Int
    BY <1>1 DEF Position
  <2> QED
    BY <2>1 DEF Value, Commission, Won
<1>5. Invested(o) = a + c - m /\ Invested(p) = a + c - n
  BY <1>1, InvestedSplit
<1> HIDE DEF a, c, m, n, r
<1>6. m \in Int /\ n \in Int /\ r \in Int /\ m = n + r
  BY <1>1, <1>2, <1>3 DEF m, n, r
<1>7. Invested(o) = Invested(p) - r
  BY <1>4, <1>5, <1>6
<1> QED
  BY <1>2, <1>3, <1>7 DEF r, o

LEMMA RangeFinite ==
  ASSUME NEW T, NEW s \in Seq(T)
  PROVE  IsFiniteSet(Range(s)) /\ Range(s) \subseteq T
<1>1. Len(s) \in Nat /\ DOMAIN s = 1 .. Len(s) /\ s \in [1 .. Len(s) -> T]
  BY LenProperties
<1>2. s \in Surjection(1 .. Len(s), Range(s))
  BY <1>1 DEF Surjection, Range
<1>3. IsFiniteSet(1 .. Len(s))
  BY <1>1, FS_Interval
<1> QED
  BY <1>1, <1>2, <1>3, FS_Surjection DEF Range

(* The positions held and the trips made: each position has its number,    *)
(* and what has a trip is no longer held.                                  *)
TrackerInv ==
  /\ {"held", "trips", "tradeNet", "opened"} \subseteq DOMAIN tracker
  /\ DOMAIN tracker.held = ReplaySymbols /\ tracker.opened \in Nat
  /\ \A s \in Held : /\ Position(tracker.held[s]) /\ tracker.held[s].qty # 0
                     /\ tracker.held[s].id <= tracker.opened
  /\ tracker.trips \in Seq(TripType)
  /\ \A t \in Range(tracker.trips) : t.sold = t.initial /\ t.id <= tracker.opened
  /\ \A t, u \in Range(tracker.trips) : t.id = u.id => t = u
  /\ \A s, r \in Held : tracker.held[s].id = tracker.held[r].id => s = r
  /\ \A s \in Held, t \in Range(tracker.trips) : t.id # tracker.held[s].id

ReplayTypes ==
  /\ cash \in Int /\ equity \in Int /\ dayStart \in Int
  /\ cooldowns \in [ReplaySymbols -> Nat] /\ bars \in Markets
  /\ phase \in {"manage", "evaluate", "mark", "marked"} /\ next \in 1 .. Len(BarList)
  /\ clock \in [day : Nat, slot : 1 .. Len(BarTimes)]

(* From 15:20 on, what has been managed is no intraday position.           *)
LateAreSwing ==
  At >= 920 =>
    \A s \in Held :
      phase # "manage" \/ (\E i \in 1 .. next - 1 : s = BarList[i]) => tracker.held[s].hz = "SWING"

(* The cash by the trips there are, each taken once.                       *)
TripsOnce == SumFunction([t \in Range(tracker.trips) |-> t.net])
CashIs    == cash = Value(Capital, 1) + TripsOnce - AllInvested

(* Marked to market, nothing has moved since.                              *)
MarkedIs == phase = "marked" => equity = cash + MarketValue

ReplayInv == ReplayTypes /\ TrackerInv /\ CashIs /\ LateAreSwing /\ MarkedIs

LEMMA ReplayConstants ==
  /\ Len(BarList) \in Nat /\ Len(BarList) # 0 /\ DOMAIN BarList = 1 .. Len(BarList)
  /\ Len(BarTimes) \in Nat /\ Len(BarTimes) # 0
  /\ \A i \in 1 .. Len(BarTimes) : BarTimes[i] \in Nat
  /\ IsFiniteSet(ReplaySymbols) /\ \A s \in ReplaySymbols : \E i \in 1 .. Len(BarList) : s = BarList[i]
<1>1. BarList \in Seq(ReplaySymbols) /\ BarList # <<>> /\ BarTimes \in Seq(Nat) /\ BarTimes # <<>>
  BY ReplayAssumption
<1>2. /\ Len(BarList) \in Nat /\ Len(BarList) # 0 /\ DOMAIN BarList = 1 .. Len(BarList)
      /\ Len(BarTimes) \in Nat /\ Len(BarTimes) # 0 /\ BarTimes \in [1 .. Len(BarTimes) -> Nat]
  BY <1>1, LenProperties, EmptySeq
<1>3. IsFiniteSet(ReplaySymbols)
  BY <1>1, RangeFinite DEF ReplaySymbols
<1> QED
  BY <1>2, <1>3 DEF ReplaySymbols, Range

LEMMA TheTime == ASSUME ReplayTypes PROVE At \in Nat /\ Now \in Nat
BY ReplayConstants DEF ReplayTypes, At, Now

LEMMA BarsAre ==
  ASSUME NEW m \in Markets, NEW s \in ReplaySymbols
  PROVE  m[s] \in BarType
BY ReplayAssumption DEF BarType

LEMMA HeldFinite == IsFiniteSet(Held)
<1>1. Held \subseteq ReplaySymbols
  BY DEF Held
<1> QED
  BY <1>1, ReplayConstants, FS_Subset

LEMMA ReplayInitInv == ReplayInit => ReplayInv
<1> SUFFICES ASSUME ReplayInit PROVE ReplayInv
  OBVIOUS
<1>1. /\ tracker = EmptyTracker(ReplaySymbols) /\ cash = Value(Capital, 1)
      /\ equity = cash /\ dayStart = cash /\ cash \in Int
  BY ReplayAssumption DEF ReplayInit, Value, Won
<1>2. /\ Held = {} /\ DOMAIN tracker.held = ReplaySymbols /\ tracker.trips = <<>>
      /\ tracker.opened = 0 /\ {"held", "trips", "tradeNet", "opened"} \subseteq DOMAIN tracker
  BY <1>1 DEF EmptyTracker, Held
<1>3. Range(tracker.trips) = {} /\ tracker.trips \in Seq(TripType)
  BY <1>2 DEF Range
<1>4. TrackerInv
  BY <1>2, <1>3 DEF TrackerInv
<1>5. ReplayTypes
  BY <1>1, ReplayConstants DEF ReplayInit, ReplayTypes
<1>6. TripsOnce = 0 /\ AllInvested = 0
  <2>1. /\ DOMAIN [t \in Range(tracker.trips) |-> t.net] = {}
        /\ DOMAIN [s \in Held |-> Invested(tracker.held[s])] = {}
    BY <1>2, <1>3
  <2> QED
    BY <2>1, SumEmpty DEF TripsOnce, AllInvested, SumFunction
<1>7. CashIs
  BY <1>1, <1>6 DEF CashIs
<1>8. LateAreSwing
  BY <1>2 DEF LateAreSwing
<1>9. MarkedIs
  BY DEF ReplayInit, MarkedIs
<1> QED
  BY <1>4, <1>5, <1>7, <1>8, <1>9 DEF ReplayInv

(* The cash an exit brings is what its position counts.                    *)
LEMMA ProceedsAre ==
  ASSUME NEW recs
  PROVE  Total(recs, Proceeds) = NetOf(recs)
BY DEF Total, NetOf, Proceeds, NetSale

(* Managing a position is one journey of it through the bar.               *)
UpdatedAs(u, s, at) ==
  \E w : /\ Carried(w, tracker.held[s], Range(tracker.trips))
         /\ (tracker.held[s].hz = "INTRADAY" /\ at >= 920 => w.p.qty = 0)
         /\ u.recs = w.recs
         /\ {"held", "trips", "tradeNet", "opened"} \subseteq DOMAIN u.tracker
         /\ u.tracker.held = [tracker.held EXCEPT ![s] = IF w.p.qty = 0 THEN NoPosition ELSE w.p]
         /\ u.tracker.trips = w.trips /\ u.tracker.opened = tracker.opened

LEMMA UpdateIs ==
  ASSUME TrackerInv, NEW s \in Held, NEW b \in BarType, NEW x, x.atr \in Nat, x.at \in Nat
  PROVE  UpdatedAs(Updated(tracker, s, b, x), s, x.at)
<1> DEFINE p == tracker.held[s]
           w0 == [p |-> p, trips |-> tracker.trips, recs |-> <<>>, done |-> FALSE]
           w == Managed(w0, b, x)
           h == IF w.p.qty = 0 THEN NoPosition ELSE w.p
           n == tracker.tradeNet + Total(w.recs, LAMBDA r : r.net)
           u == Updated(tracker, s, b, x)
<1>1. /\ Position(p) /\ p.qty # 0 /\ p # NoPosition /\ tracker.trips \in Seq(TripType)
      /\ {"held", "trips", "tradeNet", "opened"} \subseteq DOMAIN tracker
  BY DEF TrackerInv, Held
<1>2. u = [tracker |-> [tracker EXCEPT !.held = [tracker.held EXCEPT ![s] = h],
                                       !.trips = w.trips, !.tradeNet = n],
           recs |-> w.recs]
  BY <1>1 DEF Updated, AfterBar
<1> HIDE DEF p
<1>3. Carried(w0, p, Range(tracker.trips))
  <2>1. NetOf(p.outs) \in Int
    BY <1>1, InvestedIs
  <2>2. NetOf(p.outs) = NetOf(p.outs) + NetOf(<<>>)
    BY <2>1, NoExit
  <2>3. <<>> \in Seq(ExitRec)
    OBVIOUS
  <2> QED
    BY <1>1, <2>2, <2>3 DEF Carried
<1> HIDE DEF w0
<1>4. Carried(w, p, Range(tracker.trips)) /\ (p.hz = "INTRADAY" /\ x.at >= 920 => w.p.qty = 0)
  BY <1>3, ManagedCarries
<1> HIDE DEF w, h, n, u
<1>5. /\ u.recs = w.recs /\ {"held", "trips", "tradeNet", "opened"} \subseteq DOMAIN u.tracker
      /\ u.tracker.held = [tracker.held EXCEPT ![s] = h]
      /\ u.tracker.trips = w.trips /\ u.tracker.opened = tracker.opened
  BY <1>1, <1>2
<1> QED
  BY <1>4, <1>5 DEF UpdatedAs, p, h, u

(* What a managed position brings in leaves nothing unaccounted for.       *)
LEMMA HandledIs ==
  ASSUME TrackerInv, CashIs, cash \in Int, NEW s \in Held, NEW w,
         Carried(w, tracker.held[s], Range(tracker.trips)),
         {"held", "trips", "tradeNet", "opened"} \subseteq DOMAIN tracker',
         tracker'.held = [tracker.held EXCEPT ![s] = IF w.p.qty = 0 THEN NoPosition ELSE w.p],
         tracker'.trips = w.trips, tracker'.opened = tracker.opened,
         cash' = cash + NetOf(w.recs)
  PROVE  /\ TrackerInv' /\ CashIs' /\ cash' \in Int
         /\ \A r \in Held' : r \in Held /\ tracker'.held[r].hz = tracker.held[r].hz
         /\ s \in Held' => w.p.qty # 0
<1> DEFINE p == tracker.held[s]
           q == w.p
           S == Range(tracker.trips)
           c == Value(Capital, 1)
<1>1. /\ Position(q) /\ Position(p) /\ p.qty # 0 /\ w.trips \in Seq(TripType)
      /\ q.id = p.id /\ q.hz = p.hz /\ w.recs \in Seq(ExitRec)
      /\ Range(w.trips) = S \cup (IF q.qty = 0 THEN {RoundTrip(q)} ELSE {})
      /\ p.id <= tracker.opened /\ tracker.opened \in Nat
      /\ \A t \in S : t.sold = t.initial /\ t.id <= tracker.opened /\ t.id # p.id
      /\ \A t, u \in S : t.id = u.id => t = u
  BY DEF Carried, TrackerInv
<1>2. /\ DOMAIN tracker.held = ReplaySymbols /\ DOMAIN tracker'.held = ReplaySymbols
      /\ \A r \in ReplaySymbols \ {s} : tracker'.held[r] = tracker.held[r]
      /\ s \in ReplaySymbols /\ tracker'.held[s] = IF q.qty = 0 THEN NoPosition ELSE q
  BY DEF TrackerInv, Held
<1>3. Held' = IF q.qty = 0 THEN Held \ {s} ELSE Held
  <2>1. q.qty # 0 => q # NoPosition
    BY DEF NoPosition
  <2> QED
    BY <1>2, <2>1 DEF Held
<1>4. \A r \in Held' : r \in Held /\ tracker'.held[r].hz = tracker.held[r].hz
                       /\ tracker'.held[r].id = tracker.held[r].id
  BY <1>1, <1>2, <1>3 DEF Held
<1>5. /\ RoundTrip(q) \in TripType /\ RoundTrip(q).id = p.id
      /\ RoundTrip(q).net = 0 - Invested(q)
      /\ q.qty = 0 => RoundTrip(q).sold = RoundTrip(q).initial
  <2>1. q.qty = 0 => q.initial = SoldBy(q.outs)
    <3> DEFINE k == SoldBy(q.outs)
    <3>1. k \in Nat /\ q.initial = q.qty + k
      BY <1>1, InvestedIs DEF Position
    <3> HIDE DEF k
    <3>2. q.qty = 0 => q.initial = k
      BY <3>1
    <3> QED
      BY <3>2 DEF k
  <2> QED
    BY <1>1, <2>1, InvestedIs
<1>6. TrackerInv'
  <2>1. \A r \in Held' : /\ Position(tracker'.held[r]) /\ tracker'.held[r].qty # 0
                         /\ tracker'.held[r].id <= tracker'.opened
    BY <1>1, <1>2, <1>3 DEF TrackerInv, Held
  <2>2. \A t \in Range(tracker'.trips) :
          /\ t.sold = t.initial /\ t.id <= tracker'.opened
          /\ t \in S \/ (t.id = p.id /\ q.qty = 0)
    BY <1>1, <1>5
  <2>3. \A r, y \in Held' : tracker'.held[r].id = tracker'.held[y].id => r = y
    BY <1>4 DEF TrackerInv
  <2>4. \A r \in Held', t \in Range(tracker'.trips) : t.id # tracker'.held[r].id
    BY <1>3, <1>4, <2>2 DEF TrackerInv
  <2>5. \A t, u \in Range(tracker'.trips) : t.id = u.id => t = u
    BY <1>1, <1>5
  <2> QED
    BY <1>1, <1>2, <2>1, <2>2, <2>3, <2>4, <2>5 DEF TrackerInv
<1> DEFINE f == [r \in Held |-> Invested(tracker.held[r])]
           g == [r \in Held' |-> Invested(tracker'.held[r])]
           e == [t \in S |-> t.net]
           k == [t \in Range(tracker'.trips) |-> t.net]
           n == NetOf(w.recs)
<1>7. /\ IsFiniteSet(Held) /\ IsFiniteSet(S)
      /\ \A r \in Held : f[r] \in Int
      /\ \A t \in S : e[t] \in Int
      /\ f[s] = Invested(p) /\ DOMAIN f = Held /\ DOMAIN e = S
      /\ \A r \in Held' \ {s} : g[r] = f[r]
  <2>1. tracker.trips \in Seq(TripType)
    BY DEF TrackerInv
  <2>2. IsFiniteSet(S) /\ S \subseteq TripType
    BY <2>1, RangeFinite
  <2>3. \A t \in TripType : t.net \in Int
    BY DEF TripType
  <2>4. \A r \in Held : f[r] \in Int
    BY InvestedIs DEF TrackerInv
  <2> QED
    BY <1>2, <1>3, <2>2, <2>3, <2>4, HeldFinite DEF Held
<1>8. /\ Invested(q) = Invested(p) - n
      /\ Invested(q) \in Int /\ Invested(p) \in Int /\ n \in Int
  BY CarriedInvested
<1>9. /\ cash = c + TripsOnce - AllInvested /\ c \in Int
      /\ AllInvested = SumFunction(f) /\ AllInvested' = SumFunction(g)
      /\ TripsOnce = SumFunction(e) /\ TripsOnce' = SumFunction(k)
      /\ CashIs' <=> cash' = c + TripsOnce' - AllInvested'
  BY ReplayAssumption DEF CashIs, AllInvested, TripsOnce, Value, Won
<1>10. CASE q.qty = 0
  <2>1. SumFunction(g) = SumFunction(f) - Invested(p) /\ SumFunction(f) \in Int
    <3>1. DOMAIN g = Held \ {s}
      BY <1>3, <1>10
    <3> DEFINE J == Held \ {s}
    <3>2. /\ IsFiniteSet(J) /\ s \notin J /\ J \cup {s} = Held
      BY <1>7, FS_Subset
    <3> HIDE DEF f, g, J
    <3>3. /\ DOMAIN g = J /\ DOMAIN f = J \cup {s} /\ f[s] \in Int
          /\ \A r \in J : g[r] \in Int /\ f[r] = g[r]
      BY <1>3, <1>7, <1>10, <3>1, <3>2 DEF J
    <3>4. Joins(g, f, J, s)
      BY <3>2, <3>3 DEF Joins
    <3>5. SumFunction(f) = SumFunction(g) + f[s] /\ SumFunction(g) \in Int
      BY <3>4, SumJoined
    <3> QED
      BY <1>7, <1>8, <3>5
  <2>2. SumFunction(k) = SumFunction(e) - Invested(q) /\ SumFunction(e) \in Int
    <3> DEFINE z == RoundTrip(q)
    <3>1. z \notin S /\ z.net = 0 - Invested(q) /\ z.net \in Int
      BY <1>1, <1>5, <1>8
    <3>2. DOMAIN k = S \cup {z} /\ \A t \in S \cup {z} : k[t] = t.net
      BY <1>1, <1>10
    <3>3. \A t \in S : e[t] = t.net
      OBVIOUS
    <3> HIDE DEF e, k, z, S
    <3>4. /\ IsFiniteSet(S) /\ DOMAIN e = S /\ k[z] \in Int
          /\ \A t \in S : e[t] \in Int /\ k[t] = e[t]
      BY <1>7, <3>1, <3>2, <3>3
    <3>5. Joins(e, k, S, z)
      BY <3>1, <3>2, <3>4 DEF Joins
    <3>6. SumFunction(k) = SumFunction(e) + k[z] /\ SumFunction(e) \in Int
      BY <3>5, SumJoined
    <3> QED
      BY <1>8, <3>1, <3>2, <3>6
  <2> HIDE DEF n, c, f, g, e, k
  <2>3. cash' = c + TripsOnce' - AllInvested' /\ cash' \in Int
    BY <1>8, <1>9, <2>1, <2>2 DEF n
  <2> QED
    BY <1>4, <1>6, <1>9, <1>10, <1>3, <2>3
<1>11. CASE q.qty # 0
  <2>1. /\ SumFunction(g) = SumFunction(f) + Invested(q) - Invested(p)
        /\ SumFunction(f) \in Int
    <3>1. DOMAIN g = Held /\ g[s] = Invested(q)
      BY <1>2, <1>3, <1>11
    <3> HIDE DEF f, g
    <3> QED
      BY <1>3, <1>7, <1>8, <1>11, <3>1, SumReplaced
  <2>2. SumFunction(k) = SumFunction(e) /\ SumFunction(e) \in Int
    <3>1. k = e
      BY <1>1, <1>11
    <3> QED
      BY <1>7, <3>1, SumType DEF SumFunction
  <2> HIDE DEF n, c, f, g, e, k
  <2>3. cash' = c + TripsOnce' - AllInvested' /\ cash' \in Int
    BY <1>8, <1>9, <2>1, <2>2 DEF n
  <2> QED
    BY <1>4, <1>6, <1>9, <1>11, <2>3
<1> QED
  BY <1>10, <1>11
(* Whatever happens inside a time stamp keeps these types.                 *)
LEMMA StampTypes ==
  ASSUME ReplayTypes, cash' \in Int, cooldowns' \in [ReplaySymbols -> Nat],
         UNCHANGED <<equity, dayStart, clock, bars>>,
         OnToNext("manage", "evaluate") \/ OnToNext("evaluate", "mark")
  PROVE  ReplayTypes'
<1>1. next' \in 1 .. Len(BarList) /\ phase' \in {"manage", "evaluate", "mark", "marked"}
  <2> DEFINE n == Len(BarList)
  <2>1. n \in Nat /\ n # 0 /\ next \in 1 .. n
    BY ReplayConstants DEF ReplayTypes
  <2>2. \/ next' = 1 /\ phase' \in {"evaluate", "mark"}
        \/ next # n /\ next' = next + 1 /\ phase' \in {"manage", "evaluate"}
    BY DEF OnToNext
  <2> HIDE DEF n
  <2>3. next' \in 1 .. n
    BY <2>1, <2>2
  <2> QED
    BY <2>2, <2>3 DEF n
<1> QED
  BY <1>1 DEF ReplayTypes

LEMMA CooledDownType ==
  ASSUME ReplayTypes, NEW s \in ReplaySymbols, NEW recs
  PROVE  CooledDown(s, recs) \in [ReplaySymbols -> Nat]
<1>1. Now + 20 \in Nat
  BY TheTime
<1> QED
  BY <1>1 DEF CooledDown, ReplayTypes

LEMMA ManageStep ==
  ASSUME ReplayInv, NEW s \in ReplaySymbols, Manage(s)
  PROVE  ReplayInv'
<1>1. PICK atr \in AtrValues :
        LET u == Updated(tracker, s, bars[s], [at |-> At, now |-> Now, atr |-> atr, avg |-> 0])
        IN  /\ tracker' = u.tracker
            /\ cash' = cash + Total(u.recs, Proceeds)
            /\ cooldowns' = CooledDown(s, u.recs)
  BY DEF Manage
<1> DEFINE x == [at |-> At, now |-> Now, atr |-> atr, avg |-> 0]
           b == bars[s]
           u == Updated(tracker, s, b, x)
<1>2. /\ tracker' = u.tracker /\ cash' = cash + NetOf(u.recs)
      /\ cooldowns' = CooledDown(s, u.recs)
  BY <1>1, ProceedsAre
<1>3. /\ phase = "manage" /\ s = BarList[next] /\ OnToNext("manage", "evaluate")
      /\ UNCHANGED <<equity, dayStart, clock, bars>>
      /\ ReplayTypes /\ TrackerInv /\ CashIs /\ LateAreSwing /\ cash \in Int
  BY DEF Manage, ReplayInv, ReplayTypes
<1>4. x.at = At /\ x.atr \in Nat /\ At \in Nat /\ b \in BarType /\ At' = At
  BY <1>3, TheTime, BarsAre, ReplayAssumption DEF ReplayTypes, At
<1>5. cooldowns' \in [ReplaySymbols -> Nat]
  BY <1>2, <1>3, CooledDownType
<1> HIDE DEF x, b
<1>6. /\ TrackerInv' /\ CashIs' /\ cash' \in Int
      /\ \A r \in Held' : r \in Held /\ tracker'.held[r].hz = tracker.held[r].hz
      /\ s \in Held' /\ At >= 920 => tracker.held[s].hz = "SWING"
  <2>1. CASE s \in Held
    <3>0. UpdatedAs(u, s, x.at)
      <4>1. x.atr \in Nat /\ x.at \in Nat
        BY <1>4
      <4> QED
        BY <1>3, <1>4, <2>1, <4>1, UpdateIs
    <3> HIDE DEF u
    <3>1. PICK w : /\ Carried(w, tracker.held[s], Range(tracker.trips))
                   /\ (tracker.held[s].hz = "INTRADAY" /\ x.at >= 920 => w.p.qty = 0)
                   /\ u.recs = w.recs
                   /\ {"held", "trips", "tradeNet", "opened"} \subseteq DOMAIN u.tracker
                   /\ u.tracker.held =
                        [tracker.held EXCEPT ![s] = IF w.p.qty = 0 THEN NoPosition ELSE w.p]
                   /\ u.tracker.trips = w.trips /\ u.tracker.opened = tracker.opened
      BY <3>0 DEF UpdatedAs
    <3>2. /\ {"held", "trips", "tradeNet", "opened"} \subseteq DOMAIN tracker'
          /\ tracker'.held = [tracker.held EXCEPT ![s] = IF w.p.qty = 0 THEN NoPosition ELSE w.p]
          /\ tracker'.trips = w.trips /\ tracker'.opened = tracker.opened
          /\ cash' = cash + NetOf(w.recs)
      BY <1>2, <3>1
    <3>3. /\ TrackerInv' /\ CashIs' /\ cash' \in Int
          /\ \A r \in Held' : r \in Held /\ tracker'.held[r].hz = tracker.held[r].hz
          /\ s \in Held' => w.p.qty # 0
      BY <1>3, <2>1, <3>1, <3>2, HandledIs
    <3>4. tracker.held[s].hz \in {"INTRADAY", "SWING"}
      BY <1>3, <2>1 DEF TrackerInv, Position
    <3> QED
      BY <1>4, <3>1, <3>3, <3>4
  <2>2. CASE s \notin Held
    <3>1. u = [tracker |-> tracker, recs |-> <<>>]
      BY <2>2 DEF Held, Updated
    <3> HIDE DEF u
    <3>2. tracker' = tracker /\ cash' = cash
      BY <1>2, <1>3, <3>1, NoExit
    <3>3. Held' = Held /\ TrackerInv'
      BY <1>3, <3>2 DEF Held, TrackerInv
    <3>4. CashIs'
      BY <1>3, <3>2, <3>3 DEF CashIs, TripsOnce, AllInvested
    <3> QED
      BY <1>3, <2>2, <3>2, <3>3, <3>4
  <2> QED
    BY <2>1, <2>2
<1>7. ReplayTypes'
  BY <1>3, <1>5, <1>6, StampTypes
<1>8. LateAreSwing'
  <2> SUFFICES ASSUME At >= 920, NEW r \in Held',
                      phase' # "manage" \/ (\E i \in 1 .. next' - 1 : r = BarList[i])
               PROVE  tracker'.held[r].hz = "SWING"
    BY <1>4 DEF LateAreSwing
  <2>1. r \in Held /\ tracker'.held[r].hz = tracker.held[r].hz
    BY <1>6
  <2>2. \E i \in 1 .. next : r = BarList[i]
    <3>1. CASE next = Len(BarList)
      BY <2>1, <3>1, ReplayConstants DEF Held
    <3>2. CASE next # Len(BarList)
      <4>1. next' = next + 1 /\ phase' = "manage"
        BY <1>3, <3>2 DEF OnToNext
      <4>2. next \in Nat
        BY <1>3, ReplayConstants DEF ReplayTypes
      <4> QED
        BY <4>1, <4>2
    <3> QED
      BY <3>1, <3>2
  <2>3. r = s \/ \E i \in 1 .. next - 1 : r = BarList[i]
    BY <1>3, <2>2, ReplayConstants DEF ReplayTypes
  <2>4. CASE r = s
    BY <1>6, <2>1, <2>4
  <2>5. CASE \E i \in 1 .. next - 1 : r = BarList[i]
    BY <1>3, <2>1, <2>5 DEF LateAreSwing
  <2> QED
    BY <2>3, <2>4, <2>5
<1>9. MarkedIs'
  BY <1>3 DEF OnToNext, MarkedIs
<1> QED
  BY <1>6, <1>7, <1>8, <1>9 DEF ReplayInv
(* A purchase within the signal: some shares at a price of whole won.      *)
LEMMA SharesAreWhole ==
  ASSUME equity \in Int, NEW sig, {sig.entry, sig.stop} \subseteq Nat
  PROVE  Shares(sig) \in Int
<1> DEFINE d == StopDistance(sig)
           m == PerShare(sig) * Won
           k == equity \div m
<1>1. d \in Int /\ d > 0
  <2>1. CASE sig.stop = sig.entry
    <3> DEFINE e == (sig.entry * 2) \div 100
    <3>1. e \in Int
      OBVIOUS
    <3> HIDE DEF e
    <3>2. Greatest(1, e) \in Int /\ Greatest(1, e) > 0
      BY <3>1, LeastGreatest
    <3> QED
      BY <2>1, <3>2 DEF StopDistance, e
  <2>2. CASE sig.stop # sig.entry
    BY <2>2 DEF StopDistance, Distance
  <2> QED
    BY <2>1, <2>2
<1>2. PerShare(sig) = d * 100 \/ PerShare(sig) = d * 200
  BY DEF PerShare
<1> HIDE DEF d
<1>3. m \in Int /\ m > 0
  BY <1>1, <1>2 DEF Won
<1> HIDE DEF m
<1>4. k \in Int
  BY <1>3
<1>5. Shares(sig) \in {0, 1, k}
  BY DEF Shares, k, m
<1> QED
  BY <1>4, <1>5

LEMMA EntryFillIs ==
  ASSUME NEW b \in BarType, NEW qty \in Nat, NEW limit \in Nat, NEW kind
  PROVE  EntryFill(kind, qty, limit, b).qty \in Int /\ EntryFill(kind, qty, limit, b).price \in Int
<1> DEFINE f == EntryFill(kind, qty, limit, b)
           v == b.volume \div 10
           g == Greatest(1, v)
           n == Least(qty, g)
           i == Impact(qty, b.volume)
           a == (b.open * i) \div 1000000
           c == b.open + a
           l == Greatest(b.low, c)
           m == Least(b.high, l)
<1>1. b.open \in Nat /\ b.low \in Nat /\ b.high \in Nat /\ b.volume \in Nat
  BY DEF BarType
<1>2. v \in Int /\ i \in Int
  BY <1>1, ImpactIs
<1>3. \/ f.qty = n /\ f.price = m
      \/ f.qty = n /\ f.price = Least(limit, b.open)
      \/ f.qty = 0 /\ f.price = 0
  BY DEF EntryFill, Unfilled
<1> HIDE DEF f, v, i
<1>4. g \in Int
  BY <1>2, LeastGreatest
<1>5. a \in Int
  <2> DEFINE k == b.open * i
  <2>1. k \in Int
    BY <1>1, <1>2
  <2> HIDE DEF k
  <2>2. k \div 1000000 \in Int
    BY <2>1
  <2> QED
    BY <2>2 DEF k
<1> HIDE DEF g, a
<1>6. n \in Int /\ c \in Int
  BY <1>1, <1>4, <1>5, LeastGreatest
<1> HIDE DEF n, c
<1>7. l \in Int
  BY <1>1, <1>6, LeastGreatest
<1> HIDE DEF l
<1>8. m \in Int /\ Least(limit, b.open) \in Int
  BY <1>1, <1>7, LeastGreatest
<1> HIDE DEF m
<1>9. f.qty \in Int /\ f.price \in Int
  BY <1>3, <1>6, <1>8
<1> QED
  BY <1>9 DEF f

(* t is the tracker with a new position of s: its number is new, and its   *)
(* price is what it has cost.                                              *)
OpenedAs(t, s, hz, cost) ==
  \E p : /\ Position(p) /\ p.qty # 0 /\ p # NoPosition
         /\ p.id = tracker.opened + 1 /\ p.hz = hz /\ Invested(p) = cost
         /\ {"held", "trips", "tradeNet", "opened"} \subseteq DOMAIN t
         /\ t.held = [tracker.held EXCEPT ![s] = p]
         /\ t.trips = tracker.trips /\ t.opened = tracker.opened + 1

LEMMA OpenedIs ==
  ASSUME {"held", "trips", "tradeNet", "opened"} \subseteq DOMAIN tracker,
         tracker.opened \in Nat,
         NEW s \in DOMAIN tracker.held, NEW hz \in {"INTRADAY", "SWING"}, NEW qty \in Nat, qty # 0,
         NEW entry \in Int, NEW stop \in Int, NEW t1 \in Int, NEW t2 \in Int, NEW at
  PROVE  OpenedAs(OpenPosition(tracker, s, hz, qty, entry, stop, t1, t2, at), s, hz,
                  Value(entry, qty) + Commission(entry, qty))
<1> DEFINE low == IF stop < entry THEN stop ELSE (entry * 98) \div 100
           fee == Commission(entry, qty)
           id == tracker.opened + 1
           p == [id |-> id, hz |-> hz, qty |-> qty, initial |-> qty,
                 entry |-> entry, stop |-> low, t1 |-> t1, t2 |-> t2,
                 r |-> Greatest(1, entry - low), took1 |-> FALSE, took2 |-> FALSE,
                 trail |-> low, high |-> entry, last |-> entry, status |-> "ACTIVE",
                 since |-> at, feeLeft |-> fee, outs |-> <<>>]
           h == [tracker.held EXCEPT ![s] = p]
           t == OpenPosition(tracker, s, hz, qty, entry, stop, t1, t2, at)
<1>1. t = [tracker EXCEPT !.opened = id, !.held = h]
  BY DEF OpenPosition
<1>2. low \in Int /\ fee \in Int /\ id \in Nat /\ Value(entry, qty) \in Int
  <2>1. entry * qty \in Int
    OBVIOUS
  <2> QED
    BY <2>1 DEF Commission, Value, Won
<1> HIDE DEF low, fee, id
<1>3. PositionFields \subseteq DOMAIN p
  BY DEF PositionFields
<1>4. /\ p.id = id /\ p.hz = hz /\ p.qty = qty /\ p.initial = qty /\ p.outs = <<>>
      /\ p.entry = entry
      /\ {p.entry, p.stop, p.t1, p.t2, p.trail, p.high, p.last, p.feeLeft} \subseteq Int
  BY <1>2
<1> HIDE DEF p
<1>5. Position(p)
  <2>1. p.outs \in Seq(ExitRec) /\ SoldBy(p.outs) = 0
    BY <1>4, NoExit
  <2> QED
    BY <1>2, <1>3, <1>4, <2>1 DEF Position
<1>6. Invested(p) = Value(entry, qty) + Commission(entry, qty)
  <2>1. NetOf(p.outs) = 0
    BY <1>4, NoExit
  <2>2. Invested(p) = Value(entry, qty) + fee - 0
    BY <1>4, <2>1, InvestedSplit DEF fee
  <2> QED
    BY <1>2, <2>2 DEF fee
<1>7. p # NoPosition
  BY <1>4 DEF NoPosition
<1> HIDE DEF h, t
<1>8. /\ {"held", "trips", "tradeNet", "opened"} \subseteq DOMAIN t
      /\ t.held = h /\ t.trips = tracker.trips /\ t.opened = id
  BY <1>1
<1> QED
  BY <1>4, <1>5, <1>6, <1>7, <1>8 DEF OpenedAs, t, h, id
(* A purchase moves its price from the cash into a position.               *)
LEMMA JoinedIs ==
  ASSUME TrackerInv, CashIs, cash \in Int, NEW s \in ReplaySymbols, s \notin Held,
         NEW p, Position(p), p.qty # 0, p # NoPosition, p.id = tracker.opened + 1,
         NEW v, Invested(p) = v,
         {"held", "trips", "tradeNet", "opened"} \subseteq DOMAIN tracker',
         tracker'.held = [tracker.held EXCEPT ![s] = p],
         tracker'.trips = tracker.trips, tracker'.opened = tracker.opened + 1,
         cash' = cash - v
  PROVE  /\ TrackerInv' /\ CashIs' /\ cash' \in Int
         /\ Held' = Held \cup {s} /\ tracker'.held[s] = p
         /\ \A r \in Held : tracker'.held[r] = tracker.held[r]
<1> DEFINE c == Value(Capital, 1)
           n == tracker.opened
<1>1. /\ DOMAIN tracker.held = ReplaySymbols /\ DOMAIN tracker'.held = ReplaySymbols
      /\ \A r \in ReplaySymbols \ {s} : tracker'.held[r] = tracker.held[r]
      /\ tracker'.held[s] = p
  BY DEF TrackerInv
<1>2. Held' = Held \cup {s} /\ \A r \in Held : tracker'.held[r] = tracker.held[r]
  BY <1>1 DEF Held
<1>3. /\ n \in Nat /\ \A r \in Held : tracker.held[r].id <= n
      /\ \A r \in Held : tracker.held[r].id \in Nat
      /\ tracker.trips \in Seq(TripType)
      /\ \A t \in Range(tracker.trips) : t.sold = t.initial /\ t.id <= n
  BY DEF TrackerInv, Position
<1>4. IsFiniteSet(Range(tracker.trips)) /\ Range(tracker.trips) \subseteq TripType
  BY <1>3, RangeFinite
<1>5. \A t \in TripType : t.id \in Nat /\ t.net \in Int
  BY DEF TripType
<1> HIDE DEF n
<1>6. TrackerInv'
  <2>1. /\ tracker'.opened = n + 1 /\ p.id = n + 1 /\ tracker'.opened \in Nat
    BY <1>3 DEF n
  <2>2. \A r \in Held' : /\ Position(tracker'.held[r]) /\ tracker'.held[r].qty # 0
                         /\ tracker'.held[r].id <= tracker'.opened
    <3>1. \A r \in Held : Position(tracker'.held[r]) /\ tracker'.held[r].qty # 0
      BY <1>2 DEF TrackerInv
    <3>2. \A r \in Held : tracker'.held[r].id <= n + 1
      BY <1>2, <1>3
    <3> QED
      BY <1>1, <1>2, <1>3, <2>1, <3>1, <3>2
  <2>3. \A r \in Held : tracker'.held[r].id # tracker'.held[s].id
    BY <1>1, <1>2, <1>3, <2>1
  <2>4. \A r, y \in Held' : tracker'.held[r].id = tracker'.held[y].id => r = y
    <3>1. \A r, y \in Held : tracker'.held[r].id = tracker'.held[y].id => r = y
      BY <1>2 DEF TrackerInv
    <3> QED
      BY <1>2, <2>3, <3>1
  <2>5. \A t \in Range(tracker'.trips) : t.sold = t.initial /\ t.id <= tracker'.opened
    BY <1>3, <1>4, <1>5, <2>1
  <2>6. \A r \in Held', t \in Range(tracker'.trips) : t.id # tracker'.held[r].id
    <3>1. \A t \in Range(tracker.trips) : t.id # n + 1
      BY <1>3, <1>4, <1>5
    <3>2. \A r \in Held, t \in Range(tracker.trips) : t.id # tracker'.held[r].id
      BY <1>2 DEF TrackerInv
    <3> QED
      BY <1>1, <1>2, <2>1, <3>1, <3>2
  <2>7. \A t, u \in Range(tracker'.trips) : t.id = u.id => t = u
    BY DEF TrackerInv
  <2> QED
    BY <1>1, <1>3, <2>1, <2>2, <2>4, <2>5, <2>6, <2>7 DEF TrackerInv
<1> DEFINE f == [r \in Held |-> Invested(tracker.held[r])]
           g == [r \in Held' |-> Invested(tracker'.held[r])]
           H == Held
<1>7. v \in Int
  BY InvestedIs
<1>8. SumFunction(g) = SumFunction(f) + v /\ SumFunction(f) \in Int
  <2>1. /\ IsFiniteSet(H) /\ s \notin H /\ DOMAIN f = H /\ DOMAIN g = H \cup {s}
        /\ g[s] = v /\ \A r \in H : g[r] = f[r]
    BY <1>1, <1>2, HeldFinite
  <2>2. \A r \in H : f[r] \in Int
    BY InvestedIs DEF TrackerInv
  <2> HIDE DEF f, g, H
  <2>3. Joins(f, g, H, s)
    BY <1>7, <2>1, <2>2 DEF Joins
  <2>4. SumFunction(g) = SumFunction(f) + g[s] /\ SumFunction(f) \in Int
    BY <2>3, SumJoined
  <2> QED
    BY <2>1, <2>4
<1>9. TripsOnce' = TripsOnce /\ TripsOnce \in Int
  <2> DEFINE S == Range(tracker.trips)
             e == [t \in S |-> t.net]
  <2>1. DOMAIN e = S /\ \A t \in S : e[t] \in Int
    BY <1>4, <1>5
  <2>2. TripsOnce = SumFunction(e) /\ TripsOnce' = TripsOnce
    BY DEF TripsOnce
  <2> HIDE DEF e
  <2> QED
    BY <1>4, <2>1, <2>2, SumType DEF SumFunction
<1>10. /\ cash = c + TripsOnce - AllInvested /\ c \in Int
       /\ AllInvested = SumFunction(f) /\ AllInvested' = SumFunction(g)
       /\ CashIs' <=> cash' = c + TripsOnce' - AllInvested'
  BY ReplayAssumption DEF CashIs, AllInvested, Value, Won
<1> HIDE DEF c, f, g, H
<1>11. cash' = c + TripsOnce' - AllInvested' /\ cash' \in Int
  BY <1>7, <1>8, <1>9, <1>10
<1> QED
  BY <1>1, <1>2, <1>6, <1>10, <1>11

LEMMA EvaluateStep ==
  ASSUME ReplayInv, NEW s \in ReplaySymbols, Evaluate(s)
  PROVE  ReplayInv'
<1>1. /\ phase = "evaluate" /\ OnToNext("evaluate", "mark")
      /\ UNCHANGED <<equity, dayStart, cooldowns, clock, bars>>
      /\ ReplayTypes /\ TrackerInv /\ CashIs /\ LateAreSwing
      /\ cash \in Int /\ equity \in Int /\ bars \in Markets
  BY DEF Evaluate, ReplayInv, ReplayTypes
<1>2. phase' # "manage" /\ At' = At /\ At \in Nat
  BY <1>1, TheTime DEF OnToNext, At
<1>3. /\ TrackerInv' /\ CashIs' /\ cash' \in Int
      /\ \A r \in Held' : \/ r \in Held /\ tracker'.held[r].hz = tracker.held[r].hz
                          \/ (At >= 920 => tracker'.held[r].hz = "SWING")
  <2>1. CASE UNCHANGED <<cash, tracker>>
    <3>1. Held' = Held /\ TrackerInv'
      BY <1>1, <2>1 DEF Held, TrackerInv
    <3>2. CashIs'
      BY <1>1, <2>1, <3>1 DEF CashIs, TripsOnce, AllInvested
    <3> QED
      BY <1>1, <2>1, <3>1, <3>2
  <2>2. CASE \E sig \in Signals(bars[s]) : Approved(s, sig) /\ Bought(s, sig)
    <3>1. PICK sig \in Signals(bars[s]) : Approved(s, sig) /\ Bought(s, sig)
      BY <2>2
    <3>2. /\ sig.hz \in {"INTRADAY", "SWING"}
          /\ {sig.entry, sig.stop, sig.t1, sig.t2} \subseteq Nat /\ bars[s] \in BarType
      BY <1>1, ReplayAssumption, BarsAre
    <3> DEFINE b == bars[s]
               n == Shares(sig)
               f == EntryFill(sig.kind, n, sig.entry, b)
               v == Value(f.price, f.qty) + Commission(f.price, f.qty)
               t == OpenPosition(tracker, s, sig.hz, f.qty, f.price, sig.stop, sig.t1, sig.t2, Now)
    <3>3. /\ s \notin Held /\ n > 0 /\ (sig.hz = "INTRADAY" => At < 900)
          /\ f.qty > 0 /\ tracker' = t
          /\ cash' = cash - Value(f.price, f.qty) - Commission(f.price, f.qty)
      BY <3>1 DEF Approved, InTime, Bought
    <3>4. n \in Nat /\ b \in BarType /\ sig.entry \in Nat
      BY <1>1, <3>2, <3>3, SharesAreWhole
    <3> HIDE DEF b, n
    <3>5. f.qty \in Int /\ f.price \in Int
      BY <3>4, EntryFillIs
    <3> DEFINE k == f.qty
               d == f.price
    <3>6. k \in Nat /\ k # 0 /\ d \in Int
      BY <3>3, <3>5
    <3> HIDE DEF f
    <3>7. cash' = cash - v
      <4>1. d * k \in Int
        BY <3>6
      <4>2. Value(d, k) \in Int /\ Commission(d, k) \in Int
        BY <4>1 DEF Value, Commission, Won
      <4> DEFINE va == Value(d, k)
                 co == Commission(d, k)
      <4>3. v = va + co /\ cash' = cash - va - co
        BY <3>3
      <4> HIDE DEF va, co, v
      <4>4. va \in Int /\ co \in Int
        BY <4>2 DEF va, co
      <4> QED
        BY <1>1, <4>3, <4>4
    <3>8. s \in DOMAIN tracker.held /\ tracker.opened \in Nat
          /\ {"held", "trips", "tradeNet", "opened"} \subseteq DOMAIN tracker
      BY <1>1 DEF TrackerInv
    <3> HIDE DEF k, d
    <3>9. PICK p : /\ Position(p) /\ p.qty # 0 /\ p # NoPosition
                   /\ p.id = tracker.opened + 1 /\ p.hz = sig.hz
                   /\ Invested(p) = Value(d, k) + Commission(d, k)
                   /\ {"held", "trips", "tradeNet", "opened"} \subseteq DOMAIN t
                   /\ t.held = [tracker.held EXCEPT ![s] = p]
                   /\ t.trips = tracker.trips /\ t.opened = tracker.opened + 1
      <4> DEFINE hz == sig.hz
                 st == sig.stop
                 a1 == sig.t1
                 a2 == sig.t2
                 now == Now
      <4>1. hz \in {"INTRADAY", "SWING"} /\ st \in Int /\ a1 \in Int /\ a2 \in Int
        BY <3>2
      <4>2. t = OpenPosition(tracker, s, hz, k, d, st, a1, a2, now)
        BY DEF k, d
      <4> HIDE DEF hz, st, a1, a2, now, t
      <4>3. OpenedAs(t, s, hz, Value(d, k) + Commission(d, k))
        BY <3>6, <3>8, <4>1, <4>2, OpenedIs
      <4> QED
        BY <4>3 DEF OpenedAs, hz
    <3> HIDE DEF t
    <3>10. Invested(p) = v
      BY <3>9 DEF k, d
    <3> HIDE DEF v
    <3>11. /\ TrackerInv' /\ CashIs' /\ cash' \in Int
           /\ Held' = Held \cup {s} /\ tracker'.held[s] = p
           /\ \A r \in Held : tracker'.held[r] = tracker.held[r]
      BY <1>1, <3>3, <3>7, <3>9, <3>10, JoinedIs
    <3>12. At >= 920 => p.hz = "SWING"
      BY <1>2, <3>2, <3>3, <3>9
    <3> QED
      BY <3>11, <3>12
  <2> QED
    BY <2>1, <2>2 DEF Evaluate
<1>4. ReplayTypes'
  <2>1. cooldowns' \in [ReplaySymbols -> Nat]
    BY <1>1 DEF ReplayTypes
  <2> QED
    BY <1>1, <1>3, <2>1, StampTypes
<1>5. LateAreSwing'
  BY <1>1, <1>2, <1>3 DEF LateAreSwing
<1>6. MarkedIs'
  BY <1>1 DEF OnToNext, MarkedIs
<1> QED
  BY <1>3, <1>4, <1>5, <1>6 DEF ReplayInv

LEMMA MarkStep == ReplayInv /\ Mark => ReplayInv'
<1> SUFFICES ASSUME ReplayInv, Mark PROVE ReplayInv'
  OBVIOUS
<1>1. /\ phase = "mark" /\ equity' = cash + MarketValue /\ phase' = "marked"
      /\ UNCHANGED <<cash, dayStart, tracker, cooldowns, clock, next, bars>>
      /\ ReplayTypes /\ TrackerInv /\ CashIs /\ LateAreSwing
  BY DEF Mark, ReplayInv
<1>2. MarketValue \in Int
  <2> DEFINE f == [s \in Held |-> Value(tracker.held[s].last, tracker.held[s].qty)]
  <2>1. \A s \in Held : f[s] \in Int
    <3> SUFFICES ASSUME NEW s \in Held PROVE Value(tracker.held[s].last, tracker.held[s].qty) \in Int
      OBVIOUS
    <3>1. tracker.held[s].last \in Int /\ tracker.held[s].qty \in Nat
      BY <1>1 DEF TrackerInv, Position
    <3>2. tracker.held[s].last * tracker.held[s].qty \in Int
      BY <3>1
    <3> QED
      BY <3>2 DEF Value, Won
  <2>2. DOMAIN f = Held /\ MarketValue = SumFunction(f)
    BY DEF MarketValue
  <2> HIDE DEF f
  <2> QED
    BY <2>1, <2>2, HeldFinite, SumType DEF SumFunction
<1>3. ReplayTypes'
  BY <1>1, <1>2 DEF ReplayTypes
<1>4. Held' = Held /\ TrackerInv'
  BY <1>1 DEF Held, TrackerInv
<1>5. CashIs'
  BY <1>1, <1>4 DEF CashIs, TripsOnce, AllInvested
<1>6. LateAreSwing'
  BY <1>1, <1>4 DEF LateAreSwing, At
<1>7. MarkedIs'
  BY <1>1, <1>4 DEF MarkedIs, MarketValue
<1> QED
  BY <1>3, <1>4, <1>5, <1>6, <1>7 DEF ReplayInv

LEMMA NextBarsStep == ReplayInv /\ NextBars => ReplayInv'
<1> SUFFICES ASSUME ReplayInv, NextBars PROVE ReplayInv'
  OBVIOUS
<1>1. /\ phase' = "manage" /\ next' = 1 /\ bars' \in Markets
      /\ UNCHANGED <<cash, equity, tracker, cooldowns>>
      /\ ReplayTypes /\ TrackerInv /\ CashIs
  BY DEF NextBars, ReplayInv
<1>2. /\ clock' \in [day : Nat, slot : 1 .. Len(BarTimes)] /\ dayStart' \in Int
  <2> DEFINE n == Len(BarTimes)
  <2>1. /\ n \in Nat /\ n # 0 /\ clock \in [day : Nat, slot : 1 .. n]
        /\ dayStart \in Int /\ equity \in Int
    BY <1>1, ReplayConstants DEF ReplayTypes
  <2>2. \/ clock.slot < n /\ clock' = [clock EXCEPT !.slot = clock.slot + 1] /\ dayStart' = dayStart
        \/ clock' = [day |-> clock.day + 1, slot |-> 1] /\ dayStart' = equity
    BY DEF NextBars
  <2> HIDE DEF n
  <2>3. clock' \in [day : Nat, slot : 1 .. n] /\ dayStart' \in Int
    BY <2>1, <2>2
  <2> QED
    BY <2>3 DEF n
<1>3. ReplayTypes'
  BY <1>1, <1>2, ReplayConstants DEF ReplayTypes
<1>4. Held' = Held /\ TrackerInv'
  BY <1>1 DEF Held, TrackerInv
<1>5. CashIs'
  BY <1>1, <1>4 DEF CashIs, TripsOnce, AllInvested
<1>6. LateAreSwing' /\ MarkedIs'
  BY <1>1 DEF LateAreSwing, MarkedIs
<1> QED
  BY <1>3, <1>4, <1>5, <1>6 DEF ReplayInv

LEMMA ReplayStep == ReplayInv /\ [ReplayNext]_replayVars => ReplayInv'
<1> SUFFICES ASSUME ReplayInv, [ReplayNext]_replayVars PROVE ReplayInv'
  OBVIOUS
<1>1. CASE \E s \in ReplaySymbols : Manage(s) \/ Evaluate(s)
  BY <1>1, ManageStep, EvaluateStep
<1>2. CASE Mark
  BY <1>2, MarkStep
<1>3. CASE NextBars
  BY <1>3, NextBarsStep
<1>4. CASE UNCHANGED replayVars
  <2>1. UNCHANGED <<cash, equity, dayStart, tracker, cooldowns, clock, phase, next, bars>>
    BY <1>4 DEF replayVars
  <2>2. Held' = Held /\ TrackerInv'
    BY <2>1 DEF Held, TrackerInv, ReplayInv
  <2>3. CashIs'
    BY <2>1, <2>2 DEF ReplayInv, CashIs, TripsOnce, AllInvested
  <2>4. ReplayTypes' /\ LateAreSwing' /\ MarkedIs'
    BY <2>1, <2>2 DEF ReplayInv, ReplayTypes, LateAreSwing, At, MarkedIs, MarketValue
  <2> QED
    BY <2>2, <2>3, <2>4 DEF ReplayInv
<1> QED
  BY <1>1, <1>2, <1>3, <1>4 DEF ReplayNext

(* Terms counted under their names or by their places, when no two places  *)
(* have one name.                                                          *)
Places(f, g, h, A) ==
  /\ IsFiniteSet(A)
  /\ \A i \in A : f[i] \in Int /\ g[h[i]] = f[i]
  /\ \A i, j \in A : h[i] = h[j] => i = j

LEMMA SumByPlace ==
  ASSUME NEW A, NEW f, NEW g, NEW h, Places(f, g, h, A)
  PROVE  SumFunctionOnSet(g, {h[i] : i \in A}) = SumFunctionOnSet(f, A)
<1> DEFINE Names(T) == {h[i] : i \in T}
           P == {T \in SUBSET A : /\ IsFiniteSet(Names(T))
                                  /\ SumFunctionOnSet(g, Names(T)) = SumFunctionOnSet(f, T)}
<1>1. {} \in P
  <2>1. Names({}) = {} /\ IsFiniteSet({})
    BY FS_EmptySet
  <2> QED
    BY <2>1, SumEmpty
<1>2. ASSUME NEW T \in P, NEW x \in A \ T PROVE T \cup {x} \in P
  <2> DEFINE N == Names(T)
             M == Names(T \cup {x})
             y == h[x]
  <2>1. M = N \cup {y} /\ y \notin N /\ g[y] = f[x] /\ f[x] \in Int
    BY DEF Places
  <2>2. \A z \in M : g[z] \in Int
    BY DEF Places
  <2>3. IsFiniteSet(N) /\ SumFunctionOnSet(g, N) = SumFunctionOnSet(f, T)
    OBVIOUS
  <2>4. IsFiniteSet(T) /\ x \notin T /\ \A z \in T \cup {x} : f[z] \in Int
    BY FS_Subset DEF Places
  <2> HIDE DEF N, M, y
  <2>5. IsFiniteSet(M)
    BY <2>1, <2>3, FS_AddElement
  <2>6. SumFunctionOnSet(g, M) = SumFunctionOnSet(g, N) + g[y]
    BY <2>1, <2>2, <2>3, SumAdd
  <2>7. SumFunctionOnSet(f, T \cup {x}) = SumFunctionOnSet(f, T) + f[x]
    BY <2>4, SumAdd
  <2>8. SumFunctionOnSet(g, M) = SumFunctionOnSet(f, T \cup {x})
    BY <2>1, <2>3, <2>6, <2>7
  <2> QED
    BY <2>5, <2>8 DEF M
<1>3. P \in SUBSET (SUBSET A) /\ IsFiniteSet(A)
  BY DEF Places
<1> HIDE DEF P
<1>4. A \in P
  BY <1>1, <1>2, <1>3, SubsetInduction
<1> QED
  BY <1>4 DEF P

(* A sum over a set in two parts.                                          *)
LEMMA SumParted ==
  ASSUME NEW A, IsFiniteSet(A), NEW R \in SUBSET A, NEW f, \A i \in A : f[i] \in Int
  PROVE  /\ SumFunctionOnSet(f, A) = SumFunctionOnSet(f, A \ R) + SumFunctionOnSet(f, R)
         /\ SumFunctionOnSet(f, A) \in Int /\ SumFunctionOnSet(f, R) \in Int
<1> DEFINE inR == [i \in A |-> IF i \in R THEN f[i] ELSE 0]
           off == [i \in A |-> IF i \in R THEN 0 ELSE f[i]]
<1>1. \A i \in A : inR[i] \in Int /\ off[i] \in Int /\ off[i] = f[i] - inR[i]
  OBVIOUS
<1>2. /\ \A i \in R : inR[i] = f[i]
      /\ \A i \in A \ R : inR[i] = 0
      /\ \A i \in A \ R : off[i] = f[i]
      /\ \A i \in A \ (A \ R) : off[i] = 0
  OBVIOUS
<1> HIDE DEF inR, off
<1> DEFINE Q == A \ R
<1>3. Q \in SUBSET A /\ \A i \in Q : off[i] = f[i]
  BY <1>2
<1>4. \A i \in A \ Q : off[i] = 0
  BY <1>2
<1>5. SumFunctionOnSet(inR, A) = SumFunctionOnSet(f, R)
  BY <1>1, <1>2, SumSubset
<1> HIDE DEF Q
<1>6. SumFunctionOnSet(off, A) = SumFunctionOnSet(f, Q)
  BY <1>1, <1>3, <1>4, SumSubset
<1>7. SumFunctionOnSet(off, A) = SumFunctionOnSet(f, A) - SumFunctionOnSet(inR, A)
  BY <1>1, SumMinus
<1>8. SumFunctionOnSet(f, A) \in Int /\ SumFunctionOnSet(inR, A) \in Int
  BY <1>1, SumType
<1> QED
  BY <1>5, <1>6, <1>7, <1>8 DEF Q

(* The list counts every trip once, and those written again once more.     *)
LEMMA ListedTrips ==
  ASSUME TrackerInv
  PROVE  TripsNet = TripsOnce + RepeatedNet /\ TripsOnce \in Int /\ RepeatedNet \in Int
<1> DEFINE ts == tracker.trips
           A == DOMAIN ts
           R == Repeated
           f == [i \in A |-> ts[i].net]
           g == [t \in Range(ts) |-> t.net]
           k == [i \in R |-> ts[i].net]
<1>1. /\ ts \in Seq(TripType) /\ A = 1 .. Len(ts) /\ Len(ts) \in Nat /\ IsFiniteSet(A)
      /\ \A i \in A : ts[i] \in TripType /\ ts[i].net \in Int /\ ts[i] \in Range(ts)
      /\ \A t, u \in Range(ts) : t.id = u.id => t = u
  <2>1. ts \in Seq(TripType) /\ A = 1 .. Len(ts) /\ Len(ts) \in Nat
    BY LenProperties DEF TrackerInv
  <2>2. IsFiniteSet(1 .. Len(ts))
    BY <2>1, FS_Interval
  <2>3. \A i \in A : ts[i] \in TripType
    BY <2>1, ElementOfSeq
  <2>4. \A t \in TripType : t.net \in Int
    BY DEF TripType
  <2>5. \A i \in A : ts[i] \in Range(ts)
    BY DEF Range
  <2>6. \A t, u \in Range(ts) : t.id = u.id => t = u
    BY DEF TrackerInv
  <2> HIDE DEF ts
  <2> QED
    BY <2>1, <2>2, <2>3, <2>4, <2>5, <2>6
<1>2. R \in SUBSET A /\ \A i \in A \ R : \A j \in 1 .. (i - 1) : ts[j].id # ts[i].id
  BY DEF Repeated
<1>3. /\ TripsNet = SumFunctionOnSet(f, A) /\ RepeatedNet = SumFunctionOnSet(k, R)
      /\ TripsOnce = SumFunctionOnSet(g, Range(ts))
  BY DEF TripsNet, Total, RepeatedNet, TripsOnce, SumFunction
<1>4. {ts[i] : i \in A \ R} = Range(ts)
  <2>1. ASSUME NEW i \in A PROVE \E j \in A \ R : ts[j] = ts[i]
    <3> DEFINE K == {j \in A : ts[j] = ts[i]}
    <3>1. K \in SUBSET Nat /\ K # {}
      BY <1>1
    <3>2. PICK j \in K : \A l \in K : j <= l
      BY <3>1, LeastNumber
    <3>3. j \notin R
      <4> SUFFICES ASSUME NEW l \in 1 .. (j - 1), ts[l].id = ts[j].id PROVE FALSE
        BY DEF Repeated
      <4>1. l \in A /\ ~(j <= l)
        BY <1>1
      <4>2. ts[l] = ts[j]
        BY <1>1, <4>1
      <4> QED
        BY <3>2, <4>1, <4>2
    <3> QED
      BY <3>3
  <2> QED
    BY <2>1 DEF Range
<1>5. \A i, j \in A \ R : ts[i] = ts[j] => i = j
  <2> SUFFICES ASSUME NEW i \in A \ R, NEW j \in A \ R, ts[i] = ts[j], i # j PROVE FALSE
    OBVIOUS
  <2>1. i \in 1 .. (j - 1) \/ j \in 1 .. (i - 1)
    BY <1>1
  <2> QED
    BY <1>2, <2>1
<1>6. \A i \in A : f[i] \in Int /\ g[ts[i]] = f[i]
  BY <1>1
<1>7. \A i \in R : k[i] = f[i] /\ f[i] \in Int
  BY <1>1, <1>2
<1>8. IsFiniteSet(A \ R) /\ IsFiniteSet(R)
  BY <1>1, <1>2, FS_Subset
<1> DEFINE Q == A \ R
<1>9. {ts[i] : i \in Q} = Range(ts) /\ Places(f, g, ts, Q)
  BY <1>4, <1>5, <1>6, <1>8 DEF Places
<1> HIDE DEF ts, A, R, f, g, k
<1>10. SumFunctionOnSet(k, R) = SumFunctionOnSet(f, R)
  BY <1>7, <1>8, SumEqual
<1>11. /\ SumFunctionOnSet(f, A) = SumFunctionOnSet(f, Q) + SumFunctionOnSet(f, R)
       /\ SumFunctionOnSet(f, A) \in Int /\ SumFunctionOnSet(f, R) \in Int
  <2>1. IsFiniteSet(A) /\ R \in SUBSET A /\ \A i \in A : f[i] \in Int
    BY <1>1, <1>2, <1>6
  <2> QED
    BY <2>1, SumParted DEF Q
<1>12. SumFunctionOnSet(f, Q) \in Int
  BY <1>6, <1>8, SumType
<1> HIDE DEF Q
<1>13. SumFunctionOnSet(g, Range(ts)) = SumFunctionOnSet(f, Q)
  BY <1>9, SumByPlace
<1> QED
  BY <1>3, <1>10, <1>11, <1>12, <1>13

(* What a position is worth is what it has gained, what it has realised,   *)
(* and what is still in it.                                                *)
LEMMA WorthIs ==
  ASSUME NEW p, Position(p)
  PROVE  /\ Value(p.last, p.qty) \in Int /\ Value(p.last - p.entry, p.qty) \in Int
         /\ Invested(p) \in Int /\ Realized(p) \in Int
         /\ Value(p.last, p.qty) - Invested(p) = Value(p.last - p.entry, p.qty) + Realized(p)
<1> DEFINE a == p.last
           e == p.entry
           q == p.qty
           i == p.initial
           n == NetOf(p.outs)
           co == Commission(e, i)
           aq == a * q
           eq == e * q
           ei == e * i
<1>1. a \in Int /\ e \in Int /\ q \in Nat /\ i \in Nat /\ n \in Int
  BY InvestedIs DEF Position
<1>2. Invested(p) = ei * 100000 + co - n
  BY InvestedSplit DEF Value, Won
<1>3. Realized(p) = n - (e * (i - q)) * 100000 - co
  BY DEF Realized, NetOf, Value, Won
<1>4. co = ei * 15
  BY DEF Commission
<1>5. Value(a, q) = aq * 100000 /\ Value(a - e, q) = ((a - e) * q) * 100000
  BY DEF Value, Won
<1> HIDE DEF a, e, q, i, n, co
<1>6. (a - e) * q = aq - eq /\ e * (i - q) = ei - eq /\ aq \in Int /\ eq \in Int /\ ei \in Int
  BY <1>1
<1> HIDE DEF aq, eq, ei
<1>7. co \in Int
  BY <1>4, <1>6
<1> DEFINE V == Value(a, q)
           U == Value(a - e, q)
           I == Invested(p)
           Z == Realized(p)
<1>8. V = aq * 100000 /\ U = (aq - eq) * 100000 /\ I = ei * 100000 + co - n
      /\ Z = n - (ei - eq) * 100000 - co
  BY <1>2, <1>3, <1>5, <1>6
<1> HIDE DEF V, U, I, Z
<1>9. V \in Int /\ U \in Int /\ I \in Int /\ Z \in Int /\ V - I = U + Z
  BY <1>1, <1>6, <1>7, <1>8
<1> QED
  BY <1>9 DEF V, U, I, Z, a, e, q

LEMMA WorthOfAll ==
  ASSUME TrackerInv
  PROVE  /\ MarketValue - AllInvested = Unrealized + AllRealized
         /\ MarketValue \in Int /\ AllInvested \in Int /\ Unrealized \in Int /\ AllRealized \in Int
<1> DEFINE h == tracker.held
           V == [s \in Held |-> Value(h[s].last, h[s].qty)]
           U == [s \in Held |-> Value(h[s].last - h[s].entry, h[s].qty)]
           I == [s \in Held |-> Invested(h[s])]
           Z == [s \in Held |-> Realized(h[s])]
           D == [s \in Held |-> V[s] - I[s]]
           M == [s \in Held |-> D[s] - U[s]]
<1>1. /\ MarketValue = SumFunctionOnSet(V, Held) /\ Unrealized = SumFunctionOnSet(U, Held)
      /\ AllInvested = SumFunctionOnSet(I, Held) /\ AllRealized = SumFunctionOnSet(Z, Held)
  BY DEF MarketValue, Unrealized, AllInvested, AllRealized, SumFunction
<1>2. \A s \in Held : /\ V[s] \in Int /\ U[s] \in Int /\ I[s] \in Int /\ Z[s] \in Int
                      /\ V[s] - I[s] = U[s] + Z[s]
  BY WorthIs DEF TrackerInv
<1>3. \A s \in Held : D[s] = V[s] - I[s] /\ M[s] = D[s] - U[s]
  OBVIOUS
<1> HIDE DEF V, U, I, Z, D, M
<1>4. \A s \in Held : D[s] \in Int /\ M[s] \in Int /\ M[s] = Z[s]
  BY <1>2, <1>3
<1>5. SumFunctionOnSet(D, Held) = SumFunctionOnSet(V, Held) - SumFunctionOnSet(I, Held)
  BY <1>2, <1>3, HeldFinite, SumMinus
<1>6. SumFunctionOnSet(M, Held) = SumFunctionOnSet(D, Held) - SumFunctionOnSet(U, Held)
  BY <1>2, <1>3, <1>4, HeldFinite, SumMinus
<1>7. SumFunctionOnSet(M, Held) = SumFunctionOnSet(Z, Held)
  BY <1>2, <1>4, HeldFinite, SumEqual
<1>8. /\ SumFunctionOnSet(V, Held) \in Int /\ SumFunctionOnSet(I, Held) \in Int
      /\ SumFunctionOnSet(U, Held) \in Int /\ SumFunctionOnSet(Z, Held) \in Int
  BY <1>2, HeldFinite, SumType
<1> QED
  BY <1>1, <1>5, <1>6, <1>7, <1>8

(* The cash by the list, and the engine's difference.                      *)
LEMMA ReconciledIs ==
  ASSUME ReplayInv
  PROVE  ReplayReconciles
<1> DEFINE c == Value(Capital, 1)
           m == MarketValue
           u == Unrealized
           i == AllInvested
           z == AllRealized
           t == TripsNet
           o == TripsOnce
           r == RepeatedNet
<1>1. /\ t = o + r /\ o \in Int /\ r \in Int
      /\ m - i = u + z /\ m \in Int /\ i \in Int /\ u \in Int /\ z \in Int
      /\ cash = c + o - i /\ cash \in Int /\ equity \in Int
      /\ phase = "marked" => equity = cash + m
  BY ListedTrips, WorthOfAll DEF ReplayInv, ReplayTypes, CashIs, MarkedIs
<1>2. c \in Int
  BY ReplayAssumption DEF Value, Won
<1>3. /\ ReplayReconciles <=> /\ cash = c + t - r - i
                              /\ phase = "marked" => ReconciliationDiff = z - r
      /\ ReconciliationDiff = equity - (c + t + u)
  BY DEF ReplayReconciles, ReconciliationDiff
<1> HIDE DEF c, m, u, i, z, t, o, r
<1>4. cash = c + t - r - i
  BY <1>1, <1>2
<1>5. equity = cash + m => equity - (c + t + u) = z - r
  BY <1>1, <1>2, <1>4
<1> QED
  BY <1>1, <1>3, <1>4, <1>5

LEMMA ReplayPromise ==
  ReplayInv => ReplayTypeOK /\ ReplayReconciles /\ RoundTripsAreWhole /\ NothingHeldOvernight
<1> SUFFICES ASSUME ReplayInv
             PROVE  ReplayTypeOK /\ ReplayReconciles /\ RoundTripsAreWhole /\ NothingHeldOvernight
  OBVIOUS
<1>0. ReplayReconciles
  BY ReconciledIs
<1>1. ASSUME NEW s \in Held PROVE tracker.held[s].qty \in 1 .. tracker.held[s].initial
  <2> DEFINE p == tracker.held[s]
  <2>1. Position(p) /\ p.qty # 0
    BY DEF ReplayInv, TrackerInv
  <2> HIDE DEF p
  <2>2. SoldBy(p.outs) \in Nat
    BY <2>1, InvestedIs
  <2>3. p.qty \in Nat /\ p.initial = p.qty + SoldBy(p.outs)
    BY <2>1 DEF Position
  <2> DEFINE k == SoldBy(p.outs)
  <2> HIDE DEF k
  <2>4. p.qty \in Nat /\ p.initial = p.qty + k /\ k \in Nat
    BY <2>2, <2>3 DEF k
  <2>5. p.qty \in 1 .. p.initial
    BY <2>1, <2>4
  <2> QED
    BY <2>5 DEF p
<1>2. ReplayTypeOK
  BY <1>1, ReplayConstants DEF ReplayInv, ReplayTypes, ReplayTypeOK
<1>3. RoundTripsAreWhole
  BY DEF ReplayInv, TrackerInv, RoundTripsAreWhole, Range
<1>4. NothingHeldOvernight
  BY DEF ReplayInv, LateAreSwing, NothingHeldOvernight
<1> QED
  BY <1>0, <1>2, <1>3, <1>4

-----------------------------------------------------------------------------
(* The same position in the trader and in the replay (ExitParity).         *)

TwinFields == {"qty", "hz", "entry", "t1", "t2", "since", "stop", "high", "trail",
               "took1", "took2", "status"}

(* A position of a paper account has no order waiting, and a bar has room  *)
(* for all of it.                                                          *)
Paper(p) ==
  /\ TwinFields \cup {"psbl", "pend", "other", "order", "took3", "t3"} \subseteq DOMAIN p
  /\ p.psbl \in Nat /\ p.qty <= p.psbl /\ p.other = 0
  /\ p.qty \in Nat /\ p.qty <= (Liquid * 15) \div 100
  /\ p.hz \in {"INTRADAY", "SWING"} /\ p.entry \in Nat /\ p.since \in Nat
  /\ p.t1 \in Int /\ p.t2 \in Int /\ p.t3 \in Int /\ p.stop \in Int /\ p.high \in Int /\ p.trail \in Int
  /\ p.took1 \in BOOLEAN /\ p.took2 \in BOOLEAN /\ p.took3 \in BOOLEAN
  /\ p.pend = 0 /\ p.order = NoOrder /\ p.status # "EXIT_QUARANTINED"

(* What the time stops and the targets go by does not change.              *)
SameEntry(q, p) ==
  /\ q.hz = p.hz /\ q.entry = p.entry /\ q.since = p.since
  /\ q.t1 = p.t1 /\ q.t2 = p.t2 /\ q.t3 = p.t3

(* The replay's position on its way through a bar and the trader's through *)
(* a tick, at the same place; the trail of the trader may be ahead.        *)
Level(w, p) ==
  /\ {"p", "trips", "recs", "done"} \subseteq DOMAIN w /\ w.done = FALSE
  /\ TwinFields \cup {"last", "outs", "feeLeft"} \subseteq DOMAIN w.p
  /\ w.p.qty = p.qty /\ w.p.hz = p.hz /\ w.p.entry = p.entry /\ w.p.since = p.since
  /\ w.p.t1 = p.t1 /\ w.p.t2 = p.t2
  /\ w.p.stop = p.stop /\ w.p.high = p.high /\ w.p.took1 = p.took1 /\ w.p.took2 = p.took2
  /\ w.p.trail \in Int /\ w.p.trail <= p.trail

Alike(w, p) == w.p.qty = p.qty /\ (p.qty > 0 => Level(w, p))

PaperTick(x) == x.price \in Nat /\ x.atr \in Nat /\ x.avg \in Nat /\ x.at \in Nat /\ x.answer = "filled"

(* The shares of a target.                                                 *)
Part(n, percent) == Least(Greatest(1, (n * percent) \div 100), n)

LEMMA PartIs ==
  ASSUME NEW n \in Nat, NEW k \in Nat
  PROVE  Part(n, k) \in Nat /\ Part(n, k) <= n
<1> DEFINE s == (n * k) \div 100
           g == Greatest(1, s)
<1>1. s \in Int
  <2>1. n * k \in Int
    OBVIOUS
  <2> QED
    BY <2>1
<1> HIDE DEF s
<1>2. g \in Int /\ g >= 1
  BY <1>1, LeastGreatest
<1> HIDE DEF g
<1>3. Least(g, n) \in Nat /\ Least(g, n) <= n
  BY <1>2, LeastGreatest
<1> QED
  BY <1>3 DEF Part, g, s

(* The trader sells a part at once.                                        *)
LEMMA PaperPart ==
  ASSUME NEW p, Paper(p), NEW k \in Nat, NEW reason, NEW x, PaperTick(x)
  PROVE  LET q == PartialExit(p, k, reason, x) IN
         /\ Paper(q) /\ SameEntry(q, p) /\ q.qty = p.qty - Part(p.qty, k)
         /\ q.stop = p.stop /\ q.high = p.high /\ q.trail = p.trail
         /\ q.took1 = p.took1 /\ q.took2 = p.took2 /\ q.took3 = p.took3
<1> DEFINE n == Part(p.qty, k)
           q == PartialExit(p, k, reason, x)
           f == LiveFill(p, n, FALSE)
<1>1. p.qty \in Nat /\ p.pend = 0 /\ p.order = NoOrder /\ ~(p.other > 0)
  BY DEF Paper
<1>2. n \in Nat /\ n <= p.qty
  BY <1>1, PartIs
<1>3. Sellable(p) = p.qty
  <2>1. Less(p.qty, 0) = p.qty
    BY <1>1, LessIsNat
  <2> QED
    BY <1>1, <2>1 DEF Sellable
<1>4. q = IF n = 0 THEN p ELSE f
  BY <1>1, <1>3 DEF PartialExit, Part, PaperTick, Waits
<1> HIDE DEF n, q
<1>5. /\ Less(p.qty, n) = p.qty - n /\ Less(0, n) = 0
      /\ Less(p.qty, n) \in Nat /\ Less(p.qty, n) <= p.qty
  <2> DEFINE m == p.qty
  <2>1. m \in Nat /\ 0 \in Nat /\ n \in Nat /\ n <= m
    BY <1>1, <1>2
  <2> HIDE DEF m
  <2>2. Less(m, n) = IF m >= n THEN m - n ELSE 0
    BY <2>1, LessIsNat
  <2>3. Less(0, n) = IF 0 >= n THEN 0 - n ELSE 0
    BY <2>1, LessIsNat
  <2>4. Less(m, n) = m - n /\ Less(0, n) = 0 /\ Less(m, n) \in Nat /\ Less(m, n) <= m
    BY <2>1, <2>2, <2>3
  <2> QED
    BY <2>4 DEF m
<1>6. [p.order EXCEPT !.qty = Less(@, n)] = NoOrder
  BY <1>1, <1>5 DEF NoOrder
<1>7. f = [p EXCEPT !.qty = p.qty - n, !.pend = 0, !.order = NoOrder,
                    !.status = IF p.qty <= n THEN "POSITION_CLOSED" ELSE "PARTIAL_EXITED"]
  BY <1>1, <1>5, <1>6 DEF LiveFill
<1>8. /\ f.qty = p.qty - n /\ f.pend = 0 /\ f.order = NoOrder /\ f.status # "EXIT_QUARANTINED"
      /\ f.hz = p.hz /\ f.entry = p.entry /\ f.since = p.since /\ f.t1 = p.t1 /\ f.t2 = p.t2
      /\ f.t3 = p.t3 /\ f.stop = p.stop /\ f.high = p.high /\ f.trail = p.trail
      /\ f.took1 = p.took1 /\ f.took2 = p.took2 /\ f.took3 = p.took3 /\ DOMAIN f = DOMAIN p
      /\ f.psbl = p.psbl /\ f.other = p.other
  BY <1>7 DEF Paper, TwinFields
<1> HIDE DEF f
<1>9. f.qty \in Nat /\ f.qty <= (Liquid * 15) \div 100
  <2> DEFINE room == (Liquid * 15) \div 100
  <2>1. p.qty <= room /\ room \in Int
    <3>1. Liquid * 15 \in Int
      BY ParityAssumption
    <3> QED
      BY <3>1 DEF Paper
  <2> HIDE DEF room
  <2>2. f.qty \in Nat /\ f.qty <= room
    BY <1>1, <1>2, <1>8, <2>1
  <2> QED
    BY <2>2 DEF room
<1>10. Paper(f) /\ SameEntry(f, p)
  <2>1. f.qty <= f.psbl
    <3>1. p.qty <= p.psbl /\ p.psbl \in Nat
      BY DEF Paper
    <3> QED
      BY <1>1, <1>2, <1>8, <3>1
  <2> QED
    BY <1>8, <1>9, <2>1 DEF Paper, SameEntry
<1>11. n = 0 => p.qty = p.qty - n
  BY <1>1
<1> QED
  BY <1>4, <1>8, <1>10, <1>11 DEF q, n, SameEntry

(* Closing it sells everything.                                            *)
LEMMA PaperClose ==
  ASSUME NEW p, Paper(p), NEW reason, NEW x, PaperTick(x)
  PROVE  Paper(ClosePosition(p, reason, x)) /\ ClosePosition(p, reason, x).qty = 0
<1> DEFINE c == [p EXCEPT !.qty = 0, !.status = "POSITION_CLOSED"]
           d == [p EXCEPT !.status = "POSITION_CLOSED"]
<1>1. /\ p.qty \in Nat /\ p.psbl \in Nat /\ p.qty <= p.psbl /\ p.pend = 0
      /\ p.order = NoOrder /\ ~Waits(p) /\ ~(p.other > 0)
  BY DEF Paper, Waits
<1>2. ToSell(p) = p.qty
  <2>1. Less(p.qty, 0) = p.qty
    BY <1>1, LessIsNat
  <2>2. Sellable(p) = p.qty
    BY <1>1, <2>1 DEF Sellable
  <2> QED
    BY <1>1, <2>2, LeastGreatest DEF ToSell
<1>3. ClosePosition(p, reason, x) = SoldOff(p, reason, x)
  BY <1>1 DEF ClosePosition, Overridden
<1>4. SoldOff(p, reason, x) = IF p.qty = 0 THEN d ELSE c
  BY <1>1, <1>2 DEF SoldOff, PaperTick
<1>5. c.qty = 0 /\ Paper(c)
  <2>1. 0 <= (Liquid * 15) \div 100
    <3>1. Liquid * 15 \in Nat
      BY ParityAssumption
    <3> QED
      BY <3>1
  <2> QED
    BY <1>1, <2>1 DEF Paper, TwinFields
<1>6. d.qty = p.qty /\ Paper(d)
  BY DEF Paper, TwinFields
<1> HIDE DEF c, d
<1> QED
  BY <1>3, <1>4, <1>5, <1>6

(* The targets of a tick.                                                  *)
LEMMA PaperTake1 ==
  ASSUME NEW p, Paper(p), NEW x, PaperTick(x)
  PROVE  LET q == Take1(p, x) IN
         /\ Paper(q) /\ SameEntry(q, p) /\ q.high = p.high /\ q.trail = p.trail
         /\ q.took2 = p.took2 /\ q.took3 = p.took3
         /\ q.qty = IF p.took1 \/ x.price < p.t1 THEN p.qty ELSE p.qty - Part(p.qty, Share(p))
         /\ q.stop = IF p.took1 \/ x.price < p.t1 THEN p.stop ELSE Greatest(p.stop, p.entry)
         /\ q.took1 = (p.took1 \/ ~(x.price < p.t1))
<1> DEFINE o == PartialExit(p, Share(p), "1R", x)
           q == [o EXCEPT !.took1 = TRUE, !.stop = Greatest(o.stop, p.entry)]
<1>6. Take1(p, x) = IF p.took1 \/ x.price < p.t1 THEN p ELSE q
  BY DEF Take1, SellAllowed, PaperTick
<1>2. Share(p) \in Nat
  BY DEF Share
<1>3. /\ Paper(o) /\ SameEntry(o, p) /\ o.qty = p.qty - Part(p.qty, Share(p))
      /\ o.stop = p.stop /\ o.high = p.high /\ o.trail = p.trail
      /\ o.took1 = p.took1 /\ o.took2 = p.took2 /\ o.took3 = p.took3
  BY <1>2, PaperPart
<1> HIDE DEF o
<1>4. Greatest(p.stop, p.entry) \in Int
  <2>1. p.stop \in Int /\ p.entry \in Int
    BY DEF Paper
  <2> QED
    BY <2>1, LeastGreatest
<1>5. /\ Paper(q) /\ SameEntry(q, p) /\ q.high = p.high /\ q.trail = p.trail /\ q.qty = o.qty
      /\ q.took2 = p.took2 /\ q.took3 = p.took3 /\ q.took1 = TRUE
      /\ q.stop = Greatest(p.stop, p.entry)
  BY <1>3, <1>4 DEF Paper, SameEntry, TwinFields
<1>7. p.took1 \in BOOLEAN
  BY DEF Paper
<1> HIDE DEF q
<1>8. CASE p.took1 \/ x.price < p.t1
  BY <1>6, <1>7, <1>8 DEF SameEntry
<1>9. CASE ~(p.took1 \/ x.price < p.t1)
  BY <1>3, <1>5, <1>6, <1>9
<1> QED
  BY <1>8, <1>9

LEMMA PaperTake2 ==
  ASSUME NEW p, Paper(p), NEW x, PaperTick(x)
  PROVE  LET q == Take2(p, x) IN
         /\ Paper(q) /\ SameEntry(q, p) /\ q.high = p.high /\ q.trail = p.trail
         /\ q.stop = p.stop /\ q.took1 = p.took1 /\ q.took3 = p.took3
         /\ q.qty = IF p.took2 \/ x.price < p.t2 THEN p.qty ELSE p.qty - Part(p.qty, Share(p))
         /\ q.took2 = (p.took2 \/ ~(x.price < p.t2))
<1> DEFINE o == PartialExit(p, Share(p), "2R", x)
           q == [o EXCEPT !.took2 = TRUE]
<1>1. Take2(p, x) = IF p.took2 \/ x.price < p.t2 THEN p ELSE q
  BY DEF Take2, SellAllowed, PaperTick
<1>2. Share(p) \in Nat
  BY DEF Share
<1>3. /\ Paper(o) /\ SameEntry(o, p) /\ o.qty = p.qty - Part(p.qty, Share(p))
      /\ o.stop = p.stop /\ o.high = p.high /\ o.trail = p.trail
      /\ o.took1 = p.took1 /\ o.took2 = p.took2 /\ o.took3 = p.took3
  BY <1>2, PaperPart
<1> HIDE DEF o
<1>5. /\ Paper(q) /\ SameEntry(q, p) /\ q.high = p.high /\ q.trail = p.trail /\ q.qty = o.qty
      /\ q.took1 = p.took1 /\ q.took3 = p.took3 /\ q.took2 = TRUE /\ q.stop = p.stop
  BY <1>3 DEF Paper, SameEntry, TwinFields
<1>7. p.took2 \in BOOLEAN
  BY DEF Paper
<1> HIDE DEF q
<1>8. CASE p.took2 \/ x.price < p.t2
  BY <1>1, <1>7, <1>8 DEF SameEntry
<1>9. CASE ~(p.took2 \/ x.price < p.t2)
  BY <1>1, <1>3, <1>5, <1>9
<1> QED
  BY <1>8, <1>9

LEMMA PaperTake3 ==
  ASSUME NEW p, Paper(p), NEW x, PaperTick(x)
  PROVE  LET q == Take3(p, x) IN
         /\ Paper(q) /\ SameEntry(q, p) /\ q.high = p.high /\ q.trail = p.trail /\ q.stop = p.stop
         /\ ~ThirdTarget(p, x) => q = p
<1> DEFINE o == PartialExit(p, Share(p), "3R", x)
           q == [o EXCEPT !.took3 = TRUE]
<1>1. Take3(p, x) = IF p.took3 \/ p.hz = "INTRADAY" \/ x.price < p.t3 THEN p ELSE q
  BY DEF Take3, SellAllowed, PaperTick
<1>2. Share(p) \in Nat
  BY DEF Share
<1>3. /\ Paper(o) /\ SameEntry(o, p)
      /\ o.stop = p.stop /\ o.high = p.high /\ o.trail = p.trail
  BY <1>2, PaperPart
<1> HIDE DEF o
<1>5. Paper(q) /\ SameEntry(q, p) /\ q.high = p.high /\ q.trail = p.trail /\ q.stop = p.stop
  BY <1>3 DEF Paper, SameEntry, TwinFields
<1>6. ~ThirdTarget(p, x) => p.took3 \/ p.hz = "INTRADAY" \/ x.price < p.t3
  <2>1. p.hz \in {"INTRADAY", "SWING"} /\ x.price \in Nat /\ p.t3 \in Int
    BY DEF Paper, PaperTick
  <2> QED
    BY <2>1 DEF ThirdTarget
<1> HIDE DEF q
<1>7. SameEntry(p, p)
  BY DEF SameEntry
<1> QED
  BY <1>1, <1>5, <1>6, <1>7

LEMMA TrailIs ==
  ASSUME NEW p, Paper(p), NEW k \in Int, NEW atr \in Nat
  PROVE  TrailTarget(p, k, atr) \in Int
<1> DEFINE e == 2 * p.high - k * atr
<1>1. e \in Int /\ p.stop \in Int
  <2>1. k * atr \in Int /\ p.high \in Int /\ p.stop \in Int
    BY DEF Paper
  <2> QED
    BY <2>1
<1>2. TrailTarget(p, k, atr) = IF atr > 0 THEN e \div 2 ELSE p.stop
  BY DEF TrailTarget
<1> HIDE DEF e
<1> QED
  BY <1>1, <1>2

LEMMA PaperTrailed ==
  ASSUME NEW p, Paper(p), NEW x, PaperTick(x)
  PROVE  LET q == Trailed(p, x) IN
         /\ Paper(q) /\ SameEntry(q, p) /\ q.high = p.high /\ q.stop = p.stop /\ q.qty = p.qty
         /\ q.took1 = p.took1 /\ q.took2 = p.took2
         /\ q.trail = IF p.took1 THEN Greatest(p.trail, TrailTarget(p, Halves(p), x.atr)) ELSE p.trail
         /\ q.trail >= p.trail
<1> DEFINE t == TrailTarget(p, Halves(p), x.atr)
           g == Greatest(p.trail, t)
           q == [p EXCEPT !.trail = g]
<1>1. t \in Int /\ p.trail \in Int
  <2>1. Halves(p) \in Int /\ x.atr \in Nat /\ p.trail \in Int
    BY DEF Halves, PaperTick, Paper
  <2> QED
    BY <2>1, TrailIs
<1>2. Trailed(p, x) = IF p.took1 THEN q ELSE p
  BY DEF Trailed, Halves
<1> HIDE DEF t
<1>3. g \in Int /\ g >= p.trail /\ p.trail >= p.trail
  BY <1>1, LeastGreatest
<1> HIDE DEF g
<1>4. /\ Paper(q) /\ SameEntry(q, p) /\ q.high = p.high /\ q.stop = p.stop /\ q.qty = p.qty
      /\ q.took1 = p.took1 /\ q.took2 = p.took2 /\ q.trail = g
  BY <1>3 DEF Paper, SameEntry, TwinFields
<1> HIDE DEF q
<1>5. SameEntry(p, p)
  BY DEF SameEntry
<1> QED
  BY <1>2, <1>3, <1>4, <1>5 DEF g, t

(* A time stop, of whatever age.                                           *)
LEMMA PaperTimeStop ==
  ASSUME NEW p, Paper(p), NEW x, PaperTick(x)
  PROVE  Paper(LiveTimeStop(p, x))
<1> DEFINE q == IF p.hz = "INTRADAY" THEN LiveAged(p, x) ELSE p
           r == [q EXCEPT !.status = "TIME_STOP_TRIGGERED"]
<1>1. Paper(q)
  <2>1. Paper([p EXCEPT !.status = "STALE_POSITION"])
    BY DEF Paper, TwinFields
  <2> QED
    BY <2>1 DEF LiveAged
<1>2. LiveTimeStop(p, x) \in {p, q, ClosePosition(r, "time", x)}
  BY DEF LiveTimeStop
<1> HIDE DEF q
<1>3. Paper(r)
  BY <1>1 DEF Paper, TwinFields
<1> HIDE DEF r
<1> QED
  BY <1>1, <1>2, <1>3, PaperClose

(* The whole tick.                                                         *)
LEMMA PaperManaged ==
  ASSUME NEW p, Paper(p), NEW x, PaperTick(x)
  PROVE  Paper(LiveManaged(p, x))
<1> DEFINE h == Greatest(p.high, x.price)
           v == [p EXCEPT !.high = h]
           a == Take1(v, x)
           b == Take2(a, x)
           c == Take3(b, x)
           t == Trailed(c, x)
<1>1. h \in Int
  BY LeastGreatest DEF Paper, PaperTick
<1> HIDE DEF h
<1>2. Paper(v)
  BY <1>1 DEF Paper, TwinFields
<1>3. LiveManaged(p, x) \in {p, v, t, ClosePosition(v, "close", x), ClosePosition(v, "stop", x),
                             ClosePosition(t, "trailing", x), LiveTimeStop(t, x)}
  BY DEF LiveManaged, h
<1> HIDE DEF v
<1>4. Paper(a)
  BY <1>2, PaperTake1
<1> HIDE DEF a
<1>5. Paper(b)
  BY <1>4, PaperTake2
<1> HIDE DEF b
<1>6. Paper(c)
  BY <1>5, PaperTake3
<1> HIDE DEF c
<1>7. Paper(t)
  BY <1>6, PaperTrailed
<1> HIDE DEF t
<1>8. Paper(ClosePosition(v, "close", x)) /\ Paper(ClosePosition(v, "stop", x))
  BY <1>2, PaperClose
<1>9. Paper(ClosePosition(t, "trailing", x)) /\ Paper(LiveTimeStop(t, x))
  BY <1>7, PaperClose, PaperTimeStop
<1> QED
  BY <1>2, <1>3, <1>7, <1>8, <1>9

(* The replay sells the same part: the bar has room for it.                *)
OnlySold(v, w) ==
  /\ {"p", "trips", "recs", "done"} \subseteq DOMAIN v /\ v.done = w.done
  /\ TwinFields \cup {"last", "outs", "feeLeft"} \subseteq DOMAIN v.p
  /\ v.p.hz = w.p.hz /\ v.p.entry = w.p.entry /\ v.p.since = w.p.since
  /\ v.p.t1 = w.p.t1 /\ v.p.t2 = w.p.t2 /\ v.p.stop = w.p.stop /\ v.p.high = w.p.high
  /\ v.p.took1 = w.p.took1 /\ v.p.took2 = w.p.took2 /\ v.p.trail = w.p.trail

LEMMA LevelTranche ==
  ASSUME NEW w, NEW p, Paper(p), Level(w, p), NEW k \in Nat, NEW reason,
         NEW price \in Nat, NEW target \in Int, ~(price < target)
  PROVE  LET v == Tranche(w, k, target, reason, Bar(price)) IN
         OnlySold(v, w) /\ v.p.qty = p.qty - Part(p.qty, k)
<1> DEFINE n == w.p.qty
           m == Part(n, k)
           f == TargetFill(m, target, Bar(price))
           x == Exit(f, reason)
           fee == Commission(w.p.entry, f.qty)
           s == Sold(w, x, fee)
           room == (Liquid * 15) \div 100
           v == Tranche(w, k, target, reason, Bar(price))
<1>1. n = p.qty /\ n \in Nat /\ n <= room
  BY DEF Level, Paper
<1>2. m \in Nat /\ m <= n
  <2> HIDE DEF n
  <2> QED
    BY <1>1, PartIs
<1>3. v = IF f.qty = 0 THEN w ELSE s
  BY DEF Tranche, ExitFill, Part
<1>4. f.qty = m
  <2>1. f.qty = Least(m, Greatest(1, room))
    BY DEF TargetFill, Bar
  <2>2. room \in Nat
    <3>1. Liquid * 15 \in Nat
      BY ParityAssumption
    <3> QED
      BY <3>1
  <2> HIDE DEF f, m, n, room
  <2> DEFINE g == Greatest(1, room)
  <2>3. g \in Int /\ g >= room
    BY <2>2, LeastGreatest
  <2> HIDE DEF g
  <2>4. m <= g
    BY <1>1, <1>2, <2>2, <2>3
  <2>5. Least(m, g) = m
    BY <1>2, <2>3, <2>4, LeastGreatest
  <2> QED
    BY <2>1, <2>5 DEF g
<1> HIDE DEF f, v
<1>5. x.qty = m
  BY <1>4 DEF Exit
<1>6. OnlySold(w, w)
  BY DEF OnlySold, Level
<1>7. OnlySold(s, w) /\ s.p.qty = n - m
  <2> DEFINE q == [w.p EXCEPT !.qty = w.p.qty - x.qty, !.outs = Append(w.p.outs, x),
                              !.feeLeft = w.p.feeLeft - fee]
  <2> HIDE DEF m, x, fee
  <2>1. /\ q.qty = n - m /\ DOMAIN q = DOMAIN w.p
        /\ q.hz = w.p.hz /\ q.entry = w.p.entry /\ q.since = w.p.since
        /\ q.t1 = w.p.t1 /\ q.t2 = w.p.t2 /\ q.stop = w.p.stop /\ q.high = w.p.high
        /\ q.took1 = w.p.took1 /\ q.took2 = w.p.took2 /\ q.trail = w.p.trail
    BY <1>5 DEF Level, TwinFields
  <2>2. s.p = q /\ s.done = w.done /\ DOMAIN s = DOMAIN w
    BY DEF Sold, Level
  <2> HIDE DEF q, s
  <2> QED
    BY <2>1, <2>2 DEF OnlySold, Level
<1> HIDE DEF s, m
<1>8. m = 0 => n - m = n
  BY <1>1
<1> QED
  BY <1>1, <1>3, <1>4, <1>6, <1>7, <1>8 DEF v, m, n

LEMMA LevelTake1 ==
  ASSUME NEW w, NEW p, Paper(p), Level(w, p), NEW x, PaperTick(x)
  PROVE  /\ Level(FirstTarget(w, Bar(x.price)), Take1(p, x))
         /\ FirstTarget(w, Bar(x.price)).p.trail = w.p.trail
<1> DEFINE b == Bar(x.price)
           v == Tranche(w, Percent(w.p), w.p.t1, "1R", b)
           q == FirstTaken(v.p)
           y == Take1(p, x)
           u == [v EXCEPT !.p = q]
<1>1. /\ Paper(y) /\ SameEntry(y, p) /\ y.high = p.high /\ y.trail = p.trail
      /\ y.took2 = p.took2 /\ y.took3 = p.took3
      /\ y.qty = IF p.took1 \/ x.price < p.t1 THEN p.qty ELSE p.qty - Part(p.qty, Share(p))
      /\ y.stop = IF p.took1 \/ x.price < p.t1 THEN p.stop ELSE Greatest(p.stop, p.entry)
      /\ y.took1 = (p.took1 \/ ~(x.price < p.t1))
  BY PaperTake1
<1> HIDE DEF y
<1>2. FirstTarget(w, b) = IF p.took1 \/ x.price < p.t1 THEN w ELSE u
  BY DEF FirstTarget, Bar, Level
<1>3. Percent(w.p) = Share(p) /\ Share(p) \in Nat
  BY DEF Percent, Share, Level
<1> DEFINE skips == p.took1 \/ x.price < p.t1
<1>6. SameEntry(y, p) /\ y.high = p.high /\ y.trail = p.trail /\ y.took2 = p.took2
  BY <1>1
<1>4. CASE skips
  <2>1. y.qty = p.qty /\ y.stop = p.stop
    BY <1>1, <1>4
  <2>2. y.took1 = p.took1
    BY <1>1, <1>4 DEF Paper
  <2>3. Level(w, y)
    BY <1>6, <2>1, <2>2 DEF Level, SameEntry
  <2> QED
    BY <1>2, <1>4, <2>3 DEF y
<1>5. CASE ~skips
  <2>1. OnlySold(v, w) /\ v.p.qty = p.qty - Part(p.qty, Share(p))
    <3>1. x.price \in Nat /\ w.p.t1 \in Int /\ ~(x.price < w.p.t1)
      BY <1>5 DEF PaperTick, Level, Paper
    <3> QED
      BY <1>3, <3>1, LevelTranche
  <2> HIDE DEF v
  <2>2. q = [v.p EXCEPT !.took1 = TRUE, !.stop = Greatest(v.p.stop, v.p.entry)]
    BY DEF FirstTaken
  <2>3. /\ DOMAIN q = DOMAIN v.p /\ q.took1 = TRUE /\ q.stop = Greatest(v.p.stop, v.p.entry)
        /\ q.qty = v.p.qty /\ q.hz = v.p.hz /\ q.entry = v.p.entry /\ q.since = v.p.since
        /\ q.t1 = v.p.t1 /\ q.t2 = v.p.t2 /\ q.high = v.p.high
        /\ q.took2 = v.p.took2 /\ q.trail = v.p.trail
    BY <2>1, <2>2 DEF OnlySold, TwinFields
  <2>4. u.p = q /\ u.done = v.done /\ DOMAIN u = DOMAIN v
    BY <2>1 DEF OnlySold
  <2> HIDE DEF q, u
  <2>5. /\ y.qty = p.qty - Part(p.qty, Share(p)) /\ y.stop = Greatest(p.stop, p.entry) /\ y.took1 = TRUE
    BY <1>1, <1>5
  <2>6. w.p.stop = p.stop /\ w.p.entry = p.entry
    BY DEF Level
  <2>8. q.stop = y.stop /\ q.took1 = y.took1 /\ q.qty = y.qty
    BY <2>1, <2>3, <2>5, <2>6 DEF OnlySold
  <2>9. /\ q.hz = y.hz /\ q.entry = y.entry /\ q.since = y.since /\ q.t1 = y.t1 /\ q.t2 = y.t2
        /\ q.high = y.high /\ q.took2 = y.took2 /\ q.trail \in Int /\ q.trail <= y.trail
    BY <1>6, <2>1, <2>3 DEF Level, OnlySold, SameEntry
  <2>7. Level(u, y)
    BY <2>1, <2>3, <2>4, <2>8, <2>9 DEF Level, OnlySold
  <2>10. u.p.trail = w.p.trail
    BY <2>1, <2>3, <2>4 DEF OnlySold
  <2> QED
    BY <1>2, <1>5, <2>7, <2>10 DEF y, u
<1> QED
  BY <1>4, <1>5

LEMMA LevelTake2 ==
  ASSUME NEW w, NEW p, Paper(p), Level(w, p), NEW x, PaperTick(x)
  PROVE  /\ Level(SecondTarget(w, Bar(x.price)), Take2(p, x))
         /\ SecondTarget(w, Bar(x.price)).p.trail = w.p.trail
<1> DEFINE b == Bar(x.price)
           v == Tranche(w, Percent(w.p), w.p.t2, "2R", b)
           q == [v.p EXCEPT !.took2 = TRUE]
           y == Take2(p, x)
           u == [v EXCEPT !.p = q]
<1>1. /\ Paper(y) /\ SameEntry(y, p) /\ y.high = p.high /\ y.trail = p.trail
      /\ y.stop = p.stop /\ y.took1 = p.took1
      /\ y.qty = IF p.took2 \/ x.price < p.t2 THEN p.qty ELSE p.qty - Part(p.qty, Share(p))
      /\ y.took2 = (p.took2 \/ ~(x.price < p.t2))
  BY PaperTake2
<1> HIDE DEF y
<1>2. SecondTarget(w, b) = IF p.took2 \/ x.price < p.t2 THEN w ELSE u
  BY DEF SecondTarget, Bar, Level
<1>3. Percent(w.p) = Share(p) /\ Share(p) \in Nat
  BY DEF Percent, Share, Level
<1> DEFINE skips == p.took2 \/ x.price < p.t2
<1>6. SameEntry(y, p) /\ y.high = p.high /\ y.trail = p.trail /\ y.took1 = p.took1
  BY <1>1
<1>4. CASE skips
  <2>1. y.qty = p.qty /\ y.stop = p.stop
    BY <1>1, <1>4
  <2>2. y.took2 = p.took2
    BY <1>1, <1>4 DEF Paper
  <2>3. Level(w, y)
    BY <1>6, <2>1, <2>2 DEF Level, SameEntry
  <2> QED
    BY <1>2, <1>4, <2>3 DEF y
<1>5. CASE ~skips
  <2>1. OnlySold(v, w) /\ v.p.qty = p.qty - Part(p.qty, Share(p))
    <3>1. x.price \in Nat /\ w.p.t2 \in Int /\ ~(x.price < w.p.t2)
      BY <1>5 DEF PaperTick, Level, Paper
    <3> QED
      BY <1>3, <3>1, LevelTranche
  <2> HIDE DEF v
  <2>3. /\ DOMAIN q = DOMAIN v.p /\ q.took2 = TRUE /\ q.stop = v.p.stop
        /\ q.qty = v.p.qty /\ q.hz = v.p.hz /\ q.entry = v.p.entry /\ q.since = v.p.since
        /\ q.t1 = v.p.t1 /\ q.t2 = v.p.t2 /\ q.high = v.p.high
        /\ q.took1 = v.p.took1 /\ q.trail = v.p.trail
    BY <2>1 DEF OnlySold, TwinFields
  <2>4. u.p = q /\ u.done = v.done /\ DOMAIN u = DOMAIN v
    BY <2>1 DEF OnlySold
  <2> HIDE DEF q, u
  <2>5. /\ y.qty = p.qty - Part(p.qty, Share(p)) /\ y.took2 = TRUE /\ y.stop = p.stop
    BY <1>1, <1>5
  <2>7. Level(u, y)
    <3>1. /\ {"p", "trips", "recs", "done"} \subseteq DOMAIN u /\ u.done = w.done
          /\ TwinFields \cup {"last", "outs", "feeLeft"} \subseteq DOMAIN u.p
          /\ u.p.hz = w.p.hz /\ u.p.entry = w.p.entry /\ u.p.since = w.p.since
          /\ u.p.t1 = w.p.t1 /\ u.p.t2 = w.p.t2 /\ u.p.stop = w.p.stop /\ u.p.high = w.p.high
          /\ u.p.took1 = w.p.took1 /\ u.p.took2 = TRUE /\ u.p.trail = w.p.trail
          /\ u.p.qty = y.qty
      BY <2>1, <2>3, <2>4, <2>5 DEF OnlySold
    <3>2. /\ w.done = FALSE /\ w.p.hz = y.hz /\ w.p.entry = y.entry /\ w.p.since = y.since
          /\ w.p.t1 = y.t1 /\ w.p.t2 = y.t2 /\ w.p.stop = y.stop /\ w.p.high = y.high
          /\ w.p.took1 = y.took1
      BY <1>6, <2>5 DEF Level, SameEntry
    <3>3. w.p.trail \in Int /\ w.p.trail <= y.trail
      BY <1>6 DEF Level
    <3> QED
      BY <2>5, <3>1, <3>2, <3>3 DEF Level
  <2>10. u.p.trail = w.p.trail
    BY <2>1, <2>3, <2>4 DEF OnlySold
  <2> QED
    BY <1>2, <1>5, <2>7, <2>10 DEF y, u
<1> QED
  BY <1>4, <1>5

(* All that is left is sold, whatever the replay was doing.                *)
LEMMA ReplayCloses ==
  ASSUME NEW w, NEW p, Paper(p), Level(w, p), NEW kind \in {"stop", "market"}, NEW ref, NEW reason, NEW b
  PROVE  FullExit(w, kind, ref, reason, b).p.qty = 0
<1> DEFINE f == ExitFill(kind, w.p.qty, ref, b)
           x == Exit(f, reason)
           s == Sold(w, x, w.p.feeLeft)
<1>1. f.qty = w.p.qty
  BY DEF ExitFill
<1> HIDE DEF f
<1>2. x.qty = w.p.qty
  BY <1>1 DEF Exit
<1> HIDE DEF x
<1>3. s.p = [w.p EXCEPT !.qty = w.p.qty - x.qty, !.outs = Append(w.p.outs, x),
                        !.feeLeft = w.p.feeLeft - w.p.feeLeft]
  BY DEF Sold, Level
<1>4. w.p.qty - x.qty = 0
  BY <1>2 DEF Level, Paper
<1>5. s.p.qty = 0
  BY <1>3, <1>4 DEF Level, TwinFields
<1>6. FullExit(w, kind, ref, reason, b) = [s EXCEPT !.done = TRUE]
  BY DEF FullExit, f, x
<1> HIDE DEF s
<1> QED
  BY <1>5, <1>6

(* Neither has a time stop while the position is young or on its way.      *)
Behind(p, x) == Elapsed(p, x) >= 20 /\ ProgressBelow(p, x.price, 2500)

LEMMA FarBehind ==
  ASSUME NEW p, p.entry \in Nat, p.t1 \in Int, NEW c \in Nat, ProgressBelow(p, c, 2000)
  PROVE  ProgressBelow(p, c, 2500)
<1> DEFINE e == p.entry
           g == p.t1
           w == Way50(p)
           d == (c - e) * 50 * 100
<1>1. w \in Nat
  <2>1. w = IF g > e THEN (g - e) * 50 ELSE e
    BY DEF Way50
  <2>2. e \in Nat /\ g \in Int
    OBVIOUS
  <2> HIDE DEF w, e, g
  <2> QED
    BY <2>1, <2>2
<1>2. 2000 \div 100 = 20 /\ 2500 \div 100 = 25
  OBVIOUS
<1>3. d < 20 * w
  BY <1>2 DEF ProgressBelow
<1>4. d \in Int
  OBVIOUS
<1> HIDE DEF d, w
<1>5. d < 25 * w
  BY <1>1, <1>3, <1>4
<1> QED
  BY <1>2, <1>5 DEF ProgressBelow, d, w

LEMMA LevelInTime ==
  ASSUME NEW w, NEW p, Paper(p), Level(w, p), NEW x, PaperTick(x), ~Behind(p, x),
         NEW f, f.now = x.at
  PROVE  LiveTimeStop(p, x) = p /\ Level(TimeStop(w, Bar(x.price), f), p)
<1> DEFINE c == x.price
           e == Elapsed(p, x)
<1>1. /\ p.entry \in Nat /\ p.t1 \in Int /\ p.since \in Nat /\ x.at \in Nat /\ c \in Nat
      /\ p.order = NoOrder
  BY DEF Paper, PaperTick
<1>2. e \in Int /\ (e >= 20 => ~ProgressBelow(p, c, 2500))
  BY <1>1 DEF Behind, Elapsed
<1>3. e >= 20 => ~ProgressBelow(p, c, 2000)
  BY <1>1, <1>2, FarBehind
<1>4. /\ Way50(w.p) = Way50(p)
      /\ \A limit : ProgressBelow(w.p, c, limit) <=> ProgressBelow(p, c, limit)
  BY DEF ProgressBelow, Way50, Level
<1>5. x.at - w.p.since = e /\ Bar(c).close = c
  BY DEF Level, Elapsed, Bar
<1> HIDE DEF e
<1>6. LiveAged(p, x) = p
  BY <1>2, <1>3 DEF LiveAged, e
<1>7. ~LiveTimeIsUp(p, x)
  <2>1. e >= 30 => ~ProgressBelow(p, c, 2500) /\ ~ProgressBelow(p, c, 2000)
    BY <1>2, <1>3
  <2>2. e >= 4320 => ~ProgressBelow(p, c, 2000)
    BY <1>2, <1>3
  <2> QED
    BY <2>1, <2>2 DEF LiveTimeIsUp, Trending, e
<1>8. LiveTimeStop(p, x) = p
  BY <1>6, <1>7 DEF LiveTimeStop
<1>9. Aged(w.p, c, e) = w.p
  <2>1. e > 20 => ~ProgressBelow(p, c, 2000)
    BY <1>2, <1>3
  <2> QED
    BY <1>4, <2>1 DEF Aged
<1>10. ~TimeIsUp(w.p, c, e, f.atr)
  <2>1. e > 30 => ~ProgressBelow(p, c, 2500)
    BY <1>2
  <2> QED
    BY <1>4, <2>1 DEF TimeIsUp
<1> DEFINE v == [w EXCEPT !.p = w.p]
<1>11. v.p = w.p /\ v.done = w.done /\ DOMAIN v = DOMAIN w
  BY DEF Level
<1>12. TimeStop(w, Bar(c), f) = v \/ TimeStop(w, Bar(c), f) = w
  <2>1. [w EXCEPT !.p = Aged(w.p, Bar(c).close, f.now - w.p.since)] = v
    BY <1>5, <1>9
  <2> HIDE DEF v
  <2> QED
    BY <1>5, <1>10, <1>11, <2>1 DEF TimeStop
<1> HIDE DEF v
<1>13. Level(v, p)
  BY <1>11 DEF Level
<1> QED
  BY <1>8, <1>12, <1>13

(* A tick with the first target behind it: the replay's trail catches up,  *)
(* or the trader's has been kept from the tick of the target.              *)
LEMMA LevelTrailed ==
  ASSUME NEW w, NEW p, Paper(p), Level(w, p), NEW x, PaperTick(x), p.took1,
         p.trail <= Greatest(w.p.trail, TrailTarget(p, Halves(p), x.atr)),
         NEW f, f.atr = x.atr, f.avg = IF p.hz = "INTRADAY" THEN x.avg ELSE 0
  PROVE  LET z == Trailing(w, Bar(x.price), f)
             t == Trailed(p, x)
         IN  IF TrailHit(t, x) THEN z.p.qty = 0 /\ z.done ELSE Level(z, t)
<1> DEFINE goal == TrailTarget(p, Halves(p), x.atr)
           g == Greatest(w.p.trail, goal)
           q == [w.p EXCEPT !.trail = g]
           v == [w EXCEPT !.p = q]
           t == Trailed(p, x)
           z == Trailing(w, Bar(x.price), f)
           c == FullExit(v, "stop", g, "stop", Bar(x.price))
<1>1. goal \in Int /\ p.trail \in Int /\ w.p.trail \in Int /\ w.p.trail <= p.trail
  <2>1. Halves(p) \in Int /\ x.atr \in Nat
    BY DEF Halves, PaperTick
  <2> QED
    BY <2>1, TrailIs DEF Paper, Level
<1>2. TrailTarget(w.p, Halves(w.p), f.atr) = goal
  BY DEF TrailTarget, Halves, Level
<1> HIDE DEF goal
<1>3. /\ Paper(t) /\ SameEntry(t, p) /\ t.high = p.high /\ t.stop = p.stop /\ t.qty = p.qty
      /\ t.took1 = p.took1 /\ t.took2 = p.took2 /\ t.trail = Greatest(p.trail, goal)
  <2>1. /\ Paper(t) /\ SameEntry(t, p) /\ t.high = p.high /\ t.stop = p.stop /\ t.qty = p.qty
        /\ t.took1 = p.took1 /\ t.took2 = p.took2
        /\ t.trail = IF p.took1 THEN Greatest(p.trail, goal) ELSE p.trail
    BY PaperTrailed DEF goal
  <2> HIDE DEF t
  <2> QED
    BY <2>1
<1> HIDE DEF t
<1>4. g \in Int /\ t.trail = g
  <2> DEFINE m == p.trail
             n == w.p.trail
  <2>1. m \in Int /\ n \in Int /\ n <= m /\ goal \in Int /\ m <= Greatest(n, goal)
    BY <1>1 DEF goal
  <2> HIDE DEF m, n
  <2>2. Greatest(n, goal) = IF n >= goal THEN n ELSE goal
    BY <2>1, LeastGreatest
  <2>3. Greatest(m, goal) = IF m >= goal THEN m ELSE goal
    BY <2>1, LeastGreatest
  <2>4. Greatest(n, goal) \in Int /\ Greatest(m, goal) = Greatest(n, goal)
    BY <2>1, <2>2, <2>3
  <2> QED
    BY <1>3, <2>4 DEF m, n
<1>5. z = IF x.price <= g \/ (f.avg > 0 /\ x.price < f.avg) THEN c ELSE v
  BY <1>2 DEF Trailing, Bar, goal
<1> HIDE DEF g, z, c
<1>6. /\ q.trail = g /\ DOMAIN q = DOMAIN w.p
      /\ q.qty = w.p.qty /\ q.hz = w.p.hz /\ q.entry = w.p.entry /\ q.since = w.p.since
      /\ q.t1 = w.p.t1 /\ q.t2 = w.p.t2 /\ q.stop = w.p.stop /\ q.high = w.p.high
      /\ q.took1 = w.p.took1 /\ q.took2 = w.p.took2
  BY DEF Level, TwinFields
<1>7. v.p = q /\ v.done = FALSE /\ DOMAIN v = DOMAIN w
  BY DEF Level
<1> HIDE DEF v, q
<1>8. g <= t.trail
  BY <1>4
<1>9. Level(v, t)
  <2>1. /\ {"p", "trips", "recs", "done"} \subseteq DOMAIN v /\ v.done = FALSE
        /\ TwinFields \cup {"last", "outs", "feeLeft"} \subseteq DOMAIN v.p
        /\ v.p.qty = t.qty /\ v.p.hz = t.hz /\ v.p.entry = t.entry /\ v.p.since = t.since
        /\ v.p.t1 = t.t1 /\ v.p.t2 = t.t2
        /\ v.p.stop = t.stop /\ v.p.high = t.high /\ v.p.took1 = t.took1 /\ v.p.took2 = t.took2
    <3>1. /\ {"p", "trips", "recs", "done"} \subseteq DOMAIN v /\ v.done = FALSE
          /\ TwinFields \cup {"last", "outs", "feeLeft"} \subseteq DOMAIN v.p
      BY <1>6, <1>7 DEF Level
    <3>2. /\ v.p.qty = p.qty /\ v.p.hz = p.hz /\ v.p.entry = p.entry /\ v.p.since = p.since
          /\ v.p.t1 = p.t1 /\ v.p.t2 = p.t2
          /\ v.p.stop = p.stop /\ v.p.high = p.high /\ v.p.took1 = p.took1 /\ v.p.took2 = p.took2
      BY <1>6, <1>7 DEF Level
    <3> QED
      BY <1>3, <3>1, <3>2 DEF SameEntry
  <2>2. v.p.trail \in Int /\ v.p.trail <= t.trail
    BY <1>4, <1>6, <1>7, <1>8
  <2> QED
    BY <2>1, <2>2 DEF Level
<1>10. TrailHit(t, x) <=> (x.price <= g \/ (f.avg > 0 /\ x.price < f.avg))
  BY <1>3, <1>4 DEF TrailHit, SameEntry
<1>11. c.p.qty = 0 /\ c.done
  <2>1. c.p.qty = 0
    BY <1>3, <1>9, ReplayCloses DEF c
  <2>2. c.done = TRUE
    <3>1. "done" \in DOMAIN Sold(v, Exit(ExitFill("stop", v.p.qty, g, Bar(x.price)), "stop"), v.p.feeLeft)
      BY <1>9 DEF Sold, Level
    <3> QED
      BY <3>1 DEF c, FullExit
  <2> QED
    BY <2>1, <2>2
<1> QED
  BY <1>5, <1>9, <1>10, <1>11 DEF z, t

(* A bar and a tick of the same price, none of the differences shown.      *)
LEMMA LevelManaged ==
  ASSUME NEW w, NEW p, Paper(p), Level(w, p), p.qty > 0, NEW x, PaperTick(x),
         ~TrailsAtOnce(p, x), ~KeepsTrail(p, w.p, x), ~ThirdTarget(p, x), ~AfterTheSession(p, x),
         ~Behind(p, x),
         NEW f, f.at = x.at, f.now = x.at, f.atr = x.atr,
         f.avg = IF p.hz = "INTRADAY" THEN x.avg ELSE 0
  PROVE  Alike(Managed(w, Bar(x.price), f), LiveManaged(p, x))
<1> DEFINE bar == Bar(x.price)
           h == Greatest(p.high, x.price)
           v == [p EXCEPT !.high = h]
           q == Seen(w.p, bar)
           u == [w EXCEPT !.p = q]
           a == Take1(v, x)
           b == Take2(a, x)
           c == Take3(b, x)
           t == Trailed(c, x)
           first == FirstTarget(u, bar)
           targets == SecondTarget(first, bar)
           trailed == IF q.took1 THEN Trailing(targets, bar, f) ELSE targets
           r == Managed(w, bar, f)
           l == LiveManaged(p, x)
<1>1. /\ bar.low = x.price /\ bar.high = x.price /\ bar.close = x.price
      /\ x.price \in Nat /\ x.at \in Nat
  BY DEF Bar, PaperTick
<1>2. h \in Int
  <2>1. p.high \in Int
    BY DEF Paper
  <2> QED
    BY <1>1, <2>1, LeastGreatest
<1>3. /\ r = IF Closing(q, bar, f)       THEN FullExit(u, "market", 0, "close", bar)
             ELSE IF bar.low <= q.stop   THEN FullExit(u, "stop", q.stop, "stop", bar)
             ELSE IF trailed.done        THEN trailed
             ELSE TimeStop(trailed, bar, f)
      /\ u.p = q /\ u.done = FALSE /\ DOMAIN u = DOMAIN w
  <2>1. u.p = q /\ u.done = FALSE /\ DOMAIN u = DOMAIN w
    BY DEF Level
  <2> QED
    BY <2>1 DEF Managed
<1>4. l = IF AtClose(v, x)          THEN ClosePosition(v, "close", x)
          ELSE IF x.price <= v.stop THEN ClosePosition(v, "stop", x)
          ELSE IF TrailHit(t, x)    THEN ClosePosition(t, "trailing", x)
          ELSE LiveTimeStop(t, x)
  <2>1. Open(p) /\ SellAllowed(x)
    BY DEF Open, Paper, SellAllowed, PaperTick
  <2> QED
    BY <2>1 DEF LiveManaged
<1>5. /\ q.high = h /\ DOMAIN q = DOMAIN w.p
      /\ q.qty = w.p.qty /\ q.hz = w.p.hz /\ q.entry = w.p.entry /\ q.since = w.p.since
      /\ q.t1 = w.p.t1 /\ q.t2 = w.p.t2 /\ q.stop = w.p.stop /\ q.trail = w.p.trail
      /\ q.took1 = w.p.took1 /\ q.took2 = w.p.took2
  BY <1>1 DEF Seen, Level, TwinFields
<1>6. /\ v.high = h /\ v.qty = p.qty /\ v.stop = p.stop /\ v.trail = p.trail
      /\ v.took1 = p.took1 /\ v.took2 = p.took2 /\ v.took3 = p.took3 /\ SameEntry(v, p)
  BY DEF Paper, TwinFields, SameEntry
<1>7. Paper(v)
  BY <1>2 DEF Paper, TwinFields
<1>8. TrailHit(Trailed(a, x), x) => TrailsAtOnce(p, x) \/ p.took1 \/ x.price < p.t1
  BY DEF TrailsAtOnce, PaperTick, Paper
<1>9. KeepsTrail(p, w.p, x) <=>
        p.took1 /\ w.p.took1 /\ p.trail > Trailed([v EXCEPT !.trail = w.p.trail], x).trail
  BY DEF KeepsTrail
<1> HIDE DEF q, v, u, r, l, h
<1>10. Level(u, v)
  BY <1>3, <1>5, <1>6 DEF Level, SameEntry
<1>11. Closing(q, bar, f) <=> AtClose(v, x)
  <2>1. q.hz = v.hz /\ q.entry = v.entry /\ v.hz = p.hz
    BY <1>5, <1>6 DEF Level, SameEntry
  <2>2. p.hz = "INTRADAY" => x.at <= 930
    BY <1>1 DEF AfterTheSession
  <2> QED
    BY <1>1, <2>1, <2>2 DEF Closing, AtClose
<1>12. bar.low <= q.stop <=> x.price <= v.stop
  BY <1>1, <1>5, <1>6 DEF Level
<1>13. /\ Paper(a) /\ SameEntry(a, v) /\ a.high = v.high /\ a.trail = v.trail
       /\ a.took2 = v.took2 /\ a.took3 = v.took3
       /\ a.took1 = (v.took1 \/ ~(x.price < v.t1))
       /\ a.stop = IF v.took1 \/ x.price < v.t1 THEN v.stop ELSE Greatest(v.stop, v.entry)
       /\ Level(first, a) /\ first.p.trail = u.p.trail
  BY <1>7, <1>10, PaperTake1, LevelTake1
<1> HIDE DEF a, first
<1>14. /\ Paper(b) /\ SameEntry(b, a) /\ b.high = a.high /\ b.trail = a.trail
       /\ b.stop = a.stop /\ b.took1 = a.took1 /\ b.took3 = a.took3
       /\ Level(targets, b) /\ targets.p.trail = first.p.trail
  BY <1>13, PaperTake2, LevelTake2
<1> HIDE DEF b, targets
<1>15. c = b
  <2>1. ~ThirdTarget(b, x)
    BY <1>6, <1>13, <1>14 DEF ThirdTarget, SameEntry
  <2> QED
    BY <1>14, <2>1, PaperTake3
<1> HIDE DEF c
<1>16. SameEntry(b, p) /\ b.high = h /\ b.trail = p.trail
  BY <1>6, <1>13, <1>14 DEF SameEntry
<1>17. /\ Paper(t) /\ SameEntry(t, b) /\ t.high = b.high /\ t.stop = b.stop /\ t.qty = b.qty
       /\ t.took1 = b.took1 /\ t.took2 = b.took2 /\ t.trail >= b.trail
       /\ t.trail = IF b.took1 THEN Greatest(b.trail, TrailTarget(b, Halves(b), x.atr)) ELSE b.trail
  BY <1>14, <1>15, PaperTrailed
<1> HIDE DEF t
<1>18. IF TrailHit(t, x) THEN trailed.p.qty = 0 /\ trailed.done ELSE Level(trailed, t)
  <2>1. targets.p.trail = w.p.trail
    BY <1>3, <1>5, <1>13, <1>14
  <2>2. t = Trailed(b, x)
    BY <1>15 DEF t
  <2>3. CASE p.took1
    <3> DEFINE k == [v EXCEPT !.trail = w.p.trail]
               goal == TrailTarget(b, Halves(b), x.atr)
    <3>1. w.p.took1 /\ q.took1 /\ v.took1 /\ w.p.trail \in Int
      BY <1>5, <1>6, <2>3 DEF Level
    <3>2. b.took1 /\ b.stop = v.stop /\ b.high = v.high /\ b.hz = v.hz /\ b.trail = p.trail
      BY <1>6, <1>13, <1>14, <3>1 DEF SameEntry
    <3>3. /\ k.took1 = v.took1 /\ k.hz = v.hz /\ k.stop = v.stop /\ k.high = v.high
          /\ k.trail = w.p.trail /\ Paper(k)
      BY <1>7, <3>1 DEF Paper, TwinFields
    <3> HIDE DEF k
    <3>4. TrailTarget(k, Halves(k), x.atr) = goal
      BY <3>2, <3>3 DEF TrailTarget, Halves
    <3>5. Trailed(k, x).trail = Greatest(w.p.trail, goal)
      <4>1. Trailed(k, x).trail
              = IF k.took1 THEN Greatest(k.trail, TrailTarget(k, Halves(k), x.atr)) ELSE k.trail
        BY <3>3, PaperTrailed
      <4>2. k.took1
        BY <3>1, <3>3
      <4> QED
        BY <3>3, <3>4, <4>1, <4>2
    <3>6. goal \in Int
      <4>1. Halves(b) \in Int /\ x.atr \in Nat
        BY DEF Halves, PaperTick
      <4> QED
        BY <1>14, <4>1, TrailIs
    <3> HIDE DEF goal
    <3>7. Greatest(w.p.trail, goal) \in Int
      BY <3>1, <3>6, LeastGreatest
    <3>8. ~(p.trail > Greatest(w.p.trail, goal))
      BY <1>9, <2>3, <3>1, <3>5 DEF k
    <3>9. b.trail <= Greatest(targets.p.trail, goal)
      <4>1. p.trail \in Int
        BY DEF Paper
      <4> QED
        BY <2>1, <3>2, <3>7, <3>8, <4>1
    <3>10. f.avg = IF b.hz = "INTRADAY" THEN x.avg ELSE 0
      BY <1>16 DEF SameEntry
    <3>11. IF TrailHit(Trailed(b, x), x) THEN Trailing(targets, bar, f).p.qty = 0 /\ Trailing(targets, bar, f).done
           ELSE Level(Trailing(targets, bar, f), Trailed(b, x))
      BY <1>14, <3>2, <3>9, <3>10, LevelTrailed DEF goal
    <3> QED
      BY <2>2, <3>1, <3>11
  <2>4. CASE ~p.took1
    <3>1. trailed = targets /\ v.took1 = FALSE
      BY <1>5, <1>6, <2>4 DEF Level, Paper
    <3>2. ~TrailHit(t, x)
      <4>1. SUFFICES ASSUME b.took1 PROVE ~TrailHit(t, x)
        BY <1>17 DEF TrailHit
      <4>2. a.took1 /\ ~(x.price < p.t1)
        BY <1>6, <1>13, <1>14, <3>1, <4>1 DEF SameEntry
      <4>3. ~TrailHit(Trailed(a, x), x)
        BY <1>8, <2>4, <4>2
      <4> DEFINE s == Trailed(a, x)
      <4>4. /\ s.took1 = a.took1 /\ SameEntry(s, a)
            /\ s.trail = IF a.took1 THEN Greatest(a.trail, TrailTarget(a, Halves(a), x.atr)) ELSE a.trail
        BY <1>13, PaperTrailed
      <4> HIDE DEF s
      <4>5. TrailTarget(a, Halves(a), x.atr) = TrailTarget(b, Halves(b), x.atr)
        BY <1>14 DEF TrailTarget, Halves, SameEntry
      <4>6. s.trail = t.trail /\ s.hz = t.hz /\ s.took1 /\ t.took1
        BY <1>14, <1>17, <4>1, <4>2, <4>4, <4>5 DEF SameEntry
      <4> QED
        BY <4>3, <4>6 DEF TrailHit, s
    <3>3. Level(targets, t)
      <4>1. targets.p.trail <= t.trail
        <5>1. targets.p.trail \in Int /\ b.trail \in Int /\ t.trail \in Int /\ targets.p.trail <= b.trail
          BY <1>14, <1>17 DEF Level, Paper
        <5> QED
          BY <1>17, <5>1
      <4> QED
        BY <1>14, <1>17, <4>1 DEF Level, SameEntry
    <3> QED
      BY <3>1, <3>2, <3>3
  <2> QED
    BY <2>3, <2>4
<1> HIDE DEF trailed
<1>19. ~Behind(t, x)
  <2>1. t.entry = p.entry /\ t.t1 = p.t1 /\ t.since = p.since
    BY <1>16, <1>17 DEF SameEntry
  <2> QED
    BY <2>1 DEF Behind, Elapsed, ProgressBelow, Way50
<1>20. CASE AtClose(v, x)
  <2>1. ClosePosition(v, "close", x).qty = 0
    BY <1>7, PaperClose
  <2>2. FullExit(u, "market", 0, "close", bar).p.qty = 0
    BY <1>7, <1>10, ReplayCloses
  <2>3. r.p.qty = 0 /\ l.qty = 0
    BY <1>3, <1>4, <1>11, <1>20, <2>1, <2>2
  <2> QED
    BY <2>3 DEF Alike, r, l
<1>21. CASE ~AtClose(v, x) /\ x.price <= v.stop
  <2>1. ClosePosition(v, "stop", x).qty = 0
    BY <1>7, PaperClose
  <2>2. FullExit(u, "stop", q.stop, "stop", bar).p.qty = 0
    BY <1>7, <1>10, ReplayCloses
  <2>3. r.p.qty = 0 /\ l.qty = 0
    BY <1>3, <1>4, <1>11, <1>12, <1>21, <2>1, <2>2
  <2> QED
    BY <2>3 DEF Alike, r, l
<1>22. CASE ~AtClose(v, x) /\ ~(x.price <= v.stop) /\ TrailHit(t, x)
  <2>1. ClosePosition(t, "trailing", x).qty = 0
    BY <1>17, PaperClose
  <2>2. r.p.qty = 0 /\ l.qty = 0
    BY <1>3, <1>4, <1>11, <1>12, <1>18, <1>22, <2>1
  <2> QED
    BY <2>2 DEF Alike, r, l
<1>23. CASE ~AtClose(v, x) /\ ~(x.price <= v.stop) /\ ~TrailHit(t, x)
  <2>1. Level(trailed, t) /\ ~trailed.done
    BY <1>18, <1>23 DEF Level
  <2>2. LiveTimeStop(t, x) = t /\ Level(TimeStop(trailed, bar, f), t)
    BY <1>17, <1>19, <2>1, LevelInTime
  <2>3. l = t /\ r = TimeStop(trailed, bar, f)
    BY <1>3, <1>4, <1>11, <1>12, <1>23, <2>1, <2>2
  <2>4. Level(r, l)
    BY <2>2, <2>3
  <2>5. r.p.qty = l.qty
    BY <2>4 DEF Level
  <2> QED
    BY <2>4, <2>5 DEF Alike, r, l
<1> QED
  BY <1>20, <1>21, <1>22, <1>23

ParityInv ==
  /\ Paper(live) /\ tickNo \in Nat
  /\ parted \in BOOLEAN /\ slow \in BOOLEAN
  /\ ~parted /\ ~slow => Alike(replayed, live)

LEMMA ParityInitInv == ParityInit => ParityInv
<1> SUFFICES ASSUME ParityInit PROVE ParityInv
  OBVIOUS
<1>1. live \in LiveEntries /\ NewlyOpened(live) /\ tickNo = 0 /\ replayed = Replayed(live) /\ parted = FALSE /\ slow = FALSE
  BY DEF ParityInit, LiveInit
<1>2. Paper(live) /\ live.stop < live.entry
      /\ live.trail = live.stop /\ live.high = live.entry /\ live.took1 = FALSE /\ live.took2 = FALSE
  <2> DEFINE p == live
  <2>1. /\ {"qty", "psbl", "pend", "other", "order", "status"} \subseteq DOMAIN p
        /\ p.qty \in Nat /\ p.status = "ACTIVE" /\ p.psbl = p.qty
        /\ p.pend = 0 /\ p.order = NoOrder /\ p.other = 0
    BY <1>1, LiveAssumption DEF NewlyOpened
  <2>2. /\ {"hz", "entry", "since", "t1", "t2", "t3", "stop", "trail", "high",
             "took1", "took2", "took3"} \subseteq DOMAIN p
        /\ p.hz \in {"INTRADAY", "SWING"} /\ p.qty <= (Liquid * 15) \div 100
        /\ p.entry \in Nat /\ p.since \in Nat
        /\ p.t1 \in Int /\ p.t2 \in Int /\ p.t3 \in Int /\ p.stop \in Int
        /\ p.stop < p.entry /\ p.trail = p.stop /\ p.high = p.entry
        /\ p.took1 = FALSE /\ p.took2 = FALSE /\ p.took3 = FALSE
    BY <1>1, ParityAssumption
  <2> HIDE DEF p
  <2>3. TwinFields \cup {"psbl", "pend", "other", "order", "took3", "t3"} \subseteq DOMAIN p
    BY <2>1, <2>2 DEF TwinFields
  <2>4. p.took1 \in BOOLEAN /\ p.took2 \in BOOLEAN /\ p.took3 \in BOOLEAN
    BY <2>2
  <2>5. Paper(p)
    BY <2>1, <2>2, <2>3, <2>4 DEF Paper
  <2> QED
    BY <2>2, <2>5 DEF p
<1> DEFINE none == EmptyTracker({1})
           tr == OpenPosition(none, 1, live.hz, live.qty, live.entry, live.stop, live.t1, live.t2, live.since)
           q == tr.held[1]
<1>4. "held" \in DOMAIN none /\ DOMAIN none.held = {1} /\ "opened" \in DOMAIN none
  BY DEF EmptyTracker
<1> HIDE DEF none
<1>5. q = [id |-> none.opened + 1, hz |-> live.hz, qty |-> live.qty, initial |-> live.qty,
           entry |-> live.entry, stop |-> live.stop, t1 |-> live.t1, t2 |-> live.t2,
           r |-> Greatest(1, live.entry - live.stop), took1 |-> FALSE, took2 |-> FALSE,
           trail |-> live.stop, high |-> live.entry, last |-> live.entry, status |-> "ACTIVE",
           since |-> live.since, feeLeft |-> Commission(live.entry, live.qty), outs |-> <<>>]
  BY <1>2, <1>4 DEF OpenPosition
<1>6. replayed.p = q /\ replayed.done = FALSE /\ {"p", "trips", "recs", "done"} \subseteq DOMAIN replayed
  BY <1>1 DEF Replayed, none
<1> HIDE DEF q
<1>3. Level(replayed, live)
  <2>1. TwinFields \cup {"last", "outs", "feeLeft"} \subseteq DOMAIN q
    BY <1>5 DEF TwinFields
  <2>2. q.took1 = live.took1 /\ q.took2 = live.took2
    BY <1>2, <1>5
  <2>3. /\ q.qty = live.qty /\ q.hz = live.hz /\ q.entry = live.entry /\ q.since = live.since
        /\ q.t1 = live.t1 /\ q.t2 = live.t2 /\ q.stop = live.stop /\ q.high = live.high
        /\ q.trail \in Int /\ q.trail <= live.trail
    BY <1>2, <1>5 DEF Paper
  <2> QED
    BY <1>6, <2>1, <2>2, <2>3 DEF Level
<1> QED
  BY <1>1, <1>2, <1>3 DEF ParityInv, Alike, Level

LEMMA ParityStep ==
  ASSUME ParityInv, ParityNext \/ UNCHANGED parityVars
  PROVE  ParityInv'
<1>1. CASE UNCHANGED parityVars
  BY <1>1 DEF ParityInv, parityVars, liveVars
<1>2. CASE ParityNext
  <2>1. PICK q \in Ticks, i \in tickNo + 1 .. Len(LiveMinutes) :
             ParityTick(i, TickAt(q, i, "filled", Unread))
    BY <1>2 DEF ParityNext
  <2> DEFINE x == TickAt(q, i, "filled", Unread)
             f == [at |-> x.at, now |-> x.at, atr |-> x.atr,
                   avg |-> IF live.hz = "INTRADAY" THEN x.avg ELSE 0]
  <2>2. /\ tickNo' = i /\ live' = LiveManaged(live, x)
        /\ replayed' = IF replayed.p.qty = 0 THEN replayed ELSE Managed(replayed, Bar(x.price), f)
        /\ parted' = (parted \/ TrailsAtOnce(live, x) \/ KeepsTrail(live, replayed.p, x)
                      \/ ThirdTarget(live, x) \/ AfterTheSession(live, x))
        /\ slow' = (slow \/ Behind(live, x))
    BY <2>1 DEF ParityTick, Tick, Behind
  <2>3. PaperTick(x) /\ i \in Nat
    <3>1. i \in 1 .. Len(LiveMinutes)
      BY DEF ParityInv
    <3> QED
      BY <3>1, ParityAssumption DEF PaperTick, TickAt
  <2> HIDE DEF x
  <2>4. Paper(live) /\ Paper(live')
    BY <2>2, <2>3, PaperManaged DEF ParityInv
  <2>5. parted' \in BOOLEAN /\ slow' \in BOOLEAN /\ tickNo' \in Nat
    BY <2>2, <2>3 DEF ParityInv
  <2>6. ASSUME ~parted', ~slow' PROVE Alike(replayed, live)'
    <3>1. Alike(replayed, live)
      BY <2>2, <2>6 DEF ParityInv
    <3>2. CASE live.qty > 0
      <4>1. Level(replayed, live) /\ replayed.p.qty # 0
        BY <3>1, <3>2 DEF Alike, Level
      <4>2. Alike(Managed(replayed, Bar(x.price), f), LiveManaged(live, x))
        BY <2>2, <2>3, <2>4, <2>6, <3>2, <4>1, LevelManaged
      <4> QED
        BY <2>2, <4>1, <4>2
    <3>3. CASE ~(live.qty > 0)
      <4>0. live.qty \in Nat
        BY <2>4 DEF Paper
      <4>1. live.qty = 0 /\ replayed.p.qty = 0
        BY <3>1, <3>3, <4>0 DEF Alike
      <4>2. live' = live /\ replayed' = replayed
        BY <2>2, <4>1 DEF LiveManaged, Open
      <4> QED
        BY <3>1, <4>2
    <3> QED
      BY <3>2, <3>3
  <2> QED
    BY <2>4, <2>5, <2>6 DEF ParityInv
<1> QED
  BY <1>1, <1>2

LEMMA ParityPromise == ParityInv => ParityExceptNamed
BY DEF ParityInv, ParityExceptNamed, Same, Alike, Level, Paper

-----------------------------------------------------------------------------
(* The parts together.                                                     *)

DecisionsInv ==
  /\ part = "live" => LiveInv
  /\ part = "parity" => ParityInv
  /\ ReplayInv /\ EntryInv /\ GitInv /\ ExporterInv /\ StoreInv
  /\ CandlesInv /\ BarsTogether

LEMMA DecisionsStep ==
  ASSUME DecisionsInv, [Next]_vars
  PROVE  DecisionsInv' /\ DownInTime
<1>1. /\ ReplayNext \/ UNCHANGED replayVars
      /\ EntryNext \/ UNCHANGED entryVars
      /\ GitNext \/ UNCHANGED gitVars
      /\ ExporterNext \/ UNCHANGED exporterVars
      /\ StoreNext \/ UNCHANGED storeVars
      /\ CandlesNext \/ UNCHANGED candleVars
      /\ part' = part
  BY DEF Next, vars
<1>2. part = "live" => LiveNext \/ UNCHANGED liveVars
  BY DEF Next, vars, parityVars
<1>3. EntryInv' /\ GitInv' /\ ExporterInv'
  BY <1>1, EntryStep, GitStep, ExporterStep DEF DecisionsInv
<1>4. StoreInv' /\ DownInTime /\ CandlesInv' /\ BarsTogether'
  BY <1>1, StoreStep, CandlesStep, BarsTogetherStep DEF DecisionsInv
<1>5. part = "live" => LiveInv'
  BY <1>2, LiveStep DEF DecisionsInv
<1>6. ReplayInv'
  BY <1>1, ReplayStep DEF DecisionsInv
<1>7. part = "parity" => ParityInv'
  <2>1. part = "parity" => ParityNext \/ UNCHANGED parityVars
    BY DEF Next, vars
  <2> QED
    BY <2>1, ParityStep DEF DecisionsInv
<1> QED
  BY <1>1, <1>3, <1>4, <1>5, <1>6, <1>7 DEF DecisionsInv

(* What keeps the parts in order: of the replay, that every won is         *)
(* accounted for and what has a round trip is held no more; of a position, *)
(* that what is held back from sale waits in its order or in sales the     *)
(* program does not know; of the position and its double in the replay,    *)
(* that they are at the same place until a difference has shown; of every  *)
(* account and stock, what was bought when and what rests until when; of   *)
(* every process, who holds the lock of git and how old it is; of every    *)
(* order and position, the last word of it in the queue, in the later and  *)
(* in the earlier of the two hands that take from it; of every stock,      *)
(* since when it has its place and how far the batch has moved on; of the  *)
(* bars, where they begin, what has been counted of the day, and that      *)
(* those still open tell the same as well.                                 *)
THEOREM DecisionsInvariant == Spec => []DecisionsInv
<1>1. Init => DecisionsInv
  <2>1. Init => (part = "live" => LiveInit) /\ (part = "parity" => ParityInit)
    BY DEF Init
  <2> QED
    BY <2>1, ReplayInitInv, LiveInitInv, ParityInitInv, EntryInitInv, GitInitInv, ExporterInitInv,
       StoreInitInv, CandlesInitInv, BarsTogetherInit
       DEF Init, DecisionsInv
<1>2. DecisionsInv /\ [Next]_vars => DecisionsInv'
  BY DecisionsStep
<1> QED
  BY <1>1, <1>2, PTL DEF Spec

(* Whatever the symbols, bars, signals, ATRs and capital: the replay's cash *)
(* is its capital, the results listed, each round trip's first entry only, *)
(* and what is invested in open positions, through every partial exit and  *)
(* whatever a bar sells twice; after marking, the engine's                 *)
(* reconciliation_diff is exactly the realised part of open positions less *)
(* the round trips the list repeats; a round trip has sold all it bought;  *)
(* and a day with a bar after 15:20 leaves no intraday position open       *)
(* (realistic_engine.py, position_tracker.py).                             *)
THEOREM ReplayIsSound == Spec => []ReplaySound
<1>1. DecisionsInv => ReplaySound
  BY ReplayPromise DEF DecisionsInv, ReplaySound
<1> QED
  BY <1>1, DecisionsInvariant, PTL

(* Whatever the positions, prices, minutes and answers of the broker: a    *)
(* tick at or below the stop leaves no limit order in the way and no share *)
(* that a market order is not selling, whatever waited before, except what *)
(* the broker had not to give when the position was taken over and what    *)
(* waits in sales the program does not know; it promises nothing after a   *)
(* refusal and while the router has another sale of the symbol.  And no    *)
(* share is held back for an order that is not there (position_manager.py, *)
(* update_price_and_manage, _close_position, sync_from_broker).            *)
THEOREM ExitsAreSound == Spec => []ExitsSound
<1>1. DecisionsInv => ExitsSound
  BY LivePromise DEF DecisionsInv, ExitsSound
<1> QED
  BY <1>1, DecisionsInvariant, PTL

(* Whatever the accounts, the stocks, the signals and the pauses between   *)
(* cycles: a buy leaves only on the last balance that could be read, and   *)
(* a stock the loop saw go is not bought again within its rest             *)
(* (live_quant_trader.py, the purchases and the zombie check).             *)
THEOREM EntriesAreSound == Spec => []EntriesSound
<1>1. DecisionsInv => EntriesSound
  BY EntryPromise DEF DecisionsInv, EntriesSound
<1> QED
  BY <1>1, DecisionsInvariant, PTL

(* Whatever the items, the length of the queue, the processes and the      *)
(* failures, and with the writer and the git thread taking from one queue: *)
(* once every event is worked off the published status is that of the      *)
(* account synced last, whatever snapshot an event came after, but for     *)
(* items whose last change sent no event that was counted, or two of whose *)
(* events the two threads counted out of order, until the next snapshot    *)
(* (live_telemetry_exporter.py); and two threads are in git at once only   *)
(* after a lock was taken for stale or a process ended in git              *)
(* (telemetry_git_syncer.py).                                              *)
THEOREM TelemetryIsSound == Spec => []TelemetrySound
<1>1. DecisionsInv => TelemetrySound
  BY GitPromise, ExporterPromise DEF DecisionsInv, TelemetrySound
<1> QED
  BY <1>1, DecisionsInvariant, PTL

(* Whatever the list of stocks, the size of the batch, the events and the  *)
(* pauses: a stock moves down only after its time (candidate_promotion.py, *)
(* symbol_store.py) and the rolling batch leaves none out, wherever it     *)
(* wraps (low_cost_scanner.py); and while the sources agree in order the   *)
(* day's volume is counted once (aggregator.py).                           *)
THEOREM MarketIsSound == Spec => MarketSound
<1>1. DecisionsInv => (StoreTypeOK /\ RollingScanReachesAll) /\ (CandlesTypeOK /\ VolumeCountedOnce)
  BY StorePromise, CandlesPromise DEF DecisionsInv
<1>2. DecisionsInv /\ [Next]_vars => DownInTime
  BY DecisionsStep
<1>3. (StoreTypeOK /\ RollingScanReachesAll)' /\ (CandlesTypeOK /\ VolumeCountedOnce)' /\ DownInTime
      => [/\ part = "stocks" => DownInTime /\ (StoreTypeOK /\ RollingScanReachesAll)'
          /\ part = "candles" => (CandlesTypeOK /\ VolumeCountedOnce)']_vars
  OBVIOUS
<1> QED
  BY <1>1, <1>2, <1>3, DecisionsInvariant, PTL DEF Spec, MarketSound

(* Whatever the lengths of the bars, the prices, the sources and the clock:*)
(* as long as all the shortest bars are kept, a longer bar that was        *)
(* finished has the open, the close, the extremes and the volume of the    *)
(* shortest bars of its span, though it is formed by itself                *)
(* (aggregator.py).  And whatever the entries, the prices, their averages  *)
(* and ATRs, and the minutes: the trader and the replay hold as much of a  *)
(* position after every tick, unless it has been without progress for 20   *)
(* minutes or one of the four other named differences has shown            *)
(* (position_manager.py, position_tracker.py).                             *)
THEOREM TwinsAreAlike == Spec => []TwinsAgree
<1>1. DecisionsInv => TwinsAgree
  BY BarsPromise, ParityPromise DEF DecisionsInv, TwinsAgree
<1> QED
  BY <1>1, DecisionsInvariant, PTL
=============================================================================
