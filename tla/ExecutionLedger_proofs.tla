----------------------- MODULE ExecutionLedger_proofs -----------------------
(***************************************************************************)
(* Proofs about ExecutionLedger, for any number of threads, reports,       *)
(* retries and crashes: every execution is counted once, and what callers  *)
(* are told about it is true.                                              *)
(***************************************************************************)
EXTENDS ExecutionLedger, FiniteSetTheorems, WellFoundedInduction, TLAPS

(* A row nobody owns is empty; an owned row was opened by a counted        *)
(* purchase of its account.                                                *)
RowsOwned(d) ==
  \A p \in PosIds :
    /\ d.pos[p].acct = NoAccount => d.pos[p].qty = 0
    /\ d.pos[p].acct # NoAccount =>
         \E f \in d.fills : f.side = "BUY" /\ f.acct = d.pos[p].acct /\ NewPos(f) = p

(* TablesAgree, of any rows.                                               *)
Agree(d) ==
  /\ \A o \in Orders : d.orders[o] = "FILLED" => \E f \in d.fills : f.order = o
  /\ \A f \in d.fills : d.orders[f.order] \in {"FILLED", "RECONCILIATION_REQUIRED"}

DataInv(d) == d \in Rows /\ RowsOwned(d) /\ Agree(d)

(* A report that will be written.                                          *)
Fresh(d, e) == ~Counted(d, e) /\ ~KeyTaken(d, e)

(* The lock holder alone has something to commit, and it is its report.    *)
LockInv ==
  /\ writer = None => tx = db
  /\ \A w \in Workers :
       /\ call[w].at \in {"in", "ready"} <=> writer = w
       /\ call[w].at # "idle" \/ call[w].answer # "none" => call[w].ev \in Events
       /\ call[w].at = "in" => tx = db
       /\ call[w].at = "ready" =>
            \/ tx = db /\ Counted(db, call[w].ev)
            \/ tx = Applied(db, call[w].ev) /\ Fresh(db, call[w].ev)

(* The inductive invariant.                                                *)
LedgerInv == TypeOK /\ DataInv(db) /\ LockInv /\ AnswerIsTrue

-----------------------------------------------------------------------------
(* The rows.                                                               *)

LEMMA LeastNumber ==
  ASSUME NEW T \in SUBSET Nat, T # {}
  PROVE  \E x \in T : \A y \in T : x <= y
<1> DEFINE less == OpToRel(<, Nat)
<1>1. \A x, y \in Nat : <<y, x>> \in less \/ x <= y
  BY DEF OpToRel
<1>2. IsWellFoundedOn(less, Nat)
  BY NatLessThanWellFounded, Zenon
<1> HIDE DEF less
<1>3. \E x \in T : \A y \in T : ~(<<y, x>> \in less)
  BY <1>2, WFMin
<1> QED
  BY <1>1, <1>3

(* A non-empty set of positions has an oldest one.                         *)
LEMMA OldestExists ==
  ASSUME NEW d \in Rows, NEW e, OpenRows(d, e) # {}
  PROVE  OldestOpen(d, e) \in OpenRows(d, e)
<1> DEFINE births == {d.pos[p].born : p \in OpenRows(d, e)}
<1>1. births \in SUBSET Nat /\ births # {}
  BY DEF Rows, OpenRows
<1>2. \E x \in births : \A y \in births : x <= y
  <2> HIDE DEF births
  <2> QED
    BY <1>1, LeastNumber
<1>3. \E p \in OpenRows(d, e) : \A q \in OpenRows(d, e) : d.pos[p].born <= d.pos[q].born
  BY <1>2
<1> QED
  BY <1>3 DEF OldestOpen

(* A report goes to a position of its own account.                         *)
LEMMA PosRowOwned ==
  ASSUME NEW d \in Rows, NEW e \in Events, PosRow(d, e) # None
  PROVE  PosRow(d, e) \in PosIds /\ d.pos[PosRow(d, e)].acct = e.acct
<1>1. CASE e.pos # None /\ d.pos[e.pos].acct = e.acct
  BY <1>1, LedgerAssumption DEF PosRow
<1>2. CASE ~(e.pos # None /\ d.pos[e.pos].acct = e.acct) /\ OpenRows(d, e) # {}
  BY <1>2, OldestExists DEF PosRow, OpenRows
<1> QED
  BY <1>1, <1>2 DEF PosRow

LEMMA AgeType ==
  ASSUME NEW d
  PROVE  Age(d) \in Nat
<1>1. {p \in PosIds : d.pos[p].born > 0} \in SUBSET PosIds
  OBVIOUS
<1> QED
  BY <1>1, FS_Subset, FS_CardinalityType, LedgerAssumption DEF Age

LEMMA NewPosType ==
  ASSUME NEW e \in Events
  PROVE  NewPos(e) \in PosIds
BY LedgerAssumption DEF NewPos

(* What a fresh report does to the positions: one row of its account, by   *)
(* its quantity, or for a sale without a position nothing.                 *)
Moved(d, e) ==
  \/ \E p \in PosIds :
       /\ e.side = "BUY" /\ d.pos[p].acct \in {NoAccount, e.acct}
       /\ \E b \in BOOLEAN, n \in Nat :
            PosAfter(d, e) = [d.pos EXCEPT ![p] = [acct |-> e.acct, qty |-> d.pos[p].qty + e.qty,
                                                   open |-> b, born |-> n]]
       /\ d.pos[p].acct = NoAccount => p = NewPos(e)
  \/ \E p \in PosIds :
       /\ e.side = "SELL" /\ d.pos[p].acct = e.acct
       /\ \E b \in BOOLEAN, n \in 0..e.qty :
            /\ n <= d.pos[p].qty
            /\ PosAfter(d, e) = [d.pos EXCEPT ![p] = [acct |-> e.acct, qty |-> d.pos[p].qty - n,
                                                      open |-> b, born |-> d.pos[p].born]]
  \/ e.side = "SELL" /\ PosAfter(d, e) = d.pos

LEMMA MovedByReport ==
  ASSUME NEW d \in Rows, NEW e \in Events, RowsOwned(d), ~KeyTaken(d, e)
  PROVE  Moved(d, e)
<1>0. /\ e.side \in {"BUY", "SELL"} /\ e.qty \in Nat /\ e.acct \in Accounts /\ e.acct # NoAccount
      /\ NewPos(e) \in PosIds /\ Age(d) \in Nat
  BY LedgerAssumption, NewPosType, AgeType
<1>1. d.pos \in [PosIds -> [acct : Accounts \cup {NoAccount}, qty : Nat,
                            open : BOOLEAN, born : Nat]]
  BY DEF Rows
<1>2. ASSUME NEW p, p = PosRow(d, e), e.side = "BUY", p # None
      PROVE  Moved(d, e)
  <2>1. p \in PosIds /\ d.pos[p].acct = e.acct
    BY <1>2, PosRowOwned
  <2>2. PICK b \in BOOLEAN : b = TRUE
    OBVIOUS
  <2>3. PosAfter(d, e) = [d.pos EXCEPT ![p].qty = @ + e.qty, ![p].open = b]
    BY <1>2, <2>2 DEF PosAfter
  <2>4. PosAfter(d, e) = [d.pos EXCEPT ![p] =
          [acct |-> e.acct, qty |-> d.pos[p].qty + e.qty, open |-> b, born |-> d.pos[p].born]]
    BY <1>1, <2>1, <2>3
  <2>5. d.pos[p].born \in Nat
    BY <1>1, <2>1
  <2> QED
    BY <1>0, <1>2, <2>1, <2>4, <2>5 DEF Moved
<1>3. CASE e.side = "BUY" /\ PosRow(d, e) = None
  <2>1. d.pos[NewPos(e)].acct = NoAccount
    BY <1>3 DEF KeyTaken
  <2>2. d.pos[NewPos(e)].qty + e.qty = e.qty
    BY <1>0, <2>1 DEF RowsOwned
  <2>3. PosAfter(d, e) = [d.pos EXCEPT ![NewPos(e)] =
                            [acct |-> e.acct, qty |-> e.qty, open |-> TRUE, born |-> Age(d)]]
    BY <1>3 DEF PosAfter
  <2> QED
    BY <1>0, <1>3, <2>1, <2>2, <2>3 DEF Moved
<1>4. ASSUME NEW p, p = PosRow(d, e), e.side = "SELL", p # None
      PROVE  Moved(d, e)
  <2>1. p \in PosIds /\ d.pos[p].acct = e.acct
    BY <1>4, PosRowOwned
  <2>2. PICK n : n = Taken(d.pos[p].qty, e.qty)
    OBVIOUS
  <2>3. PICK b : b = (d.pos[p].qty > e.qty)
    OBVIOUS
  <2>4. PosAfter(d, e) = [d.pos EXCEPT ![p].qty = @ - n, ![p].open = b]
    BY <1>4, <2>2, <2>3 DEF PosAfter
  <2>5. n \in 0..e.qty /\ n <= d.pos[p].qty
    BY <1>0, <1>1, <2>1, <2>2 DEF Taken
  <2>6. b \in BOOLEAN
    BY <2>3
  <2>7. PosAfter(d, e) = [d.pos EXCEPT ![p] =
          [acct |-> e.acct, qty |-> d.pos[p].qty - n, open |-> b, born |-> d.pos[p].born]]
    BY <1>1, <2>1, <2>4
  <2> QED
    BY <1>4, <2>1, <2>5, <2>6, <2>7 DEF Moved
<1>5. CASE e.side = "SELL" /\ PosRow(d, e) = None
  BY <1>5 DEF PosAfter, Moved
<1> QED
  BY <1>0, <1>2, <1>3, <1>4, <1>5

-----------------------------------------------------------------------------
(* Writing a fresh report keeps the rows in order.                         *)
LEMMA AppliedKeeps ==
  ASSUME NEW d, DataInv(d), NEW e \in Events, Fresh(d, e)
  PROVE  /\ DataInv(Applied(d, e))
         /\ d.fills \subseteq Applied(d, e).fills
         /\ \A p \in PosIds : d.pos[p].acct # NoAccount =>
              Applied(d, e).pos[p].acct = d.pos[p].acct
<1> DEFINE n == Applied(d, e)
<1>0. /\ e.side \in {"BUY", "SELL"} /\ e.qty \in Nat /\ e.acct \in Accounts /\ e.acct # NoAccount
      /\ e.order \in Orders /\ NewPos(e) \in PosIds
  BY LedgerAssumption, NewPosType
<1>1. d \in Rows /\ RowsOwned(d) /\ Agree(d)
  BY DEF DataInv
<1>2. /\ n.fills = d.fills \cup {e} /\ n.pos = PosAfter(d, e)
      /\ n.orders = [d.orders EXCEPT ![e.order] = "FILLED"]
      /\ n = [fills |-> n.fills, orders |-> n.orders, pos |-> n.pos]
  BY DEF Applied
<1>3. Moved(d, e)
  BY <1>1, MovedByReport DEF Fresh
<1> DEFINE RowT == [acct : Accounts \cup {NoAccount}, qty : Nat, open : BOOLEAN, born : Nat]
<1>4. d.fills \in SUBSET Events /\ d.orders \in [Orders -> OrderStatuses] /\ d.pos \in [PosIds -> RowT]
  BY <1>1 DEF Rows
<1>5. n.pos \in [PosIds -> RowT]
  BY <1>0, <1>2, <1>3, <1>4 DEF Moved
<1>6. n \in Rows
  <2>1. n.fills \in SUBSET Events
    BY <1>2, <1>4
  <2>2. n.orders \in [Orders -> OrderStatuses]
    BY <1>2, <1>4 DEF OrderStatuses
  <2> HIDE DEF n
  <2> QED
    BY <1>2, <1>5, <2>1, <2>2 DEF Rows
<1>7. \A p \in PosIds : d.pos[p].acct # NoAccount => n.pos[p].acct = d.pos[p].acct
  BY <1>0, <1>2, <1>3, <1>4 DEF Moved
<1>8. \A p \in PosIds : n.pos[p].acct = NoAccount => d.pos[p].acct = NoAccount /\ n.pos[p] = d.pos[p]
  BY <1>0, <1>2, <1>3, <1>4 DEF Moved
<1>9. \A p \in PosIds : n.pos[p].acct # NoAccount /\ d.pos[p].acct = NoAccount =>
        e.side = "BUY" /\ n.pos[p].acct = e.acct /\ NewPos(e) = p
  BY <1>0, <1>2, <1>3, <1>4 DEF Moved
<1>10. RowsOwned(n)
  <2> HIDE DEF n
  <2> QED
    BY <1>1, <1>2, <1>7, <1>8, <1>9 DEF RowsOwned
<1>11. Agree(n)
  <2> HIDE DEF n
  <2> QED
    BY <1>0, <1>1, <1>2, <1>4 DEF Agree
<1> QED
  BY <1>2, <1>6, <1>7, <1>10, <1>11 DEF DataInv

(* Marking an order for reconciliation touches no fill and no position.    *)
Marked(d, n, o) ==
  n = [d EXCEPT !.orders[o] = IF @ = "ABSENT" THEN @ ELSE "RECONCILIATION_REQUIRED"]

LEMMA MarkedKeeps ==
  ASSUME NEW d, DataInv(d), NEW n, NEW o \in Orders, Marked(d, n, o)
  PROVE  DataInv(n) /\ n.fills = d.fills /\ n.pos = d.pos
<1>1. d \in Rows /\ RowsOwned(d) /\ Agree(d)
  BY DEF DataInv
<1>2. /\ n.fills = d.fills /\ n.pos = d.pos
      /\ n.orders = [d.orders EXCEPT ![o] = IF @ = "ABSENT" THEN @ ELSE "RECONCILIATION_REQUIRED"]
  BY <1>1 DEF Marked, Rows
<1>3. n \in Rows
  BY <1>1 DEF Marked, Rows, OrderStatuses
<1>4. RowsOwned(n)
  BY <1>1, <1>2 DEF RowsOwned
<1>5. Agree(n)
  BY <1>1, <1>2 DEF Agree, Rows
<1> QED
  BY <1>2, <1>3, <1>4, <1>5 DEF DataInv

(* What a step does to the committed rows: nothing, one fresh report, or a *)
(* mark.                                                                   *)
DbStep ==
  \/ db' = db
  \/ \E e \in Events : Fresh(db, e) /\ db' = Applied(db, e)
  \/ \E o \in Orders : Marked(db, db', o)

LEMMA StepOfDb ==
  ASSUME LedgerInv, [Next]_vars
  PROVE  DbStep
<1>1. ASSUME NEW w \in Workers, call[w].at \in {"in", "ready"}, db' \in {db, tx}
      PROVE  DbStep
  BY <1>1 DEF LedgerInv, LockInv, DbStep
<1>2. ASSUME NEW w \in Workers, MarkReconciliation(w)
      PROVE  DbStep
  <2>1. call[w].ev.order \in Orders
    BY <1>2, LedgerAssumption DEF MarkReconciliation, LedgerInv, LockInv
  <2>2. CASE OrderOfOther(db, call[w].ev) \/ UNCHANGED db
    <3>1. db' = db
      BY <1>2, <2>1, <2>2 DEF MarkReconciliation, LedgerInv, DataInv, Rows
    <3> QED
      BY <3>1 DEF DbStep
  <2>3. CASE ~OrderOfOther(db, call[w].ev) /\ db' # db
    <3>1. Marked(db, db', call[w].ev.order)
      BY <1>2, <2>3 DEF MarkReconciliation, Marked
    <3> QED
      BY <2>1, <3>1 DEF DbStep
  <2> QED
    BY <2>2, <2>3
<1>3. ASSUME NEW w \in Workers, Commit(w) \/ LockError(w)
      PROVE  DbStep
  BY <1>1, <1>3 DEF Commit, LockError
<1>4. ASSUME NEW w \in Workers, Work(w), ~MarkReconciliation(w), ~Commit(w), ~LockError(w)
      PROVE  DbStep
  BY <1>4 DEF Work, BeginImmediate, LockTimeout, ApplyOnce, OtherError, DbStep
<1>5. CASE (\E w \in Workers, e \in Events : Deliver(w, e)) \/ Crash \/ UNCHANGED vars
  BY <1>5 DEF Deliver, Crash, vars, DbStep
<1> QED
  BY <1>2, <1>3, <1>4, <1>5 DEF Next

(* The committed rows stay in order; fills and owners are never taken back. *)
LEMMA DataStep ==
  ASSUME LedgerInv, [Next]_vars
  PROVE  /\ DataInv(db') /\ db.fills \subseteq db'.fills
         /\ \A p \in PosIds : db.pos[p].acct # NoAccount => db'.pos[p].acct = db.pos[p].acct
<1>1. DataInv(db) /\ DbStep
  BY StepOfDb DEF LedgerInv
<1>2. CASE db' = db
  BY <1>1, <1>2
<1>3. ASSUME NEW e \in Events, Fresh(db, e), db' = Applied(db, e)
      PROVE  /\ DataInv(db') /\ db.fills \subseteq db'.fills
             /\ \A p \in PosIds : db.pos[p].acct # NoAccount => db'.pos[p].acct = db.pos[p].acct
  BY <1>1, <1>3, AppliedKeeps
<1>4. ASSUME NEW o \in Orders, Marked(db, db', o)
      PROVE  /\ DataInv(db') /\ db.fills = db'.fills /\ db.pos = db'.pos
  BY <1>1, <1>4, MarkedKeeps
<1> QED
  BY <1>1, <1>2, <1>3, <1>4 DEF DbStep

-----------------------------------------------------------------------------
(* Type correctness and the write lock.                                    *)

CallType == [ev : Events \cup {None}, attempt : 0..(MaxRetries - 1),
             at : Steps, answer : Answers]

LEMMA InitInv == Init => LedgerInv
<1> SUFFICES ASSUME Init PROVE LedgerInv
  OBVIOUS
<1>0. None \notin Workers /\ NoAccount \notin Accounts /\ MaxRetries \in Nat \ {0}
  BY LedgerAssumption
<1>1. PICK registered \in SUBSET OneAccounts :
        db = [fills |-> {}, pos |-> [p \in PosIds |-> NoRow],
              orders |-> [o \in Orders |-> IF o \in registered THEN "OPEN" ELSE "ABSENT"]]
  BY DEF Init
<1>2. DataInv(db)
  <2>1. db \in Rows
    BY <1>1 DEF Rows, OrderStatuses, NoRow
  <2>2. RowsOwned(db) /\ Agree(db)
    BY <1>1 DEF RowsOwned, Agree, NoRow
  <2> QED
    BY <2>1, <2>2 DEF DataInv
<1>3. NoCall \in CallType /\ call = [w \in Workers |-> NoCall]
  BY <1>0 DEF NoCall, CallType, Steps, Answers, Init
<1>4. TypeOK
  BY <1>2, <1>3, LedgerAssumption DEF DataInv, TypeOK, CallType, Init
<1>5. LockInv
  BY <1>0, <1>3 DEF LockInv, NoCall, Init
<1>6. AnswerIsTrue
  BY <1>3 DEF AnswerIsTrue, NoCall
<1> QED
  BY <1>2, <1>4, <1>5, <1>6 DEF LedgerInv

LEMMA TypeStep ==
  ASSUME LedgerInv, [Next]_vars
  PROVE  TypeOK'
<1>0. /\ MaxRetries \in Nat \ {0} /\ MaxCalls \in Nat /\ MaxCrashes \in Nat
      /\ call \in [Workers -> CallType] /\ tx \in Rows /\ TypeOK
      /\ writer \in Workers \cup {None} /\ calls \in 0..MaxCalls /\ crashes \in 0..MaxCrashes
  BY LedgerAssumption DEF LedgerInv, TypeOK, CallType
<1>1. db' \in Rows
  BY DataStep DEF DataInv
<1>2. ASSUME NEW w \in Workers, NEW a \in Answers, Answer(w, a)
      PROVE  call' \in [Workers -> CallType]
  BY <1>0, <1>2 DEF Answer, CallType, Steps
<1>3. ASSUME NEW w \in Workers, RetryOrExhaust(w)
      PROVE  call' \in [Workers -> CallType]
  <2>1. CASE call[w].attempt < MaxRetries - 1
    <3>1. PICK n \in 0..(MaxRetries - 1) : n = call[w].attempt + 1
      BY <1>0, <2>1 DEF CallType
    <3>2. call' = [call EXCEPT ![w].attempt = n, ![w].at = "begin"]
      BY <1>3, <2>1, <3>1 DEF RetryOrExhaust
    <3>3. ASSUME NEW v \in Workers
          PROVE  call'[v] \in CallType
      BY <1>0, <3>1, <3>2 DEF CallType, Steps
    <3> QED
      BY <1>0, <3>2, <3>3
  <2>2. CASE ~(call[w].attempt < MaxRetries - 1)
    BY <1>0, <1>3, <2>2 DEF RetryOrExhaust, CallType, Steps
  <2> QED
    BY <2>1, <2>2
<1>4. ASSUME Release
      PROVE  tx' \in Rows /\ writer' \in Workers \cup {None}
  BY <1>1, <1>4 DEF Release
<1>5. ASSUME NEW w \in Workers, NEW e \in Events, Deliver(w, e)
      PROVE  TypeOK'
  <2>1. call' \in [Workers -> CallType]
    BY <1>0, <1>5 DEF Deliver, CallType, Steps, Answers
  <2> QED
    BY <1>0, <1>1, <1>5, <2>1 DEF Deliver, TypeOK, CallType
<1>6. ASSUME NEW w \in Workers, BeginImmediate(w)
      PROVE  TypeOK'
  <2>1. call' \in [Workers -> CallType]
    BY <1>0, <1>6 DEF BeginImmediate, CallType, Steps
  <2> QED
    BY <1>0, <1>1, <1>6, <2>1 DEF BeginImmediate, TypeOK, CallType
<1>7. ASSUME NEW w \in Workers, LockTimeout(w)
      PROVE  TypeOK'
  BY <1>0, <1>1, <1>3, <1>7 DEF LockTimeout, TypeOK, CallType
<1>8. ASSUME NEW w \in Workers, ApplyOnce(w)
      PROVE  TypeOK'
  <2>1. CASE Answer(w, "DUPLICATE") /\ Release
    BY <1>0, <1>1, <1>2, <1>4, <1>8, <2>1 DEF ApplyOnce, TypeOK, CallType, Answers
  <2>2. CASE call' = [call EXCEPT ![w].at = "ready"] /\ UNCHANGED writer /\ tx' \in Rows
    <3>1. call' \in [Workers -> CallType]
      BY <1>0, <2>2 DEF CallType, Steps
    <3> QED
      BY <1>0, <1>1, <1>8, <2>2, <3>1 DEF ApplyOnce, TypeOK, CallType
  <2>3. call[w].ev \in Events
    BY <1>8 DEF ApplyOnce, LedgerInv, LockInv
  <2>4. Fresh(db, call[w].ev) => Applied(db, call[w].ev) \in Rows
    BY <2>3, AppliedKeeps DEF LedgerInv, DataInv
  <2> QED
    BY <1>0, <1>8, <2>1, <2>2, <2>4 DEF ApplyOnce, Fresh
<1>9. ASSUME NEW w \in Workers, Commit(w) \/ LockError(w) \/ OtherError(w)
      PROVE  TypeOK'
  <2>1. call' \in [Workers -> CallType]
    BY <1>2, <1>3, <1>9 DEF Commit, LockError, OtherError, Answers
  <2> QED
    BY <1>0, <1>1, <1>4, <1>9, <2>1 DEF Commit, LockError, OtherError, TypeOK, CallType
<1>10. ASSUME NEW w \in Workers, MarkReconciliation(w)
       PROVE  TypeOK'
  <2>1. call' \in [Workers -> CallType]
    BY <1>2, <1>10 DEF MarkReconciliation, Answers
  <2>2. tx' \in Rows
    BY <1>0, <1>1, <1>10 DEF MarkReconciliation
  <2> QED
    BY <1>0, <1>1, <1>10, <2>1, <2>2 DEF MarkReconciliation, TypeOK, CallType
<1>11. CASE Crash
  <2>1. call' \in [Workers -> CallType]
    BY <1>0, <1>11 DEF Crash, NoCall, CallType, Steps, Answers
  <2> QED
    BY <1>0, <1>1, <1>4, <1>11, <2>1 DEF Crash, TypeOK, CallType
<1>12. CASE UNCHANGED vars
  BY <1>0, <1>12 DEF vars, TypeOK
<1> QED
  BY <1>5, <1>6, <1>7, <1>8, <1>9, <1>10, <1>11, <1>12 DEF Next, Work

(* Every end of a transaction leaves no uncommitted rows behind, and what   *)
(* is ready to commit was computed from the rows it will replace.           *)
LEMMA LockStep ==
  ASSUME LedgerInv, [Next]_vars
  PROVE  LockInv'
<1>0. /\ None \notin Workers /\ None \notin Events
      /\ call \in [Workers -> CallType] /\ LockInv
      /\ writer \in Workers \cup {None}
  BY LedgerAssumption DEF LedgerInv, TypeOK, CallType
<1>1. ASSUME NEW w \in Workers,
             \/ \E a \in Answers : Answer(w, a)
             \/ RetryOrExhaust(w)
      PROVE  /\ \A v \in Workers \ {w} : call'[v] = call[v]
             /\ call'[w].at \notin {"in", "ready"} /\ call'[w].ev = call[w].ev
  BY <1>0, <1>1 DEF Answer, RetryOrExhaust, CallType
<1>2. ASSUME NEW w \in Workers, call[w].at \in {"in", "ready"}, Release,
             \/ \E a \in Answers : Answer(w, a)
             \/ RetryOrExhaust(w)
      PROVE  LockInv'
  BY <1>0, <1>1, <1>2 DEF LockInv, Release
<1>3. ASSUME NEW w \in Workers, call[w].at \in {"begin", "exhausted"}, UNCHANGED <<db, tx, writer>>,
             \/ \E a \in Answers : Answer(w, a)
             \/ RetryOrExhaust(w)
      PROVE  LockInv'
  BY <1>0, <1>1, <1>3 DEF LockInv
<1>4. ASSUME NEW w \in Workers, NEW e \in Events, Deliver(w, e)
      PROVE  LockInv'
  BY <1>0, <1>4 DEF Deliver, LockInv
<1>5. ASSUME NEW w \in Workers, BeginImmediate(w)
      PROVE  LockInv'
  BY <1>0, <1>5 DEF BeginImmediate, LockInv, CallType
<1>6. ASSUME NEW w \in Workers, ApplyOnce(w)
      PROVE  LockInv'
  <2>1. CASE Answer(w, "DUPLICATE") /\ Release
    BY <1>2, <1>6, <2>1 DEF ApplyOnce, Answers
  <2>2. CASE /\ call' = [call EXCEPT ![w].at = "ready"] /\ UNCHANGED <<db, writer>>
             /\ \/ Counted(db, call[w].ev) /\ tx' = tx
                \/ Fresh(db, call[w].ev) /\ tx' = Applied(db, call[w].ev)
    <3>1. /\ call'[w].at = "ready" /\ call'[w].ev = call[w].ev
          /\ \A v \in Workers \ {w} : call'[v] = call[v]
      BY <1>0, <2>2 DEF CallType
    <3>2. writer = w /\ tx = db /\ call[w].ev \in Events
      BY <1>0, <1>6 DEF ApplyOnce, LockInv
    <3>3. \A v \in Workers \ {w} : call[v].at \notin {"in", "ready"}
      BY <1>0, <3>2 DEF LockInv
    <3>4. \/ tx' = db' /\ Counted(db', call'[w].ev)
          \/ tx' = Applied(db', call'[w].ev) /\ Fresh(db', call'[w].ev)
      BY <2>2, <3>1, <3>2
    <3> QED
      BY <1>0, <2>2, <3>1, <3>2, <3>3, <3>4 DEF LockInv
  <2> QED
    BY <1>6, <2>1, <2>2 DEF ApplyOnce, Fresh
<1>7. ASSUME NEW w \in Workers, Commit(w) \/ LockError(w) \/ OtherError(w)
      PROVE  LockInv'
  BY <1>2, <1>7 DEF Commit, LockError, OtherError, Answers
<1>8. ASSUME NEW w \in Workers, MarkReconciliation(w)
      PROVE  LockInv'
  <2>1. CASE UNCHANGED <<db, tx>>
    BY <1>3, <1>8, <2>1 DEF MarkReconciliation, Answers
  <2>2. CASE writer = None /\ tx' = db'
    <3>1. /\ \A v \in Workers \ {w} : call'[v] = call[v]
          /\ call'[w].at \notin {"in", "ready"} /\ call'[w].ev = call[w].ev
      BY <1>1, <1>8 DEF MarkReconciliation, Answers
    <3>2. \A v \in Workers : call[v].at \notin {"in", "ready"}
      BY <1>0, <2>2 DEF LockInv
    <3>3. writer' = None /\ call[w].ev \in Events
      BY <1>0, <1>8, <2>2 DEF MarkReconciliation, LockInv
    <3> QED
      BY <1>0, <2>2, <3>1, <3>2, <3>3 DEF LockInv
  <2> QED
    BY <1>8, <2>1, <2>2 DEF MarkReconciliation
<1>9. ASSUME NEW w \in Workers, LockTimeout(w)
      PROVE  LockInv'
  BY <1>3, <1>9 DEF LockTimeout
<1>10. CASE Crash
  BY <1>0, <1>10 DEF Crash, Release, NoCall, LockInv
<1>11. CASE UNCHANGED vars
  BY <1>0, <1>11 DEF vars, LockInv
<1> QED
  BY <1>4, <1>5, <1>6, <1>7, <1>8, <1>9, <1>10, <1>11 DEF Next, Work

-----------------------------------------------------------------------------
(* Answers.                                                                *)

(* AnswerIsTrue, of one call.                                              *)
Truth(c) ==
  \/ c.answer \notin {"SUCCESS", "DUPLICATE"}
  \/ \E f \in db.fills : f.id = c.ev.id
  \/ c.answer = "DUPLICATE" /\ KeyHeldElsewhere(c.ev)

(* A purchase whose row cannot be opened although it is not counted: the   *)
(* row is another account's.                                               *)
LEMMA KeyOfAnother ==
  ASSUME DataInv(db), NEW e \in Events, ~Counted(db, e), KeyTaken(db, e)
  PROVE  (\E f \in db.fills : f.id = e.id) \/ KeyHeldElsewhere(e)
<1> SUFFICES ASSUME e.side = "BUY", PosRow(db, e) = None, db.pos[NewPos(e)].acct # NoAccount,
                    db.pos[NewPos(e)].acct = e.acct, ~OrderOfOther(db, e)
             PROVE  FALSE
  BY DEF KeyTaken, KeyHeldElsewhere
<1>1. e.pos = None /\ NewPos(e) = e.id
  <2>1. CASE e.pos # None
    BY <2>1 DEF PosRow, NewPos
  <2> QED
    BY <2>1 DEF NewPos
<1>2. PICK f \in db.fills : f.side = "BUY" /\ f.acct = e.acct /\ NewPos(f) = e.id
  BY <1>1, NewPosType DEF DataInv, RowsOwned
<1>3. f \in Events
  BY DEF DataInv, Rows
<1>4. f.id = e.id
  BY <1>1, <1>2, <1>3, LedgerAssumption DEF NewPos
<1> QED
  BY <1>2, <1>4 DEF Counted

LEMMA AnswerStep ==
  ASSUME LedgerInv, [Next]_vars
  PROVE  AnswerIsTrue'
<1>0. /\ call \in [Workers -> CallType] /\ LockInv /\ DataInv(db)
      /\ \A v \in Workers : Truth(call[v])
  BY DEF LedgerInv, TypeOK, CallType, AnswerIsTrue, Truth
<1>1. SUFFICES ASSUME NEW v \in Workers
               PROVE  Truth(call[v])'
  BY DEF AnswerIsTrue, Truth
<1>2. /\ db.fills \subseteq db'.fills
      /\ \A p \in PosIds : db.pos[p].acct # NoAccount => db'.pos[p].acct = db.pos[p].acct
  BY DataStep
<1>3. ASSUME NEW e \in Events, KeyHeldElsewhere(e)
      PROVE  KeyHeldElsewhere(e)'
  BY <1>2, <1>3, NewPosType DEF KeyHeldElsewhere, NewPos, OrderOfOther
<1>4. CASE call'[v] = call[v]
  <2>1. call[v].answer # "none" => call[v].ev \in Events
    BY <1>0 DEF LockInv
  <2> QED
    BY <1>0, <1>2, <1>3, <1>4, <2>1 DEF Truth
<1>5. CASE call'[v].answer \notin {"SUCCESS", "DUPLICATE"}
  BY <1>5 DEF Truth
<1>6. CASE call'[v].answer = call[v].answer /\ call'[v].ev = call[v].ev
  <2>1. call[v].answer # "none" => call[v].ev \in Events
    BY <1>0 DEF LockInv
  <2> QED
    BY <1>0, <1>2, <1>3, <1>6, <2>1 DEF Truth
<1>7. ASSUME NEW a, Answer(v, a)
      PROVE  call'[v].answer = a /\ call'[v].ev = call[v].ev
  BY <1>0, <1>7 DEF Answer, CallType
<1>8. ASSUME ApplyOnce(v)
      PROVE  Truth(call[v])'
  <2>1. call[v].ev \in Events
    BY <1>0, <1>8 DEF ApplyOnce, LockInv
  <2>2. CASE Answer(v, "DUPLICATE") /\ ~Counted(db, call[v].ev) /\ KeyTaken(db, call[v].ev)
    BY <1>0, <1>2, <1>3, <1>7, <2>1, <2>2, KeyOfAnother DEF Truth
  <2>3. CASE call' = [call EXCEPT ![v].at = "ready"]
    BY <1>0, <1>6, <2>3 DEF CallType
  <2> QED
    BY <1>8, <2>2, <2>3 DEF ApplyOnce
<1>9. ASSUME Commit(v)
      PROVE  Truth(call[v])'
  <2>1. db' = tx /\ call'[v].ev = call[v].ev
    BY <1>7, <1>9 DEF Commit
  <2>2. \E f \in tx.fills : f.id = call[v].ev.id
    BY <1>0, <1>9 DEF Commit, LockInv, Counted, Applied
  <2> QED
    BY <2>1, <2>2 DEF Truth
<1>10. ASSUME NEW w \in Workers, Work(w) \/ \E e \in Events : Deliver(w, e), w # v
       PROVE  call'[v] = call[v]
  BY <1>0, <1>10 DEF Work, Deliver, BeginImmediate, LockTimeout, ApplyOnce, Commit, LockError,
     OtherError, MarkReconciliation, Answer, RetryOrExhaust
<1>11. ASSUME BeginImmediate(v) \/ RetryOrExhaust(v)
       PROVE  call'[v].answer = call[v].answer /\ call'[v].ev = call[v].ev
  BY <1>0, <1>11 DEF BeginImmediate, RetryOrExhaust, CallType
<1>12. ASSUME \E e \in Events : Deliver(v, e)
       PROVE  call'[v].answer \notin {"SUCCESS", "DUPLICATE"}
  BY <1>0, <1>12 DEF Deliver
<1>13. CASE LockTimeout(v) \/ LockError(v) \/ BeginImmediate(v)
  BY <1>6, <1>11, <1>13 DEF LockTimeout, LockError
<1>14. CASE OtherError(v) \/ MarkReconciliation(v)
  BY <1>5, <1>7, <1>14 DEF OtherError, MarkReconciliation
<1>15. CASE Crash
  BY <1>5, <1>15 DEF Crash, NoCall
<1>16. CASE UNCHANGED vars
  BY <1>4, <1>16 DEF vars
<1> QED
  BY <1>4, <1>5, <1>8, <1>9, <1>10, <1>12, <1>13, <1>14, <1>15, <1>16 DEF Next, Work

-----------------------------------------------------------------------------
(* The theorems.                                                           *)

(* The rows, the lock and the answers stay as described above.             *)
THEOREM LedgerInvariant == Spec => []LedgerInv
<1>1. LedgerInv /\ [Next]_vars => LedgerInv'
  BY TypeStep, DataStep, LockStep, AnswerStep DEF LedgerInv
<1> QED
  BY InitInv, <1>1, PTL DEF Spec

(* Every variable has its type.                                            *)
THEOREM LedgerTypeCorrect == Spec => []TypeOK
<1>1. LedgerInv => TypeOK
  BY DEF LedgerInv
<1> QED
  BY LedgerInvariant, <1>1, PTL

(* An execution reported as written or as a duplicate is in the table,     *)
(* unless another account's row has its key (apply_execution_update).      *)
THEOREM AnswersAreTrue == Spec => []AnswerIsTrue
<1>1. LedgerInv => AnswerIsTrue
  BY DEF LedgerInv
<1> QED
  BY LedgerInvariant, <1>1, PTL

(* An order is filled only by a counted execution, and a counted execution *)
(* has its order: the tables change together or not at all.                *)
THEOREM TablesMoveTogether == Spec => []TablesAgree
<1>1. LedgerInv => TablesAgree
  BY DEF LedgerInv, DataInv, Agree, TablesAgree
<1> QED
  BY LedgerInvariant, <1>1, PTL

(* A written report counts in the abstract ledger.                         *)
LEMMA AppliedCounts ==
  ASSUME DataInv(db), NEW e \in Events, Fresh(db, e), db' = Applied(db, e)
  PROVE  Ledger!Count(e)
<1>0. /\ db \in Rows /\ RowsOwned(db) /\ e.qty \in Nat
      /\ db.pos \in [PosIds -> [acct : Accounts \cup {NoAccount}, qty : Nat,
                                open : BOOLEAN, born : Nat]]
  BY LedgerAssumption DEF DataInv, Rows
<1>1. db'.fills = db.fills \cup {e} /\ db'.pos = PosAfter(db, e)
  BY DEF Applied
<1>2. e.id \notin {f.id : f \in db.fills}
  BY DEF Fresh, KeyTaken
<1>3. {f.id : f \in db'.fills} = {f.id : f \in db.fills} \cup {e.id}
  BY <1>1
<1> DEFINE book  == [p \in PosIds |-> db.pos[p].qty]
           owner == [p \in PosIds |-> db.pos[p].acct]
<1>4. (\E p \in PosIds : Ledger!Bought(e, p) \/ Ledger!Sold(e, p)) \/ Ledger!SoldNothing(e)
  <2>1. Moved(db, e)
    BY <1>0, MovedByReport DEF Fresh
  <2>2. ASSUME NEW p \in PosIds, e.side = "BUY", db.pos[p].acct \in {NoAccount, e.acct},
               NEW b \in BOOLEAN, NEW n \in Nat,
               PosAfter(db, e) = [db.pos EXCEPT ![p] =
                 [acct |-> e.acct, qty |-> db.pos[p].qty + e.qty, open |-> b, born |-> n]]
        PROVE  Ledger!Bought(e, p)
    <3>1. \A q \in PosIds :
            /\ db'.pos[q].qty = IF q = p THEN db.pos[p].qty + e.qty ELSE db.pos[q].qty
            /\ db'.pos[q].acct = IF q = p THEN e.acct ELSE db.pos[q].acct
      BY <1>0, <1>1, <2>2
    <3>2. book' = [book EXCEPT ![p] = @ + e.qty] /\ owner' = [owner EXCEPT ![p] = e.acct]
      BY <3>1
    <3> QED
      BY <2>2, <3>2 DEF Ledger!Bought
  <2>3. ASSUME NEW p \in PosIds, e.side = "SELL", db.pos[p].acct = e.acct,
               NEW b \in BOOLEAN, NEW n \in 0..e.qty, n <= db.pos[p].qty,
               PosAfter(db, e) = [db.pos EXCEPT ![p] =
                 [acct |-> e.acct, qty |-> db.pos[p].qty - n, open |-> b, born |-> db.pos[p].born]]
        PROVE  Ledger!Sold(e, p)
    <3>1. \A q \in PosIds :
            /\ db'.pos[q].qty = IF q = p THEN db.pos[p].qty - n ELSE db.pos[q].qty
            /\ db'.pos[q].acct = db.pos[q].acct
      BY <1>0, <1>1, <2>3
    <3>2. book' = [book EXCEPT ![p] = @ - n] /\ owner' = owner
      BY <3>1
    <3> QED
      BY <2>3, <3>2 DEF Ledger!Sold
  <2>4. ASSUME e.side = "SELL", PosAfter(db, e) = db.pos
        PROVE  Ledger!SoldNothing(e)
    BY <1>1, <2>4 DEF Ledger!SoldNothing
  <2> QED
    BY <2>1, <2>2, <2>3, <2>4 DEF Moved
<1> QED
  BY <1>2, <1>3, <1>4 DEF Ledger!Count

(* Threads, retries, commits in doubt and crashes included, every          *)
(* execution is counted at most once and moves one position of its account *)
(* by its quantity.                                                        *)
THEOREM CountedOnce == Spec => ImplementsLedger
<1>1. Init => Ledger!LedgerInit
  BY DEF Init, Ledger!LedgerInit, NoRow
<1>2. LedgerInv /\ [Next]_vars => [Ledger!LedgerNext]_Ledger!ledgerVars
  <2> SUFFICES ASSUME LedgerInv, [Next]_vars
               PROVE  [Ledger!LedgerNext]_Ledger!ledgerVars
    OBVIOUS
  <2>1. DbStep /\ DataInv(db)
    BY StepOfDb DEF LedgerInv
  <2>2. ASSUME NEW e \in Events, Fresh(db, e), db' = Applied(db, e)
        PROVE  Ledger!LedgerNext
    BY <2>1, <2>2, AppliedCounts DEF Ledger!LedgerNext
  <2>3. ASSUME db'.fills = db.fills, db'.pos = db.pos
        PROVE  UNCHANGED Ledger!ledgerVars
    BY <2>3 DEF Ledger!ledgerVars
  <2>4. ASSUME NEW o \in Orders, Marked(db, db', o)
        PROVE  db'.fills = db.fills /\ db'.pos = db.pos
    BY <2>1, <2>4, MarkedKeeps
  <2> QED
    BY <2>1, <2>2, <2>3, <2>4 DEF DbStep
<1> QED
  BY LedgerInvariant, <1>1, <1>2, PTL DEF Spec, ImplementsLedger, Ledger!LedgerSpec
=============================================================================
