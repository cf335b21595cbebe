-------------------------- MODULE ExecutionLedger --------------------------
(***************************************************************************)
(* Execution reports written to SQLite (execution/deadlock_transaction.py):*)
(* threads (web socket, REST poller, recovery) apply reports, the same     *)
(* report possibly more than once, each in transactions that are retried   *)
(* when the database is locked.  One symbol.                               *)
(*                                                                         *)
(* BEGIN IMMEDIATE makes writers exclusive, so a transaction's reads and   *)
(* writes are computed at once (ApplyOnce) into tx and become the database *)
(* at its commit; without a transaction tx = db.  A commit that raises may *)
(* have taken effect.                                                      *)
(***************************************************************************)
EXTENDS Integers, FiniteSets

CONSTANTS Workers, Events, Orders, PosIds, Accounts, NoAccount,
          None,
          MaxRetries,       \* attempts per call
          MaxCalls,         \* bound of the instance: calls in a history
          MaxCrashes        \* bound of the instance

ASSUME LedgerAssumption ==
  /\ Events \subseteq [id : PosIds, order : Orders, side : {"BUY", "SELL"},
                       qty : Nat \ {0}, acct : Accounts, pos : PosIds \cup {None}]
  /\ None \notin PosIds \cup Workers \cup Events
  \* A fresh id, which carries the time, is not one that a purchase of the
  \* same account has named before.
  /\ \A e, f \in Events :
       e.pos = None /\ f.pos = e.id /\ f.side = "BUY" /\ f.acct = e.acct => f.id = e.id
  /\ NoAccount \notin Accounts /\ IsFiniteSet(PosIds)
  /\ MaxRetries \in Nat \ {0} /\ MaxCalls \in Nat /\ MaxCrashes \in Nat

VARIABLES
  db,           \* committed rows: [fills, orders, pos]
  tx,           \* the rows as the writer's transaction leaves them
  writer,       \* the worker whose transaction holds the write lock, or None
  call,         \* worker -> [ev, attempt, at, answer]
  calls, crashes

vars == <<db, tx, writer, call, calls, crashes>>

NoRow == [acct |-> NoAccount, qty |-> 0, open |-> FALSE, born |-> 0]
OrderStatuses == {"ABSENT", "OPEN", "FILLED", "RECONCILIATION_REQUIRED"}
Rows  == [fills : SUBSET Events, orders : [Orders -> OrderStatuses],
          pos : [PosIds -> [acct : Accounts \cup {NoAccount}, qty : Nat,
                            open : BOOLEAN, born : Nat]]]
Steps == {"idle", "begin", "in", "ready", "exhausted"}
Answers == {"none", "SUCCESS", "DUPLICATE", "FAILED", "RECONCILIATION_REQUIRED"}

NoCall == [ev |-> None, attempt |-> 0, at |-> "idle", answer |-> "none"]

-----------------------------------------------------------------------------
(* _apply_execution_update_once, as a function of the rows.                *)

(* The idempotency check looks for the id within the account.              *)
Counted(d, e) == \E f \in d.fills : f.id = e.id /\ f.acct = e.acct

OpenRows(d, e) == {p \in PosIds : d.pos[p].open /\ d.pos[p].acct = e.acct}
OldestOpen(d, e) ==
  CHOOSE p \in OpenRows(d, e) : \A q \in OpenRows(d, e) : d.pos[p].born <= d.pos[q].born

(* By position id, otherwise the oldest open position; None: there is none. *)
PosRow(d, e) == IF e.pos # None /\ d.pos[e.pos].acct = e.acct THEN e.pos
                ELSE IF OpenRows(d, e) # {} THEN OldestOpen(d, e)
                ELSE None

(* The id of a new position: the report's own, or a fresh one, named after *)
(* the execution that creates it.                                          *)
NewPos(e) == IF e.pos # None THEN e.pos ELSE e.id
Age(d) == Cardinality({p \in PosIds : d.pos[p].born > 0}) + 1

(* Mutant of Taken: the report's quantity is subtracted whole.             *)
TakenWhole(q, n) == n
Taken(q, n) == IF q < n THEN q ELSE n

PosAfter(d, e) ==
  LET p == PosRow(d, e) IN
  IF e.side = "BUY"
    THEN IF p # None
           THEN [d.pos EXCEPT ![p].qty = @ + e.qty, ![p].open = TRUE]
           ELSE [d.pos EXCEPT ![NewPos(e)] =
                   [acct |-> e.acct, qty |-> e.qty, open |-> TRUE, born |-> Age(d)]]
    ELSE IF p # None
           THEN [d.pos EXCEPT ![p].qty = @ - Taken(@, e.qty),
                                    ![p].open = d.pos[p].qty > e.qty]
           ELSE d.pos

(* Keys that another account already holds make an INSERT fail: of the     *)
(* execution, of its order, of the position it opens.                      *)
OrderOfOther(d, e) == \E f \in d.fills : f.order = e.order /\ f.acct # e.acct
KeyTaken(d, e) ==
  \/ \E f \in d.fills : f.id = e.id
  \/ OrderOfOther(d, e)
  \/ e.side = "BUY" /\ PosRow(d, e) = None /\ d.pos[NewPos(e)].acct # NoAccount

(* Mutant of Applied: the fill row is written without the order's.         *)
AppliedNoOrder(d, e) ==
  [fills |-> d.fills \cup {e}, orders |-> d.orders, pos |-> PosAfter(d, e)]
(* Mutant of Applied: the fill row is not written.                         *)
AppliedNoFill(d, e) ==
  [fills |-> d.fills, orders |-> [d.orders EXCEPT ![e.order] = "FILLED"], pos |-> PosAfter(d, e)]

Applied(d, e) ==
  [fills |-> d.fills \cup {e},
   orders |-> [d.orders EXCEPT ![e.order] = "FILLED"],
   pos |-> PosAfter(d, e)]

-----------------------------------------------------------------------------
(* apply_execution_update: the retry loop outside the transaction.         *)

Answer(w, a) == call' = [call EXCEPT ![w].at = "idle", ![w].answer = a]

(* Mutant of RetryOrExhaust: attempts are not counted.                     *)
RetryForEver(w) == call' = [call EXCEPT ![w].at = "begin"]

(* rollback and the next attempt, or the fall-back when none is left.      *)
RetryOrExhaust(w) ==
  IF call[w].attempt < MaxRetries - 1
    THEN call' = [call EXCEPT ![w].attempt = @ + 1, ![w].at = "begin"]
    ELSE call' = [call EXCEPT ![w].at = "exhausted"]

Release == writer' = None /\ tx' = db'

Deliver(w, e) ==
  /\ call[w].at = "idle" /\ calls < MaxCalls
  /\ call' = [call EXCEPT ![w] = [ev |-> e, attempt |-> 0, at |-> "begin", answer |-> "none"]]
  /\ calls' = calls + 1
  /\ UNCHANGED <<db, tx, writer, crashes>>

BeginImmediate(w) ==
  /\ call[w].at = "begin" /\ writer = None
  /\ writer' = w
  /\ call' = [call EXCEPT ![w].at = "in"]
  /\ UNCHANGED <<db, tx, calls, crashes>>

(* Another thread or another process holds the lock beyond busy_timeout.   *)
LockTimeout(w) ==
  /\ call[w].at = "begin"
  /\ RetryOrExhaust(w)
  /\ UNCHANGED <<db, tx, writer, calls, crashes>>

ApplyOnce(w) ==
  LET e == call[w].ev IN
  /\ call[w].at = "in"
  /\ UNCHANGED <<db, calls, crashes>>
  /\ \/ /\ Counted(db, e)                       \* nothing to write
        /\ call' = [call EXCEPT ![w].at = "ready"]
        /\ UNCHANGED <<tx, writer>>
     \/ /\ ~Counted(db, e) /\ KeyTaken(db, e)   \* IntegrityError, rolled back
        /\ Answer(w, "DUPLICATE")
        /\ Release
     \/ /\ ~Counted(db, e) /\ ~KeyTaken(db, e)
        /\ tx' = Applied(db, e)
        /\ call' = [call EXCEPT ![w].at = "ready"]
        /\ UNCHANGED writer

Commit(w) ==
  /\ call[w].at = "ready"
  /\ db' = tx
  /\ Answer(w, IF tx = db THEN "DUPLICATE" ELSE "SUCCESS")
  /\ Release
  /\ UNCHANGED <<calls, crashes>>

(* Mutant of LockError: the position row was written outside the           *)
(* transaction and is not rolled back.                                     *)
LockErrorKeepsPosition(w) ==
  /\ call[w].at \in {"in", "ready"}
  /\ db' \in {db, tx, [db EXCEPT !.pos = tx.pos]}
  /\ RetryOrExhaust(w) /\ Release
  /\ UNCHANGED <<calls, crashes>>

(* A lock or disk I/O error inside the transaction; at the commit it may   *)
(* come after the rows were written.                                       *)
LockError(w) ==
  /\ call[w].at \in {"in", "ready"}
  /\ db' \in {db, tx}
  /\ RetryOrExhaust(w) /\ Release
  /\ UNCHANGED <<calls, crashes>>

(* Any other error (a full disk): rolled back, no retry.                   *)
OtherError(w) ==
  /\ call[w].at \in {"in", "ready"}
  /\ UNCHANGED <<db, calls, crashes>>
  /\ Answer(w, "FAILED") /\ Release

(* _handle_retry_exhausted: marks the account's order row if there is one, *)
(* or fails to.                                                            *)
MarkReconciliation(w) ==
  /\ call[w].at = "exhausted"
  /\ \/ /\ writer = None
        /\ db' = [db EXCEPT !.orders[call[w].ev.order] =
                    IF @ = "ABSENT" \/ OrderOfOther(db, call[w].ev) THEN @
                    ELSE "RECONCILIATION_REQUIRED"]
        /\ tx' = db'
     \/ UNCHANGED <<db, tx>>
  /\ Answer(w, "RECONCILIATION_REQUIRED")
  /\ UNCHANGED <<writer, calls, crashes>>

(* The process dies: what was not committed is gone.                       *)
Crash ==
  /\ crashes < MaxCrashes
  /\ crashes' = crashes + 1
  /\ call' = [w \in Workers |-> NoCall]
  /\ UNCHANGED <<db, calls>>
  /\ Release

(* Orders may or may not have been registered before their first report,   *)
(* those whose key two accounts use excepted: their row is the one of the  *)
(* account that reports first.                                             *)
OneAccounts == {o \in Orders : \A e, f \in Events : e.order = o /\ f.order = o => e.acct = f.acct}
Init ==
  /\ \E registered \in SUBSET OneAccounts :
       db = [fills |-> {}, pos |-> [p \in PosIds |-> NoRow],
             orders |-> [o \in Orders |-> IF o \in registered THEN "OPEN" ELSE "ABSENT"]]
  /\ tx = db
  /\ writer = None
  /\ call = [w \in Workers |-> NoCall]
  /\ calls = 0 /\ crashes = 0

Work(w) == \/ BeginImmediate(w) \/ LockTimeout(w) \/ ApplyOnce(w) \/ Commit(w)
           \/ LockError(w) \/ OtherError(w) \/ MarkReconciliation(w)

Next == \/ \E w \in Workers : Work(w) \/ \E e \in Events : Deliver(w, e)
        \/ Crash

Spec == Init /\ [][Next]_vars
FairSpec == Spec /\ \A w \in Workers : WF_vars(Work(w))

-----------------------------------------------------------------------------
TypeOK ==
  /\ db \in Rows /\ tx \in Rows
  /\ writer \in Workers \cup {None}
  /\ call \in [Workers -> [ev : Events \cup {None}, attempt : 0..(MaxRetries - 1),
                           at : Steps, answer : Answers]]
  /\ calls \in 0..MaxCalls /\ crashes \in 0..MaxCrashes

(* A lost or doubled execution: the tables implement the ledger that counts *)
(* every execution once (apply_execution_update's guarantees).             *)
Ledger == INSTANCE ExactlyOnceLedger WITH
            counted <- {f.id : f \in db.fills},
            book    <- [p \in PosIds |-> db.pos[p].qty],
            owner   <- [p \in PosIds |-> db.pos[p].acct]
ImplementsLedger == Ledger!LedgerSpec

(* The row of the order, or the one a purchase would open, has the key of  *)
(* another account's, which is_duplicate_error takes for a duplicate of    *)
(* the execution.                                                          *)
KeyHeldElsewhere(e) ==
  \/ OrderOfOther(db, e)
  \/ e.side = "BUY" /\ db.pos[NewPos(e)].acct \notin {NoAccount, e.acct}

(* What the caller is told is true: an execution reported as written or as *)
(* a duplicate is in the table, unless the key of its row was taken.       *)
AnswerIsTrue ==
  \A w \in Workers :
    \/ call[w].answer \notin {"SUCCESS", "DUPLICATE"}
    \/ \E f \in db.fills : f.id = call[w].ev.id
    \/ call[w].answer = "DUPLICATE" /\ KeyHeldElsewhere(call[w].ev)

(* The three tables move together: an order is filled only by a counted    *)
(* execution, and a counted execution has its order.                       *)
TablesAgree ==
  /\ \A o \in Orders : db.orders[o] = "FILLED" => \E f \in db.fills : f.order = o
  /\ \A f \in db.fills : db.orders[f.order] \in {"FILLED", "RECONCILIATION_REQUIRED"}

(* Every call returns, whatever locks and errors it meets.                 *)
CallsReturn == \A w \in Workers : call[w].at # "idle" ~> call[w].at = "idle"
=============================================================================
