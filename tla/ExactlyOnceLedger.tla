------------------------- MODULE ExactlyOnceLedger -------------------------
(***************************************************************************)
(* What execution/deadlock_transaction.py promises: every execution of the *)
(* broker is counted at most once, whoever reports it and however often,   *)
(* and it moves one position of its own account by its own quantity.       *)
(***************************************************************************)
EXTENDS Integers

CONSTANTS Events,       \* execution reports: [id, order, side, qty, acct, pos]
          PosIds,       \* position ids
          NoAccount     \* owner of a position that does not exist

VARIABLES
  counted,      \* ids of the executions counted so far
  book,         \* position -> shares
  owner         \* position -> account, NoAccount before it exists

ledgerVars == <<counted, book, owner>>

LedgerInit ==
  /\ counted = {}
  /\ book = [p \in PosIds |-> 0]
  /\ owner = [p \in PosIds |-> NoAccount]

Bought(e, p) == /\ e.side = "BUY"
                /\ owner[p] \in {NoAccount, e.acct}
                /\ book' = [book EXCEPT ![p] = @ + e.qty]
                /\ owner' = [owner EXCEPT ![p] = e.acct]

Sold(e, p) == /\ e.side = "SELL"
              /\ owner[p] = e.acct
              /\ \E n \in 0..e.qty : n <= book[p] /\ book' = [book EXCEPT ![p] = @ - n]
              /\ UNCHANGED owner

SoldNothing(e) == e.side = "SELL" /\ UNCHANGED <<book, owner>>

Count(e) ==
  /\ e.id \notin counted
  /\ counted' = counted \cup {e.id}
  /\ \/ \E p \in PosIds : Bought(e, p) \/ Sold(e, p)
     \/ SoldNothing(e)

LedgerNext == \E e \in Events : Count(e)

LedgerSpec == LedgerInit /\ [][LedgerNext]_ledgerVars
=============================================================================
