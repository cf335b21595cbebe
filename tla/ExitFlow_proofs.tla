-------------------------- MODULE ExitFlow_proofs --------------------------
(***************************************************************************)
(* The composition of positions, exits, entries and reconciliation with    *)
(* the router implements the router's own specification, so what is proved *)
(* of OrderRouter holds while the position manager drives it; and what a   *)
(* position claims is covered by what was bought and not yet reported sold.*)
(***************************************************************************)
EXTENDS ExitFlow, OrderRouter_proofs

(* A cancellation or timeout names its order through a position; that      *)
(* order is one of the router's.                                           *)
LEMMA CancelByActive ==
  ASSUME RouterInv, NEW o, CancelOrder(o)
  PROVE  Next
<1>1. o \in Orders
  BY DEF CancelOrder, RouterInv, TypeOK
<1> QED
  BY <1>1 DEF Next

(* Every step of the composition is a step of the router or leaves it and  *)
(* its broker alone.                                                       *)
LEMMA ExitStep ==
  ASSUME RouterInv, [ExitNext]_allVars
  PROVE  [Next]_vars
<1>1. ASSUME NEW s \in Symbols, NEW o \in Orders, NEW n \in 1..MaxQty,
             SubmitSell(o, s, n, None)
      PROVE  Next
  BY <1>1 DEF Next, Submit
<1>2. ASSUME NEW s \in Symbols, NEW o \in Orders, NEW n \in 1..MaxEntry, NEW h \in Horizons,
             Enter(s, o, n, h)
      PROVE  Next
  <2>1. n \in 1..MaxQty
    BY ExitAssumption, RouterAssumption
  <2> QED
    BY <1>2, <2>1 DEF Enter, Next, Submit
<1>3. ASSUME NEW s \in Symbols, NEW o \in Orders, PartialExit(s, o)
      PROVE  Next
  <2>1. PartialQty(s) \in 1..MaxQty /\ SubmitSell(o, s, PartialQty(s), None)
    BY <1>3 DEF PartialExit
  <2> QED
    BY <1>1, <2>1
<1>4. ASSUME NEW s \in Symbols, PartialExitSkipped(s) \/ PartialExitRefused(s)
      PROVE  UNCHANGED vars
  BY <1>4 DEF PartialExitSkipped, PartialExitRefused
<1>5. ASSUME NEW s \in Symbols, OverrideExit(s) \/ ExitTimeout(s)
      PROVE  Next
  BY <1>5, CancelByActive DEF OverrideExit, ExitTimeout
<1>6. ASSUME NEW s \in Symbols, ClosePosition(s)
      PROVE  Next \/ UNCHANGED vars
  <2>1. CASE CloseNothing(s) \/ CloseRefused(s)
    BY <2>1 DEF CloseNothing, CloseRefused
  <2>2. ASSUME NEW o \in Orders, CloseSubmit(s, o)
        PROVE  Next
    <3>1. CloseQty(pos[s]) \in 1..MaxQty /\ SubmitSell(o, s, CloseQty(pos[s]), None)
      BY <2>2 DEF CloseSubmit
    <3> QED
      BY <1>1, <3>1
  <2> QED
    BY <1>6, <2>1, <2>2 DEF ClosePosition
<1>7. ASSUME NEW s \in Symbols, Adopt(s) \/ CloseMissing(s) \/ CorrectQty(s)
      PROVE  UNCHANGED vars
  BY <1>7 DEF Adopt, CloseMissing, CorrectQty
<1>8. ASSUME TimeoutResubmit
      PROVE  Next \/ UNCHANGED vars
  BY <1>1, <1>8 DEF TimeoutResubmit, ResubmitRefused, Resubmit
<1>9. ASSUME NEW o \in Orders, LingeringTimeout(o)
      PROVE  Next \/ UNCHANGED vars
  BY <1>9, CancelByActive DEF LingeringTimeout
<1>10. ASSUME NEW o \in Orders, ExitReconcile(o)
       PROVE  Next
  <2>1. Reconcile(o)
    BY <1>10 DEF ExitReconcile, ExitReconcileFill, ExitReconcileCanceled,
                 ExitReconcileByHoldings, Reconcile
  <2> QED
    BY <2>1 DEF Next
<1>11. ASSUME ExitRespond
       PROVE  Next
  <2>1. Respond
    BY <1>11 DEF ExitRespond, ExitAnswered, ExitSendFailed, Respond
  <2> QED
    BY <2>1 DEF Next
<1>12. CASE SyncCash \/ (\E s \in Symbols : CooldownExpires(s)) \/ Retry \/ Broker \/ ExitRestart
  BY <1>12 DEF ExitRestart, Next
<1>13. CASE UNCHANGED allVars
  BY <1>13 DEF allVars
<1> QED
  BY <1>2, <1>3, <1>4, <1>5, <1>6, <1>7, <1>8, <1>9, <1>10, <1>11, <1>12, <1>13 DEF ExitNext

(* The position manager, the entry path and the periodic reconciliation    *)
(* use the router only through its operations: ExitFlow implements the     *)
(* router's specification.                                                 *)
THEOREM ExitImplementsRouter == ExitSpec => ImplementsRouter
<1>1. ExitInit => Init /\ RouterInv
  BY RouterInit DEF ExitInit
<1>2. RouterInv /\ [ExitNext]_allVars => RouterInv'
  BY ExitStep, RouterStep
<1>3. RouterInv /\ [ExitNext]_allVars => [Next]_vars
  BY ExitStep
<1> QED
  BY <1>1, <1>2, <1>3, PTL DEF ExitSpec, ImplementsRouter, Spec

(* While positions are entered and exited, the cost of an unfilled BUY     *)
(* stays reserved, a CANCELED order is dead at the broker and a terminal   *)
(* status is final: the router's guarantees hold of the whole.             *)
THEOREM ExitKeepsGuarantees ==
  ExitSpec => []UnfilledBuyIsReserved /\ []CanceledMeansDead /\ TerminalIsFinal
BY ExitImplementsRouter, ReservedInFull, CanceledDead, TerminalFinal, PTL DEF ImplementsRouter

-----------------------------------------------------------------------------
(* What a position may claim.                                              *)

Positions == [open : BOOLEAN, qty : Nat, pending : Nat, active : Orders \cup {None},
              psbl : Nat, fails : 0..2, taken : 0..Targets]

(* The shares of a symbol bought at the broker, less those whose sale the  *)
(* router has been told of.                                                *)
ReportedTerms(s) == [o \in Orders |-> IF Matches(o, s, "SELL") THEN filled[o] ELSE 0]
Reported(s) == SumFunctionOnSet(ReportedTerms(s), Orders)
Claim(s) == Executed(s, "BUY") - Reported(s)

(* A position within n shares; a closed one claims none.                   *)
Held(p, n) == p \in Positions /\ p.qty <= n /\ (~p.open => p.qty = 0)

(* No more of a SELL is booked than was executed.                          *)
SellReported == \A o \in Orders : IsSell(o) => filled[o] <= exec[o]

(* The request under way is the call's, what an entry has bought so far is *)
(* still unclaimed, and an exit has its position.                          *)
CallInv ==
  calling # None =>
    /\ call.kind \in {"entry", "partial", "close", "resubmit", "resubmit_closed"}
    /\ ord[calling].sym = call.sym /\ ord[calling].qty = call.qty
    /\ call.kind = "entry" <=> ord[calling].side = "BUY"
    /\ call.kind = "entry" => \A s \in Symbols : call.sym = s => exec[calling] <= Claim(s)
    /\ call.kind \in {"partial", "close"} => pos[call.sym].open

CallTypeOK == call \in [kind : Kinds, sym : Symbols, qty : 0..MaxQty] \cup {NoCall}

PosInv == pos \in [Symbols -> Positions] /\ \A s \in Symbols : Held(pos[s], Claim(s))

(* The inductive invariant of the composition, beside the router's.        *)
FlowInv ==
  /\ PosInv
  /\ CallTypeOK
  /\ lingering \in SUBSET Orders
  /\ SellReported
  /\ CallInv

LEMMA ReportedTypes ==
  ASSUME RouterInv, NEW s
  PROVE  /\ \A o \in Orders : ReportedTerms(s)[o] \in Nat
         /\ Reported(s) \in Nat /\ Claim(s) \in Int
<1>1. \A o \in Orders : ReportedTerms(s)[o] \in Nat
  BY RouterAssumption DEF ReportedTerms, RouterInv, TypeOK
<1>2. Reported(s) \in Nat
  BY <1>1, FiniteOrders, SumNatural DEF Reported
<1>3. Executed(s, "BUY") \in Nat
  BY Totals
<1> QED
  BY <1>1, <1>2, <1>3 DEF Claim

ClaimTyped ==
  \A s : /\ \A o \in Orders : ReportedTerms(s)[o] \in Nat
         /\ Reported(s) \in Nat /\ Claim(s) \in Int

LEMMA ClaimTypedNow == RouterInv => ClaimTyped
BY ReportedTypes DEF ClaimTyped

LEMMA ClaimTypedNext == RouterInv' => ClaimTyped'
BY ClaimTypedNow, PTL

(* The account holds no more than the positions may claim: what is missing *)
(* are sales the router has not been told of.                              *)
LEMMA ClaimCoversHoldings ==
  ASSUME RouterInv, SellReported, SalesBacked, NEW s \in Symbols
  PROVE  Holdings(s) \in Nat /\ Holdings(s) <= Claim(s) /\ Claim(s) \in Nat
<1>1. \A o \in Orders : /\ ReportedTerms(s)[o] \in Int /\ ExecTerms(s, "SELL")[o] \in Int
                        /\ ReportedTerms(s)[o] <= ExecTerms(s, "SELL")[o]
  <2> TAKE o \in Orders
  <2>1. /\ ReportedTerms(s)[o] = IF Matches(o, s, "SELL") THEN filled[o] ELSE 0
        /\ ExecTerms(s, "SELL")[o] = IF Matches(o, s, "SELL") THEN exec[o] ELSE 0
    BY DEF ReportedTerms, ExecTerms
  <2>2. Matches(o, s, "SELL") => filled[o] <= exec[o]
    BY DEF Matches, SellReported, IsSell
  <2>3. filled[o] \in Int /\ exec[o] \in Int
    BY DEF RouterInv, TypeOK
  <2> QED
    BY <2>1, <2>2, <2>3
<1>2. Reported(s) <= ExecSum(s, "SELL")
  <2>1. IsFiniteSet(Orders)
    BY FiniteOrders
  <2>2. SumFunctionOnSet(ReportedTerms(s), Orders) <= SumFunctionOnSet(ExecTerms(s, "SELL"), Orders)
    BY <1>1, <2>1, SumMonotone
  <2> QED
    BY <2>2 DEF Reported, ExecSum
<1>3. /\ ExecSum(s, "SELL") \in Nat /\ LostSum(s, "SELL") \in Nat
      /\ Executed(s, "SELL") = ExecSum(s, "SELL") + LostSum(s, "SELL")
      /\ Executed(s, "BUY") \in Nat
  BY Totals
<1>4. Holdings(s) \in Nat
  BY BackedMeans DEF SalesBacked
<1>5. Reported(s) \in Nat
  BY ReportedTypes
<1> QED
  BY <1>2, <1>3, <1>4, <1>5 DEF Holdings, Claim

(* The claim in the words of the property.                                 *)
LEMMA ClaimMeans ==
  ASSUME RouterInv, NEW s
  PROVE  Claim(s) = Holdings(s)
           + SumFunctionOnSet([o \in Orders |-> exec[o] - filled[o]],
                              {o \in Orders : Matches(o, s, "SELL")})
           + SumFunctionOnSet([a \in DOMAIN lost |-> lost[a].exec], LostAt(s, "SELL"))
<1> DEFINE T == {o \in Orders : Matches(o, s, "SELL")}
           gap == [o \in Orders |-> exec[o] - filled[o]]
           gaps == [o \in Orders |-> IF Matches(o, s, "SELL") THEN exec[o] - filled[o] ELSE 0]
<1>1. /\ \A o \in Orders : exec[o] \in Int /\ filled[o] \in Int
      /\ IsFiniteSet(Orders)
  BY FiniteOrders DEF RouterInv, TypeOK
<1>2. \A o \in Orders : /\ ExecTerms(s, "SELL")[o] \in Int /\ ReportedTerms(s)[o] \in Int
                        /\ gaps[o] = ExecTerms(s, "SELL")[o] - ReportedTerms(s)[o]
                        /\ gaps[o] \in Int
  <2> TAKE o \in Orders
  <2>1. /\ ReportedTerms(s)[o] = IF Matches(o, s, "SELL") THEN filled[o] ELSE 0
        /\ ExecTerms(s, "SELL")[o] = IF Matches(o, s, "SELL") THEN exec[o] ELSE 0
        /\ gaps[o] = IF Matches(o, s, "SELL") THEN exec[o] - filled[o] ELSE 0
    BY DEF ReportedTerms, ExecTerms
  <2> QED
    BY <1>1, <2>1
<1>3. /\ T \in SUBSET Orders /\ \A o \in T : gaps[o] = gap[o]
      /\ \A o \in Orders \ T : gaps[o] = 0
  OBVIOUS
<1> HIDE DEF T, gap, gaps
<1>4. SumFunctionOnSet(gaps, Orders)
        = SumFunctionOnSet(ExecTerms(s, "SELL"), Orders) - SumFunctionOnSet(ReportedTerms(s), Orders)
  BY <1>1, <1>2, SumMinus
<1>5. SumFunctionOnSet(gaps, Orders) = SumFunctionOnSet(gap, T)
  BY <1>1, <1>2, <1>3, SumSubset
<1>6. SumFunctionOnSet(gap, T) = ExecSum(s, "SELL") - Reported(s)
  BY <1>4, <1>5 DEF ExecSum, Reported
<1>7. /\ ExecSum(s, "SELL") \in Nat /\ LostSum(s, "SELL") \in Nat
      /\ Executed(s, "SELL") = ExecSum(s, "SELL") + LostSum(s, "SELL")
      /\ Executed(s, "BUY") \in Nat /\ Reported(s) \in Nat
  BY Totals, ReportedTypes
<1>8. Claim(s) = Holdings(s) + SumFunctionOnSet(gap, T) + LostSum(s, "SELL")
  BY <1>6, <1>7 DEF Claim, Holdings
<1>9. LostSum(s, "SELL")
        = SumFunctionOnSet([a \in DOMAIN lost |-> lost[a].exec], LostAt(s, "SELL"))
  BY LostTotal
<1> QED
  BY <1>8, <1>9, Zenon DEF gap, T

-----------------------------------------------------------------------------
(* What the operations of a position make of its claim.                    *)

LEMMA MonusBound ==
  ASSUME NEW m \in Nat, NEW n \in Int
  PROVE  Monus(m, n) \in Nat /\ (n >= 0 => Monus(m, n) <= m)
BY DEF Monus

LEMMA FailsRange == 0 \in 0..2 /\ 0 \in 0..Targets
BY ExitAssumption

LEMMA HeldNothing ==
  ASSUME NEW n \in Nat
  PROVE  Held(NoPosition, n)
BY FailsRange DEF Held, Positions, NoPosition

LEMMA HeldMore ==
  ASSUME NEW p, NEW m \in Int, NEW n \in Int, Held(p, m), m <= n
  PROVE  Held(p, n)
BY DEF Held, Positions

LEMMA OpenedFields ==
  ASSUME NEW n \in Nat
  PROVE  Opened(n) \in Positions /\ Opened(n).qty = n /\ Opened(n).open
<1>1. NoPosition \in Positions
  BY FailsRange DEF Positions, NoPosition
<1> HIDE DEF NoPosition
<1> QED
  BY <1>1 DEF Opened, Positions

LEMMA HeldOpened ==
  ASSUME NEW n \in Nat, NEW m \in Int, n <= m
  PROVE  Held(Opened(n), m)
BY OpenedFields DEF Held

(* k shares of a sale are taken off.                                       *)
LEMMA HeldAfterFill ==
  ASSUME NEW p, NEW m \in Int, Held(p, m), NEW k \in Nat, NEW full,
         NEW n \in Nat, m - k <= n
  PROVE  Held(AfterFill(p, k, full), n)
<1>1. CASE ~p.open
  BY <1>1 DEF AfterFill, Held, Positions
<1>2. CASE p.open /\ p.qty <= k
  BY <1>2, HeldNothing DEF AfterFill
<1>3. CASE p.open /\ ~(p.qty <= k)
  <2> DEFINE q == [p EXCEPT !.qty = @ - k, !.pending = Monus(@, k),
                            !.active = IF full THEN None ELSE @]
  <2>1. AfterFill(p, k, full) = q
    BY <1>3 DEF AfterFill
  <2>2. p \in Positions /\ p.qty \in Nat /\ p.pending \in Nat /\ p.qty <= m
    BY DEF Held, Positions
  <2> DEFINE a == p.qty - k
             b == Monus(p.pending, k)
             c == IF full THEN None ELSE p.active
  <2>3. a \in Nat /\ a <= n
    BY <1>3, <2>2
  <2>4. b \in Nat /\ c \in Orders \cup {None}
    <3>1. b \in Nat
      BY <2>2 DEF Monus
    <3>2. p.active \in Orders \cup {None}
      BY <2>2 DEF Positions
    <3> QED
      BY <3>1, <3>2
  <2> HIDE DEF a, b, c
  <2>5. q = [p EXCEPT !.qty = a, !.pending = b, !.active = c]
    BY DEF a, b, c
  <2> HIDE DEF q
  <2>6. q \in Positions /\ q.qty = a /\ q.open = p.open
    BY <2>2, <2>3, <2>4, <2>5 DEF Positions
  <2> QED
    BY <1>3, <2>1, <2>3, <2>6 DEF Held
<1> QED
  BY <1>1, <1>2, <1>3

(* Changes that leave the quantity of a position alone.                    *)
LEMMA HeldWithPending ==
  ASSUME NEW p, NEW n \in Int, Held(p, n), NEW x \in Nat, NEW o \in Orders \cup {None}
  PROVE  /\ Held([p EXCEPT !.pending = x], n)
         /\ Held([p EXCEPT !.active = o], n)
         /\ Held([p EXCEPT !.active = o, !.pending = x], n)
         /\ Held([p EXCEPT !.pending = x, !.active = o], n)
BY DEF Held, Positions

LEMMA HeldAfterCancel ==
  ASSUME NEW p, NEW n \in Int, Held(p, n), NEW o, ReleasedQty(o) \in Int
  PROVE  Held(AfterCancel(p, o), n)
<1>1. p.pending \in Nat
  BY DEF Held, Positions
<1>2. Monus(p.pending, ReleasedQty(o)) \in Nat
  BY <1>1, MonusBound
<1> QED
  BY <1>2, HeldWithPending DEF AfterCancel

LEMMA HeldTaken ==
  ASSUME NEW p, NEW n \in Int, Held(p, n), p.taken < Targets
  PROVE  Held(Take(p), n) /\ Take(p).open = p.open
<1>1. p.taken + 1 \in 0..Targets
  BY ExitAssumption DEF Held, Positions
<1> QED
  BY <1>1 DEF Held, Positions, Take

LEMMA HeldQty ==
  ASSUME NEW p, NEW n \in Int, Held(p, n), p.open, NEW m \in Nat, m <= n
  PROVE  Held([p EXCEPT !.qty = m], n)
BY DEF Held, Positions

LEMMA HeldRefreshed ==
  ASSUME NEW p, NEW n \in Nat, Held(p, n), p.open, NEW s, Holdings(s) \in Nat,
         Holdings(s) <= n, NEW q \in Refreshed(p, s)
  PROVE  Held(q, n)
<1>1. q = p \/ q = NoPosition \/ q = [p EXCEPT !.qty = Holdings(s)]
  BY DEF Refreshed
<1> QED
  BY <1>1, HeldNothing, HeldQty

LEMMA HeldFailed ==
  ASSUME NEW p, NEW n \in Nat, Held(p, n), p.open, NEW s, Holdings(s) \in Nat,
         Holdings(s) <= n, NEW q \in Failed(p, s)
  PROVE  Held(q, n)
<1> DEFINE f == [p EXCEPT !.fails = @ + 1]
<1>1. PICK r \in Refreshed(f, s) : q = IF r.fails >= 3 THEN NoPosition ELSE r
  BY DEF Failed
<1>2. p \in Positions /\ p.fails \in 0..2
  BY DEF Held, Positions
<1>3. CASE p.fails = 2
  <2>1. f.fails = 3
    BY <1>2, <1>3 DEF Positions
  <2>2. r = f \/ r = NoPosition \/ r = [f EXCEPT !.qty = Holdings(s)]
    BY <1>1 DEF Refreshed
  <2>3. r.fails = 3 \/ r = NoPosition
    BY <1>2, <2>1, <2>2 DEF Positions
  <2>4. q = NoPosition
    BY <1>1, <2>3
  <2> QED
    BY <2>4, HeldNothing
<1>4. CASE p.fails # 2
  <2>1. p.fails + 1 \in 0..2
    BY <1>2, <1>4
  <2>2. Held(f, n) /\ f.open
    BY <1>2, <2>1 DEF Held, Positions
  <2> HIDE DEF f
  <2>3. Held(r, n)
    BY <1>1, <2>2, HeldRefreshed
  <2> QED
    BY <1>1, <2>3, HeldNothing
<1> QED
  BY <1>3, <1>4

LEMMA HeldAdopted ==
  ASSUME RouterInv, SalesBacked, NEW s \in Symbols, NEW known \in BOOLEAN,
         NEW n \in Int, Holdings(s) \in Nat, Holdings(s) <= n
  PROVE  Held(Adopted(s, known), n)
<1> DEFINE psbl == IF known THEN Sellable(s) ELSE 0
           pending == IF known THEN UnfilledSell(s) ELSE 0
           active == IF known /\ UnfilledSell(s) > 0 /\ PendingSame(s, "SELL") # {}
                       THEN CHOOSE o \in PendingSame(s, "SELL") : TRUE ELSE None
<1>1. psbl \in Nat /\ pending \in Nat
  BY BackedMeans DEF SalesBacked
<1>2. active \in Orders \cup {None}
  BY DEF PendingSame, RouterInv, TypeOK
<1> HIDE DEF psbl, pending, active
<1>3. Adopted(s, known) = [Opened(Holdings(s)) EXCEPT !.psbl = psbl, !.pending = pending,
                                                      !.active = active]
  BY DEF Adopted, psbl, pending, active
<1>4. Opened(Holdings(s)) \in Positions /\ Opened(Holdings(s)).qty = Holdings(s)
      /\ Opened(Holdings(s)).open
  BY OpenedFields
<1>5. /\ Adopted(s, known) \in Positions
      /\ Adopted(s, known).qty = Opened(Holdings(s)).qty
      /\ Adopted(s, known).open = Opened(Holdings(s)).open
  <2> DEFINE P == Opened(Holdings(s))
  <2>1. P \in Positions
    BY <1>4
  <2> HIDE DEF P
  <2>2. LET q == [P EXCEPT !.psbl = psbl, !.pending = pending, !.active = active]
        IN  q \in Positions /\ q.qty = P.qty /\ q.open = P.open
    BY <1>1, <1>2, <2>1 DEF Positions
  <2> QED
    BY <1>3, <2>2, Zenon DEF P
<1> QED
  BY <1>4, <1>5 DEF Held

-----------------------------------------------------------------------------
(* What a step of the router makes of the claims.                          *)

LEMMA ReportedTerm ==
  ASSUME NEW s, NEW o \in Orders
  PROVE  /\ ReportedTerms(s)[o]
              = IF ord[o].sym = s /\ ord[o].side = "SELL" THEN filled[o] ELSE 0
         /\ ReportedTerms(s)'[o]
              = IF ord'[o].sym = s /\ ord'[o].side = "SELL" THEN filled'[o] ELSE 0
BY DEF ReportedTerms, Matches

LEMMA ReportedKept ==
  ASSUME RouterInv, RouterInv', NEW s,
         \A o \in Orders : ReportedTerms(s)'[o] = ReportedTerms(s)[o]
  PROVE  Reported(s)' = Reported(s)
<1>1. \A f, g : (\A o \in Orders : f[o] \in Int /\ f[o] = g[o])
                  => SumFunctionOnSet(f, Orders) = SumFunctionOnSet(g, Orders)
  BY FiniteOrders, SumEqual
<1>2. \A o \in Orders : ReportedTerms(s)[o] \in Int
  BY ReportedTypes
<1> QED
  BY <1>1, <1>2 DEF Reported

LEMMA ReportedMoves ==
  ASSUME RouterInv, RouterInv', NEW s, NEW o \in Orders,
         \A p \in Orders \ {o} : ReportedTerms(s)'[p] = ReportedTerms(s)[p]
  PROVE  Reported(s)' = Reported(s) + ReportedTerms(s)'[o] - ReportedTerms(s)[o]
<1>1. \A f, g : (/\ \A p \in Orders : f[p] \in Int /\ g[p] \in Int
                 /\ \A p \in Orders \ {o} : f[p] = g[p])
                  => SumFunctionOnSet(g, Orders) = SumFunctionOnSet(f, Orders) + g[o] - f[o]
  <2>1. IsFiniteSet(Orders)
    BY FiniteOrders
  <2> QED
    BY <2>1, SumChange
<1>2. \A p \in Orders : ReportedTerms(s)[p] \in Int
  BY ReportedTypes
<1>3. \A p \in Orders : ReportedTerms(s)'[p] \in Int
  BY ClaimTypedNext DEF ClaimTyped
<1> QED
  BY <1>1, <1>2, <1>3 DEF Reported

(* What was bought is never taken back.                                    *)
LEMMA BoughtGrows ==
  ASSUME RouterInv, [Next]_vars, NEW s
  PROVE  /\ Executed(s, "BUY") \in Nat /\ Executed(s, "BUY")' \in Nat
         /\ Executed(s, "BUY")' >= Executed(s, "BUY")
<1>1. Executed(s, "BUY") \in Nat
  BY Totals
<1>2. Settled(s, "BUY") \/ Fills(s, "BUY") \/ Takes(calling, s, "BUY")
  BY TotalsStep
<1> QED
  BY <1>1, <1>2 DEF Settled, Fills, Takes

(* A step that tells the router of no execution leaves the claims, or lets *)
(* them grow.                                                              *)
LEMMA QuietClaim ==
  ASSUME RouterInv, [Next]_vars, filled' = filled, NEW s
  PROVE  /\ Claim(s) \in Int /\ Claim(s)' \in Int /\ Claim(s)' >= Claim(s)
         /\ Claim(s)' - Claim(s) = Executed(s, "BUY")' - Executed(s, "BUY")
<1>0. RouterInv'
  BY RouterStep
<1>1. \A o \in Orders : ReportedTerms(s)'[o] = ReportedTerms(s)[o]
  <2> TAKE o \in Orders
  <2>1. CASE status[o] # "NONE"
    BY <2>1, OrderDataFixed, ReportedTerm
  <2>2. CASE status[o] = "NONE"
    <3>1. filled[o] = 0
      BY <2>2 DEF RouterInv, OrderInv
    <3> QED
      BY <3>1, ReportedTerm
  <2> QED
    BY <2>1, <2>2
<1>2. Reported(s)' = Reported(s)
  BY <1>0, <1>1, ReportedKept
<1>3. Reported(s) \in Nat
  BY ReportedTypes
<1>4. /\ Claim(s) = Executed(s, "BUY") - Reported(s)
      /\ Claim(s)' = Executed(s, "BUY")' - Reported(s)'
  BY DEF Claim
<1> QED
  BY <1>2, <1>3, <1>4, BoughtGrows

(* The router learns that n shares of order o are executed.                *)
LEMMA FillClaim ==
  ASSUME RouterInv, [Next]_vars, NEW o \in Orders, NEW n \in 0..MaxQty,
         filled' = [filled EXCEPT ![o] = n], ord' = ord, NEW s
  PROVE  /\ Claim(s) \in Int /\ Claim(s)' \in Int /\ filled[o] \in Nat
         /\ Matches(o, s, "SELL") => Claim(s)' >= Claim(s) - (n - filled[o])
         /\ ~Matches(o, s, "SELL") => Claim(s)' >= Claim(s)
<1>0. RouterInv' /\ n \in Nat
  BY RouterStep, RouterAssumption
<1>1. filled \in [Orders -> 0..MaxQty] /\ filled[o] \in Nat
  BY RouterAssumption DEF RouterInv, TypeOK
<1>2. \A p \in Orders \ {o} : ReportedTerms(s)'[p] = ReportedTerms(s)[p]
  BY <1>1, ReportedTerm
<1>3. Reported(s)' = Reported(s) + ReportedTerms(s)'[o] - ReportedTerms(s)[o]
  BY <1>0, <1>2, ReportedMoves
<1>4. /\ Matches(o, s, "SELL") => ReportedTerms(s)[o] = filled[o] /\ ReportedTerms(s)'[o] = n
      /\ ~Matches(o, s, "SELL") => ReportedTerms(s)[o] = 0 /\ ReportedTerms(s)'[o] = 0
  BY <1>1, ReportedTerm DEF Matches
<1>5. Reported(s) \in Nat
  BY ReportedTypes
<1>6. /\ Claim(s) = Executed(s, "BUY") - Reported(s)
      /\ Claim(s)' = Executed(s, "BUY")' - Reported(s)'
  BY DEF Claim
<1> QED
  BY <1>0, <1>1, <1>3, <1>4, <1>5, <1>6, BoughtGrows

(* The accounts are real ones.                                             *)
LEMMA RealAccount == RouterInv => dry_run = FALSE
BY ExitAssumption DEF RouterInv, TypeOK

LEMMA SellReportedStep ==
  ASSUME RouterInv, SellReported, [Next]_vars
  PROVE  SellReported'
<1> SUFFICES ASSUME NEW p \in Orders, IsSell(p)' PROVE filled'[p] <= exec'[p]
  BY DEF SellReported
<1>0. dry_run = FALSE
  BY RealAccount
<1>1. /\ filled \in [Orders -> 0..MaxQty] /\ exec \in [Orders -> 0..MaxQty]
      /\ calling \in Orders \cup {None} /\ filled[p] \in Nat /\ exec[p] \in Nat
  BY RouterAssumption DEF RouterInv, TypeOK
<1>2. filled[p] <= exec[p]
  <2>1. CASE status[p] = "NONE"
    BY <1>1, <2>1 DEF RouterInv, OrderInv
  <2>2. CASE status[p] # "NONE"
    BY <2>2, OrderDataFixed DEF SellReported, IsSell
  <2> QED
    BY <2>1, <2>2
<1>3. CASE Submit
  BY <1>2, <1>3 DEF Submit, SubmitBuy, SubmitBuyNoCash, SubmitSell, NewOrder, brokerVars
<1>4. CASE Respond
  BY <1>0, <1>1, <1>2, <1>4 DEF Respond, AckReceived, SendFailed, PaperFill, OnFill, brokerVars
<1>5. CASE \E o \in Orders : Reconcile(o)
  <2>1. PICK o \in Orders : Reconcile(o)
    BY <1>5
  <2>2. CASE ReconcileByHoldings(o)
    <3>1. p # o
      BY <2>2 DEF ReconcileByHoldings, IsBuy, IsSell
    <3> QED
      BY <1>1, <1>2, <2>2, <3>1 DEF ReconcileByHoldings, OnFill, brokerVars
  <2>3. CASE ReconcileFill(o) \/ ReconcileCanceled(o)
    BY <1>1, <1>2, <2>3 DEF ReconcileFill, ReconcileCanceled, OnFill, brokerVars
  <2> QED
    BY <2>1, <2>2, <2>3 DEF Reconcile
<1>6. CASE (\E o \in Orders : CancelOrder(o)) \/ Restart
  BY <1>2, <1>6 DEF CancelOrder, Restart, brokerVars
<1>7. CASE SyncCash
  BY <1>2, <1>7 DEF SyncCash, routerVars, brokerVars
<1>8. CASE (\E s \in Symbols : CooldownExpires(s)) \/ (\E b \in BOOLEAN : SetCriticalExitFailure(b))
  BY <1>2, <1>8 DEF CooldownExpires, SetCriticalExitFailure, brokerVars
<1>9. CASE Broker
  <2>1. exec'[p] \in {exec[p], exec[p] + 1} /\ filled'[p] = filled[p]
    BY <1>1, <1>9 DEF Broker, BrokerAccept, BrokerFill, BrokerCancel, LostFill, LostCancel, routerVars
  <2> QED
    BY <1>1, <1>2, <2>1
<1>10. CASE Retry
  <2>1. p = calling => filled[p] = 0
    BY RouterAssumption DEF RouterInv, CallingInv, StatusMatchesFilled
  <2>2. filled'[p] = filled[p] /\ (p # calling => exec'[p] = exec[p]) /\ (p = calling => exec'[p] = 0)
    BY <1>1, <1>10 DEF Retry, routerVars
  <2> QED
    BY <1>2, <2>1, <2>2
<1>11. CASE UNCHANGED vars
  BY <1>2, <1>11 DEF vars, routerVars, brokerVars
<1> QED
  BY <1>3, <1>4, <1>5, <1>6, <1>7, <1>8, <1>9, <1>10, <1>11 DEF Next

-----------------------------------------------------------------------------
(* The claims in the next state.                                           *)

ClaimsGrow == \A s \in Symbols : Claim(s)' >= Claim(s)

ClaimsCover == \A s \in Symbols : Holdings(s) \in Nat /\ Holdings(s) <= Claim(s) /\ Claim(s) \in Nat

LEMMA ClaimsNow == RouterInv /\ SellReported /\ SalesBacked => ClaimsCover
BY ClaimCoversHoldings DEF ClaimsCover

LEMMA ClaimsNext == (RouterInv /\ SellReported /\ SalesBacked)' => ClaimsCover'
BY ClaimsNow, PTL

(* The position of one symbol changes, within its claim.                   *)
LEMMA PosUpdate ==
  ASSUME PosInv, NEW s \in Symbols, NEW x, pos' = [pos EXCEPT ![s] = x],
         NEW n \in Int, n = Claim(s)', Held(x, n),
         \A t \in Symbols : Claim(t) \in Int /\ Claim(t)' \in Int,
         \A t \in Symbols \ {s} : Claim(t)' >= Claim(t)
  PROVE  PosInv'
<1>1. x \in Positions /\ pos \in [Symbols -> Positions]
  BY DEF Held, PosInv
<1>2. pos' \in [Symbols -> Positions]
  BY <1>1
<1>3. ASSUME NEW t \in Symbols
      PROVE  pos'[t].qty <= Claim(t)' /\ (~pos'[t].open => pos'[t].qty = 0)
  <2>1. CASE t = s
    BY <1>1, <2>1 DEF Held
  <2>2. CASE t # s
    <3>1. pos'[t] = pos[t] /\ pos[t].qty <= Claim(t) /\ (~pos[t].open => pos[t].qty = 0)
      BY <1>1, <2>2 DEF PosInv, Held
    <3>2. pos[t].qty \in Nat /\ Claim(t)' >= Claim(t) /\ Claim(t) \in Int /\ Claim(t)' \in Int
      BY <1>1, <2>2 DEF Positions
    <3> QED
      BY <3>1, <3>2
  <2> QED
    BY <2>1, <2>2
<1>4. \A t \in Symbols : pos'[t] \in Positions
  BY <1>2
<1> QED
  BY <1>2, <1>3, <1>4 DEF PosInv, Held

LEMMA PosSame ==
  ASSUME PosInv, pos' = pos,
         \A t \in Symbols : Claim(t) \in Int /\ Claim(t)' \in Int /\ Claim(t)' >= Claim(t)
  PROVE  PosInv'
<1>1. pos \in [Symbols -> Positions]
  BY DEF PosInv
<1>2. ASSUME NEW t \in Symbols
      PROVE  pos[t].qty <= Claim(t)' /\ (~pos[t].open => pos[t].qty = 0) /\ pos[t] \in Positions
  <2>1. pos[t].qty <= Claim(t) /\ (~pos[t].open => pos[t].qty = 0)
    BY DEF PosInv, Held
  <2>2. pos[t].qty \in Nat /\ Claim(t)' >= Claim(t) /\ Claim(t) \in Int /\ Claim(t)' \in Int
    BY <1>1 DEF Positions
  <2> QED
    BY <1>1, <2>1, <2>2
<1> QED
  BY <1>1, <1>2 DEF PosInv, Held

(* A step that tells the router of no execution, with one position changed *)
(* within what it could claim before.                                      *)
LEMMA QuietUpdate ==
  ASSUME RouterInv, PosInv, [Next]_vars, filled' = filled,
         NEW s \in Symbols, NEW x, pos' = [pos EXCEPT ![s] = x],
         NEW n \in Int, n <= Claim(s), Held(x, n)
  PROVE  PosInv'
<1>1. \A t \in Symbols : Claim(t) \in Int /\ Claim(t)' \in Int /\ Claim(t)' >= Claim(t)
  BY QuietClaim
<1> DEFINE m == Claim(s)'
<1>2. m \in Int /\ n <= m
  BY <1>1
<1>3. m = Claim(s)'
  OBVIOUS
<1> HIDE DEF m
<1>4. Held(x, m)
  BY <1>2, HeldMore
<1> QED
  BY <1>1, <1>2, <1>3, <1>4, PosUpdate

LEMMA QuietChange ==
  ASSUME RouterInv, PosInv, [Next]_vars, filled' = filled,
         NEW s \in Symbols, NEW x, pos' = [pos EXCEPT ![s] = x],
         Claim(s) \in Int, Held(x, Claim(s))
  PROVE  PosInv'
<1> DEFINE n == Claim(s)
<1>1. n \in Int /\ n <= Claim(s) /\ Held(x, n)
  OBVIOUS
<1> HIDE DEF n
<1> QED
  BY <1>1, QuietUpdate

LEMMA QuietSame ==
  ASSUME RouterInv, PosInv, [Next]_vars, filled' = filled, pos' = pos
  PROVE  PosInv'
BY QuietClaim, PosSame

LEMMA PosFacts ==
  ASSUME RouterInv, FlowInv, SalesBacked, NEW s \in Symbols
  PROVE  /\ pos[s] \in Positions /\ pos[s].qty \in Nat /\ pos[s].pending \in Nat
         /\ Holdings(s) \in Nat /\ Claim(s) \in Nat /\ Holdings(s) <= Claim(s)
         /\ Held(pos[s], Claim(s))
         /\ pos \in [Symbols -> Positions] /\ PosInv
<1>1. pos[s] \in Positions
  BY DEF FlowInv, PosInv
<1> QED
  BY <1>1, ClaimCoversHoldings DEF FlowInv, PosInv, Positions

-----------------------------------------------------------------------------
(* The operations of the position manager, each with the invariant it      *)
(* keeps: what is left is the invariant's other half, which follows from   *)
(* SellReportedStep.                                                       *)

Kept == PosInv /\ CallTypeOK /\ lingering \in SUBSET Orders /\ CallInv

LEMMA NoCallLeft == calling' = None => CallInv'
BY DEF CallInv

(* A request has just been handed to the router.                           *)
LEMMA Submitted ==
  ASSUME RouterInv, ClaimsCover', NEW s \in Symbols, NEW o \in Orders, status[o] = "NONE",
         NEW sd, NEW n \in 0..MaxQty,
         NEW kind \in {"entry", "partial", "close", "resubmit", "resubmit_closed"},
         Calling(kind, s, n), exec' = exec, calling' = o,
         ord'[o].sym = s, ord'[o].side = sd, ord'[o].qty = n,
         kind = "entry" <=> sd = "BUY",
         kind \in {"partial", "close"} => pos'[s].open
  PROVE  CallInv' /\ CallTypeOK'
<1>1. call' = [kind |-> kind, sym |-> s, qty |-> n]
  BY DEF Calling
<1>2. CallTypeOK'
  BY <1>1 DEF CallTypeOK, Kinds
<1>3. exec'[o] = 0
  BY DEF RouterInv, OrderInv
<1>4. \A t \in Symbols : exec'[o] <= Claim(t)'
  BY <1>3 DEF ClaimsCover
<1> QED
  BY <1>1, <1>2, <1>4 DEF CallInv

(* The order a SELL of the position manager makes.                         *)
LEMMA SellSubmitted ==
  ASSUME RouterInv, NEW s \in Symbols, NEW o \in Orders, NEW n \in 1..MaxQty,
         SubmitSell(o, s, n, None)
  PROVE  /\ status[o] = "NONE" /\ calling' = o /\ exec' = exec /\ filled' = filled
         /\ ord'[o].sym = s /\ ord'[o].side = "SELL" /\ ord'[o].qty = n
         /\ calling = None /\ [Next]_vars
<1>1. Next
  BY DEF Next, Submit
<1>2. ord'[o] = [sym |-> s, side |-> "SELL", qty |-> n, intent |-> None]
  BY DEF SubmitSell, Register, RouterInv, TypeOK
<1> QED
  BY <1>1, <1>2 DEF SubmitSell, NewOrder, Register, brokerVars

LEMMA EnterFlow ==
  ASSUME RouterInv, FlowInv, SalesBacked, ClaimsCover', NEW s \in Symbols, NEW o \in Orders,
         NEW n \in 1..MaxEntry, NEW h \in Horizons, Enter(s, o, n, h)
  PROVE  Kept'
<1>1. /\ Approved(h, n) = n /\ SubmitBuy(o, s, n, h, None) /\ Calling("entry", s, n)
      /\ pos' = pos /\ lingering' = lingering
  BY DEF Enter
<1>2. n \in 1..MaxQty /\ n \in 0..MaxQty
  BY ExitAssumption, RouterAssumption
<1>3. Next
  BY <1>1, <1>2 DEF Next, Submit
<1>4. ord'[o] = [sym |-> s, side |-> "BUY", qty |-> n, intent |-> None]
  BY <1>1 DEF SubmitBuy, Register, RouterInv, TypeOK
<1>5. status[o] = "NONE" /\ calling' = o /\ exec' = exec /\ filled' = filled
  BY <1>1 DEF SubmitBuy, NewOrder, Register, brokerVars
<1>6. CallInv' /\ CallTypeOK'
  BY <1>1, <1>2, <1>4, <1>5, Submitted
<1>7. PosInv'
  BY <1>1, <1>3, <1>5, QuietSame DEF FlowInv
<1> QED
  BY <1>1, <1>6, <1>7 DEF Kept, FlowInv

LEMMA PartialExitFlow ==
  ASSUME RouterInv, FlowInv, SalesBacked, ClaimsCover', NEW s \in Symbols, NEW o \in Orders,
         PartialExit(s, o)
  PROVE  Kept'
<1>1. /\ PartialQty(s) \in 1..MaxQty /\ SubmitSell(o, s, PartialQty(s), None)
      /\ Calling("partial", s, PartialQty(s)) /\ pos' = [pos EXCEPT ![s] = Take(pos[s])]
      /\ lingering' = lingering /\ pos[s].open /\ pos[s].taken < Targets
  BY DEF PartialExit, AtTarget
<1> DEFINE n == PartialQty(s)
<1>2. n \in 1..MaxQty /\ SubmitSell(o, s, n, None) /\ Calling("partial", s, n)
  BY <1>1
<1> HIDE DEF n
<1>3. /\ status[o] = "NONE" /\ calling' = o /\ exec' = exec /\ filled' = filled
      /\ ord'[o].sym = s /\ ord'[o].side = "SELL" /\ ord'[o].qty = n /\ [Next]_vars
  BY <1>2, SellSubmitted
<1>4. Held(Take(pos[s]), Claim(s)) /\ Take(pos[s]).open = pos[s].open /\ Claim(s) \in Nat
  <2>1. Held(pos[s], Claim(s)) /\ Claim(s) \in Int /\ Claim(s) \in Nat
    BY PosFacts
  <2>2. Held(Take(pos[s]), Claim(s)) /\ Take(pos[s]).open = pos[s].open
    BY <1>1, <2>1, HeldTaken
  <2> QED
    BY <2>1, <2>2
<1>5. PosInv'
  <2> DEFINE x == Take(pos[s])
             c == Claim(s)
  <2>1. Held(x, c) /\ c \in Int /\ c <= Claim(s) /\ pos' = [pos EXCEPT ![s] = x]
    BY <1>1, <1>4
  <2> HIDE DEF x, c
  <2> QED
    BY <1>3, <2>1, QuietUpdate DEF FlowInv
<1>6. pos'[s].open
  BY <1>1, <1>4, PosFacts
<1>7. n \in 0..MaxQty
  BY <1>2, RouterAssumption
<1>8. CallInv' /\ CallTypeOK'
  BY <1>2, <1>3, <1>6, <1>7, Submitted
<1> QED
  BY <1>1, <1>5, <1>8 DEF Kept, FlowInv

(* Steps of the position manager alone.                                    *)
LEMMA PartialExitNoneFlow ==
  ASSUME RouterInv, FlowInv, SalesBacked, NEW s \in Symbols,
         PartialExitSkipped(s) \/ PartialExitRefused(s)
  PROVE  Kept'
<1>1. /\ calling = None /\ calling' = None /\ filled' = filled /\ UNCHANGED vars
      /\ call' = call /\ lingering' = lingering /\ pos[s].open /\ pos[s].taken < Targets
  BY DEF PartialExitSkipped, PartialExitRefused, AtTarget, Idle, vars, routerVars
<1>2. /\ Held(pos[s], Claim(s)) /\ Claim(s) \in Nat /\ Claim(s) \in Int
      /\ Holdings(s) \in Nat /\ Holdings(s) <= Claim(s)
  BY PosFacts
<1>3. Held(Take(pos[s]), Claim(s)) /\ Take(pos[s]).open
  BY <1>1, <1>2, HeldTaken
<1>4. PICK x : pos' = [pos EXCEPT ![s] = x] /\ (x = Take(pos[s]) \/ x \in Refreshed(Take(pos[s]), s))
  BY DEF PartialExitSkipped, PartialExitRefused
<1>5. Held(x, Claim(s))
  <2> DEFINE p == Take(pos[s])
             c == Claim(s)
  <2>1. Held(p, c) /\ p.open /\ c \in Nat /\ Holdings(s) <= c /\ (x = p \/ x \in Refreshed(p, s))
    BY <1>2, <1>3, <1>4
  <2> HIDE DEF p, c
  <2>2. Held(x, c)
    BY <1>2, <2>1, HeldRefreshed
  <2> QED
    BY <2>2 DEF c
<1>6. PosInv'
  BY <1>1, <1>2, <1>4, <1>5, QuietChange DEF FlowInv
<1> QED
  BY <1>1, <1>6, NoCallLeft DEF Kept, FlowInv, CallTypeOK

LEMMA ReleasedType ==
  ASSUME RouterInv, NEW o \in Orders
  PROVE  ReleasedQty(o) \in Int
<1>1. filled[o] \in Int /\ ord[o].qty \in Int
  <2>1. filled[o] \in Int /\ ord[o] \in OrderData \cup {NoOrderYet}
    BY DEF RouterInv, TypeOK
  <2> QED
    BY <2>1 DEF OrderData, NoOrderYet
<1> QED
  BY <1>1 DEF ReleasedQty

(* The cancellation of the exit order a position waits for.                *)
LEMMA CancelFacts ==
  ASSUME RouterInv, NEW o, CancelOrder(o)
  PROVE  /\ o \in Orders /\ [Next]_vars /\ filled' = filled /\ calling' = None
         /\ ord[o].sym \in Symbols /\ ord[o].qty \in 0..MaxQty
<1>1. o \in Orders /\ status[o] \in OpenStatuses
  BY DEF CancelOrder, RouterInv, TypeOK, PendingIffOpen
<1>2. ord[o].sym \in Symbols /\ ord[o].qty \in 1..MaxQty
  BY <1>1, CreatedData DEF OpenStatuses
<1>3. ord[o].qty \in 0..MaxQty
  BY <1>2, RouterAssumption
<1>4. Next
  BY CancelByActive
<1> QED
  BY <1>1, <1>2, <1>3, <1>4 DEF CancelOrder

LEMMA CancelFlow ==
  ASSUME RouterInv, FlowInv, SalesBacked, NEW s \in Symbols, OverrideExit(s) \/ ExitTimeout(s)
  PROVE  Kept'
<1> DEFINE o == pos[s].active
           p == AfterCancel(pos[s], o)
<1>1. /\ CancelOrder(o) /\ lingering' = lingering
      /\ \/ /\ pos' = [pos EXCEPT ![s] = [p EXCEPT !.pending = Monus(p.pending, ReleasedQty(o))]]
            /\ Calling("override", s, 0)
         \/ /\ pos' = [pos EXCEPT ![s] = p]
            /\ Calling("timeout", s, ord[o].qty)
  <2>1. CASE OverrideExit(s)
    <3>1. CancelOrder(o) /\ lingering' = lingering /\ Calling("override", s, 0)
      BY <2>1 DEF OverrideExit
    <3>2. pos' = [pos EXCEPT ![s] = [p EXCEPT !.pending = Monus(p.pending, ReleasedQty(o))]]
      BY <2>1, Zenon DEF OverrideExit
    <3> QED
      BY <3>1, <3>2, Zenon
  <2>2. CASE ExitTimeout(s)
    <3>1. /\ CancelOrder(o) /\ lingering' = lingering /\ Calling("timeout", s, ord[o].qty)
          /\ pos' = [pos EXCEPT ![s] = p]
      BY <2>2 DEF ExitTimeout
    <3> QED
      BY <3>1, Zenon
  <2> QED
    BY <2>1, <2>2
<1>2. Held(pos[s], Claim(s)) /\ Claim(s) \in Int
  BY PosFacts
<1> HIDE DEF o
<1>3. /\ o \in Orders /\ [Next]_vars /\ filled' = filled /\ calling' = None /\ ord[o].qty \in 0..MaxQty
  BY <1>1, CancelFacts
<1>4. ReleasedQty(o) \in Int
  BY <1>3, ReleasedType
<1>5. Held(p, Claim(s))
  BY <1>2, <1>4, HeldAfterCancel
<1> HIDE DEF p
<1>6. p.pending \in Nat
  BY <1>5 DEF Held, Positions
<1>7. Monus(p.pending, ReleasedQty(o)) \in Nat
  BY <1>4, <1>6, MonusBound
<1>8. Held([p EXCEPT !.pending = Monus(p.pending, ReleasedQty(o))], Claim(s))
  <2> DEFINE y == Monus(p.pending, ReleasedQty(o))
  <2>1. y \in Nat
    BY <1>7
  <2> HIDE DEF y
  <2>2. [p EXCEPT !.pending = y] \in Positions
    BY <1>5, <2>1 DEF Held, Positions
  <2>3. Held([p EXCEPT !.pending = y], Claim(s))
    BY <1>5, <2>1 DEF Held, Positions
  <2> QED
    BY <2>3 DEF y
<1>9. PICK x : pos' = [pos EXCEPT ![s] = x] /\ Held(x, Claim(s))
  BY <1>1, <1>5, <1>8
<1>10. PosInv'
  BY <1>2, <1>3, <1>9, QuietChange DEF FlowInv
<1>11. CallTypeOK'
  BY <1>1, <1>3, RouterAssumption DEF Calling, CallTypeOK, Kinds
<1> QED
  BY <1>1, <1>3, <1>10, <1>11, NoCallLeft DEF Kept, FlowInv

(* An exit order that closes its position, or leaves it as it is.          *)
LEMMA ClosedLingering ==
  ASSUME FlowInv, RouterInv, NEW s \in Symbols, Close(s)
  PROVE  lingering' \in SUBSET Orders
BY DEF Close, Waiting, FlowInv, RouterInv, TypeOK

LEMMA ClosePositionFlow ==
  ASSUME RouterInv, FlowInv, SalesBacked, ClaimsCover', NEW s \in Symbols, ClosePosition(s)
  PROVE  Kept'
<1>0. /\ Held(pos[s], Claim(s)) /\ Claim(s) \in Nat /\ Claim(s) \in Int /\ PosInv
      /\ Holdings(s) \in Nat /\ Holdings(s) <= Claim(s)
  BY PosFacts
<1>1. CASE CloseNothing(s)
  <2>1. calling' = None /\ filled' = filled /\ UNCHANGED vars /\ call' = NoCall
    BY <1>1 DEF CloseNothing, Closing, vars, routerVars
  <2>2. CASE Close(s)
    <3>1. pos' = [pos EXCEPT ![s] = NoPosition] /\ Held(NoPosition, Claim(s))
      BY <1>0, <2>2, HeldNothing DEF Close
    <3>2. PosInv'
      BY <1>0, <2>1, <3>1, QuietChange
    <3> QED
      BY <2>1, <2>2, <3>2, NoCallLeft, ClosedLingering DEF Kept, CallTypeOK
  <2>3. CASE UNCHANGED <<pos, lingering>>
    <3>1. PosInv'
      BY <1>0, <2>1, <2>3, QuietSame
    <3> QED
      BY <2>1, <2>3, <3>1, NoCallLeft DEF Kept, CallTypeOK, FlowInv
  <2> QED
    BY <1>1, <2>2, <2>3 DEF CloseNothing
<1>2. CASE CloseRefused(s)
  <2>1. /\ calling' = None /\ filled' = filled /\ UNCHANGED vars /\ call' = NoCall
        /\ lingering' = lingering /\ pos[s].open
    BY <1>2 DEF CloseRefused, Closing, vars, routerVars
  <2>2. PICK x \in Failed(pos[s], s) : pos' = [pos EXCEPT ![s] = x]
    BY <1>2 DEF CloseRefused
  <2>3. Held(x, Claim(s))
    BY <1>0, <2>1, HeldFailed
  <2>4. PosInv'
    BY <1>0, <2>1, <2>2, <2>3, QuietChange
  <2> QED
    BY <2>1, <2>4, NoCallLeft DEF Kept, CallTypeOK, FlowInv
<1>3. ASSUME NEW o \in Orders, CloseSubmit(s, o)
      PROVE  Kept'
  <2> DEFINE n == CloseQty(pos[s])
  <2>1. /\ n \in 1..MaxQty /\ SubmitSell(o, s, n, None) /\ Calling("close", s, n)
        /\ pos' = pos /\ lingering' = lingering /\ pos[s].open
    BY <1>3 DEF CloseSubmit, Closing
  <2> HIDE DEF n
  <2>2. /\ status[o] = "NONE" /\ calling' = o /\ exec' = exec /\ filled' = filled
        /\ ord'[o].sym = s /\ ord'[o].side = "SELL" /\ ord'[o].qty = n /\ [Next]_vars
    BY <2>1, SellSubmitted
  <2>3. n \in 0..MaxQty /\ pos'[s].open
    BY <2>1, RouterAssumption
  <2>4. CallInv' /\ CallTypeOK'
    BY <2>1, <2>2, <2>3, Submitted
  <2>5. PosInv'
    BY <1>0, <2>1, <2>2, QuietSame
  <2> QED
    BY <2>1, <2>4, <2>5 DEF Kept, FlowInv
<1> QED
  BY <1>1, <1>2, <1>3 DEF ClosePosition

LEMMA ReconcilePositionFlow ==
  ASSUME RouterInv, FlowInv, SalesBacked, NEW s \in Symbols,
         Adopt(s) \/ CloseMissing(s) \/ CorrectQty(s)
  PROVE  Kept'
<1>0. /\ Held(pos[s], Claim(s)) /\ Claim(s) \in Nat /\ Claim(s) \in Int /\ PosInv
      /\ Holdings(s) \in Nat /\ Holdings(s) <= Claim(s)
  BY PosFacts
<1>1. /\ calling = None /\ calling' = None /\ filled' = filled /\ UNCHANGED vars
      /\ call' = call
  BY DEF Adopt, CloseMissing, CorrectQty, Idle, vars, routerVars
<1>2. ASSUME NEW x, pos' = [pos EXCEPT ![s] = x], Held(x, Claim(s)), lingering' \in SUBSET Orders
      PROVE  Kept'
  <2>1. PosInv'
    BY <1>0, <1>1, <1>2, QuietChange
  <2> QED
    BY <1>1, <1>2, <2>1, NoCallLeft DEF Kept, CallTypeOK, FlowInv
<1>3. CASE Adopt(s)
  <2>1. PICK known \in BOOLEAN : pos' = [pos EXCEPT ![s] = Adopted(s, known)]
    BY <1>3 DEF Adopt
  <2>2. Held(Adopted(s, known), Claim(s))
    BY <1>0, HeldAdopted
  <2>3. lingering' \in SUBSET Orders
    BY <1>3 DEF Adopt, FlowInv
  <2> QED
    BY <1>2, <2>1, <2>2, <2>3
<1>4. CASE CloseMissing(s)
  <2>1. pos' = [pos EXCEPT ![s] = NoPosition] /\ Held(NoPosition, Claim(s))
    BY <1>0, <1>4, HeldNothing DEF CloseMissing, Close
  <2>2. lingering' \in SUBSET Orders
    BY <1>4, ClosedLingering DEF CloseMissing
  <2> QED
    BY <1>2, <2>1, <2>2
<1>5. CASE CorrectQty(s)
  <2>1. pos' = [pos EXCEPT ![s] = [pos[s] EXCEPT !.qty = Holdings(s)]] /\ pos[s].open
    BY <1>5, Zenon DEF CorrectQty
  <2>2. Held([pos[s] EXCEPT !.qty = Holdings(s)], Claim(s))
    BY <1>0, <2>1, HeldQty
  <2>3. lingering' \in SUBSET Orders
    BY <1>5 DEF CorrectQty, FlowInv
  <2> QED
    BY <1>2, <2>1, <2>2, <2>3
<1> QED
  BY <1>3, <1>4, <1>5

LEMMA TimeoutFlow ==
  ASSUME RouterInv, FlowInv, SalesBacked, ClaimsCover',
         TimeoutResubmit \/ \E o \in Orders : LingeringTimeout(o)
  PROVE  Kept'
<1>0. PosInv /\ call \in [kind : Kinds, sym : Symbols, qty : 0..MaxQty] \cup {NoCall}
  BY DEF FlowInv, CallTypeOK
<1>1. CASE ResubmitRefused
  <2>1. UNCHANGED vars /\ filled' = filled /\ calling' = calling /\ call' = NoCall
        /\ pos' = pos /\ lingering' = lingering
    BY <1>1 DEF ResubmitRefused, vars, routerVars
  <2>2. PosInv'
    BY <1>0, <2>1, QuietSame
  <2>3. calling = None
    BY <1>1 DEF ResubmitRefused, TimedOut, FlowInv, CallInv
  <2> QED
    BY <2>1, <2>2, <2>3, NoCallLeft DEF Kept, CallTypeOK, FlowInv
<1>2. ASSUME NEW o \in Orders, Resubmit(o)
      PROVE  Kept'
  <2>1. PICK kind \in {"resubmit", "resubmit_closed"} : Calling(kind, call.sym, call.qty)
    BY <1>2 DEF Resubmit
  <2>2. /\ call.sym \in Symbols /\ call.qty \in 1..MaxQty
        /\ SubmitSell(o, call.sym, call.qty, None) /\ pos' = pos /\ lingering' = lingering
    BY <1>2 DEF Resubmit
  <2> DEFINE s == call.sym
             n == call.qty
  <2>3. /\ s \in Symbols /\ n \in 1..MaxQty /\ n \in 0..MaxQty
        /\ SubmitSell(o, s, n, None) /\ Calling(kind, s, n)
    BY <2>1, <2>2, RouterAssumption
  <2> HIDE DEF s, n
  <2>4. /\ status[o] = "NONE" /\ calling' = o /\ exec' = exec /\ filled' = filled
        /\ ord'[o].sym = s /\ ord'[o].side = "SELL" /\ ord'[o].qty = n /\ [Next]_vars
    BY <2>3, SellSubmitted
  <2>5. CallInv' /\ CallTypeOK'
    BY <2>3, <2>4, Submitted
  <2>6. PosInv'
    BY <1>0, <2>2, <2>4, QuietSame
  <2> QED
    BY <2>2, <2>5, <2>6 DEF Kept, FlowInv
<1>3. ASSUME NEW o \in Orders, LingeringTimeout(o)
      PROVE  Kept'
  <2>1. /\ pos' = pos /\ lingering' \in SUBSET Orders /\ calling = None
        /\ \/ CancelOrder(o) /\ Calling("timeout_closed", ord[o].sym, ord[o].qty)
           \/ UNCHANGED <<vars, call>>
    BY <1>3 DEF LingeringTimeout, Idle, FlowInv
  <2>2. [Next]_vars /\ filled' = filled /\ calling' = None /\ CallTypeOK'
    <3>1. CASE CancelOrder(o) /\ Calling("timeout_closed", ord[o].sym, ord[o].qty)
      <4>1. /\ [Next]_vars /\ filled' = filled /\ calling' = None
            /\ ord[o].sym \in Symbols /\ ord[o].qty \in 0..MaxQty
        BY <3>1, CancelFacts
      <4> QED
        BY <3>1, <4>1 DEF Calling, CallTypeOK, Kinds
    <3>2. CASE UNCHANGED <<vars, call>>
      BY <2>1, <3>2 DEF vars, routerVars, FlowInv, CallTypeOK
    <3> QED
      BY <2>1, <3>1, <3>2
  <2>3. PosInv'
    BY <1>0, <2>1, <2>2, QuietSame
  <2> QED
    BY <2>1, <2>2, <2>3, NoCallLeft DEF Kept
<1> QED
  BY <1>1, <1>2, <1>3 DEF TimeoutResubmit

-----------------------------------------------------------------------------
(* Fills and the answers of the broker.                                    *)

(* The router books an execution: who loses how much of a claim.           *)
LEMMA FillUpdate ==
  ASSUME RouterInv, PosInv, ClaimsCover', [Next]_vars, NEW o \in Orders, NEW m \in 0..MaxQty,
         filled' = [filled EXCEPT ![o] = m], ord' = ord,
         NEW s \in Symbols, ord[o].sym = s, NEW x, pos' = [pos EXCEPT ![s] = x],
         NEW n \in Int, n = Claim(s)', Held(x, n)
  PROVE  PosInv'
<1>1. \A t \in Symbols : Claim(t) \in Int /\ Claim(t)' \in Int
  BY FillClaim
<1>2. \A t \in Symbols \ {s} : Claim(t)' >= Claim(t)
  BY FillClaim DEF Matches
<1> QED
  BY <1>1, <1>2, PosUpdate

LEMMA FillFacts ==
  ASSUME RouterInv, NEW o \in Orders, NEW n, OnFill(o, n)
  PROVE  /\ filled' = [filled EXCEPT ![o] = n] /\ filled'[o] = n
         /\ status'[o] = "FILLED" <=> n = ord[o].qty
BY DEF OnFill, RouterInv, TypeOK

(* What a position may claim afterwards covers it, less the shares sold.   *)
LEMMA FillKeeps ==
  ASSUME RouterInv, PosInv, ClaimsCover', [Next]_vars, NEW o \in Orders, NEW m \in 0..MaxQty,
         filled' = [filled EXCEPT ![o] = m], ord' = ord, filled[o] <= m,
         NEW s \in Symbols, ord[o].sym = s, NEW n, n = Claim(s)'
  PROVE  /\ n \in Nat
         /\ IsSell(o) => \A full : Held(AfterFill(pos[s], m - filled[o], full), n)
         /\ ~IsSell(o) => Held(pos[s], n)
<1> DEFINE c == Claim(s)
           k == m - filled[o]
           p == pos[s]
<1>1. n \in Nat /\ Held(p, c)
  BY DEF ClaimsCover, PosInv
<1>2. c \in Int /\ k \in Nat /\ (IsSell(o) => n >= c - k) /\ (~IsSell(o) => n >= c)
  <2>1. Matches(o, s, "SELL") <=> IsSell(o)
    BY DEF Matches, IsSell
  <2>2. /\ c \in Int /\ filled[o] \in Nat
        /\ Matches(o, s, "SELL") => n >= c - k
        /\ ~Matches(o, s, "SELL") => n >= c
    BY FillClaim
  <2>3. m \in Nat
    BY RouterAssumption
  <2> QED
    BY <2>1, <2>2, <2>3
<1> HIDE DEF c, k, p
<1>3. ASSUME IsSell(o), NEW full PROVE Held(AfterFill(p, k, full), n)
  <2>1. c - k <= n
    BY <1>1, <1>2, <1>3
  <2> QED
    BY <1>1, <1>2, <2>1, HeldAfterFill
<1>4. ASSUME ~IsSell(o) PROVE Held(p, n)
  BY <1>1, <1>2, <1>4, HeldMore
<1> QED
  BY <1>1, <1>3, <1>4 DEF k, p

LEMMA ReconcileFlow ==
  ASSUME RouterInv, FlowInv, SalesBacked, ClaimsCover', NEW o \in Orders, ExitReconcile(o)
  PROVE  Kept'
<1>0. /\ PosInv /\ call' = call /\ lingering' = lingering /\ calling' = None /\ Next
      /\ ord' = ord /\ status[o] # "NONE" /\ pos \in [Symbols -> Positions]
  BY DEF FlowInv, PosInv, ExitReconcile, ExitReconcileFill, ExitReconcileCanceled,
         ExitReconcileByHoldings, exitVars, ReconcileFill, ReconcileCanceled, ReconcileByHoldings,
         CanReconcile, Next, Reconcile, RouterInv, PendingIffOpen, OpenStatuses
<1>1. PosInv' => Kept'
  BY <1>0, NoCallLeft DEF Kept, FlowInv, CallTypeOK
<1>2. PICK s \in Symbols : ord[o].sym = s
  BY <1>0, CreatedData
<1>3. /\ exec[o] \in 0..MaxQty /\ ord[o].qty \in 0..MaxQty
      /\ filled[o] \in Nat /\ filled[o] <= ord[o].qty
  <2>1. exec[o] \in 0..MaxQty /\ filled[o] \in 0..MaxQty /\ status[o] \in Statuses
    BY DEF RouterInv, TypeOK
  <2>2. ord[o].qty \in 1..MaxQty
    BY <1>0, CreatedData
  <2>3. o \in pending_orders
    BY DEF ExitReconcile, ExitReconcileFill, ExitReconcileCanceled, ExitReconcileByHoldings,
           ReconcileFill, ReconcileCanceled, ReconcileByHoldings, CanReconcile
  <2>4. filled[o] = 0 \/ filled[o] \in 1..(ord[o].qty - 1)
    BY <2>3 DEF RouterInv, PendingIffOpen, OpenStatuses, StatusMatchesFilled
  <2> QED
    BY <2>1, <2>2, <2>4, RouterAssumption
<1> DEFINE n == Claim(s)'
<1>4. n = Claim(s)' /\ n \in Nat
  BY DEF ClaimsCover
<1> HIDE DEF n
<1>5. CASE ExitReconcileFill(o)
  <2>1. OnFill(o, exec[o]) /\ filled[o] <= exec[o]
    BY <1>3, <1>5, RouterAssumption DEF ExitReconcileFill, ReconcileFill, RouterInv, TypeOK
  <2>2. filled' = [filled EXCEPT ![o] = exec[o]]
    BY <2>1, FillFacts
  <2>3. /\ IsSell(o) => \A full : Held(AfterFill(pos[s], exec[o] - filled[o], full), n)
        /\ ~IsSell(o) => Held(pos[s], n)
    BY <1>0, <1>2, <1>3, <1>4, <2>1, <2>2, FillKeeps
  <2>4. PICK x : pos' = [pos EXCEPT ![s] = x] /\ Held(x, n)
    <3>1. CASE IsSell(o)
      <4>1. PICK full : pos' = [pos EXCEPT ![s] = AfterFill(pos[s], exec[o] - filled[o], full)]
        BY <1>2, <1>5, <3>1, Zenon DEF ExitReconcileFill
      <4> QED
        BY <2>3, <3>1, <4>1
    <3>2. CASE ~IsSell(o)
      <4>1. pos' = [pos EXCEPT ![s] = pos[s]]
        BY <1>0, <1>5, <3>2 DEF ExitReconcileFill
      <4> QED
        BY <2>3, <3>2, <4>1
    <3> QED
      BY <3>1, <3>2
  <2> DEFINE m == exec[o]
  <2>5. m \in 0..MaxQty /\ filled' = [filled EXCEPT ![o] = m] /\ n \in Int
    BY <1>3, <1>4, <2>2
  <2> HIDE DEF m
  <2>6. PosInv'
    BY <1>0, <1>2, <1>4, <2>4, <2>5, FillUpdate
  <2> QED
    BY <1>1, <2>6
<1>6. CASE ExitReconcileCanceled(o)
  <2>1. pos' = [pos EXCEPT ![s] = AfterCancel(pos[s], o)] /\ filled' = filled
    BY <1>2, <1>6 DEF ExitReconcileCanceled, ReconcileCanceled
  <2>2. Held(AfterCancel(pos[s], o), Claim(s)) /\ Claim(s) \in Int
    BY PosFacts, ReleasedType, HeldAfterCancel
  <2> QED
    BY <1>0, <1>1, <2>1, <2>2, QuietChange
<1>7. CASE ExitReconcileByHoldings(o)
  <2>1. OnFill(o, ord[o].qty) /\ ~IsSell(o)
    BY <1>7 DEF ExitReconcileByHoldings, ReconcileByHoldings, IsBuy, IsSell
  <2>2. filled' = [filled EXCEPT ![o] = ord[o].qty]
    BY <2>1, FillFacts
  <2>3. Held(pos[s], n)
    BY <1>0, <1>2, <1>3, <1>4, <2>1, <2>2, FillKeeps
  <2>4. pos' = [pos EXCEPT ![s] = pos[s]]
    BY <1>0, <1>7 DEF ExitReconcileByHoldings, exitVars
  <2> DEFINE m == ord[o].qty
             p == pos[s]
  <2>5. /\ m \in 0..MaxQty /\ filled' = [filled EXCEPT ![o] = m] /\ n \in Int
        /\ pos' = [pos EXCEPT ![s] = p] /\ Held(p, n)
    BY <1>3, <1>4, <2>2, <2>3, <2>4
  <2> HIDE DEF m, p
  <2>6. PosInv'
    BY <1>0, <1>2, <1>4, <2>5, FillUpdate
  <2> QED
    BY <1>1, <2>6
<1> QED
  BY <1>5, <1>6, <1>7 DEF ExitReconcile

(* The call whose request is under way.                                    *)
LEMMA CallFacts ==
  ASSUME RouterInv, FlowInv, calling # None
  PROVE  /\ calling \in Orders /\ status[calling] = "ORDER_SENT" /\ filled[calling] = 0
         /\ call.kind \in {"entry", "partial", "close", "resubmit", "resubmit_closed"}
         /\ call.sym \in Symbols /\ call.qty \in Nat
         /\ ord[calling].sym = call.sym /\ ord[calling].qty = call.qty
         /\ call.kind = "entry" <=> IsBuy(calling)
         /\ call.kind = "entry" <=> ~IsSell(calling)
         /\ call.kind = "entry" => exec[calling] <= Claim(call.sym)
         /\ call.kind \in {"partial", "close"} => pos[call.sym].open
<1>1. calling \in Orders /\ status[calling] = "ORDER_SENT" /\ filled[calling] = 0
  BY DEF RouterInv, TypeOK, CallingInv, StatusMatchesFilled
<1>2. /\ call.kind \in {"entry", "partial", "close", "resubmit", "resubmit_closed"}
      /\ ord[calling].sym = call.sym /\ ord[calling].qty = call.qty
      /\ call.kind = "entry" <=> ord[calling].side = "BUY"
      /\ call.kind \in {"partial", "close"} => pos[call.sym].open
  BY DEF FlowInv, CallInv
<1>3. call # NoCall
  BY <1>2 DEF NoCall
<1>4. call.sym \in Symbols /\ call.qty \in 0..MaxQty
  BY <1>3 DEF FlowInv, CallTypeOK
<1>5. call.kind = "entry" => exec[calling] <= Claim(call.sym)
  BY <1>4 DEF FlowInv, CallInv
<1>6. ord[calling].side \in Sides
  BY <1>1, CreatedData DEF OrderData
<1> QED
  BY <1>1, <1>2, <1>4, <1>5, <1>6, RouterAssumption DEF IsBuy, IsSell, Sides

(* What the caller makes of an accepted order.                             *)
LEMMA HeldAnswered ==
  ASSUME NEW s \in Symbols, NEW o \in Orders, NEW m \in Nat, NEW full \in BOOLEAN, NEW n \in Nat,
         call.qty \in Nat, call.kind = "entry" <=> ~IsSell(o),
         IsSell(o) /\ m > 0 => Held(AfterFill(pos[s], m, full), n),
         ~(IsSell(o) /\ m > 0) => Held(pos[s], n),
         call.kind = "entry" /\ full => call.qty <= n
  PROVE  Held(Answered(s, o, m, full), n)
<1> DEFINE p == IF IsSell(o) /\ m > 0 THEN AfterFill(pos[s], m, full) ELSE pos[s]
           q == call.qty
           kind == call.kind
           waiting == [p EXCEPT !.active = o, !.pending = p.pending + q]
           kept == [p EXCEPT !.active = IF full THEN None ELSE o]
           taken == AfterFill(p, q, FALSE)
<1>1. Answered(s, o, m, full)
        = CASE kind = "entry"    -> IF full THEN Opened(q) ELSE p
            [] kind = "partial"  -> IF full THEN taken ELSE waiting
            [] kind = "close"    -> IF full THEN NoPosition ELSE waiting
            [] kind = "resubmit" -> kept
            [] OTHER                  -> p
  BY Zenon DEF Answered
<1>2. Held(p, n) /\ q \in Nat /\ (kind = "entry" /\ full => q <= n)
  OBVIOUS
<1> HIDE DEF p, q, kind
<1>3. p \in Positions /\ p.pending + q \in Nat
  BY <1>2 DEF Held, Positions
<1>4. Held(waiting, n) /\ Held(kept, n)
  BY <1>2, <1>3 DEF Held, Positions
<1>5. Held(NoPosition, n)
  BY HeldNothing
<1>6. Held(taken, n)
  <2>1. n - q <= n /\ n \in Int
    BY <1>2
  <2> QED
    BY <1>2, <2>1, HeldAfterFill, Zenon
<1>7. kind = "entry" /\ full => Held(Opened(q), n)
  BY <1>2, HeldOpened
<1> HIDE DEF waiting, kept, taken
<1> QED
  BY <1>1, <1>2, <1>4, <1>5, <1>6, <1>7

LEMMA AnsweredFlow ==
  ASSUME RouterInv, FlowInv, SalesBacked, ClaimsCover', ExitAnswered
  PROVE  Kept'
<1>1. AckReceived /\ calling # None /\ call' = NoCall /\ calling' = None /\ ord' = ord /\ Next
  BY DEF ExitAnswered, AckReceived, Next, Respond
<1> DEFINE s == call.sym
           o == calling
           full == status'[o] = "FILLED"
           m == filled'[o]
<1>2. /\ o \in Orders /\ status[o] = "ORDER_SENT" /\ filled[o] = 0
      /\ s \in Symbols /\ call.qty \in Nat /\ ord[o].sym = s /\ ord[o].qty = call.qty
      /\ call.kind = "entry" <=> ~IsSell(o)
      /\ call.kind = "entry" => exec[o] <= Claim(s)
  BY <1>1, CallFacts
<1>3. pos' = [pos EXCEPT ![s] = Answered(s, o, m, full)]
  BY DEF ExitAnswered
<1>4. lingering' \in SUBSET Orders
  BY <1>2 DEF ExitAnswered, FlowInv
<1>5. exec[o] \in 0..MaxQty /\ exec[o] \in Nat
  BY <1>2, RouterAssumption DEF RouterInv, TypeOK
<1>6. \/ exec[o] > 0 /\ OnFill(o, exec[o])
      \/ filled' = filled /\ status' = [status EXCEPT ![o] = "ORDER_ACK"]
  BY <1>1 DEF AckReceived
<1>7. \E x \in 0..MaxQty : /\ filled' = [filled EXCEPT ![o] = x] /\ m = x
                           /\ full => x = exec[o] /\ x = ord[o].qty
  <2>1. CASE exec[o] > 0 /\ OnFill(o, exec[o])
    BY <1>2, <1>5, <2>1, FillFacts
  <2>2. CASE filled' = filled /\ status' = [status EXCEPT ![o] = "ORDER_ACK"]
    <3>1. status'[o] = "ORDER_ACK" /\ filled' = [filled EXCEPT ![o] = 0] /\ m = 0
      BY <1>2, <2>2 DEF RouterInv, TypeOK
    <3>2. ~full /\ 0 \in 0..MaxQty
      BY <3>1, RouterAssumption
    <3> HIDE DEF full, m
    <3> QED
      BY <3>1, <3>2, Zenon
  <2> QED
    BY <1>6, <2>1, <2>2
<1>8. full \in BOOLEAN
  OBVIOUS
<1> DEFINE b == full
<1>9. PICK x \in 0..MaxQty : /\ filled' = [filled EXCEPT ![o] = x] /\ m = x
                             /\ b => x = exec[o] /\ x = ord[o].qty
  BY <1>7
<1>10. pos' = [pos EXCEPT ![s] = Answered(s, o, x, b)] /\ b \in BOOLEAN
  BY <1>3, <1>8, <1>9
<1>11. /\ s \in Symbols /\ o \in Orders /\ PosInv /\ filled[o] = 0 /\ x \in Nat
       /\ ord[o].sym = s /\ call.qty \in Nat /\ (call.kind = "entry" <=> ~IsSell(o))
  BY <1>2, RouterAssumption DEF FlowInv
<1> HIDE DEF m, full, b
<1>12. ASSUME NEW t \in Symbols, t = s, NEW p \in Orders, p = o
       PROVE  Kept'
  <2> DEFINE n == Claim(t)'
  <2>1. n = Claim(t)' /\ n \in Nat /\ n \in Int
    BY DEF ClaimsCover
  <2> HIDE DEF n
  <2>2. /\ filled[p] = 0 /\ ord[p].sym = t /\ filled' = [filled EXCEPT ![p] = x] /\ PosInv
        /\ filled[p] <= x /\ x - filled[p] = x /\ ord' = ord /\ [Next]_vars
    BY <1>1, <1>9, <1>11, <1>12
  <2>3. /\ IsSell(p) => Held(AfterFill(pos[t], x, b), n)
        /\ ~IsSell(p) => Held(pos[t], n)
    BY <2>1, <2>2, FillKeeps
  <2>4. x = 0 => Held(pos[t], n)
    <3>1. ASSUME x = 0 PROVE filled' = filled
      BY <2>2, <3>1 DEF RouterInv, TypeOK
    <3>2. ASSUME x = 0 PROVE Claim(t) \in Int /\ n >= Claim(t) /\ Held(pos[t], Claim(t))
      BY <2>1, <2>2, <3>1, <3>2, QuietClaim, PosFacts
    <3> QED
      BY <2>1, <3>2, HeldMore
  <2>5. call.kind = "entry" /\ b => call.qty <= n
    <3>1. ASSUME call.kind = "entry", b
          PROVE  call.qty <= Claim(t) /\ Claim(t) \in Int /\ Claim(t) <= n
      <4>1. call.qty = exec[p] /\ exec[p] <= Claim(t)
        BY <1>2, <1>9, <1>12, <3>1
      <4>2. Claim(t) \in Int /\ Claim(t) <= n
        <5>1. ~Matches(p, t, "SELL")
          BY <1>11, <1>12, <3>1 DEF Matches, IsSell
        <5> QED
          BY <2>1, <2>2, <5>1, FillClaim
      <4> QED
        BY <4>1, <4>2
    <3> QED
      BY <1>11, <2>1, <3>1
  <2>6. Held(Answered(t, p, x, b), n)
    <3>1. /\ IsSell(p) /\ x > 0 => Held(AfterFill(pos[t], x, b), n)
          /\ ~(IsSell(p) /\ x > 0) => Held(pos[t], n)
      BY <1>11, <2>3, <2>4
    <3>2. call.kind = "entry" <=> ~IsSell(p)
      BY <1>11, <1>12
    <3> QED
      BY <1>10, <1>11, <2>1, <2>5, <3>1, <3>2, HeldAnswered
  <2>7. PosInv'
    <3> DEFINE y == Answered(t, p, x, b)
    <3>1. pos' = [pos EXCEPT ![t] = y] /\ Held(y, n)
      BY <1>10, <1>12, <2>6
    <3> HIDE DEF y
    <3> QED
      BY <2>1, <2>2, <3>1, FillUpdate
  <2> QED
    BY <1>1, <1>4, <2>7, NoCallLeft DEF Kept, CallTypeOK
<1> QED
  BY <1>11, <1>12

LEMMA SendFailedFlow ==
  ASSUME RouterInv, FlowInv, SalesBacked, ExitSendFailed
  PROVE  Kept'
<1>1. /\ calling # None /\ call' = NoCall /\ calling' = None /\ filled' = filled /\ Next
      /\ lingering' \in SUBSET Orders
  BY DEF ExitSendFailed, SendFailed, Next, Respond, FlowInv
<1> DEFINE s == call.sym
<1>2. /\ s \in Symbols /\ (call.kind \in {"partial", "close"} => pos[s].open)
  BY <1>1, CallFacts
<1>3. PICK x : /\ pos' = [pos EXCEPT ![s] = x]
               /\ \/ call.kind = "partial" /\ x \in Refreshed(pos[s], s)
                  \/ call.kind = "close" /\ x \in Failed(pos[s], s)
                  \/ x = pos[s]
  BY DEF ExitSendFailed
<1> HIDE DEF s
<1>4. /\ Held(pos[s], Claim(s)) /\ Claim(s) \in Nat /\ Claim(s) \in Int /\ PosInv
      /\ Holdings(s) \in Nat /\ Holdings(s) <= Claim(s)
  BY <1>2, PosFacts
<1>5. Held(x, Claim(s))
  <2>1. CASE call.kind = "partial" /\ x \in Refreshed(pos[s], s)
    BY <1>2, <1>4, <2>1, HeldRefreshed
  <2>2. CASE call.kind = "close" /\ x \in Failed(pos[s], s)
    BY <1>2, <1>4, <2>2, HeldFailed
  <2> QED
    BY <1>3, <1>4, <2>1, <2>2
<1>6. PosInv'
  BY <1>1, <1>2, <1>3, <1>4, <1>5, QuietChange
<1> QED
  BY <1>1, <1>6, NoCallLeft DEF Kept, CallTypeOK

-----------------------------------------------------------------------------
(* The broker goes on while a call is under way.                           *)

LEMMA BrokerFlow ==
  ASSUME RouterInv, FlowInv, SalesBacked, ClaimsCover', Retry \/ Broker, UNCHANGED exitVars
  PROVE  Kept'
<1>1. /\ Next /\ filled' = filled /\ ord' = ord /\ calling' = calling
      /\ pos' = pos /\ call' = call /\ lingering' = lingering
  BY DEF Next, Retry, Broker, BrokerAccept, BrokerFill, BrokerCancel, LostFill, LostCancel,
         routerVars, exitVars
<1>2. PosInv'
  BY <1>1, QuietSame DEF FlowInv
<1>3. ASSUME calling # None, call.kind = "entry", NEW s \in Symbols, call.sym = s
      PROVE  exec'[calling] <= Claim(s)'
  <2>1. /\ calling \in Orders /\ exec[calling] <= Claim(s) /\ IsBuy(calling)
        /\ ord[calling].sym = s
    BY <1>3, CallFacts
  <2>2. /\ Claim(s) \in Int /\ Claim(s)' \in Int /\ Claim(s)' >= Claim(s)
        /\ Claim(s)' - Claim(s) = Executed(s, "BUY")' - Executed(s, "BUY")
    BY <1>1, QuietClaim
  <2>3. exec \in [Orders -> 0..MaxQty] /\ exec[calling] \in Nat /\ Claim(s)' \in Nat
    BY <2>1, RouterAssumption DEF RouterInv, TypeOK, ClaimsCover
  <2>4. CASE Retry
    <3>1. exec'[calling] = 0
      BY <2>1, <2>3, <2>4 DEF Retry
    <3> QED
      BY <2>3, <3>1
  <2>5. CASE BrokerFill(calling)
    <3>1. Matches(calling, s, "BUY")
      BY <2>1 DEF Matches, IsBuy
    <3>2. Executed(s, "BUY")' = Executed(s, "BUY") + 1
      <4>1. RouterInv'
        BY <1>1, RouterStep
      <4>2. Fills(s, "BUY")
        BY <2>1, <2>5, <3>1, <4>1, FillSettles
      <4> QED
        BY <4>2 DEF Fills
    <3>3. exec'[calling] = exec[calling] + 1
      BY <2>1, <2>3, <2>5 DEF BrokerFill
    <3>4. Executed(s, "BUY") \in Nat
      BY Totals
    <3> QED
      BY <2>1, <2>2, <2>3, <3>2, <3>3, <3>4
  <2>6. CASE ~Retry /\ ~BrokerFill(calling)
    <3>1. exec'[calling] = exec[calling]
      BY <2>1, <2>3, <2>6 DEF Broker, BrokerAccept, BrokerFill, BrokerCancel, LostFill, LostCancel
    <3> QED
      BY <2>1, <2>2, <2>3, <3>1
  <2> QED
    BY <2>4, <2>5, <2>6
<1>4. CallInv'
  BY <1>1, <1>3 DEF CallInv, FlowInv
<1> QED
  BY <1>1, <1>2, <1>4 DEF Kept, FlowInv, CallTypeOK

LEMMA RestartFlow ==
  ASSUME RouterInv, ClaimsCover', ExitRestart
  PROVE  Kept'
<1>1. /\ pos' = [s \in Symbols |-> NoPosition] /\ calling' = None /\ call' = NoCall
      /\ lingering' = {}
  BY DEF ExitRestart, Restart
<1>2. ASSUME NEW s \in Symbols
      PROVE  NoPosition \in Positions /\ NoPosition.qty = 0 /\ 0 <= Claim(s)'
  <2>1. Held(NoPosition, 0) /\ Claim(s)' \in Nat
    BY HeldNothing DEF ClaimsCover
  <2> QED
    BY <2>1 DEF Held, NoPosition
<1>3. NoPosition.qty = 0
  BY DEF NoPosition
<1> HIDE DEF NoPosition
<1>4. PosInv'
  BY <1>1, <1>2, <1>3 DEF PosInv, Held
<1> QED
  BY <1>1, <1>4, NoCallLeft DEF Kept, CallTypeOK

LEMMA FlowStep ==
  ASSUME RouterInv, FlowInv, SalesBacked, [ExitNext]_allVars
  PROVE  RouterInv' /\ SalesBacked' /\ FlowInv'
<1>1. [Next]_vars
  BY ExitStep
<1>2. RouterInv' /\ SalesBacked' /\ SellReported'
  BY <1>1, RouterStep, SalesBackedStep, SellReportedStep DEF FlowInv
<1>3. ClaimsCover'
  BY <1>2, ClaimsNext
<1>4. Kept'
  <2>1. ASSUME NEW s \in Symbols, NEW o \in Orders,
               (\E n \in 1..MaxEntry, h \in Horizons : Enter(s, o, n, h)) \/ PartialExit(s, o)
        PROVE  Kept'
    BY <1>3, <2>1, EnterFlow, PartialExitFlow
  <2>2. ASSUME NEW s \in Symbols,
               \/ PartialExitSkipped(s) \/ PartialExitRefused(s)
               \/ OverrideExit(s) \/ ClosePosition(s)
               \/ ExitTimeout(s)
               \/ Adopt(s) \/ CloseMissing(s) \/ CorrectQty(s)
        PROVE  Kept'
    BY <1>3, <2>2, PartialExitNoneFlow, CancelFlow, ClosePositionFlow, ReconcilePositionFlow
  <2>3. CASE TimeoutResubmit \/ \E o \in Orders : LingeringTimeout(o)
    BY <1>3, <2>3, TimeoutFlow
  <2>4. CASE \E o \in Orders : ExitReconcile(o)
    BY <1>3, <2>4, ReconcileFlow
  <2>5. CASE ExitRespond
    BY <1>3, <2>5, AnsweredFlow, SendFailedFlow DEF ExitRespond
  <2>6. CASE Idle /\ (SyncCash \/ \E s \in Symbols : CooldownExpires(s)) /\ UNCHANGED exitVars
    <3>1. /\ calling' = None /\ filled' = filled /\ pos' = pos /\ call' = call
          /\ lingering' = lingering
      BY <2>6 DEF Idle, SyncCash, CooldownExpires, routerVars, exitVars
    <3>2. PosInv'
      BY <1>1, <3>1, QuietSame DEF FlowInv
    <3> QED
      BY <3>1, <3>2, NoCallLeft DEF Kept, FlowInv, CallTypeOK
  <2>7. CASE (Retry \/ Broker) /\ UNCHANGED exitVars
    BY <1>3, <2>7, BrokerFlow
  <2>8. CASE ExitRestart
    BY <1>3, <2>8, RestartFlow
  <2>9. CASE UNCHANGED allVars
    <3>1. /\ calling' = calling /\ filled' = filled /\ exec' = exec /\ ord' = ord
          /\ pos' = pos /\ call' = call /\ lingering' = lingering
      BY <2>9 DEF allVars, vars, routerVars, brokerVars, exitVars
    <3>2. PosInv'
      BY <1>1, <3>1, QuietSame DEF FlowInv
    <3>3. \A s \in Symbols : Claim(s)' >= Claim(s) /\ Claim(s) \in Int /\ Claim(s)' \in Int
      BY <1>1, <3>1, QuietClaim
    <3>4. \A s \in Symbols, n \in Int : n <= Claim(s) => n <= Claim(s)'
      BY <3>3
    <3>5. calling # None => exec[calling] \in Int
      BY DEF RouterInv, TypeOK
    <3>6. CallInv'
      BY <3>1, <3>4, <3>5 DEF CallInv, FlowInv
    <3> QED
      BY <3>1, <3>2, <3>6 DEF Kept, FlowInv, CallTypeOK
  <2> QED
    BY <2>1, <2>2, <2>3, <2>4, <2>5, <2>6, <2>7, <2>8, <2>9 DEF ExitNext
<1> QED
  BY <1>2, <1>4 DEF FlowInv, Kept

LEMMA FlowInit == ExitInit => RouterInv /\ FlowInv /\ SalesBacked
<1> SUFFICES ASSUME ExitInit PROVE RouterInv /\ FlowInv /\ SalesBacked
  OBVIOUS
<1>1. Init /\ RouterInv
  BY RouterInit DEF ExitInit
<1>2. SalesBacked
  <2> SUFFICES ASSUME NEW s \in Symbols PROVE 0 <= UnfilledSell(s) /\ UnfilledSell(s) <= Holdings(s)
    BY DEF SalesBacked
  <2>1. Executed(s, "BUY") = 0 /\ Executed(s, "SELL") = 0 /\ Unfilled(s, "SELL") = 0
    BY <1>1, InitTotals
  <2> QED
    BY <2>1 DEF Holdings, UnfilledSell
<1>3. SellReported
  <2>1. \A o \in Orders : filled[o] = 0 /\ exec[o] = 0
    BY <1>1 DEF Init
  <2> QED
    BY <2>1 DEF SellReported
<1>4. ClaimsCover
  BY <1>1, <1>2, <1>3, ClaimsNow
<1>5. PosInv
  <2>1. NoPosition \in Positions /\ NoPosition.qty = 0
    BY HeldNothing DEF Held, NoPosition
  <2>2. \A s \in Symbols : NoPosition.qty <= Claim(s)
    BY <1>4, <2>1 DEF ClaimsCover
  <2> HIDE DEF NoPosition
  <2>3. pos = [s \in Symbols |-> NoPosition]
    BY DEF ExitInit
  <2> QED
    BY <2>1, <2>2, <2>3 DEF PosInv, Held
<1>6. CallTypeOK /\ lingering = {} /\ calling = None
  BY <1>1 DEF ExitInit, Init, CallTypeOK
<1> QED
  BY <1>1, <1>2, <1>3, <1>5, <1>6 DEF FlowInv, CallInv

(* In every reachable state a position claims no more than was bought and  *)
(* not reported as sold, the call under way is about the router's request  *)
(* under way, no SELL is booked beyond its executions and no symbol is     *)
(* sold short (position_manager.py, persistence_manager.py).               *)
THEOREM FlowInvariant == ExitSpec => [](RouterInv /\ FlowInv /\ SalesBacked)
BY FlowInit, FlowStep, PTL DEF ExitSpec

(* Positions, the call under way and the orders of closed positions stay   *)
(* in their domains; an open position has failed to exit at most twice.    *)
THEOREM ExitTypeCorrect == ExitSpec => []ExitTypeOK
<1>1. FlowInv => ExitTypeOK
  BY DEF FlowInv, PosInv, CallTypeOK, Positions, ExitTypeOK
<1> QED
  BY <1>1, FlowInvariant, PTL

(* However entries, partial exits, closes, cancellations, resubmissions,   *)
(* adoptions, lost answers and restarts follow each other, a position      *)
(* claims no share beyond those held and the sales still to be reported or *)
(* never reported.                                                         *)
THEOREM PositionsCovered == ExitSpec => []PositionIsCovered
<1>1. ASSUME RouterInv, FlowInv, NEW s \in Symbols
      PROVE  pos[s].qty <= Holdings(s) +
               SumFunctionOnSet([o \in Orders |-> exec[o] - filled[o]],
                                {o \in Orders : Matches(o, s, "SELL")})
                 + SumFunctionOnSet([a \in DOMAIN lost |-> lost[a].exec], LostAt(s, "SELL"))
  <2>1. pos[s].qty <= Claim(s)
    BY <1>1 DEF FlowInv, PosInv, Held
  <2> QED
    BY <1>1, <2>1, ClaimMeans, Zenon
<1>2. RouterInv /\ FlowInv => PositionIsCovered
  BY <1>1, Zenon DEF PositionIsCovered
<1> QED
  BY <1>2, FlowInvariant, PTL
=============================================================================
