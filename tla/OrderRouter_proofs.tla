------------------------- MODULE OrderRouter_proofs -------------------------
(***************************************************************************)
(* Proofs about OrderRouter, for any number of orders, symbols, intents    *)
(* and restarts, any quantity and cash.                                    *)
(***************************************************************************)
EXTENDS OrderRouter, Sums_proofs

(* An order exists before the broker hears of it and is complete there at  *)
(* most once: what relates the router's record to the broker's.            *)
OrderInv ==
  \A o \in Orders :
    /\ status[o] # "NONE" => ord[o] \in OrderData
    /\ status[o] = "NONE" => filled[o] = 0 /\ bstate[o] = "none"
    /\ bstate[o] = "none" => exec[o] = 0
    /\ bstate[o] = "live" => exec[o] < ord[o].qty
    /\ exec[o] <= ord[o].qty

(* The order whose request is outstanding has just been registered.        *)
CallingInv == calling # None => status[calling] = "ORDER_SENT"

(* What repeated attempts left at the broker belongs to created orders and *)
(* is unfinished as long as it is live.                                    *)
LostInv ==
  \A o \in Orders, k \in Attempts :
    /\ lost[<<o, k>>].state # "none" => status[o] # "NONE"
    /\ lost[<<o, k>>].state = "live" => lost[<<o, k>>].exec < ord[o].qty

(* The inductive invariant.                                                *)
RouterInv ==
  /\ TypeOK
  /\ OrderInv
  /\ LostInv
  /\ CallingInv
  /\ PendingIffOpen
  /\ StatusMatchesFilled

-----------------------------------------------------------------------------
(* The ledger.                                                             *)

LEMMA CostNat ==
  ASSUME NEW n \in Nat
  PROVE  ReserveCost(n) \in Nat /\ FillCost(n) \in Nat
BY CostAssumption DEF ReserveCost, FillCost

(* What the ledger approves is never more than what was asked for.         *)
LEMMA ApprovedRange ==
  ASSUME CashTypeOK, NEW h, NEW n \in Nat, Approved(h, n) > 0
  PROVE  Approved(h, n) \in 1..n
<1> DEFINE fitting == SwingUsable10 \div (10 * UnitReserve)
<1>1. UsableCash \in Nat
  BY DEF CashTypeOK, UsableCash, Monus
<1>2. SwingUsable10 \in Int
  BY <1>1 DEF CashTypeOK, SwingUsable10, Monus
<1>3. 10 * UnitReserve \in Int /\ 10 * UnitReserve > 0
  BY CostAssumption
<1>4. fitting \in Int
  BY <1>2, <1>3
<1> DEFINE swing  == h = "SWING" /\ 10 * ReserveCost(n) > SwingUsable10
           wanted == IF swing THEN IF fitting < n THEN fitting ELSE 0 ELSE n
<1>5. Approved(h, n) = IF ReserveCost(wanted) <= UsableCash THEN wanted ELSE 0
  BY Zenon DEF Approved
<1> HIDE DEF fitting, swing
<1>6. wanted = n \/ wanted = 0 \/ (wanted = fitting /\ fitting < n)
  OBVIOUS
<1> HIDE DEF wanted
<1> QED
  BY <1>4, <1>5, <1>6

LEMMA ReserveType ==
  ASSUME CashTypeOK, NEW o \in Orders, NEW n \in Nat, Reserve(o, n)
  PROVE  CashTypeOK'
BY CostNat DEF CashTypeOK, Reserve

LEMMA SettleFillType ==
  ASSUME CashTypeOK, NEW o \in Orders, NEW n \in Nat, SettleFill(o, n)
  PROVE  CashTypeOK'
BY CostNat DEF CashTypeOK, SettleFill, Monus

LEMMA ReleaseType ==
  ASSUME CashTypeOK, NEW o \in Orders, ReleaseReservation(o)
  PROVE  CashTypeOK'
BY DEF CashTypeOK, ReleaseReservation, Monus

-----------------------------------------------------------------------------
(* A created order keeps what it asks for.                                 *)
LEMMA CreatedData ==
  ASSUME RouterInv, NEW o \in Orders, status[o] # "NONE"
  PROVE  /\ ord[o] \in OrderData
         /\ ord[o].sym \in Symbols
         /\ ord[o].qty \in 1..MaxQty
         /\ ord[o].intent \in Intents \cup {None}
BY DEF RouterInv, OrderInv, OrderData

(* A step that leaves the lost attempts alone, and what created orders ask *)
(* for, keeps what is known of them.                                       *)
LEMMA LostFrame ==
  ASSUME RouterInv, lost' = lost,
         \A o \in Orders : status[o] # "NONE" => ord'[o] = ord[o] /\ status'[o] # "NONE"
  PROVE  LostInv'
BY Zenon DEF RouterInv, LostInv

LEMMA RouterInit == Init => RouterInv
<1> SUFFICES ASSUME Init PROVE RouterInv
  OBVIOUS
<1> USE RouterAssumption DEF Init
<1>1. TypeOK
  <2>1. CashTypeOK
    BY DEF CashInit, CashTypeOK
  <2>2. /\ ord \in [Orders -> OrderData \cup {NoOrderYet}]
        /\ status \in [Orders -> Statuses]
        /\ bstate \in [Orders -> BrokerStates]
    BY DEF Statuses, BrokerStates
  <2>3. 0 \in 0..MaxQty /\ 0 \in 0..MaxRestarts
    OBVIOUS
  <2>4. filled \in [Orders -> 0..MaxQty] /\ exec \in [Orders -> 0..MaxQty]
    BY <2>3
  <2>5. /\ pending_entries \in [Symbols -> Orders \cup {None}]
        /\ executed_intent_ids \in [Intents -> Orders \cup {None}]
        /\ calling \in Orders \cup {None}
    OBVIOUS
  <2>6. account_cash \in Int /\ broker_cash \in Int /\ restarts \in 0..MaxRestarts
    BY <2>3
  <2>7. lost \in [Orders \X Attempts -> [state : BrokerStates, exec : 0..MaxQty]]
    BY <2>3 DEF BrokerStates
  <2> QED
    BY <2>1, <2>2, <2>4, <2>5, <2>6, <2>7 DEF TypeOK
<1>2. OrderInv
  <2> SUFFICES ASSUME NEW o \in Orders
               PROVE  /\ status[o] = "NONE" /\ filled[o] = 0 /\ bstate[o] = "none"
                      /\ exec[o] = 0 /\ exec[o] <= ord[o].qty
    BY Zenon DEF OrderInv
  <2>1. exec[o] = 0 /\ ord[o].qty = 0
    BY DEF NoOrderYet
  <2> QED
    BY <2>1
<1>3. CallingInv /\ PendingIffOpen /\ StatusMatchesFilled
  BY DEF CallingInv, PendingIffOpen, StatusMatchesFilled, OpenStatuses
<1>4. LostInv
  <2> SUFFICES ASSUME NEW o \in Orders, NEW k \in Attempts
               PROVE  lost[<<o, k>>].state = "none"
    BY Zenon DEF LostInv
  <2>1. lost[<<o, k>>] = [state |-> "none", exec |-> 0]
    OBVIOUS
  <2> QED
    BY <2>1
<1> QED
  BY <1>1, <1>2, <1>3, <1>4 DEF RouterInv

-----------------------------------------------------------------------------
(* Every step keeps the invariant, one lemma per action.                   *)

LEMMA BrokerAcceptInv ==
  ASSUME RouterInv, BrokerAccept PROVE RouterInv'
<1> USE DEF BrokerAccept, cashVars, routerVars
<1>1. calling \in Orders /\ status[calling] = "ORDER_SENT"
  BY DEF RouterInv, TypeOK, CallingInv
<1>2. ord[calling].qty \in 1..MaxQty
  BY <1>1, CreatedData
<1>3. TypeOK'
  BY <1>1 DEF RouterInv, TypeOK, CashTypeOK, BrokerStates
<1>4. OrderInv'
  BY <1>1, <1>2, RouterAssumption DEF RouterInv, TypeOK, OrderInv
<1>5. (CallingInv /\ PendingIffOpen /\ StatusMatchesFilled)'
  BY DEF RouterInv, CallingInv, PendingIffOpen, StatusMatchesFilled
<1>6. LostInv'
  BY LostFrame DEF RouterInv, TypeOK
<1> QED
  BY <1>3, <1>4, <1>5, <1>6 DEF RouterInv

LEMMA BrokerFillInv ==
  ASSUME RouterInv, NEW o \in Orders, BrokerFill(o) PROVE RouterInv'
<1> USE DEF BrokerFill, cashVars, routerVars
<1>1. status[o] # "NONE"
  BY DEF RouterInv, OrderInv
<1>2. ord[o].qty \in 1..MaxQty
  BY <1>1, CreatedData
<1>3. exec[o] + 1 \in 0..MaxQty /\ exec[o] + 1 <= ord[o].qty
  BY <1>2, RouterAssumption DEF RouterInv, TypeOK, OrderInv
<1>4. TypeOK'
  BY <1>3, CostAssumption DEF RouterInv, TypeOK, CashTypeOK, BrokerStates, CashAfterFill
<1>5. OrderInv'
  <2> SUFFICES ASSUME NEW p \in Orders
               PROVE  /\ status[p] # "NONE" => ord[p] \in OrderData
                      /\ status[p] = "NONE" => filled[p] = 0 /\ bstate'[p] = "none"
                      /\ bstate'[p] = "none" => exec'[p] = 0
                      /\ bstate'[p] = "live" => exec'[p] < ord[p].qty
                      /\ exec'[p] <= ord[p].qty
    BY DEF OrderInv
  <2>1. CASE p # o
    BY <2>1 DEF RouterInv, TypeOK, OrderInv
  <2>2. CASE p = o
    <3>1. exec'[o] = exec[o] + 1
      BY DEF RouterInv, TypeOK
    <3>2. bstate'[o] = IF exec[o] + 1 = ord[o].qty THEN "done" ELSE "live"
      BY DEF RouterInv, TypeOK
    <3> QED
      BY <1>1, <1>2, <1>3, <2>2, <3>1, <3>2 DEF RouterInv, OrderInv
  <2> QED
    BY <2>1, <2>2
<1>6. (CallingInv /\ PendingIffOpen /\ StatusMatchesFilled)'
  BY DEF RouterInv, CallingInv, PendingIffOpen, StatusMatchesFilled
<1>7. LostInv'
  BY LostFrame DEF RouterInv, TypeOK
<1> QED
  BY <1>4, <1>5, <1>6, <1>7 DEF RouterInv

LEMMA BrokerCancelInv ==
  ASSUME RouterInv, NEW o \in Orders, BrokerCancel(o) PROVE RouterInv'
<1> USE DEF BrokerCancel, cashVars, routerVars
<1>1. TypeOK'
  BY DEF RouterInv, TypeOK, CashTypeOK, BrokerStates
<1>2. OrderInv'
  BY DEF RouterInv, TypeOK, OrderInv
<1>3. (CallingInv /\ PendingIffOpen /\ StatusMatchesFilled)'
  BY DEF RouterInv, CallingInv, PendingIffOpen, StatusMatchesFilled
<1>4. LostInv'
  BY LostFrame DEF RouterInv, TypeOK
<1> QED
  BY <1>1, <1>2, <1>3, <1>4 DEF RouterInv

(* The attempt whose answer was lost is set aside, and the order is sent   *)
(* again.                                                                  *)
LEMMA RetryInv ==
  ASSUME RouterInv, Retry PROVE RouterInv'
<1> USE DEF Retry, cashVars, routerVars
<1>1. calling \in Orders /\ status[calling] = "ORDER_SENT"
  BY DEF RouterInv, TypeOK, CallingInv
<1>2. PICK k \in Attempts :
        lost' = [lost EXCEPT ![<<calling, k>>] = [state |-> bstate[calling], exec |-> exec[calling]]]
  BY Zenon
<1>3. /\ bstate' = [bstate EXCEPT ![calling] = "none"]
      /\ exec' = [exec EXCEPT ![calling] = 0]
  BY Zenon
<1>4. TypeOK'
  <2>1. [state |-> bstate[calling], exec |-> exec[calling]] \in [state : BrokerStates, exec : 0..MaxQty]
    BY <1>1 DEF RouterInv, TypeOK
  <2>2. lost' \in [Orders \X Attempts -> [state : BrokerStates, exec : 0..MaxQty]]
    BY <1>2, <2>1 DEF RouterInv, TypeOK
  <2>3. bstate' \in [Orders -> BrokerStates] /\ exec' \in [Orders -> 0..MaxQty]
    BY <1>3, RouterAssumption DEF RouterInv, TypeOK, BrokerStates
  <2> QED
    BY <2>2, <2>3 DEF RouterInv, TypeOK, CashTypeOK
<1>5. OrderInv'
  <2>1. ord[calling].qty \in 1..MaxQty
    BY <1>1, CreatedData
  <2> QED
    BY <1>1, <1>3, <2>1, RouterAssumption DEF RouterInv, TypeOK, OrderInv
<1>6. LostInv'
  <2> SUFFICES ASSUME NEW p \in Orders, NEW j \in Attempts
               PROVE  /\ lost'[<<p, j>>].state # "none" => status[p] # "NONE"
                      /\ lost'[<<p, j>>].state = "live" => lost'[<<p, j>>].exec < ord[p].qty
    BY Zenon DEF LostInv
  <2>1. CASE <<p, j>> = <<calling, k>>
    <3>1. p = calling /\ lost'[<<p, j>>] = [state |-> bstate[p], exec |-> exec[p]]
      BY <1>1, <1>2, <2>1 DEF RouterInv, TypeOK
    <3> QED
      BY <1>1, <3>1 DEF RouterInv, OrderInv
  <2>2. CASE <<p, j>> # <<calling, k>>
    <3>1. lost'[<<p, j>>] = lost[<<p, j>>]
      BY <1>2, <2>2 DEF RouterInv, TypeOK
    <3> QED
      BY <3>1 DEF RouterInv, LostInv
  <2> QED
    BY <2>1, <2>2
<1>7. (CallingInv /\ PendingIffOpen /\ StatusMatchesFilled)'
  BY DEF RouterInv, CallingInv, PendingIffOpen, StatusMatchesFilled
<1> QED
  BY <1>4, <1>5, <1>6, <1>7 DEF RouterInv

(* What a repeated attempt left behind moves on by itself.                 *)
LEMMA LostStepInv ==
  ASSUME RouterInv, NEW o \in Orders, NEW k \in Attempts,
         LostFill(<<o, k>>) \/ LostCancel(<<o, k>>)
  PROVE  RouterInv'
<1> DEFINE a == <<o, k>>
<1> USE DEF cashVars, routerVars
<1>1. lost[a].state = "live" /\ lost[a].exec \in 0..MaxQty /\ lost[a].exec < ord[o].qty
  BY DEF LostFill, LostCancel, RouterInv, TypeOK, LostInv
<1>2. status[o] # "NONE" /\ ord[o].qty \in 1..MaxQty
  <2>1. status[o] # "NONE"
    BY <1>1 DEF RouterInv, LostInv
  <2> QED
    BY <2>1, CreatedData
<1>3. PICK r \in [state : BrokerStates, exec : 0..MaxQty] :
        /\ lost' = [lost EXCEPT ![a] = r]
        /\ r.state = "live" => r.exec < ord[o].qty
  <2>1. CASE LostFill(a)
    <3> DEFINE r == [state |-> IF lost[a].exec + 1 = ord[o].qty THEN "done" ELSE "live",
                     exec |-> lost[a].exec + 1]
    <3>1. lost' = [lost EXCEPT ![a] = r]
      BY <2>1 DEF LostFill
    <3>2. lost[a].exec + 1 \in 0..MaxQty /\ lost[a].exec + 1 <= ord[o].qty
      BY <1>1, <1>2, RouterAssumption
    <3>3. r \in [state : BrokerStates, exec : 0..MaxQty]
      BY <3>2 DEF BrokerStates
    <3>4. r.state = "live" => r.exec < ord[o].qty
      BY <1>1, <1>2, <3>2, RouterAssumption
    <3> QED
      BY <3>1, <3>3, <3>4
  <2>2. CASE LostCancel(a)
    <3> DEFINE r == [state |-> "cancelled", exec |-> lost[a].exec]
    <3>1. lost' = [lost EXCEPT ![a] = r]
      BY <2>2 DEF LostCancel
    <3>2. r \in [state : BrokerStates, exec : 0..MaxQty] /\ r.state # "live"
      BY <1>1 DEF BrokerStates
    <3> QED
      BY <3>1, <3>2
  <2> QED
    BY <2>1, <2>2
<1>4. /\ UNCHANGED <<cashVars, routerVars, account_cash, bstate, exec, restarts, dry_run>>
      /\ broker_cash' \in Int
  BY CostAssumption DEF LostFill, LostCancel, CashAfterFill, RouterInv, TypeOK
<1>5. TypeOK'
  BY <1>3, <1>4 DEF RouterInv, TypeOK, CashTypeOK
<1>6. (OrderInv /\ CallingInv /\ PendingIffOpen /\ StatusMatchesFilled)'
  BY <1>4 DEF RouterInv, OrderInv, CallingInv, PendingIffOpen, StatusMatchesFilled
<1>7. LostInv'
  <2> SUFFICES ASSUME NEW p \in Orders, NEW j \in Attempts
               PROVE  /\ lost'[<<p, j>>].state # "none" => status[p] # "NONE"
                      /\ lost'[<<p, j>>].state = "live" => lost'[<<p, j>>].exec < ord[p].qty
    BY <1>4, Zenon DEF LostInv
  <2>1. CASE <<p, j>> = a
    <3>1. p = o /\ lost'[<<p, j>>] = r
      BY <1>3, <2>1 DEF RouterInv, TypeOK
    <3> QED
      BY <1>2, <1>3, <3>1
  <2>2. CASE <<p, j>> # a
    <3>1. lost'[<<p, j>>] = lost[<<p, j>>]
      BY <1>3, <2>2 DEF RouterInv, TypeOK
    <3> QED
      BY <3>1 DEF RouterInv, LostInv
  <2> QED
    BY <2>1, <2>2
<1> QED
  BY <1>5, <1>6, <1>7 DEF RouterInv

(* An order that passed the checks is registered with n shares.            *)
LEMMA RegisterInv ==
  ASSUME RouterInv, NEW o \in Orders, NEW s \in Symbols, NEW sd \in Sides,
         NEW n \in 1..MaxQty, NEW i \in Intents \cup {None},
         status[o] = "NONE", Register(o, s, sd, n, i), CashTypeOK',
         cooling' \in SUBSET Symbols,
         UNCHANGED <<filled, critical_exit_failure_active, account_cash,
                     brokerVars, restarts, dry_run>>
  PROVE  RouterInv'
<1> USE DEF Register, brokerVars
<1>1. [sym |-> s, side |-> sd, qty |-> n, intent |-> i] \in OrderData
  BY DEF OrderData
<1>2. filled[o] = 0 /\ bstate[o] = "none" /\ exec[o] = 0
  BY DEF RouterInv, OrderInv
<1>3. "ORDER_SENT" \in OpenStatuses /\ "ORDER_SENT" \in Statuses
  BY DEF Statuses, OpenStatuses
<1>4. TypeOK'
  <2>1. ord' \in [Orders -> OrderData \cup {NoOrderYet}] /\ status' \in [Orders -> Statuses]
    BY <1>1, <1>3 DEF RouterInv, TypeOK
  <2>2. /\ pending_orders' \in SUBSET Orders
        /\ pending_entries' \in [Symbols -> Orders \cup {None}]
        /\ executed_intent_ids' \in [Intents -> Orders \cup {None}]
        /\ calling' \in Orders \cup {None}
    BY DEF RouterInv, TypeOK
  <2> QED
    BY <2>1, <2>2 DEF RouterInv, TypeOK
<1>5. OrderInv'
  BY <1>1, <1>2, RouterAssumption DEF RouterInv, TypeOK, OrderInv
<1>6. CallingInv'
  BY DEF RouterInv, TypeOK, CallingInv
<1>7. PendingIffOpen'
  BY <1>3 DEF RouterInv, TypeOK, PendingIffOpen
<1>8. StatusMatchesFilled'
  BY <1>2 DEF RouterInv, TypeOK, StatusMatchesFilled
<1>9. LostInv'
  BY <1>3, LostFrame DEF RouterInv, TypeOK
<1> QED
  BY <1>4, <1>5, <1>6, <1>7, <1>8, <1>9 DEF RouterInv

LEMMA SubmitBuyInv ==
  ASSUME RouterInv, NEW o \in Orders, NEW s \in Symbols, NEW n \in 1..MaxQty,
         NEW h \in Horizons, NEW i \in Intents \cup {None}, SubmitBuy(o, s, n, h, i)
  PROVE  RouterInv'
<1>1. CashTypeOK /\ cooling \in SUBSET Symbols
  BY DEF RouterInv, TypeOK
<1>2. n \in Nat /\ Approved(h, n) > 0 /\ status[o] = "NONE"
  BY RouterAssumption DEF SubmitBuy, NewOrder
<1>3. Approved(h, n) \in 1..n
  BY <1>1, <1>2, ApprovedRange
<1>4. Approved(h, n) \in 1..MaxQty /\ Approved(h, n) \in Nat
  BY <1>3, RouterAssumption
<1>5. CashTypeOK'
  BY <1>1, <1>4, ReserveType DEF SubmitBuy
<1>6. /\ Register(o, s, "BUY", Approved(h, n), i)
      /\ cooling' \in SUBSET Symbols
      /\ UNCHANGED <<filled, critical_exit_failure_active, account_cash,
                     brokerVars, restarts, dry_run>>
  BY <1>1 DEF SubmitBuy, NewOrder
<1> QED
  BY <1>2, <1>4, <1>5, <1>6, RegisterInv DEF Sides

LEMMA SubmitSellInv ==
  ASSUME RouterInv, NEW o \in Orders, NEW s \in Symbols, NEW n \in 1..MaxQty,
         NEW i \in Intents \cup {None}, SubmitSell(o, s, n, i)
  PROVE  RouterInv'
<1>1. CashTypeOK' /\ cooling' \in SUBSET Symbols
  BY DEF RouterInv, TypeOK, SubmitSell, NewOrder, cashVars, CashTypeOK
<1>2. /\ Register(o, s, "SELL", n, i) /\ status[o] = "NONE"
      /\ UNCHANGED <<filled, critical_exit_failure_active, account_cash,
                     brokerVars, restarts, dry_run>>
  BY DEF SubmitSell, NewOrder
<1> QED
  BY <1>1, <1>2, RegisterInv DEF Sides

LEMMA SubmitBuyNoCashInv ==
  ASSUME RouterInv, NEW o \in Orders, NEW s \in Symbols, NEW n \in 1..MaxQty,
         NEW h \in Horizons, NEW i \in Intents \cup {None},
         SubmitBuyNoCash(o, s, n, h, i)
  PROVE  RouterInv'
<1> USE DEF SubmitBuyNoCash, NewOrder, cashVars, brokerVars
<1>1. [sym |-> s, side |-> "BUY", qty |-> n, intent |-> i] \in OrderData
  BY DEF OrderData, Sides
<1>2. filled[o] = 0 /\ bstate[o] = "none" /\ exec[o] = 0
  BY DEF RouterInv, OrderInv
<1>3. "REJECTED" \in Statuses /\ "REJECTED" \notin OpenStatuses /\ "NONE" \notin OpenStatuses
  BY DEF Statuses, OpenStatuses, TerminalStatuses
<1>4. TypeOK'
  BY <1>1, <1>3 DEF RouterInv, TypeOK, CashTypeOK
<1>5. OrderInv'
  BY <1>1, <1>2, RouterAssumption DEF RouterInv, TypeOK, OrderInv
<1>6. CallingInv'
  BY DEF RouterInv, TypeOK, CallingInv
<1>7. PendingIffOpen'
  BY <1>3 DEF RouterInv, TypeOK, PendingIffOpen
<1>8. StatusMatchesFilled'
  BY <1>2 DEF RouterInv, TypeOK, StatusMatchesFilled
<1>9. LostInv'
  BY <1>3, LostFrame DEF RouterInv, TypeOK
<1> QED
  BY <1>4, <1>5, <1>6, <1>7, <1>8, <1>9 DEF RouterInv

(* on_fill books n executed shares of a pending order.                     *)
LEMMA OnFillInv ==
  ASSUME RouterInv, NEW o \in Orders, o \in pending_orders, NEW n \in 1..ord[o].qty,
         OnFill(o, n), calling' = None,
         UNCHANGED <<ord, executed_intent_ids, cooling, critical_exit_failure_active,
                     account_cash, brokerVars, restarts, dry_run>>
  PROVE  RouterInv'
<1> USE DEF brokerVars
<1>1. /\ status[o] # "NONE"
      /\ ord[o].sym \in Symbols /\ ord[o].qty \in 1..MaxQty
  <2>1. status[o] \in OpenStatuses
    BY DEF RouterInv, PendingIffOpen
  <2> QED
    BY <2>1, CreatedData DEF OpenStatuses
<1>2. n \in Nat /\ n \in 0..MaxQty /\ n > 0
  BY <1>1, RouterAssumption
<1>3. CashTypeOK'
  BY <1>2, SettleFillType DEF OnFill, RouterInv, TypeOK, CashTypeOK, cashVars
<1>4. /\ filled' = [filled EXCEPT ![o] = n]
      /\ status' = [status EXCEPT ![o] = IF n = ord[o].qty THEN "FILLED" ELSE "PARTIAL_FILL"]
      /\ pending_orders' = IF n = ord[o].qty THEN pending_orders \ {o} ELSE pending_orders
      /\ pending_entries' = IF n = ord[o].qty THEN [pending_entries EXCEPT ![ord[o].sym] = None]
                                              ELSE pending_entries
  BY Zenon DEF OnFill
<1>5. /\ {"FILLED", "PARTIAL_FILL"} \subseteq Statuses
      /\ "PARTIAL_FILL" \in OpenStatuses /\ "FILLED" \notin OpenStatuses
  BY DEF Statuses, OpenStatuses, TerminalStatuses
<1>6. TypeOK'
  BY <1>1, <1>2, <1>3, <1>4, <1>5 DEF RouterInv, TypeOK
<1>7. OrderInv'
  BY <1>1, <1>4 DEF RouterInv, TypeOK, OrderInv
<1>8. CallingInv'
  BY DEF CallingInv
<1>9. PendingIffOpen'
  BY <1>4, <1>5 DEF RouterInv, TypeOK, PendingIffOpen
<1>10. StatusMatchesFilled'
  <2> SUFFICES ASSUME NEW p \in Orders
               PROVE  /\ status'[p] \in {"ORDER_SENT", "ORDER_ACK"} => filled'[p] = 0
                      /\ status'[p] = "PARTIAL_FILL" => filled'[p] \in 1..(ord[p].qty - 1)
                      /\ status'[p] = "FILLED" => filled'[p] = ord[p].qty
    BY DEF StatusMatchesFilled
  <2>1. CASE p # o
    BY <1>4, <2>1 DEF RouterInv, TypeOK, StatusMatchesFilled
  <2>2. CASE p = o
    <3>1. filled'[o] = n /\ status'[o] = IF n = ord[o].qty THEN "FILLED" ELSE "PARTIAL_FILL"
      BY <1>4 DEF RouterInv, TypeOK
    <3>2. n # ord[o].qty => n \in 1..(ord[o].qty - 1)
      BY <1>1, <1>2, RouterAssumption
    <3> QED
      BY <2>2, <3>1, <3>2
  <2> QED
    BY <2>1, <2>2
<1>11. LostInv'
  BY <1>4, LostFrame DEF RouterInv, TypeOK
<1> QED
  BY <1>6, <1>7, <1>8, <1>9, <1>10, <1>11 DEF RouterInv

LEMMA AckReceivedInv ==
  ASSUME RouterInv, AckReceived PROVE RouterInv'
<1>1. calling \in Orders /\ status[calling] = "ORDER_SENT"
  BY DEF AckReceived, RouterInv, TypeOK, CallingInv
<1>2. ord[calling].qty \in 1..MaxQty
  BY <1>1, CreatedData
<1>3. CASE exec[calling] > 0 /\ OnFill(calling, exec[calling])
  <2>1. exec[calling] \in 1..ord[calling].qty
    BY <1>1, <1>2, <1>3, RouterAssumption DEF RouterInv, TypeOK, OrderInv
  <2>2. calling \in pending_orders
    BY <1>1 DEF RouterInv, PendingIffOpen, OpenStatuses
  <2> QED
    BY <1>1, <1>3, <2>1, <2>2, OnFillInv DEF AckReceived
<1>4. CASE /\ status' = [status EXCEPT ![calling] = "ORDER_ACK"]
           /\ UNCHANGED <<cashVars, filled, pending_orders, pending_entries>>
  <2> USE <1>4 DEF AckReceived, cashVars, brokerVars
  <2>1. "ORDER_ACK" \in Statuses /\ {"ORDER_ACK", "ORDER_SENT"} \subseteq OpenStatuses
    BY DEF Statuses, OpenStatuses
  <2>2. TypeOK'
    BY <1>1, <2>1 DEF RouterInv, TypeOK, CashTypeOK
  <2>3. OrderInv'
    BY <1>1 DEF RouterInv, TypeOK, OrderInv
  <2>4. CallingInv'
    BY DEF CallingInv
  <2>5. PendingIffOpen'
    BY <1>1, <2>1 DEF RouterInv, TypeOK, PendingIffOpen
  <2>6. StatusMatchesFilled'
    BY <1>1 DEF RouterInv, TypeOK, StatusMatchesFilled
  <2>7. LostInv'
    BY <1>1, LostFrame DEF RouterInv, TypeOK
  <2> QED
    BY <2>2, <2>3, <2>4, <2>5, <2>6, <2>7 DEF RouterInv
<1> QED
  BY <1>3, <1>4 DEF AckReceived

LEMMA SendFailedInv ==
  ASSUME RouterInv, SendFailed PROVE RouterInv'
<1> USE DEF SendFailed, brokerVars
<1>1. calling \in Orders /\ status[calling] = "ORDER_SENT"
  BY DEF RouterInv, TypeOK, CallingInv
<1>2. "REJECTED" \in Statuses /\ "REJECTED" \notin OpenStatuses
  BY DEF Statuses, OpenStatuses, TerminalStatuses
<1>3. CashTypeOK'
  BY <1>1, ReleaseType DEF RouterInv, TypeOK, CashTypeOK, cashVars
<1>4. TypeOK'
  BY <1>1, <1>2, <1>3 DEF RouterInv, TypeOK
<1>5. OrderInv'
  BY <1>1 DEF RouterInv, TypeOK, OrderInv
<1>6. CallingInv'
  BY DEF CallingInv
<1>7. PendingIffOpen'
  BY <1>1, <1>2 DEF RouterInv, TypeOK, PendingIffOpen
<1>8. StatusMatchesFilled'
  BY <1>1 DEF RouterInv, TypeOK, StatusMatchesFilled
<1>9. LostInv'
  BY <1>1, LostFrame DEF RouterInv, TypeOK
<1> QED
  BY <1>4, <1>5, <1>6, <1>7, <1>8, <1>9 DEF RouterInv

LEMMA PaperFillInv ==
  ASSUME RouterInv, PaperFill PROVE RouterInv'
<1> USE DEF PaperFill, brokerVars
<1>1. calling \in Orders /\ status[calling] = "ORDER_SENT"
  BY DEF RouterInv, TypeOK, CallingInv
<1>2. ord[calling].qty \in 1..MaxQty
  BY <1>1, CreatedData
<1>3. ord[calling].qty \in Nat /\ ord[calling].qty \in 0..MaxQty
  BY <1>2, RouterAssumption
<1>4. "FILLED" \in Statuses /\ "FILLED" \notin OpenStatuses
  BY DEF Statuses, OpenStatuses, TerminalStatuses
<1>5. CashTypeOK'
  BY <1>1, <1>3, SettleFillType DEF RouterInv, TypeOK, CashTypeOK, cashVars
<1>6. TypeOK'
  BY <1>1, <1>3, <1>4, <1>5 DEF RouterInv, TypeOK
<1>7. OrderInv'
  BY <1>1 DEF RouterInv, TypeOK, OrderInv
<1>8. CallingInv'
  BY DEF CallingInv
<1>9. PendingIffOpen'
  BY <1>1, <1>4 DEF RouterInv, TypeOK, PendingIffOpen
<1>10. StatusMatchesFilled'
  BY <1>1 DEF RouterInv, TypeOK, StatusMatchesFilled
<1>11. LostInv'
  BY <1>1, LostFrame DEF RouterInv, TypeOK
<1> QED
  BY <1>6, <1>7, <1>8, <1>9, <1>10, <1>11 DEF RouterInv

LEMMA ReconcileInv ==
  ASSUME RouterInv, NEW o \in Orders, Reconcile(o) PROVE RouterInv'
<1>1. o \in pending_orders /\ calling = None
  BY DEF Reconcile, ReconcileFill, ReconcileCanceled, ReconcileByHoldings, CanReconcile
<1>2. status[o] # "NONE"
  BY <1>1 DEF RouterInv, PendingIffOpen, OpenStatuses
<1>3. ord[o].qty \in 1..MaxQty /\ ord[o].sym \in Symbols
  BY <1>2, CreatedData
<1>4. CASE ReconcileFill(o)
  <2>1. exec[o] \in 1..ord[o].qty
    BY <1>3, <1>4, RouterAssumption DEF ReconcileFill, RouterInv, TypeOK, OrderInv
  <2> QED
    BY <1>1, <1>4, <2>1, OnFillInv DEF ReconcileFill
<1>5. CASE ReconcileByHoldings(o)
  <2>1. ord[o].qty \in 1..ord[o].qty
    BY <1>3, RouterAssumption
  <2> QED
    BY <1>1, <1>5, <2>1, OnFillInv DEF ReconcileByHoldings
<1>6. CASE ReconcileCanceled(o)
  <2> USE <1>6 DEF ReconcileCanceled, cashVars, brokerVars
  <2>1. "CANCELED" \in Statuses /\ "CANCELED" \notin OpenStatuses
    BY DEF Statuses, OpenStatuses, TerminalStatuses
  <2>2. TypeOK'
    BY <1>3, <2>1 DEF RouterInv, TypeOK, CashTypeOK
  <2>3. OrderInv'
    BY <1>2 DEF RouterInv, TypeOK, OrderInv
  <2>4. CallingInv'
    BY <1>1 DEF CallingInv
  <2>5. PendingIffOpen'
    BY <2>1 DEF RouterInv, TypeOK, PendingIffOpen
  <2>6. StatusMatchesFilled'
    BY DEF RouterInv, TypeOK, StatusMatchesFilled
  <2>7. LostInv'
    BY LostFrame DEF RouterInv, TypeOK
  <2> QED
    BY <2>2, <2>3, <2>4, <2>5, <2>6, <2>7 DEF RouterInv
<1> QED
  BY <1>4, <1>5, <1>6 DEF Reconcile

LEMMA CancelOrderInv ==
  ASSUME RouterInv, NEW o \in Orders, CancelOrder(o) PROVE RouterInv'
<1>1. status[o] # "NONE"
  BY DEF CancelOrder, RouterInv, PendingIffOpen, OpenStatuses
<1>2. ord[o].sym \in Symbols
  BY <1>1, CreatedData
<1>3. "CANCELLED" \in Statuses /\ "CANCELLED" \notin OpenStatuses
  BY DEF Statuses, OpenStatuses, TerminalStatuses
<1>4. /\ bstate' \in [Orders -> BrokerStates]
      /\ \A p \in Orders : \/ bstate'[p] = bstate[p]
                            \/ (bstate[p] = "live" /\ bstate'[p] = "cancelled")
  <2>1. bstate \in [Orders -> BrokerStates]
    BY DEF RouterInv, TypeOK
  <2>2. CASE bstate' = bstate
    BY <2>1, <2>2
  <2>3. CASE bstate' = [bstate EXCEPT ![o] = IF bstate[o] = "live" THEN "cancelled" ELSE bstate[o]]
    BY <2>1, <2>3 DEF BrokerStates
  <2> QED
    BY <2>2, <2>3 DEF CancelOrder
<1> USE DEF CancelOrder, cashVars
<1>5. TypeOK'
  BY <1>2, <1>3, <1>4 DEF RouterInv, TypeOK, CashTypeOK
<1>6. OrderInv'
  BY <1>1, <1>4 DEF RouterInv, TypeOK, OrderInv
<1>7. CallingInv'
  BY DEF CallingInv
<1>8. PendingIffOpen'
  BY <1>3 DEF RouterInv, TypeOK, PendingIffOpen
<1>9. StatusMatchesFilled'
  BY DEF RouterInv, TypeOK, StatusMatchesFilled
<1>10. LostInv'
  BY LostFrame DEF RouterInv, TypeOK
<1> QED
  BY <1>5, <1>6, <1>7, <1>8, <1>9, <1>10 DEF RouterInv

LEMMA SyncCashInv ==
  ASSUME RouterInv, SyncCash PROVE RouterInv'
<1> DEFINE cash == IF broker_cash > 0 \/ account_cash <= 0 THEN broker_cash ELSE account_cash
<1>1. cash \in Int
  BY DEF RouterInv, TypeOK
<1>2. /\ account_cash' = cash /\ SyncBrokerCash(cash)
      /\ UNCHANGED <<routerVars, brokerVars, restarts, dry_run>>
  BY DEF SyncCash
<1> HIDE DEF cash
<1>3. CashTypeOK'
  BY <1>1, <1>2 DEF SyncBrokerCash, Monus, RouterInv, TypeOK, CashTypeOK
<1>4. TypeOK'
  BY <1>1, <1>2, <1>3 DEF RouterInv, TypeOK, routerVars, brokerVars
<1>5. (OrderInv /\ CallingInv /\ PendingIffOpen /\ StatusMatchesFilled)'
  BY <1>2 DEF RouterInv, OrderInv, CallingInv, PendingIffOpen, StatusMatchesFilled,
              routerVars, brokerVars
<1>6. LostInv'
  BY <1>2, LostFrame DEF routerVars, brokerVars
<1> QED
  BY <1>4, <1>5, <1>6 DEF RouterInv

(* The cooldown and the critical-exit flag are read by submit_order only.  *)
LEMMA FlagStepInv ==
  ASSUME RouterInv,
         (\E s \in Symbols : CooldownExpires(s)) \/ (\E b \in BOOLEAN : SetCriticalExitFailure(b))
  PROVE  RouterInv'
<1> USE DEF CooldownExpires, SetCriticalExitFailure, cashVars, brokerVars
<1>1. TypeOK'
  BY DEF RouterInv, TypeOK, CashTypeOK
<1>2. (OrderInv /\ CallingInv /\ PendingIffOpen /\ StatusMatchesFilled)'
  BY DEF RouterInv, OrderInv, CallingInv, PendingIffOpen, StatusMatchesFilled
<1>3. LostInv'
  BY LostFrame DEF brokerVars
<1> QED
  BY <1>1, <1>2, <1>3 DEF RouterInv

LEMMA RestartInv ==
  ASSUME RouterInv, Restart PROVE RouterInv'
<1> USE DEF Restart, brokerVars
<1>1. {"NONE", "FORGOTTEN"} \subseteq Statuses
  BY DEF Statuses
<1>2. \A o \in Orders : status'[o] = IF status[o] # "NONE" THEN "FORGOTTEN" ELSE "NONE"
  BY DEF Created
<1>3. TypeOK'
  <2>1. CashTypeOK'
    BY DEF CashTypeOK, RouterInv, TypeOK, Monus
  <2>2. status' \in [Orders -> Statuses] /\ restarts' \in 0..MaxRestarts
    BY <1>1, RouterAssumption DEF RouterInv, TypeOK
  <2> QED
    BY <2>1, <2>2 DEF RouterInv, TypeOK
<1>4. OrderInv'
  BY <1>2 DEF RouterInv, OrderInv
<1>5. CallingInv'
  BY DEF CallingInv
<1>6. PendingIffOpen'
  BY <1>2 DEF PendingIffOpen, OpenStatuses
<1>7. StatusMatchesFilled'
  BY <1>2 DEF StatusMatchesFilled
<1>8. LostInv'
  BY <1>2, LostFrame DEF brokerVars
<1> QED
  BY <1>3, <1>4, <1>5, <1>6, <1>7, <1>8 DEF RouterInv

LEMMA RouterStep ==
  ASSUME RouterInv, [Next]_vars PROVE RouterInv'
<1>1. CASE Submit
  BY <1>1, SubmitBuyInv, SubmitBuyNoCashInv, SubmitSellInv DEF Submit
<1>2. CASE Respond
  BY <1>2, AckReceivedInv, SendFailedInv, PaperFillInv DEF Respond
<1>3. CASE \E o \in Orders : Reconcile(o) \/ CancelOrder(o)
  BY <1>3, ReconcileInv, CancelOrderInv
<1>4. CASE SyncCash
  BY <1>4, SyncCashInv
<1>5. CASE (\E s \in Symbols : CooldownExpires(s)) \/ (\E b \in BOOLEAN : SetCriticalExitFailure(b))
  BY <1>5, FlagStepInv
<1>6. CASE Retry \/ Broker
  <2>1. CASE \E a \in Orders \X Attempts : LostFill(a) \/ LostCancel(a)
    BY <2>1, LostStepInv
  <2> QED
    BY <1>6, <2>1, RetryInv, BrokerAcceptInv, BrokerFillInv, BrokerCancelInv DEF Broker
<1>7. CASE Restart
  BY <1>7, RestartInv
<1>8. CASE UNCHANGED vars
  BY <1>8 DEF RouterInv, TypeOK, CashTypeOK, OrderInv, LostInv, CallingInv, PendingIffOpen,
              StatusMatchesFilled, vars, cashVars, routerVars, brokerVars
<1> QED
  BY <1>1, <1>2, <1>3, <1>4, <1>5, <1>6, <1>7, <1>8 DEF Next

-----------------------------------------------------------------------------
(* RouterInv holds in every reachable state.                               *)
THEOREM RouterInvariant == Spec => []RouterInv
<1>1. RouterInv /\ [Next]_vars => RouterInv'
  BY RouterStep
<1> QED
  BY RouterInit, <1>1, PTL DEF Spec

(* Every variable of the router, the ledger and the broker keeps its type: *)
(* the ledger's amounts never go below zero, and no order is executed or   *)
(* booked beyond the largest quantity a signal may ask for.                *)
THEOREM TypeCorrect == Spec => []TypeOK
<1>1. RouterInv => TypeOK
  BY DEF RouterInv
<1> QED
  BY RouterInvariant, <1>1, PTL

(* pending_orders is exactly the set of the orders whose status is open,   *)
(* although submit_order, on_fill, cancel_order, reconcile_orders and a    *)
(* restart each update the two separately.                                 *)
THEOREM PendingCorrect == Spec => []PendingIffOpen
<1>1. RouterInv => PendingIffOpen
  BY DEF RouterInv
<1> QED
  BY RouterInvariant, <1>1, PTL

(* The filled quantity of an order always agrees with its status.          *)
THEOREM FilledCorrect == Spec => []StatusMatchesFilled
<1>1. RouterInv => StatusMatchesFilled
  BY DEF RouterInv
<1> QED
  BY RouterInvariant, <1>1, PTL

-----------------------------------------------------------------------------
(* The broker's steps and the gateway's retries are invisible to the       *)
(* router.                                                                 *)
LEMMA BrokerFrame ==
  ASSUME Retry \/ Broker
  PROVE  UNCHANGED <<cashVars, routerVars, account_cash, restarts, dry_run>>
BY DEF Retry, Broker, BrokerAccept, BrokerFill, BrokerCancel, LostFill, LostCancel

(* What a step may do to an order that has reached a terminal status, or   *)
(* that a restart has forgotten.                                           *)
LEMMA TerminalStep ==
  ASSUME RouterInv, [Next]_vars, NEW p \in Orders,
         status[p] \in TerminalStatuses \cup {"FORGOTTEN"}
  PROVE  status'[p] \in {status[p], "FORGOTTEN"}
<1>1. p \notin pending_orders /\ status[p] # "NONE" /\ p # calling
  BY RouterAssumption
     DEF RouterInv, PendingIffOpen, CallingInv, OpenStatuses, TerminalStatuses
<1>2. status \in [Orders -> Statuses]
  BY DEF RouterInv, TypeOK
<1>3. CASE Submit
  BY <1>1, <1>2, <1>3 DEF Submit, SubmitBuy, SubmitBuyNoCash, SubmitSell, NewOrder, Register
<1>4. CASE Respond
  BY <1>1, <1>2, <1>4 DEF Respond, AckReceived, SendFailed, PaperFill, OnFill
<1>5. CASE \E o \in Orders : Reconcile(o) \/ CancelOrder(o)
  <2>1. PICK o \in Orders : Reconcile(o) \/ CancelOrder(o)
    BY <1>5
  <2>2. o \in pending_orders /\ \E x : status' = [status EXCEPT ![o] = x]
    BY <2>1 DEF Reconcile, ReconcileFill, ReconcileCanceled, ReconcileByHoldings,
                CanReconcile, OnFill, CancelOrder
  <2> QED
    BY <1>1, <1>2, <2>2
<1>6. CASE SyncCash
  BY <1>6 DEF SyncCash, routerVars
<1>7. CASE (\E s \in Symbols : CooldownExpires(s)) \/ (\E b \in BOOLEAN : SetCriticalExitFailure(b))
  BY <1>7 DEF CooldownExpires, SetCriticalExitFailure
<1>8. CASE Retry \/ Broker
  BY <1>8, BrokerFrame DEF routerVars
<1>9. CASE Restart
  BY <1>1, <1>9 DEF Restart, Created
<1>10. CASE UNCHANGED vars
  BY <1>10 DEF vars, routerVars
<1> QED
  BY <1>3, <1>4, <1>5, <1>6, <1>7, <1>8, <1>9, <1>10 DEF Next

(* A terminal status is final: no late fill, cancellation or answer that   *)
(* on_fill, cancel_order or reconcile_orders handles ever revives or       *)
(* re-labels an order.                                                     *)
THEOREM TerminalFinal == Spec => TerminalIsFinal
<1>1. RouterInv /\ [Next]_vars =>
        [\A o \in Orders :
           status[o] \in TerminalStatuses => status'[o] \in {status[o], "FORGOTTEN"}]_vars
  BY TerminalStep
<1> QED
  BY RouterInvariant, <1>1, PTL DEF Spec, TerminalIsFinal

-----------------------------------------------------------------------------
(* The broker never touches an order again that it has withdrawn; only the *)
(* request under way can be sent again.                                    *)
LEMMA WithdrawnStep ==
  ASSUME RouterInv, [Next]_vars, NEW p \in Orders, p # calling, bstate[p] = "cancelled"
  PROVE  bstate'[p] = "cancelled" /\ exec'[p] = exec[p]
<1>1. /\ bstate \in [Orders -> BrokerStates]
      /\ exec \in [Orders -> 0..MaxQty]
      /\ calling \in Orders \cup {None}
  BY DEF RouterInv, TypeOK
<1>2. CASE Submit
  BY <1>2 DEF Submit, SubmitBuy, SubmitBuyNoCash, SubmitSell, brokerVars
<1>3. CASE Respond
  BY <1>3 DEF Respond, AckReceived, SendFailed, PaperFill, brokerVars
<1>4. CASE \E o \in Orders : Reconcile(o)
  BY <1>4 DEF Reconcile, ReconcileFill, ReconcileCanceled, ReconcileByHoldings, brokerVars
<1>5. CASE \E o \in Orders : CancelOrder(o)
  <2>1. PICK o \in Orders : CancelOrder(o)
    BY <1>5
  <2>2. CASE bstate' = bstate
    BY <2>1, <2>2 DEF CancelOrder
  <2>3. CASE bstate' = [bstate EXCEPT ![o] = IF bstate[o] = "live" THEN "cancelled" ELSE bstate[o]]
    BY <1>1, <2>1, <2>3 DEF CancelOrder
  <2> QED
    BY <2>1, <2>2, <2>3 DEF CancelOrder
<1>6. CASE SyncCash
  BY <1>6 DEF SyncCash, brokerVars
<1>7. CASE (\E s \in Symbols : CooldownExpires(s)) \/ (\E b \in BOOLEAN : SetCriticalExitFailure(b))
  BY <1>7 DEF CooldownExpires, SetCriticalExitFailure, brokerVars
<1>8. CASE Retry \/ Broker
  BY <1>1, <1>8 DEF Retry, Broker, BrokerAccept, BrokerFill, BrokerCancel, LostFill, LostCancel
<1>9. CASE Restart
  BY <1>9 DEF Restart, brokerVars
<1>10. CASE UNCHANGED vars
  BY <1>10 DEF vars, brokerVars
<1> QED
  BY <1>2, <1>3, <1>4, <1>5, <1>6, <1>7, <1>8, <1>9, <1>10 DEF Next

(* reconcile_orders alone gives the status CANCELED, and only to an order  *)
(* withdrawn before it executed a share.                                   *)
LEMMA CanceledStep ==
  ASSUME RouterInv, [Next]_vars, NEW p \in Orders,
         status'[p] = "CANCELED", status[p] # "CANCELED"
  PROVE  bstate[p] = "cancelled" /\ exec[p] = 0 /\ p # calling
<1>1. /\ status \in [Orders -> Statuses]
      /\ calling \in Orders \cup {None}
      /\ exec \in [Orders -> 0..MaxQty]
  BY DEF RouterInv, TypeOK
<1>2. CASE Submit
  BY <1>1, <1>2 DEF Submit, SubmitBuy, SubmitBuyNoCash, SubmitSell, Register
<1>3. CASE Respond
  BY <1>1, <1>3 DEF Respond, AckReceived, SendFailed, PaperFill, OnFill
<1>4. CASE \E o \in Orders : Reconcile(o) \/ CancelOrder(o)
  <2>1. PICK o \in Orders : Reconcile(o) \/ CancelOrder(o)
    BY <1>4
  <2>2. CASE ReconcileFill(o) \/ ReconcileByHoldings(o) \/ CancelOrder(o)
    BY <1>1, <2>2 DEF ReconcileFill, ReconcileByHoldings, OnFill, CancelOrder
  <2>3. CASE ReconcileCanceled(o)
    <3>1. p = o /\ bstate[p] = "cancelled" /\ p # calling
      BY <1>1, <2>3, RouterAssumption DEF ReconcileCanceled, CanReconcile
    <3>2. ord[p].qty \in 1..MaxQty
      BY <2>3, <3>1, CreatedData
         DEF ReconcileCanceled, CanReconcile, RouterInv, PendingIffOpen, OpenStatuses
    <3>3. exec[p] = 0
      BY <1>1, <2>3, <3>1, <3>2, RouterAssumption DEF ReconcileCanceled, Remaining
    <3> QED
      BY <3>1, <3>3
  <2> QED
    BY <2>1, <2>2, <2>3 DEF Reconcile
<1>5. CASE SyncCash \/ Retry \/ Broker
  BY <1>5, BrokerFrame DEF SyncCash, routerVars
<1>6. CASE (\E s \in Symbols : CooldownExpires(s)) \/ (\E b \in BOOLEAN : SetCriticalExitFailure(b))
  BY <1>6 DEF CooldownExpires, SetCriticalExitFailure
<1>7. CASE Restart
  BY <1>7 DEF Restart
<1>8. CASE UNCHANGED vars
  BY <1>8 DEF vars, routerVars
<1> QED
  BY <1>2, <1>3, <1>4, <1>5, <1>6, <1>7, <1>8 DEF Next

(* The broker order of an order that reconcile_orders calls CANCELED is    *)
(* dead and never executed a share, now and for ever.                      *)
THEOREM CanceledDead == Spec => []CanceledMeansDead
<1>1. Init => CanceledMeansDead
  BY DEF Init, CanceledMeansDead
<1>2. ASSUME RouterInv, CanceledMeansDead, [Next]_vars
      PROVE  CanceledMeansDead'
  <2> SUFFICES ASSUME NEW p \in Orders, status'[p] = "CANCELED"
               PROVE  bstate'[p] = "cancelled" /\ exec'[p] = 0
    BY DEF CanceledMeansDead
  <2>1. bstate[p] = "cancelled" /\ exec[p] = 0 /\ p # calling
    BY <1>2, CanceledStep, RouterAssumption DEF CanceledMeansDead, RouterInv, CallingInv
  <2> QED
    BY <1>2, <2>1, WithdrawnStep
<1> QED
  BY RouterInvariant, <1>1, <1>2, PTL DEF Spec

-----------------------------------------------------------------------------
(* What is promised to the orders other than the one a ledger method is    *)
(* called for does not change.                                             *)
LEMMA LedgerFrame ==
  ASSUME CashTypeOK, NEW o \in Orders, NEW n,
         Reserve(o, n) \/ SettleFill(o, n) \/ ReleaseReservation(o)
  PROVE  \A p \in Orders \ {o} : reservations'[p] = reservations[p]
BY DEF CashTypeOK, Reserve, SettleFill, ReleaseReservation

LEMMA ReservedStep ==
  ASSUME RouterInv, UnfilledBuyIsReserved, [Next]_vars
  PROVE  UnfilledBuyIsReserved'
<1> SUFFICES ASSUME NEW p \in Orders, p \in pending_orders',
                    ord'[p].side = "BUY", filled'[p] = 0
             PROVE  reservations'[p] = ReserveCost(ord'[p].qty)
  BY RouterStep DEF UnfilledBuyIsReserved, RouterInv, TypeOK, IsBuy
<1>1. /\ CashTypeOK /\ ord \in [Orders -> OrderData \cup {NoOrderYet}]
      /\ filled \in [Orders -> 0..MaxQty] /\ exec \in [Orders -> 0..MaxQty]
      /\ calling \in Orders \cup {None}
      /\ pending_orders \in SUBSET Orders
  BY DEF RouterInv, TypeOK
<1>2. ASSUME p \in pending_orders, filled[p] = 0, ord'[p] = ord[p],
             reservations'[p] = reservations[p]
      PROVE  reservations'[p] = ReserveCost(ord'[p].qty)
  BY <1>2 DEF UnfilledBuyIsReserved, IsBuy
<1>3. ASSUME NEW o \in Orders, o \in pending_orders, NEW n \in 1..MaxQty, OnFill(o, n), ord' = ord
      PROVE  reservations'[p] = ReserveCost(ord'[p].qty)
  <2>1. p # o
    BY <1>1, <1>3, RouterAssumption DEF OnFill
  <2>2. reservations'[p] = reservations[p]
    BY <1>1, <1>3, <2>1, LedgerFrame DEF OnFill, cashVars
  <2>3. p \in pending_orders /\ filled[p] = 0
    BY <1>1, <1>3, <2>1 DEF OnFill
  <2> QED
    BY <1>2, <1>3, <2>2, <2>3
<1>4. CASE Submit
  <2>1. PICK o \in Orders, s \in Symbols, n \in 1..MaxQty, i \in Intents \cup {None} :
          \/ \E h \in Horizons : SubmitBuy(o, s, n, h, i) \/ SubmitBuyNoCash(o, s, n, h, i)
          \/ SubmitSell(o, s, n, i)
    BY <1>4 DEF Submit
  <2>2. o \notin pending_orders /\ filled' = filled
    BY <2>1 DEF SubmitBuy, SubmitBuyNoCash, SubmitSell, NewOrder, RouterInv,
                PendingIffOpen, OpenStatuses
  <2>3. CASE \E h \in Horizons : SubmitBuyNoCash(o, s, n, h, i)
    BY <1>1, <1>2, <2>2, <2>3 DEF SubmitBuyNoCash, cashVars
  <2>4. CASE SubmitSell(o, s, n, i)
    <3>1. p # o
      BY <1>1, <2>4 DEF SubmitSell, Register
    <3> QED
      BY <1>1, <1>2, <2>2, <2>4, <3>1 DEF SubmitSell, Register, cashVars
  <2>5. CASE \E h \in Horizons : SubmitBuy(o, s, n, h, i)
    <3>1. PICK m : Reserve(o, m) /\ Register(o, s, "BUY", m, i)
      BY <2>5 DEF SubmitBuy
    <3>2. CASE p = o
      <4>1. reservations'[o] = ReserveCost(m)
        BY <1>1, <3>1 DEF Reserve, CashTypeOK
      <4>2. ord'[o].qty = m
        BY <1>1, <3>1 DEF Register
      <4> QED
        BY <3>2, <4>1, <4>2
    <3>3. CASE p # o
      <4>1. reservations'[p] = reservations[p]
        BY <1>1, <3>1, <3>3, LedgerFrame
      <4>2. p \in pending_orders /\ ord'[p] = ord[p]
        BY <1>1, <3>1, <3>3 DEF Register
      <4> QED
        BY <1>2, <2>2, <4>1, <4>2
    <3> QED
      BY <3>2, <3>3
  <2> QED
    BY <2>1, <2>3, <2>4, <2>5
<1>5. CASE Respond
  <2>1. calling \in Orders /\ calling \in pending_orders
    BY <1>1, <1>5, RouterAssumption
       DEF Respond, AckReceived, SendFailed, PaperFill, RouterInv, CallingInv,
           PendingIffOpen, OpenStatuses
  <2>2. ord[calling].qty \in 1..MaxQty
    BY <2>1, CreatedData DEF RouterInv, PendingIffOpen, OpenStatuses
  <2>3. CASE AckReceived
    <3>1. CASE exec[calling] > 0 /\ OnFill(calling, exec[calling])
      <4>1. exec[calling] \in 1..MaxQty
        BY <1>1, <2>1, <3>1, RouterAssumption
      <4> QED
        BY <1>3, <2>1, <2>3, <3>1, <4>1 DEF AckReceived
    <3>2. CASE UNCHANGED <<cashVars, filled, pending_orders, pending_entries>>
      BY <1>2, <2>3, <3>2 DEF AckReceived, cashVars
    <3> QED
      BY <2>3, <3>1, <3>2 DEF AckReceived
  <2>4. CASE SendFailed
    <3>1. p # calling /\ p \in pending_orders
      BY <2>4 DEF SendFailed
    <3>2. reservations'[p] = reservations[p]
      BY <1>1, <2>1, <2>4, <3>1, LedgerFrame DEF SendFailed, cashVars
    <3> QED
      BY <1>2, <2>4, <3>1, <3>2 DEF SendFailed
  <2>5. CASE PaperFill
    <3>1. p # calling /\ p \in pending_orders
      BY <2>5 DEF PaperFill
    <3>2. reservations'[p] = reservations[p]
      BY <1>1, <2>1, <2>5, <3>1, LedgerFrame DEF PaperFill, cashVars
    <3> QED
      BY <1>1, <1>2, <2>5, <3>1, <3>2 DEF PaperFill
  <2> QED
    BY <1>5, <2>3, <2>4, <2>5 DEF Respond
<1>6. CASE \E o \in Orders : Reconcile(o) \/ CancelOrder(o)
  <2>1. PICK o \in Orders : Reconcile(o) \/ CancelOrder(o)
    BY <1>6
  <2>2. o \in pending_orders
    BY <2>1 DEF Reconcile, ReconcileFill, ReconcileCanceled, ReconcileByHoldings,
                CanReconcile, CancelOrder
  <2>3. ord[o].qty \in 1..MaxQty
    BY <2>2, CreatedData DEF RouterInv, PendingIffOpen, OpenStatuses
  <2>4. CASE ReconcileFill(o)
    <3>1. exec[o] \in 1..MaxQty
      BY <1>1, <2>4, RouterAssumption DEF ReconcileFill
    <3> QED
      BY <1>3, <2>2, <2>4, <3>1 DEF ReconcileFill
  <2>5. CASE ReconcileByHoldings(o)
    BY <1>3, <2>2, <2>3, <2>5 DEF ReconcileByHoldings
  <2>6. CASE ReconcileCanceled(o) \/ CancelOrder(o)
    BY <1>2, <2>6 DEF ReconcileCanceled, CancelOrder, cashVars
  <2> QED
    BY <2>1, <2>4, <2>5, <2>6 DEF Reconcile
<1>7. CASE SyncCash
  BY <1>2, <1>7 DEF SyncCash, SyncBrokerCash, routerVars
<1>8. CASE (\E s \in Symbols : CooldownExpires(s)) \/ (\E b \in BOOLEAN : SetCriticalExitFailure(b))
  BY <1>2, <1>8 DEF CooldownExpires, SetCriticalExitFailure, cashVars
<1>9. CASE Retry \/ Broker
  BY <1>2, <1>9, BrokerFrame DEF cashVars, routerVars
<1>10. CASE Restart
  BY <1>10 DEF Restart
<1>11. CASE UNCHANGED vars
  BY <1>2, <1>11 DEF vars, cashVars, routerVars
<1> QED
  BY <1>4, <1>5, <1>6, <1>7, <1>8, <1>9, <1>10, <1>11 DEF Next

(* The cost of a BUY that has not executed a share stays reserved in full  *)
(* for as long as the order is pending, also when the ledger cut the order *)
(* down and whatever other orders fill, fail or are cancelled meanwhile.   *)
THEOREM ReservedInFull == Spec => []UnfilledBuyIsReserved
<1>1. Init => UnfilledBuyIsReserved
  BY DEF Init, UnfilledBuyIsReserved
<1>2. RouterInv /\ UnfilledBuyIsReserved /\ [Next]_vars => UnfilledBuyIsReserved'
  BY ReservedStep
<1> QED
  BY RouterInvariant, <1>1, <1>2, PTL DEF Spec

-----------------------------------------------------------------------------
LEMMA PhantomStep ==
  ASSUME QueryMayFail = FALSE, RouterInv, NoPhantomFill, [Next]_vars
  PROVE  NoPhantomFill'
<1> SUFFICES ASSUME NEW p \in Orders PROVE dry_run' \/ filled'[p] <= exec'[p]
  BY DEF NoPhantomFill
<1>1. /\ filled \in [Orders -> 0..MaxQty] /\ exec \in [Orders -> 0..MaxQty]
      /\ calling \in Orders \cup {None}
  BY DEF RouterInv, TypeOK
<1>2. dry_run \/ filled[p] <= exec[p]
  BY DEF NoPhantomFill
<1>3. CASE Submit
  BY <1>2, <1>3 DEF Submit, SubmitBuy, SubmitBuyNoCash, SubmitSell, NewOrder, brokerVars
<1>4. CASE Respond
  BY <1>1, <1>2, <1>4, RouterAssumption
     DEF Respond, AckReceived, SendFailed, PaperFill, OnFill, brokerVars
<1>5. CASE \E o \in Orders : Reconcile(o)
  BY <1>1, <1>2, <1>5, RouterAssumption
     DEF Reconcile, ReconcileFill, ReconcileCanceled, ReconcileByHoldings, OnFill, brokerVars
<1>6. CASE (\E o \in Orders : CancelOrder(o)) \/ Restart
  BY <1>2, <1>6 DEF CancelOrder, Restart, brokerVars
<1>7. CASE SyncCash
  BY <1>2, <1>7 DEF SyncCash, routerVars, brokerVars
<1>8. CASE (\E s \in Symbols : CooldownExpires(s)) \/ (\E b \in BOOLEAN : SetCriticalExitFailure(b))
  BY <1>2, <1>8 DEF CooldownExpires, SetCriticalExitFailure, brokerVars
<1>9. CASE Broker
  <2>1. CASE \/ BrokerAccept
             \/ \E o \in Orders : BrokerCancel(o)
             \/ \E a \in Orders \X Attempts : LostFill(a) \/ LostCancel(a)
    BY <1>2, <2>1 DEF BrokerAccept, BrokerCancel, LostFill, LostCancel, routerVars
  <2>2. CASE \E o \in Orders : BrokerFill(o)
    <3>1. PICK o \in Orders : BrokerFill(o)
      BY <2>2
    <3>2. exec[p] <= exec'[p] /\ filled'[p] = filled[p] /\ dry_run' = dry_run
      BY <1>1, <3>1, RouterAssumption DEF BrokerFill, routerVars
    <3>3. exec'[p] \in Int
      BY <1>1, <3>1, RouterAssumption DEF BrokerFill
    <3> QED
      BY <1>1, <1>2, <3>2, <3>3, RouterAssumption
  <2> QED
    BY <1>9, <2>1, <2>2 DEF Broker
<1>10. CASE Retry
  <2>1. p = calling => filled[p] = 0
    BY RouterAssumption DEF RouterInv, CallingInv, StatusMatchesFilled
  <2>2. filled'[p] = filled[p] /\ dry_run' = dry_run /\ (p # calling => exec'[p] = exec[p])
    BY <1>1, <1>10 DEF Retry, routerVars
  <2>3. p = calling => exec'[p] = 0
    BY <1>1, <1>10 DEF Retry
  <2> QED
    BY <1>2, <2>1, <2>2, <2>3
<1>11. CASE UNCHANGED vars
  BY <1>2, <1>11 DEF vars, routerVars, brokerVars
<1> QED
  BY <1>3, <1>4, <1>5, <1>6, <1>7, <1>8, <1>9, <1>10, <1>11 DEF Next

(* As long as the day's executions can always be read, no order of a real  *)
(* account is booked beyond what the broker executed.                      *)
THEOREM FillsAreReal ==
  ASSUME QueryMayFail = FALSE
  PROVE  Spec => []NoPhantomFill
<1>1. Init => NoPhantomFill
  <2> SUFFICES ASSUME Init, NEW o \in Orders PROVE filled[o] <= exec[o]
    BY DEF NoPhantomFill
  <2>1. filled[o] = 0 /\ exec[o] = 0
    BY DEF Init
  <2> QED
    BY <2>1
<1>2. RouterInv /\ NoPhantomFill /\ [Next]_vars => NoPhantomFill'
  BY PhantomStep
<1> QED
  BY RouterInvariant, <1>1, <1>2, PTL DEF Spec

-----------------------------------------------------------------------------
(* An order that does not exist yet has no trace at the broker.            *)
LEMMA UncreatedUnreached ==
  ASSUME RouterInv, NEW p \in Orders, status[p] = "NONE"
  PROVE  ~Reached(p)
BY Zenon DEF RouterInv, OrderInv, LostInv, Reached

(* Only the request under way makes a broker order.                        *)
LEMMA ReachedStep ==
  ASSUME RouterInv, [Next]_vars, NEW p \in Orders, Reached(p)'
  PROVE  Reached(p) \/ calling = p
<1> SUFFICES ASSUME p # calling PROVE Reached(p)
  OBVIOUS
<1>1. /\ bstate \in [Orders -> BrokerStates]
      /\ lost \in [Orders \X Attempts -> [state : BrokerStates, exec : 0..MaxQty]]
      /\ calling \in Orders \cup {None}
  BY DEF RouterInv, TypeOK
<1>2. ASSUME bstate'[p] # "none" => bstate[p] # "none",
             \A k \in Attempts : lost'[<<p, k>>].state # "none" => lost[<<p, k>>].state # "none"
      PROVE  Reached(p)
  BY <1>2, Zenon DEF Reached
<1>3. CASE UNCHANGED <<bstate, lost>>
  BY <1>2, <1>3
<1>4. CASE Submit \/ Respond \/ (\E o \in Orders : Reconcile(o)) \/ SyncCash \/ Restart \/ UNCHANGED vars
  BY <1>3, <1>4
     DEF Submit, SubmitBuy, SubmitBuyNoCash, SubmitSell, Respond, AckReceived, SendFailed,
         PaperFill, Reconcile, ReconcileFill, ReconcileCanceled, ReconcileByHoldings,
         SyncCash, Restart, vars, brokerVars
<1>5. CASE (\E s \in Symbols : CooldownExpires(s)) \/ (\E b \in BOOLEAN : SetCriticalExitFailure(b))
  BY <1>3, <1>5 DEF CooldownExpires, SetCriticalExitFailure, brokerVars
<1>6. CASE \E o \in Orders : CancelOrder(o)
  <2>1. PICK o \in Orders : CancelOrder(o)
    BY <1>6
  <2>2. CASE bstate' = bstate
    BY <1>3, <2>1, <2>2 DEF CancelOrder
  <2>3. CASE bstate' = [bstate EXCEPT ![o] = IF bstate[o] = "live" THEN "cancelled" ELSE bstate[o]]
    BY <1>1, <1>2, <2>1, <2>3 DEF CancelOrder
  <2> QED
    BY <2>1, <2>2, <2>3 DEF CancelOrder
<1>7. CASE BrokerAccept \/ \E o \in Orders : BrokerFill(o) \/ BrokerCancel(o)
  BY <1>1, <1>2, <1>7 DEF BrokerAccept, BrokerFill, BrokerCancel
<1>8. CASE \E a \in Orders \X Attempts : LostFill(a) \/ LostCancel(a)
  <2>1. PICK o \in Orders, j \in Attempts : LostFill(<<o, j>>) \/ LostCancel(<<o, j>>)
    BY <1>8
  <2>2. PICK r : lost' = [lost EXCEPT ![<<o, j>>] = r]
    BY <2>1 DEF LostFill, LostCancel
  <2>3. bstate' = bstate /\ lost[<<o, j>>].state = "live"
    BY <2>1 DEF LostFill, LostCancel
  <2>4. ASSUME NEW k \in Attempts, lost'[<<p, k>>].state # "none"
        PROVE  lost[<<p, k>>].state # "none"
    <3>1. CASE <<p, k>> = <<o, j>>
      BY <2>3, <3>1
    <3>2. CASE <<p, k>> # <<o, j>>
      <4>1. lost'[<<p, k>>] = lost[<<p, k>>]
        BY <1>1, <2>2, <3>2
      <4> QED
        BY <2>4, <4>1
    <3> QED
      BY <3>1, <3>2
  <2> QED
    BY <1>2, <2>3, <2>4
<1>9. CASE Retry
  <2>1. PICK j \in Attempts : \E r : lost' = [lost EXCEPT ![<<calling, j>>] = r]
    BY <1>9 DEF Retry
  <2>2. bstate'[p] = bstate[p] /\ calling \in Orders
    BY <1>1, <1>9 DEF Retry
  <2>3. \A k \in Attempts : lost'[<<p, k>>] = lost[<<p, k>>]
    BY <1>1, <2>1, <2>2
  <2> QED
    BY <1>2, <2>2, <2>3
<1> QED
  BY <1>4, <1>5, <1>6, <1>7, <1>8, <1>9 DEF Next, Broker

(* The order an intent was spent on is the only one of this run of the     *)
(* process that carries it to the broker.                                  *)
IntentInv ==
  \A o \in Orders :
    /\ status[o] # "FORGOTTEN"
    /\ Reached(o) \/ calling = o
    /\ ord[o].intent \in Intents
    => executed_intent_ids[ord[o].intent] = o

LEMMA IntentStep ==
  ASSUME RouterInv, IntentInv, [Next]_vars
  PROVE  IntentInv'
<1> SUFFICES ASSUME NEW p \in Orders, status'[p] # "FORGOTTEN", Reached(p)' \/ calling' = p,
                    ord'[p].intent \in Intents
             PROVE  executed_intent_ids'[ord'[p].intent] = p
  BY Zenon DEF IntentInv
<1>1. /\ ord \in [Orders -> OrderData \cup {NoOrderYet}]
      /\ status \in [Orders -> Statuses]
      /\ calling \in Orders \cup {None}
      /\ executed_intent_ids \in [Intents -> Orders \cup {None}]
  BY DEF RouterInv, TypeOK
<1>2. status[p] # "FORGOTTEN"
  BY TerminalStep
<1>3. None \notin Orders /\ None \notin Intents
  BY RouterAssumption
<1>4. Reached(p)' => Reached(p) \/ calling = p
  BY ReachedStep
<1>5. ASSUME ord'[p] = ord[p], executed_intent_ids' = executed_intent_ids,
             Reached(p) \/ calling = p
      PROVE  executed_intent_ids'[ord'[p].intent] = p
  BY <1>2, <1>5 DEF IntentInv
<1>6. ASSUME NEW o \in Orders, NEW s, NEW sd, NEW n, NEW i \in Intents \cup {None},
             Register(o, s, sd, n, i), i # None => executed_intent_ids[i] = None, calling = None
      PROVE  executed_intent_ids'[ord'[p].intent] = p
  <2>1. CASE p = o
    <3>1. ord'[o].intent = i
      BY <1>1, <1>6 DEF Register
    <3> QED
      BY <1>1, <1>3, <1>6, <2>1, <3>1 DEF Register
  <2>2. CASE p # o
    <3>1. ord'[p] = ord[p] /\ Reached(p)
      BY <1>1, <1>3, <1>4, <1>6, <2>2 DEF Register
    <3>2. executed_intent_ids[ord[p].intent] = p
      BY <1>2, <3>1 DEF IntentInv
    <3>3. ord[p].intent # i
      BY <1>3, <1>6, <3>1, <3>2
    <3> QED
      BY <1>1, <1>6, <3>1, <3>2, <3>3 DEF Register
  <2> QED
    BY <2>1, <2>2
<1>7. CASE Submit
  <2>1. PICK o \in Orders, s \in Symbols, n \in 1..MaxQty, i \in Intents \cup {None} :
          \/ \E h \in Horizons : SubmitBuy(o, s, n, h, i) \/ SubmitBuyNoCash(o, s, n, h, i)
          \/ SubmitSell(o, s, n, i)
    BY <1>7 DEF Submit
  <2>2. /\ i # None => executed_intent_ids[i] = None
        /\ status[o] = "NONE" /\ calling = None
    BY <2>1 DEF SubmitBuy, SubmitBuyNoCash, SubmitSell, NewOrder
  <2>3. CASE \E h \in Horizons : SubmitBuyNoCash(o, s, n, h, i)
    <3>1. /\ ord' = [ord EXCEPT ![o] = [sym |-> s, side |-> "BUY", qty |-> n, intent |-> i]]
          /\ executed_intent_ids' = executed_intent_ids /\ calling' = None
      BY <2>2, <2>3 DEF SubmitBuyNoCash
    <3>2. Reached(p) /\ p # o
      BY <1>3, <1>4, <2>2, <3>1, UncreatedUnreached
    <3> QED
      BY <1>1, <1>5, <3>1, <3>2
  <2>4. CASE SubmitSell(o, s, n, i)
    BY <1>6, <2>2, <2>4 DEF SubmitSell
  <2>5. CASE \E h \in Horizons : SubmitBuy(o, s, n, h, i)
    BY <1>6, <2>2, <2>5 DEF SubmitBuy
  <2> QED
    BY <2>1, <2>3, <2>4, <2>5
<1>8. ASSUME UNCHANGED <<ord, executed_intent_ids>>, calling' \in {calling, None}
      PROVE  executed_intent_ids'[ord'[p].intent] = p
  BY <1>3, <1>4, <1>5, <1>8
<1>9. CASE Respond \/ (\E o \in Orders : Reconcile(o) \/ CancelOrder(o)) \/ SyncCash
  BY <1>8, <1>9
     DEF Respond, AckReceived, SendFailed, PaperFill, Reconcile, ReconcileFill,
         ReconcileCanceled, ReconcileByHoldings, CancelOrder, SyncCash, routerVars
<1>10. CASE (\E s \in Symbols : CooldownExpires(s)) \/ (\E b \in BOOLEAN : SetCriticalExitFailure(b))
  BY <1>8, <1>10 DEF CooldownExpires, SetCriticalExitFailure
<1>11. CASE Retry \/ Broker
  BY <1>8, <1>11, BrokerFrame DEF routerVars
<1>12. CASE Restart
  <2>1. status[p] = "NONE" /\ calling' = None /\ UNCHANGED brokerVars
    BY <1>12 DEF Restart, Created
  <2>2. Reached(p)
    BY <1>3, <2>1, Zenon DEF Reached, brokerVars
  <2> QED
    BY <2>1, <2>2, UncreatedUnreached
<1>13. CASE UNCHANGED vars
  BY <1>8, <1>13 DEF vars, routerVars
<1> QED
  BY <1>7, <1>9, <1>10, <1>11, <1>12, <1>13 DEF Next

(* Within one run of the process an order intent makes at most one order   *)
(* that reaches the broker, however often its signal is submitted again    *)
(* after a rejection or a lost answer.                                     *)
THEOREM IntentOnce == Spec => []IntentMakesOneOrder
<1>1. Init => IntentInv
  <2> SUFFICES ASSUME Init, NEW o \in Orders PROVE ~Reached(o) /\ calling # o
    BY Zenon DEF IntentInv
  <2>1. status[o] = "NONE" /\ calling # o
    BY RouterAssumption DEF Init
  <2> QED
    BY <2>1, RouterInit, UncreatedUnreached
<1>2. RouterInv /\ IntentInv /\ [Next]_vars => IntentInv'
  BY IntentStep
<1>3. IntentInv => IntentMakesOneOrder
  <2> SUFFICES ASSUME IntentInv, NEW i \in Intents
               PROVE  Cardinality(Carriers(i)) <= 1
    BY DEF IntentMakesOneOrder
  <2> DEFINE spent == {executed_intent_ids[i]}
  <2>1. Carriers(i) \subseteq spent
    BY DEF IntentInv, Carriers
  <2>2. IsFiniteSet(spent) /\ Cardinality(spent) = 1
    BY FS_Singleton
  <2> HIDE DEF spent
  <2>3. Cardinality(Carriers(i)) <= Cardinality(spent)
    BY <2>1, <2>2, FS_Subset
  <2> QED
    BY <2>2, <2>3
<1> QED
  BY RouterInvariant, <1>1, <1>2, <1>3, PTL DEF Spec

-----------------------------------------------------------------------------
(* The entry slot of a symbol.                                             *)

(* A SELL of the symbol has ended and may have freed the slot of a BUY.    *)
EndedSell(s) ==
  \E o \in Orders :
    IsSell(o) /\ ord[o].sym = s /\ status[o] \in {"FILLED", "CANCELED", "CANCELLED"}

AwaitsEnd(o) == IsBuy(o) /\ (bstate[o] = "live" \/ o \in pending_orders)

(* A BUY that waits, here or at the broker, holds the slot of its symbol   *)
(* as long as no SELL of the symbol has ended.                             *)
SlotInv ==
  \A o \in Orders :
    AwaitsEnd(o) => pending_entries[ord[o].sym] = o \/ EndedSell(ord[o].sym)

(* The data of a created order are fixed.                                  *)
LEMMA OrderDataFixed ==
  ASSUME RouterInv, [Next]_vars, NEW p \in Orders, status[p] # "NONE"
  PROVE  ord'[p] = ord[p]
<1>1. ord \in [Orders -> OrderData \cup {NoOrderYet}]
  BY DEF RouterInv, TypeOK
<1>2. CASE Submit
  BY <1>1, <1>2 DEF Submit, SubmitBuy, SubmitBuyNoCash, SubmitSell, NewOrder, Register
<1>3. CASE Respond \/ (\E o \in Orders : Reconcile(o) \/ CancelOrder(o)) \/ SyncCash \/ Restart
  BY <1>3 DEF Respond, AckReceived, SendFailed, PaperFill, Reconcile, ReconcileFill,
     ReconcileCanceled, ReconcileByHoldings, CancelOrder, SyncCash, Restart, routerVars
<1>4. CASE (\E s \in Symbols : CooldownExpires(s)) \/ (\E b \in BOOLEAN : SetCriticalExitFailure(b))
  BY <1>4 DEF CooldownExpires, SetCriticalExitFailure
<1>5. CASE Retry \/ Broker \/ UNCHANGED vars
  BY <1>5, BrokerFrame DEF vars, routerVars
<1> QED
  BY <1>2, <1>3, <1>4, <1>5 DEF Next

(* Without restarts a SELL that has ended stays ended.                     *)
LEMMA EndedStays ==
  ASSUME RouterInv, [Next]_vars, MaxRestarts = 0, NEW s, EndedSell(s)
  PROVE  EndedSell(s)'
<1>1. PICK o \in Orders :
        IsSell(o) /\ ord[o].sym = s /\ status[o] \in {"FILLED", "CANCELED", "CANCELLED"}
  BY DEF EndedSell
<1>2. ord'[o] = ord[o]
  BY <1>1, OrderDataFixed
<1>3. CASE Restart
  BY <1>3, RouterAssumption DEF Restart, RouterInv, TypeOK
<1>4. CASE ~Restart
  <2>1. status'[o] = status[o]
    <3>1. o \notin pending_orders /\ o # calling /\ status \in [Orders -> Statuses]
      BY <1>1, RouterAssumption DEF RouterInv, TypeOK, PendingIffOpen, CallingInv, OpenStatuses
    <3>2. CASE Submit
      BY <1>1, <3>1, <3>2 DEF Submit, SubmitBuy, SubmitBuyNoCash, SubmitSell, NewOrder, Register
    <3>3. CASE Respond
      BY <3>1, <3>3 DEF Respond, AckReceived, SendFailed, PaperFill, OnFill
    <3>4. CASE \E q \in Orders : Reconcile(q) \/ CancelOrder(q)
      <4>1. PICK q \in Orders : q \in pending_orders /\ \E x : status' = [status EXCEPT ![q] = x]
        BY <3>4 DEF Reconcile, ReconcileFill, ReconcileCanceled, ReconcileByHoldings,
                    CanReconcile, OnFill, CancelOrder
      <4> QED
        BY <3>1, <4>1
    <3>5. CASE SyncCash \/ Retry \/ Broker \/ UNCHANGED vars
      BY <3>5, BrokerFrame DEF SyncCash, vars, routerVars
    <3>6. CASE (\E t \in Symbols : CooldownExpires(t)) \/ (\E b \in BOOLEAN : SetCriticalExitFailure(b))
      BY <3>6 DEF CooldownExpires, SetCriticalExitFailure
    <3> QED
      BY <1>4, <3>2, <3>3, <3>4, <3>5, <3>6 DEF Next
  <2> QED
    BY <1>1, <1>2, <2>1, Zenon DEF EndedSell, IsSell
<1> QED
  BY <1>3, <1>4

(* Steps that leave the slots alone and start no BUY.                      *)
LEMMA SlotsKept ==
  ASSUME RouterInv, SlotInv, [Next]_vars, MaxRestarts = 0,
         UNCHANGED <<ord, pending_entries>>,
         \A q \in Orders : AwaitsEnd(q)' => AwaitsEnd(q)
  PROVE  SlotInv'
<1> SUFFICES ASSUME NEW p \in Orders, AwaitsEnd(p)', ~EndedSell(ord[p].sym)'
             PROVE  pending_entries'[ord'[p].sym] = p
  BY DEF SlotInv
<1>1. AwaitsEnd(p) /\ ~EndedSell(ord[p].sym)
  BY EndedStays
<1> QED
  BY <1>1 DEF SlotInv

(* An order that ends frees the slot of its symbol: its own if it is a     *)
(* BUY; if it is a SELL, one has ended.                                    *)
LEMMA SlotFreed ==
  ASSUME RouterInv, SlotInv, [Next]_vars, MaxRestarts = 0,
         NEW o \in pending_orders, ord' = ord,
         pending_orders' = pending_orders \ {o},
         pending_entries' = [pending_entries EXCEPT ![ord[o].sym] = None],
         \A q \in Orders : bstate'[q] = "live" => bstate[q] = "live",
         IsBuy(o) => bstate'[o] # "live",
         IsSell(o) => status'[o] \in {"FILLED", "CANCELED", "CANCELLED"}
  PROVE  SlotInv'
<1>0. /\ o \in Orders /\ None \notin Orders /\ (IsBuy(o) \/ IsSell(o))
      /\ pending_entries \in [Symbols -> Orders \cup {None}]
  <2>1. o \in Orders /\ None \notin Orders /\ pending_entries \in [Symbols -> Orders \cup {None}]
    BY RouterAssumption DEF RouterInv, TypeOK
  <2>2. ord[o] \in OrderData
    BY <2>1, CreatedData DEF RouterInv, PendingIffOpen, OpenStatuses
  <2> QED
    BY <2>1, <2>2 DEF OrderData, Sides, IsBuy, IsSell
<1> SUFFICES ASSUME NEW p \in Orders, AwaitsEnd(p)', ~EndedSell(ord[p].sym)'
             PROVE  pending_entries'[ord'[p].sym] = p
  BY DEF SlotInv
<1>1. AwaitsEnd(p) /\ ~EndedSell(ord[p].sym)
  BY EndedStays DEF AwaitsEnd, IsBuy
<1>2. pending_entries[ord[p].sym] = p
  BY <1>1 DEF SlotInv
<1>3. ord[p].sym # ord[o].sym
  <2>1. CASE IsSell(o)
    <3>1. ord'[o].side = "SELL" /\ status'[o] \in {"FILLED", "CANCELED", "CANCELLED"}
      BY <2>1 DEF IsSell
    <3>2. ASSUME ord[p].sym = ord[o].sym
          PROVE  EndedSell(ord[p].sym)'
      BY <1>0, <3>1, <3>2 DEF EndedSell, IsSell
    <3> QED
      BY <3>2
  <2>2. CASE IsBuy(o)
    <3>1. p # o
      BY <2>2 DEF AwaitsEnd
    <3>2. AwaitsEnd(o)
      BY <1>0, <2>2 DEF AwaitsEnd
    <3>3. pending_entries[ord[o].sym] = o \/ EndedSell(ord[o].sym)
      BY <1>0, <3>2 DEF SlotInv
    <3> QED
      BY <1>1, <1>2, <3>1, <3>3
  <2> QED
    BY <1>0, <2>1, <2>2
<1> QED
  BY <1>0, <1>2, <1>3

(* A fill the broker reported; a complete one frees the slot.              *)
LEMMA SlotFilled ==
  ASSUME RouterInv, SlotInv, [Next]_vars, MaxRestarts = 0,
         NEW o \in pending_orders, OnFill(o, exec[o]), UNCHANGED <<ord, bstate>>
  PROVE  SlotInv'
<1>0. /\ o \in Orders /\ status \in [Orders -> Statuses]
      /\ exec[o] = ord[o].qty => bstate[o] # "live"
      /\ exec[o] \in Int
  BY DEF RouterInv, TypeOK, OrderInv
<1>1. CASE exec[o] = ord[o].qty
  <2>1. /\ pending_orders' = pending_orders \ {o}
        /\ pending_entries' = [pending_entries EXCEPT ![ord[o].sym] = None]
        /\ status'[o] = "FILLED"
    BY <1>0, <1>1 DEF OnFill
  <2> QED
    BY <1>0, <1>1, <2>1, SlotFreed
<1>2. CASE exec[o] # ord[o].qty
  <2>1. UNCHANGED <<pending_orders, pending_entries>>
    BY <1>2 DEF OnFill
  <2> QED
    BY <2>1, SlotsKept DEF AwaitsEnd, IsBuy
<1> QED
  BY <1>1, <1>2

(* A new order: a BUY finds the slot free and takes it.                    *)
LEMMA SlotTaken ==
  ASSUME RouterInv, SlotInv, [Next]_vars, MaxRestarts = 0,
         NEW o \in Orders, NEW s \in Symbols, NEW sd \in Sides, NEW n, NEW m, NEW i,
         NewOrder(o, s, sd, m, i), Register(o, s, sd, n, i), UNCHANGED bstate
  PROVE  SlotInv'
<1>0. /\ None \notin Orders /\ ord \in [Orders -> OrderData \cup {NoOrderYet}]
      /\ pending_entries \in [Symbols -> Orders \cup {None}]
      /\ sd = "BUY" => pending_entries[s] = None
      /\ bstate[o] = "none"
  BY RouterAssumption DEF RouterInv, TypeOK, OrderInv, NewOrder
<1> SUFFICES ASSUME NEW p \in Orders, AwaitsEnd(p)', ~EndedSell(ord[p].sym)'
             PROVE  pending_entries'[ord'[p].sym] = p
  BY DEF SlotInv
<1>1. CASE p = o
  <2>1. ord'[o].sym = s /\ ord'[o].side = sd
    BY <1>0 DEF Register
  <2>2. sd = "BUY"
    BY <1>1, <2>1 DEF AwaitsEnd, IsBuy
  <2> QED
    BY <1>0, <1>1, <2>1, <2>2 DEF Register
<1>2. CASE p # o
  <2>1. ord'[p] = ord[p]
    BY <1>0, <1>2 DEF Register
  <2>2. AwaitsEnd(p)
    BY <1>2, <2>1 DEF AwaitsEnd, IsBuy, Register
  <2>3. pending_entries[ord[p].sym] = p
    BY <2>1, <2>2, EndedStays DEF SlotInv
  <2> QED
    BY <1>0, <2>1, <2>3 DEF Register
<1> QED
  BY <1>1, <1>2

LEMMA SlotStep ==
  ASSUME RouterInv, SlotInv, [Next]_vars, MaxRestarts = 0, QueryMayFail = FALSE
  PROVE  SlotInv'
<1>0. /\ calling # None => calling \in Orders /\ calling \in pending_orders
      /\ bstate \in [Orders -> BrokerStates] /\ pending_orders \in SUBSET Orders
  BY DEF RouterInv, TypeOK, PendingIffOpen, CallingInv, OpenStatuses
<1>1. ASSUME UNCHANGED <<ord, pending_entries>>, pending_orders' \subseteq pending_orders,
             \A q \in Orders : bstate'[q] = "live" => bstate[q] = "live" \/ q \in pending_orders
      PROVE  SlotInv'
  BY <1>1, SlotsKept DEF AwaitsEnd, IsBuy
<1>2. ASSUME NEW o \in Orders, NEW s \in Symbols, NEW n \in 1..MaxQty,
             NEW i \in Intents \cup {None},
             (\E h \in Horizons : SubmitBuy(o, s, n, h, i)) \/ SubmitSell(o, s, n, i)
      PROVE  SlotInv'
  BY <1>2, SlotTaken DEF SubmitBuy, SubmitSell, brokerVars, Sides
<1>3. ASSUME NEW o \in Orders, NEW s \in Symbols, NEW n \in 1..MaxQty,
             NEW i \in Intents \cup {None}, NEW h \in Horizons,
             SubmitBuyNoCash(o, s, n, h, i)
      PROVE  SlotInv'
  <2>1. ord \in [Orders -> OrderData \cup {NoOrderYet}] /\ bstate[o] = "none" /\ o \notin pending_orders
    BY <1>3 DEF SubmitBuyNoCash, NewOrder, RouterInv, TypeOK, OrderInv, PendingIffOpen, OpenStatuses
  <2> SUFFICES ASSUME NEW p \in Orders, AwaitsEnd(p)', ~EndedSell(ord[p].sym)'
               PROVE  pending_entries'[ord'[p].sym] = p
    BY DEF SlotInv
  <2>2. p # o
    BY <1>3, <2>1 DEF SubmitBuyNoCash, AwaitsEnd, brokerVars
  <2>3. ord'[p] = ord[p]
    BY <1>3, <2>1, <2>2 DEF SubmitBuyNoCash
  <2>4. AwaitsEnd(p)
    BY <1>3, <2>3 DEF SubmitBuyNoCash, AwaitsEnd, IsBuy, brokerVars
  <2> QED
    BY <1>3, <2>3, <2>4, EndedStays DEF SlotInv, SubmitBuyNoCash
<1>4. CASE Submit
  BY <1>2, <1>3, <1>4 DEF Submit
<1>5. CASE SendFailed \/ PaperFill
  BY <1>1, <1>5 DEF SendFailed, PaperFill, brokerVars
<1>6. CASE AckReceived
  <2>1. CASE OnFill(calling, exec[calling])
    BY <1>0, <1>6, <2>1, SlotFilled DEF AckReceived, brokerVars
  <2>2. CASE UNCHANGED <<pending_orders, pending_entries>>
    BY <1>1, <1>6, <2>2 DEF AckReceived, brokerVars
  <2> QED
    BY <1>6, <2>1, <2>2 DEF AckReceived
<1>7. ASSUME NEW o \in Orders, ReconcileFill(o)
      PROVE  SlotInv'
  BY <1>7, SlotFilled DEF ReconcileFill, CanReconcile, brokerVars
<1>8. ASSUME NEW o \in Orders, ReconcileCanceled(o)
      PROVE  SlotInv'
  <2>1. status'[o] = "CANCELED"
    BY <1>8 DEF ReconcileCanceled, RouterInv, TypeOK
  <2> QED
    BY <1>8, <2>1, SlotFreed DEF ReconcileCanceled, CanReconcile, brokerVars
<1>9. ASSUME NEW o \in Orders, CancelOrder(o)
      PROVE  SlotInv'
  <2>1. status'[o] = "CANCELLED" /\ ~IsBuy(o)
    BY <1>9 DEF CancelOrder, RouterInv, TypeOK, IsBuy, IsSell
  <2>2. \A q \in Orders : bstate'[q] = "live" => bstate[q] = "live"
    <3>1. CASE bstate' = bstate
      BY <3>1
    <3>2. CASE bstate' = [bstate EXCEPT ![o] = IF bstate[o] = "live" THEN "cancelled" ELSE bstate[o]]
      BY <1>0, <3>2
    <3> QED
      BY <1>9, <3>1, <3>2 DEF CancelOrder
  <2> QED
    BY <1>9, <2>1, <2>2, SlotFreed DEF CancelOrder
<1>10. CASE \E o \in Orders : Reconcile(o)
  BY <1>7, <1>8, <1>10 DEF Reconcile, ReconcileByHoldings
<1>11. CASE SyncCash \/ UNCHANGED vars
  BY <1>1, <1>11 DEF SyncCash, vars, routerVars, brokerVars
<1>12. CASE (\E s \in Symbols : CooldownExpires(s)) \/ (\E b \in BOOLEAN : SetCriticalExitFailure(b))
  BY <1>1, <1>12 DEF CooldownExpires, SetCriticalExitFailure, brokerVars
<1>13. CASE Retry \/ Broker
  <2>1. \A q \in Orders : bstate'[q] = "live" => bstate[q] = "live" \/ q \in pending_orders
    BY <1>0, <1>13 DEF Retry, Broker, BrokerAccept, BrokerFill, BrokerCancel, LostFill, LostCancel
  <2> QED
    BY <1>1, <1>13, <2>1, BrokerFrame DEF routerVars
<1>14. ~Restart
  BY RouterAssumption DEF Restart, RouterInv, TypeOK
<1> QED
  BY <1>4, <1>5, <1>6, <1>9, <1>10, <1>11, <1>12, <1>13, <1>14 DEF Next, Respond

(* While the day's executions can be read and until the next restart, two  *)
(* BUYs of a symbol are live at the broker only after a SELL of the symbol *)
(* ended and gave the slot of the first away: neither a rejection, a lost  *)
(* answer, a fill nor a withdrawal of a BUY does.                          *)
THEOREM SlotsExclude ==
  ASSUME QueryMayFail = FALSE, MaxRestarts = 0
  PROVE  Spec => []SecondBuyOnlyAfterSell
<1>1. Init => SlotInv
  BY DEF Init, SlotInv, AwaitsEnd
<1>2. RouterInv /\ SlotInv /\ [Next]_vars => SlotInv'
  BY SlotStep
<1>3. SlotInv => SecondBuyOnlyAfterSell
  <2> SUFFICES ASSUME SlotInv, NEW s \in Symbols, ~EndedSell(s)
               PROVE  ~(Cardinality(LiveAt(s, "BUY")) > 1)
    BY DEF SecondBuyOnlyAfterSell, EndedSell
  <2> DEFINE holder == {pending_entries[s]}
  <2>1. LiveAt(s, "BUY") \subseteq holder
    BY DEF SlotInv, AwaitsEnd, LiveAt, Matches, IsBuy
  <2>2. IsFiniteSet(holder) /\ Cardinality(holder) = 1
    BY FS_Singleton
  <2> HIDE DEF holder
  <2>3. IsFiniteSet(LiveAt(s, "BUY")) /\ Cardinality(LiveAt(s, "BUY")) <= Cardinality(holder)
    BY <2>1, <2>2, FS_Subset
  <2>4. Cardinality(LiveAt(s, "BUY")) \in Nat
    BY <2>3, FS_CardinalityType
  <2> QED
    BY <2>2, <2>3, <2>4
<1> QED
  BY RouterInvariant, <1>1, <1>2, <1>3, PTL DEF Spec

-----------------------------------------------------------------------------
(* The running total of the ledger.                                        *)

(* Nothing is promised to an order that does not exist yet, so a promise   *)
(* never overwrites another.                                               *)
UncreatedUnpromised ==
  \A o \in Orders : status[o] = "NONE" => reservations[o] = 0

LEMMA PromisesAdd ==
  ASSUME CashTypeOK
  PROVE  SumFunction(reservations) = SumFunctionOnSet(reservations, Orders)
<1>1. DOMAIN reservations = Orders
  BY DEF CashTypeOK
<1> QED
  BY <1>1, Zenon DEF SumFunction

(* The total after the promise of one order went from what it was to n.    *)
LEMMA PromiseChanged ==
  ASSUME CashTypeOK, ReservedIsSum, NEW o \in Orders, NEW n \in Nat,
         reservations' = [reservations EXCEPT ![o] = n]
  PROVE  /\ SumFunction(reservations') = reserved_cash + n - reservations[o]
         /\ reservations[o] <= reserved_cash
<1>1. /\ reservations' \in [Orders -> Nat] /\ reservations'[o] = n
      /\ \A p \in Orders \ {o} : reservations[p] = reservations'[p]
      /\ \A p \in Orders : reservations[p] \in Int /\ reservations'[p] \in Int
      /\ \A p \in Orders \ {o} : reservations[p] \in Nat
      /\ reserved_cash \in Nat /\ reservations[o] \in Nat
  BY DEF CashTypeOK
<1>2. IsFiniteSet(Orders) /\ IsFiniteSet(Orders \ {o})
  BY RouterAssumption, FS_Subset
<1>3. SumFunctionOnSet(reservations', Orders)
        = SumFunctionOnSet(reservations, Orders) + reservations'[o] - reservations[o]
  <2>1. \A f, g : (/\ \A y \in Orders : f[y] \in Int /\ g[y] \in Int
                   /\ \A y \in Orders \ {o} : f[y] = g[y])
                    => SumFunctionOnSet(g, Orders) = SumFunctionOnSet(f, Orders) + g[o] - f[o]
    BY <1>2, SumChange
  <2> QED
    BY <1>1, <2>1
<1>4. SumFunctionOnSet(reservations, Orders \ {o}) \in Nat
  BY <1>1, <1>2, SumNatural
<1>5. SumFunctionOnSet(reservations, Orders)
        = reservations[o] + SumFunctionOnSet(reservations, Orders \ {o})
  BY <1>1, <1>2, SumRemove
<1>6. SumFunctionOnSet(reservations, Orders) = reserved_cash
  BY PromisesAdd DEF ReservedIsSum
<1>7. DOMAIN reservations' = Orders
  BY <1>1
<1>8. SumFunction(reservations') = SumFunctionOnSet(reservations', Orders)
  BY <1>7, Zenon DEF SumFunction
<1> QED
  BY <1>1, <1>3, <1>4, <1>5, <1>6, <1>8

(* A promise is made to a new order, or dropped, or everything is.         *)
Promises(o, n) == status[o] = "NONE" /\ status'[o] # "NONE" /\ Reserve(o, n)
Drops(o) ==
  /\ reserved_cash' = Monus(reserved_cash, reservations[o])
  /\ reservations' = [reservations EXCEPT ![o] = 0]

LEMMA PromisesMove ==
  ASSUME RouterInv, [Next]_vars
  PROVE  \/ UNCHANGED <<reserved_cash, reservations>>
         \/ \E o \in Orders, n \in Nat : Promises(o, n)
         \/ \E o \in Orders : Drops(o)
         \/ reserved_cash' = 0 /\ reservations' = [o \in Orders |-> 0]
<1>0. /\ CashTypeOK /\ status \in [Orders -> Statuses]
      /\ calling # None => calling \in Orders
  BY DEF RouterInv, TypeOK
<1>1. ASSUME NEW o, NEW n, OnFill(o, n)
      PROVE  Drops(o) \/ UNCHANGED <<reserved_cash, reservations>>
  BY <1>1 DEF OnFill, SettleFill, Drops, cashVars
<1>2. CASE Submit
  <2>1. PICK o \in Orders, s \in Symbols, n \in 1..MaxQty, i \in Intents \cup {None} :
          \/ \E h \in Horizons : SubmitBuy(o, s, n, h, i) \/ SubmitBuyNoCash(o, s, n, h, i)
          \/ SubmitSell(o, s, n, i)
    BY <1>2 DEF Submit
  <2>2. CASE \E h \in Horizons : SubmitBuy(o, s, n, h, i)
    <3>1. PICK h \in Horizons : SubmitBuy(o, s, n, h, i)
      BY <2>2
    <3>2. Approved(h, n) \in 1..n
      BY <1>0, <3>1, ApprovedRange, RouterAssumption DEF SubmitBuy
    <3>3. Promises(o, Approved(h, n))
      BY <1>0, <3>1 DEF SubmitBuy, NewOrder, Register, Promises
    <3> QED
      BY <3>2, <3>3
  <2> QED
    BY <2>1, <2>2 DEF SubmitBuyNoCash, SubmitSell, cashVars
<1>3. CASE Respond
  BY <1>0, <1>1, <1>3, RouterAssumption
     DEF Respond, AckReceived, SendFailed, PaperFill, SettleFill, ReleaseReservation, Drops, cashVars
<1>4. CASE \E o \in Orders : Reconcile(o) \/ CancelOrder(o)
  BY <1>1, <1>4 DEF Reconcile, ReconcileFill, ReconcileCanceled, ReconcileByHoldings,
                    CancelOrder, cashVars
<1>5. CASE SyncCash \/ Restart
  BY <1>5 DEF SyncCash, SyncBrokerCash, Restart
<1>6. CASE (\E s \in Symbols : CooldownExpires(s)) \/ (\E b \in BOOLEAN : SetCriticalExitFailure(b))
  BY <1>6 DEF CooldownExpires, SetCriticalExitFailure, cashVars
<1>7. CASE Retry \/ Broker \/ UNCHANGED vars
  BY <1>7, BrokerFrame DEF vars, cashVars
<1> QED
  BY <1>2, <1>3, <1>4, <1>5, <1>6, <1>7 DEF Next

(* An order is created once.                                               *)
LEMMA CreatedStays ==
  ASSUME RouterInv, [Next]_vars, NEW p \in Orders, status'[p] = "NONE"
  PROVE  status[p] = "NONE"
<1>0. /\ status \in [Orders -> Statuses]
      /\ calling # None => calling \in Orders /\ status[calling] # "NONE"
      /\ \A o \in pending_orders : status[o] # "NONE"
  BY DEF RouterInv, TypeOK, CallingInv, PendingIffOpen, OpenStatuses
<1>1. CASE Submit
  BY <1>0, <1>1 DEF Submit, SubmitBuy, SubmitBuyNoCash, SubmitSell, NewOrder, Register
<1>2. CASE Respond
  BY <1>0, <1>2 DEF Respond, AckReceived, SendFailed, PaperFill, OnFill
<1>3. CASE \E o \in Orders : Reconcile(o) \/ CancelOrder(o)
  BY <1>0, <1>3 DEF Reconcile, ReconcileFill, ReconcileCanceled, ReconcileByHoldings,
                    CanReconcile, CancelOrder, OnFill
<1>4. CASE SyncCash \/ Restart
  BY <1>4 DEF SyncCash, Restart, routerVars, Created
<1>5. CASE (\E s \in Symbols : CooldownExpires(s)) \/ (\E b \in BOOLEAN : SetCriticalExitFailure(b))
  BY <1>5 DEF CooldownExpires, SetCriticalExitFailure
<1>6. CASE Retry \/ Broker \/ UNCHANGED vars
  BY <1>6, BrokerFrame DEF vars, routerVars
<1> QED
  BY <1>1, <1>2, <1>3, <1>4, <1>5, <1>6 DEF Next

LEMMA PromisesStep ==
  ASSUME RouterInv, ReservedIsSum, UncreatedUnpromised, [Next]_vars
  PROVE  ReservedIsSum' /\ UncreatedUnpromised'
<1>0. /\ CashTypeOK /\ CashTypeOK'
      /\ \A p \in Orders : status'[p] = "NONE" => status[p] = "NONE"
  BY RouterStep, CreatedStays DEF RouterInv, TypeOK
<1>1. CASE UNCHANGED <<reserved_cash, reservations>>
  BY <1>0, <1>1 DEF ReservedIsSum, UncreatedUnpromised
<1>2. ASSUME NEW o \in Orders, NEW n \in Nat, Promises(o, n)
      PROVE  ReservedIsSum' /\ UncreatedUnpromised'
  <2>1. /\ reservations[o] = 0 /\ ReserveCost(n) \in Nat
        /\ reserved_cash' = reserved_cash + ReserveCost(n)
        /\ reservations' = [reservations EXCEPT ![o] = ReserveCost(n)]
    BY <1>2, CostNat DEF UncreatedUnpromised, Promises, Reserve
  <2>2. SumFunction(reservations') = reserved_cash + ReserveCost(n) - reservations[o]
    BY <1>0, <2>1, PromiseChanged
  <2>3. ReservedIsSum'
    BY <1>0, <2>1, <2>2 DEF ReservedIsSum, CashTypeOK
  <2>4. UncreatedUnpromised'
    BY <1>0, <1>2, <2>1 DEF UncreatedUnpromised, Promises, CashTypeOK
  <2> QED
    BY <2>3, <2>4
<1>3. ASSUME NEW o \in Orders, Drops(o)
      PROVE  ReservedIsSum' /\ UncreatedUnpromised'
  <2>1. /\ SumFunction(reservations') = reserved_cash + 0 - reservations[o]
        /\ reservations[o] <= reserved_cash
    BY <1>0, <1>3, PromiseChanged DEF Drops
  <2>2. ReservedIsSum'
    BY <1>0, <1>3, <2>1 DEF ReservedIsSum, CashTypeOK, Drops, Monus
  <2>3. UncreatedUnpromised'
    BY <1>0, <1>3 DEF UncreatedUnpromised, CashTypeOK, Drops
  <2> QED
    BY <2>2, <2>3
<1>4. CASE reserved_cash' = 0 /\ reservations' = [o \in Orders |-> 0]
  <2>1. SumFunctionOnSet(reservations', Orders) = 0
    BY <1>4, RouterAssumption, SumZero
  <2>2. DOMAIN reservations' = Orders
    BY <1>4
  <2>3. ReservedIsSum'
    BY <1>4, <2>1, <2>2 DEF ReservedIsSum, SumFunction
  <2> QED
    BY <1>4, <2>3 DEF UncreatedUnpromised
<1> QED
  BY <1>1, <1>2, <1>3, <1>4, PromisesMove

(* The total the ledger keeps by adding and subtracting equals the sum of  *)
(* the promises it holds, whatever the order of approvals, fills,          *)
(* rejections and restarts; in particular no subtraction is ever clamped.  *)
THEOREM ReservedTotal == Spec => []ReservedIsSum
<1>1. Init => ReservedIsSum /\ UncreatedUnpromised
  <2> SUFFICES ASSUME Init PROVE ReservedIsSum /\ UncreatedUnpromised
    OBVIOUS
  <2>1. reserved_cash = 0 /\ reservations = [o \in Orders |-> 0]
    BY DEF Init, CashInit
  <2>2. SumFunctionOnSet(reservations, Orders) = 0
    BY <2>1, RouterAssumption, SumZero
  <2>3. DOMAIN reservations = Orders
    BY <2>1
  <2> QED
    BY <2>1, <2>2, <2>3 DEF ReservedIsSum, SumFunction, UncreatedUnpromised
<1>2. RouterInv /\ ReservedIsSum /\ UncreatedUnpromised /\ [Next]_vars
        => ReservedIsSum' /\ UncreatedUnpromised'
  BY PromisesStep
<1> QED
  BY RouterInvariant, <1>1, <1>2, PTL DEF Spec

-----------------------------------------------------------------------------
(* The shares executed, and those still to be executed, of a symbol and a  *)
(* side, as sums with one term for every order and every repeated attempt, *)
(* so that a step that changes one of them changes one term.               *)

ExecTerms(s, sd) == [o \in Orders |-> IF Matches(o, s, sd) THEN exec[o] ELSE 0]
RestTerms(s, sd) == [o \in Orders |-> IF o \in LiveAt(s, sd) THEN Remaining(o) ELSE 0]
LostTerms(s, sd) ==
  [a \in Orders \X Attempts |-> IF a \in LostAt(s, sd) THEN lost[a].exec ELSE 0]
LostRestTerms(s, sd) ==
  [a \in Orders \X Attempts |-> IF a \in LiveLost(s, sd) THEN LostRemaining(a) ELSE 0]

ExecSum(s, sd)     == SumFunctionOnSet(ExecTerms(s, sd), Orders)
RestSum(s, sd)     == SumFunctionOnSet(RestTerms(s, sd), Orders)
LostSum(s, sd)     == SumFunctionOnSet(LostTerms(s, sd), Orders \X Attempts)
LostRestSum(s, sd) == SumFunctionOnSet(LostRestTerms(s, sd), Orders \X Attempts)

LEMMA FiniteOrders ==
  IsFiniteSet(Orders) /\ IsFiniteSet(Orders \X Attempts)
<1>1. IsFiniteSet(Orders)
  BY RouterAssumption
<1>2. IsFiniteSet(Attempts)
  BY RouterAssumption, FS_Interval DEF Attempts
<1> QED
  BY <1>1, <1>2, FS_Product

LEMMA TermTypes ==
  ASSUME RouterInv, NEW s, NEW sd
  PROVE  /\ \A o \in Orders : ExecTerms(s, sd)[o] \in Nat /\ RestTerms(s, sd)[o] \in Nat
         /\ \A a \in Orders \X Attempts :
              LostTerms(s, sd)[a] \in Nat /\ LostRestTerms(s, sd)[a] \in Nat
<1>1. ASSUME NEW o \in Orders
      PROVE  ExecTerms(s, sd)[o] \in Nat /\ RestTerms(s, sd)[o] \in Nat
  <2>1. exec[o] \in Nat /\ (bstate[o] = "live" => exec[o] < ord[o].qty /\ status[o] # "NONE")
    BY RouterAssumption DEF RouterInv, TypeOK, OrderInv
  <2>2. bstate[o] = "live" => ord[o].qty \in Nat
    BY <2>1, CreatedData, RouterAssumption
  <2> QED
    BY <2>1, <2>2 DEF ExecTerms, RestTerms, LiveAt, Remaining
<1>2. ASSUME NEW o \in Orders, NEW k \in Attempts
      PROVE  LostTerms(s, sd)[<<o, k>>] \in Nat /\ LostRestTerms(s, sd)[<<o, k>>] \in Nat
  <2>1. /\ lost[<<o, k>>].exec \in Nat
        /\ lost[<<o, k>>].state = "live" => lost[<<o, k>>].exec < ord[o].qty /\ status[o] # "NONE"
    BY RouterAssumption DEF RouterInv, TypeOK, LostInv
  <2>2. lost[<<o, k>>].state = "live" => ord[o].qty \in Nat
    BY <2>1, CreatedData, RouterAssumption
  <2> QED
    BY <2>1, <2>2 DEF LostTerms, LostRestTerms, LiveLost, LostAt, LostRemaining
<1> QED
  BY <1>1, <1>2

TermsAreNat ==
  \A s, sd :
    /\ \A o \in Orders : ExecTerms(s, sd)[o] \in Nat /\ RestTerms(s, sd)[o] \in Nat
    /\ \A a \in Orders \X Attempts :
         LostTerms(s, sd)[a] \in Nat /\ LostRestTerms(s, sd)[a] \in Nat

LEMMA TermsNat == RouterInv => TermsAreNat
BY TermTypes DEF TermsAreNat

LEMMA TermsNatNext == RouterInv' => TermsAreNat'
BY TermsNat, PTL

(* The broker's totals are these sums.                                     *)
LEMMA TotalsAndLost ==
  ASSUME RouterInv, NEW s, NEW sd
  PROVE  /\ ExecSum(s, sd) \in Nat /\ LostSum(s, sd) \in Nat
         /\ RestSum(s, sd) \in Nat /\ LostRestSum(s, sd) \in Nat
         /\ Executed(s, sd) = ExecSum(s, sd) + LostSum(s, sd)
         /\ Unfilled(s, sd) = RestSum(s, sd) + LostRestSum(s, sd)
         /\ LostSum(s, sd) = SumFunctionOnSet([a \in DOMAIN lost |-> lost[a].exec], LostAt(s, sd))
<1>0. IsFiniteSet(Orders) /\ IsFiniteSet(Orders \X Attempts)
  BY FiniteOrders
<1>1. \A f, g : \A T \in SUBSET Orders :
        (/\ \A o \in Orders : f[o] \in Int
         /\ \A o \in T : f[o] = g[o]
         /\ \A o \in Orders \ T : f[o] = 0)
          => SumFunctionOnSet(f, Orders) = SumFunctionOnSet(g, T)
  BY <1>0, SumSubset
<1>2. \A f, g : \A T \in SUBSET (Orders \X Attempts) :
        (/\ \A a \in Orders \X Attempts : f[a] \in Int
         /\ \A a \in T : f[a] = g[a]
         /\ \A a \in (Orders \X Attempts) \ T : f[a] = 0)
          => SumFunctionOnSet(f, Orders \X Attempts) = SumFunctionOnSet(g, T)
  BY <1>0, SumSubset
<1>3. /\ \A o \in Orders : ExecTerms(s, sd)[o] \in Nat /\ RestTerms(s, sd)[o] \in Nat
      /\ \A a \in Orders \X Attempts :
           LostTerms(s, sd)[a] \in Nat /\ LostRestTerms(s, sd)[a] \in Nat
  BY TermTypes
<1>4. ExecSum(s, sd) = SumFunctionOnSet(exec, {o \in Orders : Matches(o, s, sd)})
  <2> DEFINE T == {o \in Orders : Matches(o, s, sd)}
  <2>1. /\ \A o \in T : ExecTerms(s, sd)[o] = exec[o]
        /\ \A o \in Orders \ T : ExecTerms(s, sd)[o] = 0
        /\ \A o \in Orders : ExecTerms(s, sd)[o] \in Int
        /\ T \in SUBSET Orders
    BY <1>3 DEF ExecTerms
  <2> HIDE DEF T
  <2>2. SumFunctionOnSet(ExecTerms(s, sd), Orders) = SumFunctionOnSet(exec, T)
    BY <1>1, <2>1
  <2> QED
    BY <2>2 DEF ExecSum, T
<1>5. RestSum(s, sd) = SumFunctionOnSet([o \in Orders |-> Remaining(o)], LiveAt(s, sd))
  <2> DEFINE g == [o \in Orders |-> Remaining(o)]
             T == LiveAt(s, sd)
  <2>1. /\ \A o \in T : RestTerms(s, sd)[o] = g[o]
        /\ \A o \in Orders \ T : RestTerms(s, sd)[o] = 0
        /\ \A o \in Orders : RestTerms(s, sd)[o] \in Int
        /\ T \in SUBSET Orders
    <3>1. T \in SUBSET Orders
      BY DEF LiveAt
    <3>2. \A o \in Orders : RestTerms(s, sd)[o] = IF o \in T THEN Remaining(o) ELSE 0
      BY DEF RestTerms
    <3>3. \A o \in T : g[o] = Remaining(o)
      BY <3>1
    <3> HIDE DEF T, g
    <3> QED
      BY <1>3, <3>1, <3>2, <3>3
  <2> HIDE DEF T, g
  <2>2. SumFunctionOnSet(RestTerms(s, sd), Orders) = SumFunctionOnSet(g, T)
    BY <1>1, <2>1
  <2> QED
    BY <2>2 DEF RestSum, T, g
<1>6. LostSum(s, sd) = SumFunctionOnSet([a \in DOMAIN lost |-> lost[a].exec], LostAt(s, sd))
  <2> DEFINE g == [a \in DOMAIN lost |-> lost[a].exec]
             T == LostAt(s, sd)
  <2>0. DOMAIN lost = Orders \X Attempts /\ T \in SUBSET (Orders \X Attempts)
    BY DEF RouterInv, TypeOK, LostAt
  <2>1. /\ \A a \in T : LostTerms(s, sd)[a] = g[a]
        /\ \A a \in (Orders \X Attempts) \ T : LostTerms(s, sd)[a] = 0
        /\ \A a \in Orders \X Attempts : LostTerms(s, sd)[a] \in Int
    <3>1. \A a \in Orders \X Attempts : LostTerms(s, sd)[a] = IF a \in T THEN lost[a].exec ELSE 0
      BY DEF LostTerms
    <3>2. \A a \in T : g[a] = lost[a].exec
      BY <2>0
    <3> HIDE DEF T, g
    <3> QED
      BY <1>3, <2>0, <3>1, <3>2
  <2> HIDE DEF T, g
  <2>2. SumFunctionOnSet(LostTerms(s, sd), Orders \X Attempts) = SumFunctionOnSet(g, T)
    BY <1>2, <2>0, <2>1
  <2> QED
    BY <2>2 DEF LostSum, T, g
<1>7. LostRestSum(s, sd)
        = SumFunctionOnSet([a \in DOMAIN lost |-> LostRemaining(a)], LiveLost(s, sd))
  <2> DEFINE g == [a \in DOMAIN lost |-> LostRemaining(a)]
             T == LiveLost(s, sd)
  <2>0. DOMAIN lost = Orders \X Attempts /\ T \in SUBSET (Orders \X Attempts)
    BY DEF RouterInv, TypeOK, LostAt, LiveLost
  <2>1. /\ \A a \in T : LostRestTerms(s, sd)[a] = g[a]
        /\ \A a \in (Orders \X Attempts) \ T : LostRestTerms(s, sd)[a] = 0
        /\ \A a \in Orders \X Attempts : LostRestTerms(s, sd)[a] \in Int
    <3>1. \A a \in Orders \X Attempts : LostRestTerms(s, sd)[a] = IF a \in T THEN LostRemaining(a) ELSE 0
      BY DEF LostRestTerms
    <3>2. \A a \in T : g[a] = LostRemaining(a)
      BY <2>0
    <3> HIDE DEF T, g
    <3> QED
      BY <1>3, <2>0, <3>1, <3>2
  <2> HIDE DEF T, g
  <2>2. SumFunctionOnSet(LostRestTerms(s, sd), Orders \X Attempts) = SumFunctionOnSet(g, T)
    BY <1>2, <2>0, <2>1
  <2> QED
    BY <2>2 DEF LostRestSum, T, g
<1>8. /\ ExecSum(s, sd) \in Nat /\ RestSum(s, sd) \in Nat
      /\ LostSum(s, sd) \in Nat /\ LostRestSum(s, sd) \in Nat
  BY <1>0, <1>3, SumNatural DEF ExecSum, RestSum, LostSum, LostRestSum
<1> QED
  BY <1>4, <1>5, <1>6, <1>7, <1>8 DEF Executed, Unfilled

LEMMA Totals ==
  ASSUME RouterInv, NEW s, NEW sd
  PROVE  /\ ExecSum(s, sd) \in Nat /\ LostSum(s, sd) \in Nat
         /\ RestSum(s, sd) \in Nat /\ LostRestSum(s, sd) \in Nat
         /\ Executed(s, sd) = ExecSum(s, sd) + LostSum(s, sd)
         /\ Unfilled(s, sd) = RestSum(s, sd) + LostRestSum(s, sd)
BY TotalsAndLost, Zenon

LEMMA LostTotal ==
  ASSUME RouterInv, NEW s, NEW sd
  PROVE  LostSum(s, sd) = SumFunctionOnSet([a \in DOMAIN lost |-> lost[a].exec], LostAt(s, sd))
BY TotalsAndLost, Zenon

(* The terms of one order, and of one repeated attempt.                    *)
LEMMA OrderTerm ==
  ASSUME NEW s, NEW sd, NEW o \in Orders
  PROVE  /\ ExecTerms(s, sd)[o] = IF ord[o].sym = s /\ ord[o].side = sd THEN exec[o] ELSE 0
         /\ ExecTerms(s, sd)'[o] = IF ord'[o].sym = s /\ ord'[o].side = sd THEN exec'[o] ELSE 0
         /\ RestTerms(s, sd)[o] = IF bstate[o] = "live" /\ ord[o].sym = s /\ ord[o].side = sd
                                    THEN ord[o].qty - exec[o] ELSE 0
         /\ RestTerms(s, sd)'[o] = IF bstate'[o] = "live" /\ ord'[o].sym = s /\ ord'[o].side = sd
                                     THEN ord'[o].qty - exec'[o] ELSE 0
BY DEF ExecTerms, RestTerms, LiveAt, Matches, Remaining

LEMMA AttemptTerm ==
  ASSUME NEW s, NEW sd, NEW o \in Orders, NEW k \in Attempts,
         NEW a, a = <<o, k>>
  PROVE  /\ LostTerms(s, sd)[a]
              = IF lost[a].state # "none" /\ ord[o].sym = s /\ ord[o].side = sd
                  THEN lost[a].exec ELSE 0
         /\ LostTerms(s, sd)'[a]
              = IF lost'[a].state # "none" /\ ord'[o].sym = s /\ ord'[o].side = sd
                  THEN lost'[a].exec ELSE 0
         /\ LostRestTerms(s, sd)[a]
              = IF lost[a].state = "live" /\ ord[o].sym = s /\ ord[o].side = sd
                  THEN ord[o].qty - lost[a].exec ELSE 0
         /\ LostRestTerms(s, sd)'[a]
              = IF lost'[a].state = "live" /\ ord'[o].sym = s /\ ord'[o].side = sd
                  THEN ord'[o].qty - lost'[a].exec ELSE 0
<1>1. a \in Orders \X Attempts /\ a[1] = o
  OBVIOUS
<1>2. /\ a \in LostAt(s, sd) <=> lost[a].state # "none" /\ ord[o].sym = s /\ ord[o].side = sd
      /\ a \in LiveLost(s, sd) <=> a \in LostAt(s, sd) /\ lost[a].state = "live"
      /\ LostRemaining(a) = ord[o].qty - lost[a].exec
  BY <1>1 DEF LostAt, LiveLost, Matches, LostRemaining
<1>3. /\ a \in LostAt(s, sd)' <=> lost'[a].state # "none" /\ ord'[o].sym = s /\ ord'[o].side = sd
      /\ a \in LiveLost(s, sd)' <=> a \in LostAt(s, sd)' /\ lost'[a].state = "live"
      /\ LostRemaining(a)' = ord'[o].qty - lost'[a].exec
  BY <1>1 DEF LostAt, LiveLost, Matches, LostRemaining
<1>4. /\ LostTerms(s, sd)[a] = IF a \in LostAt(s, sd) THEN lost[a].exec ELSE 0
      /\ LostRestTerms(s, sd)[a] = IF a \in LiveLost(s, sd) THEN LostRemaining(a) ELSE 0
      /\ LostTerms(s, sd)'[a] = IF a \in LostAt(s, sd)' THEN lost'[a].exec ELSE 0
      /\ LostRestTerms(s, sd)'[a] = IF a \in LiveLost(s, sd)' THEN LostRemaining(a)' ELSE 0
  BY <1>1 DEF LostTerms, LostRestTerms
<1>5. /\ LostTerms(s, sd)[a]
              = IF lost[a].state # "none" /\ ord[o].sym = s /\ ord[o].side = sd
                  THEN lost[a].exec ELSE 0
      /\ LostTerms(s, sd)'[a]
              = IF lost'[a].state # "none" /\ ord'[o].sym = s /\ ord'[o].side = sd
                  THEN lost'[a].exec ELSE 0
  BY <1>2, <1>3, <1>4
<1>6. /\ LostRestTerms(s, sd)[a]
              = IF lost[a].state = "live" /\ ord[o].sym = s /\ ord[o].side = sd
                  THEN ord[o].qty - lost[a].exec ELSE 0
      /\ LostRestTerms(s, sd)'[a]
              = IF lost'[a].state = "live" /\ ord'[o].sym = s /\ ord'[o].side = sd
                  THEN ord'[o].qty - lost'[a].exec ELSE 0
  BY <1>2, <1>3, <1>4
<1> QED
  BY <1>5, <1>6

(* The same for a step that leaves the data of the order alone.            *)
LEMMA AttemptTermsOf ==
  ASSUME NEW s, NEW sd, NEW o \in Orders, NEW k \in Attempts,
         NEW a, a = <<o, k>>, ord'[o] = ord[o]
  PROVE  /\ LostTerms(s, sd)[a]
              = IF lost[a].state # "none" /\ Matches(o, s, sd) THEN lost[a].exec ELSE 0
         /\ LostTerms(s, sd)'[a]
              = IF lost'[a].state # "none" /\ Matches(o, s, sd) THEN lost'[a].exec ELSE 0
         /\ LostRestTerms(s, sd)[a]
              = IF lost[a].state = "live" /\ Matches(o, s, sd)
                  THEN ord[o].qty - lost[a].exec ELSE 0
         /\ LostRestTerms(s, sd)'[a]
              = IF lost'[a].state = "live" /\ Matches(o, s, sd)
                  THEN ord[o].qty - lost'[a].exec ELSE 0
<1>1. a \in Orders \X Attempts /\ a[1] = o
  OBVIOUS
<1>2. /\ a \in LostAt(s, sd) <=> lost[a].state # "none" /\ Matches(o, s, sd)
      /\ a \in LiveLost(s, sd) <=> a \in LostAt(s, sd) /\ lost[a].state = "live"
      /\ LostRemaining(a) = ord[o].qty - lost[a].exec
  BY <1>1 DEF LostAt, LiveLost, LostRemaining
<1>3. /\ a \in LostAt(s, sd)' <=> lost'[a].state # "none" /\ Matches(o, s, sd)
      /\ a \in LiveLost(s, sd)' <=> a \in LostAt(s, sd)' /\ lost'[a].state = "live"
      /\ LostRemaining(a)' = ord[o].qty - lost'[a].exec
  BY <1>1 DEF LostAt, LiveLost, LostRemaining, Matches
<1>4. /\ LostTerms(s, sd)[a] = IF a \in LostAt(s, sd) THEN lost[a].exec ELSE 0
      /\ LostRestTerms(s, sd)[a] = IF a \in LiveLost(s, sd) THEN LostRemaining(a) ELSE 0
      /\ LostTerms(s, sd)'[a] = IF a \in LostAt(s, sd)' THEN lost'[a].exec ELSE 0
      /\ LostRestTerms(s, sd)'[a] = IF a \in LiveLost(s, sd)' THEN LostRemaining(a)' ELSE 0
  BY <1>1 DEF LostTerms, LostRestTerms
<1> QED
  BY <1>2, <1>3, <1>4

(* A step that leaves an order, or a repeated attempt, as it is for the    *)
(* broker.                                                                 *)
SameOrder(o) == ord'[o] = ord[o] /\ exec'[o] = exec[o] /\ bstate'[o] = bstate[o]
SameAttempt(o, k) ==
  /\ lost'[<<o, k>>] = lost[<<o, k>>]
  /\ lost[<<o, k>>].state # "none" => ord'[o] = ord[o]

LEMMA SameOrderTerms ==
  ASSUME NEW s, NEW sd, NEW o \in Orders, SameOrder(o)
  PROVE  /\ ExecTerms(s, sd)'[o] = ExecTerms(s, sd)[o]
         /\ RestTerms(s, sd)'[o] = RestTerms(s, sd)[o]
BY OrderTerm DEF SameOrder

LEMMA SameAttemptTerms ==
  ASSUME NEW s, NEW sd, NEW o \in Orders, NEW k \in Attempts, SameAttempt(o, k)
  PROVE  /\ LostTerms(s, sd)'[<<o, k>>] = LostTerms(s, sd)[<<o, k>>]
         /\ LostRestTerms(s, sd)'[<<o, k>>] = LostRestTerms(s, sd)[<<o, k>>]
<1> DEFINE a == <<o, k>>
           here(x) == x.sym = s /\ x.side = sd
<1>0. a = <<o, k>>
  OBVIOUS
<1>2. lost'[a] = lost[a] /\ (lost[a].state # "none" => ord'[o] = ord[o])
  BY DEF SameAttempt
<1> HIDE DEF a
<1>1. /\ LostTerms(s, sd)[a] = IF lost[a].state # "none" /\ here(ord[o]) THEN lost[a].exec ELSE 0
      /\ LostTerms(s, sd)'[a] = IF lost'[a].state # "none" /\ here(ord'[o]) THEN lost'[a].exec ELSE 0
      /\ LostRestTerms(s, sd)[a] = IF lost[a].state = "live" /\ here(ord[o])
                                     THEN ord[o].qty - lost[a].exec ELSE 0
      /\ LostRestTerms(s, sd)'[a] = IF lost'[a].state = "live" /\ here(ord'[o])
                                      THEN ord'[o].qty - lost'[a].exec ELSE 0
  BY <1>0, AttemptTerm
<1> HIDE DEF here
<1>3. LostTerms(s, sd)'[a] = LostTerms(s, sd)[a]
  BY <1>1, <1>2
<1>4. LostRestTerms(s, sd)'[a] = LostRestTerms(s, sd)[a]
  BY <1>1, <1>2
<1> QED
  BY <1>3, <1>4 DEF a

LEMMA OrdersKept ==
  ASSUME RouterInv, RouterInv', NEW s, NEW sd, \A p \in Orders : SameOrder(p)
  PROVE  ExecSum(s, sd)' = ExecSum(s, sd) /\ RestSum(s, sd)' = RestSum(s, sd)
<1>1. \A f, g : (\A o \in Orders : f[o] \in Int /\ f[o] = g[o])
                  => SumFunctionOnSet(f, Orders) = SumFunctionOnSet(g, Orders)
  BY FiniteOrders, SumEqual
<1>2. \A o \in Orders : /\ ExecTerms(s, sd)[o] \in Int /\ RestTerms(s, sd)[o] \in Int
                        /\ ExecTerms(s, sd)'[o] = ExecTerms(s, sd)[o]
                        /\ RestTerms(s, sd)'[o] = RestTerms(s, sd)[o]
  BY TermTypes, SameOrderTerms
<1> QED
  BY <1>1, <1>2 DEF ExecSum, RestSum

LEMMA AttemptsKept ==
  ASSUME RouterInv, RouterInv', NEW s, NEW sd,
         \A p \in Orders, k \in Attempts : SameAttempt(p, k)
  PROVE  LostSum(s, sd)' = LostSum(s, sd) /\ LostRestSum(s, sd)' = LostRestSum(s, sd)
<1>1. \A f, g : (\A a \in Orders \X Attempts : f[a] \in Int /\ f[a] = g[a])
                  => SumFunctionOnSet(f, Orders \X Attempts) = SumFunctionOnSet(g, Orders \X Attempts)
  BY FiniteOrders, SumEqual
<1>2. \A a \in Orders \X Attempts : LostTerms(s, sd)[a] \in Int /\ LostRestTerms(s, sd)[a] \in Int
  BY TermTypes
<1>3. \A a \in Orders \X Attempts : /\ LostTerms(s, sd)'[a] = LostTerms(s, sd)[a]
                                    /\ LostRestTerms(s, sd)'[a] = LostRestTerms(s, sd)[a]
  BY SameAttemptTerms
<1> QED
  BY <1>1, <1>2, <1>3 DEF LostSum, LostRestSum

LEMMA OneOrderMoves ==
  ASSUME RouterInv, RouterInv', NEW s, NEW sd, NEW o \in Orders,
         \A p \in Orders \ {o} : SameOrder(p)
  PROVE  /\ ExecSum(s, sd)' = ExecSum(s, sd) + ExecTerms(s, sd)'[o] - ExecTerms(s, sd)[o]
         /\ RestSum(s, sd)' = RestSum(s, sd) + RestTerms(s, sd)'[o] - RestTerms(s, sd)[o]
<1>1. \A f, g : (/\ \A p \in Orders : f[p] \in Int /\ g[p] \in Int
                 /\ \A p \in Orders \ {o} : f[p] = g[p])
                  => SumFunctionOnSet(g, Orders) = SumFunctionOnSet(f, Orders) + g[o] - f[o]
  <2>1. IsFiniteSet(Orders)
    BY FiniteOrders
  <2> QED
    BY <2>1, SumChange
<1>2. \A p \in Orders : ExecTerms(s, sd)[p] \in Int /\ RestTerms(s, sd)[p] \in Int
  BY TermTypes
<1>3. \A p \in Orders : ExecTerms(s, sd)'[p] \in Int /\ RestTerms(s, sd)'[p] \in Int
  BY TermsNatNext DEF TermsAreNat
<1>4. \A p \in Orders \ {o} : /\ ExecTerms(s, sd)[p] = ExecTerms(s, sd)'[p]
                              /\ RestTerms(s, sd)[p] = RestTerms(s, sd)'[p]
  BY SameOrderTerms
<1> QED
  BY <1>1, <1>2, <1>3, <1>4 DEF ExecSum, RestSum

LEMMA OneAttemptMoves ==
  ASSUME RouterInv, RouterInv', NEW s, NEW sd, NEW o \in Orders, NEW k \in Attempts,
         \A p \in Orders, j \in Attempts : <<p, j>> # <<o, k>> => SameAttempt(p, j)
  PROVE  /\ LostSum(s, sd)'
              = LostSum(s, sd) + LostTerms(s, sd)'[<<o, k>>] - LostTerms(s, sd)[<<o, k>>]
         /\ LostRestSum(s, sd)'
              = LostRestSum(s, sd) + LostRestTerms(s, sd)'[<<o, k>>] - LostRestTerms(s, sd)[<<o, k>>]
<1> DEFINE a == <<o, k>>
           S == Orders \X Attempts
<1>0. IsFiniteSet(S) /\ a \in S
  BY FiniteOrders
<1>1. \A f, g : (/\ \A p \in S : f[p] \in Int /\ g[p] \in Int
                 /\ \A p \in S \ {a} : f[p] = g[p])
                  => SumFunctionOnSet(g, S) = SumFunctionOnSet(f, S) + g[a] - f[a]
  <2> HIDE DEF a, S
  <2> QED
    BY <1>0, SumChange
<1>2. \A p \in S : LostTerms(s, sd)[p] \in Int /\ LostRestTerms(s, sd)[p] \in Int
  BY TermTypes
<1>3. \A p \in S : LostTerms(s, sd)'[p] \in Int /\ LostRestTerms(s, sd)'[p] \in Int
  BY TermsNatNext DEF TermsAreNat
<1>4. \A p \in S \ {a} : /\ LostTerms(s, sd)[p] = LostTerms(s, sd)'[p]
                         /\ LostRestTerms(s, sd)[p] = LostRestTerms(s, sd)'[p]
  <2>1. ASSUME NEW p \in Orders, NEW j \in Attempts, <<p, j>> # a
        PROVE  /\ LostTerms(s, sd)[<<p, j>>] = LostTerms(s, sd)'[<<p, j>>]
               /\ LostRestTerms(s, sd)[<<p, j>>] = LostRestTerms(s, sd)'[<<p, j>>]
    BY <2>1, SameAttemptTerms
  <2> HIDE DEF a
  <2> QED
    BY <2>1
<1> HIDE DEF a, S
<1>5. /\ SumFunctionOnSet(LostTerms(s, sd)', S)
           = SumFunctionOnSet(LostTerms(s, sd), S) + LostTerms(s, sd)'[a] - LostTerms(s, sd)[a]
      /\ SumFunctionOnSet(LostRestTerms(s, sd)', S)
           = SumFunctionOnSet(LostRestTerms(s, sd), S) + LostRestTerms(s, sd)'[a] - LostRestTerms(s, sd)[a]
  BY <1>1, <1>2, <1>3, <1>4
<1> QED
  BY <1>5 DEF LostSum, LostRestSum, a, S

TotalsAdd ==
  \A s, sd :
    /\ ExecSum(s, sd) \in Nat /\ LostSum(s, sd) \in Nat
    /\ RestSum(s, sd) \in Nat /\ LostRestSum(s, sd) \in Nat
    /\ Executed(s, sd) = ExecSum(s, sd) + LostSum(s, sd)
    /\ Unfilled(s, sd) = RestSum(s, sd) + LostRestSum(s, sd)

LEMMA TotalsNow == RouterInv => TotalsAdd
BY Totals DEF TotalsAdd

LEMMA TotalsNext == RouterInv' => TotalsAdd'
BY TotalsNow, PTL

-----------------------------------------------------------------------------
(* What a step does to the totals of a symbol and a side: nothing, or it   *)
(* withdraws shares that were to be executed; it executes one of them; or  *)
(* it brings the shares of a request to the broker.                        *)
Settled(s, sd) == Executed(s, sd)' = Executed(s, sd) /\ Unfilled(s, sd)' <= Unfilled(s, sd)
Fills(s, sd) ==
  /\ Executed(s, sd)' = Executed(s, sd) + 1
  /\ Unfilled(s, sd)' = Unfilled(s, sd) - 1
Takes(o, s, sd) ==
  /\ Matches(o, s, sd)
  /\ Executed(s, sd)' = Executed(s, sd)
  /\ Unfilled(s, sd)' = Unfilled(s, sd) + ord[o].qty

(* A step at one order.                                                    *)
LEMMA OrderSettles ==
  ASSUME RouterInv, RouterInv', NEW s, NEW sd, NEW o \in Orders,
         \A p \in Orders \ {o} : SameOrder(p),
         \A p \in Orders, k \in Attempts : SameAttempt(p, k)
  PROVE  /\ Executed(s, sd)' = Executed(s, sd) + ExecTerms(s, sd)'[o] - ExecTerms(s, sd)[o]
         /\ Unfilled(s, sd)' = Unfilled(s, sd) + RestTerms(s, sd)'[o] - RestTerms(s, sd)[o]
<1>1. /\ LostSum(s, sd)' = LostSum(s, sd) /\ LostRestSum(s, sd)' = LostRestSum(s, sd)
  BY AttemptsKept
<1>2. /\ ExecSum(s, sd)' = ExecSum(s, sd) + ExecTerms(s, sd)'[o] - ExecTerms(s, sd)[o]
      /\ RestSum(s, sd)' = RestSum(s, sd) + RestTerms(s, sd)'[o] - RestTerms(s, sd)[o]
  BY OneOrderMoves
<1>3. /\ ExecTerms(s, sd)[o] \in Nat /\ RestTerms(s, sd)[o] \in Nat
      /\ ExecTerms(s, sd)'[o] \in Nat /\ RestTerms(s, sd)'[o] \in Nat
  BY TermTypes, TermsNatNext DEF TermsAreNat
<1>4. /\ ExecSum(s, sd) \in Nat /\ LostSum(s, sd) \in Nat
      /\ RestSum(s, sd) \in Nat /\ LostRestSum(s, sd) \in Nat
      /\ Executed(s, sd) = ExecSum(s, sd) + LostSum(s, sd)
      /\ Unfilled(s, sd) = RestSum(s, sd) + LostRestSum(s, sd)
  BY Totals
<1>5. /\ Executed(s, sd)' = ExecSum(s, sd)' + LostSum(s, sd)'
      /\ Unfilled(s, sd)' = RestSum(s, sd)' + LostRestSum(s, sd)'
  BY TotalsNext DEF TotalsAdd
<1> QED
  BY <1>1, <1>2, <1>3, <1>4, <1>5

(* A step that changes nothing the broker holds.                           *)
LEMMA NothingSettles ==
  ASSUME RouterInv, RouterInv', NEW s, NEW sd,
         \A p \in Orders : SameOrder(p),
         \A p \in Orders, k \in Attempts : SameAttempt(p, k)
  PROVE  Executed(s, sd)' = Executed(s, sd) /\ Unfilled(s, sd)' = Unfilled(s, sd)
<1>1. /\ ExecSum(s, sd)' = ExecSum(s, sd) /\ RestSum(s, sd)' = RestSum(s, sd)
      /\ LostSum(s, sd)' = LostSum(s, sd) /\ LostRestSum(s, sd)' = LostRestSum(s, sd)
  BY AttemptsKept, OrdersKept
<1>2. /\ Executed(s, sd) = ExecSum(s, sd) + LostSum(s, sd)
      /\ Unfilled(s, sd) = RestSum(s, sd) + LostRestSum(s, sd)
  BY Totals
<1>3. /\ Executed(s, sd)' = ExecSum(s, sd)' + LostSum(s, sd)'
      /\ Unfilled(s, sd)' = RestSum(s, sd)' + LostRestSum(s, sd)'
  BY TotalsNext DEF TotalsAdd
<1> QED
  BY <1>1, <1>2, <1>3

(* A step at one repeated attempt.                                         *)
LEMMA AttemptSettles ==
  ASSUME RouterInv, RouterInv', NEW s, NEW sd, NEW o \in Orders, NEW k \in Attempts,
         \A p \in Orders : SameOrder(p),
         \A p \in Orders, j \in Attempts : <<p, j>> # <<o, k>> => SameAttempt(p, j)
  PROVE  /\ Executed(s, sd)'
              = Executed(s, sd) + LostTerms(s, sd)'[<<o, k>>] - LostTerms(s, sd)[<<o, k>>]
         /\ Unfilled(s, sd)'
              = Unfilled(s, sd) + LostRestTerms(s, sd)'[<<o, k>>] - LostRestTerms(s, sd)[<<o, k>>]
<1> DEFINE a == <<o, k>>
<1>1. ExecSum(s, sd)' = ExecSum(s, sd) /\ RestSum(s, sd)' = RestSum(s, sd)
  BY OrdersKept
<1>2. /\ LostSum(s, sd)' = LostSum(s, sd) + LostTerms(s, sd)'[a] - LostTerms(s, sd)[a]
      /\ LostRestSum(s, sd)' = LostRestSum(s, sd) + LostRestTerms(s, sd)'[a] - LostRestTerms(s, sd)[a]
  BY OneAttemptMoves
<1>3. /\ LostTerms(s, sd)[a] \in Nat /\ LostRestTerms(s, sd)[a] \in Nat
      /\ LostTerms(s, sd)'[a] \in Nat /\ LostRestTerms(s, sd)'[a] \in Nat
  BY TermTypes, TermsNatNext DEF TermsAreNat
<1> HIDE DEF a
<1>4. /\ ExecSum(s, sd) \in Nat /\ LostSum(s, sd) \in Nat
      /\ RestSum(s, sd) \in Nat /\ LostRestSum(s, sd) \in Nat
      /\ Executed(s, sd) = ExecSum(s, sd) + LostSum(s, sd)
      /\ Unfilled(s, sd) = RestSum(s, sd) + LostRestSum(s, sd)
  BY Totals
<1>5. /\ Executed(s, sd)' = ExecSum(s, sd)' + LostSum(s, sd)'
      /\ Unfilled(s, sd)' = RestSum(s, sd)' + LostRestSum(s, sd)'
  BY TotalsNext DEF TotalsAdd
<1>6. /\ Executed(s, sd)' = Executed(s, sd) + LostTerms(s, sd)'[a] - LostTerms(s, sd)[a]
      /\ Unfilled(s, sd)' = Unfilled(s, sd) + LostRestTerms(s, sd)'[a] - LostRestTerms(s, sd)[a]
  BY <1>1, <1>2, <1>3, <1>4, <1>5
<1> QED
  BY <1>6 DEF a

-----------------------------------------------------------------------------
(* The broker's steps.                                                     *)

LEMMA FillSettles ==
  ASSUME RouterInv, RouterInv', NEW o \in Orders, BrokerFill(o), NEW s, NEW sd
  PROVE  IF Matches(o, s, sd) THEN Fills(s, sd) ELSE Settled(s, sd)
<1>1. /\ bstate[o] = "live" /\ ord' = ord /\ lost' = lost
      /\ exec' = [exec EXCEPT ![o] = exec[o] + 1]
      /\ bstate' = [bstate EXCEPT ![o] = IF exec[o] + 1 = ord[o].qty THEN "done" ELSE bstate[o]]
  BY DEF BrokerFill, routerVars
<1>2. /\ exec \in [Orders -> 0..MaxQty] /\ bstate \in [Orders -> BrokerStates]
      /\ exec[o] < ord[o].qty /\ status[o] # "NONE"
  BY <1>1 DEF RouterInv, TypeOK, OrderInv
<1>3. ord[o].qty \in Nat /\ exec[o] \in Nat
  BY <1>2, CreatedData, RouterAssumption
<1>4. /\ \A p \in Orders \ {o} : SameOrder(p)
      /\ \A p \in Orders, k \in Attempts : SameAttempt(p, k)
  BY <1>1, <1>2 DEF SameOrder, SameAttempt
<1>5. /\ Executed(s, sd)' = Executed(s, sd) + ExecTerms(s, sd)'[o] - ExecTerms(s, sd)[o]
      /\ Unfilled(s, sd)' = Unfilled(s, sd) + RestTerms(s, sd)'[o] - RestTerms(s, sd)[o]
  BY <1>4, OrderSettles
<1>6. /\ exec'[o] = exec[o] + 1
      /\ bstate'[o] = IF exec[o] + 1 = ord[o].qty THEN "done" ELSE "live"
  BY <1>1, <1>2
<1>7. /\ Executed(s, sd) \in Nat /\ Unfilled(s, sd) \in Nat
  BY Totals
<1>8. CASE Matches(o, s, sd)
  <2>1. /\ ExecTerms(s, sd)[o] = exec[o] /\ ExecTerms(s, sd)'[o] = exec[o] + 1
        /\ RestTerms(s, sd)[o] = ord[o].qty - exec[o]
        /\ RestTerms(s, sd)'[o] = ord[o].qty - exec[o] - 1
    BY <1>1, <1>3, <1>6, <1>8, OrderTerm DEF Matches
  <2> QED
    BY <1>3, <1>5, <1>7, <1>8, <2>1 DEF Fills
<1>9. CASE ~Matches(o, s, sd)
  <2>1. /\ ExecTerms(s, sd)[o] = 0 /\ ExecTerms(s, sd)'[o] = 0
        /\ RestTerms(s, sd)[o] = 0 /\ RestTerms(s, sd)'[o] = 0
    BY <1>1, <1>9, OrderTerm DEF Matches
  <2> QED
    BY <1>5, <1>7, <1>9, <2>1 DEF Settled
<1> QED
  BY <1>8, <1>9

(* The rest of an order is withdrawn, or nothing happens to it.            *)
LEMMA CancelSettles ==
  ASSUME RouterInv, RouterInv', NEW o \in Orders, NEW s, NEW sd,
         UNCHANGED <<ord, exec, lost>>, \A p \in Orders \ {o} : bstate'[p] = bstate[p],
         bstate'[o] = "live" => bstate[o] = "live"
  PROVE  Settled(s, sd)
<1>1. /\ \A p \in Orders \ {o} : SameOrder(p)
      /\ \A p \in Orders, k \in Attempts : SameAttempt(p, k)
  BY DEF SameOrder, SameAttempt
<1>2. /\ Executed(s, sd)' = Executed(s, sd) + ExecTerms(s, sd)'[o] - ExecTerms(s, sd)[o]
      /\ Unfilled(s, sd)' = Unfilled(s, sd) + RestTerms(s, sd)'[o] - RestTerms(s, sd)[o]
  BY <1>1, OrderSettles
<1>3. /\ Executed(s, sd) \in Nat /\ Unfilled(s, sd) \in Nat
      /\ ExecTerms(s, sd)[o] \in Nat /\ RestTerms(s, sd)[o] \in Nat
  BY Totals, TermTypes
<1>4. ExecTerms(s, sd)'[o] = ExecTerms(s, sd)[o]
  BY OrderTerm
<1>5. RestTerms(s, sd)'[o] = RestTerms(s, sd)[o] \/ RestTerms(s, sd)'[o] = 0
  BY OrderTerm
<1> QED
  BY <1>2, <1>3, <1>4, <1>5 DEF Settled

(* A request reaches the broker.                                           *)
LEMMA AcceptSettles ==
  ASSUME RouterInv, RouterInv', BrokerAccept, NEW s, NEW sd
  PROVE  IF Matches(calling, s, sd) THEN Takes(calling, s, sd) ELSE Settled(s, sd)
<1>1. /\ calling \in Orders /\ bstate[calling] = "none" /\ UNCHANGED <<ord, exec, lost>>
      /\ bstate' = [bstate EXCEPT ![calling] = "live"]
      /\ bstate \in [Orders -> BrokerStates]
      /\ status[calling] # "NONE" /\ exec[calling] = 0
  BY DEF BrokerAccept, routerVars, RouterInv, TypeOK, OrderInv, CallingInv
<1>2. ord[calling].qty \in Nat
  BY <1>1, CreatedData, RouterAssumption
<1>3. /\ \A p \in Orders \ {calling} : SameOrder(p)
      /\ \A p \in Orders, k \in Attempts : SameAttempt(p, k)
  BY <1>1 DEF SameOrder, SameAttempt
<1>4. /\ Executed(s, sd)' = Executed(s, sd) + ExecTerms(s, sd)'[calling] - ExecTerms(s, sd)[calling]
      /\ Unfilled(s, sd)' = Unfilled(s, sd) + RestTerms(s, sd)'[calling] - RestTerms(s, sd)[calling]
  BY <1>1, <1>3, OrderSettles
<1>5. /\ Executed(s, sd) \in Nat /\ Unfilled(s, sd) \in Nat
      /\ ExecTerms(s, sd)[calling] \in Nat /\ bstate'[calling] = "live"
  BY <1>1, Totals, TermTypes
<1>6. ExecTerms(s, sd)'[calling] = ExecTerms(s, sd)[calling] /\ RestTerms(s, sd)[calling] = 0
  BY <1>1, OrderTerm
<1>7. RestTerms(s, sd)'[calling] = IF Matches(calling, s, sd) THEN ord[calling].qty ELSE 0
  BY <1>1, <1>2, <1>5, OrderTerm DEF Matches
<1> QED
  BY <1>2, <1>4, <1>5, <1>6, <1>7 DEF Takes, Settled

LEMMA LostFillSettles ==
  ASSUME RouterInv, RouterInv', NEW o \in Orders, NEW k \in Attempts, LostFill(<<o, k>>),
         NEW s, NEW sd
  PROVE  IF Matches(o, s, sd) THEN Fills(s, sd) ELSE Settled(s, sd)
<1> DEFINE a == <<o, k>>
<1>1. /\ lost[a].state = "live" /\ ord' = ord /\ exec' = exec /\ bstate' = bstate
      /\ lost' = [lost EXCEPT ![a] =
           [state |-> IF lost[a].exec + 1 = ord[o].qty THEN "done" ELSE "live",
            exec |-> lost[a].exec + 1]]
  BY DEF LostFill, routerVars
<1>2. /\ lost \in [Orders \X Attempts -> [state : BrokerStates, exec : 0..MaxQty]]
      /\ lost[a].exec < ord[o].qty /\ status[o] # "NONE" /\ lost[a].exec \in Nat
  BY <1>1, RouterAssumption DEF RouterInv, TypeOK, LostInv
<1>3. ord[o].qty \in Nat
  BY <1>2, CreatedData, RouterAssumption
<1>4. /\ \A p \in Orders : SameOrder(p)
      /\ \A p \in Orders, j \in Attempts : <<p, j>> # <<o, k>> => SameAttempt(p, j)
  BY <1>1, <1>2 DEF SameOrder, SameAttempt
<1>5. /\ Executed(s, sd)' = Executed(s, sd) + LostTerms(s, sd)'[a] - LostTerms(s, sd)[a]
      /\ Unfilled(s, sd)' = Unfilled(s, sd) + LostRestTerms(s, sd)'[a] - LostRestTerms(s, sd)[a]
  BY <1>4, AttemptSettles
<1>6. /\ lost'[a].exec = lost[a].exec + 1
      /\ lost'[a].state = IF lost[a].exec + 1 = ord[o].qty THEN "done" ELSE "live"
  BY <1>1, <1>2
<1>7. /\ Executed(s, sd) \in Nat /\ Unfilled(s, sd) \in Nat
  BY Totals
<1>0. a = <<o, k>>
  OBVIOUS
<1> HIDE DEF a
<1>8. /\ LostTerms(s, sd)[a]
           = IF lost[a].state # "none" /\ Matches(o, s, sd) THEN lost[a].exec ELSE 0
      /\ LostTerms(s, sd)'[a]
           = IF lost'[a].state # "none" /\ Matches(o, s, sd) THEN lost'[a].exec ELSE 0
      /\ LostRestTerms(s, sd)[a]
           = IF lost[a].state = "live" /\ Matches(o, s, sd)
               THEN ord[o].qty - lost[a].exec ELSE 0
      /\ LostRestTerms(s, sd)'[a]
           = IF lost'[a].state = "live" /\ Matches(o, s, sd)
               THEN ord[o].qty - lost'[a].exec ELSE 0
  BY <1>0, <1>1, AttemptTermsOf
<1>9. CASE Matches(o, s, sd)
  BY <1>1, <1>2, <1>3, <1>5, <1>6, <1>7, <1>8, <1>9 DEF Fills
<1>10. CASE ~Matches(o, s, sd)
  BY <1>1, <1>2, <1>3, <1>5, <1>6, <1>7, <1>8, <1>10 DEF Settled
<1> QED
  BY <1>9, <1>10

LEMMA LostCancelSettles ==
  ASSUME RouterInv, RouterInv', NEW o \in Orders, NEW k \in Attempts, LostCancel(<<o, k>>),
         NEW s, NEW sd
  PROVE  Settled(s, sd)
<1> DEFINE a == <<o, k>>
<1>1. /\ lost[a].state = "live" /\ ord' = ord /\ exec' = exec /\ bstate' = bstate
      /\ lost' = [lost EXCEPT ![a] = [state |-> "cancelled", exec |-> lost[a].exec]]
  BY DEF LostCancel, routerVars
<1>2. lost \in [Orders \X Attempts -> [state : BrokerStates, exec : 0..MaxQty]]
  BY DEF RouterInv, TypeOK
<1>3. /\ \A p \in Orders : SameOrder(p)
      /\ \A p \in Orders, j \in Attempts : <<p, j>> # <<o, k>> => SameAttempt(p, j)
  BY <1>1, <1>2 DEF SameOrder, SameAttempt
<1>4. /\ Executed(s, sd)' = Executed(s, sd) + LostTerms(s, sd)'[a] - LostTerms(s, sd)[a]
      /\ Unfilled(s, sd)' = Unfilled(s, sd) + LostRestTerms(s, sd)'[a] - LostRestTerms(s, sd)[a]
  BY <1>3, AttemptSettles
<1>5. lost'[a].exec = lost[a].exec /\ lost'[a].state = "cancelled"
  BY <1>1, <1>2
<1>6. LostTerms(s, sd)'[a] = LostTerms(s, sd)[a] /\ LostRestTerms(s, sd)'[a] = 0
  <2>1. a = <<o, k>>
    OBVIOUS
  <2> HIDE DEF a
  <2> QED
    BY <1>1, <1>5, <2>1, AttemptTerm
<1>7. /\ Executed(s, sd) \in Nat /\ Unfilled(s, sd) \in Nat
      /\ LostTerms(s, sd)[a] \in Nat /\ LostRestTerms(s, sd)[a] \in Nat
  BY Totals, TermTypes
<1> HIDE DEF a
<1> QED
  BY <1>4, <1>6, <1>7 DEF Settled

(* A repeated request moves what the attempt before it left at the broker, *)
(* and changes no total.                                                   *)
LEMMA RetrySettles ==
  ASSUME RouterInv, RouterInv', Retry, NEW s, NEW sd
  PROVE  Settled(s, sd)
<1> DEFINE c == calling
<1>1. PICK k \in Attempts :
        /\ lost[<<c, k>>].state = "none"
        /\ lost' = [lost EXCEPT ![<<c, k>>] = [state |-> bstate[c], exec |-> exec[c]]]
  BY Zenon DEF Retry
<1> DEFINE a == <<c, k>>
<1>2. /\ c \in Orders /\ bstate[c] # "none" /\ ord' = ord
      /\ bstate' = [bstate EXCEPT ![c] = "none"]
      /\ exec' = [exec EXCEPT ![c] = 0]
      /\ bstate \in [Orders -> BrokerStates] /\ exec \in [Orders -> 0..MaxQty]
      /\ lost \in [Orders \X Attempts -> [state : BrokerStates, exec : 0..MaxQty]]
      /\ status[c] # "NONE" /\ exec[c] <= ord[c].qty
  BY DEF Retry, routerVars, RouterInv, TypeOK, CallingInv, OrderInv
<1>3. ord[c].qty \in Nat /\ exec[c] \in Nat
  BY <1>2, CreatedData, RouterAssumption
<1>4. /\ \A p \in Orders \ {c} : SameOrder(p)
      /\ \A p \in Orders, j \in Attempts : <<p, j>> # <<c, k>> => SameAttempt(p, j)
  BY <1>1, <1>2 DEF SameOrder, SameAttempt
<1>5. /\ ExecSum(s, sd)' = ExecSum(s, sd) + ExecTerms(s, sd)'[c] - ExecTerms(s, sd)[c]
      /\ RestSum(s, sd)' = RestSum(s, sd) + RestTerms(s, sd)'[c] - RestTerms(s, sd)[c]
  BY <1>2, <1>4, OneOrderMoves
<1>6. /\ LostSum(s, sd)' = LostSum(s, sd) + LostTerms(s, sd)'[a] - LostTerms(s, sd)[a]
      /\ LostRestSum(s, sd)' = LostRestSum(s, sd) + LostRestTerms(s, sd)'[a] - LostRestTerms(s, sd)[a]
  <2>1. \A p \in Orders, j \in Attempts : <<p, j>> # a => SameAttempt(p, j)
    BY <1>2, <1>4 DEF SameAttempt
  <2> QED
    BY <1>2, <2>1, OneAttemptMoves
<1>7. /\ lost'[a].state = bstate[c] /\ lost'[a].exec = exec[c]
      /\ bstate'[c] = "none" /\ exec'[c] = 0 /\ lost[a].state = "none"
  BY <1>1, <1>2
<1>8. /\ ExecTerms(s, sd)[c] = IF Matches(c, s, sd) THEN exec[c] ELSE 0
      /\ ExecTerms(s, sd)'[c] = 0
      /\ RestTerms(s, sd)[c] = IF bstate[c] = "live" /\ Matches(c, s, sd) THEN ord[c].qty - exec[c] ELSE 0
      /\ RestTerms(s, sd)'[c] = 0
  BY <1>2, <1>7, OrderTerm DEF Matches
<1>0. a = <<c, k>>
  OBVIOUS
<1> HIDE DEF a, c
<1>9. /\ LostTerms(s, sd)[a]
           = IF lost[a].state # "none" /\ Matches(c, s, sd) THEN lost[a].exec ELSE 0
      /\ LostTerms(s, sd)'[a]
           = IF lost'[a].state # "none" /\ Matches(c, s, sd) THEN lost'[a].exec ELSE 0
      /\ LostRestTerms(s, sd)[a]
           = IF lost[a].state = "live" /\ Matches(c, s, sd)
               THEN ord[c].qty - lost[a].exec ELSE 0
      /\ LostRestTerms(s, sd)'[a]
           = IF lost'[a].state = "live" /\ Matches(c, s, sd)
               THEN ord[c].qty - lost'[a].exec ELSE 0
  <2>1. c \in Orders /\ ord'[c] = ord[c]
    BY <1>2
  <2> QED
    BY <1>0, <2>1, AttemptTermsOf
<1>10. /\ LostTerms(s, sd)'[a] = IF Matches(c, s, sd) THEN exec[c] ELSE 0
       /\ LostTerms(s, sd)[a] = 0
       /\ LostRestTerms(s, sd)[a] = 0
       /\ LostRestTerms(s, sd)'[a]
             = IF bstate[c] = "live" /\ Matches(c, s, sd) THEN ord[c].qty - exec[c] ELSE 0
  BY <1>2, <1>7, <1>9
<1>11. /\ ExecSum(s, sd) \in Nat /\ LostSum(s, sd) \in Nat
       /\ RestSum(s, sd) \in Nat /\ LostRestSum(s, sd) \in Nat
       /\ Executed(s, sd) = ExecSum(s, sd) + LostSum(s, sd)
       /\ Unfilled(s, sd) = RestSum(s, sd) + LostRestSum(s, sd)
  BY Totals
<1>12. /\ Executed(s, sd)' = ExecSum(s, sd)' + LostSum(s, sd)'
       /\ Unfilled(s, sd)' = RestSum(s, sd)' + LostRestSum(s, sd)'
  BY TotalsNext DEF TotalsAdd
<1>13. Executed(s, sd)' = Executed(s, sd)
  BY <1>3, <1>5, <1>6, <1>8, <1>10, <1>11, <1>12
<1>14. Unfilled(s, sd)' = Unfilled(s, sd)
  BY <1>3, <1>5, <1>6, <1>8, <1>10, <1>11, <1>12
<1> QED
  BY <1>11, <1>13, <1>14 DEF Settled

(* A new order is nothing to the broker yet.                               *)
LEMMA SubmitSettles ==
  ASSUME RouterInv, RouterInv', NEW o \in Orders, status[o] = "NONE",
         \A p \in Orders \ {o} : ord'[p] = ord[p], UNCHANGED <<exec, bstate, lost>>,
         NEW s, NEW sd
  PROVE  Executed(s, sd)' = Executed(s, sd) /\ Unfilled(s, sd)' = Unfilled(s, sd)
<1>1. exec[o] = 0 /\ bstate[o] = "none" /\ \A k \in Attempts : lost[<<o, k>>].state = "none"
  BY DEF RouterInv, OrderInv, LostInv
<1>2. /\ \A p \in Orders \ {o} : SameOrder(p)
      /\ \A p \in Orders, k \in Attempts : SameAttempt(p, k)
  BY <1>1 DEF SameOrder, SameAttempt
<1>3. /\ Executed(s, sd)' = Executed(s, sd) + ExecTerms(s, sd)'[o] - ExecTerms(s, sd)[o]
      /\ Unfilled(s, sd)' = Unfilled(s, sd) + RestTerms(s, sd)'[o] - RestTerms(s, sd)[o]
  BY <1>2, OrderSettles
<1>4. /\ ExecTerms(s, sd)'[o] = 0 /\ ExecTerms(s, sd)[o] = 0
      /\ RestTerms(s, sd)'[o] = 0 /\ RestTerms(s, sd)[o] = 0
  BY <1>1, OrderTerm
<1>5. Executed(s, sd) \in Nat /\ Unfilled(s, sd) \in Nat
  BY Totals
<1> QED
  BY <1>3, <1>4, <1>5

LEMMA TotalsStep ==
  ASSUME RouterInv, [Next]_vars, NEW s, NEW sd
  PROVE  \/ Settled(s, sd)
         \/ Fills(s, sd)
         \/ BrokerAccept /\ Takes(calling, s, sd)
<1>0. RouterInv'
  BY RouterStep
<1>1. ASSUME UNCHANGED <<ord, exec, bstate, lost>>
      PROVE  Settled(s, sd)
  <2>1. /\ \A p \in Orders : SameOrder(p)
        /\ \A p \in Orders, k \in Attempts : SameAttempt(p, k)
    BY <1>1 DEF SameOrder, SameAttempt
  <2>2. Executed(s, sd)' = Executed(s, sd) /\ Unfilled(s, sd)' = Unfilled(s, sd)
    BY <1>0, <2>1, NothingSettles
  <2>3. Unfilled(s, sd) \in Nat
    BY Totals
  <2> QED
    BY <2>2, <2>3 DEF Settled
<1>2. CASE Submit
  <2>1. PICK o \in Orders, x \in Symbols, n \in 1..MaxQty, i \in Intents \cup {None} :
          \/ \E h \in Horizons : SubmitBuy(o, x, n, h, i) \/ SubmitBuyNoCash(o, x, n, h, i)
          \/ SubmitSell(o, x, n, i)
    BY <1>2 DEF Submit
  <2>2. /\ status[o] = "NONE" /\ \A p \in Orders \ {o} : ord'[p] = ord[p]
        /\ UNCHANGED <<exec, bstate, lost>>
    BY <2>1 DEF SubmitBuy, SubmitBuyNoCash, SubmitSell, NewOrder, Register, brokerVars,
                RouterInv, TypeOK
  <2>3. Executed(s, sd)' = Executed(s, sd) /\ Unfilled(s, sd)' = Unfilled(s, sd)
    BY <1>0, <2>2, SubmitSettles
  <2>4. Unfilled(s, sd) \in Nat
    BY Totals
  <2> QED
    BY <2>3, <2>4 DEF Settled
<1>3. CASE \E o \in Orders : CancelOrder(o)
  <2>1. PICK o \in Orders : CancelOrder(o)
    BY <1>3
  <2>2. /\ UNCHANGED <<ord, exec, lost>> /\ \A p \in Orders \ {o} : bstate'[p] = bstate[p]
        /\ bstate'[o] = "live" => bstate[o] = "live"
    BY <2>1 DEF CancelOrder, RouterInv, TypeOK
  <2> QED
    BY <1>0, <2>2, CancelSettles
<1>4. CASE \E o \in Orders : BrokerCancel(o)
  <2>1. PICK o \in Orders : BrokerCancel(o)
    BY <1>4
  <2>2. /\ UNCHANGED <<ord, exec, lost>> /\ \A p \in Orders \ {o} : bstate'[p] = bstate[p]
        /\ bstate'[o] = "live" => bstate[o] = "live"
    BY <2>1 DEF BrokerCancel, routerVars, RouterInv, TypeOK
  <2> QED
    BY <1>0, <2>2, CancelSettles
<1>5. CASE \E o \in Orders : BrokerFill(o)
  BY <1>0, <1>5, FillSettles
<1>6. CASE \E a \in Orders \X Attempts : LostFill(a) \/ LostCancel(a)
  <2>1. PICK o \in Orders, k \in Attempts : LostFill(<<o, k>>) \/ LostCancel(<<o, k>>)
    BY <1>6
  <2> QED
    BY <1>0, <2>1, LostFillSettles, LostCancelSettles
<1>7. CASE BrokerAccept
  BY <1>0, <1>7, AcceptSettles
<1>8. CASE Retry
  BY <1>0, <1>8, RetrySettles
<1>9. CASE Respond \/ (\E o \in Orders : Reconcile(o)) \/ SyncCash \/ Restart
  BY <1>1, <1>9 DEF Respond, AckReceived, SendFailed, PaperFill, Reconcile, ReconcileFill,
     ReconcileCanceled, ReconcileByHoldings, SyncCash, Restart, routerVars, brokerVars
<1>10. CASE (\E x \in Symbols : CooldownExpires(x)) \/ (\E b \in BOOLEAN : SetCriticalExitFailure(b))
  BY <1>1, <1>10 DEF CooldownExpires, SetCriticalExitFailure, brokerVars
<1>11. CASE UNCHANGED vars
  BY <1>1, <1>11 DEF vars, routerVars, brokerVars
<1> QED
  BY <1>2, <1>3, <1>4, <1>5, <1>6, <1>7, <1>8, <1>9, <1>10, <1>11 DEF Next, Broker

-----------------------------------------------------------------------------
(* The shares that may still be sold.                                      *)

(* Only a SELL that reaches the broker takes shares off: a fill moves one  *)
(* from those for sale to those sold, and a withdrawal gives them back.    *)
LEMMA SellableStep ==
  ASSUME RouterInv, [Next]_vars, NEW s
  PROVE  \/ Sellable(s)' >= Sellable(s)
         \/ /\ BrokerAccept /\ Matches(calling, s, "SELL")
            /\ Sellable(s)' = Sellable(s) - ord[calling].qty
<1>1. /\ Executed(s, "BUY") \in Nat /\ Executed(s, "SELL") \in Nat /\ Unfilled(s, "SELL") \in Nat
  BY Totals
<1>2. Executed(s, "BUY")' = Executed(s, "BUY") \/ Executed(s, "BUY")' = Executed(s, "BUY") + 1
  BY TotalsStep DEF Settled, Fills, Takes
<1>3. Unfilled(s, "SELL")' \in Nat
  BY RouterStep, TotalsNext DEF TotalsAdd
<1>4. \/ Settled(s, "SELL") \/ Fills(s, "SELL")
      \/ BrokerAccept /\ Takes(calling, s, "SELL")
  BY TotalsStep
<1>5. /\ Sellable(s) = Executed(s, "BUY") - Executed(s, "SELL") - Unfilled(s, "SELL")
      /\ Sellable(s)' = Executed(s, "BUY")' - Executed(s, "SELL")' - Unfilled(s, "SELL")'
  BY DEF Sellable, Holdings, UnfilledSell
<1>6. CASE Settled(s, "SELL") \/ Fills(s, "SELL")
  BY <1>1, <1>2, <1>3, <1>5, <1>6 DEF Settled, Fills
<1>7. CASE BrokerAccept /\ Takes(calling, s, "SELL")
  <2>1. Executed(s, "BUY")' = Executed(s, "BUY")
    <3>1. ~Matches(calling, s, "BUY")
      BY <1>7 DEF Takes, Matches
    <3>2. Settled(s, "BUY")
      BY <1>7, <3>1, RouterStep, AcceptSettles DEF Next, Broker
    <3> QED
      BY <3>2 DEF Settled
  <2>2. calling \in Orders /\ status[calling] # "NONE"
    BY <1>7 DEF BrokerAccept, RouterInv, TypeOK, CallingInv
  <2>3. ord[calling].qty \in Nat
    BY <2>2, CreatedData, RouterAssumption
  <2> QED
    BY <1>1, <1>5, <1>7, <2>1, <2>3 DEF Takes
<1> QED
  BY <1>4, <1>6, <1>7

(* No symbol is ever sold short at the broker: the shares its live SELL    *)
(* orders may still sell are among those the account holds, also those of  *)
(* orders the router has cancelled, rejected or forgotten.                 *)
SalesBacked == \A s \in Symbols : 0 <= UnfilledSell(s) /\ UnfilledSell(s) <= Holdings(s)

LEMMA BackedMeans ==
  ASSUME RouterInv, NEW s
  PROVE  /\ UnfilledSell(s) \in Nat /\ Holdings(s) \in Int /\ Sellable(s) \in Int
         /\ 0 <= UnfilledSell(s) /\ UnfilledSell(s) <= Holdings(s) <=> 0 <= Sellable(s)
<1>1. /\ Executed(s, "BUY") \in Nat /\ Executed(s, "SELL") \in Nat /\ Unfilled(s, "SELL") \in Nat
  BY Totals
<1> QED
  BY <1>1 DEF Sellable, Holdings, UnfilledSell

BackedMeaning ==
  \A s : /\ UnfilledSell(s) \in Nat /\ Holdings(s) \in Int /\ Sellable(s) \in Int
         /\ 0 <= UnfilledSell(s) /\ UnfilledSell(s) <= Holdings(s) <=> 0 <= Sellable(s)

LEMMA BackedNow == RouterInv => BackedMeaning
BY BackedMeans DEF BackedMeaning

LEMMA BackedNext == RouterInv' => BackedMeaning'
BY BackedNow, PTL

LEMMA SalesBackedStep ==
  ASSUME RouterInv, SalesBacked, [Next]_vars
  PROVE  SalesBacked'
<1> SUFFICES ASSUME NEW s \in Symbols
             PROVE  (0 <= UnfilledSell(s) /\ UnfilledSell(s) <= Holdings(s))'
  BY DEF SalesBacked
<1>1. 0 <= Sellable(s) /\ Sellable(s) \in Int /\ UnfilledSell(s) \in Nat /\ Holdings(s) \in Int
  BY BackedMeans DEF SalesBacked
<1>2. /\ Sellable(s)' \in Int
      /\ (0 <= UnfilledSell(s) /\ UnfilledSell(s) <= Holdings(s))' <=> 0 <= Sellable(s)'
  BY RouterStep, BackedNext DEF BackedMeaning
<1>3. CASE BrokerAccept /\ Matches(calling, s, "SELL")
  <2>1. UnfilledSell(s) + ord[calling].qty <= Holdings(s)
    BY <1>3 DEF BrokerAccept, IsBuy, Matches
  <2>2. calling \in Orders /\ status[calling] # "NONE"
    BY <1>3 DEF BrokerAccept, RouterInv, TypeOK, CallingInv
  <2>3. ord[calling].qty \in Nat
    BY <2>2, CreatedData, RouterAssumption
  <2>4. Sellable(s)' >= Sellable(s) \/ Sellable(s)' = Sellable(s) - ord[calling].qty
    BY SellableStep
  <2>5. Sellable(s) = Holdings(s) - UnfilledSell(s)
    BY DEF Sellable
  <2> QED
    BY <1>1, <1>2, <2>1, <2>3, <2>4, <2>5
<1>4. CASE ~(BrokerAccept /\ Matches(calling, s, "SELL"))
  <2>1. Sellable(s)' >= Sellable(s)
    BY <1>4, SellableStep
  <2> QED
    BY <1>1, <1>2, <2>1
<1> QED
  BY <1>3, <1>4

LEMMA InitTotals ==
  ASSUME Init, NEW s, NEW sd
  PROVE  Executed(s, sd) = 0 /\ Unfilled(s, sd) = 0
<1>1. RouterInv /\ IsFiniteSet(Orders) /\ IsFiniteSet(Orders \X Attempts)
  BY RouterInit, FiniteOrders
<1>2. \A o \in Orders : ExecTerms(s, sd)[o] = 0 /\ RestTerms(s, sd)[o] = 0
  BY OrderTerm DEF Init
<1>3. \A a \in Orders \X Attempts : LostTerms(s, sd)[a] = 0 /\ LostRestTerms(s, sd)[a] = 0
  BY DEF Init, LostTerms, LostRestTerms, LiveLost, LostAt
<1>4. /\ ExecSum(s, sd) = 0 /\ RestSum(s, sd) = 0
      /\ LostSum(s, sd) = 0 /\ LostRestSum(s, sd) = 0
  BY <1>1, <1>2, <1>3, SumZero DEF ExecSum, RestSum, LostSum, LostRestSum
<1> QED
  BY <1>1, <1>4, Totals

(* Whatever was lost, repeated, cancelled or forgotten, the SELLs live at  *)
(* the broker never ask for more shares of a symbol than the account holds *)
(* (order_router.py submit_order with api_gateway.py's retries).           *)
THEOREM NeverShort == Spec => []SalesBacked
<1>1. Init => SalesBacked
  <2> SUFFICES ASSUME Init, NEW s \in Symbols
               PROVE  0 <= UnfilledSell(s) /\ UnfilledSell(s) <= Holdings(s)
    BY DEF SalesBacked
  <2>1. Executed(s, "BUY") = 0 /\ Executed(s, "SELL") = 0 /\ Unfilled(s, "SELL") = 0
    BY InitTotals
  <2> QED
    BY <2>1 DEF Holdings, UnfilledSell
<1>2. RouterInv /\ SalesBacked /\ [Next]_vars => SalesBacked'
  BY SalesBackedStep
<1> QED
  BY RouterInvariant, <1>1, <1>2, PTL DEF Spec

(* What the broker has heard of stays known to it.                         *)
LEMMA ReachedStays ==
  ASSUME RouterInv, [Next]_vars, NEW p \in Orders, Reached(p)
  PROVE  Reached(p)'
<1>1. /\ bstate \in [Orders -> BrokerStates] /\ exec \in [Orders -> 0..MaxQty]
      /\ lost \in [Orders \X Attempts -> [state : BrokerStates, exec : 0..MaxQty]]
      /\ calling \in Orders \cup {None}
  BY DEF RouterInv, TypeOK
<1>2. ASSUME bstate[p] # "none" => bstate'[p] # "none",
             \A k \in Attempts : lost[<<p, k>>].state # "none" => lost'[<<p, k>>].state # "none"
      PROVE  Reached(p)'
  BY <1>2, Zenon DEF Reached
<1>3. CASE UNCHANGED <<bstate, lost>>
  BY <1>2, <1>3
<1>4. CASE Retry
  <2>1. PICK k \in Attempts :
          lost' = [lost EXCEPT ![<<calling, k>>] = [state |-> bstate[calling], exec |-> exec[calling]]]
    BY <1>4, Zenon DEF Retry
  <2>2. calling \in Orders /\ bstate[calling] # "none" /\ bstate' = [bstate EXCEPT ![calling] = "none"]
    BY <1>1, <1>4, RouterAssumption DEF Retry
  <2>3. lost'[<<calling, k>>].state # "none"
    BY <1>1, <2>1, <2>2
  <2>4. CASE p = calling
    BY <2>3, <2>4, Zenon DEF Reached
  <2>5. CASE p # calling
    BY <1>1, <1>2, <2>1, <2>2, <2>5
  <2> QED
    BY <2>4, <2>5
<1>5. CASE BrokerAccept
  BY <1>1, <1>2, <1>5 DEF BrokerAccept
<1>6. CASE \E o \in Orders : BrokerFill(o) \/ BrokerCancel(o) \/ CancelOrder(o)
  BY <1>1, <1>2, <1>6 DEF BrokerFill, BrokerCancel, CancelOrder
<1>7. CASE \E a \in Orders \X Attempts : LostFill(a) \/ LostCancel(a)
  <2>1. PICK o \in Orders, j \in Attempts : LostFill(<<o, j>>) \/ LostCancel(<<o, j>>)
    BY <1>7
  <2>2. bstate' = bstate
    BY <2>1 DEF LostFill, LostCancel
  <2>3. PICK r : lost' = [lost EXCEPT ![<<o, j>>] = r] /\ r.state # "none"
    BY <2>1 DEF LostFill, LostCancel
  <2>4. \A k \in Attempts : lost[<<p, k>>].state # "none" => lost'[<<p, k>>].state # "none"
    BY <1>1, <2>3
  <2> QED
    BY <1>2, <2>2, <2>4
<1>8. CASE Submit
  BY <1>3, <1>8 DEF Submit, SubmitBuy, SubmitBuyNoCash, SubmitSell, brokerVars
<1>9. CASE Respond \/ (\E o \in Orders : Reconcile(o)) \/ SyncCash \/ Restart
  BY <1>3, <1>9 DEF Respond, AckReceived, SendFailed, PaperFill, Reconcile, ReconcileFill,
     ReconcileCanceled, ReconcileByHoldings, SyncCash, Restart, brokerVars
<1>10. CASE (\E x \in Symbols : CooldownExpires(x)) \/ (\E b \in BOOLEAN : SetCriticalExitFailure(b))
  BY <1>3, <1>10 DEF CooldownExpires, SetCriticalExitFailure, brokerVars
<1>11. CASE UNCHANGED vars
  BY <1>3, <1>11 DEF vars, brokerVars
<1> QED
  BY <1>4, <1>5, <1>6, <1>7, <1>8, <1>9, <1>10, <1>11 DEF Next, Broker

(* The request under way after a step was under way before it, or belongs  *)
(* to the order the step created: a SELL only if it found its shares.      *)
LEMMA CallingStep ==
  ASSUME RouterInv, [Next]_vars, calling' # None
  PROVE  \/ calling' = calling
         \/ \E o \in Orders, s \in Symbols, n \in 1..MaxQty, i \in Intents \cup {None} :
              SubmitSell(o, s, n, i)
         \/ ord'[calling'].side = "BUY"
<1>1. CASE Submit
  <2>1. PICK o \in Orders, s \in Symbols, n \in 1..MaxQty, i \in Intents \cup {None} :
          \/ \E h \in Horizons : SubmitBuy(o, s, n, h, i) \/ SubmitBuyNoCash(o, s, n, h, i)
          \/ SubmitSell(o, s, n, i)
    BY <1>1 DEF Submit
  <2>2. CASE \E h \in Horizons : SubmitBuy(o, s, n, h, i)
    BY <2>2 DEF SubmitBuy, Register, RouterInv, TypeOK
  <2> QED
    BY <2>1, <2>2 DEF SubmitBuyNoCash
<1>2. CASE Respond \/ SyncCash \/ Restart
  BY <1>2 DEF Respond, AckReceived, SendFailed, PaperFill, SyncCash, Restart, routerVars
<1>3. CASE \E o \in Orders : Reconcile(o) \/ CancelOrder(o)
  BY <1>3 DEF Reconcile, ReconcileFill, ReconcileCanceled, ReconcileByHoldings, CancelOrder
<1>4. CASE (\E s \in Symbols : CooldownExpires(s)) \/ (\E b \in BOOLEAN : SetCriticalExitFailure(b))
  BY <1>4 DEF CooldownExpires, SetCriticalExitFailure
<1>5. CASE Retry \/ Broker \/ UNCHANGED vars
  BY <1>5, BrokerFrame DEF vars, routerVars
<1> QED
  BY <1>1, <1>2, <1>3, <1>4, <1>5 DEF Next

LEMMA CoveredStep ==
  ASSUME RouterInv, SellIsCovered, [Next]_vars
  PROVE  SellIsCovered'
<1> SUFFICES ASSUME NEW c, c = calling', c # None, ~dry_run', ord'[c].side = "SELL",
                    ~Reached(c)', NEW t, t = ord'[c].sym
             PROVE  ord'[c].qty <= Sellable(t)'
  BY Zenon DEF SellIsCovered, IsSell, Sellable, Holdings, UnfilledSell, Reached
<1>0. /\ c \in Orders /\ ord \in [Orders -> OrderData \cup {NoOrderYet}]
      /\ dry_run' = dry_run
  <2>1. dry_run' = dry_run
    BY DEF Next, Submit, SubmitBuy, SubmitBuyNoCash, SubmitSell, Retry, Respond, AckReceived,
           SendFailed, PaperFill, Reconcile, ReconcileFill, ReconcileCanceled,
           ReconcileByHoldings, CancelOrder, SyncCash, CooldownExpires,
           SetCriticalExitFailure, Broker, BrokerAccept, BrokerFill, BrokerCancel,
           LostFill, LostCancel, Restart, vars
  <2> QED
    BY <2>1, RouterStep DEF RouterInv, TypeOK
<1>1. \A s : Sellable(s) \in Int /\ Sellable(s)' \in Int
  BY RouterStep, BackedMeans, BackedNext DEF BackedMeaning
<1>2. CASE calling = c
  <2>1. status[c] # "NONE"
    BY <1>2 DEF RouterInv, CallingInv
  <2>2. ord'[c] = ord[c] /\ ord[c].qty \in Nat
    BY <1>0, <2>1, OrderDataFixed, CreatedData, RouterAssumption
  <2>3. ~Reached(c)
    BY <1>0, ReachedStays
  <2>4. ord[c].qty <= Sellable(t)
    BY <1>0, <1>2, <2>2, <2>3 DEF SellIsCovered, IsSell, Sellable
  <2>5. ~BrokerAccept
    <3>1. ASSUME BrokerAccept PROVE Reached(c)'
      BY <1>0, <1>2, <3>1 DEF BrokerAccept, Reached, RouterInv, TypeOK
    <3> QED
      BY <3>1
  <2>6. Sellable(t)' >= Sellable(t)
    BY <2>5, SellableStep
  <2> QED
    BY <1>1, <2>2, <2>4, <2>6
<1>3. ASSUME NEW o \in Orders, NEW s \in Symbols, NEW n \in 1..MaxQty,
             NEW i \in Intents \cup {None}, SubmitSell(o, s, n, i)
      PROVE  ord'[c].qty <= Sellable(t)'
  <2>1. c = o /\ t = s /\ ord'[c].qty = n /\ n <= Sellable(s)
    BY <1>0, <1>3 DEF SubmitSell, NewOrder, Register, PreOrderChecks
  <2>2. ~BrokerAccept
    BY <1>3, RouterAssumption DEF BrokerAccept, SubmitSell, NewOrder
  <2>3. Sellable(t)' >= Sellable(t)
    BY <2>2, SellableStep
  <2>4. n \in Nat
    BY RouterAssumption
  <2> QED
    BY <1>1, <2>1, <2>3, <2>4
<1> QED
  BY <1>2, <1>3, CallingStep

(* Whatever happened since the sellable quantity was asked for, the first  *)
(* attempt of a SELL is covered by shares that no other SELL at the broker *)
(* is selling: also by one the router cancelled, rejected or forgot.       *)
THEOREM SalesCovered == Spec => []SellIsCovered
<1>1. Init => SellIsCovered
  BY DEF Init, SellIsCovered
<1>2. RouterInv /\ SellIsCovered /\ [Next]_vars => SellIsCovered'
  BY CoveredStep
<1> QED
  BY RouterInvariant, <1>1, <1>2, PTL DEF Spec
=============================================================================
