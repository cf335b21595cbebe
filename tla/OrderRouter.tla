---------------------------- MODULE OrderRouter ----------------------------
(***************************************************************************)
(* The life of an order of one account: execution/order_router.py with the *)
(* cash ledger it holds (PortfolioCash) and the broker it talks to.        *)
(*                                                                         *)
(* One thread runs the router (LiveQuantTrader.run_cycle), so a call that  *)
(* has left the locked part of submit_order and waits for the broker keeps *)
(* every other router operation out: `calling` is that order.  The broker  *)
(* goes on by itself all the time, and its answer, its fills and its       *)
(* cancellations come in any order relative to the router's steps.         *)
(***************************************************************************)
EXTENDS PortfolioCash, FiniteSets, Functions

CONSTANTS Symbols,
          Intents,          \* order_intent_id values signals may carry
          None,
          MaxQty,           \* shares a signal may ask for: 1..MaxQty
          InitCash,
          DryRunModes,      \* the values client.dry_run may have (TRUE: paper account)
          QueryMayFail,     \* dailyOrderExecution may come back empty
          MaxAttempts,      \* attempts of one order request (_safe_call's retries)
          MaxRestarts       \* how often the process may restart

ASSUME RouterAssumption == /\ None \notin Orders \cup Intents
                           /\ IsFiniteSet(Orders)
                           /\ MaxQty \in Nat \ {0}
                           /\ InitCash \in Nat
                           /\ DryRunModes \in SUBSET BOOLEAN
                           /\ QueryMayFail \in BOOLEAN
                           /\ MaxAttempts \in Nat \ {0}
                           /\ MaxRestarts \in Nat

VARIABLES
  ord,                  \* what the order asks for, fixed once it is created
  status,               \* Order.status; "NONE" before creation, "FORGOTTEN" after a restart
  filled,               \* Order.filled_qty
  pending_orders,
  pending_entries,      \* symbol -> BUY order occupying the entry slot
  executed_intent_ids,  \* intent -> order created for it
  cooling,              \* symbols ordered less than 10 s ago
  critical_exit_failure_active,
  calling,              \* order whose broker request is outstanding
  account_cash,         \* AccountContext.cash
  bstate,               \* broker: "none", "live", "done", "cancelled"
  exec,                 \* broker: shares executed
  broker_cash,          \* broker: settled cash
  lost,                 \* broker: what repeated attempts left behind
  restarts,
  dry_run               \* client.dry_run, fixed for the account

routerVars == <<ord, status, filled, pending_orders, pending_entries,
                executed_intent_ids, cooling, critical_exit_failure_active,
                calling>>
brokerVars == <<bstate, exec, broker_cash, lost>>
vars == <<cashVars, routerVars, account_cash, brokerVars, restarts, dry_run>>

Sides    == {"BUY", "SELL"}
Horizons == {"SWING", "INTRADAY"}
OpenStatuses     == {"ORDER_SENT", "ORDER_ACK", "PARTIAL_FILL"}
TerminalStatuses == {"FILLED", "CANCELED", "CANCELLED", "REJECTED"}
Statuses == OpenStatuses \cup TerminalStatuses \cup {"NONE", "FORGOTTEN"}
OrderData == [sym : Symbols, side : Sides, qty : 1..MaxQty,
              intent : Intents \cup {None}]
BrokerStates == {"none", "live", "done", "cancelled"}
Attempts   == 1..(MaxAttempts - 1)      \* those that may be repeated
NoOrderYet == [sym |-> None, side |-> "BUY", qty |-> 0, intent |-> None]

IsBuy(o)   == ord[o].side = "BUY"
IsSell(o)  == ord[o].side = "SELL"
Created(o) == status[o] # "NONE"

-----------------------------------------------------------------------------
(* The broker, as the router's calls see it.  One request may leave more   *)
(* than one order there: bstate and exec belong to the attempt whose       *)
(* answer counts, lost to the attempts that were repeated.                 *)

Remaining(o)     == ord[o].qty - exec[o]
LostRemaining(a) == ord[a[1]].qty - lost[a].exec
Matches(o, s, sd) == ord[o].sym = s /\ ord[o].side = sd
LiveAt(s, sd)    == {o \in Orders : bstate[o] = "live" /\ Matches(o, s, sd)}
LostAt(s, sd)    == {a \in Orders \X Attempts : lost[a].state # "none" /\ Matches(a[1], s, sd)}
LiveLost(s, sd)  == {a \in LostAt(s, sd) : lost[a].state = "live"}
Reached(o)       == bstate[o] # "none" \/ \E k \in Attempts : lost[<<o, k>>].state # "none"
Executed(s, sd) ==
  SumFunctionOnSet(exec, {o \in Orders : Matches(o, s, sd)})
    + SumFunctionOnSet([a \in DOMAIN lost |-> lost[a].exec], LostAt(s, sd))
Unfilled(s, sd) ==
  SumFunctionOnSet([o \in Orders |-> Remaining(o)], LiveAt(s, sd))
    + SumFunctionOnSet([a \in DOMAIN lost |-> LostRemaining(a)], LiveLost(s, sd))
Holdings(s)     == Executed(s, "BUY") - Executed(s, "SELL")
UnfilledSell(s) == Unfilled(s, "SELL")
LiveBuyCost     == FillCost(SumFunction([s \in Symbols |-> Unfilled(s, "BUY")]))
(* Mutant of Sellable: orders that wait to be sold are not taken off.      *)
SellableGross(s) == Holdings(s)

Sellable(s)     == Holdings(s) - UnfilledSell(s)

(* A request reaches the broker, which takes a BUY only when its cash      *)
(* covers it next to the BUY orders it already holds, and a SELL only of   *)
(* shares that are not already for sale.                                   *)
BrokerAccept ==
  /\ calling # None /\ bstate[calling] = "none" /\ ~dry_run
  /\ IF IsBuy(calling)
       THEN LiveBuyCost + FillCost(ord[calling].qty) <= broker_cash
       ELSE UnfilledSell(ord[calling].sym) + ord[calling].qty <= Holdings(ord[calling].sym)
  /\ bstate' = [bstate EXCEPT ![calling] = "live"]
  /\ UNCHANGED <<cashVars, routerVars, account_cash, exec, broker_cash, lost, restarts, dry_run>>

(* _execute_with_retry: the broker took the order, but the attempt ended   *)
(* in a timeout, a dropped connection or a server error.  The gateway      *)
(* sends the same request again; the order the first attempt made stays.   *)
Retry ==
  /\ calling # None /\ bstate[calling] # "none"
  /\ \E k \in Attempts :
       /\ lost[<<calling, k>>].state = "none"
       /\ \A j \in 1..(k - 1) : lost[<<calling, j>>].state # "none"
       /\ lost' = [lost EXCEPT ![<<calling, k>>] =
                     [state |-> bstate[calling], exec |-> exec[calling]]]
  /\ bstate' = [bstate EXCEPT ![calling] = "none"]
  /\ exec' = [exec EXCEPT ![calling] = 0]
  /\ UNCHANGED <<cashVars, routerVars, account_cash, broker_cash, restarts, dry_run>>

CashAfterFill(o) == IF IsBuy(o) THEN broker_cash - UnitFill ELSE broker_cash + UnitFill

BrokerFill(o) ==
  /\ bstate[o] = "live"
  /\ exec' = [exec EXCEPT ![o] = @ + 1]
  /\ bstate' = [bstate EXCEPT ![o] = IF exec[o] + 1 = ord[o].qty THEN "done" ELSE @]
  /\ broker_cash' = CashAfterFill(o)
  /\ UNCHANGED <<cashVars, routerVars, account_cash, lost, restarts, dry_run>>

(* The rest of an order is withdrawn at the exchange (session end, price   *)
(* limit, the user's own application).                                     *)
BrokerCancel(o) ==
  /\ bstate[o] = "live"
  /\ bstate' = [bstate EXCEPT ![o] = "cancelled"]
  /\ UNCHANGED <<cashVars, routerVars, account_cash, exec, broker_cash, lost, restarts, dry_run>>

LostFill(a) ==
  /\ lost[a].state = "live"
  /\ lost' = [lost EXCEPT ![a] =
       [state |-> IF lost[a].exec + 1 = ord[a[1]].qty THEN "done" ELSE "live",
        exec |-> lost[a].exec + 1]]
  /\ broker_cash' = CashAfterFill(a[1])
  /\ UNCHANGED <<cashVars, routerVars, account_cash, bstate, exec, restarts, dry_run>>

LostCancel(a) ==
  /\ lost[a].state = "live"
  /\ lost' = [lost EXCEPT ![a] = [state |-> "cancelled", exec |-> lost[a].exec]]
  /\ UNCHANGED <<cashVars, routerVars, account_cash, bstate, exec, broker_cash, restarts, dry_run>>

-----------------------------------------------------------------------------
(* submit_order, the part under execution_lock.                            *)

PendingSame(s, sd) == {o \in pending_orders : ord[o].sym = s /\ ord[o].side = sd}

(* run_pre_order_checks, as far as it reads what this module keeps.  The   *)
(* market-data gates (session, TTL, drift, spread, profit, stop price) and *)
(* the circuit breaker may refuse any BUY; a refusal changes nothing here. *)
PreOrderChecks(s, sd, n) ==
  /\ PendingSame(s, sd) = {}
  /\ IF sd = "BUY"
       THEN /\ ~critical_exit_failure_active
            /\ ReserveCost(n) <= UsableCash
            /\ s \notin cooling
       ELSE dry_run \/ n <= Sellable(s)

(* generate_client_order_id: an id no order has had.                       *)
FreshId == CHOOSE o \in Orders : status[o] = "NONE"

(* The order of a signal that passes the idempotency guards and the checks *)
(* is registered everywhere before its cash is asked for.                  *)
NewOrder(o, s, sd, n, i) ==
  /\ calling = None
  /\ status[o] = "NONE" /\ o = FreshId
  /\ i # None => executed_intent_ids[i] = None
  /\ sd = "BUY" => pending_entries[s] = None
  /\ PreOrderChecks(s, sd, n)
  /\ cooling' = cooling \cup {s}
  /\ filled' = filled

Register(o, s, sd, n, i) ==
  /\ ord' = [ord EXCEPT ![o] = [sym |-> s, side |-> sd, qty |-> n, intent |-> i]]
  /\ status' = [status EXCEPT ![o] = "ORDER_SENT"]
  /\ pending_orders' = pending_orders \cup {o}
  /\ pending_entries' = IF sd = "BUY" THEN [pending_entries EXCEPT ![s] = o]
                                      ELSE pending_entries
  /\ executed_intent_ids' = IF i = None THEN executed_intent_ids
                            ELSE [executed_intent_ids EXCEPT ![i] = o]
  /\ calling' = o

(* Mutant of SubmitBuy: order.qty is not brought down to the approved      *)
(* quantity.                                                               *)
SubmitBuyUncut(o, s, n, h, i) ==
  /\ NewOrder(o, s, "BUY", n, i)
  /\ Approved(h, n) > 0
  /\ Reserve(o, Approved(h, n))
  /\ Register(o, s, "BUY", n, i)
  /\ UNCHANGED <<critical_exit_failure_active, account_cash, brokerVars, restarts, dry_run>>

SubmitBuy(o, s, n, h, i) ==
  /\ NewOrder(o, s, "BUY", n, i)
  /\ Approved(h, n) > 0
  /\ Reserve(o, Approved(h, n))
  /\ Register(o, s, "BUY", Approved(h, n), i)
  /\ UNCHANGED <<critical_exit_failure_active, account_cash, brokerVars, restarts, dry_run>>

(* The ledger refuses: every registration but order_registry's is undone.  *)
SubmitBuyNoCash(o, s, n, h, i) ==
  /\ NewOrder(o, s, "BUY", n, i)
  /\ Approved(h, n) = 0
  /\ ord' = [ord EXCEPT ![o] = [sym |-> s, side |-> "BUY", qty |-> n, intent |-> i]]
  /\ status' = [status EXCEPT ![o] = "REJECTED"]
  /\ UNCHANGED <<cashVars, pending_orders, pending_entries, executed_intent_ids,
                 critical_exit_failure_active, calling, account_cash, brokerVars, restarts, dry_run>>

SubmitSell(o, s, n, i) ==
  /\ NewOrder(o, s, "SELL", n, i)
  /\ Register(o, s, "SELL", n, i)
  /\ UNCHANGED <<cashVars, critical_exit_failure_active, account_cash, brokerVars, restarts, dry_run>>

-----------------------------------------------------------------------------
(* Mutant of OnFill: complete is judged by the newly executed shares, not  *)
(* by the cumulative quantity.                                             *)
OnFillByIncrement(o, n) ==
  LET full == n - filled[o] = ord[o].qty
  IN  /\ filled' = [filled EXCEPT ![o] = n]
      /\ status' = [status EXCEPT ![o] = IF full THEN "FILLED" ELSE "PARTIAL_FILL"]
      /\ pending_orders' = IF full THEN pending_orders \ {o} ELSE pending_orders
      /\ pending_entries' = IF full THEN [pending_entries EXCEPT ![ord[o].sym] = None]
                                    ELSE pending_entries
      /\ IF IsBuy(o) THEN SettleFill(o, n) ELSE UNCHANGED cashVars

(* on_fill with the broker's cumulative quantity n.                        *)
OnFill(o, n) ==
  LET full == n = ord[o].qty
  IN  /\ filled' = [filled EXCEPT ![o] = n]
      /\ status' = [status EXCEPT ![o] = IF full THEN "FILLED" ELSE "PARTIAL_FILL"]
      /\ pending_orders' = IF full THEN pending_orders \ {o} ELSE pending_orders
      /\ pending_entries' = IF full THEN [pending_entries EXCEPT ![ord[o].sym] = None]
                                    ELSE pending_entries
      /\ IF IsBuy(o) THEN SettleFill(o, n) ELSE UNCHANGED cashVars

(* Mutant of AckReceived: the acknowledged order counts as filled.         *)
AckIsFill ==
  /\ calling # None /\ bstate[calling] # "none"
  /\ OnFill(calling, ord[calling].qty)
  /\ calling' = None
  /\ UNCHANGED <<ord, executed_intent_ids, cooling, critical_exit_failure_active,
                 account_cash, brokerVars, restarts, dry_run>>

(* The broker answers with an order number: ORDER_ACK, then one look at    *)
(* the day's executions, which may find some of the order executed.        *)
AckReceived ==
  /\ calling # None /\ bstate[calling] # "none"
  /\ \/ exec[calling] > 0 /\ OnFill(calling, exec[calling])
     \/ /\ exec[calling] = 0 \/ QueryMayFail
        /\ status' = [status EXCEPT ![calling] = "ORDER_ACK"]
        /\ UNCHANGED <<cashVars, filled, pending_orders, pending_entries>>
  /\ calling' = None
  /\ UNCHANGED <<ord, executed_intent_ids, cooling, critical_exit_failure_active,
                 account_cash, brokerVars, restarts, dry_run>>

(* Mutants of SendFailed: the rejected order stays pending; it gives up    *)
(* its entry slot; it gives up its intent.                                 *)
SendFailedKeepsPending ==
  /\ calling # None /\ ~dry_run
  /\ status' = [status EXCEPT ![calling] = "REJECTED"]
  /\ IF IsBuy(calling) THEN ReleaseReservation(calling) ELSE UNCHANGED cashVars
  /\ calling' = None
  /\ UNCHANGED <<ord, filled, pending_orders, pending_entries, executed_intent_ids, cooling,
                 critical_exit_failure_active, account_cash, brokerVars, restarts, dry_run>>

SendFailedFreesSlot ==
  /\ calling # None /\ ~dry_run
  /\ status' = [status EXCEPT ![calling] = "REJECTED"]
  /\ pending_orders' = pending_orders \ {calling}
  /\ pending_entries' = [pending_entries EXCEPT ![ord[calling].sym] = None]
  /\ IF IsBuy(calling) THEN ReleaseReservation(calling) ELSE UNCHANGED cashVars
  /\ calling' = None
  /\ UNCHANGED <<ord, filled, executed_intent_ids, cooling,
                 critical_exit_failure_active, account_cash, brokerVars, restarts, dry_run>>

SendFailedForgetsIntent ==
  /\ calling # None /\ ~dry_run
  /\ status' = [status EXCEPT ![calling] = "REJECTED"]
  /\ pending_orders' = pending_orders \ {calling}
  /\ executed_intent_ids' = [i \in Intents |->
       IF executed_intent_ids[i] = calling THEN None ELSE executed_intent_ids[i]]
  /\ IF IsBuy(calling) THEN ReleaseReservation(calling) ELSE UNCHANGED cashVars
  /\ calling' = None
  /\ UNCHANGED <<ord, filled, pending_entries, cooling,
                 critical_exit_failure_active, account_cash, brokerVars, restarts, dry_run>>

(* The call raises: the broker refused, or the answer to the last attempt  *)
(* was lost, perhaps after the broker had taken the order.  The order is   *)
(* rejected; its entry slot and its intent stay occupied.                  *)
SendFailed ==
  /\ calling # None /\ ~dry_run
  /\ status' = [status EXCEPT ![calling] = "REJECTED"]
  /\ pending_orders' = pending_orders \ {calling}
  /\ IF IsBuy(calling) THEN ReleaseReservation(calling) ELSE UNCHANGED cashVars
  /\ calling' = None
  /\ UNCHANGED <<ord, filled, pending_entries, executed_intent_ids, cooling,
                 critical_exit_failure_active, account_cash, brokerVars, restarts, dry_run>>

(* Paper account: filled on the spot, without on_fill.                     *)
PaperFill ==
  /\ calling # None /\ dry_run
  /\ status' = [status EXCEPT ![calling] = "FILLED"]
  /\ filled' = [filled EXCEPT ![calling] = ord[calling].qty]
  /\ pending_orders' = pending_orders \ {calling}
  /\ IF IsBuy(calling) THEN SettleFill(calling, ord[calling].qty) ELSE UNCHANGED cashVars
  /\ calling' = None
  /\ UNCHANGED <<ord, pending_entries, executed_intent_ids, cooling,
                 critical_exit_failure_active, account_cash, brokerVars, restarts, dry_run>>

-----------------------------------------------------------------------------
(* reconcile_orders, its loop body for one pending order.                  *)

CanReconcile(o) == calling = None /\ o \in pending_orders

ReconcileFill(o) ==
  /\ CanReconcile(o)
  /\ exec[o] > filled[o]
  /\ OnFill(o, exec[o])
  /\ UNCHANGED <<ord, executed_intent_ids, cooling, critical_exit_failure_active,
                 calling, account_cash, brokerVars, restarts, dry_run>>

(* Mutants of ReconcileCanceled: any withdrawn rest cancels the order; an  *)
(* order withdrawn in full is not recognised.                              *)
ReconcileCanceledAnyRest(o) ==
  /\ CanReconcile(o)
  /\ bstate[o] = "cancelled"
  /\ exec[o] <= filled[o]
  /\ status' = [status EXCEPT ![o] = "CANCELED"]
  /\ pending_orders' = pending_orders \ {o}
  /\ pending_entries' = [pending_entries EXCEPT ![ord[o].sym] = None]
  /\ UNCHANGED <<cashVars, ord, filled, executed_intent_ids, cooling,
                 critical_exit_failure_active, calling, account_cash, brokerVars, restarts, dry_run>>

ReconcileCanceledNever(o) ==
  /\ CanReconcile(o)
  /\ bstate[o] = "cancelled"
  /\ exec[o] <= filled[o]
  /\ Remaining(o) > ord[o].qty
  /\ status' = [status EXCEPT ![o] = "CANCELED"]
  /\ pending_orders' = pending_orders \ {o}
  /\ pending_entries' = [pending_entries EXCEPT ![ord[o].sym] = None]
  /\ UNCHANGED <<cashVars, ord, filled, executed_intent_ids, cooling,
                 critical_exit_failure_active, calling, account_cash, brokerVars, restarts, dry_run>>

ReconcileCanceled(o) ==
  /\ CanReconcile(o)
  /\ bstate[o] = "cancelled"
  /\ exec[o] <= filled[o]
  /\ \/ Remaining(o) >= ord[o].qty           \* can_qty >= order.qty
     \/ exec[o] = 0 /\ Remaining(o) > 0      \* cns_qty = 0, can_qty > 0
  /\ status' = [status EXCEPT ![o] = "CANCELED"]
  /\ pending_orders' = pending_orders \ {o}
  /\ pending_entries' = [pending_entries EXCEPT ![ord[o].sym] = None]
  /\ UNCHANGED <<cashVars, ord, filled, executed_intent_ids, cooling,
                 critical_exit_failure_active, calling, account_cash, brokerVars, restarts, dry_run>>

(* The day's executions could not be read, so the order is not among them: *)
(* a BUY whose symbol is held counts as filled in full.                    *)
ReconcileByHoldings(o) ==
  /\ CanReconcile(o) /\ QueryMayFail
  /\ IsBuy(o) /\ Holdings(ord[o].sym) > 0
  /\ OnFill(o, ord[o].qty)
  /\ UNCHANGED <<ord, executed_intent_ids, cooling, critical_exit_failure_active,
                 calling, account_cash, brokerVars, restarts, dry_run>>

(* cancel_order; only the exit logic calls it, so only for a SELL.  The    *)
(* broker withdraws the rest, or fails to, and the order is cancelled      *)
(* here either way.                                                        *)
CancelOrder(o) ==
  /\ calling = None /\ o \in pending_orders /\ IsSell(o)
  /\ status' = [status EXCEPT ![o] = "CANCELLED"]
  /\ pending_orders' = pending_orders \ {o}
  /\ pending_entries' = [pending_entries EXCEPT ![ord[o].sym] = None]
  /\ bstate' \in {bstate, [bstate EXCEPT ![o] = IF @ = "live" THEN "cancelled" ELSE @]}
  /\ UNCHANGED <<cashVars, ord, filled, executed_intent_ids, cooling,
                 critical_exit_failure_active, calling, account_cash, exec,
                 broker_cash, lost, restarts, dry_run>>

-----------------------------------------------------------------------------
(* The rest of the trading loop that touches this state.                   *)

(* Step 4 of run_cycle: the account keeps its last cash figure when the    *)
(* broker now reports none, and the ledger is told that figure.            *)
SyncCash ==
  LET cash == IF broker_cash > 0 \/ account_cash <= 0 THEN broker_cash ELSE account_cash
  IN  /\ calling = None
      /\ account_cash' = cash
      /\ SyncBrokerCash(cash)
      /\ UNCHANGED <<routerVars, brokerVars, restarts, dry_run>>

CooldownExpires(s) ==
  /\ calling = None /\ s \in cooling
  /\ cooling' = cooling \ {s}
  /\ UNCHANGED <<cashVars, ord, status, filled, pending_orders, pending_entries,
                 executed_intent_ids, critical_exit_failure_active, calling,
                 account_cash, brokerVars, restarts, dry_run>>

SetCriticalExitFailure(b) ==
  /\ calling = None /\ critical_exit_failure_active # b
  /\ critical_exit_failure_active' = b
  /\ UNCHANGED <<cashVars, ord, status, filled, pending_orders, pending_entries,
                 executed_intent_ids, cooling, calling, account_cash, brokerVars, restarts, dry_run>>

(* The process dies and starts again: the router and the ledger live in    *)
(* memory only, the broker's orders live on.                               *)
Restart ==
  /\ restarts < MaxRestarts
  /\ restarts' = restarts + 1
  /\ status' = [o \in Orders |-> IF Created(o) THEN "FORGOTTEN" ELSE "NONE"]
  /\ pending_orders' = {}
  /\ pending_entries' = [s \in Symbols |-> None]
  /\ executed_intent_ids' = [i \in Intents |-> None]
  /\ cooling' = {}
  /\ critical_exit_failure_active' = FALSE
  /\ calling' = None
  /\ account_cash' = broker_cash
  /\ cash_available' = Monus(broker_cash, 0)
  /\ reserved_cash' = 0
  /\ reservations' = [o \in Orders |-> 0]
  /\ UNCHANGED <<ord, filled, brokerVars, dry_run>>

-----------------------------------------------------------------------------
Init ==
  /\ CashInit(InitCash)
  /\ ord = [o \in Orders |-> NoOrderYet]
  /\ status = [o \in Orders |-> "NONE"]
  /\ filled = [o \in Orders |-> 0]
  /\ pending_orders = {}
  /\ pending_entries = [s \in Symbols |-> None]
  /\ executed_intent_ids = [i \in Intents |-> None]
  /\ cooling = {}
  /\ critical_exit_failure_active = FALSE
  /\ calling = None
  /\ account_cash = InitCash
  /\ bstate = [o \in Orders |-> "none"]
  /\ exec = [o \in Orders |-> 0]
  /\ broker_cash = InitCash
  /\ lost = [a \in Orders \X Attempts |-> [state |-> "none", exec |-> 0]]
  /\ restarts = 0
  /\ dry_run \in DryRunModes

Submit ==
  \E o \in Orders, s \in Symbols, n \in 1..MaxQty, i \in Intents \cup {None} :
    \/ \E h \in Horizons : SubmitBuy(o, s, n, h, i) \/ SubmitBuyNoCash(o, s, n, h, i)
    \/ SubmitSell(o, s, n, i)

Respond == AckReceived \/ SendFailed \/ PaperFill

Reconcile(o) == ReconcileFill(o) \/ ReconcileCanceled(o) \/ ReconcileByHoldings(o)

Broker ==
  \/ BrokerAccept
  \/ \E o \in Orders : BrokerFill(o) \/ BrokerCancel(o)
  \/ \E a \in Orders \X Attempts : LostFill(a) \/ LostCancel(a)

Next ==
  \/ Submit
  \/ Retry
  \/ Respond
  \/ \E o \in Orders : Reconcile(o) \/ CancelOrder(o)
  \/ SyncCash
  \/ \E s \in Symbols : CooldownExpires(s)
  \/ \E b \in BOOLEAN : SetCriticalExitFailure(b)
  \/ Broker
  \/ Restart

Spec == Init /\ [][Next]_vars

(* The trading loop comes round every three seconds and its calls return;  *)
(* nothing is assumed of the broker or of new signals.                     *)
FairSpec ==
  /\ Spec
  /\ WF_vars(Respond)
  /\ \A o \in Orders : WF_vars(Reconcile(o))

-----------------------------------------------------------------------------
(* Properties.                                                             *)

(* Every variable stays in its domain (Order, PortfolioCashManager and     *)
(* AccountContext fields; the broker's side).                              *)
TypeOK ==
  /\ CashTypeOK
  /\ ord \in [Orders -> OrderData \cup {NoOrderYet}]
  /\ status \in [Orders -> Statuses]
  /\ filled \in [Orders -> 0..MaxQty]
  /\ pending_orders \in SUBSET Orders
  /\ pending_entries \in [Symbols -> Orders \cup {None}]
  /\ executed_intent_ids \in [Intents -> Orders \cup {None}]
  /\ cooling \in SUBSET Symbols
  /\ critical_exit_failure_active \in BOOLEAN
  /\ calling \in Orders \cup {None}
  /\ account_cash \in Int
  /\ bstate \in [Orders -> BrokerStates]
  /\ exec \in [Orders -> 0..MaxQty]
  /\ broker_cash \in Int
  /\ lost \in [Orders \X Attempts -> [state : BrokerStates, exec : 0..MaxQty]]
  /\ restarts \in 0..MaxRestarts
  /\ dry_run \in DryRunModes

(* The ledger's running total is the sum of the promises it holds: the     *)
(* amount added by revalidate_and_reserve_cash and the amounts subtracted  *)
(* by fills and rejections never drift apart, whatever their order.        *)
ReservedIsSum ==
  reserved_cash = SumFunction(reservations)

(* A BUY that waits for the broker and has not executed a share keeps its  *)
(* whole cost reserved, also after the ledger cut its quantity down.       *)
UnfilledBuyIsReserved ==
  \A o \in pending_orders :
    IsBuy(o) /\ filled[o] = 0 => reservations[o] = ReserveCost(ord[o].qty)

(* pending_orders holds exactly the orders whose status is still open:     *)
(* submit_order, on_fill, cancel_order and reconcile_orders update both.   *)
PendingIffOpen ==
  pending_orders = {o \in Orders : status[o] \in OpenStatuses}

(* An order that waits for more is neither empty nor already complete: its *)
(* filled quantity agrees with its status.                                 *)
StatusMatchesFilled ==
  \A o \in Orders :
    /\ status[o] \in {"ORDER_SENT", "ORDER_ACK"} => filled[o] = 0
    /\ status[o] = "PARTIAL_FILL" => filled[o] \in 1..(ord[o].qty - 1)
    /\ status[o] = "FILLED" => filled[o] = ord[o].qty

(* A SELL whose first attempt is under way is covered by shares that no    *)
(* other SELL at the broker is selling, whatever happened since the        *)
(* sellable quantity was asked for: also when an earlier SELL was          *)
(* cancelled or rejected here but is still live there, and after a restart *)
(* has forgotten the live orders.  Only a repeated attempt may sell twice. *)
SellIsCovered ==
  calling # None /\ ~dry_run =>
    LET s == ord[calling].sym
    IN  IsSell(calling) /\ ~Reached(calling)
          => ord[calling].qty <= Holdings(s) - UnfilledSell(s)

(* At most one BUY of a symbol works at the broker at a time, even when    *)
(* the answer to a request was lost and the order is rejected here but     *)
(* live there: such an order keeps its entry slot.  Duplicates a repeated  *)
(* attempt leaves behind are IntentReachesBrokerOnce's matter.             *)
OneLiveBuyPerSymbol ==
  \A s \in Symbols : Cardinality(LiveAt(s, "BUY")) <= 1

(* It may lose that slot to a SELL only: a second live BUY of a symbol     *)
(* means that a SELL of the symbol ended meanwhile, whose fill or          *)
(* cancellation frees the entry slot of its symbol whoever holds it.       *)
SecondBuyOnlyAfterSell ==
  \A s \in Symbols :
    Cardinality(LiveAt(s, "BUY")) > 1 =>
      \E o \in Orders :
        IsSell(o) /\ ord[o].sym = s /\ status[o] \in {"FILLED", "CANCELED", "CANCELLED"}

Carriers(i) == {o \in Orders : ord[o].intent = i /\ Reached(o) /\ status[o] # "FORGOTTEN"}

(* One order intent makes one order: a signal submitted again after a      *)
(* rejection or a lost answer is answered from executed_intent_ids, and no *)
(* second order of the intent reaches the broker.  A restart forgets the   *)
(* intents with the orders.                                                *)
IntentMakesOneOrder ==
  \A i \in Intents : Cardinality(Carriers(i)) <= 1

BrokerOrders(i) == {o \in Orders : ord[o].intent = i /\ bstate[o] # "none"} \cup
                   {a \in Orders \X Attempts : ord[a[1]].intent = i /\ lost[a].state # "none"}

(* One order intent reaches the broker at most once (submit_order's        *)
(* idempotency guard).                                                     *)
IntentReachesBrokerOnce ==
  \A i \in Intents : Cardinality(BrokerOrders(i)) <= 1

(* A fill is booked only when the broker executed it.                      *)
NoPhantomFill ==
  \A o \in Orders : dry_run \/ filled[o] <= exec[o]

(* The broker order of an order that reconciliation calls CANCELED is dead *)
(* and never executed a share, so its entry slot may be given to another.  *)
CanceledMeansDead ==
  \A o \in Orders : status[o] = "CANCELED" => bstate[o] = "cancelled" /\ exec[o] = 0

(* Cash is promised only to orders that wait for the broker.               *)
NoStrayReservation ==
  \A o \in Orders : reservations[o] > 0 => o \in pending_orders

(* An order that reached a terminal status keeps it, whatever the broker   *)
(* reports later; only a restart forgets it.                               *)
TerminalIsFinal ==
  [][\A o \in Orders :
       status[o] \in TerminalStatuses => status'[o] \in {status[o], "FORGOTTEN"}]_vars

(* No SWING order makes the promised total exceed 70% of the cash: the     *)
(* rest is kept for momentum entries, also when the order was cut down.    *)
MomentumBuffer ==
  [][\A o \in Orders, s \in Symbols, n \in 1..MaxQty, i \in Intents \cup {None} :
       SubmitBuy(o, s, n, "SWING", i) => 10 * reserved_cash' <= 7 * cash_available]_vars

(* An order whose request has been answered and that the broker executed   *)
(* in full, or withdrew before it executed a share, leaves pending_orders: *)
(* reconcile_orders finds it.                                              *)
FinishedOrderLeavesPending ==
  \A o \in Orders :
    calling # o /\ (bstate[o] = "done" \/ (bstate[o] = "cancelled" /\ exec[o] = 0))
      ~> o \notin pending_orders
=============================================================================
