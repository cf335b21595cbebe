--------------------------- MODULE PortfolioCash ---------------------------
(***************************************************************************)
(* The central cash ledger of one account (PortfolioCashManager in         *)
(* risk/portfolio_cash.py): the cash the account was last told it has, the *)
(* total it has promised to outstanding BUY orders, and the promise made   *)
(* for each order.  Every method runs under the manager's RLock, so each   *)
(* is one operator here; OrderRouter conjoins them with its own steps.     *)
(*                                                                         *)
(* Money is counted in units such that one share costs UnitFill when it is *)
(* filled (price and fee) and UnitReserve when it is reserved (price, fee  *)
(* and slippage buffer).  One price stands for all: the ledger never       *)
(* compares prices, only the amounts computed from them.                   *)
(***************************************************************************)
EXTENDS Naturals, Integers

CONSTANTS Orders,        \* client order ids
          UnitReserve,   \* reserved per share (fee and slippage buffer included)
          UnitFill       \* spent per share    (fee included, no buffer)

ASSUME CostAssumption == /\ UnitReserve \in Nat \ {0}
                         /\ UnitFill \in Nat \ {0}
                         /\ UnitFill <= UnitReserve

VARIABLES cash_available,   \* last synchronised broker cash, less recorded fills
          reserved_cash,    \* running total of the promises
          reservations      \* order -> amount promised to it, 0 when it has none

cashVars == <<cash_available, reserved_cash, reservations>>

(* Mutant of Monus: the subtraction is not clamped at zero.                *)
MonusUnclamped(a, b) == a - b

Monus(a, b) == IF a > b THEN a - b ELSE 0          \* max(0, a - b)

ReserveCost(n) == n * UnitReserve
FillCost(n)    == n * UnitFill

UsableCash == Monus(cash_available, reserved_cash)

(* Ten times what a SWING order may use: 30% of the cash is kept for       *)
(* intraday momentum entries.                                              *)
SwingUsable10 == Monus(10 * UsableCash, 3 * cash_available)

(* The shares revalidate_and_reserve_cash approves for a request of n, 0   *)
(* when it refuses.  A SWING request over its budget is cut down to the    *)
(* shares the budget pays for; an INTRADAY one is never cut.               *)
Approved(horizon, n) ==
  LET fitting == SwingUsable10 \div (10 * UnitReserve)
      wanted  == IF horizon = "SWING" /\ 10 * ReserveCost(n) > SwingUsable10
                   THEN IF fitting < n THEN fitting ELSE 0
                   ELSE n
  IN  IF ReserveCost(wanted) <= UsableCash THEN wanted ELSE 0

Reserve(o, n) ==
  /\ reserved_cash' = reserved_cash + ReserveCost(n)
  /\ reservations'  = [reservations EXCEPT ![o] = ReserveCost(n)]
  /\ UNCHANGED cash_available

(* Mutant of SettleFill: the total shrinks by the cost of the fill, not by *)
(* what was promised.                                                      *)
SettleFillAtCost(o, n) ==
  /\ reserved_cash'  = Monus(reserved_cash, FillCost(n))
  /\ reservations'   = [reservations EXCEPT ![o] = 0]
  /\ cash_available' = Monus(cash_available, FillCost(n))

(* on_order_fill: the order's whole promise is dropped, and the cost of    *)
(* the filled quantity it is told about leaves the available cash.         *)
SettleFill(o, n) ==
  /\ reserved_cash'  = Monus(reserved_cash, reservations[o])
  /\ reservations'   = [reservations EXCEPT ![o] = 0]
  /\ cash_available' = Monus(cash_available, FillCost(n))

ReleaseReservation(o) ==
  /\ reserved_cash' = Monus(reserved_cash, reservations[o])
  /\ reservations'  = [reservations EXCEPT ![o] = 0]
  /\ UNCHANGED cash_available

SyncBrokerCash(c) ==
  /\ cash_available' = Monus(c, 0)
  /\ UNCHANGED <<reserved_cash, reservations>>

CashTypeOK ==
  /\ cash_available \in Nat
  /\ reserved_cash \in Nat
  /\ reservations \in [Orders -> Nat]

CashInit(c) ==
  /\ cash_available = c
  /\ reserved_cash = 0
  /\ reservations = [o \in Orders |-> 0]
=============================================================================
