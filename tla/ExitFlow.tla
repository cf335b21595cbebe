------------------------------ MODULE ExitFlow ------------------------------
(***************************************************************************)
(* Positions and their exits (execution/position_manager.py) on top of the *)
(* order router, with the entry of LiveQuantTrader.run_cycle that opens a  *)
(* position and the 180 s reconciliation that adopts, corrects and closes  *)
(* positions.  Every call into the router is the router's own action; the  *)
(* position manager's part before and after it is conjoined here.  While a *)
(* call of the position manager is under way (call.kind # "none") no other *)
(* operation of the trading thread runs, but the broker goes on.           *)
(*                                                                         *)
(* Prices are not modelled: any exit condition may hold at any time in the *)
(* regular session.  Accounts are real ones (DryRunModes = {FALSE}).       *)
(***************************************************************************)
EXTENDS OrderRouter

CONSTANTS Targets,          \* take-profit targets of a position
          MaxEntry          \* shares an entry may ask for; MaxQty bounds the exits

ASSUME ExitAssumption == /\ Targets \in Nat
                         /\ MaxEntry \in 1..MaxQty
                         /\ DryRunModes = {FALSE}

VARIABLES
  pos,          \* symbol -> its open Position, or NoPosition
  call,         \* the position manager's call under way
  lingering     \* exit orders that closed positions still carry

exitVars == <<pos, call, lingering>>
allVars == <<vars, exitVars>>

NoPosition == [open |-> FALSE, qty |-> 0, pending |-> 0, active |-> None,
               psbl |-> 0, fails |-> 0, taken |-> 0]
NoCall == [kind |-> "none", sym |-> None, qty |-> 0]
Kinds  == {"entry", "partial", "override", "close", "timeout", "timeout_closed",
           "resubmit", "resubmit_closed"}

Opened(n) == [NoPosition EXCEPT !.open = TRUE, !.qty = n, !.psbl = n]

Idle == call = NoCall /\ calling = None
Calling(kind, s, n) == call' = [kind |-> kind, sym |-> s, qty |-> n]

Smaller(a, b) == IF a < b THEN a ELSE b
Available(p)  == Monus(p.qty, p.pending)                  \* Position.available_qty
Tranche(n)    == IF (3 * n) \div 10 > 1 THEN (3 * n) \div 10 ELSE 1   \* 30%, at least 1
Waiting(p)    == p.active \in pending_orders

(* The position of a symbol closes; whatever exit order it carries stays   *)
(* in its record among closed_positions.                                   *)
Close(s) ==
  /\ pos' = [pos EXCEPT ![s] = NoPosition]
  /\ lingering' = IF Waiting(pos[s]) THEN lingering \cup {pos[s].active} ELSE lingering

-----------------------------------------------------------------------------
(* The listeners the router calls.                                         *)

(* Mutant of AfterFill: only the waiting quantity is reduced.              *)
AfterFillPendingOnly(p, n, full) ==
  IF ~p.open THEN p
  ELSE [p EXCEPT !.pending = Monus(@, n), !.active = IF full THEN None ELSE @]

(* on_order_fill: n newly executed shares of a SELL.                       *)
AfterFill(p, n, full) ==
  IF ~p.open THEN p
  ELSE IF p.qty <= n THEN NoPosition
  ELSE [p EXCEPT !.qty = @ - n,
                 !.pending = Monus(@, n),
                 !.active = IF full THEN None ELSE @]

(* Order.remaining_qty, or the whole quantity when nothing remains.        *)
ReleasedQty(o) == IF filled[o] < ord[o].qty THEN ord[o].qty - filled[o] ELSE ord[o].qty

(* on_order_cancel_or_reject.                                              *)
AfterCancel(p, o) ==
  IF p.active = o
    THEN [p EXCEPT !.pending = Monus(@, ReleasedQty(o)), !.active = None]
    ELSE p

-----------------------------------------------------------------------------
(* Entry: run_cycle submits a BUY for a symbol without a position, sized so *)
(* that the ledger need not cut it, and opens a position only if the order  *)
(* comes back filled, with the quantity it asked for.                       *)
Enter(s, o, n, h) ==
  /\ Idle /\ ~pos[s].open
  /\ Approved(h, n) = n
  /\ SubmitBuy(o, s, n, h, None)
  /\ Calling("entry", s, n)
  /\ UNCHANGED <<pos, lingering>>

-----------------------------------------------------------------------------
(* _partial_exit at a take-profit target; the target counts as taken       *)
(* whatever comes of the order.                                            *)
PartialQty(s) == Smaller(Tranche(pos[s].qty), Available(pos[s]))
AtTarget(s)   == Idle /\ pos[s].open /\ pos[s].taken < Targets
Take(p)       == [p EXCEPT !.taken = @ + 1]

(* A SELL is turned away before it is created: by a check, or because the  *)
(* sellable quantity could not be read (or, the bound of the instance, no  *)
(* order id is left).                                                      *)
Refused(s, n) ==
  \/ QueryMayFail
  \/ ~PreOrderChecks(s, "SELL", n)
  \/ n > MaxQty \/ \A o \in Orders : status[o] # "NONE"

(* The forced balance read after a failed exit: the position takes the     *)
(* broker's quantity or closes; a read that fails changes nothing.         *)
Refreshed(p, s) ==
  (IF QueryMayFail THEN {p} ELSE {}) \cup
  {IF Holdings(s) > 0 THEN [p EXCEPT !.qty = Holdings(s)] ELSE NoPosition}

PartialExit(s, o) ==
  /\ AtTarget(s) /\ ~Waiting(pos[s]) /\ PartialQty(s) \in 1..MaxQty
  /\ SubmitSell(o, s, PartialQty(s), None)
  /\ Calling("partial", s, PartialQty(s))
  /\ pos' = [pos EXCEPT ![s] = Take(@)]
  /\ UNCHANGED lingering

PartialExitSkipped(s) ==
  /\ AtTarget(s) /\ (Waiting(pos[s]) \/ PartialQty(s) = 0)
  /\ pos' = [pos EXCEPT ![s] = Take(@)]
  /\ UNCHANGED <<vars, call, lingering>>

PartialExitRefused(s) ==
  /\ AtTarget(s) /\ ~Waiting(pos[s]) /\ PartialQty(s) > 0
  /\ Refused(s, PartialQty(s))
  /\ \E p \in Refreshed(Take(pos[s]), s) : pos' = [pos EXCEPT ![s] = p]
  /\ UNCHANGED <<vars, call, lingering>>

-----------------------------------------------------------------------------
(* _close_position.                                                        *)

(* A stop, trailing-stop or end-of-day exit first cancels the exit order   *)
(* that is still waiting; its quantity is released by the cancel listener  *)
(* and once more by _close_position itself.                                *)
OverrideExit(s) ==
  LET o == pos[s].active
      p == AfterCancel(pos[s], o)
  IN  /\ Idle /\ pos[s].open /\ Waiting(pos[s])
      /\ CancelOrder(o)
      /\ pos' = [pos EXCEPT ![s] = [p EXCEPT !.pending = Monus(p.pending, ReleasedQty(o))]]
      /\ Calling("override", s, 0)
      /\ UNCHANGED lingering

(* Past the duplicate-exit guards.  As the router never has two SELLs of a *)
(* symbol pending, none is left after an override.                         *)
Closing(s) ==
  /\ calling = None /\ pos[s].open
  /\ call = NoCall \/ (call.kind = "override" /\ call.sym = s)
  /\ PendingSame(s, "SELL") = {}
CloseQty(p) == Smaller(Available(p), p.psbl)

(* Nothing to sell: an empty position closes, any other one waits.         *)
CloseNothing(s) ==
  /\ Closing(s) /\ CloseQty(pos[s]) = 0
  /\ call' = NoCall
  /\ IF pos[s].qty = 0 THEN Close(s) ELSE UNCHANGED <<pos, lingering>>
  /\ UNCHANGED vars

CloseSubmit(s, o) ==
  /\ Closing(s) /\ CloseQty(pos[s]) \in 1..MaxQty
  /\ SubmitSell(o, s, CloseQty(pos[s]), None)
  /\ Calling("close", s, CloseQty(pos[s]))
  /\ UNCHANGED <<pos, lingering>>

(* Mutant of Failed: failures are counted but never end the attempts.      *)
FailedWithoutLimit(p, s) == Refreshed([p EXCEPT !.fails = @ + 1], s)

(* One more failure; the third quarantines the position, so the test for   *)
(* three earlier failures before an order never meets an open one.         *)
Failed(p, s) ==
  LET failed == [p EXCEPT !.fails = @ + 1]
  IN  {IF q.fails >= 3 THEN NoPosition ELSE q : q \in Refreshed(failed, s)}

CloseRefused(s) ==
  /\ Closing(s) /\ CloseQty(pos[s]) > 0
  /\ Refused(s, CloseQty(pos[s]))
  /\ \E p \in Failed(pos[s], s) : pos' = [pos EXCEPT ![s] = p]
  /\ call' = NoCall
  /\ UNCHANGED <<vars, lingering>>

-----------------------------------------------------------------------------
(* check_exit_order_timeouts: an exit order not executed in time is        *)
(* cancelled and its whole quantity is ordered again; the orders of closed *)
(* positions are looked after too.                                         *)
ExitTimeout(s) ==
  LET o == pos[s].active
  IN  /\ Idle /\ pos[s].open /\ Waiting(pos[s])
      /\ CancelOrder(o)
      /\ pos' = [pos EXCEPT ![s] = AfterCancel(@, o)]
      /\ Calling("timeout", s, ord[o].qty)
      /\ UNCHANGED lingering

LingeringTimeout(o) ==
  /\ Idle /\ o \in lingering
  /\ IF o \in pending_orders
       THEN CancelOrder(o) /\ Calling("timeout_closed", ord[o].sym, ord[o].qty)
       ELSE UNCHANGED <<vars, call>>
  /\ lingering' = lingering \ {o}
  /\ UNCHANGED pos

TimedOut == call.kind \in {"timeout", "timeout_closed"}

Resubmit(o) ==
  /\ TimedOut /\ call.sym \in Symbols /\ call.qty \in 1..MaxQty
  /\ SubmitSell(o, call.sym, call.qty, None)
  /\ Calling(IF call.kind = "timeout" THEN "resubmit" ELSE "resubmit_closed",
             call.sym, call.qty)
  /\ UNCHANGED <<pos, lingering>>

ResubmitRefused ==
  /\ TimedOut /\ Refused(call.sym, call.qty)
  /\ call' = NoCall
  /\ UNCHANGED <<vars, pos, lingering>>

-----------------------------------------------------------------------------
(* The router's answer to the call, and what the caller makes of it.       *)

(* The broker took order o and n of its shares are known to be executed:   *)
(* the fill listener has run, then the caller books the order.  A partial  *)
(* exit that comes back filled is booked by the listener and once more by  *)
(* its caller; one that does not counts as waiting in full.                *)
Answered(s, o, n, full) ==
  LET p == IF IsSell(o) /\ n > 0 THEN AfterFill(pos[s], n, full) ELSE pos[s]
      waiting == [p EXCEPT !.active = o, !.pending = @ + call.qty]
  IN  CASE call.kind = "entry"    -> IF full THEN Opened(call.qty) ELSE p
        [] call.kind = "partial"  -> IF full THEN AfterFill(p, call.qty, FALSE) ELSE waiting
        [] call.kind = "close"    -> IF full THEN NoPosition ELSE waiting
        [] call.kind = "resubmit" -> [p EXCEPT !.active = IF full THEN None ELSE o]
        [] OTHER                  -> p

ExitAnswered ==
  LET s == call.sym
      o == calling
      full == status'[o] = "FILLED"
  IN  /\ AckReceived
      /\ pos' = [pos EXCEPT ![s] = Answered(s, o, filled'[o], full)]
      /\ lingering' = IF call.kind = "resubmit_closed" /\ ~full
                       THEN lingering \cup {o} ELSE lingering
      /\ call' = NoCall

ExitSendFailed ==
  LET s == call.sym
  IN  /\ SendFailed
      /\ \E p \in CASE call.kind = "partial" -> Refreshed(pos[s], s)
                    [] call.kind = "close"   -> Failed(pos[s], s)
                    [] OTHER                 -> {pos[s]} :
            pos' = [pos EXCEPT ![s] = p]
      /\ call' = NoCall
      /\ UNCHANGED lingering

-----------------------------------------------------------------------------
(* reconcile_orders, with the listeners.                                   *)

ExitReconcileFill(o) ==
  /\ Idle
  /\ ReconcileFill(o)
  /\ pos' = IF IsSell(o)
            THEN [pos EXCEPT ![ord[o].sym] =
                    AfterFill(@, exec[o] - filled[o], status'[o] = "FILLED")]
            ELSE pos
  /\ UNCHANGED <<call, lingering>>

ExitReconcileCanceled(o) ==
  /\ Idle
  /\ ReconcileCanceled(o)
  /\ pos' = [pos EXCEPT ![ord[o].sym] = AfterCancel(@, o)]
  /\ UNCHANGED <<call, lingering>>

ExitReconcileByHoldings(o) ==
  /\ Idle
  /\ ReconcileByHoldings(o)
  /\ UNCHANGED exitVars

-----------------------------------------------------------------------------
(* perform_reconciliation, every 180 s, and the adoption at startup, which *)
(* is its first case.                                                      *)

(* sync_from_broker for a symbol without a position.  A sellable quantity  *)
(* that cannot be read counts as none.                                     *)
Adopted(s, known) ==
  [Opened(Holdings(s)) EXCEPT
     !.psbl = IF known THEN Sellable(s) ELSE 0,
     !.pending = IF known THEN UnfilledSell(s) ELSE 0,
     !.active = IF known /\ UnfilledSell(s) > 0 /\ PendingSame(s, "SELL") # {}
                  THEN CHOOSE o \in PendingSame(s, "SELL") : TRUE ELSE None]

(* Mutants of Adopt: a symbol with an order under way is left for later;   *)
(* the adoption takes the symbol's orders off pending_orders.              *)
AdoptUnlessPending(s) ==
  /\ Idle /\ ~pos[s].open /\ Holdings(s) > 0
  /\ {o \in pending_orders : ord[o].sym = s} = {}
  /\ pos' = [pos EXCEPT ![s] = Adopted(s, TRUE)]
  /\ UNCHANGED <<vars, call, lingering>>

AdoptClearsPending(s) ==
  /\ Idle /\ ~pos[s].open /\ Holdings(s) > 0
  /\ pos' = [pos EXCEPT ![s] = Adopted(s, TRUE)]
  /\ pending_orders' = {o \in pending_orders : ord[o].sym # s}
  /\ UNCHANGED <<cashVars, ord, status, filled, pending_entries, executed_intent_ids,
                 cooling, critical_exit_failure_active, calling, account_cash,
                 brokerVars, restarts, dry_run, call, lingering>>

Adopt(s) ==
  /\ Idle /\ ~pos[s].open /\ Holdings(s) > 0
  /\ \E known \in IF QueryMayFail THEN BOOLEAN ELSE {TRUE} :
       pos' = [pos EXCEPT ![s] = Adopted(s, known)]
  /\ UNCHANGED <<vars, call, lingering>>

CloseMissing(s) ==
  /\ Idle /\ pos[s].open /\ Holdings(s) = 0
  /\ Close(s)
  /\ UNCHANGED <<vars, call>>

CorrectQty(s) ==
  /\ Idle /\ pos[s].open /\ Holdings(s) \notin {0, pos[s].qty}
  /\ pos' = [pos EXCEPT ![s].qty = Holdings(s)]
  /\ UNCHANGED <<vars, call, lingering>>

-----------------------------------------------------------------------------
ExitRestart ==
  /\ Restart
  /\ pos' = [s \in Symbols |-> NoPosition]
  /\ call' = NoCall
  /\ lingering' = {}

ExitInit ==
  /\ Init
  /\ pos = [s \in Symbols |-> NoPosition]
  /\ call = NoCall
  /\ lingering = {}

ExitRespond == ExitAnswered \/ ExitSendFailed

ClosePosition(s) ==
  CloseNothing(s) \/ CloseRefused(s) \/ \E o \in Orders : CloseSubmit(s, o)

TimeoutResubmit == ResubmitRefused \/ \E o \in Orders : Resubmit(o)

ExitReconcile(o) ==
  ExitReconcileFill(o) \/ ExitReconcileCanceled(o) \/ ExitReconcileByHoldings(o)

ExitNext ==
  \/ \E s \in Symbols, o \in Orders :
       \/ \E n \in 1..MaxEntry, h \in Horizons : Enter(s, o, n, h)
       \/ PartialExit(s, o)
  \/ \E s \in Symbols :
       \/ PartialExitSkipped(s) \/ PartialExitRefused(s)
       \/ OverrideExit(s) \/ ClosePosition(s)
       \/ ExitTimeout(s)
       \/ Adopt(s) \/ CloseMissing(s) \/ CorrectQty(s)
  \/ TimeoutResubmit
  \/ \E o \in Orders : LingeringTimeout(o) \/ ExitReconcile(o)
  \/ ExitRespond
  \/ Idle /\ (SyncCash \/ \E s \in Symbols : CooldownExpires(s)) /\ UNCHANGED exitVars
  \/ (Retry \/ Broker) /\ UNCHANGED exitVars
  \/ ExitRestart

ExitSpec == ExitInit /\ [][ExitNext]_allVars

(* The trading loop comes round: calls return and are followed up, and the *)
(* holdings are compared with the positions every 180 s.                   *)
AdoptFairSpec ==
  /\ ExitSpec
  /\ WF_allVars(ExitRespond)
  /\ WF_allVars(TimeoutResubmit)
  /\ \A s \in Symbols : WF_allVars(Adopt(s)) /\ WF_allVars(ClosePosition(s))

(* Also, orders are reconciled and exit orders time out.                   *)
ExitFairSpec ==
  /\ AdoptFairSpec
  /\ \A o \in Orders : WF_allVars(ExitReconcile(o)) /\ WF_allVars(LingeringTimeout(o))
  /\ \A s \in Symbols : WF_allVars(ExitTimeout(s))

-----------------------------------------------------------------------------
(* Properties.                                                             *)

(* Positions, the call under way and the orders of closed positions stay   *)
(* in their domains; the third failed exit has closed the position.        *)
ExitTypeOK ==
  /\ pos \in [Symbols -> [open : BOOLEAN, qty : Nat, pending : Nat,
                          active : Orders \cup {None}, psbl : Nat,
                          fails : 0..2, taken : 0..Targets]]
  /\ call \in [kind : Kinds, sym : Symbols, qty : 0..MaxQty] \cup {NoCall}
  /\ lingering \in SUBSET Orders

(* The position manager uses the router only through its operations: every *)
(* step of the composition is a step of OrderRouter or leaves it alone.    *)
ImplementsRouter == Spec

(* A share at the broker that no position manages is found again, or sold: *)
(* perform_reconciliation adopts it, whatever closed its position.         *)
UnmanagedIsAdopted ==
  \A s \in Symbols :
    Holdings(s) > 0 /\ ~pos[s].open ~> pos[s].open \/ Holdings(s) = 0

(* A position claims no more shares than the account holds and the fills   *)
(* reconcile_orders has still to report, or that were never to be reported *)
(* because the answer to their order, or to an attempt of it, was lost.    *)
PositionIsCovered ==
  \A s \in Symbols :
    Idle => pos[s].qty <= Holdings(s) +
              SumFunctionOnSet([o \in Orders |-> exec[o] - filled[o]],
                               {o \in Orders : Matches(o, s, "SELL")})
                + SumFunctionOnSet([a \in DOMAIN lost |-> lost[a].exec], LostAt(s, "SELL"))

(* No exit order waits for ever: check_exit_order_timeouts finds it through *)
(* the position that carries it, closed ones included.                     *)
ExitOrderEnds ==
  \A o \in Orders : o \in pending_orders /\ IsSell(o) ~> o \notin pending_orders

(* A symbol is bought only while the account holds none of it.             *)
NoEntryWhileHolding ==
  [][\A s \in Symbols, o \in Orders, n \in 1..MaxEntry, h \in Horizons :
       Enter(s, o, n, h) => Holdings(s) = 0]_allVars
=============================================================================
