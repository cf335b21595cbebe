------------------------- MODULE MCExecutionLedger -------------------------
(* A buy of each account, whose new rows get the same key, and a sell, whose *)
(* order has the key of the other account's buy.  It arrives in two versions: *)
(* the web socket and the REST poller name the same execution, one of them   *)
(* with a position id, perhaps of the other account.                         *)
EXTENDS ExecutionLedger
CONSTANTS b1, b2, s1, o1, o2, live, mock

Report(i, o, s, n, a, p) ==
  [id |-> i, order |-> o, side |-> s, qty |-> n, acct |-> a, pos |-> p]
MCEvents == {Report(b1, o1, "BUY", 2, live, None), Report(b2, o2, "BUY", 1, mock, b1),
             Report(s1, o2, "SELL", 3, live, b1),
             Report(s1, o2, "SELL", 3, live, None)}
=============================================================================
