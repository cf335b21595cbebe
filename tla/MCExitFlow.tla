----------------------------- MODULE MCExitFlow ------------------------------
(***************************************************************************)
(* ExitFlow with three orders, or with two of which one may be repeated.   *)
(***************************************************************************)
EXTENDS ExitFlow

Repeats == {a \in DOMAIN lost : lost[a].state # "none"}
RepeatedAlone ==
  Repeats # {} => /\ \E o \in Orders : ~Created(o)
                  /\ \A a, b \in Repeats : a = b

(* Once no order is left, cash and cooldowns matter to none.               *)
WhileOrdersLast ==
  (\A o \in Orders : Created(o)) => UNCHANGED <<account_cash, cooling>>
=============================================================================
