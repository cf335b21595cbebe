----------------------------- MODULE MCServices ------------------------------
(***************************************************************************)
(* Components around the trading loop that share no state, checked in one  *)
(* run: part says which of them this behaviour is about, the others stand  *)
(* still.                                                                  *)
(***************************************************************************)
EXTENDS TelegramChannel, AfterHours, ModelRegistry, TradeBooks, LearningData, TLC

CONSTANTS m1, m2, m3

(* A question and two feedbacks, one of which is edited later.             *)
MCKindOf == (m1 :> "answer") @@ (m2 :> "feedback") @@ (m3 :> "feedback")
MCUpdates == <<m2, m1, m3, m2>>

Symmetry == Permutations(Receivers) \cup Permutations(Watchers)

VARIABLE part

vars == <<part, telegramVars, afterHoursVars, registryVars, booksVars, learningVars>>

Init == /\ part \in {"telegram", "after hours", "registry", "books", "learning"}
        /\ TelegramInit /\ AfterHoursInit /\ RegistryInit /\ BooksInit /\ LearningInit
        /\ part # "books" => ~paper

Next ==
  /\ UNCHANGED part
  /\ \/ /\ part = "telegram" /\ TelegramNext
        /\ UNCHANGED <<afterHoursVars, registryVars, booksVars, learningVars>>
     \/ /\ part = "after hours" /\ AfterHoursNext
        /\ UNCHANGED <<telegramVars, registryVars, booksVars, learningVars>>
     \/ /\ part = "registry" /\ RegistryNext
        /\ UNCHANGED <<telegramVars, afterHoursVars, booksVars, learningVars>>
     \/ /\ part = "books" /\ BooksNext
        /\ UNCHANGED <<telegramVars, afterHoursVars, registryVars, learningVars>>
     \/ /\ part = "learning" /\ LearningNext
        /\ UNCHANGED <<telegramVars, afterHoursVars, registryVars, booksVars>>

Spec == Init /\ [][Next]_vars

(* What follows trouble that the properties excuse is not followed (bound).*)
Unexcused == ~shaky

(* No message is answered twice, and a feedback said to be saved is saved. *)
MessagesHandled == part = "telegram" => AnsweredOnce /\ FeedbackKept

(* The type invariants of the components.                                  *)
TypeOK == /\ TelegramTypeOK /\ AfterHoursTypeOK /\ RegistryTypeOK
          /\ BooksTypeOK /\ LearningTypeOK
=============================================================================
