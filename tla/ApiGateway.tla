----------------------------- MODULE ApiGateway -----------------------------
(***************************************************************************)
(* src/core/api_gateway.py with its two clients that cache: the balance    *)
(* service and the daily candles.  Threads of one process call the broker  *)
(* through it: a circuit per kind of endpoint, one flight per query with   *)
(* followers that share its answer, and retries by kind of error.          *)
(*                                                                         *)
(* What the broker answers is the caller's step Attempt, one outcome per   *)
(* attempt.  Throttling only delays and is left out; the token is the      *)
(* outcome "expired" (see module TokenManager).                            *)
(***************************************************************************)
EXTENDS Naturals, FiniteSets

CONSTANTS Callers,      \* threads
          Pages,        \* pages of the account's balance
          MaxRetries,   \* attempts of one call
          Threshold,    \* failures that open a circuit
          MaxTasks      \* bound: calls the threads make

ASSUME GatewayAssumption == Pages \in Nat \ {0} /\ MaxRetries \in Nat \ {0}
                            /\ Threshold \in Nat \ {0}

NoCaller == "nobody"
Circuits == {"order", "quote"}
Tasks == {"order", "emergency", "quote", "asset", "page", "daily"}

(* Outcomes of one attempt.  "ok_code" is an answer nhplug raises although
   its code says success; "notoken" and "notrenewed": get_token raised before
   the call or after the broker found the token expired; "failed" stands for
   errors without a class. *)
Answers  == {"ok", "ok_code"}
Refusals == {"account", "symbol", "business", "notoken", "notrenewed"}
Retried  == {"expired", "rate", "server", "network", "failed"}
Outcomes == Answers \cup Refusals \cup Retried

VARIABLES
  gpc,       \* caller -> "idle", "call", "attempt", "wait" or "result"
  task,      \* caller -> what it calls
  page,      \* caller -> balance page it asks for
  attempt,   \* caller -> attempts made in this call
  result,    \* caller -> outcome handed to the client: an outcome or "none"
  joined,    \* caller -> the caller whose flight it follows
  circuit,   \* circuit -> [state, failures]
  cooled,    \* circuit -> recovery_time has passed since the last failure
  balance,   \* the cached balance: [pages, fresh], or pages = 0 for none
  daily,     \* the symbol's entry: "none", "candles" or a negative type
  accepted,  \* caller -> orders of this call the broker has accepted
  lost,      \* caller -> an accepted order's answer did not arrive
  gaveUp,    \* a follower stopped waiting after 15 s
  tasksDone  \* calls made so far

gatewayVars == <<gpc, task, page, attempt, result, joined, circuit, cooled,
                 balance, daily, accepted, lost, gaveUp, tasksDone>>

NegativeTypes == {"permanent", "transient", "empty", "limited", "network"}

GatewayTypeOK ==
  /\ gpc \in [Callers -> {"idle", "call", "attempt", "wait", "result"}]
  /\ task \in [Callers -> Tasks]
  /\ page \in [Callers -> 1 .. Pages]
  /\ attempt \in [Callers -> 0 .. MaxRetries - 1]
  /\ result \in [Callers -> Outcomes \cup {"none"}]
  /\ joined \in [Callers -> Callers \cup {NoCaller}]
  /\ circuit \in [Circuits -> [state : {"NORMAL", "PAUSED", "HALF_OPEN"},
                               failures : 0 .. Threshold]]
  /\ cooled \in [Circuits -> BOOLEAN]
  /\ balance \in [pages : 0 .. Pages, fresh : BOOLEAN]
  /\ daily \in {"none", "candles"} \cup NegativeTypes
  /\ accepted \in [Callers -> 0 .. MaxRetries]
  /\ lost \in [Callers -> BOOLEAN]

GatewayInit ==
  /\ gpc = [c \in Callers |-> "idle"]
  /\ task = [c \in Callers |-> "quote"]
  /\ page = [c \in Callers |-> 1]
  /\ attempt = [c \in Callers |-> 0]
  /\ result = [c \in Callers |-> "none"]
  /\ joined = [c \in Callers |-> NoCaller]
  /\ circuit = [k \in Circuits |-> [state |-> "NORMAL", failures |-> 0]]
  /\ cooled = [k \in Circuits |-> FALSE]
  /\ balance = [pages |-> 0, fresh |-> FALSE]
  /\ daily = "none"
  /\ accepted = [c \in Callers |-> 0]
  /\ lost = [c \in Callers |-> FALSE]
  /\ gaveUp = FALSE
  /\ tasksDone = 0

IsOrder(t) == t \in {"order", "emergency"}
CircuitOf(t) == IF IsOrder(t) THEN "order" ELSE "quote"
HasDedupKey(t) == t \in {"asset", "page", "daily"}

(***************************************************************************)
(* EndpointCircuitBreaker                                                  *)
(***************************************************************************)
CanExecute(k) == circuit[k].state # "PAUSED" \/ cooled[k]
Tried(k) == IF circuit[k].state = "PAUSED" /\ cooled[k]
              THEN [circuit EXCEPT ![k].state = "HALF_OPEN"] ELSE circuit

RecordSuccess(k) == [circuit EXCEPT ![k] = [state |-> "NORMAL", failures |-> 0]]
RecordFailure(k) ==
  LET n == IF circuit[k].failures < Threshold THEN circuit[k].failures + 1
           ELSE Threshold
  IN [circuit EXCEPT ![k].failures = n,
                     ![k].state = IF n = Threshold THEN "PAUSED" ELSE @]

(***************************************************************************)
(* call_api                                                                *)
(***************************************************************************)
Call(c, t, p) ==
  /\ gpc' = [gpc EXCEPT ![c] = "call"]
  /\ task' = [task EXCEPT ![c] = t]
  /\ page' = [page EXCEPT ![c] = p]
  /\ attempt' = [attempt EXCEPT ![c] = 0]
  /\ accepted' = [accepted EXCEPT ![c] = 0]
  /\ lost' = [lost EXCEPT ![c] = FALSE]

Leads(d, t, p) == /\ gpc[d] = "attempt" /\ joined[d] = NoCaller
                  /\ task[d] = t /\ (t = "page" => page[d] = p)

(* The answer reaches the caller and everyone who follows its flight. *)
ToldAlone(c) == {c}
Told(c) == {c} \cup {f \in Callers : gpc[f] = "wait" /\ joined[f] = c}
Finish(c, r) ==
  LET told == Told(c) IN
    /\ gpc' = [f \in Callers |-> IF f \in told THEN "result" ELSE gpc[f]]
    /\ result' = [f \in Callers |-> IF f \in told THEN r ELSE result[f]]
    /\ joined' = [f \in Callers |-> IF f \in told THEN NoCaller ELSE joined[f]]

(* The circuit's verdict, then the flight: lead one or follow one. *)
EnterCall(c) ==
  /\ gpc[c] = "call"
  /\ LET t == task[c]
         k == CircuitOf(t)
         leaders == {d \in Callers \ {c} : HasDedupKey(t) /\ Leads(d, t, page[c])}
     IN
       IF t # "emergency" /\ ~CanExecute(k)
         THEN Finish(c, "failed") /\ UNCHANGED circuit
         ELSE /\ circuit' = IF t = "emergency" THEN circuit ELSE Tried(k)
              /\ \/ /\ leaders = {}
                    /\ gpc' = [gpc EXCEPT ![c] = "attempt"]
                    /\ UNCHANGED joined
                 \/ \E d \in leaders :
                      /\ gpc' = [gpc EXCEPT ![c] = "wait"]
                      /\ joined' = [joined EXCEPT ![c] = d]
              /\ UNCHANGED result
  /\ UNCHANGED <<task, page, attempt, cooled, balance, daily, accepted, lost,
                 gaveUp, tasksDone>>

(* What an attempt's outcome does to the circuit. *)
Charged(k, o) ==
  CASE o \in Answers -> RecordSuccess(k)
    [] o \in {"account", "expired", "notrenewed", "server", "network",
             "failed"} -> RecordFailure(k)
    [] OTHER -> circuit

(* The outcomes after which the same request is sent again. *)
AgainOnCode(o) == o \in Retried \cup {"ok_code"}
Again(o) == o \in Retried

LastAttempt(c) == attempt[c] + 1 = MaxRetries

(* One attempt: the broker may have accepted an order whose answer is lost. *)
Attempt(c, o) ==
  /\ gpc[c] = "attempt"
  /\ LET k == CircuitOf(task[c]) IN
       /\ circuit' = Charged(k, o)
       /\ cooled' = IF o \in Answers \cup {"symbol", "business", "notoken", "rate"}
                      THEN cooled
                    ELSE [cooled EXCEPT ![k] = FALSE]
       /\ \E taken \in IF ~IsOrder(task[c]) THEN {FALSE}
                       ELSE IF o \in Answers THEN {TRUE}
                       ELSE IF o \in {"server", "network", "failed"} THEN BOOLEAN
                       ELSE {FALSE} :
            /\ accepted' = [accepted EXCEPT ![c] = @ + (IF taken THEN 1 ELSE 0)]
            /\ lost' = [lost EXCEPT ![c] = @ \/ (taken /\ o \notin Answers)]
       /\ IF Again(o) /\ ~LastAttempt(c)
            THEN /\ attempt' = [attempt EXCEPT ![c] = @ + 1]
                 /\ UNCHANGED <<gpc, result, joined>>
            ELSE /\ Finish(c, o)
                 /\ UNCHANGED attempt
  /\ UNCHANGED <<task, page, balance, daily, gaveUp, tasksDone>>

(* event.wait(15): the follower goes on with None for an answer. *)
StopWaiting(c) ==
  /\ gpc[c] = "wait"
  /\ gpc' = [gpc EXCEPT ![c] = "result"]
  /\ result' = [result EXCEPT ![c] = "none"]
  /\ joined' = [joined EXCEPT ![c] = NoCaller]
  /\ gaveUp' = TRUE
  /\ UNCHANGED <<task, page, attempt, circuit, cooled, balance, daily, accepted,
                 lost, tasksDone>>

(***************************************************************************)
(* The clients                                                             *)
(***************************************************************************)
NewTask(c) ==
  /\ gpc[c] = "idle" /\ tasksDone < MaxTasks
  /\ tasksDone' = tasksDone + 1

StartCall(c, t) ==
  /\ NewTask(c) /\ Call(c, t, 1)
  /\ UNCHANGED <<result, joined, circuit, cooled, balance, daily, gaveUp>>

SendOrder(c) == StartCall(c, "order")
SendEmergencySell(c) == StartCall(c, "emergency")
AskQuote(c) == StartCall(c, "quote")
(* get_balance: the cached figure for three seconds, else the asset query. *)
AskBalance(c) == ~balance.fresh /\ StartCall(c, "asset")
(* get_daily_candles: nothing is asked while either cache has an entry. *)
AskDaily(c) == daily = "none" /\ StartCall(c, "daily")

(* The call is over; what it kept is of no use to the next one. *)
Rest(c) ==
  /\ gpc' = [gpc EXCEPT ![c] = "idle"]
  /\ task' = [task EXCEPT ![c] = "quote"]
  /\ page' = [page EXCEPT ![c] = 1]
  /\ attempt' = [attempt EXCEPT ![c] = 0]
  /\ result' = [result EXCEPT ![c] = "none"]
  /\ accepted' = [accepted EXCEPT ![c] = 0]
  /\ lost' = [lost EXCEPT ![c] = FALSE]

CallAnswered(c) ==
  /\ gpc[c] = "result" /\ (IsOrder(task[c]) \/ task[c] = "quote")
  /\ Rest(c)
  /\ UNCHANGED <<joined, circuit, cooled, balance, daily, gaveUp, tasksDone>>

(* The balance is parsed, marked complete and cached. *)
Publish(c, n) ==
  /\ balance' = [pages |-> n, fresh |-> TRUE]
  /\ Rest(c)

NextPage(c, p) == /\ Call(c, "page", p)
                  /\ result' = [result EXCEPT ![c] = "none"]
                  /\ UNCHANGED balance

(* The asset query answers for every page; without it the pages are read. *)
AssetAnswered(c) ==
  /\ gpc[c] = "result" /\ task[c] = "asset"
  /\ IF result[c] \in Answers
       THEN Publish(c, Pages)
       ELSE NextPage(c, 1)
  /\ UNCHANGED <<joined, circuit, cooled, daily, gaveUp, tasksDone>>

(* An answer that is no dictionary ends the loop as if it were the end. *)
EndsPages(r) == r = "none"

(* A page: the next one, the end, or an error that leaves get_balance. *)
PageAnswered(c) ==
  /\ gpc[c] = "result" /\ task[c] = "page"
  /\ IF EndsPages(result[c]) THEN Publish(c, page[c] - 1)
     ELSE IF result[c] \notin Answers
       THEN Rest(c) /\ UNCHANGED balance
     ELSE IF page[c] < Pages THEN NextPage(c, page[c] + 1)
     ELSE Publish(c, Pages)
  /\ UNCHANGED <<joined, circuit, cooled, daily, gaveUp, tasksDone>>

(* The entry the daily service makes of an answer; None reads as no rows. *)
EntryFor(r) ==
  CASE r \in Answers -> {"candles", "empty"}
    [] r = "none"    -> {"empty"}
    [] r = "symbol"  -> {"permanent"}
    [] r = "server"  -> {"transient"}
    [] r = "rate"    -> {"limited"}
    [] r = "network" -> {"network"}
    [] r = "notoken" -> {daily, "network", "transient"}
    [] OTHER         -> {daily}

(* Candles are looked up first, so a negative entry does not hide them. *)
DailyAnswered(c) ==
  /\ gpc[c] = "result" /\ task[c] = "daily"
  /\ \E e \in EntryFor(result[c]) :
       daily' = IF daily = "candles" THEN daily ELSE e
  /\ Rest(c)
  /\ UNCHANGED <<joined, circuit, cooled, balance, gaveUp, tasksDone>>

(***************************************************************************)
(* Time                                                                    *)
(***************************************************************************)
BalanceAges ==
  /\ balance.fresh /\ balance' = [balance EXCEPT !.fresh = FALSE]
  /\ UNCHANGED <<gpc, task, page, attempt, result, joined, circuit, cooled,
                 daily, accepted, lost, gaveUp, tasksDone>>

DailyExpires ==
  /\ daily # "none" /\ daily' = "none"
  /\ UNCHANGED <<gpc, task, page, attempt, result, joined, circuit, cooled,
                 balance, accepted, lost, gaveUp, tasksDone>>

CircuitCools(k) ==
  /\ circuit[k].state = "PAUSED" /\ ~cooled[k]
  /\ cooled' = [cooled EXCEPT ![k] = TRUE]
  /\ UNCHANGED <<gpc, task, page, attempt, result, joined, circuit, balance,
                 daily, accepted, lost, gaveUp, tasksDone>>

CallWork(c) == \/ EnterCall(c) \/ \E o \in Outcomes : Attempt(c, o)
               \/ CallAnswered(c) \/ AssetAnswered(c) \/ PageAnswered(c)
               \/ DailyAnswered(c)

GatewayNext ==
  \/ \E c \in Callers : \/ CallWork(c) \/ StopWaiting(c)
                        \/ SendOrder(c) \/ SendEmergencySell(c) \/ AskQuote(c)
                        \/ AskBalance(c) \/ AskDaily(c)
  \/ BalanceAges \/ DailyExpires
  \/ \E k \in Circuits : CircuitCools(k)

(* An order is accepted twice by one call only when the answer to an accepted
   one was lost: every answer, also the success codes nhplug raises, ends the
   retries (api_gateway.py:295-319). *)
ResentOnlyUnanswered == \A c \in Callers : accepted[c] > 1 => lost[c]

(* A circuit that is not NORMAL has its threshold of failures behind it and a
   NORMAL one has fewer, whatever calls of other threads end meanwhile
   (api_gateway.py:109-134). *)
OpenCircuitCounts ==
  \A k \in Circuits : (circuit[k].state # "NORMAL") <=> (circuit[k].failures = Threshold)

(* "Partial balance is never used" (balance_service.py:5) holds but for one
   case: a follower that stopped waiting reads None as the last page. *)
PartialOnlyAfterGivingUp == balance.fresh /\ balance.pages < Pages => gaveUp

(* Every call returns or raises without help of a follower's time-out: the
   retries are bounded and the leader wakes its followers on every path
   (api_gateway.py:143-175, 287-385). *)
CallsEnd == \A c \in Callers : gpc[c] # "idle" ~> gpc[c] = "idle"

=============================================================================
