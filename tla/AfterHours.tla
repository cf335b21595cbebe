----------------------------- MODULE AfterHours -----------------------------
(***************************************************************************)
(* The watchlist of stocks that jump after the close                     *)
(* (core/after_hours_manager.py) and its callers in the cycle of the live*)
(* trader.  Each trader process keeps its own copy of the candidates over*)
(* one table, after_hours_candidates.                                    *)
(*                                                                       *)
(* A day is five periods.  Prices are abstracted to the outcome of the gap*)
(* check; a call of the manager is one step (no other call of the same   *)
(* process comes in between).  The calls the trader never makes          *)
(* (revalidate_in_regular_session, the outcome records) are left out.    *)
(***************************************************************************)
EXTENDS Integers, Sequences

CONSTANTS Watchers,    \* trader processes over one database
          Codes,       \* stocks
          LastDay,     \* bound: trading days
          MaxDbErrors  \* bound: calls that find the database locked

ASSUME AfterHoursAssumption == LastDay \in Nat \ {0} /\ MaxDbErrors \in Nat

Times == <<"pre", "regular", "late", "after", "closed">>

(* "late" is the regular session from 15:00, when day trades stop.       *)
MarketSession(t) == CASE t \in {"regular", "late"} -> "REGULAR"
                      [] t = "pre"    -> "PRE_MARKET"
                      [] t = "after"  -> "AFTER_HOURS"
                      [] t = "closed" -> "CLOSED"
IsOrderEntryAllowed(t) == MarketSession(t) = "REGULAR" /\ t # "late"

NoCandidate == [day |-> 0, status |-> "NONE"]

VARIABLES
  today, clock,   \* the day, and the index of the period in Times
  candidates,           \* code -> its row of the table
  copy,           \* process -> code -> its candidate in memory
  expiredOn,      \* process -> _last_ah_expire_date
  summarised,     \* days whose summary is marked SENT
  dbErrors

afterHoursVars == <<today, clock, candidates, copy, expiredOn, summarised, dbErrors>>

Statuses == {"NONE", "ACTIVE", "CONSUMED", "REJECTED", "EXPIRED"}
Candidates == [day : 0 .. LastDay, status : Statuses]

AfterHoursInit ==
  /\ today = 1 /\ clock = 1
  /\ candidates = [c \in Codes |-> NoCandidate]
  /\ copy = [p \in Watchers |-> [c \in Codes |-> NoCandidate]]
  /\ expiredOn = [p \in Watchers |-> 0]
  /\ summarised = {} /\ dbErrors = 0

Now == Times[clock]
Running(p) == expiredOn[p] = today     \* the first step of a day's first cycle
DbError == dbErrors < MaxDbErrors /\ dbErrors' = dbErrors + 1

Tick ==
  /\ IF clock < Len(Times) THEN clock' = clock + 1 /\ UNCHANGED today
                           ELSE today < LastDay /\ today' = today + 1 /\ clock' = 1
  /\ UNCHANGED <<candidates, copy, expiredOn, summarised, dbErrors>>

(* Only ACTIVE candidates are loaded.                                    *)
Restart(p) ==
  /\ copy' = [copy EXCEPT ![p] =
       [c \in Codes |-> IF candidates[c].status = "ACTIVE" THEN candidates[c] ELSE NoCandidate]]
  /\ expiredOn' = [expiredOn EXCEPT ![p] = 0]
  /\ UNCHANGED <<today, clock, candidates, summarised, dbErrors>>

(* expire_stale_watchlist: the process's own copy follows only for the   *)
(* candidates it expires itself; the cycle does not try again that day.  *)
ExpireStaleWatchlist(p) ==
  LET stale == {c \in Codes : candidates[c].status = "ACTIVE" /\ candidates[c].day < today}
      Expire(held, c) == IF c \in stale /\ held[c] # NoCandidate
                         THEN [held[c] EXCEPT !.status = "EXPIRED"] ELSE held[c]
  IN
  /\ ~Running(p)
  /\ \/ /\ candidates' = [c \in Codes |-> Expire(candidates, c)]
        /\ copy' = [copy EXCEPT ![p] = [c \in Codes |-> Expire(copy[p], c)]]
        /\ UNCHANGED dbErrors
     \/ DbError /\ UNCHANGED <<candidates, copy>>
  /\ expiredOn' = [expiredOn EXCEPT ![p] = today]
  /\ UNCHANGED <<today, clock, summarised>>

Remembered(p, c) == IF copy[p][c] # NoCandidate THEN copy[p][c] ELSE candidates[c]

(* Memory first, then the table: a locked table leaves the two apart.    *)
Persist(p, c, cand) ==
  /\ copy' = [copy EXCEPT ![p][c] = cand]
  /\ \/ candidates' = [candidates EXCEPT ![c] = cand] /\ UNCHANGED dbErrors
     \/ DbError /\ UNCHANGED candidates

(* Mutant of InSpikeSession: spikes are also taken during the day.       *)
InAnySession(t) == MarketSession(t) \in {"AFTER_HOURS", "REGULAR"}
InSpikeSession(t) == MarketSession(t) = "AFTER_HOURS"

(* detect_after_hours_spike, for a rise of 3 % or more.                  *)
DetectAfterHoursSpike(p, c) ==
  LET existing == Remembered(p, c) IN
  /\ Running(p) /\ InSpikeSession(Now)
  /\ IF existing.day = today /\ existing.status = "ACTIVE"
     THEN copy' = [copy EXCEPT ![p][c] = existing] /\ UNCHANGED <<candidates, dbErrors>>
     ELSE Persist(p, c, [day |-> today, status |-> "ACTIVE"])
  /\ UNCHANGED <<today, clock, expiredOn, summarised>>

(* get_next_session_features                                             *)
AfterHoursSignal(p, c) == Remembered(p, c).status \notin {"NONE", "EXPIRED"}

(* A signal of the strategies on c: with an after-hours signal, its gap  *)
(* decides (mark_rejected), and a purchase uses the candidate up         *)
(* (mark_consumed).                                                      *)
EvaluateSignal(p, c) ==
  /\ Running(p) /\ IsOrderEntryAllowed(Now)
  /\ IF AfterHoursSignal(p, c)
     THEN \/ \E status \in {"REJECTED", "CONSUMED"} :
               Persist(p, c, [Remembered(p, c) EXCEPT !.status = status])
          \/ copy' = [copy EXCEPT ![p][c] = Remembered(p, c)] /\ UNCHANGED <<candidates, dbErrors>>
     ELSE copy' = [copy EXCEPT ![p][c] = Remembered(p, c)] /\ UNCHANGED <<candidates, dbErrors>>
  /\ UNCHANGED <<today, clock, expiredOn, summarised>>

(* send_after_hours_daily_summary: nothing is sent of a day without a    *)
(* candidate; a failed message is tried again in the next cycle.         *)
SendDailySummary(p) ==
  /\ Running(p) /\ MarketSession(Now) = "CLOSED"
  /\ today \notin summarised
  /\ \E c \in Codes : candidates[c].day = today
  /\ summarised' = summarised \union {today}
  /\ UNCHANGED <<today, clock, candidates, copy, expiredOn, dbErrors>>

AfterHoursNext ==
  \/ Tick
  \/ \E p \in Watchers :
       \/ Restart(p) \/ ExpireStaleWatchlist(p) \/ SendDailySummary(p)
       \/ \E c \in Codes : DetectAfterHoursSpike(p, c) \/ EvaluateSignal(p, c)

AfterHoursSpec == AfterHoursInit /\ [][AfterHoursNext]_afterHoursVars

-----------------------------------------------------------------------------
(* Days, periods, candidates, copies and dates have their types.         *)
AfterHoursTypeOK ==
  /\ today \in 1 .. LastDay /\ clock \in 1 .. Len(Times)
  /\ candidates \in [Codes -> Candidates]
  /\ copy \in [Watchers -> [Codes -> Candidates]]
  /\ expiredOn \in [Watchers -> 0 .. LastDay]
  /\ summarised \subseteq 1 .. LastDay /\ dbErrors \in 0 .. MaxDbErrors

(* A rise after the close is never bought on the day it was seen: whatever*)
(* the order of detections, restarts and copies gone stale, a candidate is*)
(* used up on a later day, in the part of the regular session that still *)
(* takes new day trades.                                                 *)
EntryWaitsForNextDay ==
  [][\A c \in Codes :
       candidates'[c].status = "CONSUMED" /\ candidates[c].status # "CONSUMED"
         => candidates'[c].day < today /\ IsOrderEntryAllowed(Now)]_afterHoursVars

(* The watchlist is for the next session: a stock seen last evening and  *)
(* not decided since still gives its signal in the next regular session. *)
(* The code expires it in the first cycle of that day.                   *)
CandidateReachesNextSession ==
  \A p \in Watchers, c \in Codes :
    /\ Running(p) /\ IsOrderEntryAllowed(Now)
    /\ candidates[c].day = today - 1 /\ candidates[c].status \notin {"REJECTED", "CONSUMED"}
    /\ candidates[c] # NoCandidate
    => AfterHoursSignal(p, c)
=============================================================================
