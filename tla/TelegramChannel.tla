-------------------------- MODULE TelegramChannel ---------------------------
(***************************************************************************)
(* Messages of the user to the trader and their answers                    *)
(* (core/telegram_receiver.py, core/telegram_notifier.py,                  *)
(* core/telegram_feedback_manager.py).  Every trader process has a         *)
(* receiver; a lock file lets one of them poll.  They share the database:  *)
(* the last update id, the messages processed, the feedback rows and the   *)
(* keys of what was sent.  Each of its reads and writes may fail alone, and*)
(* the process may die between any two.                                    *)
(*                                                                         *)
(* A message is its kind: one that is answered under a key of its own      *)
(* (ping, command, query), a feedback, which is saved under a number and   *)
(* then confirmed under a key of that number, or one that gets nothing (a  *)
(* bot's, another chat's, a trade or system event, unclear text).          *)
(***************************************************************************)
EXTENDS Integers, Sequences, FiniteSets, SequencesExt

CONSTANTS Receivers, Messages, NoOne,
          KindOf,      \* message -> "answer", "feedback", "other"
          Updates,     \* sequence of messages: the server's updates; an edit
                       \* of a message is an update of its own
          MaxTroubles  \* bound: crashes, database failures, polls left behind

ASSUME TelegramAssumption ==
  /\ KindOf \in [Messages -> {"answer", "feedback", "other"}]
  /\ Updates \in Seq(Messages) /\ MaxTroubles \in Nat
  /\ NoOne \notin Receivers

VARIABLES
  rx,          \* receiver -> [st, last, batch, step, n, running]
  pollLock,    \* holder of telegram_receiver.lock
  arrived,     \* updates the server has got
  kept,        \* first update the server still keeps
  stored,      \* last_update_id in the database
  processed,   \* telegram_processed_messages
  rows,        \* telegram_feedbacks: number -> message
  sentKeys,    \* telegram_sent_messages
  answers,     \* message -> answers the user has got
  shaky,       \* a database call failed, or a stopped receiver was left polling
  troubles

telegramVars == <<rx, pollLock, arrived, kept, stored, processed, rows, sentKeys,
                  answers, shaky, troubles>>
serverVars == <<arrived, kept>>
tableVars == <<stored, processed, rows, sentKeys>>

Idle(last) == [st |-> "idle", last |-> last, batch |-> <<>>, step |-> "offset",
               n |-> 0, running |-> TRUE]
Gone == [Idle(0) EXCEPT !.st = "off"]

TelegramInit ==
  /\ rx = [r \in Receivers |-> Gone] /\ pollLock = NoOne
  /\ arrived = 0 /\ kept = 1 /\ stored = 0
  /\ processed = {} /\ rows = <<>> /\ sentKeys = {}
  /\ answers = [m \in Messages |-> 0]
  /\ shaky = FALSE /\ troubles = 0

Trouble == troubles < MaxTroubles /\ troubles' = troubles + 1
Fine == UNCHANGED <<shaky, troubles>>
Shaky == Trouble /\ shaky' = TRUE

Unlocked(r) == IF pollLock = r THEN NoOne ELSE pollLock

-----------------------------------------------------------------------------
(* The receiver's life.                                                    *)

(* __init__: the offset is read once; unreadable, it is 0.                 *)
Build(r) ==
  /\ rx[r].st = "off"
  /\ \/ rx' = [rx EXCEPT ![r] = [Idle(stored) EXCEPT !.st = "built"]] /\ Fine
     \/ rx' = [rx EXCEPT ![r] = [Idle(0) EXCEPT !.st = "built"]] /\ Shaky
  /\ UNCHANGED <<pollLock, serverVars, tableVars, answers>>

(* start: without the lock this process receives nothing.                  *)
StartReceiver(r) ==
  /\ rx[r].st = "built"
  /\ IF pollLock = NoOne
     THEN pollLock' = r /\ rx' = [rx EXCEPT ![r].st = "idle"]
     ELSE rx' = [rx EXCEPT ![r] = Gone] /\ UNCHANGED pollLock
  /\ Fine /\ UNCHANGED <<serverVars, tableVars, answers>>

(* stop: after two seconds the lock goes, whether or not the poll under    *)
(* way (up to poll_timeout + 5 seconds) has come back.                     *)
StopReceiver(r) ==
  /\ rx[r].st \in {"idle", "asking", "handling"} /\ rx[r].running
  /\ IF rx[r].st = "idle"
     THEN rx' = [rx EXCEPT ![r] = Gone] /\ Fine
     ELSE rx' = [rx EXCEPT ![r].running = FALSE] /\ Shaky
  /\ pollLock' = Unlocked(r)
  /\ UNCHANGED <<serverVars, tableVars, answers>>

LoopEnds(r) ==
  /\ rx[r].st = "idle" /\ ~rx[r].running
  /\ rx' = [rx EXCEPT ![r] = Gone]
  /\ Fine /\ UNCHANGED <<pollLock, serverVars, tableVars, answers>>

CrashReceiver(r) ==
  /\ rx[r].st # "off" /\ Trouble
  /\ rx' = [rx EXCEPT ![r] = Gone]
  /\ pollLock' = Unlocked(r)
  /\ UNCHANGED <<serverVars, tableVars, answers, shaky>>

-----------------------------------------------------------------------------
(* _poll_once.                                                             *)

Arrive ==
  /\ arrived < Len(Updates) /\ arrived' = arrived + 1
  /\ Fine /\ UNCHANGED <<rx, pollLock, kept, tableVars, answers>>

(* getUpdates(offset = last + 1): the server forgets what is before it.    *)
Poll(r) ==
  /\ rx[r].st = "idle" /\ rx[r].running
  /\ rx' = [rx EXCEPT ![r].st = "asking"]
  /\ kept' = IF rx[r].last + 1 > kept THEN rx[r].last + 1 ELSE kept
  /\ Fine /\ UNCHANGED <<pollLock, arrived, tableVars, answers>>

PollAnswered(r) ==
  /\ rx[r].st = "asking"
  /\ LET new == [i \in 1 .. (arrived - kept + 1) |-> kept + i - 1]
     IN  rx' = [rx EXCEPT ![r].st = IF new = <<>> THEN "idle" ELSE "handling",
                          ![r].batch = new, ![r].step = "offset"]
  /\ Fine /\ UNCHANGED <<pollLock, serverVars, tableVars, answers>>

(* Timeout, HTTP error, or 409 because another receiver polls too.         *)
PollFails(r) ==
  /\ rx[r].st = "asking"
  /\ rx' = [rx EXCEPT ![r].st = "idle"]
  /\ Fine /\ UNCHANGED <<pollLock, serverVars, tableVars, answers>>

-----------------------------------------------------------------------------
(* _handle_update, one access to the database or to Telegram at a time.    *)

At(r, step) == rx[r].st = "handling" /\ rx[r].step = step
Update(r) == Head(rx[r].batch)
Message(r) == Updates[Update(r)]

GoTo(r, step) == [rx EXCEPT ![r].step = step]
(* The update is done with; after the last one the loop polls again.       *)
NextUpdate(r) ==
  [rx EXCEPT ![r].batch = Tail(@), ![r].step = "offset", ![r].n = 0,
             ![r].st = IF Len(rx[r].batch) = 1 THEN "idle" ELSE "handling"]

(* The offset moves on before anything is done about the message.          *)
SaveOffset(r) ==
  /\ At(r, "offset")
  /\ LET u == Update(r)
         done == [(IF KindOf[Message(r)] = "other" THEN NextUpdate(r) ELSE GoTo(r, "seen"))
                    EXCEPT ![r].last = IF u > @ THEN u ELSE @]
     IN  /\ rx' = done
         /\ \/ stored' = (IF u > rx[r].last THEN u ELSE stored) /\ Fine
            \/ u > rx[r].last /\ UNCHANGED stored /\ Shaky
  /\ UNCHANGED <<pollLock, serverVars, processed, rows, sentKeys, answers>>

(* Mutant of Known: a message is known by its update, so that an edit of it *)
(* is answered again.                                                      *)
KnownByUpdate(r) == FALSE
Known(r) == Message(r) \in processed

CheckProcessed(r) ==
  /\ At(r, "seen")
  /\ \/ rx' = (IF Known(r) THEN NextUpdate(r) ELSE GoTo(r, "note")) /\ Fine
     \/ Known(r) /\ rx' = GoTo(r, "note") /\ Shaky
  /\ UNCHANGED <<pollLock, serverVars, tableVars, answers>>

MarkProcessed(r) ==
  /\ At(r, "note")
  /\ rx' = GoTo(r, IF KindOf[Message(r)] = "feedback" THEN "number" ELSE "check")
  /\ \/ processed' = processed \cup {Message(r)} /\ Fine
     \/ UNCHANGED processed /\ Shaky
  /\ UNCHANGED <<pollLock, serverVars, stored, rows, sentKeys, answers>>

RowCount == Cardinality(DOMAIN rows)

(* get_next_sequence: the count plus one, or 1 when it cannot be read.     *)
NumberFeedback(r) ==
  /\ At(r, "number")
  /\ \/ rx' = [GoTo(r, "save") EXCEPT ![r].n = RowCount + 1] /\ Fine
     \/ rx' = [GoTo(r, "save") EXCEPT ![r].n = 1] /\ Shaky
  /\ UNCHANGED <<pollLock, serverVars, tableVars, answers>>

(* save_feedback (INSERT OR REPLACE); its failure is not looked at.        *)
SaveFeedback(r) ==
  /\ At(r, "save")
  /\ rx' = GoTo(r, "check")
  /\ \/ /\ rows' = [n \in DOMAIN rows \cup {rx[r].n} |->
                     IF n = rx[r].n THEN Message(r) ELSE rows[n]]
        /\ Fine
     \/ UNCHANGED rows /\ Shaky
  /\ UNCHANGED <<pollLock, serverVars, stored, processed, sentKeys, answers>>

Key(r) == IF KindOf[Message(r)] = "feedback" THEN <<"FB", rx[r].n>> ELSE <<"RE", Message(r)>>

(* send_message: is the key sent; post; remember the key.                  *)
CheckSent(r) ==
  /\ At(r, "check")
  /\ \/ rx' = (IF Key(r) \in sentKeys THEN NextUpdate(r) ELSE GoTo(r, "post")) /\ Fine
     \/ Key(r) \in sentKeys /\ rx' = GoTo(r, "post") /\ Shaky
  /\ UNCHANGED <<pollLock, serverVars, tableVars, answers>>

Post(r) ==
  /\ At(r, "post")
  /\ \E delivered, told \in BOOLEAN :
       /\ told => delivered
       /\ answers' = IF delivered THEN [answers EXCEPT ![Message(r)] = @ + 1] ELSE answers
       /\ rx' = IF told THEN GoTo(r, "mark") ELSE NextUpdate(r)
  /\ Fine /\ UNCHANGED <<pollLock, serverVars, tableVars>>

MarkSent(r) ==
  /\ At(r, "mark")
  /\ rx' = NextUpdate(r)
  /\ \/ sentKeys' = sentKeys \cup {Key(r)} /\ Fine
     \/ UNCHANGED sentKeys /\ Shaky
  /\ UNCHANGED <<pollLock, serverVars, stored, processed, rows, answers>>

(* An error while the answer is made ends the batch: its rest is asked for *)
(* again, this message is not.                                             *)
HandlingRaises(r) ==
  /\ At(r, "check")
  /\ rx' = [rx EXCEPT ![r].st = "idle", ![r].batch = <<>>, ![r].step = "offset", ![r].n = 0]
  /\ Fine /\ UNCHANGED <<pollLock, serverVars, tableVars, answers>>

TelegramNext ==
  \/ Arrive
  \/ \E r \in Receivers :
       \/ Build(r) \/ StartReceiver(r) \/ StopReceiver(r) \/ LoopEnds(r) \/ CrashReceiver(r)
       \/ Poll(r) \/ PollAnswered(r) \/ PollFails(r)
       \/ SaveOffset(r) \/ CheckProcessed(r) \/ MarkProcessed(r)
       \/ NumberFeedback(r) \/ SaveFeedback(r)
       \/ CheckSent(r) \/ Post(r) \/ MarkSent(r) \/ HandlingRaises(r)

-----------------------------------------------------------------------------
TelegramTypeOK ==
  /\ \A r \in Receivers :
       /\ rx[r].st \in {"off", "built", "idle", "asking", "handling"}
       /\ rx[r].last \in 0 .. arrived
       /\ (rx[r].st = "handling") = (rx[r].batch # <<>>)
       /\ rx[r].n \in Nat
  /\ pollLock \in Receivers \cup {NoOne}
  /\ kept \in 1 .. arrived + 1 /\ stored \in 0 .. arrived
  /\ rows \in [DOMAIN rows -> Messages] /\ DOMAIN rows \subseteq Nat \ {0}
  /\ shaky \in BOOLEAN /\ troubles \in 0 .. MaxTroubles

(* Whatever process dies at whatever point, no message is answered twice:  *)
(* only a failing database, or a stopped receiver whose poll is still out, *)
(* can lead to that (telegram_receiver.py _handle_update, its offset and   *)
(* its table of messages).                                                 *)
AnsweredOnce == ~shaky => \A m \in Messages : answers[m] <= 1

(* A feedback the user was told is saved is in the table under its number, *)
(* and no other has taken its place (get_next_sequence, save_feedback).    *)
FeedbackKept ==
  ~shaky => \A m \in Messages :
              KindOf[m] = "feedback" /\ answers[m] > 0 => \E n \in DOMAIN rows : rows[n] = m
=============================================================================
