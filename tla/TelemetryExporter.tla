------------------------ MODULE TelemetryExporter ------------------------
(***************************************************************************)
(* The live status a trader publishes (execution/live_telemetry_exporter): *)
(* which orders wait at the broker and which positions are held.  It is    *)
(* fed twice, by a snapshot the trading thread takes of one router or      *)
(* position manager, and by events that are worked off a bounded queue     *)
(* some time later: by a writer thread, and beside it by the thread that   *)
(* uploads the telemetry, whose flush empties the queue itself.            *)
(***************************************************************************)
EXTENDS Naturals, Sequences, Functions

CONSTANTS Items,        \* orders and positions: [kind, owner, id], owner: the account
          QueueSize,    \* max_queue_size
          MaxRaises     \* bound on the events the writer fails on

ASSUME ExporterAssumption ==
  /\ \A i \in Items : i.kind \in {"order", "position"}
  /\ QueueSize \in Nat \ {0} /\ MaxRaises \in Nat

VARIABLES truth,        \* of each item: "new", "open" or "ended"
          unsynced,     \* the item just exported whose snapshot is still to be taken
          events,       \* queue
          hand,         \* of each consumer: the event it has taken and not finished
          ahead,        \* who took first when both have one, else "writer"
          draining,     \* the git thread is in the loop of its flush
          unfinished,   \* unfinished_tasks of the queue
          shown,        \* _active_pending_orders and _active_open_positions
          lastSynced,   \* of each kind: whose snapshot came last
          unsure,       \* items that changed without an event that will be counted,
                        \* or of which an older event may be counted last
          raises,       \* events that were not finished
          running,      \* _running
          writer,       \* "alive" or "ended"
          closing       \* the trading thread: "trading", "flushing", "stopping", "down"
queueVars == <<events, hand, ahead, draining, unfinished, raises>>
exporterVars == <<truth, unsynced, queueVars, shown, lastSynced, unsure, running, writer,
                  closing>>

Nothing == [kind |-> "nothing"]
Consumers == {"writer", "git"}
Other(c) == IF c = "writer" THEN "git" ELSE "writer"

ExporterInit ==
  /\ truth = [i \in Items |-> "new"]
  /\ unsynced = Nothing /\ hand = [c \in Consumers |-> Nothing] /\ ahead = "writer"
  /\ events = <<>> /\ unfinished = 0 /\ draining = FALSE
  /\ shown = {} /\ unsure = {} /\ raises = 0
  /\ lastSynced = [k \in {"order", "position"} |-> "no one"]
  /\ running = TRUE /\ writer = "alive" /\ closing = "trading"

(* What may be told of an order or of a position.  The event of a full     *)
(* execution carries no broker state, only is_full_fill.                   *)
OrderEvents(i) ==
  {[item |-> i, state |-> "SENT", full |-> FALSE],
   [item |-> i, state |-> "NONE", full |-> FALSE],
   [item |-> i, state |-> "NONE", full |-> TRUE],
   [item |-> i, state |-> "CANCELLED", full |-> FALSE]}

PositionEvents(i) ==
  {[item |-> i, state |-> st, full |-> FALSE] : st \in {"OPEN", "PARTIAL_EXITED", "CLOSED"}}

Terminal(e) == e.state \in {"CANCELLED", "CLOSED"} \/ e.full

(* An event of an item that has not begun begins it.                       *)
Fits(e) == CASE truth[e.item] = "new"   -> e.state \in {"SENT", "OPEN"}
             [] truth[e.item] = "open"  -> e.state # "OPEN"
             [] truth[e.item] = "ended" -> FALSE

(* emit_event: never waits; a full queue drops the event.                  *)
Put(e) == IF Len(events) < QueueSize
          THEN events' = Append(events, e) /\ unfinished' = unfinished + 1 /\ UNCHANGED unsure
          ELSE unsure' = unsure \cup {e.item} /\ UNCHANGED <<events, unfinished>>

Export(i) ==
  /\ closing = "trading" /\ unsynced = Nothing
  /\ \E e \in IF i.kind = "order" THEN OrderEvents(i) ELSE PositionEvents(i) :
       /\ Fits(e) /\ Put(e)
       /\ truth' = [truth EXCEPT ![i] = IF Terminal(e) THEN "ended" ELSE "open"]
  /\ unsynced' = i
  /\ UNCHANGED <<hand, ahead, draining, shown, lastSynced, raises, running, writer, closing>>

(* An event of the item is still to be counted.                            *)
Waiting(i) == \E e \in Range(events) \cup (Range(hand) \ {Nothing}) : e.item = i

(* Changes nobody exports: an order reconcile_orders finds withdrawn, a    *)
(* position adopted from the broker, closed by the watchdog, by an exit    *)
(* time limit or by the reconciliation.                                    *)
ChangeUntold(i) ==
  /\ closing = "trading" /\ unsynced = Nothing
  /\ \/ truth[i] = "open" /\ truth' = [truth EXCEPT ![i] = "ended"]
     \/ i.kind = "position" /\ truth[i] = "new" /\ truth' = [truth EXCEPT ![i] = "open"]
  /\ unsure' = unsure \cup {i}
  /\ UNCHANGED <<unsynced, queueVars, shown, lastSynced, running, writer, closing>>

(* The snapshot replaces everything shown of that kind, of every account.  *)
OpenOf(kind, owner) ==
  {i \in Items : i.kind = kind /\ i.owner = owner /\ truth[i] = "open"}

Snapshot(kind, owner) ==
  /\ shown' = {i \in shown : i.kind # kind} \cup OpenOf(kind, owner)
  /\ lastSynced' = [lastSynced EXCEPT ![kind] = owner]
  /\ unsure' = {i \in unsure : i.kind # kind \/ Waiting(i)}

SyncOrders ==
  /\ unsynced.kind = "order"
  /\ Snapshot("order", unsynced.owner)
  /\ unsynced' = Nothing
  /\ UNCHANGED <<truth, queueVars, running, writer, closing>>

SyncPositions ==
  /\ unsynced.kind = "position"
  /\ Snapshot("position", unsynced.owner)
  /\ unsynced' = Nothing
  /\ UNCHANGED <<truth, queueVars, running, writer, closing>>

(* The writer thread, and flush beside it: the queue is taken from without *)
(* _process_lock.                                                          *)
TakeEvent(c) ==
  /\ IF c = "git" THEN draining ELSE writer = "alive"
  /\ hand[c] = Nothing /\ events # <<>>
  /\ hand' = [hand EXCEPT ![c] = Head(events)] /\ events' = Tail(events)
  /\ ahead' = IF hand[Other(c)] = Nothing THEN "writer" ELSE Other(c)
  /\ UNCHANGED <<truth, unsynced, draining, unfinished, shown, lastSynced, unsure, raises,
                 running, writer, closing>>

(* Mutant of Counted: only the broker's own word ends an order.            *)
CountedByState(e) ==
  IF e.state \in {"CANCELLED", "CLOSED"} THEN shown \ {e.item}
  ELSE IF e.state = "PARTIAL_EXITED" THEN shown ELSE shown \cup {e.item}

(* _update_metrics_and_stats                                               *)
Counted(e) ==
  IF Terminal(e) THEN shown \ {e.item}
  ELSE IF e.state = "PARTIAL_EXITED" THEN shown ELSE shown \cup {e.item}

(* An older event of the item is in the other's hand.                      *)
Overtakes(c) == /\ ahead = Other(c) /\ hand[Other(c)] # Nothing
                /\ hand[Other(c)].item = hand[c].item

(* Under _process_lock, whoever comes first.                               *)
ProcessItem(c) ==
  /\ hand[c] # Nothing
  /\ shown' = Counted(hand[c])
  /\ unsure' = IF Overtakes(c) THEN unsure \cup {hand[c].item} ELSE unsure
  /\ unfinished' = unfinished - 1
  /\ hand' = [hand EXCEPT ![c] = Nothing] /\ ahead' = "writer"
  /\ UNCHANGED <<truth, unsynced, events, draining, lastSynced, raises, running, writer,
                 closing>>

(* An exception before or after the registries are updated skips           *)
(* task_done: the queue never becomes finished again.                      *)
ProcessingRaises(c) ==
  /\ hand[c] # Nothing /\ raises < MaxRaises
  /\ raises' = raises + 1
  /\ shown' \in {shown, Counted(hand[c])}
  /\ unsure' = unsure \cup {hand[c].item}
  /\ hand' = [hand EXCEPT ![c] = Nothing] /\ ahead' = "writer"
  /\ UNCHANGED <<truth, unsynced, events, draining, unfinished, lastSynced, running,
                 writer, closing>>

WriterEnds ==
  /\ writer = "alive" /\ hand["writer"] = Nothing /\ events = <<>> /\ ~running
  /\ writer' = "ended"
  /\ UNCHANGED <<truth, unsynced, queueVars, shown, lastSynced, unsure, running, closing>>

(* flush: queue.join() returns when every task is done.  What is put from  *)
(* then on the caller takes too, until it finds the queue empty.           *)
Joined == unfinished = 0

GitFlushes ==
  /\ ~draining /\ closing # "down" /\ Joined
  /\ draining' = TRUE
  /\ UNCHANGED <<truth, unsynced, events, hand, ahead, unfinished, shown, lastSynced, unsure,
                 raises, running, writer, closing>>

DrainEnds ==
  /\ draining /\ hand["git"] = Nothing /\ events = <<>>
  /\ draining' = FALSE
  /\ UNCHANGED <<truth, unsynced, events, hand, ahead, unfinished, shown, lastSynced, unsure,
                 raises, running, writer, closing>>

(* shutdown: a snapshot of the first account, flush, and flush again once  *)
(* the writer has been told to end.                                        *)
Shutdown(owner) ==
  /\ closing = "trading" /\ unsynced = Nothing
  /\ shown' = OpenOf("order", owner) \cup OpenOf("position", owner)
  /\ lastSynced' = [k \in {"order", "position"} |-> owner]
  /\ unsure' = {i \in unsure : Waiting(i)}
  /\ closing' = "flushing"
  /\ UNCHANGED <<truth, unsynced, queueVars, running, writer>>

(* Its flush: nobody exports any more, so once it is joined nothing is     *)
(* left to take.                                                           *)
Flushed ==
  /\ Joined
  /\ \/ closing = "flushing" /\ closing' = "stopping" /\ running' = FALSE
     \/ closing = "stopping" /\ closing' = "down" /\ UNCHANGED running
  /\ UNCHANGED <<truth, unsynced, queueVars, shown, lastSynced, unsure, writer>>

ConsumerStep == \E c \in Consumers : TakeEvent(c) \/ ProcessItem(c) \/ ProcessingRaises(c)
ThreadStep == WriterEnds \/ GitFlushes \/ DrainEnds
TraderStep == SyncOrders \/ SyncPositions \/ Flushed

ExporterNext ==
  \/ \E i \in Items : Export(i) \/ ChangeUntold(i) \/ Shutdown(i.owner)
  \/ ConsumerStep \/ ThreadStep \/ TraderStep

ExporterSpec == ExporterInit /\ [][ExporterNext]_exporterVars

-----------------------------------------------------------------------------
InHand(c) == IF hand[c] = Nothing THEN 0 ELSE 1

ExporterTypeOK ==
  /\ truth \in [Items -> {"new", "open", "ended"}]
  /\ unsynced \in Items \cup {Nothing}
  /\ Len(events) <= QueueSize
  /\ ahead \in Consumers /\ draining \in BOOLEAN /\ DOMAIN hand = Consumers
  /\ unfinished = Len(events) + InHand("writer") + InHand("git") + raises
  /\ shown \subseteq Items /\ unsure \subseteq Items
  /\ running \in BOOLEAN
  /\ writer \in {"alive", "ended"}
  /\ closing \in {"trading", "flushing", "stopping", "down"}

(* Once every event is worked off, what is shown of the account whose      *)
(* snapshot came last is what it really has open, and nothing that ended   *)
(* is shown of any account: an event counted after a newer snapshot does   *)
(* no lasting harm.  Excepted are items whose last change sent no event    *)
(* that is counted, and items one of whose events the writer and the git   *)
(* thread counted out of order, until a snapshot with none of theirs       *)
(* waiting.                                                                *)
Quiet == events = <<>> /\ Range(hand) = {Nothing} /\ unsynced = Nothing

StatusSettles ==
  Quiet => /\ \A i \in shown \ unsure : truth[i] = "open"
           /\ \A i \in Items \ (shown \cup unsure) :
                i.owner = lastSynced[i.kind] => truth[i] # "open"

(* The comment "Active state registries for accurate status reporting" at  *)
(* live_telemetry_exporter.py:81, for all accounts.                        *)
EveryAccountShown ==
  Quiet => \A i \in Items \ (shown \cup unsure) : truth[i] # "open"
=============================================================================
