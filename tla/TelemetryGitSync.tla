------------------------- MODULE TelemetryGitSync -------------------------
(***************************************************************************)
(* The upload of the telemetry directory (execution/telemetry_git_syncer). *)
(* Traders of one machine (a live and a mock process) write into the same  *)
(* directory of the same git repository; each has a thread that commits    *)
(* and pushes it, and commits once more when it shuts down.  A lock file   *)
(* keeps two of them from working in the repository at once.               *)
(* Time passes in steps of 30 seconds, the time limit of a git command.    *)
(***************************************************************************)
EXTENDS Naturals, FiniteSets

CONSTANTS Traders,      \* processes that share the directory
          MaxWritten,   \* bound on what the traders write, in batches
          MaxEnds       \* bound on crashes and shutdowns

ASSUME GitAssumption == MaxWritten \in Nat /\ MaxEnds \in Nat

VARIABLES worker,       \* of each trader, of its threads "loop" and "main": what it does
          spent,        \* of each thread: time limits used up in its present step
          lockAge,      \* age of the lock file, NoLock when there is none
          up,           \* of each trader: "running" (_running), "stopping", "down"
          written, staged, committed, pushed, \* batches of lines, counted
          gitStatus,    \* of each trader: git_sync_status
          excused,      \* a lock file was taken away from somebody
          lingered,     \* a flush took longer than one time limit
          gitEnds       \* crashes and shutdowns so far
gitVars == <<worker, spent, lockAge, up, written, staged, committed, pushed,
             gitStatus, excused, lingered, gitEnds>>

Threads == Traders \X {"loop", "main"}
NoLock == 99            \* larger than every age
StaleAge == 6           \* 180 seconds

(* Steps of a synchronisation that run in the repository.                  *)
InGit == {t \in Threads : worker[t] \in {"add", "diff", "reset", "commit", "push"}}
Holding == {t \in Threads : worker[t] \notin {"idle", "judge"}}

GitInit ==
  /\ worker = [t \in Threads |-> "idle"] /\ spent = [t \in Threads |-> 0]
  /\ lockAge = NoLock
  /\ up = [p \in Traders |-> "running"]
  /\ written = 0 /\ staged = 0 /\ committed = 0 /\ pushed = 0
  /\ gitStatus = [p \in Traders |-> "OK"]
  /\ excused = FALSE /\ lingered = FALSE /\ gitEnds = 0

(* The exporter writes lines.                                              *)
WriteLines(p) ==
  /\ up[p] = "running" /\ written < MaxWritten
  /\ written' = written + 1
  /\ UNCHANGED <<worker, spent, lockAge, up, staged, committed, pushed, gitStatus,
                 excused, lingered, gitEnds>>

(* _acquire_file_lock: a lock file judged older than 180 seconds is        *)
(* removed, whatever file is there by then, and a new one is made.         *)
Stale == lockAge # NoLock /\ lockAge > StaleAge

Lock(t) ==
  CASE lockAge = NoLock -> /\ lockAge' = 0 /\ worker' = [worker EXCEPT ![t] = "flush"]
    [] Stale            -> worker' = [worker EXCEPT ![t] = "judge"] /\ UNCHANGED lockAge
    [] OTHER            -> UNCHANGED <<lockAge, worker>>

(* _run_loop: a critical event wakes it or the interval has passed, which  *)
(* may be at any time.  When the lock is held it leaves the work out.      *)
LoopSyncs(p) ==
  /\ up[p] = "running" /\ worker[<<p, "loop">>] = "idle"
  /\ Lock(<<p, "loop">>) /\ UNCHANGED excused
  /\ spent' = [spent EXCEPT ![<<p, "loop">>] = 0]
  /\ UNCHANGED <<up, written, staged, committed, pushed, gitStatus, lingered, gitEnds>>

(* shutdown: sync_now on the main thread, then stop.                       *)
ShutdownSyncs(p) ==
  /\ up[p] = "running" /\ gitEnds < MaxEnds
  /\ gitEnds' = gitEnds + 1
  /\ up' = [up EXCEPT ![p] = "stopping"]
  /\ Lock(<<p, "main">>) /\ UNCHANGED excused
  /\ spent' = [spent EXCEPT ![<<p, "main">>] = 0]
  /\ UNCHANGED <<written, staged, committed, pushed, gitStatus, lingered>>

(* Between its removal and its making another may have made one.           *)
RemoveStale(t) ==
  /\ worker[t] = "judge"
  /\ \/ /\ worker' = [worker EXCEPT ![t] = "flush"] /\ lockAge' = 0
        /\ excused' = (excused \/ (lockAge # NoLock /\ Holding # {}))
     \/ /\ lockAge # NoLock /\ ~Stale
        /\ worker' = [worker EXCEPT ![t] = "idle"] /\ UNCHANGED <<lockAge, excused>>
  /\ UNCHANGED <<spent, up, written, staged, committed, pushed, gitStatus, lingered, gitEnds>>

Enter(t, step) ==
  /\ worker' = [worker EXCEPT ![t] = step]
  /\ spent' = [spent EXCEPT ![t] = 0]

(* _release_file_lock removes the file whoever made it.                    *)
Leave(t) ==
  /\ Enter(t, "idle")
  /\ lockAge' = NoLock
  /\ excused' = (excused \/ (lockAge # NoLock /\ Holding # {t}))

Told(t, status) == gitStatus' = [gitStatus EXCEPT ![t[1]] = status]

(* flush: waits for the exporter's writer, without a limit, and takes what *)
(* is put after that beside it (GitFlushes in TelemetryExporter).          *)
Flush(t) ==
  /\ worker[t] = "flush" /\ Enter(t, "add")
  /\ UNCHANGED <<lockAge, up, written, staged, committed, pushed, gitStatus,
                 excused, lingered, gitEnds>>

Add(t) ==
  /\ worker[t] = "add"
  /\ \/ /\ staged' = written /\ Enter(t, "diff")
        /\ UNCHANGED <<lockAge, gitStatus, excused>>
     \/ Leave(t) /\ Told(t, "DEGRADED") /\ UNCHANGED staged
  /\ UNCHANGED <<up, written, committed, pushed, lingered, gitEnds>>

(* The staged files, and whether they may be pushed.  A diff that fails    *)
(* prints nothing, which counts as nothing to do.                          *)
Diff(t) ==
  /\ worker[t] = "diff"
  /\ \/ /\ staged > committed /\ (Enter(t, "commit") \/ Enter(t, "reset"))
        /\ UNCHANGED <<lockAge, gitStatus, excused>>
     \/ Leave(t) /\ Told(t, "OK")
  /\ UNCHANGED <<up, written, staged, committed, pushed, lingered, gitEnds>>

(* Refused files are unstaged, unless that fails too.                      *)
Reset(t) ==
  /\ worker[t] = "reset" /\ Leave(t) /\ Told(t, "DEGRADED")
  /\ staged' \in {staged, committed}
  /\ UNCHANGED <<up, written, committed, pushed, lingered, gitEnds>>

(* A commit that fails is followed by the push all the same, unless git    *)
(* says there was nothing to commit.                                       *)
Commit(t) ==
  /\ worker[t] = "commit"
  /\ \/ Enter(t, "push") /\ committed' \in {committed, staged} /\ UNCHANGED <<lockAge, gitStatus, excused>>
     \/ staged = committed /\ Leave(t) /\ Told(t, "OK") /\ UNCHANGED committed
  /\ UNCHANGED <<up, written, staged, pushed, lingered, gitEnds>>

Push(t) ==
  /\ worker[t] = "push" /\ Leave(t)
  /\ \/ pushed' = committed /\ Told(t, "OK")
     \/ UNCHANGED pushed /\ Told(t, "DEGRADED")
  /\ UNCHANGED <<up, written, staged, committed, lingered, gitEnds>>

(* stop: waits five seconds for the thread, then removes the lock file,    *)
(* even one of the other trader.  The process ends with both threads.      *)
Stop(p) ==
  /\ up[p] = "stopping" /\ worker[<<p, "main">>] = "idle"
  /\ up' = [up EXCEPT ![p] = "down"]
  /\ worker' = [worker EXCEPT ![<<p, "loop">>] = "idle"]
  /\ spent' = [spent EXCEPT ![<<p, "loop">>] = 0]
  /\ lockAge' = NoLock
  /\ excused' = (excused \/ Holding \ {<<p, "loop">>} # {})
  /\ UNCHANGED <<written, staged, committed, pushed, gitStatus, lingered, gitEnds>>

(* A process killed leaves its lock file behind.                           *)
Crash(p) ==
  /\ up[p] # "down" /\ gitEnds < MaxEnds
  /\ gitEnds' = gitEnds + 1
  /\ up' = [up EXCEPT ![p] = "down"]
  /\ worker' = [t \in Threads |-> IF t[1] = p THEN "idle" ELSE worker[t]]
  /\ spent' = [t \in Threads |-> IF t[1] = p THEN 0 ELSE spent[t]]
  /\ UNCHANGED <<lockAge, written, staged, committed, pushed, gitStatus, excused, lingered>>

Restart(p) ==
  /\ up[p] = "down"
  /\ up' = [up EXCEPT ![p] = "running"]
  /\ gitStatus' = [gitStatus EXCEPT ![p] = "OK"]
  /\ UNCHANGED <<worker, spent, lockAge, written, staged, committed, pushed,
                 excused, lingered, gitEnds>>

(* _run_git: 30 seconds a command, 60 for a push.                          *)
TimeLimit(step) == IF step = "push" THEN 2 ELSE 1

(* Thirty seconds pass; a git command at its limit has ended before.       *)
HalfMinute ==
  /\ \E t \in Threads : worker[t] # "idle" \/ lockAge # NoLock
  /\ \A t \in InGit : spent[t] < TimeLimit(worker[t])
  /\ spent' = [t \in Threads |-> IF worker[t] \in {"idle", "judge", "flush"} THEN spent[t]
                                 ELSE spent[t] + 1]
  /\ lockAge' = IF lockAge = NoLock THEN NoLock
                ELSE IF Stale THEN lockAge ELSE lockAge + 1
  /\ lingered' = (lingered \/ \E t \in Threads : worker[t] = "flush")
  /\ UNCHANGED <<worker, up, written, staged, committed, pushed, gitStatus,
                 excused, gitEnds>>

GitNext ==
  \/ \E p \in Traders : \/ WriteLines(p) \/ LoopSyncs(p) \/ ShutdownSyncs(p)
                        \/ Stop(p) \/ Crash(p) \/ Restart(p)
  \/ \E t \in Threads : RemoveStale(t) \/ Flush(t) \/ Add(t) \/ Diff(t) \/ Reset(t) \/ Commit(t) \/ Push(t)
  \/ HalfMinute

GitSpec == GitInit /\ [][GitNext]_gitVars

-----------------------------------------------------------------------------
GitTypeOK ==
  /\ worker \in [Threads -> {"idle", "judge", "flush", "add", "diff", "reset", "commit", "push"}]
  /\ lockAge \in 0..StaleAge + 1 \cup {NoLock}
  /\ pushed <= committed /\ committed <= written /\ staged <= written
  /\ gitStatus \in [Traders -> {"OK", "DEGRADED"}]

(* Two synchronisations run git in the repository at the same time only    *)
(* after a lock file was taken from a worker that still ran; and, unless a *)
(* process stopped, that takes a flush that lasted: the limits of the git  *)
(* commands themselves add up to less than the age at which the lock of a  *)
(* live worker counts as stale.                                            *)
GitOverlapIsExcused ==
  /\ Cardinality(InGit) > 1 => excused
  /\ excused => lingered \/ gitEnds > 0

(* The comment "Acquires lock file to avoid concurrent git commits." at    *)
(* telemetry_git_syncer.py:90.                                             *)
OneCommitter == Cardinality(InGit) <= 1
=============================================================================
