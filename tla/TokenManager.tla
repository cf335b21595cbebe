---------------------------- MODULE TokenManager ----------------------------
(***************************************************************************)
(* src/core/token_manager.py: how the threads of several processes share   *)
(* one access token.  A process keeps the token in memory; nhplug writes   *)
(* every issued token to a file all processes read.  Inside a process a    *)
(* thread lock merges refreshes, between processes a lock file does, which *)
(* a waiter may find stale or may give up waiting for.                     *)
(*                                                                         *)
(* Time is kept as four levels of remaining life per token and one flag    *)
(* per process for "refreshed less than five seconds ago"; the broker may  *)
(* revoke a token before it expires.                                       *)
(***************************************************************************)
EXTENDS Naturals, FiniteSets

CONSTANTS Threads,      \* threads that ask for the token
          Procs,        \* processes
          HostOf,       \* the process a thread runs in
          MaxIssues,    \* bound: tokens ever issued
          MaxWindows,   \* bound: five-second windows that elapse per process
          MaxCalls,     \* bound: calls of get_token
          MaxCrashes    \* bound: process crashes

NoToken == 0
NoOne == "none"

ASSUME HostAssumption == /\ HostOf \in [Threads -> Procs]
                         /\ NoOne \notin Threads
                         /\ MaxIssues \in Nat \ {0}
                         /\ MaxCalls \in Nat

Tokens == 1 .. MaxIssues

VARIABLES
  memory,      \* process -> access_token (NoToken: None, expires_at 0)
  disk,        \* the token in nhplug's cache file
  ttl,         \* token -> remaining life: "day", "soon" or "out"
  revoked,     \* the token the broker refuses although it has not expired
  refusals,    \* threads whose call the broker is about to refuse
  recent,      \* process -> refreshed less than 5 s ago
  threadLock,  \* process -> the thread that holds _thread_lock
  lockFile,    \* who created token_refresh.lock
  stale,       \* the lock file is older than stale_sec
  pc,          \* thread -> where it is in get_token
  force,       \* thread -> the argument, as the call has raised it
  issues,      \* process -> tokens it had issued
  windows,     \* process -> five-second windows that have elapsed
  calls,       \* calls made so far
  crashes,     \* crashes so far
  excused      \* a wait timed out or a stale file was taken away

tokenVars == <<memory, disk, ttl, revoked, refusals, recent, threadLock, lockFile, stale,
               pc, force, issues, windows, calls, crashes, excused>>

Host(t) == HostOf[t]

(* tok and exp > now + 60 *)
Usable(k) == k # NoToken /\ ttl[k] # "out"

Steps == {"idle", "fast", "thread", "file", "reclaim", "load", "refresh",
          "leave"}

TokenTypeOK ==
  /\ memory \in [Procs -> Tokens \cup {NoToken}]
  /\ disk \in Tokens \cup {NoToken}
  /\ ttl \in [Tokens -> {"day", "soon", "out"}]
  /\ revoked \in Tokens \cup {NoToken}
  /\ refusals \subseteq Threads
  /\ recent \in [Procs -> BOOLEAN]
  /\ threadLock \in [Procs -> Threads \cup {NoOne}]
  /\ lockFile \in Threads \cup {NoOne}
  /\ stale \in BOOLEAN
  /\ pc \in [Threads -> Steps]
  /\ force \in [Threads -> BOOLEAN]
  /\ issues \in [Procs -> 0 .. MaxIssues]
  /\ calls \in 0 .. MaxCalls

(* __init__ loads the file an earlier run may have left. *)
TokenInit ==
  /\ disk \in {NoToken, 1}
  /\ memory = [p \in Procs |-> disk]
  /\ ttl = [k \in Tokens |-> "day"]
  /\ revoked = NoToken
  /\ refusals = {}
  /\ recent = [p \in Procs |-> FALSE]
  /\ threadLock = [p \in Procs |-> NoOne]
  /\ lockFile = NoOne
  /\ stale = FALSE
  /\ pc = [t \in Threads |-> "idle"]
  /\ force = [t \in Threads |-> FALSE]
  /\ issues = [p \in Procs |-> 0]
  /\ windows = [p \in Procs |-> 0]
  /\ calls = 0
  /\ crashes = 0
  /\ excused = FALSE

(***************************************************************************)
(* The steps of get_token.  Go moves a thread; Return ends its call.       *)
(***************************************************************************)
Go(t, step) == pc' = [pc EXCEPT ![t] = step]
Enter(t) == /\ calls < MaxCalls /\ calls' = calls + 1
            /\ pc[t] = "idle" /\ Go(t, "fast")
Return(t) == Go(t, "idle") /\ force' = [force EXCEPT ![t] = FALSE]

(* _load_from_disk_cache: a usable token of the file becomes the memory's. *)
Loaded(p) == IF Usable(disk) THEN [memory EXCEPT ![p] = disk] ELSE memory

(* is_valid: the memory's token, else the file's. *)
Valid(p) == Usable(memory[p]) \/ Usable(disk)
AfterIsValid(p) == IF Usable(memory[p]) THEN memory ELSE Loaded(p)

(* A refresh that has just been made answers forced calls too. *)
SharedUnforced(t) == ~force[t]
Shared(t) == ~force[t] \/ recent[Host(t)]

(* The request: five minutes before expiry it turns into a forced one. *)
AskToken(t) ==
  /\ Enter(t)
  /\ LET mine == memory[Host(t)] IN
       force' = [force EXCEPT ![t] =
                   mine # NoToken /\ ttl[mine] # "day"]
  /\ UNCHANGED <<memory, disk, ttl, revoked, refusals, recent, threadLock, lockFile,
                 stale, issues, windows, crashes, excused>>

(* The watchdog thread: reload the file when memory has nothing valid, and
   force a refresh of a token that will not last. *)
Watch(t) ==
  /\ Enter(t)
  /\ LET p == Host(t)
         mine == AfterIsValid(p)[p] IN
       /\ mine # NoToken /\ ttl[mine] # "day"
       /\ memory' = AfterIsValid(p)
  /\ force' = [force EXCEPT ![t] = TRUE]
  /\ UNCHANGED <<disk, ttl, revoked, refusals, recent, threadLock, lockFile, stale,
                 issues, windows, crashes, excused>>

(* The broker refused a call made with the revoked token: mark_invalid wipes
   whatever the process holds by now, and the call is repeated by force. *)
Refused(t) ==
  /\ Enter(t) /\ t \in refusals
  /\ refusals' = refusals \ {t}
  /\ memory' = [memory EXCEPT ![Host(t)] = NoToken]
  /\ force' = [force EXCEPT ![t] = TRUE]
  /\ UNCHANGED <<disk, ttl, revoked, recent, threadLock, lockFile, stale,
                 issues, windows, crashes, excused>>

FastPath(t) ==
  /\ pc[t] = "fast"
  /\ IF ~force[t] /\ Valid(Host(t))
       THEN /\ memory' = AfterIsValid(Host(t))
            /\ Return(t)
       ELSE /\ memory' = IF force[t] THEN memory ELSE AfterIsValid(Host(t))
            /\ Go(t, "thread")
            /\ UNCHANGED force
  /\ UNCHANGED <<disk, ttl, revoked, refusals, recent, threadLock, lockFile, stale,
                 issues, windows, calls, crashes, excused>>

(* Under the thread lock: an earlier thread may have refreshed meanwhile. *)
TakeThreadLock(t) ==
  /\ pc[t] = "thread" /\ threadLock[Host(t)] = NoOne
  /\ memory' = AfterIsValid(Host(t))
  /\ IF Valid(Host(t)) /\ Shared(t)
       THEN Return(t) /\ UNCHANGED threadLock
       ELSE /\ Go(t, "file") /\ UNCHANGED force
            /\ threadLock' = [threadLock EXCEPT ![Host(t)] = t]
  /\ UNCHANGED <<disk, ttl, revoked, refusals, recent, lockFile, stale, issues,
                 windows, calls, crashes, excused>>

(* CrossProcessLock.acquire: O_EXCL creates the file ... *)
MayCreate == lockFile = NoOne
CreateLockFile(t) ==
  /\ pc[t] = "file" /\ MayCreate
  /\ lockFile' = t /\ stale' = FALSE
  /\ Go(t, "load")
  /\ UNCHANGED <<memory, disk, ttl, revoked, refusals, recent, threadLock, force,
                 issues, windows, calls, crashes, excused>>

(* ... a waiter that reads an old mtime ... *)
SeeStaleFile(t) ==
  /\ pc[t] = "file" /\ lockFile # NoOne /\ stale
  /\ Go(t, "reclaim")
  /\ UNCHANGED <<memory, disk, ttl, revoked, refusals, recent, threadLock, lockFile,
                 stale, force, issues, windows, calls, crashes, excused>>

(* ... unlinks the file it finds then, and tries again ... *)
UnlinkStaleFile(t) ==
  /\ pc[t] = "reclaim"
  /\ lockFile' = NoOne /\ stale' = FALSE /\ excused' = TRUE
  /\ Go(t, "file")
  /\ UNCHANGED <<memory, disk, ttl, revoked, refusals, recent, threadLock, force,
                 issues, windows, calls, crashes>>

(* ... and after ten seconds goes on without the lock. *)
GiveUpWaiting(t) ==
  /\ pc[t] = "file" /\ lockFile # NoOne
  /\ excused' = TRUE
  /\ Go(t, "load")
  /\ UNCHANGED <<memory, disk, ttl, revoked, refusals, recent, threadLock, lockFile,
                 stale, force, issues, windows, calls, crashes>>

(* Under the lock: another process may have refreshed. *)
Reload(t) ==
  /\ pc[t] = "load"
  /\ memory' = Loaded(Host(t))
  /\ IF Usable(disk) /\ Shared(t)
       THEN /\ Go(t, "leave")
       ELSE /\ Go(t, "refresh")
  /\ UNCHANGED <<disk, ttl, revoked, refusals, recent, threadLock, lockFile, stale, force,
                 issues, windows, calls, crashes, excused>>

(* nhplug.get_token(force=True): a new token, kept in the file. *)
NextToken == disk + 1

IssueToken(t) ==
  /\ pc[t] = "refresh"
  /\ NextToken \in Tokens
  /\ LET p == Host(t) IN
       /\ memory' = [memory EXCEPT ![p] = NextToken]
       /\ disk' = NextToken
       /\ recent' = [recent EXCEPT ![p] = TRUE]
       /\ issues' = [issues EXCEPT ![p] = @ + 1]
  /\ Go(t, "leave")
  /\ UNCHANGED <<ttl, revoked, refusals, threadLock, lockFile, stale, force, windows,
                 calls, crashes, excused>>

(* The endpoint refuses: the exception passes through both locks. *)
IssueFails(t) ==
  /\ pc[t] = "refresh"
  /\ Go(t, "leave")
  /\ UNCHANGED <<memory, disk, ttl, revoked, refusals, recent, threadLock, lockFile,
                 stale, force, issues, windows, calls, crashes, excused>>

(* __exit__ unlinks the lock file, whoever made it, then the thread lock. *)
Leave(t) ==
  /\ pc[t] = "leave"
  /\ lockFile' = NoOne /\ stale' = FALSE
  /\ threadLock' = [threadLock EXCEPT ![Host(t)] = NoOne]
  /\ Return(t)
  /\ UNCHANGED <<memory, disk, ttl, revoked, refusals, recent, issues, windows,
                 calls, crashes, excused>>

(***************************************************************************)
(* The world: time, the broker and crashes.                                *)
(***************************************************************************)
Older(level) == IF level = "day" THEN "soon" ELSE "out"

(* A step of a token's life takes minutes or hours. *)
TokenAges ==
  /\ \A p \in Procs : ~recent[p]
  /\ disk # NoToken /\ ttl[disk] # "out"
  /\ ttl' = [k \in Tokens |-> IF k <= disk THEN Older(ttl[k]) ELSE ttl[k]]
  /\ UNCHANGED <<memory, disk, revoked, refusals, recent, threadLock, lockFile, stale, pc,
                 force, issues, windows, calls, crashes, excused>>

Revoke(k) ==
  /\ revoked = NoToken /\ k = disk
  /\ revoked' = k
  /\ refusals' = {t \in Threads : memory[Host(t)] = k}
  /\ UNCHANGED <<memory, disk, ttl, recent, threadLock, lockFile, stale, pc,
                 force, issues, windows, calls, crashes, excused>>

FiveSecondsPass(p) ==
  /\ recent[p] /\ windows[p] < MaxWindows
  /\ recent' = [recent EXCEPT ![p] = FALSE]
  /\ windows' = [windows EXCEPT ![p] = @ + 1]
  /\ UNCHANGED <<memory, disk, ttl, revoked, refusals, threadLock, lockFile, stale, pc,
                 force, issues, calls, crashes, excused>>

LockFileAges ==
  /\ lockFile # NoOne /\ ~stale
  /\ stale' = TRUE
  /\ UNCHANGED <<memory, disk, ttl, revoked, refusals, recent, threadLock, lockFile, pc,
                 force, issues, windows, calls, crashes, excused>>

(* A process dies in a call and starts again: its lock file stays, its memory
   is what the cache file holds. *)
CrashProcess(p) ==
  /\ crashes < MaxCrashes
  /\ \E t \in Threads : Host(t) = p /\ pc[t] # "idle"
  /\ crashes' = crashes + 1
  /\ LET dead == {t \in Threads : Host(t) = p} IN
       /\ pc' = [t \in Threads |-> IF t \in dead THEN "idle" ELSE pc[t]]
       /\ force' = [t \in Threads |-> t \notin dead /\ force[t]]
       /\ refusals' = refusals \ dead
  /\ threadLock' = [threadLock EXCEPT ![p] = NoOne]
  /\ memory' = [memory EXCEPT ![p] = IF Usable(disk) THEN disk ELSE NoToken]
  /\ recent' = [recent EXCEPT ![p] = FALSE]
  /\ windows' = [windows EXCEPT ![p] = @ + (IF recent[p] THEN 1 ELSE 0)]
  /\ UNCHANGED <<disk, ttl, revoked, lockFile, stale, issues, calls, excused>>

TokenWork(t) ==
  \/ FastPath(t) \/ TakeThreadLock(t)
  \/ CreateLockFile(t) \/ SeeStaleFile(t) \/ UnlinkStaleFile(t) \/ GiveUpWaiting(t)
  \/ Reload(t) \/ IssueToken(t) \/ IssueFails(t) \/ Leave(t)

TokenNext ==
  \/ \E t \in Threads : TokenWork(t) \/ AskToken(t) \/ Watch(t) \/ Refused(t)
  \/ TokenAges \/ LockFileAges
  \/ \E k \in Tokens : Revoke(k)
  \/ \E p \in Procs : FiveSecondsPass(p) \/ CrashProcess(p)

(* A process issues at most one token per five seconds, however many of its
   threads meet the same refusal (token_manager.py:218-229). *)
RefreshRateBounded == \A p \in Procs : issues[p] <= windows[p] + 1

(* Two threads are between the lock file's creation and its removal at once
   only after a wait timed out or a file was reclaimed as stale
   (token_manager.py:33-69): release unlinks without asking whose it is. *)
Inside == {t \in Threads : pc[t] \in {"load", "refresh", "leave"}}
OverlapIsExcused == Cardinality(Inside) > 1 => excused
=============================================================================
