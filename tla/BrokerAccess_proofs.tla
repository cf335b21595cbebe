------------------------ MODULE BrokerAccess_proofs ------------------------
(***************************************************************************)
(* Proofs about the access to the broker: the token that threads of        *)
(* several processes share, and the gateway's circuits, retries and        *)
(* flights; for any threads, processes, callers, pages and limits.         *)
(***************************************************************************)
EXTENDS MCBrokerAccess, FiniteSetTheorems, TLAPS

-----------------------------------------------------------------------------
(* The token (TokenManager).                                               *)

(* Between taking and giving back its process's thread lock a thread holds *)
(* it.                                                                     *)
Locked == {"file", "reclaim", "load", "refresh", "leave"}
ThreadLockHeld == \A t \in Threads : pc[t] \in Locked => threadLock[Host(t)] = t

(* Tokens not issued yet have their life before them, and the one in the   *)
(* file is usable while any process has just refreshed.                    *)
FileIsFresh ==
  /\ \A k \in Tokens : k > disk => ttl[k] = "day"
  /\ \A p \in Procs : recent[p] => Usable(disk)

(* A thread about to ask for a new token is the first of its process in    *)
(* five seconds.                                                           *)
FirstToRefresh == \A t \in Threads : pc[t] = "refresh" => ~recent[Host(t)]

(* The window of the latest token has not elapsed while it is recent.      *)
IssuesInWindows ==
  \A p \in Procs : issues[p] <= disk /\ issues[p] <= windows[p] + (IF recent[p] THEN 1 ELSE 0)

(* Until a wait times out or a file is reclaimed, who refreshes made the   *)
(* lock file that exists.                                                  *)
LockFileHeld == ~excused => \A t \in Inside : lockFile = t

TokenInv ==
  /\ TokenTypeOK
  /\ windows \in [Procs -> Nat] /\ excused \in BOOLEAN
  /\ ThreadLockHeld
  /\ FileIsFresh
  /\ FirstToRefresh
  /\ IssuesInWindows
  /\ LockFileHeld

LEMMA TokenInitInv == TokenInit => TokenInv
<1> SUFFICES ASSUME TokenInit PROVE TokenInv
  OBVIOUS
<1> USE HostAssumption
<1>1. TokenTypeOK /\ windows \in [Procs -> Nat] /\ excused \in BOOLEAN
  <2>1. disk \in Tokens \cup {NoToken}
    BY DEF TokenInit, Tokens, NoToken
  <2>2. memory \in [Procs -> Tokens \cup {NoToken}] /\ NoToken \in Tokens \cup {NoToken}
    BY <2>1 DEF TokenInit
  <2>3. 0 \in 0 .. MaxIssues /\ 0 \in 0 .. MaxCalls
    OBVIOUS
  <2>4. /\ ttl \in [Tokens -> {"day", "soon", "out"}] /\ recent \in [Procs -> BOOLEAN]
        /\ threadLock \in [Procs -> Threads \cup {NoOne}] /\ pc \in [Threads -> Steps]
        /\ force \in [Threads -> BOOLEAN] /\ windows \in [Procs -> Nat]
    BY DEF TokenInit, Steps
  <2>5. issues \in [Procs -> 0 .. MaxIssues] /\ calls \in 0 .. MaxCalls
    BY <2>3 DEF TokenInit
  <2> QED
    BY <2>1, <2>2, <2>4, <2>5 DEF TokenInit, TokenTypeOK
<1>2. ThreadLockHeld /\ FirstToRefresh /\ LockFileHeld
  BY DEF TokenInit, ThreadLockHeld, Locked, FirstToRefresh, LockFileHeld, Inside
<1>3. FileIsFresh /\ IssuesInWindows
  BY DEF TokenInit, FileIsFresh, IssuesInWindows, NoToken
<1> QED
  BY <1>1, <1>2, <1>3 DEF TokenInv

(* What a thread reads: never a token that does not exist.                 *)
LEMMA MemoryType ==
  ASSUME TokenInv, NEW p \in Procs
  PROVE  /\ Loaded(p) \in [Procs -> Tokens \cup {NoToken}]
         /\ AfterIsValid(p) \in [Procs -> Tokens \cup {NoToken}]
BY DEF TokenInv, TokenTypeOK, Loaded, AfterIsValid

(* A call begins, is answered, or waits for the thread lock.               *)
LEMMA CallStep ==
  ASSUME TokenInv, NEW t \in Threads, AskToken(t) \/ Watch(t) \/ Refused(t) \/ FastPath(t)
  PROVE  TokenInv'
<1>0. Host(t) \in Procs
  BY HostAssumption DEF Host
<1>1. /\ \E x \in {"idle", "fast", "thread"} : pc' = [pc EXCEPT ![t] = x]
      /\ pc[t] \in {"idle", "fast"}
      /\ UNCHANGED <<disk, ttl, revoked, recent, threadLock, lockFile, stale,
                     issues, windows, excused>>
  BY DEF AskToken, Watch, Refused, FastPath, Enter, Go, Return
<1>2. TokenTypeOK'
  <2>1. memory' \in [Procs -> Tokens \cup {NoToken}]
    BY <1>0, MemoryType DEF AskToken, Watch, Refused, FastPath, TokenInv, TokenTypeOK
  <2>2. force' \in [Threads -> BOOLEAN]
    BY DEF AskToken, Watch, Refused, FastPath, Return, TokenInv, TokenTypeOK
  <2>3. calls' \in 0 .. MaxCalls /\ refusals' \subseteq Threads
    BY HostAssumption DEF AskToken, Watch, Refused, FastPath, Enter, TokenInv, TokenTypeOK
  <2>4. pc' \in [Threads -> Steps]
    BY <1>1 DEF TokenInv, TokenTypeOK, Steps
  <2> QED
    BY <1>1, <2>1, <2>2, <2>3, <2>4 DEF TokenInv, TokenTypeOK
<1>3. \A u \in Threads : pc'[u] \in Locked => pc'[u] = pc[u]
  BY <1>1 DEF TokenInv, TokenTypeOK, Locked
<1>4. ThreadLockHeld' /\ FirstToRefresh' /\ LockFileHeld'
  BY <1>1, <1>3 DEF TokenInv, ThreadLockHeld, FirstToRefresh, LockFileHeld, Inside, Locked, Host
<1>5. FileIsFresh' /\ IssuesInWindows'
  BY <1>1 DEF TokenInv, FileIsFresh, IssuesInWindows, Usable
<1> QED
  BY <1>1, <1>2, <1>4, <1>5 DEF TokenInv

LEMMA ThreadLockStep ==
  ASSUME TokenInv, NEW t \in Threads, TakeThreadLock(t)
  PROVE  TokenInv'
<1>0. Host(t) \in Procs
  BY HostAssumption DEF Host
<1>1. /\ pc[t] = "thread" /\ threadLock[Host(t)] = NoOne
      /\ \/ pc' = [pc EXCEPT ![t] = "idle"] /\ threadLock' = threadLock
         \/ pc' = [pc EXCEPT ![t] = "file"] /\ threadLock' = [threadLock EXCEPT ![Host(t)] = t]
      /\ UNCHANGED <<disk, ttl, revoked, refusals, recent, lockFile, stale, issues,
                     windows, calls, excused>>
  BY DEF TakeThreadLock, Go, Return
<1>2. TokenTypeOK'
  <2>1. memory' \in [Procs -> Tokens \cup {NoToken}]
    BY <1>0, MemoryType DEF TakeThreadLock
  <2>2. force' \in [Threads -> BOOLEAN]
    BY DEF TakeThreadLock, Return, TokenInv, TokenTypeOK
  <2>3. pc' \in [Threads -> Steps] /\ threadLock' \in [Procs -> Threads \cup {NoOne}]
    BY <1>0, <1>1 DEF TokenInv, TokenTypeOK, Steps
  <2> QED
    BY <1>1, <2>1, <2>2, <2>3 DEF TokenInv, TokenTypeOK
<1>3. ThreadLockHeld'
  <2> SUFFICES ASSUME NEW u \in Threads, pc'[u] \in Locked PROVE threadLock'[Host(u)] = u
    BY DEF ThreadLockHeld, Host
  <2>1. CASE u = t
    BY <1>0, <1>1, <2>1 DEF TokenInv, TokenTypeOK, Locked
  <2>2. CASE u # t
    <3>1. threadLock[Host(u)] = u /\ Host(u) # Host(t)
      BY <1>1, <2>2, HostAssumption DEF TokenInv, TokenTypeOK, ThreadLockHeld
    <3> QED
      BY <1>0, <1>1, <3>1, HostAssumption DEF TokenInv, TokenTypeOK, Host
  <2> QED
    BY <2>1, <2>2
<1>4. \A u \in Threads : pc'[u] \in {"load", "refresh", "leave"} => pc'[u] = pc[u]
  BY <1>1 DEF TokenInv, TokenTypeOK
<1>5. FirstToRefresh' /\ LockFileHeld'
  BY <1>1, <1>4 DEF TokenInv, FirstToRefresh, LockFileHeld, Inside, Host
<1>6. FileIsFresh' /\ IssuesInWindows'
  BY <1>1 DEF TokenInv, FileIsFresh, IssuesInWindows, Usable
<1> QED
  BY <1>1, <1>2, <1>3, <1>5, <1>6 DEF TokenInv

(* The lock file: made, found stale, taken away, or waited for in vain.    *)
LEMMA LockFileStep ==
  ASSUME TokenInv, NEW t \in Threads,
         CreateLockFile(t) \/ SeeStaleFile(t) \/ UnlinkStaleFile(t) \/ GiveUpWaiting(t)
  PROVE  TokenInv'
<1>1. /\ \E x \in {"file", "reclaim", "load"} :
           pc' = [pc EXCEPT ![t] = x] /\ (x = "load" /\ ~excused' => lockFile = NoOne /\ lockFile' = t)
      /\ pc[t] \in {"file", "reclaim"} /\ excused' \in BOOLEAN /\ (excused => excused')
      /\ lockFile' = lockFile \/ lockFile = NoOne \/ excused'
      /\ UNCHANGED <<memory, disk, ttl, revoked, refusals, recent, threadLock, force,
                     issues, windows, calls>>
  BY DEF CreateLockFile, SeeStaleFile, UnlinkStaleFile, GiveUpWaiting, Go, MayCreate, TokenInv
<1>2. TokenTypeOK'
  <2>1. pc' \in [Threads -> Steps]
    BY <1>1 DEF TokenInv, TokenTypeOK, Steps
  <2>2. lockFile' \in Threads \cup {NoOne} /\ stale' \in BOOLEAN
    BY DEF CreateLockFile, SeeStaleFile, UnlinkStaleFile, GiveUpWaiting, TokenInv, TokenTypeOK
  <2> QED
    BY <1>1, <2>1, <2>2 DEF TokenInv, TokenTypeOK
<1>3. ThreadLockHeld' /\ FirstToRefresh'
  BY <1>1 DEF TokenInv, TokenTypeOK, ThreadLockHeld, FirstToRefresh, Locked, Host
<1>4. LockFileHeld'
  <2> SUFFICES ASSUME ~excused', NEW u \in Threads, pc'[u] \in {"load", "refresh", "leave"}
               PROVE  lockFile' = u
    BY DEF LockFileHeld, Inside
  <2>1. CASE u = t
    BY <1>1, <2>1 DEF TokenInv, TokenTypeOK
  <2>2. CASE u # t
    <3>1. lockFile = u
      BY <1>1, <2>2 DEF TokenInv, TokenTypeOK, LockFileHeld, Inside
    <3> QED
      BY <1>1, <3>1, HostAssumption
  <2> QED
    BY <2>1, <2>2
<1>5. FileIsFresh' /\ IssuesInWindows'
  BY <1>1 DEF TokenInv, FileIsFresh, IssuesInWindows, Usable
<1> QED
  BY <1>1, <1>2, <1>3, <1>4, <1>5 DEF TokenInv

(* The thread with the lock looks at the file once more: it goes on to ask *)
(* for a token only when its process has not just got one.                 *)
LEMMA ReloadStep ==
  ASSUME TokenInv, NEW t \in Threads, Reload(t)
  PROVE  TokenInv'
<1>0. Host(t) \in Procs
  BY HostAssumption DEF Host
<1>1. /\ pc[t] = "load"
      /\ \/ pc' = [pc EXCEPT ![t] = "leave"]
         \/ pc' = [pc EXCEPT ![t] = "refresh"] /\ ~(Usable(disk) /\ Shared(t))
      /\ UNCHANGED <<disk, ttl, revoked, refusals, recent, threadLock, lockFile, stale, force,
                     issues, windows, calls, excused>>
  BY DEF Reload, Go
<1>2. TokenTypeOK'
  <2>1. memory' \in [Procs -> Tokens \cup {NoToken}]
    BY <1>0, MemoryType DEF Reload
  <2>2. pc' \in [Threads -> Steps]
    BY <1>1 DEF TokenInv, TokenTypeOK, Steps
  <2> QED
    BY <1>1, <2>1, <2>2 DEF TokenInv, TokenTypeOK
<1>3. ThreadLockHeld' /\ LockFileHeld'
  BY <1>1 DEF TokenInv, TokenTypeOK, ThreadLockHeld, LockFileHeld, Inside, Locked, Host
<1>4. pc'[t] = "refresh" => ~recent[Host(t)]
  <2>1. pc'[t] = "refresh" => ~(Usable(disk) /\ Shared(t))
    BY <1>1 DEF TokenInv, TokenTypeOK
  <2> QED
    BY <1>0, <2>1 DEF TokenInv, FileIsFresh, Shared
<1>5. FirstToRefresh'
  BY <1>1, <1>4 DEF TokenInv, TokenTypeOK, FirstToRefresh, Host
<1>6. FileIsFresh' /\ IssuesInWindows'
  BY <1>1 DEF TokenInv, FileIsFresh, IssuesInWindows, Usable
<1> QED
  BY <1>1, <1>2, <1>3, <1>5, <1>6 DEF TokenInv

LEMMA IssueStep ==
  ASSUME TokenInv, NEW t \in Threads, IssueToken(t)
  PROVE  TokenInv'
<1> DEFINE p == Host(t)
<1>0. p \in Procs
  BY HostAssumption DEF Host
<1>1. /\ pc[t] = "refresh" /\ disk + 1 \in Tokens /\ disk' = disk + 1
      /\ memory' = [memory EXCEPT ![p] = disk + 1]
      /\ recent' = [recent EXCEPT ![p] = TRUE]
      /\ issues' = [issues EXCEPT ![p] = issues[p] + 1]
      /\ pc' = [pc EXCEPT ![t] = "leave"]
      /\ UNCHANGED <<ttl, revoked, refusals, threadLock, lockFile, stale, force, windows,
                     calls, excused>>
  BY DEF IssueToken, Go, NextToken
<1>2. /\ ~recent[p] /\ threadLock[p] = t /\ disk \in Nat /\ disk + 1 <= MaxIssues
      /\ \A q \in Procs : issues[q] \in Nat /\ windows[q] \in Nat
  BY <1>1, HostAssumption
     DEF TokenInv, TokenTypeOK, FirstToRefresh, ThreadLockHeld, Locked, Tokens, NoToken
<1>3. IssuesInWindows'
  <2> SUFFICES ASSUME NEW q \in Procs
               PROVE  /\ issues'[q] <= disk'
                      /\ issues'[q] <= windows'[q] + (IF recent'[q] THEN 1 ELSE 0)
    BY DEF IssuesInWindows
  <2>1. issues[q] <= disk /\ issues[q] <= windows[q] + (IF recent[q] THEN 1 ELSE 0)
    BY DEF TokenInv, IssuesInWindows
  <2>2. CASE q = p
    <3>1. issues'[q] = issues[q] + 1 /\ recent'[q] /\ windows'[q] = windows[q]
      BY <1>0, <1>1, <2>2 DEF TokenInv, TokenTypeOK
    <3> QED
      BY <1>1, <1>2, <2>1, <2>2, <3>1
  <2>3. CASE q # p
    <3>1. issues'[q] = issues[q] /\ recent'[q] = recent[q] /\ windows'[q] = windows[q]
      BY <1>0, <1>1, <2>3 DEF TokenInv, TokenTypeOK
    <3> QED
      BY <1>1, <1>2, <2>1, <3>1
  <2> QED
    BY <2>2, <2>3
<1>4. TokenTypeOK'
  <2>1. issues' \in [Procs -> 0 .. MaxIssues]
    <3>1. issues[p] + 1 \in 0 .. MaxIssues
      BY <1>0, <1>2, HostAssumption DEF TokenInv, IssuesInWindows
    <3> QED
      BY <1>1, <3>1 DEF TokenInv, TokenTypeOK
  <2>2. /\ memory' \in [Procs -> Tokens \cup {NoToken}] /\ disk' \in Tokens \cup {NoToken}
        /\ recent' \in [Procs -> BOOLEAN] /\ pc' \in [Threads -> Steps]
    BY <1>1 DEF TokenInv, TokenTypeOK, Steps
  <2> QED
    BY <1>1, <2>1, <2>2 DEF TokenInv, TokenTypeOK
<1>5. ThreadLockHeld' /\ LockFileHeld'
  BY <1>1 DEF TokenInv, TokenTypeOK, ThreadLockHeld, LockFileHeld, Inside, Locked, Host
<1>6. FirstToRefresh'
  <2> SUFFICES ASSUME NEW u \in Threads, pc'[u] = "refresh" PROVE ~recent'[Host(u)]
    BY DEF FirstToRefresh, Host
  <2>1. u # t /\ pc[u] = "refresh" /\ Host(u) \in Procs
    BY <1>1, HostAssumption DEF TokenInv, TokenTypeOK, Host
  <2>2. Host(u) # p /\ ~recent[Host(u)]
    BY <1>2, <2>1 DEF TokenInv, ThreadLockHeld, Locked, FirstToRefresh
  <2> QED
    BY <1>1, <2>1, <2>2 DEF TokenInv, TokenTypeOK
<1>7. FileIsFresh'
  <2>1. \A k \in Tokens : k > disk => ttl[k] = "day"
    BY DEF TokenInv, FileIsFresh
  <2>2. ttl[disk'] = "day" /\ disk' # NoToken /\ \A k \in Tokens : k > disk' => k > disk
    BY <1>1, <1>2, <2>1 DEF NoToken, Tokens
  <2> QED
    BY <1>1, <2>1, <2>2 DEF FileIsFresh, Usable
<1> QED
  BY <1>1, <1>3, <1>4, <1>5, <1>6, <1>7 DEF TokenInv

LEMMA LeaveStep ==
  ASSUME TokenInv, NEW t \in Threads, IssueFails(t) \/ Leave(t)
  PROVE  TokenInv'
<1>0. Host(t) \in Procs
  BY HostAssumption DEF Host
<1>1. /\ \/ pc[t] = "refresh" /\ pc' = [pc EXCEPT ![t] = "leave"]
            /\ UNCHANGED <<threadLock, lockFile, stale, force>>
         \/ pc[t] = "leave" /\ pc' = [pc EXCEPT ![t] = "idle"]
            /\ threadLock' = [threadLock EXCEPT ![Host(t)] = NoOne]
            /\ lockFile' = NoOne /\ stale' = FALSE /\ force' = [force EXCEPT ![t] = FALSE]
      /\ UNCHANGED <<memory, disk, ttl, revoked, refusals, recent, issues, windows,
                     calls, excused>>
  BY DEF IssueFails, Leave, Go, Return
<1>2. TokenTypeOK'
  BY <1>0, <1>1 DEF TokenInv, TokenTypeOK, Steps
<1>3. ThreadLockHeld'
  <2> SUFFICES ASSUME NEW u \in Threads, pc'[u] \in Locked PROVE threadLock'[Host(u)] = u
    BY DEF ThreadLockHeld, Host
  <2>1. pc[u] \in Locked /\ pc[t] \in Locked /\ (pc[t] = "leave" => u # t) /\ Host(u) \in Procs
    BY <1>1, HostAssumption DEF TokenInv, TokenTypeOK, Locked, Host
  <2>2. threadLock[Host(u)] = u /\ threadLock[Host(t)] = t
    BY <2>1 DEF TokenInv, ThreadLockHeld
  <2> QED
    BY <1>0, <1>1, <2>1, <2>2 DEF TokenInv, TokenTypeOK
<1>4. LockFileHeld'
  <2> SUFFICES ASSUME ~excused, NEW u \in Threads, pc'[u] \in {"load", "refresh", "leave"}
               PROVE  lockFile' = u
    BY <1>1 DEF LockFileHeld, Inside
  <2>1. lockFile = t /\ lockFile = u
    BY <1>1 DEF TokenInv, TokenTypeOK, LockFileHeld, Inside
  <2> QED
    BY <1>1, <2>1 DEF TokenInv, TokenTypeOK
<1>5. FirstToRefresh'
  BY <1>1 DEF TokenInv, TokenTypeOK, FirstToRefresh, Host
<1>6. FileIsFresh' /\ IssuesInWindows'
  BY <1>1 DEF TokenInv, FileIsFresh, IssuesInWindows, Usable
<1> QED
  BY <1>1, <1>2, <1>3, <1>4, <1>5, <1>6 DEF TokenInv

(* Time passes and the broker revokes a token.                             *)
LEMMA WorldStep ==
  ASSUME TokenInv,
         \/ TokenAges \/ LockFileAges \/ \E k \in Tokens : Revoke(k)
         \/ \E p \in Procs : FiveSecondsPass(p)
  PROVE  TokenInv'
<1>1. CASE TokenAges
  <2>1. /\ \A p \in Procs : ~recent[p]
        /\ ttl' = [k \in Tokens |-> IF k <= disk THEN Older(ttl[k]) ELSE ttl[k]]
        /\ UNCHANGED <<memory, disk, revoked, refusals, recent, threadLock, lockFile, stale, pc,
                       force, issues, windows, calls, excused>>
    BY <1>1 DEF TokenAges
  <2>2. ttl' \in [Tokens -> {"day", "soon", "out"}]
    BY <2>1 DEF TokenInv, TokenTypeOK, Older
  <2>3. TokenTypeOK'
    BY <2>1, <2>2 DEF TokenInv, TokenTypeOK
  <2>4. FileIsFresh'
    <3>1. \A k \in Tokens : k > disk => ttl'[k] = "day"
      <4> SUFFICES ASSUME NEW k \in Tokens, k > disk PROVE ttl'[k] = "day"
        OBVIOUS
      <4>1. disk \in Nat /\ k \in Nat
        BY HostAssumption DEF TokenInv, TokenTypeOK, Tokens, NoToken
      <4>2. ~(k <= disk)
        BY <4>1
      <4> QED
        BY <2>1, <4>2 DEF TokenInv, FileIsFresh
    <3> QED
      BY <2>1, <3>1 DEF FileIsFresh
  <2> QED
    BY <2>1, <2>3, <2>4 DEF TokenInv, ThreadLockHeld, FirstToRefresh, IssuesInWindows,
       LockFileHeld, Inside, Host
<1>2. CASE LockFileAges \/ \E k \in Tokens : Revoke(k)
  <2>1. /\ stale' \in BOOLEAN /\ revoked' \in Tokens \cup {NoToken} /\ refusals' \subseteq Threads
        /\ UNCHANGED <<memory, disk, ttl, recent, threadLock, lockFile, pc, force, issues,
                       windows, calls, excused>>
    BY <1>2 DEF LockFileAges, Revoke, TokenInv, TokenTypeOK
  <2> QED
    BY <2>1 DEF TokenInv, TokenTypeOK, ThreadLockHeld, FileIsFresh, FirstToRefresh,
       IssuesInWindows, LockFileHeld, Inside, Usable, Host
<1>3. ASSUME NEW p \in Procs, FiveSecondsPass(p)
      PROVE  TokenInv'
  <2>1. /\ recent[p] /\ recent' = [recent EXCEPT ![p] = FALSE]
        /\ windows' = [windows EXCEPT ![p] = windows[p] + 1]
        /\ UNCHANGED <<memory, disk, ttl, revoked, refusals, threadLock, lockFile, stale, pc,
                       force, issues, calls, excused>>
    BY <1>3 DEF FiveSecondsPass
  <2>2. TokenTypeOK' /\ windows' \in [Procs -> Nat]
    BY <2>1 DEF TokenInv, TokenTypeOK
  <2>3. IssuesInWindows'
    BY <2>1 DEF TokenInv, TokenTypeOK, IssuesInWindows
  <2>4. \A q \in Procs : recent'[q] => recent[q]
    BY <2>1 DEF TokenInv, TokenTypeOK
  <2>5. FileIsFresh' /\ FirstToRefresh'
    BY <2>1, <2>4, HostAssumption DEF TokenInv, FileIsFresh, FirstToRefresh, Usable, Host
  <2> QED
    BY <2>1, <2>2, <2>3, <2>5 DEF TokenInv, ThreadLockHeld, LockFileHeld, Inside, Host
<1> QED
  BY <1>1, <1>2, <1>3

(* A process dies: its threads' locks go with it, its lock file stays.     *)
LEMMA CrashStep ==
  ASSUME TokenInv, NEW p \in Procs, CrashProcess(p)
  PROVE  TokenInv'
<1>1. /\ pc' = [t \in Threads |-> IF Host(t) = p THEN "idle" ELSE pc[t]]
      /\ force' = [t \in Threads |-> Host(t) # p /\ force[t]]
      /\ refusals' \subseteq refusals
      /\ threadLock' = [threadLock EXCEPT ![p] = NoOne]
      /\ memory' = [memory EXCEPT ![p] = IF Usable(disk) THEN disk ELSE NoToken]
      /\ recent' = [recent EXCEPT ![p] = FALSE]
      /\ windows' = [windows EXCEPT ![p] = windows[p] + (IF recent[p] THEN 1 ELSE 0)]
      /\ UNCHANGED <<disk, ttl, revoked, lockFile, stale, issues, calls, excused>>
  BY DEF CrashProcess
<1>2. TokenTypeOK' /\ windows' \in [Procs -> Nat]
  <2>1. pc' \in [Threads -> Steps] /\ force' \in [Threads -> BOOLEAN]
    BY <1>1 DEF TokenInv, TokenTypeOK, Steps
  <2>2. memory' \in [Procs -> Tokens \cup {NoToken}] /\ recent' \in [Procs -> BOOLEAN]
    BY <1>1 DEF TokenInv, TokenTypeOK
  <2>3. threadLock' \in [Procs -> Threads \cup {NoOne}] /\ windows' \in [Procs -> Nat]
    BY <1>1 DEF TokenInv, TokenTypeOK
  <2> QED
    BY <1>1, <2>1, <2>2, <2>3 DEF TokenInv, TokenTypeOK
<1>3. \A t \in Threads : pc'[t] # "idle" => pc'[t] = pc[t] /\ Host(t) # p
  BY <1>1
<1>4. ThreadLockHeld' /\ FirstToRefresh' /\ LockFileHeld'
  <2>1. \A q \in Procs : q # p => threadLock'[q] = threadLock[q] /\ recent'[q] = recent[q]
    BY <1>1 DEF TokenInv, TokenTypeOK
  <2>2. \A t \in Threads : Host(t) \in Procs
    BY HostAssumption DEF Host
  <2>3. ThreadLockHeld'
    BY <1>3, <2>1, <2>2 DEF TokenInv, ThreadLockHeld, Locked, Host
  <2>4. FirstToRefresh'
    BY <1>3, <2>1, <2>2 DEF TokenInv, FirstToRefresh, Host
  <2>5. LockFileHeld'
    BY <1>1, <1>3 DEF TokenInv, LockFileHeld, Inside
  <2> QED
    BY <2>3, <2>4, <2>5
<1>5. FileIsFresh'
  BY <1>1 DEF TokenInv, TokenTypeOK, FileIsFresh, Usable
<1>6. IssuesInWindows'
  BY <1>1 DEF TokenInv, TokenTypeOK, IssuesInWindows
<1> QED
  BY <1>1, <1>2, <1>4, <1>5, <1>6 DEF TokenInv

LEMMA TokenStep ==
  ASSUME TokenInv, [TokenNext]_tokenVars
  PROVE  TokenInv'
<1>1. CASE UNCHANGED tokenVars
  BY <1>1 DEF tokenVars, TokenInv, TokenTypeOK, ThreadLockHeld, FileIsFresh, FirstToRefresh,
     IssuesInWindows, LockFileHeld, Inside, Usable, Host
<1>2. CASE TokenNext
  BY <1>2, CallStep, ThreadLockStep, LockFileStep, ReloadStep, IssueStep, LeaveStep, WorldStep,
     CrashStep DEF TokenNext, TokenWork
<1> QED
  BY <1>1, <1>2

LEMMA TokenGuarantees ==
  ASSUME TokenInv
  PROVE  TokenTypeOK /\ RefreshRateBounded /\ OverlapIsExcused
<1>1. RefreshRateBounded
  <2> SUFFICES ASSUME NEW p \in Procs PROVE issues[p] <= windows[p] + 1
    BY DEF RefreshRateBounded
  <2>1. issues[p] \in Int /\ windows[p] \in Nat
    BY DEF TokenInv, TokenTypeOK
  <2> QED
    BY <2>1 DEF TokenInv, IssuesInWindows
<1>2. OverlapIsExcused
  <2> SUFFICES ASSUME ~excused PROVE ~(Cardinality(Inside) > 1)
    BY DEF OverlapIsExcused
  <2>1. Inside \subseteq {lockFile}
    BY DEF TokenInv, LockFileHeld
  <2>2. IsFiniteSet({lockFile}) /\ Cardinality({lockFile}) = 1
    BY FS_Singleton
  <2>3. Cardinality(Inside) <= 1 /\ Cardinality(Inside) \in Nat
    BY <2>1, <2>2, FS_Subset, FS_CardinalityType
  <2> QED
    BY <2>3
<1> QED
  BY <1>1, <1>2 DEF TokenInv

-----------------------------------------------------------------------------
(* The gateway (ApiGateway).                                               *)

(* An attempt is counted before it may be repeated, and an order that the  *)
(* broker accepted without its answer arriving is remembered as lost.      *)
AttemptsCounted ==
  \A c \in Callers :
    /\ accepted[c] <= attempt[c] + (IF gpc[c] = "result" THEN 1 ELSE 0)
    /\ accepted[c] > (IF gpc[c] = "result" THEN 1 ELSE 0) => lost[c]

(* Only a follower that gave up is left without an answer.                 *)
NoneMeansGivenUp ==
  \A c \in Callers : gpc[c] = "result" /\ result[c] = "none" => gaveUp

GatewayInv ==
  /\ GatewayTypeOK
  /\ gaveUp \in BOOLEAN
  /\ AttemptsCounted
  /\ OpenCircuitCounts
  /\ NoneMeansGivenUp
  /\ PartialOnlyAfterGivingUp

CircuitType == [state : {"NORMAL", "PAUSED", "HALF_OPEN"}, failures : 0 .. Threshold]

LEMMA GatewayInitInv == GatewayInit => GatewayInv
<1> SUFFICES ASSUME GatewayInit PROVE GatewayInv
  OBVIOUS
<1> USE GatewayAssumption
<1>1. GatewayTypeOK
  <2>1. /\ 1 \in 1 .. Pages /\ 0 \in 0 .. MaxRetries - 1 /\ 0 \in 0 .. MaxRetries
        /\ 0 \in 0 .. Pages /\ 0 \in 0 .. Threshold
    OBVIOUS
  <2>2. /\ gpc \in [Callers -> {"idle", "call", "attempt", "wait", "result"}]
        /\ task \in [Callers -> Tasks] /\ page \in [Callers -> 1 .. Pages]
        /\ attempt \in [Callers -> 0 .. MaxRetries - 1]
        /\ result \in [Callers -> Outcomes \cup {"none"}]
    BY <2>1 DEF GatewayInit, Tasks
  <2>3. /\ joined \in [Callers -> Callers \cup {NoCaller}]
        /\ circuit \in [Circuits -> CircuitType]
        /\ cooled \in [Circuits -> BOOLEAN]
        /\ balance \in [pages : 0 .. Pages, fresh : BOOLEAN]
    BY <2>1 DEF GatewayInit, CircuitType
  <2>4. /\ daily = "none" /\ accepted \in [Callers -> 0 .. MaxRetries]
        /\ lost \in [Callers -> BOOLEAN]
    BY <2>1 DEF GatewayInit
  <2> QED
    BY <2>2, <2>3, <2>4 DEF GatewayTypeOK, CircuitType
<1>2. AttemptsCounted /\ OpenCircuitCounts /\ NoneMeansGivenUp
  BY DEF GatewayInit, AttemptsCounted, OpenCircuitCounts, NoneMeansGivenUp
<1>3. PartialOnlyAfterGivingUp /\ gaveUp \in BOOLEAN
  BY DEF GatewayInit, PartialOnlyAfterGivingUp
<1> QED
  BY <1>1, <1>2, <1>3 DEF GatewayInv

(* A circuit stays a circuit, open exactly at its threshold.               *)
Counts(s) == (s.state # "NORMAL") <=> (s.failures = Threshold)
CircuitsOK(f) == f \in [Circuits -> CircuitType] /\ \A k \in Circuits : Counts(f[k])

LEMMA CircuitsKept ==
  ASSUME CircuitsOK(circuit), NEW k \in Circuits
  PROVE  /\ CircuitsOK(Tried(k)) /\ CircuitsOK(RecordSuccess(k)) /\ CircuitsOK(RecordFailure(k))
         /\ \A o : CircuitsOK(Charged(k, o))
<1>1. CircuitsOK(Tried(k))
  BY DEF CircuitsOK, CircuitType, Counts, Tried
<1>2. CircuitsOK(RecordSuccess(k))
  BY GatewayAssumption DEF CircuitsOK, CircuitType, Counts, RecordSuccess
<1>3. CircuitsOK(RecordFailure(k))
  <2> DEFINE n == IF circuit[k].failures < Threshold THEN circuit[k].failures + 1 ELSE Threshold
             s == IF n = Threshold THEN "PAUSED" ELSE circuit[k].state
             g == RecordFailure(k)
  <2>1. n \in 0 .. Threshold /\ s \in {"NORMAL", "PAUSED", "HALF_OPEN"}
    BY GatewayAssumption DEF CircuitsOK, CircuitType
  <2>2. n # Threshold => s = "NORMAL"
    BY GatewayAssumption DEF CircuitsOK, CircuitType, Counts
  <2>3. n = Threshold => s = "PAUSED"
    OBVIOUS
  <2>4. g = [circuit EXCEPT ![k] = [circuit[k] EXCEPT !.failures = n, !.state = s]]
    BY DEF CircuitsOK, CircuitType, RecordFailure
  <2> HIDE DEF n, s
  <2> DEFINE q == [circuit[k] EXCEPT !.failures = n, !.state = s]
  <2>5. q.state = s /\ q.failures = n
    BY DEF CircuitsOK, CircuitType
  <2>6. q \in CircuitType
    BY <2>1 DEF CircuitsOK, CircuitType
  <2> HIDE DEF q
  <2> HIDE DEF g
  <2>7. g \in [Circuits -> CircuitType]
    BY <2>4, <2>6 DEF CircuitsOK, g, q
  <2>8. \A j \in Circuits : Counts(g[j])
    BY <2>2, <2>3, <2>4, <2>5 DEF CircuitsOK, Counts, g, q
  <2> QED
    BY <2>7, <2>8 DEF CircuitsOK, g
<1>4. ASSUME NEW o PROVE CircuitsOK(Charged(k, o))
  <2>1. Charged(k, o) \in {RecordSuccess(k), RecordFailure(k), circuit}
    BY Zenon DEF Charged
  <2> QED
    BY <1>2, <1>3, <2>1
<1> QED
  BY <1>1, <1>2, <1>3, <1>4

(* Whoever is told an answer has one; the others keep what they had.       *)
LEMMA FinishTells ==
  ASSUME GatewayInv, NEW c \in Callers, NEW r \in Outcomes, Finish(c, r)
  PROVE  /\ gpc' \in [Callers -> {"idle", "call", "attempt", "wait", "result"}]
         /\ result' \in [Callers -> Outcomes \cup {"none"}]
         /\ joined' \in [Callers -> Callers \cup {NoCaller}]
         /\ gpc'[c] = "result"
         /\ \A f \in Callers : /\ gpc[f] = "result" => gpc'[f] = "result"
                               /\ gpc'[f] \in {"result", gpc[f]}
         /\ \A f \in Callers : gpc'[f] = "result" /\ result'[f] = "none" => gaveUp
<1>1. /\ gpc' = [f \in Callers |-> IF f \in Told(c) THEN "result" ELSE gpc[f]]
      /\ result' = [f \in Callers |-> IF f \in Told(c) THEN r ELSE result[f]]
      /\ joined' = [f \in Callers |-> IF f \in Told(c) THEN NoCaller ELSE joined[f]]
  BY DEF Finish
<1>2. c \in Told(c) /\ r # "none"
  BY DEF Told, Outcomes, Answers, Refusals, Retried
<1>3. GatewayTypeOK /\ NoneMeansGivenUp
  BY DEF GatewayInv
<1>4. /\ gpc' \in [Callers -> {"idle", "call", "attempt", "wait", "result"}]
      /\ result' \in [Callers -> Outcomes \cup {"none"}]
      /\ joined' \in [Callers -> Callers \cup {NoCaller}]
  BY <1>1, <1>3 DEF GatewayTypeOK
<1>5. \A f \in Callers : gpc'[f] = "result" /\ result'[f] = "none" => gaveUp
  BY <1>1, <1>2, <1>3 DEF NoneMeansGivenUp
<1> QED
  BY <1>1, <1>2, <1>4, <1>5

(* The circuit's verdict, then the flight.                                 *)
LEMMA EnterStep ==
  ASSUME GatewayInv, NEW c \in Callers, EnterCall(c)
  PROVE  GatewayInv'
<1> DEFINE k == CircuitOf(task[c])
<1>1. k \in Circuits
  BY DEF CircuitOf, Circuits
<1>2. CircuitsOK(circuit)
  BY DEF GatewayInv, GatewayTypeOK, CircuitType, CircuitsOK, OpenCircuitCounts, Counts
<1>3. /\ gpc[c] = "call"
      /\ UNCHANGED <<task, page, attempt, cooled, balance, daily, accepted, lost, gaveUp,
                     tasksDone>>
  BY DEF EnterCall
<1>4. \/ Finish(c, "failed") /\ UNCHANGED circuit
      \/ /\ circuit' \in {circuit, Tried(k)}
         /\ result' = result
         /\ \/ gpc' = [gpc EXCEPT ![c] = "attempt"] /\ UNCHANGED joined
            \/ \E d \in Callers : /\ gpc' = [gpc EXCEPT ![c] = "wait"]
                                  /\ joined' = [joined EXCEPT ![c] = d]
  BY DEF EnterCall
<1> HIDE DEF k
<1>5. CircuitsOK(circuit')
  BY <1>1, <1>2, <1>4, CircuitsKept
<1>6. circuit' \in [Circuits -> CircuitType] /\ OpenCircuitCounts'
  BY <1>5 DEF CircuitsOK, OpenCircuitCounts, Counts
<1>7. /\ gpc' \in [Callers -> {"idle", "call", "attempt", "wait", "result"}]
      /\ result' \in [Callers -> Outcomes \cup {"none"}]
      /\ joined' \in [Callers -> Callers \cup {NoCaller}]
      /\ \A f \in Callers : gpc[f] = "result" => gpc'[f] = "result"
      /\ NoneMeansGivenUp'
  <2>1. CASE Finish(c, "failed")
    <3>1. "failed" \in Outcomes
      BY DEF Outcomes, Retried
    <3> QED
      BY <1>3, <2>1, <3>1, FinishTells DEF NoneMeansGivenUp
  <2>2. CASE ~Finish(c, "failed")
    <3>1. PICK to \in {"attempt", "wait"} : gpc' = [gpc EXCEPT ![c] = to]
      BY <1>4, <2>2
    <3>2. result' = result /\ joined' \in [Callers -> Callers \cup {NoCaller}]
      BY <1>4, <2>2 DEF GatewayInv, GatewayTypeOK
    <3> QED
      BY <1>3, <3>1, <3>2 DEF GatewayInv, GatewayTypeOK, NoneMeansGivenUp
  <2> QED
    BY <2>1, <2>2
<1>8. GatewayTypeOK'
  BY <1>3, <1>6, <1>7 DEF GatewayInv, GatewayTypeOK, CircuitType
<1>9. AttemptsCounted'
  <2> SUFFICES ASSUME NEW f \in Callers
               PROVE  /\ accepted[f] <= attempt[f] + (IF gpc'[f] = "result" THEN 1 ELSE 0)
                      /\ accepted[f] > (IF gpc'[f] = "result" THEN 1 ELSE 0) => lost[f]
    BY <1>3 DEF AttemptsCounted
  <2>1. attempt[f] \in Nat /\ accepted[f] \in Nat
    BY GatewayAssumption DEF GatewayInv, GatewayTypeOK
  <2> QED
    BY <1>7, <2>1 DEF GatewayInv, AttemptsCounted
<1>10. PartialOnlyAfterGivingUp' /\ gaveUp' \in BOOLEAN
  BY <1>3 DEF GatewayInv, PartialOnlyAfterGivingUp
<1> QED
  BY <1>6, <1>7, <1>8, <1>9, <1>10 DEF GatewayInv

(* One attempt: what the broker accepted is counted, then the call is made *)
(* again or over.                                                          *)
LEMMA AttemptStep ==
  ASSUME GatewayInv, NEW c \in Callers, NEW o \in Outcomes, Attempt(c, o)
  PROVE  GatewayInv'
<1> DEFINE k == CircuitOf(task[c])
<1>1. k \in Circuits
  BY DEF CircuitOf, Circuits
<1>2. CircuitsOK(circuit)
  BY DEF GatewayInv, GatewayTypeOK, CircuitType, CircuitsOK, OpenCircuitCounts, Counts
<1>3. /\ gpc[c] = "attempt" /\ circuit' = Charged(k, o)
      /\ UNCHANGED <<task, page, balance, daily, gaveUp, tasksDone>>
  BY DEF Attempt
<1>4. cooled' \in [Circuits -> BOOLEAN]
  BY DEF Attempt, GatewayInv, GatewayTypeOK
<1>5. PICK taken \in BOOLEAN :
         /\ accepted' = [accepted EXCEPT ![c] = accepted[c] + (IF taken THEN 1 ELSE 0)]
         /\ lost' = [lost EXCEPT ![c] = lost[c] \/ (taken /\ o \notin Answers)]
  <2> DEFINE may == IF ~IsOrder(task[c]) THEN {FALSE}
                    ELSE IF o \in Answers THEN {TRUE}
                    ELSE IF o \in {"server", "network", "failed"} THEN BOOLEAN
                    ELSE {FALSE}
  <2>1. may \subseteq BOOLEAN
    OBVIOUS
  <2>2. \E taken \in may :
           /\ accepted' = [accepted EXCEPT ![c] = accepted[c] + (IF taken THEN 1 ELSE 0)]
           /\ lost' = [lost EXCEPT ![c] = lost[c] \/ (taken /\ o \notin Answers)]
    BY DEF Attempt
  <2> QED
    BY <2>1, <2>2
<1>6. \/ /\ Again(o) /\ ~LastAttempt(c)
         /\ attempt' = [attempt EXCEPT ![c] = attempt[c] + 1]
         /\ UNCHANGED <<gpc, result, joined>>
      \/ Finish(c, o) /\ UNCHANGED attempt
  BY DEF Attempt
<1> HIDE DEF k
<1>7. circuit' \in [Circuits -> CircuitType] /\ OpenCircuitCounts'
  BY <1>1, <1>2, <1>3, CircuitsKept DEF CircuitsOK, OpenCircuitCounts, Counts
<1>8. /\ accepted[c] \in Nat /\ attempt[c] \in Nat /\ attempt[c] + 1 <= MaxRetries
      /\ accepted[c] <= attempt[c] /\ (accepted[c] > 0 => lost[c])
  BY <1>3, GatewayAssumption DEF GatewayInv, GatewayTypeOK, AttemptsCounted
<1>9. accepted'[c] \in 0 .. attempt[c] + 1 /\ accepted' \in [Callers -> 0 .. MaxRetries]
  BY <1>5, <1>8, GatewayAssumption DEF GatewayInv, GatewayTypeOK
<1>10. lost' \in [Callers -> BOOLEAN] /\ (lost[c] => lost'[c])
  <2>1. lost \in [Callers -> BOOLEAN]
    BY DEF GatewayInv, GatewayTypeOK
  <2> QED
    BY <1>5, <2>1
<1>11. \A f \in Callers \ {c} : accepted'[f] = accepted[f] /\ lost'[f] = lost[f]
  BY <1>5 DEF GatewayInv, GatewayTypeOK
<1>12. PartialOnlyAfterGivingUp' /\ gaveUp' \in BOOLEAN
  BY <1>3 DEF GatewayInv, PartialOnlyAfterGivingUp
<1>13. CASE Finish(c, o) /\ UNCHANGED attempt
  <2>1. /\ gpc' \in [Callers -> {"idle", "call", "attempt", "wait", "result"}]
        /\ result' \in [Callers -> Outcomes \cup {"none"}]
        /\ joined' \in [Callers -> Callers \cup {NoCaller}]
        /\ gpc'[c] = "result"
        /\ \A f \in Callers : /\ gpc[f] = "result" => gpc'[f] = "result"
                              /\ gpc'[f] \in {"result", gpc[f]}
        /\ \A f \in Callers : gpc'[f] = "result" /\ result'[f] = "none" => gaveUp
    BY <1>13, FinishTells
  <2>2. GatewayTypeOK' /\ NoneMeansGivenUp'
    BY <1>3, <1>4, <1>7, <1>9, <1>10, <1>13, <2>1
       DEF GatewayInv, GatewayTypeOK, CircuitType, NoneMeansGivenUp
  <2>3. AttemptsCounted'
    <3> SUFFICES ASSUME NEW f \in Callers
                 PROVE  /\ accepted'[f] <= attempt[f] + (IF gpc'[f] = "result" THEN 1 ELSE 0)
                        /\ accepted'[f] > (IF gpc'[f] = "result" THEN 1 ELSE 0) => lost'[f]
      BY <1>13 DEF AttemptsCounted
    <3>1. CASE f = c
      <4>1. accepted'[c] > 1 => accepted[c] > 0
        BY <1>5, <1>8 DEF GatewayInv, GatewayTypeOK
      <4> QED
        BY <1>8, <1>9, <1>10, <2>1, <3>1, <4>1
    <3>2. CASE f # c
      <4>1. attempt[f] \in Nat /\ accepted[f] \in Nat
        BY GatewayAssumption DEF GatewayInv, GatewayTypeOK
      <4> QED
        BY <1>11, <2>1, <3>2, <4>1 DEF GatewayInv, AttemptsCounted
    <3> QED
      BY <3>1, <3>2
  <2> QED
    BY <1>7, <1>12, <2>2, <2>3 DEF GatewayInv
<1>14. CASE /\ Again(o) /\ ~LastAttempt(c)
            /\ attempt' = [attempt EXCEPT ![c] = attempt[c] + 1]
            /\ UNCHANGED <<gpc, result, joined>>
  <2>1. attempt' \in [Callers -> 0 .. MaxRetries - 1]
    <3>1. attempt[c] + 1 \in 0 .. MaxRetries - 1
      BY <1>8, <1>14, GatewayAssumption DEF LastAttempt
    <3> QED
      BY <1>14, <3>1 DEF GatewayInv, GatewayTypeOK
  <2>2. GatewayTypeOK' /\ NoneMeansGivenUp'
    BY <1>3, <1>4, <1>7, <1>9, <1>10, <1>14, <2>1
       DEF GatewayInv, GatewayTypeOK, CircuitType, NoneMeansGivenUp
  <2>3. accepted'[c] > 0 => lost'[c]
    <3>1. o \notin Answers
      BY <1>14 DEF Again, Retried, Answers
    <3>2. accepted'[c] = accepted[c] + (IF taken THEN 1 ELSE 0)
      BY <1>5 DEF GatewayInv, GatewayTypeOK
    <3>3. ~taken => accepted'[c] = accepted[c]
      BY <1>8, <3>2
    <3>4. taken => lost'[c]
      BY <1>5, <3>1 DEF GatewayInv, GatewayTypeOK
    <3> QED
      BY <1>8, <1>10, <3>3, <3>4
  <2>4. AttemptsCounted'
    <3> SUFFICES ASSUME NEW f \in Callers
                 PROVE  /\ accepted'[f] <= attempt'[f] + (IF gpc[f] = "result" THEN 1 ELSE 0)
                        /\ accepted'[f] > (IF gpc[f] = "result" THEN 1 ELSE 0) => lost'[f]
      BY <1>14 DEF AttemptsCounted
    <3>1. CASE f = c
      <4>1. attempt'[c] = attempt[c] + 1
        BY <1>14 DEF GatewayInv, GatewayTypeOK
      <4> QED
        BY <1>3, <1>8, <1>9, <2>3, <3>1, <4>1
    <3>2. CASE f # c
      <4>1. attempt'[f] = attempt[f]
        BY <1>14, <3>2 DEF GatewayInv, GatewayTypeOK
      <4> QED
        BY <1>11, <3>2, <4>1 DEF GatewayInv, AttemptsCounted
    <3> QED
      BY <3>1, <3>2
  <2> QED
    BY <1>7, <1>12, <2>2, <2>4 DEF GatewayInv
<1> QED
  BY <1>6, <1>13, <1>14

(* A caller that begins a call, or puts one behind it, has sent nothing.   *)
LEMMA CallerStartsAfresh ==
  ASSUME GatewayInv, NEW c \in Callers, NEW to \in {"idle", "call"}, NEW t \in Tasks,
         NEW p \in 1 .. Pages,
         gpc' = [gpc EXCEPT ![c] = to],
         task' = [task EXCEPT ![c] = t],
         page' = [page EXCEPT ![c] = p],
         attempt' = [attempt EXCEPT ![c] = 0],
         accepted' = [accepted EXCEPT ![c] = 0],
         lost' = [lost EXCEPT ![c] = FALSE],
         result' \in {result, [result EXCEPT ![c] = "none"]},
         UNCHANGED <<joined, circuit, cooled, gaveUp>>,
         balance' \in [pages : 0 .. Pages, fresh : BOOLEAN],
         daily' \in {"none", "candles"} \cup NegativeTypes,
         PartialOnlyAfterGivingUp'
  PROVE  GatewayInv'
<1>1. /\ 0 \in 0 .. MaxRetries - 1 /\ 0 \in 0 .. MaxRetries
  BY GatewayAssumption
<1>2. /\ gpc' \in [Callers -> {"idle", "call", "attempt", "wait", "result"}]
      /\ task' \in [Callers -> Tasks] /\ page' \in [Callers -> 1 .. Pages]
      /\ attempt' \in [Callers -> 0 .. MaxRetries - 1]
      /\ result' \in [Callers -> Outcomes \cup {"none"}]
      /\ accepted' \in [Callers -> 0 .. MaxRetries] /\ lost' \in [Callers -> BOOLEAN]
  BY <1>1 DEF GatewayInv, GatewayTypeOK
<1>3. GatewayTypeOK'
  BY <1>2 DEF GatewayInv, GatewayTypeOK
<1>4. \A f \in Callers : f # c => /\ gpc'[f] = gpc[f] /\ attempt'[f] = attempt[f]
                                  /\ result'[f] = result[f]
                                  /\ accepted'[f] = accepted[f] /\ lost'[f] = lost[f]
  BY DEF GatewayInv, GatewayTypeOK
<1>5. gpc'[c] = to /\ attempt'[c] = 0 /\ accepted'[c] = 0
  BY DEF GatewayInv, GatewayTypeOK
<1>6. AttemptsCounted' /\ NoneMeansGivenUp'
  BY <1>4, <1>5 DEF GatewayInv, AttemptsCounted, NoneMeansGivenUp
<1>7. OpenCircuitCounts' /\ gaveUp' \in BOOLEAN
  BY DEF GatewayInv, OpenCircuitCounts
<1> QED
  BY <1>3, <1>6, <1>7 DEF GatewayInv

(* A thread asks for something.                                            *)
LEMMA AskStep ==
  ASSUME GatewayInv, NEW c \in Callers, NEW t \in Tasks, StartCall(c, t)
  PROVE  GatewayInv'
<1>1. /\ 1 \in 1 .. Pages /\ "call" \in {"idle", "call"}
  BY GatewayAssumption
<1>2. PartialOnlyAfterGivingUp'
  BY DEF StartCall, GatewayInv, PartialOnlyAfterGivingUp
<1>3. /\ balance' \in [pages : 0 .. Pages, fresh : BOOLEAN]
      /\ daily' \in {"none", "candles"} \cup NegativeTypes
  BY DEF StartCall, GatewayInv, GatewayTypeOK
<1> QED
  BY <1>1, <1>2, <1>3, CallerStartsAfresh DEF StartCall, Call

(* The caller rests; what it published is whole unless a follower gave up. *)
LEMMA RestStep ==
  ASSUME GatewayInv, NEW c \in Callers, Rest(c), UNCHANGED <<joined, circuit, cooled, gaveUp>>,
         balance' \in [pages : 0 .. Pages, fresh : BOOLEAN],
         daily' \in {"none", "candles"} \cup NegativeTypes,
         PartialOnlyAfterGivingUp'
  PROVE  GatewayInv'
<1>1. /\ 1 \in 1 .. Pages /\ "idle" \in {"idle", "call"} /\ "quote" \in Tasks
  BY GatewayAssumption DEF Tasks
<1> QED
  BY <1>1, CallerStartsAfresh DEF Rest

LEMMA NextPageStep ==
  ASSUME GatewayInv, NEW c \in Callers, NEW p \in 1 .. Pages, NextPage(c, p),
         UNCHANGED <<joined, circuit, cooled, daily, gaveUp>>
  PROVE  GatewayInv'
<1>1. "call" \in {"idle", "call"} /\ "page" \in Tasks
  BY DEF Tasks
<1>2. UNCHANGED balance
  BY DEF NextPage
<1>3. PartialOnlyAfterGivingUp'
  BY <1>2 DEF GatewayInv, PartialOnlyAfterGivingUp
<1>4. /\ balance' \in [pages : 0 .. Pages, fresh : BOOLEAN]
      /\ daily' \in {"none", "candles"} \cup NegativeTypes
  BY <1>2 DEF GatewayInv, GatewayTypeOK
<1> QED
  BY <1>1, <1>3, <1>4, CallerStartsAfresh DEF NextPage, Call

(* A balance of n pages is published: of fewer than all only for a follower *)
(* that gave up.                                                           *)
LEMMA PublishStep ==
  ASSUME GatewayInv, NEW c \in Callers, NEW n \in 0 .. Pages, Publish(c, n),
         UNCHANGED <<joined, circuit, cooled, daily, gaveUp>>, n < Pages => gaveUp
  PROVE  GatewayInv'
<1>1. balance' = [pages |-> n, fresh |-> TRUE] /\ Rest(c)
  BY DEF Publish
<1>2. PartialOnlyAfterGivingUp'
  BY <1>1 DEF PartialOnlyAfterGivingUp
<1>3. /\ balance' \in [pages : 0 .. Pages, fresh : BOOLEAN]
      /\ daily' \in {"none", "candles"} \cup NegativeTypes
  BY <1>1 DEF GatewayInv, GatewayTypeOK
<1> QED
  BY <1>1, <1>2, <1>3, RestStep

(* The answer is used.                                                     *)
LEMMA AnsweredStep ==
  ASSUME GatewayInv, NEW c \in Callers,
         CallAnswered(c) \/ AssetAnswered(c) \/ PageAnswered(c) \/ DailyAnswered(c)
  PROVE  GatewayInv'
<1>1. /\ PartialOnlyAfterGivingUp
      /\ balance \in [pages : 0 .. Pages, fresh : BOOLEAN]
      /\ daily \in {"none", "candles"} \cup NegativeTypes
      /\ page[c] \in 1 .. Pages
  BY DEF GatewayInv, GatewayTypeOK
<1>2. CASE CallAnswered(c)
  <2>1. Rest(c) /\ UNCHANGED <<joined, circuit, cooled, balance, daily, gaveUp>>
    BY <1>2 DEF CallAnswered
  <2>2. PartialOnlyAfterGivingUp'
    BY <1>1, <2>1 DEF PartialOnlyAfterGivingUp
  <2> QED
    BY <1>1, <2>1, <2>2, RestStep
<1>3. CASE AssetAnswered(c)
  <2>1. /\ UNCHANGED <<joined, circuit, cooled, daily, gaveUp>>
        /\ Publish(c, Pages) \/ NextPage(c, 1)
    BY <1>3 DEF AssetAnswered
  <2>2. Pages \in 0 .. Pages /\ 1 \in 1 .. Pages /\ ~(Pages < Pages)
    BY GatewayAssumption
  <2> QED
    BY <2>1, <2>2, PublishStep, NextPageStep
<1>4. CASE PageAnswered(c)
  <2>1. /\ gpc[c] = "result" /\ UNCHANGED <<joined, circuit, cooled, daily, gaveUp>>
        /\ \/ EndsPages(result[c]) /\ Publish(c, page[c] - 1)
           \/ Rest(c) /\ UNCHANGED balance
           \/ page[c] < Pages /\ NextPage(c, page[c] + 1)
           \/ Publish(c, Pages)
    BY <1>4 DEF PageAnswered
  <2>2. /\ page[c] - 1 \in 0 .. Pages /\ Pages \in 0 .. Pages /\ ~(Pages < Pages)
        /\ page[c] < Pages => page[c] + 1 \in 1 .. Pages
    BY <1>1, GatewayAssumption
  <2>3. CASE EndsPages(result[c]) /\ Publish(c, page[c] - 1)
    <3>1. gaveUp
      BY <2>1, <2>3 DEF EndsPages, GatewayInv, NoneMeansGivenUp
    <3> QED
      BY <2>1, <2>2, <2>3, <3>1, PublishStep
  <2>4. CASE Rest(c) /\ UNCHANGED balance
    <3>1. PartialOnlyAfterGivingUp'
      BY <1>1, <2>1, <2>4 DEF PartialOnlyAfterGivingUp
    <3> QED
      BY <1>1, <2>1, <2>4, <3>1, RestStep
  <2> QED
    BY <2>1, <2>2, <2>3, <2>4, PublishStep, NextPageStep
<1>5. CASE DailyAnswered(c)
  <2>1. /\ Rest(c) /\ UNCHANGED <<joined, circuit, cooled, balance, gaveUp>>
        /\ \E e \in EntryFor(result[c]) : daily' = IF daily = "candles" THEN daily ELSE e
    BY <1>5 DEF DailyAnswered
  <2>2. EntryFor(result[c]) \subseteq {"none", "candles"} \cup NegativeTypes
    BY <1>1, Zenon DEF EntryFor, NegativeTypes
  <2>3. daily' \in {"none", "candles"} \cup NegativeTypes
    BY <1>1, <2>1, <2>2
  <2>4. PartialOnlyAfterGivingUp'
    BY <1>1, <2>1 DEF PartialOnlyAfterGivingUp
  <2> QED
    BY <1>1, <2>1, <2>3, <2>4, RestStep
<1> QED
  BY <1>2, <1>3, <1>4, <1>5

(* A follower stops waiting, and time passes.                              *)
LEMMA GatewayTimeStep ==
  ASSUME GatewayInv,
         \/ \E c \in Callers : StopWaiting(c)
         \/ BalanceAges \/ DailyExpires \/ \E k \in Circuits : CircuitCools(k)
  PROVE  GatewayInv'
<1>1. ASSUME NEW c \in Callers, StopWaiting(c)
      PROVE  GatewayInv'
  <2>1. /\ gpc[c] = "wait" /\ gpc' = [gpc EXCEPT ![c] = "result"]
        /\ result' = [result EXCEPT ![c] = "none"] /\ joined' = [joined EXCEPT ![c] = NoCaller]
        /\ gaveUp' = TRUE
        /\ UNCHANGED <<task, page, attempt, circuit, cooled, balance, daily, accepted, lost,
                       tasksDone>>
    BY <1>1 DEF StopWaiting
  <2>2. GatewayTypeOK'
    BY <2>1 DEF GatewayInv, GatewayTypeOK
  <2>3. AttemptsCounted'
    <3> SUFFICES ASSUME NEW f \in Callers
                 PROVE  /\ accepted[f] <= attempt[f] + (IF gpc'[f] = "result" THEN 1 ELSE 0)
                        /\ accepted[f] > (IF gpc'[f] = "result" THEN 1 ELSE 0) => lost[f]
      BY <2>1 DEF AttemptsCounted
    <3>1. attempt[f] \in Nat /\ accepted[f] \in Nat /\ (gpc[f] = "result" => gpc'[f] = "result")
      BY <2>1, GatewayAssumption DEF GatewayInv, GatewayTypeOK
    <3> QED
      BY <3>1 DEF GatewayInv, AttemptsCounted
  <2> QED
    BY <2>1, <2>2, <2>3 DEF GatewayInv, OpenCircuitCounts, NoneMeansGivenUp,
       PartialOnlyAfterGivingUp
<1>2. CASE BalanceAges
  <2>1. /\ balance' \in [pages : 0 .. Pages, fresh : BOOLEAN] /\ ~balance'.fresh
        /\ UNCHANGED <<gpc, task, page, attempt, result, joined, circuit, cooled, daily, accepted,
                       lost, gaveUp, tasksDone>>
    BY <1>2 DEF BalanceAges, GatewayInv, GatewayTypeOK
  <2> QED
    BY <2>1 DEF GatewayInv, GatewayTypeOK, AttemptsCounted, OpenCircuitCounts, NoneMeansGivenUp,
       PartialOnlyAfterGivingUp
<1>3. CASE DailyExpires \/ \E k \in Circuits : CircuitCools(k)
  <2>1. /\ daily' \in {"none", "candles"} \cup NegativeTypes /\ cooled' \in [Circuits -> BOOLEAN]
        /\ UNCHANGED <<gpc, task, page, attempt, result, joined, circuit, balance, accepted, lost,
                       gaveUp, tasksDone>>
    BY <1>3 DEF DailyExpires, CircuitCools, GatewayInv, GatewayTypeOK
  <2> QED
    BY <2>1 DEF GatewayInv, GatewayTypeOK, AttemptsCounted, OpenCircuitCounts, NoneMeansGivenUp,
       PartialOnlyAfterGivingUp
<1> QED
  BY <1>1, <1>2, <1>3

LEMMA GatewayStep ==
  ASSUME GatewayInv, [GatewayNext]_gatewayVars
  PROVE  GatewayInv'
<1>1. CASE UNCHANGED gatewayVars
  BY <1>1 DEF gatewayVars, GatewayInv, GatewayTypeOK, AttemptsCounted, OpenCircuitCounts,
     NoneMeansGivenUp, PartialOnlyAfterGivingUp
<1>2. ASSUME NEW c \in Callers,
             SendOrder(c) \/ SendEmergencySell(c) \/ AskQuote(c) \/ AskBalance(c) \/ AskDaily(c)
      PROVE  GatewayInv'
  <2>1. \E t \in Tasks : StartCall(c, t)
    BY <1>2 DEF SendOrder, SendEmergencySell, AskQuote, AskBalance, AskDaily, Tasks
  <2> QED
    BY <2>1, AskStep
<1>3. CASE GatewayNext
  BY <1>2, <1>3, EnterStep, AttemptStep, AnsweredStep, GatewayTimeStep DEF GatewayNext, CallWork
<1> QED
  BY <1>1, <1>3

-----------------------------------------------------------------------------
(* The two together: one of them moves and the other stands still.         *)

BrokerInv == TokenInv /\ GatewayInv

(* Every state of the token and of the gateway satisfies the invariant the *)
(* two theorems below follow from (token_manager.py:97-260,                *)
(* api_gateway.py:93-385).                                                 *)
THEOREM AccessInvariant == Spec => []BrokerInv
<1>1. Init => BrokerInv
  BY TokenInitInv, GatewayInitInv DEF Init, BrokerInv
<1>2. BrokerInv /\ [Next]_vars => BrokerInv'
  <2> SUFFICES ASSUME BrokerInv, [Next]_vars PROVE BrokerInv'
    OBVIOUS
  <2>1. [TokenNext]_tokenVars /\ [GatewayNext]_gatewayVars
    BY DEF Next, vars
  <2> QED
    BY <2>1, TokenStep, GatewayStep DEF BrokerInv
<1> QED
  BY <1>1, <1>2, PTL DEF Spec

(* However threads and processes interleave, die and find locks stale, a   *)
(* process issues at most one token in five seconds, and two threads hold  *)
(* the lock file at once only after a wait timed out or a file was taken   *)
(* for stale (token_manager.py:97-260).                                    *)
THEOREM TokenIsSound == Spec => []TokenSound
<1>1. BrokerInv => TokenSound
  BY TokenGuarantees DEF BrokerInv, TokenSound
<1> QED
  BY <1>1, AccessInvariant, PTL

(* However calls of several threads share flights, fail and are retried, an *)
(* order is accepted twice by one call only when the answer to an accepted *)
(* one was lost, a circuit is open exactly at its threshold of failures,   *)
(* and a balance lacks pages only after a follower gave up waiting         *)
(* (api_gateway.py:93-385, balance_service.py:60-190).                     *)
THEOREM GatewayIsSound == Spec => []GatewaySound
<1>1. BrokerInv => GatewaySound
  <2> SUFFICES ASSUME BrokerInv PROVE ResentOnlyUnanswered
    BY DEF BrokerInv, GatewayInv, GatewaySound
  <2> SUFFICES ASSUME NEW c \in Callers, accepted[c] > 1 PROVE lost[c]
    BY DEF ResentOnlyUnanswered
  <2>1. accepted[c] \in Nat
    BY GatewayAssumption DEF BrokerInv, GatewayInv, GatewayTypeOK
  <2> QED
    BY <2>1 DEF BrokerInv, GatewayInv, AttemptsCounted
<1> QED
  BY <1>1, AccessInvariant, PTL
=============================================================================
