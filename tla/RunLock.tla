------------------------------ MODULE RunLock ------------------------------
(***************************************************************************)
(* The run lock of analysis-mutate (module `locking' of filesystem.rs).    *)
(*                                                                         *)
(* One lock file in the state base orders all sessions of all processes: a *)
(* MutationReadSession takes it shared and at once or not at all, a        *)
(* MutationExecutionSession takes it exclusively and tries for three       *)
(* seconds.  Within a process a table of readers and writers is consulted  *)
(* first; only then the operating system is asked for the file lock, and   *)
(* the place in the table is given back when the file is contended.  These *)
(* are separate steps, and the steps of threads and processes interleave.  *)
(***************************************************************************)
EXTENDS Naturals, FiniteSets

CONSTANTS
    Process,      \* processes that share the state base
    Thread,       \* threads that begin sessions
    ProcessOf,    \* [Thread -> Process]
    NoMode        \* the mode of a thread that has no session

ASSUME ProcessAssumption ==
    /\ ProcessOf \in [Thread -> Process]
    /\ NoMode \notin {"execution", "shared"}

ASSUME ThreadAssumption == IsFiniteSet(Thread)

VARIABLES
    pc,           \* [Thread -> Place]: where the thread is in its session
    mode,         \* [Thread -> LockMode \cup {NoMode}]
    expired,      \* [Thread -> BOOLEAN]: EXCLUSIVE_LOCK_WAIT has passed
    table,        \* [Process -> ProcessLockState]: an absent entry is Default
    flock         \* [Thread -> LockMode \cup {NoMode}]: locks of the open files

vars == <<pc, mode, expired, table, flock>>

LockMode == {"execution", "shared"}

ProcessLockState == [readers : Nat, writer : BOOLEAN]

Default == [readers |-> 0, writer |-> FALSE]

\* idle: no session.  tryProcess, tryFile: inside try_run_lock.  giveBack and
\* fail: the file was contended, or the call failed, and the process guard is
\* still to be dropped.  decide: the attempt failed, retry or refuse.  held: the
\* session has its RunLockGuard.  unlocked: the guard is half dropped.
Place == {"idle", "tryProcess", "tryFile", "giveBack", "fail", "decide", "held", "unlocked"}

\* Where a thread owns a ProcessLockGuard.
Guarded == {"tryFile", "giveBack", "fail", "held", "unlocked"}

TypeOK ==
    /\ pc \in [Thread -> Place]
    /\ mode \in [Thread -> LockMode \cup {NoMode}]
    /\ expired \in [Thread -> BOOLEAN]
    /\ table \in [Process -> ProcessLockState]
    /\ flock \in [Thread -> LockMode \cup {NoMode}]

----------------------------------------------------------------------------
(* Beginning a session *)

Goto(t, place) == pc' = [pc EXCEPT ![t] = place]

\* acquire_run_lock and acquire_shared_run_lock: the lock file is open, the
\* deadline is set, the first attempt follows.
Begin(t, m) ==
    /\ pc[t] = "idle"
    /\ Goto(t, "tryProcess")
    /\ mode' = [mode EXCEPT ![t] = m]
    /\ UNCHANGED <<expired, table, flock>>

\* ProcessLockState::try_acquire
Acquirable(s, m) == ~s.writer /\ (m = "execution" => s.readers = 0)

\* Wrong: the readers of a process share one place.
AcquiredOnce(s, m) ==
    IF m = "execution" THEN [s EXCEPT !.writer = TRUE]
                       ELSE [s EXCEPT !.readers = 1]

Acquired(s, m) ==
    IF m = "execution" THEN [s EXCEPT !.writer = TRUE]
                       ELSE [s EXCEPT !.readers = @ + 1]

\* ProcessLockGuard::drop: an entry nobody uses any more is removed.
Dropped(s, m) ==
    IF m = "execution" THEN [s EXCEPT !.writer = FALSE]
                       ELSE [s EXCEPT !.readers = IF @ = 0 THEN 0 ELSE @ - 1]

\* ProcessLockGuard::try_acquire, under the mutex of the table.
TryProcess(t) ==
    LET p == ProcessOf[t] IN
    /\ pc[t] = "tryProcess"
    /\ IF Acquirable(table[p], mode[t])
       THEN Goto(t, "tryFile") /\ table' = [table EXCEPT ![p] = Acquired(@, mode[t])]
       ELSE Goto(t, "decide") /\ UNCHANGED table
    /\ UNCHANGED <<mode, expired, flock>>

DropProcessGuard(t) ==
    table' = [table EXCEPT ![ProcessOf[t]] = Dropped(@, mode[t])]

\* flock(2): locks belong to open files, of the same process or of another.
FileLockable(t) ==
    \A u \in Thread \ {t} :
        flock[u] # NoMode => flock[u] = "shared" /\ mode[t] = "shared"

\* Wrong: an execution takes the file lock in the mode of an analysis.
TryFileShared(t) ==
    /\ pc[t] = "tryFile"
    /\ Goto(t, "held")
    /\ flock' = [flock EXCEPT ![t] = "shared"]
    /\ UNCHANGED <<mode, expired, table>>

\* try_file_lock
TryFile(t) ==
    /\ pc[t] = "tryFile"
    /\ IF FileLockable(t)
       THEN Goto(t, "held") /\ flock' = [flock EXCEPT ![t] = mode[t]]
       ELSE Goto(t, "giveBack") /\ UNCHANGED flock
    /\ UNCHANGED <<mode, expired, table>>

\* The file lock call fails for a reason other than contention.
FileLockError(t) ==
    /\ pc[t] = "tryFile"
    /\ Goto(t, "fail")
    /\ UNCHANGED <<mode, expired, table, flock>>

\* Wrong: the process guard of a contended attempt is leaked.
GiveBackLeaking(t) ==
    /\ pc[t] = "giveBack"
    /\ Goto(t, "decide")
    /\ UNCHANGED <<mode, expired, table, flock>>

\* classify_run_lock_result drops the process guard of a contended attempt.
GiveBack(t) ==
    /\ pc[t] = "giveBack"
    /\ Goto(t, "decide")
    /\ DropProcessGuard(t)
    /\ UNCHANGED <<mode, expired, flock>>

\* Wrong: an execution that never gives up.
RetryForEver(t) == mode[t] = "execution"

\* lock_retry_allowed: only an execution has a deadline.
RetryAllowed(t) == mode[t] = "execution" /\ ~expired[t]

\* wait_for_run_lock sleeps and tries again ...
Retry(t) ==
    /\ pc[t] = "decide"
    /\ RetryAllowed(t)
    /\ Goto(t, "tryProcess")
    /\ UNCHANGED <<mode, expired, table, flock>>

\* The session is over: the thread has nothing any more.
End(t) ==
    /\ Goto(t, "idle")
    /\ mode' = [mode EXCEPT ![t] = NoMode]
    /\ expired' = [expired EXCEPT ![t] = FALSE]

\* ... or returns AlreadyRunning.
Refuse(t) ==
    /\ pc[t] = "decide"
    /\ ~RetryAllowed(t)
    /\ End(t)
    /\ UNCHANGED <<table, flock>>

\* Three seconds have passed since an execution began to try.
Expire(t) ==
    /\ mode[t] = "execution"
    /\ pc[t] \notin {"held", "unlocked"}
    /\ ~expired[t]
    /\ expired' = [expired EXCEPT ![t] = TRUE]
    /\ UNCHANGED <<pc, mode, table, flock>>

----------------------------------------------------------------------------
(* Ending a session, and a process *)

\* RunLockGuard::drop unlocks the file ...
UnlockFile(t) ==
    /\ pc[t] = "held"
    /\ Goto(t, "unlocked")
    /\ flock' = [flock EXCEPT ![t] = NoMode]
    /\ UNCHANGED <<mode, expired, table>>

\* Wrong: the process guard of an attempt whose file lock call failed is leaked.
DropGuardUnlessFailed(t) ==
    /\ pc[t] \in {"unlocked", "fail"}
    /\ End(t)
    /\ IF pc[t] = "fail" THEN UNCHANGED table ELSE DropProcessGuard(t)
    /\ UNCHANGED flock

\* ... before its process guard is dropped as one of its fields.
DropGuard(t) ==
    /\ pc[t] \in {"unlocked", "fail"}
    /\ End(t)
    /\ DropProcessGuard(t)
    /\ UNCHANGED flock

\* A process dies: its table is gone, the kernel closes its files.
CrashProcess(p) ==
    LET dead == {t \in Thread : ProcessOf[t] = p} IN
    /\ \E t \in dead : pc[t] # "idle"
    /\ pc' = [t \in Thread |-> IF t \in dead THEN "idle" ELSE pc[t]]
    /\ mode' = [t \in Thread |-> IF t \in dead THEN NoMode ELSE mode[t]]
    /\ expired' = [t \in Thread |-> IF t \in dead THEN FALSE ELSE expired[t]]
    /\ flock' = [t \in Thread |-> IF t \in dead THEN NoMode ELSE flock[t]]
    /\ table' = [table EXCEPT ![p] = Default]

----------------------------------------------------------------------------

Init ==
    /\ pc = [t \in Thread |-> "idle"]
    /\ mode = [t \in Thread |-> NoMode]
    /\ expired = [t \in Thread |-> FALSE]
    /\ table = [p \in Process |-> Default]
    /\ flock = [t \in Thread |-> NoMode]

\* What a thread does by itself once it has begun, until it has the lock.
Attempt(t) ==
    \/ TryProcess(t)
    \/ TryFile(t)
    \/ FileLockError(t)
    \/ GiveBack(t)
    \/ Retry(t)
    \/ Refuse(t)
    \/ DropGuard(t)

Next ==
    \/ \E t \in Thread :
        \/ \E m \in LockMode : Begin(t, m)
        \/ Attempt(t)
        \/ Expire(t)
        \/ UnlockFile(t)
    \/ \E p \in Process : CrashProcess(p)

Spec == Init /\ [][Next]_vars

\* A thread that is trying keeps running and time passes.  Nothing makes a
\* session begin or end: an analysis may hold the lock for as long as it likes.
Fairness == \A t \in Thread : WF_vars(Attempt(t)) /\ WF_vars(Expire(t))

LiveSpec == Spec /\ Fairness

----------------------------------------------------------------------------
(* Properties *)

\* The guards of a process that are counted as readers, or as its writer.
Guards(p, m) == {t \in Thread : ProcessOf[t] = p /\ pc[t] \in Guarded /\ mode[t] = m}

\* Every step of every interleaving leaves the table of a process equal to the
\* guards its threads really own: no place is lost, none is kept by a refused,
\* failed or dead attempt, and a writer is alone in its process.
TableMatchesGuards ==
    \A p \in Process :
        /\ table[p].readers = Cardinality(Guards(p, "shared"))
        /\ table[p].writer <=> Guards(p, "execution") # {}
        /\ table[p].writer => table[p].readers = 0
        /\ \A t, u \in Guards(p, "execution") : t = u

\* A thread has the file locked, in its own mode, exactly while it holds.
FileMatchesHolders ==
    \A t \in Thread : flock[t] = IF pc[t] = "held" THEN mode[t] ELSE NoMode

\* Who has a session has a mode.
ModesOfSessions == \A t \in Thread : mode[t] = NoMode <=> pc[t] = "idle"

\* An execution holds the lock alone, in its process and in all the others:
\* nobody analyses or mutates while a mutant is in the tree.
MutualExclusion ==
    \A t, u \in Thread :
        /\ t # u
        /\ pc[t] = "held"
        /\ pc[u] = "held"
        => mode[t] = "shared" /\ mode[u] = "shared"

\* The inductive invariant.
IInv ==
    /\ TypeOK
    /\ ModesOfSessions
    /\ TableMatchesGuards
    /\ FileMatchesHolders
    /\ MutualExclusion

\* What the sessions see of the two locks is one shared-exclusive lock that
\* nobody is refused unless a conflicting session is around when it tries.
PhaseOf(t) ==
    CASE pc[t] = "idle" -> "out"
      [] pc[t] \in {"tryProcess", "tryFile"} -> "asking"
      [] pc[t] \in {"giveBack", "decide"} -> "blocked"
      [] pc[t] = "held" -> "in"
      [] pc[t] \in {"unlocked", "fail"} -> "leaving"

Lock == INSTANCE SharedExclusiveLock WITH
    phase <- [t \in Thread |-> PhaseOf(t)],
    mode <- [t \in Thread |-> IF mode[t] = "execution" THEN "exclusive" ELSE mode[t]]

ImplementsLock == Lock!Spec

\* Every attempt ends, in a session or in an error, even if those who hold the
\* lock never let it go: an execution gives up after EXCLUSIVE_LOCK_WAIT.
AttemptsEnd ==
    \A t \in Thread : pc[t] = "tryProcess" ~> pc[t] \in {"held", "idle"}
=============================================================================
