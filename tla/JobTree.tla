------------------------------ MODULE JobTree ------------------------------
(***************************************************************************)
(* reporigor-process-tree on Windows: a child is created suspended, put    *)
(* into a Job Object that kills its processes when its last handle is      *)
(* closed, and resumed only then (windows.rs).  Any of the calls may fail, *)
(* and the program may die between any two of them; its handles are closed *)
(* then.  What is in the job is born in it, or was put into it.            *)
(***************************************************************************)
CONSTANTS
    Member     \* the descendants the leader may have

VARIABLES
    leader,    \* "none", "suspended", "running", "dead" or "reaped"
    members,   \* the descendants that are running
    born,      \* the descendants that ever ran
    job,       \* "none", "open" (not configured), "killOnClose" or "closed"
    assigned,  \* AssignProcessToJobObject has succeeded for the leader
    stage,     \* where the spawn is
    issues     \* CleanupIssue: the stages that failed while aborting

vars == <<leader, members, born, job, assigned, stage, issues>>

Kill == IF leader = "reaped" THEN "reaped" ELSE "dead"

\* Everything in the job dies, the leader only if it is in the job.
KillJob ==
    /\ leader' = IF assigned THEN Kill ELSE leader
    /\ members' = {}

\* The last handle of the job is closed: by a return, a drop or a death.
CloseJob ==
    /\ job' = IF job = "none" THEN "none" ELSE "closed"
    /\ IF job = "killOnClose" THEN KillJob ELSE UNCHANGED <<leader, members>>

Fail(at) == stage = at /\ stage' = "failed" /\ CloseJob /\ UNCHANGED <<born, assigned, issues>>

-----------------------------------------------------------------------------
\* create_kill_on_close_job, in two calls
CreateJob ==
    \/ /\ stage = "create" /\ stage' = "configure" /\ job' = "open"
       /\ UNCHANGED <<leader, members, born, assigned, issues>>
    \/ Fail("create")

ConfigureJob ==
    \/ /\ stage = "configure" /\ stage' = "spawn" /\ job' = "killOnClose"
       /\ UNCHANGED <<leader, members, born, assigned, issues>>
    \/ Fail("configure")

\* CREATE_SUSPENDED
SpawnProcess ==
    \/ /\ stage = "spawn" /\ stage' = "assign" /\ leader' = "suspended"
       /\ UNCHANGED <<members, born, job, assigned, issues>>
    \/ Fail("spawn")

\* Wrong: a child that cannot be assigned is resumed all the same.
AssignIfPossible ==
    /\ stage = "assign"
    /\ assigned' \in BOOLEAN /\ stage' = "locate"
    /\ UNCHANGED <<leader, members, born, job, issues>>

\* attach: the child joins the job; a failure aborts without a job to kill.
AssignProcess ==
    /\ stage = "assign"
    /\ \/ assigned' = TRUE /\ stage' = "locate"
       \/ assigned' = FALSE /\ stage' = "abortKill"
    /\ UNCHANGED <<leader, members, born, job, issues>>

\* locate_initial_thread and open_thread
FindThread ==
    /\ \/ stage = "locate" /\ stage' \in {"open", "abortForce"}
       \/ stage = "open" /\ stage' \in {"resume", "abortForce"}
    /\ UNCHANGED <<leader, members, born, job, assigned, issues>>

ResumeThread ==
    /\ stage = "resume"
    /\ \/ stage' = "owned" /\ leader' = IF leader = "suspended" THEN "running" ELSE leader
       \/ stage' = "abortForce" /\ UNCHANGED leader
    /\ UNCHANGED <<members, born, job, assigned, issues>>

-----------------------------------------------------------------------------
\* abort_suspended_spawn: TerminateJobObject if the child is in the job ...
AbortForce ==
    /\ stage = "abortForce" /\ stage' = "abortKill"
    /\ \/ KillJob /\ UNCHANGED issues
       \/ issues' = issues \cup {"SendForce"} /\ UNCHANGED <<leader, members>>
    /\ UNCHANGED <<born, job, assigned>>

\* ... Child::kill; a child that is dead already is no issue ...
AbortKill ==
    /\ stage = "abortKill" /\ stage' = "abortWait"
    /\ \/ leader' = Kill /\ UNCHANGED issues
       \/ leader # "dead" /\ issues' = issues \cup {"KillLeader"} /\ UNCHANGED leader
    /\ UNCHANGED <<members, born, job, assigned>>

\* ... and try_wait until it is reaped, fails or ABORT_SPAWN_TIMEOUT passes.
AbortWait ==
    /\ stage = "abortWait" /\ stage' = "aborted"
    /\ \/ leader = "dead" /\ leader' = "reaped" /\ UNCHANGED issues
       \/ issues' = issues \cup {"ReapLeader"} /\ UNCHANGED leader
    /\ UNCHANGED <<members, born, job, assigned>>

Abandon == Fail("aborted")

-----------------------------------------------------------------------------
\* force_on_drop: whatever of it fails, the job is closed last.
Drop ==
    /\ stage = "owned" /\ stage' = "dropped"
    /\ CloseJob
    /\ UNCHANGED <<born, assigned, issues>>

\* The program dies, at any moment; the kernel closes its handles.
Die ==
    /\ stage \notin {"failed", "dropped", "died"} /\ stage' = "died"
    /\ CloseJob
    /\ UNCHANGED <<born, assigned, issues>>

\* The processes: a child of a process in the job is in the job.
Fork(m) ==
    /\ leader = "running" \/ members # {}
    /\ m \notin born
    /\ born' = born \cup {m} /\ members' = members \cup {m}
    /\ UNCHANGED <<leader, job, assigned, stage, issues>>

Exit ==
    /\ \/ leader = "running" /\ leader' = "dead" /\ UNCHANGED members
       \/ \E m \in members : members' = members \ {m} /\ UNCHANGED leader
    /\ UNCHANGED <<born, job, assigned, stage, issues>>

Init ==
    /\ leader = "none" /\ members = {} /\ born = {} /\ job = "none" /\ assigned = FALSE
    /\ stage = "create" /\ issues = {}

Next ==
    \/ CreateJob \/ ConfigureJob \/ SpawnProcess \/ AssignProcess \/ FindThread \/ ResumeThread
    \/ AbortForce \/ AbortKill \/ AbortWait \/ Abandon \/ Drop \/ Die
    \/ \E m \in Member : Fork(m)
    \/ Exit

Spec == Init /\ [][Next]_vars

-----------------------------------------------------------------------------
\* Nothing of the command outlives the handle: after a drop or a death, at
\* whatever call, no process runs; and an error that reports no issue of its
\* own leaves no process at all, not even a suspended one (attach,
\* abort_suspended_spawn, kill on close).
NothingOutlivesTheJob ==
    /\ stage \in {"failed", "dropped", "died"} => leader # "running" /\ members = {}
    /\ stage = "failed" /\ issues = {} => leader \in {"none", "reaped"}
=============================================================================
