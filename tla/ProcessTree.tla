---------------------------- MODULE ProcessTree ----------------------------
(***************************************************************************)
(* reporigor-process-tree on Unix: a child in a process group of its own,  *)
(* observed with waitid(WNOWAIT), terminated with SIGTERM and SIGKILL to   *)
(* the group, reaped, and verified to be gone with signal 0.               *)
(*                                                                         *)
(* The processes of the group run, fork and die between any two steps of   *)
(* the caller.  When the leader is reaped and the group is empty, the      *)
(* kernel may give its number to a stranger.                               *)
(***************************************************************************)
EXTENDS Naturals

CONSTANTS
    Member,         \* the descendants the leader may have
    Privileged,     \* descendants that our signals cannot reach (EPERM)
    Recycling,      \* may the kernel reuse the number of the group?
    MaxFaults,      \* how often a system call may fail for no good reason
    None

ASSUME ConstantsAssumption ==
    /\ Privileged \subseteq Member
    /\ MaxFaults \in Nat /\ Recycling \in BOOLEAN
    /\ None \notin {"Exited", "TimedOut"}

VARIABLES
    leader,         \* the direct child
    member,         \* [Member -> MemberState]
    recycled,       \* the group number names a group of strangers
    hit,            \* a signal of ours reached strangers
    pc,             \* the caller: Place
    call,           \* the public operation in progress
    observed,       \* CleanupState.observed
    issues,         \* CleanupState.issues: the stages that failed
    gone,           \* TerminationReport.tree_confirmed_gone
    status,         \* ProcessTree.leader_status is known
    final,          \* ProcessTree.final_report is there
    reason,         \* ProcessTree.completion_reason
    answer,         \* what the last finished call returned
    failed,         \* some call has returned a cleanup error
    faults          \* system calls that failed so far

kernel == <<leader, member, recycled>>
tree == <<status, final, reason>>
cleanup == <<observed, issues, gone>>
history == <<answer, failed>>
vars == <<kernel, hit, pc, call, tree, cleanup, history, faults>>

MemberState == {"unborn", "alive", "doomed", "dead"}
Place == {"idle", "graceful", "await", "force", "killLeader", "awaitForced", "reap", "verify",
          "finish", "dropped"}
Call == {"poll", "observeError", "terminate", "timeout"}
Stage == {"SendGraceful", "ObserveLeader", "SendForce", "KillLeader", "ReapLeader", "VerifyTree"}

TypeOK ==
    /\ leader \in {"running", "doomed", "zombie", "reaped"}
    /\ member \in [Member -> MemberState]
    /\ recycled \in BOOLEAN /\ hit \in BOOLEAN
    /\ pc \in Place
    /\ call \in Call
    /\ observed \in BOOLEAN /\ issues \in SUBSET Stage /\ gone \in BOOLEAN
    /\ status \in BOOLEAN /\ final \in BOOLEAN
    /\ reason \in {"Exited", "TimedOut", None}
    /\ answer \in {"none", "running", "exited", "timedOut", "terminated", "error"}
    /\ failed \in BOOLEAN
    /\ faults \in 0..MaxFaults

----------------------------------------------------------------------------
(* The processes *)

Living == {m \in Member : member[m] \in {"alive", "doomed"}}

\* The number of the group is ours while it has a member, a zombie included.
GroupIsOurs == leader # "reaped" \/ Living # {}

\* The leader exits by itself, by SIGTERM, or by SIGKILL.
LeaderExits ==
    /\ leader \in {"running", "doomed"}
    /\ leader' = "zombie"
    /\ UNCHANGED <<member, recycled, hit, pc, call, tree, cleanup, history, faults>>

\* A process of the group that is not being killed forks.
Fork(m) ==
    /\ leader = "running" \/ \E n \in Member : member[n] = "alive"
    /\ member[m] = "unborn"
    /\ member' = [member EXCEPT ![m] = "alive"]
    /\ UNCHANGED <<leader, recycled, hit, pc, call, tree, cleanup, history, faults>>

MemberExits(m) ==
    /\ member[m] \in {"alive", "doomed"}
    /\ member' = [member EXCEPT ![m] = "dead"]
    /\ UNCHANGED <<leader, recycled, hit, pc, call, tree, cleanup, history, faults>>

\* The kernel gives the number of the group to others, or takes it from them.
Recycle ==
    /\ Recycling
    /\ ~GroupIsOurs
    /\ recycled' = ~recycled
    /\ UNCHANGED <<leader, member, hit, pc, call, tree, cleanup, history, faults>>

\* SIGKILL to the group reaches whoever has its number.  A killed process
\* forks no more, but may take its time to die.
KillGroup ==
    /\ hit' = (hit \/ recycled)
    /\ leader' = IF leader = "running" THEN "doomed" ELSE leader
    /\ member' = [m \in Member |->
                     IF member[m] = "alive" /\ m \notin Privileged THEN "doomed" ELSE member[m]]
    /\ UNCHANGED recycled

\* A system call fails.
Fault == faults < MaxFaults /\ faults' = faults + 1

----------------------------------------------------------------------------
(* The public operations *)

\* cleanup_internal begins: nothing is observed but what the caller has seen.
StartCleanup(c, seen) ==
    /\ pc' = "graceful"
    /\ call' = c
    /\ observed' = seen
    /\ issues' = {}
    /\ gone' = FALSE
    /\ UNCHANGED <<kernel, hit, tree, history>>

Return(a) ==
    /\ pc' = "idle"
    /\ answer' = a
    /\ failed' = (failed \/ a = "error")

\* Wrong: the status of an exited leader is returned at once.
PollAtOnce ==
    /\ pc = "idle"
    /\ \/ /\ ~final
          /\ leader \in {"running", "doomed"}
          /\ Return("running")
          /\ UNCHANGED <<leader, tree>>
       \/ /\ ~final
          /\ leader = "zombie"
          /\ Return("exited")
          /\ leader' = "reaped" /\ status' = TRUE
          /\ UNCHANGED <<final, reason>>
    /\ UNCHANGED <<member, recycled, hit, call, cleanup, faults>>

\* poll_exit, as wait_slice calls it again and again; a known answer is given
\* at once, and a leader that has exited is not reaped yet.
Poll ==
    /\ pc = "idle"
    /\ \/ /\ final
          /\ Return(IF reason = "TimedOut" THEN "timedOut" ELSE "exited")
          /\ UNCHANGED <<kernel, hit, call, tree, cleanup, faults>>
       \/ /\ ~final
          /\ leader \in {"running", "doomed"}
          /\ Return("running")
          /\ UNCHANGED <<kernel, hit, call, tree, cleanup, faults>>
       \/ ~final /\ leader = "zombie" /\ StartCleanup("poll", TRUE) /\ UNCHANGED faults

\* waitid fails: there is no child to wait for any more, or for no reason.
PollFails ==
    /\ pc = "idle"
    /\ ~final
    /\ StartCleanup("observeError", FALSE)
    /\ IF leader = "reaped" THEN UNCHANGED faults ELSE Fault

\* terminate_bounded
Terminate ==
    /\ pc = "idle"
    /\ \/ /\ final
          /\ Return("terminated")
          /\ UNCHANGED <<kernel, hit, call, tree, cleanup, faults>>
       \/ ~final /\ StartCleanup("terminate", FALSE) /\ UNCHANGED faults

\* wait_bounded: the slice it polled for is over and the leader still runs.
WaitTimesOut ==
    /\ pc = "idle"
    /\ ~final
    /\ answer = "running"
    /\ StartCleanup("timeout", FALSE)
    /\ UNCHANGED faults

----------------------------------------------------------------------------
(* cleanup_internal *)

\* request_graceful_cleanup: SIGTERM has no effect the model does not allow
\* anyway, except on strangers.  A leader already observed gets no grace.
SendGraceful ==
    /\ pc = "graceful"
    /\ pc' = IF observed \/ status THEN "force" ELSE "await"
    /\ \/ hit' = (hit \/ recycled) /\ UNCHANGED <<issues, faults>>
       \/ Fault /\ issues' = issues \cup {"SendGraceful"} /\ UNCHANGED hit
    /\ UNCHANGED <<kernel, call, tree, observed, gone, history>>

\* Wrong: waitid without WNOWAIT.
ObserveReaping ==
    /\ pc \in {"await", "awaitForced"}
    /\ ~observed /\ ~status
    /\ leader = "zombie"
    /\ leader' = "reaped" /\ status' = TRUE
    /\ pc' = IF pc = "awaitForced" THEN "reap" ELSE pc
    /\ UNCHANGED <<member, recycled, hit, call, final, reason, cleanup, history, faults>>

\* observe_cleanup_exit, without reaping.
ObserveLeader ==
    /\ pc \in {"await", "awaitForced"}
    /\ ~observed
    /\ leader = "zombie"
    /\ observed' = TRUE
    /\ pc' = IF pc = "awaitForced" THEN "reap" ELSE pc
    /\ UNCHANGED <<kernel, hit, call, tree, issues, gone, history, faults>>

ObserveFails ==
    /\ pc \in {"await", "awaitForced"}
    /\ ~observed
    /\ Fault
    /\ issues' = issues \cup {"ObserveLeader"}
    /\ pc' = IF pc = "await" THEN "force" ELSE "reap"
    /\ UNCHANGED <<kernel, hit, call, tree, observed, gone, history>>

\* await_graceful_exit waits its time out, even for an observed leader.
GraceEnds ==
    /\ pc = "await"
    /\ pc' = "force"
    /\ UNCHANGED <<kernel, hit, call, tree, cleanup, history, faults>>

\* Where the cleanup goes once SIGKILL has been sent.
Forced == IF observed \/ status THEN "reap" ELSE "awaitForced"

\* request_forced_cleanup
SendForce ==
    /\ pc = "force"
    /\ \/ KillGroup /\ pc' = Forced /\ UNCHANGED <<issues, faults>>
       \/ /\ Fault
          /\ issues' = issues \cup {"SendForce"}
          /\ pc' = IF observed THEN Forced ELSE "killLeader"
          /\ UNCHANGED <<kernel, hit>>
    /\ UNCHANGED <<call, tree, observed, gone, history>>

\* kill_leader_after_force_failure; a reaped child is not signalled.
KillLeader ==
    /\ pc = "killLeader"
    /\ pc' = Forced
    /\ \/ /\ leader' = IF leader = "running" THEN "doomed" ELSE leader
          /\ UNCHANGED <<issues, faults>>
       \/ ~status /\ Fault /\ issues' = issues \cup {"KillLeader"} /\ UNCHANGED leader
    /\ UNCHANGED <<member, recycled, hit, call, tree, observed, gone, history>>

\* observe_forced_exit gives up after kill_timeout.
ForceTimesOut ==
    /\ pc = "awaitForced"
    /\ pc' = "reap"
    /\ UNCHANGED <<kernel, hit, call, tree, cleanup, history, faults>>

\* Wrong: a cleanup does not know that an earlier one has reaped the leader.
ReapForgetful ==
    /\ pc = "reap"
    /\ IF observed
       THEN pc' = "verify" /\ leader' = "reaped" /\ status' = TRUE /\ UNCHANGED issues
       ELSE pc' = "finish" /\ issues' = issues \cup {"ReapLeader"} /\ UNCHANGED <<leader, status>>
    /\ observed' = FALSE
    /\ UNCHANGED <<member, recycled, hit, call, final, reason, gone, history, faults>>

\* reap_observed_leader
Reap ==
    /\ pc = "reap"
    /\ \/ status /\ pc' = "verify" /\ UNCHANGED <<leader, status, observed, issues, faults>>
       \/ /\ ~status /\ ~observed
          /\ pc' = "finish"
          /\ issues' = issues \cup {"ReapLeader"}
          /\ UNCHANGED <<leader, status, observed, faults>>
       \/ /\ ~status /\ observed
          /\ pc' = "verify"
          /\ leader' = "reaped"
          /\ status' = TRUE
          /\ observed' = FALSE
          /\ UNCHANGED <<issues, faults>>
       \/ /\ ~status /\ observed
          /\ Fault
          /\ pc' = "finish"
          /\ issues' = issues \cup {"ReapLeader"}
          /\ observed' = FALSE
          /\ UNCHANGED <<leader, status>>
    /\ UNCHANGED <<member, recycled, hit, call, final, reason, gone, history>>

\* verify_tree_cleanup: kill with signal 0 finds nobody under the number ...
TreeGone ==
    /\ pc = "verify"
    /\ ~GroupIsOurs /\ ~recycled
    /\ gone' = TRUE
    /\ pc' = "finish"
    /\ UNCHANGED <<kernel, hit, call, tree, observed, issues, history, faults>>

\* Wrong: a tree that outlives kill_timeout is taken for gone.
VerifyGivesUp ==
    /\ pc = "verify"
    /\ gone' = TRUE
    /\ pc' = "finish"
    /\ UNCHANGED <<kernel, hit, call, tree, observed, issues, history, faults>>

\* ... or still somebody when kill_timeout is over, or fails.
VerifyFails ==
    /\ pc = "verify"
    /\ \/ (GroupIsOurs \/ recycled) /\ UNCHANGED faults
       \/ Fault
    /\ issues' = issues \cup {"VerifyTree"}
    /\ pc' = "finish"
    /\ UNCHANGED <<kernel, hit, call, tree, observed, gone, history>>

\* Wrong: the final report does not wait for the verification.
FinishUnverified ==
    /\ pc = "finish"
    /\ final' = status
    /\ Return(IF issues = {} THEN "terminated" ELSE "error")
    /\ UNCHANGED <<kernel, hit, call, status, reason, cleanup, faults>>

\* finish_cleanup, and what the operation makes of the report.
Finish ==
    /\ pc = "finish"
    /\ final' = (status /\ gone)
    /\ IF issues # {} \/ call = "observeError"
       THEN Return("error") /\ UNCHANGED reason
       ELSE \/ call = "poll" /\ Return("exited") /\ reason' = "Exited"
            \/ call = "timeout" /\ Return("timedOut") /\ reason' = "TimedOut"
            \/ call = "terminate" /\ Return("terminated") /\ UNCHANGED reason
    /\ UNCHANGED <<kernel, hit, call, status, cleanup, faults>>

\* Wrong: nothing is killed on drop.
DropQuietly ==
    /\ pc = "idle"
    /\ pc' = "dropped"
    /\ UNCHANGED <<kernel, hit, call, tree, cleanup, history, faults>>

\* Drop: without a final report, SIGKILL to the group, to the leader, and one
\* try to reap it.
Drop ==
    /\ pc = "idle"
    /\ pc' = "dropped"
    /\ IF final THEN UNCHANGED <<kernel, hit>> ELSE KillGroup
    /\ UNCHANGED <<call, tree, cleanup, history, faults>>

----------------------------------------------------------------------------

Init ==
    /\ leader = "running" /\ member = [m \in Member |-> "unborn"]
    /\ recycled = FALSE /\ hit = FALSE
    /\ pc = "idle" /\ call = "poll"
    /\ observed = FALSE /\ issues = {} /\ gone = FALSE
    /\ status = FALSE /\ final = FALSE /\ reason = None
    /\ answer = "none" /\ failed = FALSE
    /\ faults = 0

CleanupStep ==
    \/ SendGraceful \/ ObserveLeader \/ ObserveFails \/ GraceEnds
    \/ SendForce \/ KillLeader \/ ForceTimesOut
    \/ Reap \/ TreeGone \/ VerifyFails \/ Finish

Environment ==
    \/ LeaderExits
    \/ \E m \in Member : Fork(m) \/ MemberExits(m)
    \/ Recycle

Next ==
    \/ Poll \/ PollFails \/ Terminate \/ WaitTimesOut \/ Drop
    \/ CleanupStep
    \/ Environment

Spec == Init /\ [][Next]_vars

\* The cleanup keeps going, because each of its waits is bounded; what was
\* killed dies.  An exited leader is seen before kill_timeout is over if only
\* the wait is repeated, and the caller of a failed cleanup calls again.
Fairness ==
    /\ WF_vars(CleanupStep)
    /\ WF_vars(leader = "doomed" /\ LeaderExits)
    /\ \A m \in Member : WF_vars(member[m] = "doomed" /\ MemberExits(m))
    /\ SF_vars(ObserveLeader)
    /\ SF_vars(Terminate)

LiveSpec == Spec /\ Fairness

----------------------------------------------------------------------------
(* Properties *)

Conclusive == {"exited", "timedOut", "terminated"}

\* "Every successful leader exit is followed by unconditional descendant cleanup
\* before the leader status is exposed": whoever was told a status, by an exit,
\* a timeout or a termination, has nothing left of the tree, whatever forked,
\* lingered or was out of reach meanwhile.
StatusOnlyAfterCleanup ==
    answer \in Conclusive => leader = "reaped" /\ Living = {}

\* As long as no cleanup has failed, every signal is sent while the number of
\* the group is still ours: the leader is observed and not reaped before.
SignalsStayHome == hit => failed

\* A reaped leader is one whose status is known; a number is recycled only when
\* the group is empty; what was observed is still there to be reaped.
KernelAgrees ==
    /\ leader = "reaped" <=> status
    /\ recycled => ~GroupIsOurs
    /\ observed /\ pc # "idle" /\ pc # "dropped" => leader = "zombie"

\* What is final stays so: an empty tree, that no call works on any more.
FinalIsGone ==
    /\ final => ~GroupIsOurs /\ pc \in {"idle", "dropped"}
    /\ answer \in Conclusive => final

\* A cleanup that has reaped goes on to verify, and if that fails it says so.
CleanupInOrder ==
    /\ pc = "verify" => status
    /\ pc = "finish" => \/ status /\ gone /\ ~GroupIsOurs
                        \/ issues # {} /\ ~(status /\ gone)
    /\ status /\ ~final /\ ~failed => pc \in {"verify", "finish"}
    /\ pc \notin {"idle", "dropped", "finish"} => ~gone

\* The inductive invariant.
IInv ==
    /\ TypeOK
    /\ KernelAgrees
    /\ FinalIsGone
    /\ CleanupInOrder
    /\ SignalsStayHome

\* What the last call said, in the terms of ContainedTree.
Said ==
    IF answer \in Conclusive THEN "status" ELSE IF answer = "error" THEN "failed" ELSE answer

Contained == INSTANCE ContainedTree WITH alive <- GroupIsOurs, answer <- Said

\* The process tree keeps the promise commands are run on.
ImplementsContainedTree == Contained!Spec

\* No part of the tree is out of the reach of signals.
Reachable == Living \cap Privileged = {}

\* A cleanup that failed can be repeated until it succeeds, provided no part
\* of the tree is out of reach and nobody takes over its number.
CleanupSucceeds == [](Reachable /\ ~recycled) => <>(final \/ pc = "dropped")

\* Dropping the handle kills the tree, even after cleanups have failed; what
\* is out of reach may stay, and fork.
DropKills ==
    []Reachable => (pc = "dropped" ~> Living = {} /\ leader \in {"zombie", "reaped"})
=============================================================================
