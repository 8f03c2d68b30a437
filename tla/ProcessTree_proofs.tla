------------------------ MODULE ProcessTree_proofs ------------------------
(***************************************************************************)
(* For any set of descendants, any of them out of reach of signals, with   *)
(* group numbers recycled and system calls failing: a status is exposed    *)
(* only when the tree is gone, no signal goes astray before a cleanup has  *)
(* failed, and ProcessTree implements ContainedTree.  On Windows, whatever *)
(* call fails: nothing runs outside of its Job Object, and nothing         *)
(* outlives the handle.                                                    *)
(***************************************************************************)
EXTENDS MCProcessTree, TLAPS

\* No process of an empty group can come back, and only Reap touches the status.
LEMMA TypesStep ==
    ASSUME TypeOK, [Next]_vars
    PROVE  TypeOK'
<1> USE ConstantsAssumption DEF TypeOK
<1>1. ASSUME Fault PROVE faults' \in 0..MaxFaults
  BY <1>1 DEF Fault
<1>a. ASSUME NEW s \in Stage PROVE issues \cup {s} \in SUBSET Stage
  BY <1>a
<1>b. /\ issues \cup {"SendGraceful"} \in SUBSET Stage
      /\ issues \cup {"SendForce"} \in SUBSET Stage
      /\ issues \cup {"KillLeader"} \in SUBSET Stage
      /\ issues \cup {"ReapLeader"} \in SUBSET Stage
  BY <1>a DEF Stage
<1>2. ASSUME NEW c \in Call, NEW seen \in BOOLEAN, StartCleanup(c, seen), faults' \in 0..MaxFaults
      PROVE  TypeOK'
  <2>1. /\ pc' \in Place /\ call' \in Call /\ observed' \in BOOLEAN
        /\ issues' \in SUBSET Stage /\ gone' \in BOOLEAN
    BY <1>2 DEF StartCleanup, Place
  <2>2. UNCHANGED <<leader, member, recycled, hit, status, final, reason, answer, failed>>
    BY <1>2 DEF StartCleanup, kernel, tree, history
  <2>3. QED
    BY <1>2, <2>1, <2>2
<1>c. ASSUME NEW a \in {"timedOut", "exited", "running", "terminated"}, Return(a),
             UNCHANGED <<kernel, hit, call, tree, cleanup, faults>>
      PROVE  TypeOK'
  <2>1. /\ pc' \in Place /\ failed' \in BOOLEAN
        /\ answer' \in {"none", "running", "exited", "timedOut", "terminated", "error"}
    BY <1>c DEF Return, Place
  <2>2. /\ UNCHANGED <<leader, member, recycled, hit, call>>
        /\ UNCHANGED <<status, final, reason, observed, issues, gone, faults>>
    BY <1>c DEF kernel, tree, cleanup
  <2>3. QED
    BY <2>1, <2>2
<1>3. CASE Poll
  <2>1. CASE /\ UNCHANGED <<kernel, hit, call, tree, cleanup, faults>>
             /\ \E a \in {"timedOut", "exited", "running"} : Return(a)
    BY <1>c, <2>1
  <2>2. CASE ~final /\ StartCleanup("poll", TRUE) /\ UNCHANGED faults
    BY <1>2, <2>2 DEF Call
  <2>3. QED
    BY <1>3, <2>1, <2>2 DEF Poll
<1>4. CASE PollFails
  BY <1>1, <1>2, <1>4 DEF PollFails, Call
<1>5. CASE Terminate
  BY <1>2, <1>c, <1>5 DEF Terminate, Call
<1>6. CASE WaitTimesOut
  BY <1>2, <1>6 DEF WaitTimesOut, Call
<1>7. CASE Drop
  <2>1. /\ hit' \in BOOLEAN /\ recycled' \in BOOLEAN
        /\ leader' \in {"running", "doomed", "zombie", "reaped"}
    BY <1>7 DEF Drop, KillGroup, kernel
  <2>2. member' \in [Member -> MemberState]
    BY <1>7 DEF Drop, KillGroup, kernel, MemberState
  <2>3. pc' \in Place
    BY <1>7 DEF Drop, Place
  <2>4. UNCHANGED <<call, observed, issues, gone, status, final, reason, answer, failed, faults>>
    BY <1>7 DEF Drop, tree, cleanup, history
  <2>5. QED
    BY <2>1, <2>2, <2>3, <2>4
<1>8. CASE SendGraceful
  <2>1. faults' \in 0..MaxFaults /\ issues' \in SUBSET Stage /\ hit' \in BOOLEAN
    BY <1>1, <1>8, <1>b DEF SendGraceful
  <2>2. QED
    BY <1>8, <2>1 DEF SendGraceful, kernel, tree, history, Place
<1>9. CASE ObserveLeader
  BY <1>9 DEF ObserveLeader, kernel, tree, history, Place
<1>10. CASE ObserveFails
  BY <1>1, <1>10 DEF ObserveFails, kernel, tree, history, Place, Stage
<1>11. CASE GraceEnds \/ ForceTimesOut
  BY <1>11 DEF GraceEnds, ForceTimesOut, kernel, tree, cleanup, history, Place
<1>12. CASE SendForce
  <2>1. faults' \in 0..MaxFaults /\ issues' \in SUBSET Stage /\ pc' \in Place
    BY <1>1, <1>12, <1>b DEF SendForce, Forced, Place
  <2>2. KillGroup \/ UNCHANGED <<kernel, hit>>
    BY <1>12 DEF SendForce
  <2>3. hit' \in BOOLEAN /\ recycled' \in BOOLEAN /\ member' \in [Member -> MemberState]
    BY <2>2 DEF KillGroup, kernel, MemberState
  <2>4. leader' \in {"running", "doomed", "zombie", "reaped"}
    BY <2>2 DEF KillGroup, kernel
  <2>5. QED
    BY <1>12, <2>1, <2>3, <2>4 DEF SendForce, tree, history
<1>13. CASE KillLeader
  <2>1. faults' \in 0..MaxFaults /\ issues' \in SUBSET Stage /\ pc' \in Place
    BY <1>1, <1>13, <1>b DEF KillLeader, Forced, Place
  <2>2. leader' \in {"running", "doomed", "zombie", "reaped"}
    BY <1>13 DEF KillLeader
  <2>3. QED
    BY <1>13, <2>1, <2>2 DEF KillLeader, tree, history
<1>14. CASE Reap
  <2>1. faults' \in 0..MaxFaults /\ issues' \in SUBSET Stage /\ pc' \in Place
    BY <1>1, <1>14, <1>b DEF Reap, Place
  <2>2. leader' \in {"running", "doomed", "zombie", "reaped"} /\ {status', observed'} \subseteq BOOLEAN
    BY <1>14 DEF Reap
  <2>3. QED
    BY <1>14, <2>1, <2>2 DEF Reap, history
<1>15. CASE TreeGone
  BY <1>15 DEF TreeGone, kernel, tree, history, Place
<1>16. CASE VerifyFails
  BY <1>1, <1>16 DEF VerifyFails, kernel, tree, history, Place, Stage
<1>17. CASE Finish
  BY <1>17 DEF Finish, Return, kernel, cleanup, Place
<1>18. CASE LeaderExits
  BY <1>18 DEF LeaderExits, tree, cleanup, history
<1>19. ASSUME NEW m \in Member, Fork(m) \/ MemberExits(m) PROVE TypeOK'
  BY <1>19 DEF Fork, MemberExits, tree, cleanup, history, MemberState
<1>20. CASE Recycle
  BY <1>20 DEF Recycle, tree, cleanup, history
<1>21. CASE UNCHANGED vars
  BY <1>21 DEF vars, kernel, tree, cleanup, history
<1>22. QED
  BY <1>3, <1>4, <1>5, <1>6, <1>7, <1>8, <1>9, <1>10, <1>11, <1>12, <1>13, <1>14, <1>15, <1>16,
     <1>17, <1>18, <1>19, <1>20, <1>21 DEF Next, CleanupStep, Environment

\* An empty group stays empty, and SIGKILL neither empties nor refills it.
LEMMA GroupStep ==
    ASSUME TypeOK, [Next]_vars
    PROVE  /\ ~GroupIsOurs => ~GroupIsOurs'
           /\ KillGroup => (GroupIsOurs' <=> GroupIsOurs)
<1>1. ASSUME KillGroup PROVE GroupIsOurs' <=> GroupIsOurs
  BY <1>1 DEF KillGroup, GroupIsOurs, Living, TypeOK, MemberState
<1>2. ASSUME ~GroupIsOurs, leader' = leader, member' = member PROVE ~GroupIsOurs'
  BY <1>2 DEF GroupIsOurs, Living
<1>3. ASSUME ~GroupIsOurs, NEW m \in Member, Fork(m) \/ MemberExits(m) PROVE ~GroupIsOurs'
  BY <1>3 DEF GroupIsOurs, Living, Fork, MemberExits, TypeOK, MemberState
<1>4. ASSUME ~GroupIsOurs, LeaderExits \/ KillLeader \/ Reap PROVE ~GroupIsOurs'
  BY <1>4 DEF GroupIsOurs, Living, LeaderExits, KillLeader, Reap
<1>5. ASSUME ~GroupIsOurs, Drop \/ SendForce PROVE ~GroupIsOurs'
  BY <1>1, <1>2, <1>5 DEF Drop, SendForce, kernel
<1>6. ASSUME ~GroupIsOurs,
             \/ Poll \/ PollFails \/ Terminate \/ WaitTimesOut \/ SendGraceful \/ ObserveLeader
             \/ ObserveFails \/ GraceEnds \/ ForceTimesOut \/ TreeGone \/ VerifyFails \/ Finish
             \/ Recycle \/ UNCHANGED vars
      PROVE  ~GroupIsOurs'
  BY <1>2, <1>6 DEF Poll, PollFails, Terminate, WaitTimesOut, StartCleanup, SendGraceful,
     ObserveLeader, ObserveFails, GraceEnds, ForceTimesOut, TreeGone, VerifyFails, Finish, Recycle,
     vars, kernel
<1>7. QED
  BY <1>1, <1>3, <1>4, <1>5, <1>6 DEF Next, CleanupStep, Environment

\* Every step keeps the inductive invariant.
LEMMA InvariantStep ==
    ASSUME IInv, [Next]_vars
    PROVE  IInv'
<1> DEFINE Rest == KernelAgrees /\ FinalIsGone /\ CleanupInOrder /\ SignalsStayHome
<1>0. TypeOK /\ TypeOK' /\ Rest
  BY TypesStep DEF IInv
<1> SUFFICES Rest'
  BY <1>0 DEF IInv
<1>1. /\ ~GroupIsOurs => ~GroupIsOurs'
      /\ KillGroup => (GroupIsOurs' <=> GroupIsOurs)
      /\ UNCHANGED <<leader, member>> => (GroupIsOurs' <=> GroupIsOurs)
  BY <1>0, GroupStep DEF GroupIsOurs, Living
<1>2. ~status => GroupIsOurs
  BY <1>0 DEF KernelAgrees, GroupIsOurs
<1> USE DEF KernelAgrees, FinalIsGone, CleanupInOrder, SignalsStayHome, Conclusive
<1>3. ASSUME NEW c \in Call, NEW seen \in BOOLEAN, StartCleanup(c, seen), pc = "idle", ~final,
             seen => leader = "zombie"
      PROVE  Rest'
  BY <1>0, <1>1, <1>3 DEF StartCleanup, kernel, tree, history
<1>4. CASE Poll
  <2>1. CASE /\ pc = "idle" /\ UNCHANGED <<kernel, hit, call, tree, cleanup, faults>>
             /\ \/ final /\ Return(IF reason = "TimedOut" THEN "timedOut" ELSE "exited")
                \/ Return("running")
    <3>1. pc' = "idle" /\ failed' = failed /\ (answer' \in Conclusive => final)
      BY <1>0, <2>1 DEF Return, TypeOK
    <3>2. QED
      BY <1>0, <1>1, <2>1, <3>1 DEF kernel, tree, cleanup
  <2>2. CASE pc = "idle" /\ ~final /\ leader = "zombie" /\ StartCleanup("poll", TRUE)
    BY <1>3, <2>2 DEF Call
  <2>3. QED
    BY <1>4, <2>1, <2>2 DEF Poll
<1>5. CASE PollFails
  BY <1>3, <1>5 DEF PollFails, Call
<1>6. CASE Terminate
  <2>1. CASE /\ pc = "idle" /\ final /\ UNCHANGED <<kernel, hit, call, tree, cleanup, faults>>
             /\ Return("terminated")
    BY <1>0, <1>1, <2>1 DEF Return, kernel, tree, cleanup
  <2>2. CASE pc = "idle" /\ ~final /\ StartCleanup("terminate", FALSE)
    BY <1>3, <2>2 DEF Call
  <2>3. QED
    BY <1>6, <2>1, <2>2 DEF Terminate
<1>7. CASE WaitTimesOut
  BY <1>3, <1>7 DEF WaitTimesOut, Call
<1>8. CASE Drop
  <2>1. final \/ hit' = (hit \/ recycled)
    BY <1>8 DEF Drop, KillGroup
  <2>2. recycled' = recycled /\ (leader' = "reaped" <=> leader = "reaped")
    BY <1>8 DEF Drop, KillGroup, kernel
  <2>3. GroupIsOurs' <=> GroupIsOurs
    BY <1>1, <1>8 DEF Drop, kernel
  <2>4. hit' => failed
    BY <1>0, <1>2, <1>8, <2>1 DEF Drop, kernel
  <2>5. QED
    BY <1>0, <1>8, <2>2, <2>3, <2>4 DEF Drop, tree, cleanup, history
<1>9. CASE SendGraceful
  <2>1. hit' => failed
    BY <1>0, <1>2, <1>9 DEF SendGraceful
  <2>2. QED
    BY <1>0, <1>1, <1>9, <2>1 DEF SendGraceful, kernel, tree, history
<1>10. CASE ObserveLeader
  BY <1>0, <1>1, <1>10 DEF ObserveLeader, kernel, tree, history
<1>11. CASE ObserveFails
  BY <1>0, <1>1, <1>11 DEF ObserveFails, kernel, tree, history
<1>12. CASE GraceEnds \/ ForceTimesOut
  BY <1>0, <1>1, <1>12 DEF GraceEnds, ForceTimesOut, kernel, tree, cleanup, history
<1>13. CASE SendForce
  <2>1. pc = "force" /\ pc' \in {"reap", "awaitForced", "killLeader"}
    BY <1>13 DEF SendForce, Forced
  <2>2. hit' => failed
    BY <1>0, <1>2, <1>13 DEF SendForce, KillGroup
  <2>3. /\ recycled' = recycled
        /\ leader' = "reaped" <=> leader = "reaped"
        /\ leader = "zombie" => leader' = "zombie"
    BY <1>13 DEF SendForce, KillGroup, kernel
  <2>4. GroupIsOurs' <=> GroupIsOurs
    BY <1>1, <1>13 DEF SendForce, kernel
  <2>5. QED
    BY <1>0, <1>13, <2>1, <2>2, <2>3, <2>4 DEF SendForce, tree, history
<1>14. CASE KillLeader
  <2>1. pc = "killLeader" /\ pc' \in {"reap", "awaitForced"}
    BY <1>14 DEF KillLeader, Forced
  <2>2. /\ leader' = "reaped" <=> leader = "reaped"
        /\ leader = "zombie" => leader' = "zombie"
    BY <1>14 DEF KillLeader
  <2>3. QED
    BY <1>0, <1>1, <1>14, <2>1, <2>2 DEF KillLeader, tree, history
<1>15. CASE Reap
  <2>1. recycled' = recycled /\ (recycled => status)
    BY <1>0, <1>2, <1>15 DEF Reap
  <2>2. CASE status
    BY <1>0, <1>1, <1>15, <2>1, <2>2 DEF Reap, history
  <2>3. CASE ~status
    BY <1>0, <1>15, <2>1, <2>3 DEF Reap, history
  <2>4. QED
    BY <2>2, <2>3
<1>16. CASE TreeGone
  BY <1>0, <1>1, <1>16 DEF TreeGone, kernel, tree, history
<1>17. CASE VerifyFails
  BY <1>0, <1>1, <1>17 DEF VerifyFails, kernel, tree, history
<1>18. CASE Finish
  BY <1>0, <1>1, <1>18 DEF Finish, Return, kernel, cleanup
<1>19. CASE LeaderExits
  <2>1. GroupIsOurs /\ GroupIsOurs' /\ leader # "reaped" /\ leader' = "zombie"
    BY <1>19 DEF LeaderExits, GroupIsOurs
  <2>2. QED
    BY <1>0, <1>19, <2>1 DEF LeaderExits, tree, cleanup, history
<1>20. ASSUME NEW m \in Member, Fork(m) \/ MemberExits(m) PROVE Rest'
  BY <1>0, <1>1, <1>20 DEF Fork, MemberExits, tree, cleanup, history
<1>21. CASE Recycle
  BY <1>0, <1>1, <1>21 DEF Recycle, tree, cleanup, history
<1>22. CASE UNCHANGED vars
  BY <1>0, <1>1, <1>22 DEF vars, kernel, tree, cleanup, history
<1>23. QED
  BY <1>4, <1>5, <1>6, <1>7, <1>8, <1>9, <1>10, <1>11, <1>12, <1>13, <1>14, <1>15, <1>16, <1>17,
     <1>18, <1>19, <1>20, <1>21, <1>22 DEF Next, CleanupStep, Environment

\* The inductive invariant of the process tree.
THEOREM TreeInvariant == Spec => []IInv
<1>1. Init => IInv
  <2>1. Init => faults \in 0..MaxFaults
    BY ConstantsAssumption DEF Init
  <2>2. Init => TypeOK
    BY <2>1 DEF Init, TypeOK, MemberState, Place, Call
  <2>3. QED
    BY <2>2 DEF Init, IInv, KernelAgrees, FinalIsGone, CleanupInOrder, SignalsStayHome, GroupIsOurs,
                Conclusive
<1>2. IInv /\ [Next]_vars => IInv'
  BY InvariantStep
<1>3. QED
  BY <1>1, <1>2, PTL DEF Spec

\* A status is exposed only when the leader is reaped and no descendant that
\* stayed in the group is left.
THEOREM StatusMeansGone == Spec => []StatusOnlyAfterCleanup
<1>1. IInv => StatusOnlyAfterCleanup
  BY DEF IInv, FinalIsGone, StatusOnlyAfterCleanup, GroupIsOurs
<1>2. QED
  BY <1>1, TreeInvariant, PTL

\* Before a cleanup has failed, no signal reaches a recycled group.
THEOREM SignalsAreOurs == Spec => []SignalsStayHome
<1>1. IInv => SignalsStayHome
  BY DEF IInv
<1>2. QED
  BY <1>1, TreeInvariant, PTL

----------------------------------------------------------------------------

LEMMA TreeStep ==
    ASSUME IInv, IInv', [Next]_vars
    PROVE  [Contained!Next]_(Contained!vars)
<1>1. /\ answer \in Conclusive => final /\ ~GroupIsOurs
      /\ ~GroupIsOurs => ~GroupIsOurs'
      /\ UNCHANGED <<leader, member>> => (GroupIsOurs' <=> GroupIsOurs)
      /\ GroupIsOurs \in BOOLEAN
  BY GroupStep DEF IInv, FinalIsGone, GroupIsOurs, Living
<1>2. ASSUME UNCHANGED answer PROVE [Contained!Next]_(Contained!vars)
  <2>1. CASE GroupIsOurs' <=> GroupIsOurs
    BY <1>2, <2>1 DEF Contained!vars, GroupIsOurs, Said
  <2>2. CASE GroupIsOurs /\ ~GroupIsOurs'
    BY <1>2, <2>2 DEF Contained!Next, Contained!Die, Said
  <2>3. QED
    BY <1>1, <2>1, <2>2
<1>3. ASSUME NEW a, Return(a), UNCHANGED <<leader, member>>,
             \/ a \in {"running", "error"} /\ ~final
             \/ a \in Conclusive /\ final'
      PROVE  [Contained!Next]_(Contained!vars)
  <2>1. GroupIsOurs' <=> GroupIsOurs
    BY <1>1, <1>3
  <2>2. CASE a \in {"running", "error"} /\ ~final
    <3>1. answer' \in {"running", "error"} /\ answer \notin Conclusive
      BY <1>1, <1>3, <2>2 DEF Return
    <3>2. Said # "status"
      BY <3>1 DEF Said, Conclusive, IInv, TypeOK
    <3>3. Said' \in {"running", "failed"}
      BY <3>1 DEF Said, Conclusive
    <3>4. Contained!Inconclusive
      BY <2>1, <3>2, <3>3 DEF Contained!Inconclusive, GroupIsOurs
    <3>5. QED
      BY <3>4 DEF Contained!Next
  <2>3. CASE a \in Conclusive /\ final'
    <3>1. ~GroupIsOurs /\ ~GroupIsOurs'
      BY <1>3, <2>1, <2>3 DEF IInv, FinalIsGone
    <3>2. Said' = "status"
      BY <1>3, <2>3 DEF Return, Said, Conclusive
    <3>3. Contained!Conclusive
      BY <3>1, <3>2 DEF Contained!Conclusive, GroupIsOurs
    <3>4. QED
      BY <3>3 DEF Contained!Next
  <2>4. QED
    BY <1>3, <2>2, <2>3
<1>4. CASE Poll
  <2>1. CASE UNCHANGED answer
    BY <1>2, <2>1
  <2>2. CASE final
    <3>1. UNCHANGED <<kernel, tree>> /\ \E a \in {"timedOut", "exited"} : Return(a)
      BY <1>4, <2>2 DEF Poll
    <3>2. QED
      BY <1>3, <2>2, <3>1 DEF kernel, tree, Conclusive
  <2>3. CASE ~final /\ Return("running") /\ UNCHANGED kernel
    BY <1>3, <2>3 DEF kernel
  <2>4. QED
    BY <1>4, <2>1, <2>2, <2>3 DEF Poll, StartCleanup, history
<1>5. CASE Terminate
  <2>1. CASE UNCHANGED answer
    BY <1>2, <2>1
  <2>2. CASE final /\ Return("terminated") /\ UNCHANGED <<kernel, tree>>
    BY <1>3, <2>2 DEF kernel, tree, Conclusive
  <2>3. QED
    BY <1>5, <2>1, <2>2 DEF Terminate, StartCleanup, history
<1>6. CASE Finish
  <2>1. ~final /\ ((status /\ gone) \/ issues # {})
    BY <1>6 DEF Finish, IInv, FinalIsGone, CleanupInOrder
  <2>2. QED
    BY <1>3, <1>6, <2>1 DEF Finish, kernel, Conclusive
<1>7. CASE PollFails \/ WaitTimesOut
  BY <1>2, <1>7 DEF PollFails, WaitTimesOut, StartCleanup, history
<1>8. CASE \/ SendGraceful \/ ObserveLeader \/ ObserveFails \/ GraceEnds \/ SendForce \/ KillLeader
           \/ ForceTimesOut \/ Reap \/ TreeGone \/ VerifyFails \/ Drop
  BY <1>2, <1>8 DEF SendGraceful, ObserveLeader, ObserveFails, GraceEnds, SendForce, KillLeader,
     ForceTimesOut, Reap, TreeGone, VerifyFails, Drop, history
<1>9. CASE Environment
  BY <1>2, <1>9 DEF Environment, LeaderExits, Fork, MemberExits, Recycle, history
<1>10. CASE UNCHANGED vars
  BY <1>2, <1>10 DEF vars, history
<1>11. QED
  BY <1>4, <1>5, <1>6, <1>7, <1>8, <1>9, <1>10 DEF Next, CleanupStep

\* The process tree implements the promise that commands are run on.
THEOREM TreeKeepsPromise == Spec => ImplementsContainedTree
<1>1. Init => Contained!Init
  BY DEF Init, Contained!Init, GroupIsOurs, Said, Conclusive
<1>2. IInv /\ IInv' /\ [Next]_vars => [Contained!Next]_(Contained!vars)
  BY TreeStep
<1>3. QED
  BY <1>1, <1>2, TreeInvariant, PTL DEF Spec, ImplementsContainedTree, Contained!Spec

-----------------------------------------------------------------------------
(* The spawn into a Job Object, for any set of descendants *)

JobStage ==
    {"create", "configure", "spawn", "assign", "locate", "open", "resume", "owned",
     "abortForce", "abortKill", "abortWait", "aborted", "failed", "dropped", "died"}
JobEnded == {"failed", "dropped", "died"}

JobTypeOK ==
    /\ jobLeader \in {"none", "suspended", "running", "dead", "reaped"}
    /\ members \in SUBSET Member
    /\ job \in {"none", "open", "killOnClose", "closed"}
    /\ assigned \in BOOLEAN
    /\ stage \in JobStage
    /\ jobIssues \in SUBSET {"SendForce", "KillLeader", "ReapLeader"}

\* Which calls have been made, at each stage.
JobCallsInOrder ==
    /\ stage \in {"create", "configure", "spawn"} => jobLeader = "none" /\ ~assigned /\ jobIssues = {}
    /\ stage \in {"create", "configure"} => job # "killOnClose"
    /\ stage \notin {"create", "configure"} \cup JobEnded => job = "killOnClose"
    /\ stage = "assign" => jobLeader = "suspended" /\ ~assigned
    /\ stage \in {"locate", "open", "resume", "owned", "abortForce"} => assigned

\* Whatever runs is in the job, and owned.
RunsInTheJob == jobLeader = "running" \/ members # {} => stage = "owned"

\* An abort that met no issue has killed, then reaped the child.
AbortWorks ==
    /\ stage = "abortWait" /\ jobIssues = {} => jobLeader = "dead"
    /\ stage = "aborted" /\ jobIssues = {} => jobLeader = "reaped"
    /\ stage \in {"locate", "open", "resume", "abortForce", "abortKill"} => jobLeader \in {"suspended", "dead"}

JobIInv == JobTypeOK /\ JobCallsInOrder /\ RunsInTheJob /\ AbortWorks /\ Jobs!NothingOutlivesTheJob

-----------------------------------------------------------------------------
\* A step of the spawn or of the processes keeps the types.
LEMMA JobKeepsTypes ==
    ASSUME JobTypeOK, [Jobs!Next]_(Jobs!vars)
    PROVE  JobTypeOK'
<1> USE DEF JobTypeOK, JobStage
<1>1. CASE Jobs!CreateJob \/ Jobs!ConfigureJob \/ Jobs!SpawnProcess \/ Jobs!Abandon
  BY <1>1 DEF Jobs!CreateJob, Jobs!ConfigureJob, Jobs!SpawnProcess, Jobs!Abandon, Jobs!Fail,
              Jobs!CloseJob, Jobs!KillJob, Jobs!Kill
<1>2. CASE Jobs!AssignProcess \/ Jobs!FindThread \/ Jobs!ResumeThread
  BY <1>2 DEF Jobs!AssignProcess, Jobs!FindThread, Jobs!ResumeThread
<1>3. CASE Jobs!AbortForce \/ Jobs!AbortKill \/ Jobs!AbortWait
  BY <1>3 DEF Jobs!AbortForce, Jobs!AbortKill, Jobs!AbortWait, Jobs!KillJob, Jobs!Kill
<1>4. CASE Jobs!Drop \/ Jobs!Die
  BY <1>4 DEF Jobs!Drop, Jobs!Die, Jobs!CloseJob, Jobs!KillJob, Jobs!Kill
<1>5. ASSUME NEW m \in Member, Jobs!Fork(m) PROVE JobTypeOK'
  BY <1>5 DEF Jobs!Fork
<1>6. CASE Jobs!Exit
  BY <1>6 DEF Jobs!Exit
<1>7. CASE UNCHANGED Jobs!vars
  BY <1>7 DEF Jobs!vars
<1>8. QED
  BY <1>1, <1>2, <1>3, <1>4, <1>5, <1>6, <1>7 DEF Jobs!Next

\* The spawn, on its way to the handle or to the abort.
LEMMA JobSpawnKeeps ==
    ASSUME JobIInv,
           \/ Jobs!CreateJob \/ Jobs!ConfigureJob \/ Jobs!SpawnProcess
           \/ Jobs!AssignProcess \/ Jobs!FindThread \/ Jobs!ResumeThread
    PROVE  JobCallsInOrder' /\ RunsInTheJob' /\ AbortWorks' /\ Jobs!NothingOutlivesTheJob'
<1> USE DEF JobIInv, JobCallsInOrder, RunsInTheJob, AbortWorks, Jobs!NothingOutlivesTheJob, JobEnded
<1>1. CASE Jobs!CreateJob
  BY <1>1 DEF Jobs!CreateJob, Jobs!Fail, Jobs!CloseJob, Jobs!KillJob, Jobs!Kill
<1>2. CASE Jobs!ConfigureJob
  BY <1>2 DEF Jobs!ConfigureJob, Jobs!Fail, Jobs!CloseJob, Jobs!KillJob, Jobs!Kill
<1>3. CASE Jobs!SpawnProcess
  BY <1>3 DEF Jobs!SpawnProcess, Jobs!Fail, Jobs!CloseJob, Jobs!KillJob, Jobs!Kill
<1>4. CASE Jobs!AssignProcess
  BY <1>4 DEF Jobs!AssignProcess
<1>5. CASE Jobs!FindThread
  BY <1>5 DEF Jobs!FindThread
<1>6. CASE Jobs!ResumeThread
  BY <1>6 DEF Jobs!ResumeThread
<1>7. QED
  BY <1>1, <1>2, <1>3, <1>4, <1>5, <1>6

\* The abort: each stage that fails leaves an issue, and closes the job in the end.
LEMMA JobAbortKeeps ==
    ASSUME JobIInv, Jobs!AbortForce \/ Jobs!AbortKill \/ Jobs!AbortWait \/ Jobs!Abandon
    PROVE  JobCallsInOrder' /\ RunsInTheJob' /\ AbortWorks' /\ Jobs!NothingOutlivesTheJob'
<1> USE DEF JobIInv, JobTypeOK, JobCallsInOrder, RunsInTheJob, AbortWorks,
            Jobs!NothingOutlivesTheJob, JobEnded
<1>1. CASE Jobs!AbortForce
  BY <1>1 DEF Jobs!AbortForce, Jobs!KillJob, Jobs!Kill
<1>2. CASE Jobs!AbortKill
  BY <1>2 DEF Jobs!AbortKill, Jobs!Kill
<1>3. CASE Jobs!AbortWait
  BY <1>3 DEF Jobs!AbortWait
<1>4. CASE Jobs!Abandon
  BY <1>4 DEF Jobs!Abandon, Jobs!Fail, Jobs!CloseJob, Jobs!KillJob, Jobs!Kill
<1>5. QED
  BY <1>1, <1>2, <1>3, <1>4

\* The end of the handle: what runs is in a job that is killed on close.
LEMMA JobCloseKeeps ==
    ASSUME JobIInv, Jobs!Drop \/ Jobs!Die
    PROVE  JobCallsInOrder' /\ RunsInTheJob' /\ AbortWorks' /\ Jobs!NothingOutlivesTheJob'
<1> USE DEF JobIInv, JobTypeOK, JobStage, JobCallsInOrder, RunsInTheJob, AbortWorks,
            Jobs!NothingOutlivesTheJob, JobEnded
<1>1. jobLeader' # "running" /\ members' = {}
  BY DEF Jobs!Drop, Jobs!Die, Jobs!CloseJob, Jobs!KillJob, Jobs!Kill
<1>2. stage' \in {"dropped", "died"}
  BY DEF Jobs!Drop, Jobs!Die
<1>3. QED
  BY <1>1, <1>2

\* The inductive invariant: at every call of the spawn and of its abort, what
\* runs is in the job and owned by the handle.
THEOREM JobInvariant == Jobs!Spec => []JobIInv
<1>1. Jobs!Init => JobIInv
  BY DEF Jobs!Init, JobIInv, JobTypeOK, JobStage, JobCallsInOrder, RunsInTheJob, AbortWorks,
         Jobs!NothingOutlivesTheJob, JobEnded
<1>2. JobIInv /\ [Jobs!Next]_(Jobs!vars) => JobIInv'
  <2> SUFFICES ASSUME JobIInv, [Jobs!Next]_(Jobs!vars) PROVE JobIInv'
    OBVIOUS
  <2> USE DEF JobIInv
  <2>1. JobTypeOK'
    BY JobKeepsTypes
  <2>2. ASSUME NEW m \in Member, Jobs!Fork(m)
        PROVE  JobCallsInOrder' /\ RunsInTheJob' /\ AbortWorks' /\ Jobs!NothingOutlivesTheJob'
    BY <2>2 DEF Jobs!Fork, JobCallsInOrder, RunsInTheJob, AbortWorks, Jobs!NothingOutlivesTheJob,
                JobEnded
  <2>3. CASE Jobs!Exit
    BY <2>1, <2>3 DEF Jobs!Exit, JobCallsInOrder, RunsInTheJob, AbortWorks,
                      Jobs!NothingOutlivesTheJob, JobEnded
  <2>4. CASE UNCHANGED Jobs!vars
    BY <2>1, <2>4 DEF Jobs!vars, JobCallsInOrder, RunsInTheJob, AbortWorks,
                      Jobs!NothingOutlivesTheJob, JobEnded
  <2>5. QED
    BY <2>1, <2>2, <2>3, <2>4, JobSpawnKeeps, JobAbortKeeps, JobCloseKeeps DEF Jobs!Next
<1>3. QED
  BY <1>1, <1>2, PTL DEF Jobs!Spec

\* Nothing of the command outlives the handle, whatever call fails and whenever
\* the program dies (windows.rs).
THEOREM JobIsTheEnd == Jobs!Spec => []NothingOutlivesTheJob
<1>1. JobIInv => NothingOutlivesTheJob
  BY DEF JobIInv, NothingOutlivesTheJob
<1>2. QED
  BY <1>1, JobInvariant, PTL

-----------------------------------------------------------------------------
(* Both hosts, side by side *)

\* A step of the composition is a step of the tree and of the spawn, or leaves
\* it alone.
LEMMA StepOfBoth ==
    /\ [MCNext]_allVars => [Next]_vars
    /\ [MCNext]_allVars => [Jobs!Next]_(Jobs!vars)
<1>1. allVars' = allVars => vars' = vars /\ jobs' = jobs
  BY DEF allVars
<1>2. jobs' = jobs => (Jobs!vars)' = Jobs!vars
  BY DEF jobs, Jobs!vars
<1>3. MCNext => \/ Next /\ jobs' = jobs
                \/ Jobs!Next /\ vars' = vars
  BY DEF MCNext, Trees
<1>4. QED
  BY <1>1, <1>2, <1>3

\* What was proved of each host is true of both: the composition is a process
\* tree, with nothing of a finished job left, and a status only of what is gone.
THEOREM BothContained ==
    MCSpec => Spec /\ [](SignalsStayHome /\ StatusOnlyAfterCleanup /\ NothingOutlivesTheJob)
<1>1. MCInit => Init /\ Jobs!Init
  BY DEF MCInit
<1>2. MCSpec => Spec
  BY <1>1, StepOfBoth, PTL DEF MCSpec, Spec
<1>3. MCSpec => Jobs!Spec
  BY <1>1, StepOfBoth, PTL DEF MCSpec, Jobs!Spec
<1>4. QED
  BY <1>2, <1>3, StatusMeansGone, SignalsAreOurs, JobIsTheEnd, PTL
=============================================================================
