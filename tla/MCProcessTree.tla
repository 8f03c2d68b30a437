--------------------------- MODULE MCProcessTree ---------------------------
(***************************************************************************)
(* Contained processes on both hosts, side by side: a process tree on Unix *)
(* whose leader has two descendants, one of which signals may not reach,   *)
(* and the spawn into a Job Object on Windows.  They share no state; part  *)
(* says which one moves, the other stays as it began.                      *)
(***************************************************************************)
EXTENDS ProcessTree

VARIABLES part, jobLeader, members, born, job, assigned, stage, jobIssues

jobs == <<jobLeader, members, born, job, assigned, stage, jobIssues>>
allVars == <<part, vars, jobs>>

Jobs == INSTANCE JobTree WITH leader <- jobLeader, issues <- jobIssues

MCInit == part \in {"tree", "job"} /\ Init /\ Jobs!Init

Trees(A) == part = "tree" /\ A /\ UNCHANGED <<part, jobs>>

MCNext ==
    \/ Trees(Next)
    \/ part = "job" /\ Jobs!Next /\ UNCHANGED <<part, vars>>

\* The fairness of ProcessTree's LiveSpec.
MCSpec ==
    /\ MCInit /\ [][MCNext]_allVars
    /\ WF_allVars(Trees(CleanupStep))
    /\ WF_allVars(Trees(leader = "doomed" /\ LeaderExits))
    /\ \A m \in Member : WF_allVars(Trees(member[m] = "doomed" /\ MemberExits(m)))
    /\ SF_allVars(Trees(ObserveLeader))
    /\ SF_allVars(Trees(Terminate))

\* A tree ends under its owner's calls: a cleanup called again succeeds, and a
\* drop kills (process-tree, lib.rs).
TreeEnds == part = "tree" => CleanupSucceeds /\ DropKills

\* Nothing outlives a Job Object (process-tree, windows.rs).
NothingOutlivesTheJob == Jobs!NothingOutlivesTheJob
=============================================================================
