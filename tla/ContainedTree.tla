--------------------------- MODULE ContainedTree ---------------------------
(***************************************************************************)
(* What reporigor-process-tree promises those who run a command: the       *)
(* status of the command is exposed only when nothing of its tree is left, *)
(* and from then on every call gives the same answer.  A call may fail and *)
(* leave the tree alive; it may then be repeated.                          *)
(***************************************************************************)

VARIABLES
    alive,        \* something of the tree is running, or its leader unreaped
    answer        \* what the last finished call said

vars == <<alive, answer>>

Answer == {"none", "running", "status", "failed"}

TypeOK == alive \in BOOLEAN /\ answer \in Answer

Init == alive = TRUE /\ answer = "none"

\* The last process of the tree dies, or is killed, and the leader is reaped.
Die == alive /\ alive' = FALSE /\ UNCHANGED answer

\* A call that finds the leader running, or whose cleanup fails.
Inconclusive ==
    /\ answer # "status"
    /\ answer' \in {"running", "failed"}
    /\ UNCHANGED alive

Conclusive == ~alive /\ answer' = "status" /\ UNCHANGED alive

Next == Die \/ Inconclusive \/ Conclusive

Spec == Init /\ [][Next]_vars
=============================================================================
