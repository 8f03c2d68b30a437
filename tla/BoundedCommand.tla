--------------------------- MODULE BoundedCommand ---------------------------
(***************************************************************************)
(* What run_command promises the mutation executor: an answer is given     *)
(* when nothing is left of the command, except the one that says that the  *)
(* tree could not be cleaned up; and a command whose run was cancelled has *)
(* no outcome.                                                             *)
(***************************************************************************)

VARIABLES
    token,        \* the cancellation token is set, never to be reset
    alive,        \* something of the process tree is alive
    result        \* "none" before the call, "running", an Outcome or an Error

vars == <<token, alive, result>>

\* exit code 0, another, none (a signal), and none because of the timeout
Outcome == {"success", "failure", "signalled", "timeout"}

Error == {"cancelled", "treeError", "otherError"}

TypeOK ==
    /\ token \in BOOLEAN
    /\ alive \in BOOLEAN
    /\ result \in {"none", "running"} \cup Outcome \cup Error

Init == token = FALSE /\ alive = FALSE /\ result = "none"

\* The caller, or its signal handler.
Cancel == token' = TRUE /\ UNCHANGED <<alive, result>>

Start ==
    /\ result = "none"
    /\ \/ ~token /\ alive' = TRUE /\ result' = "running"
       \/ token /\ result' = "cancelled" /\ UNCHANGED alive
       \/ ~token /\ result' = "otherError" /\ UNCHANGED alive
    /\ UNCHANGED token

Die == alive /\ alive' = FALSE /\ UNCHANGED <<token, result>>

Answer ==
    /\ result = "running"
    /\ \/ ~alive /\ ~token /\ result' \in Outcome
       \/ ~alive /\ token /\ result' = "cancelled"
       \/ ~alive /\ result' = "otherError"
       \/ result' = "treeError"
    /\ UNCHANGED <<token, alive>>

Next == Cancel \/ Start \/ Die \/ Answer

Spec == Init /\ [][Next]_vars
=============================================================================
