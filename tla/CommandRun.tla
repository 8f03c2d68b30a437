----------------------------- MODULE CommandRun -----------------------------
(***************************************************************************)
(* run_command_with_environment of analysis-mutate: a contained process    *)
(* tree, a thread for each of its two pipes, a timeout and a cancellation  *)
(* token, polled one slice after the other.                                *)
(*                                                                         *)
(* The tree is used through what it promises (ContainedTree).  A process   *)
(* may leave the group, stay out of the tree's reach, and keep the pipes   *)
(* open for as long as it likes.                                           *)
(***************************************************************************)
EXTENDS Naturals, Pipes

VARIABLES
    token,        \* CancellationToken
    late,         \* started.elapsed() >= timeout
    alive,        \* something of the tree is left
    answer,       \* what the last call of the tree said
    escaped,      \* a process out of the group holds the pipes
    written,      \* [Stream -> Nat]: what was written to the pipe
    captured,     \* [Stream -> Nat]: what its reader thread has stored
    reader,       \* [Stream -> {"reading", "complete", "failed"}]
    output,       \* [Stream -> Nat]: what finish_output has got
    pc,           \* Place
    verdict,      \* the answer the call is going to give
    truncated,    \* CommandOutcome.output_truncated, because of a timeout
    result        \* what the call has returned

tree == <<alive, answer>>
pipes == <<escaped, written, captured, reader>>
call == <<output, pc, verdict, truncated, result>>
vars == <<token, late, tree, pipes, call>>

Tree == INSTANCE ContainedTree
Bounded == INSTANCE BoundedCommand

Place == {"start", "poll", "slice", "cancelling", "expiring", "stdout", "stderr", "check",
          "discard", "done"}

TypeOK ==
    /\ token \in BOOLEAN /\ late \in BOOLEAN
    /\ Tree!TypeOK
    /\ escaped \in BOOLEAN
    /\ written \in [Stream -> 0..MaxWritten]
    /\ captured \in [Stream -> 0..MaxWritten]
    /\ output \in [Stream -> 0..MaxWritten]
    /\ reader \in [Stream -> {"reading", "complete", "failed"}]
    /\ pc \in Place
    /\ verdict \in {"none"} \cup Bounded!Outcome \cup Bounded!Error
    /\ truncated \in BOOLEAN
    /\ result \in {"none", "running"} \cup Bounded!Outcome \cup Bounded!Error

----------------------------------------------------------------------------
(* The processes, the clock and the caller *)

Cancel == ~token /\ token' = TRUE /\ UNCHANGED <<late, tree, pipes, call>>

Deadline == ~late /\ pc # "start" /\ late' = TRUE /\ UNCHANGED <<token, tree, pipes, call>>

TreeDies == Tree!Die /\ UNCHANGED <<token, late, pipes, call>>

\* setsid in a descendant; and the end of the one that did it.
Escape ==
    /\ alive
    /\ escaped' = TRUE
    /\ UNCHANGED <<token, late, tree, written, captured, reader, call>>

EscapedDies ==
    /\ escaped
    /\ escaped' = FALSE
    /\ UNCHANGED <<token, late, tree, written, captured, reader, call>>

Write(s) ==
    /\ alive \/ escaped
    /\ written[s] < MaxWritten
    /\ written' = [written EXCEPT ![s] = @ + 1]
    /\ UNCHANGED <<token, late, tree, escaped, captured, reader, call>>

----------------------------------------------------------------------------
(* The reader threads: drain_output *)

Read(s) ==
    /\ pc # "start" /\ reader[s] = "reading"
    /\ captured[s] < written[s]
    /\ captured' = [captured EXCEPT ![s] = @ + 1]
    /\ UNCHANGED <<token, late, tree, escaped, written, reader, call>>

\* read returns 0: nothing is left and nobody can write any more.
EndOfFile(s) ==
    /\ pc # "start" /\ reader[s] = "reading"
    /\ captured[s] = written[s]
    /\ ~alive /\ ~escaped
    /\ reader' = [reader EXCEPT ![s] = "complete"]
    /\ UNCHANGED <<token, late, tree, escaped, written, captured, call>>

ReadFails(s) ==
    /\ pc # "start" /\ reader[s] = "reading"
    /\ reader' = [reader EXCEPT ![s] = "failed"]
    /\ UNCHANGED <<token, late, tree, escaped, written, captured, call>>

----------------------------------------------------------------------------
(* The call *)

Go(place, v) ==
    /\ pc' = place
    /\ verdict' = v
    /\ UNCHANGED <<output, truncated, result>>

Return(r) ==
    /\ pc' = "done"
    /\ result' = r
    /\ UNCHANGED <<output, verdict, truncated>>

\* validate_command and cancellation.check come before the spawn.
Begin ==
    /\ pc = "start"
    /\ \/ token /\ Return("cancelled") /\ UNCHANGED alive
       \/ ~token /\ Return("otherError") /\ UNCHANGED alive
       \/ /\ ~token
          /\ alive' = TRUE
          /\ pc' = "poll"
          /\ result' = "running"
          /\ UNCHANGED <<output, verdict, truncated>>
    /\ UNCHANGED <<token, late, answer, pipes>>

\* poll_termination: cancellation first, then the timeout.
PollTermination ==
    /\ pc = "poll"
    /\ \/ token /\ Go("cancelling", verdict)
       \/ ~token /\ late /\ Go("expiring", verdict)
       \/ ~token /\ ~late /\ Go("slice", verdict)
    /\ UNCHANGED <<token, late, tree, pipes>>

\* wait_slice
WaitSlice ==
    /\ pc = "slice"
    /\ \/ Tree!Inconclusive /\ answer' = "running" /\ Go("poll", verdict)
       \/ Tree!Inconclusive /\ answer' = "failed" /\ Go("discard", "treeError")
       \/ /\ Tree!Conclusive
          /\ \E v \in Bounded!Outcome \ {"timeout"} : Go("stdout", v)
    /\ UNCHANGED <<token, late, pipes>>

\* Wrong: a command that timed out has timed out, whatever its cleanup says.
TerminateHopefully ==
    /\ pc \in {"cancelling", "expiring"}
    /\ \/ Tree!Inconclusive /\ answer' = "failed" /\ pc = "expiring" /\ Go("stdout", "timeout")
       \/ Tree!Conclusive /\ pc = "cancelling" /\ Go("discard", "cancelled")
       \/ Tree!Conclusive /\ pc = "expiring" /\ Go("stdout", "timeout")
    /\ UNCHANGED <<token, late, pipes>>

\* cancellation_cleanup and timeout_cleanup: terminate_bounded
Terminate ==
    /\ pc \in {"cancelling", "expiring"}
    /\ \/ Tree!Inconclusive /\ answer' = "failed" /\ Go("discard", "treeError")
       \/ Tree!Conclusive /\ pc = "cancelling" /\ Go("discard", "cancelled")
       \/ Tree!Conclusive /\ pc = "expiring" /\ Go("stdout", "timeout")
    /\ UNCHANGED <<token, late, pipes>>

\* Wrong: the end of the pipe is awaited.
FinishOutputPatiently(s) ==
    /\ pc = s
    /\ reader[s] # "reading"
    /\ IF reader[s] = "failed"
       THEN Return("otherError")
       ELSE /\ output' = [output EXCEPT ![s] = captured[s]]
            /\ pc' = IF s = "stdout" THEN "stderr" ELSE "check"
            /\ UNCHANGED <<verdict, truncated, result>>
    /\ UNCHANGED <<token, late, tree, pipes>>

\* Wrong: an unfinished reader is taken for a complete one.
FinishOutputCarelessly(s) ==
    /\ pc = s
    /\ output' = [output EXCEPT ![s] = captured[s]]
    /\ pc' = IF s = "stdout" THEN "stderr" ELSE "check"
    /\ UNCHANGED <<verdict, truncated, result>>
    /\ UNCHANGED <<token, late, tree, pipes>>

\* finish_output: what the reader has stored, all of it if the reader completes
\* within OUTPUT_DRAIN_GRACE.
FinishOutput(s) ==
    /\ pc = s
    /\ \/ /\ reader[s] = "failed"
          /\ Return("otherError")
       \/ /\ reader[s] # "failed"
          /\ output' = [output EXCEPT ![s] = captured[s]]
          /\ truncated' = (truncated \/ reader[s] = "reading")
          /\ pc' = IF s = "stdout" THEN "stderr" ELSE "check"
          /\ UNCHANGED <<verdict, result>>
    /\ UNCHANGED <<token, late, tree, pipes>>

\* Wrong: a command that finishes while it is cancelled has an outcome.
LastCheckMissing ==
    /\ pc = "check"
    /\ Return(verdict)
    /\ UNCHANGED <<token, late, tree, pipes>>

\* The end of finish_command.
LastCheck ==
    /\ pc = "check"
    /\ Return(IF token THEN "cancelled" ELSE verdict)
    /\ UNCHANGED <<token, late, tree, pipes>>

\* discard_output waits for both readers, for a grace period each.
Discard ==
    /\ pc = "discard"
    /\ Return(verdict)
    /\ UNCHANGED <<token, late, tree, pipes>>

----------------------------------------------------------------------------

Init ==
    /\ token = FALSE /\ late = FALSE
    /\ alive = FALSE /\ answer = "none" /\ escaped = FALSE
    /\ written = [s \in Stream |-> 0]
    /\ captured = written /\ output = written
    /\ reader = [s \in Stream |-> "reading"]
    /\ pc = "start" /\ verdict = "none" /\ truncated = FALSE /\ result = "none"

Call ==
    \/ PollTermination \/ WaitSlice \/ Terminate \/ LastCheck \/ Discard
    \/ \E s \in Stream : FinishOutput(s)

Environment ==
    \/ Cancel \/ Deadline \/ TreeDies \/ Escape \/ EscapedDies
    \/ \E s \in Stream : Write(s) \/ Read(s) \/ EndOfFile(s) \/ ReadFails(s)

Next == Begin \/ Call \/ Environment

Spec == Init /\ [][Next]_vars

\* The call goes on, every wait in it being bounded, and time passes.  Nothing
\* is assumed of the processes.
LiveSpec == Spec /\ WF_vars(Call) /\ WF_vars(Deadline)

----------------------------------------------------------------------------
(* Properties *)

\* An output that is not marked as truncated is the whole output, although the
\* readers are other threads and a pipe may be open for ever.
WholeUnlessTruncated ==
    result \in Bounded!Outcome /\ ~truncated => output = written

\* A call in progress waits for a tree that has not given its status yet; once
\* it has, nothing is left of the tree, and nothing comes back.
CallInOrder ==
    /\ result = "running" <=> pc \notin {"start", "done"}
    /\ pc = "start" => result = "none" /\ ~alive /\ ~escaped /\ answer = "none"
    /\ pc \in {"start", "poll", "slice", "cancelling", "expiring"} => answer # "status"
    /\ pc = "cancelling" => token
    /\ pc \in {"stdout", "stderr", "check"} => ~alive /\ verdict \in Bounded!Outcome
    /\ pc = "discard" => \/ verdict = "treeError"
                         \/ verdict = "cancelled" /\ token /\ ~alive

\* A complete reader has everything, and nobody can add to it.
ReadersAgree ==
    \A s \in Stream :
        /\ pc = "start" => reader[s] = "reading"
        /\ captured[s] <= written[s]
        /\ reader[s] = "complete" => captured[s] = written[s] /\ ~alive /\ ~escaped

\* The streams that finish_output has asked, in the order it asks them.
Finished(s) ==
    \/ pc \in {"check"} \cup (IF s = "stdout" THEN {"stderr"} ELSE {})
    \/ result \in Bounded!Outcome

OutputAgrees ==
    \A s \in Stream :
        Finished(s) /\ ~truncated => reader[s] = "complete" /\ output[s] = captured[s]

\* The inductive invariant.
IInv ==
    /\ TypeOK
    /\ CallInOrder
    /\ ReadersAgree
    /\ OutputAgrees

\* run_command implements what the executor relies on: with any answer but
\* "treeError" the tree is gone, and a cancelled run has no outcome.
ImplementsBoundedCommand == Bounded!Spec

\* "Never let that keep the mutation run blocked": the call returns, even if
\* the command never ends and an escaped process never closes the pipes.
CallReturns == pc = "poll" ~> pc = "done"

\* A cancellation that comes while the command runs is what the call reports,
\* whether the command ends, times out or resists at the same time.
CancellationIsHeard == token /\ pc \notin {"start", "done"} ~> result \in Bounded!Error
=============================================================================
