----------------------------- MODULE BoundedRun -----------------------------
(***************************************************************************)
(* run_bounded of process-tree: one contained command that is run to its   *)
(* end, with a reader thread for each pipe.  A reader publishes what it    *)
(* has under a mutex and signals a condition variable; once the tree is    *)
(* gone the call waits for both readers, one after the other, under one    *)
(* deadline.                                                               *)
(*                                                                         *)
(* The k-th byte of a stream is the number k, so that the contiguous bytes *)
(* which a reader retains are an interval: first + 1 .. seen.              *)
(***************************************************************************)
EXTENDS Naturals, Pipes

CONSTANT MaxLimit       \* the largest limit of a stream

VARIABLES
    alive, answer,      \* the process tree, as ContainedTree has it
    escaped,            \* a process out of the tree's reach holds the pipes
    written,            \* [Stream -> Nat]: what was written to the pipe
    limit,              \* CommandLimits: [Stream -> Nat]
    state,              \* [Stream -> ReaderState]
    late,               \* the drain deadline has passed
    pc,                 \* Place
    waiter,             \* the call in wait_until: "awake", "asleep" or "timedOut"
    wait,               \* what wait_bounded said
    taken,              \* [Stream -> what OutputReader::finish said]
    onTime,             \* ghost: the streams whose reader completed before the deadline
    result              \* what run_bounded has returned

tree == <<alive, answer>>
pipes == <<escaped, written>>
call == <<limit, pc, wait, taken, result>>
vars == <<tree, pipes, state, late, waiter, onTime, call>>

Place == {"start", "wait", "stdout", "stderr", "complete", "done"}
Reader == {"reading", "complete", "failed"}
ReaderState == [first : Nat, seen : Nat, truncated : BOOLEAN, reader : Reader]
Stage == {"Start", "Wait", "Output", "Timeout"}

Tree == INSTANCE ContainedTree

TypeOK ==
    /\ Tree!TypeOK
    /\ escaped \in BOOLEAN
    /\ written \in [Stream -> 0..MaxWritten]
    /\ limit \in [Stream -> Nat]
    /\ state \in [Stream -> ReaderState]
    /\ late \in BOOLEAN
    /\ pc \in Place
    /\ waiter \in {"awake", "asleep", "timedOut"}
    /\ wait \in {"none", "Exited", "TimedOut", "Error"}
    /\ taken \in [Stream -> {"none", "captured", "open", "unreadable"}]
    /\ onTime \subseteq Stream
    /\ result \in {"none", "running", "Ok"} \cup Stage

----------------------------------------------------------------------------
(* The processes and the clock *)

TreeDies == Tree!Die /\ UNCHANGED <<pipes, state, late, waiter, onTime, call>>

\* setsid in a descendant; and the end of the one that did it.
Escape ==
    /\ alive
    /\ escaped' = TRUE
    /\ UNCHANGED <<tree, written, state, late, waiter, onTime, call>>

EscapedDies ==
    /\ escaped
    /\ escaped' = FALSE
    /\ UNCHANGED <<tree, written, state, late, waiter, onTime, call>>

Write(s) ==
    /\ alive \/ escaped
    /\ written[s] < MaxWritten
    /\ written' = [written EXCEPT ![s] = @ + 1]
    /\ UNCHANGED <<tree, escaped, state, late, waiter, onTime, call>>

\* OUTPUT_DRAIN_TIMEOUT, which begins when the wait for the tree has ended.
Deadline ==
    /\ pc \in {"stdout", "stderr"}
    /\ ~late
    /\ late' = TRUE
    /\ UNCHANGED <<tree, pipes, state, waiter, onTime, call>>

----------------------------------------------------------------------------
(* The reader threads *)

\* retain_tail, for n bytes that follow those seen: a chunk as long as the limit
\* replaces what was there, and a limit of zero is the shortest such case.
RetainTail(c, n, most) ==
    LET seen == c.seen + n
    IN  IF n >= most
        THEN [c EXCEPT !.first = seen - most, !.seen = seen,
                       !.truncated = @ \/ c.first < c.seen \/ n > most]
        ELSE IF seen - c.first > most
        THEN [c EXCEPT !.first = seen - most, !.seen = seen, !.truncated = TRUE]
        ELSE [c EXCEPT !.seen = seen]

\* Wrong: nobody is told.
UpdateSilently(s, new) == state' = [state EXCEPT ![s] = new] /\ UNCHANGED waiter

\* update_reader_state: notify_all under the lock wakes a call that sleeps on
\* this reader.
Update(s, new) ==
    /\ state' = [state EXCEPT ![s] = new]
    /\ waiter' = IF pc = s /\ waiter = "asleep" THEN "awake" ELSE waiter

Reading(s) == pc \notin {"start", "done"} /\ state[s].reader = "reading"

Read(s) ==
    /\ Reading(s)
    /\ \E n \in 1..(written[s] - state[s].seen) : Update(s, RetainTail(state[s], n, limit[s]))
    /\ UNCHANGED <<tree, pipes, late, onTime, call>>

Ends(s, how) ==
    /\ Update(s, [state[s] EXCEPT !.reader = how])
    /\ onTime' = IF late THEN onTime ELSE onTime \cup {s}
    /\ UNCHANGED <<tree, pipes, late, call>>

\* read returns 0: nothing is left and nobody can write any more.
EndOfFile(s) ==
    /\ Reading(s)
    /\ state[s].seen = written[s] /\ ~alive /\ ~escaped
    /\ Ends(s, "complete")

ReadFails(s) == Reading(s) /\ Ends(s, "failed")

----------------------------------------------------------------------------
(* The call *)

Return(r) == pc' = "done" /\ result' = r /\ UNCHANGED <<limit, wait, taken>>

\* ProcessTree::spawn, with both pipes configured, and output_readers.
Spawn ==
    /\ pc = "start"
    /\ \/ Return("Start") /\ UNCHANGED alive
       \/ /\ alive' = TRUE
          /\ pc' = "wait" /\ result' = "running"
          /\ UNCHANGED <<limit, wait, taken>>
    /\ UNCHANGED <<answer, pipes, state, late, waiter, onTime>>

\* wait_bounded: the whole tree has exited, was terminated when the time was up,
\* or could not be cleaned up.
WaitBounded ==
    /\ pc = "wait"
    /\ \/ Tree!Conclusive /\ wait' \in {"Exited", "TimedOut"}
       \/ Tree!Inconclusive /\ answer' = "failed" /\ wait' = "Error"
    /\ pc' = "stdout"
    /\ UNCHANGED <<pipes, state, late, waiter, onTime, limit, taken, result>>

Ended(s) == state[s].reader # "reading"

\* The end of finish: both streams are finished, whatever the first one said.
Finish(s, what) ==
    /\ taken' = [taken EXCEPT ![s] = what]
    /\ pc' = IF s = "stdout" THEN "stderr" ELSE "complete"
    /\ waiter' = "awake"
    /\ UNCHANGED <<limit, wait, result>>

Take(s) == Finish(s, IF state[s].reader = "failed" THEN "unreadable" ELSE "captured")

\* Wrong: no look at the reader once the deadline has passed.
CheckDeadlineFirst(s) ==
    /\ pc = s /\ waiter = "awake"
    /\ \/ ~late /\ Ended(s) /\ Take(s)
       \/ late /\ Finish(s, "open")
       \/ ~Ended(s) /\ ~late /\ waiter' = "asleep" /\ UNCHANGED call
    /\ UNCHANGED <<tree, pipes, state, late, onTime>>

\* wait_until, under the lock up to the sleep, which gives it away.
Check(s) ==
    /\ pc = s /\ waiter = "awake"
    /\ \/ Ended(s) /\ Take(s)
       \/ ~Ended(s) /\ late /\ Finish(s, "open")
       \/ ~Ended(s) /\ ~late /\ waiter' = "asleep" /\ UNCHANGED call
    /\ UNCHANGED <<tree, pipes, state, late, onTime>>

\* A condition variable may wake up for no reason, and wait_timeout may end
\* before it has the lock again.
Wake ==
    /\ waiter = "asleep"
    /\ \/ waiter' = "awake"
       \/ late /\ waiter' = "timedOut"
    /\ UNCHANGED <<tree, pipes, state, late, onTime, call>>

\* reader_finished: a reader may complete after the time-out and before the lock.
Judge(s) ==
    /\ pc = s /\ waiter = "timedOut"
    /\ IF Ended(s) THEN Take(s) ELSE Finish(s, "open")
    /\ UNCHANGED <<tree, pipes, state, late, onTime>>

Captured == \A s \in Stream : taken[s] = "captured"

\* Wrong: the time-out decides, and a failed wait is one.
CompleteTimeoutFirst ==
    /\ pc = "complete"
    /\ \/ wait \in {"TimedOut", "Error"} /\ Return("Timeout")
       \/ wait = "Exited" /\ ~Captured /\ Return("Output")
       \/ wait = "Exited" /\ Captured /\ Return("Ok")
    /\ UNCHANGED <<tree, pipes, state, late, waiter, onTime>>

\* complete_bounded_output and completed_process, and the drop of the tree.
Complete ==
    /\ pc = "complete"
    /\ \/ wait = "Error" /\ Return("Wait")
       \/ wait # "Error" /\ ~Captured /\ Return("Output")
       \/ wait = "TimedOut" /\ Captured /\ Return("Timeout")
       \/ wait = "Exited" /\ Captured /\ Return("Ok")
    /\ UNCHANGED <<tree, pipes, state, late, waiter, onTime>>

----------------------------------------------------------------------------

Init ==
    /\ alive = FALSE /\ answer = "none" /\ escaped = FALSE
    /\ written = [s \in Stream |-> 0]
    /\ limit \in [Stream -> 0..MaxLimit]
    /\ state = [s \in Stream |-> [first |-> 0, seen |-> 0, truncated |-> FALSE, reader |-> "reading"]]
    /\ late = FALSE /\ pc = "start" /\ waiter = "awake" /\ wait = "none"
    /\ taken = [s \in Stream |-> "none"] /\ onTime = {} /\ result = "none"

\* What the call does on its own: it wakes up from a sleep only when it is
\* notified or the time is up.
Call == WaitBounded \/ Complete \/ (\E s \in Stream : Check(s) \/ Judge(s)) \/ (late /\ Wake)

Threads == \E s \in Stream : Read(s) \/ EndOfFile(s) \/ ReadFails(s)

Processes == TreeDies \/ Escape \/ EscapedDies \/ \E s \in Stream : Write(s)

Next == Spawn \/ Call \/ Wake \/ Threads \/ Processes \/ Deadline

Spec == Init /\ [][Next]_vars

\* The call goes on, each of its waits being bounded by a timeout of its own.
\* Nothing is assumed of the processes, and time need not pass.
LiveSpec == Spec /\ WF_vars(Call)

----------------------------------------------------------------------------
(* Properties *)

\* What a reader has retained is the end of what it has seen, as much of it as
\* the limit allows, and a loss is noted.
TailIsKept ==
    \A s \in Stream :
        /\ state[s].seen <= written[s]
        /\ state[s].first = IF state[s].seen > limit[s] THEN state[s].seen - limit[s] ELSE 0
        /\ state[s].truncated <=> state[s].seen > limit[s]

\* A reader that saw the end of its pipe has everything, and nobody can add to it.
ReadersAgree ==
    \A s \in Stream :
        /\ state[s].reader = "complete" => state[s].seen = written[s] /\ ~alive /\ ~escaped
        /\ s \in onTime => Ended(s)
        /\ Ended(s) /\ ~late => s \in onTime

\* finish's verdict on a stream, and the order in which it gives them.
VerdictsAgree ==
    \A s \in Stream :
        /\ taken[s] = "captured" => state[s].reader = "complete"
        /\ taken[s] = "open" => s \notin onTime /\ late
        /\ taken[s] # "none" <=> \/ pc \in {"complete"} \cup (IF s = "stdout" THEN {"stderr"} ELSE {})
                                 \/ result \in {"Ok", "Wait", "Output", "Timeout"}

CallInOrder ==
    /\ result = "none" <=> pc = "start"
    /\ result = "running" <=> pc \in Place \ {"start", "done"}
    /\ pc = "start" => ~alive /\ ~escaped /\ \A s \in Stream : ~Ended(s)
    /\ pc \in {"start", "wait"} => answer # "status" /\ wait = "none" /\ ~late
    /\ wait \in {"Exited", "TimedOut"} => ~alive
    /\ pc \in {"stdout", "stderr", "complete"} => wait # "none"
    /\ waiter = "timedOut" => late
    /\ waiter # "awake" => pc \in Stream
    /\ waiter = "asleep" => \A s \in Stream : pc = s => ~Ended(s)
    /\ result \in {"Output", "Timeout", "Ok"} => ~alive
    /\ result = "Ok" => Captured

\* The inductive invariant.
IInv == TypeOK /\ TailIsKept /\ ReadersAgree /\ VerdictsAgree /\ CallInOrder

\* An answer that is no error carries, of each stream, the end of all that was
\* ever written, cut only by its limit and marked if it is; and a stream is
\* called open only if its reader was not complete when the deadline passed,
\* however much of the time the other one took.
OutputIsJudgedRightly ==
    /\ result = "Ok" =>
         \A s \in Stream :
            /\ state[s].seen = written[s]
            /\ state[s].seen - state[s].first = IF written[s] > limit[s] THEN limit[s] ELSE written[s]
            /\ state[s].truncated <=> written[s] > limit[s]
    /\ \A s \in onTime : taken[s] # "open"

\* A caller that never cancels sees a bounded command: with any answer but the
\* failed wait, nothing is left of the tree.
Seen == IF result = "Ok" THEN "success"
        ELSE IF result = "Timeout" THEN "timeout"
        ELSE IF result = "Wait" THEN "treeError"
        ELSE IF result \in {"Start", "Output"} THEN "otherError"
        ELSE result

Bounded == INSTANCE BoundedCommand WITH token <- FALSE, result <- Seen

RunImplementsBoundedCommand == Bounded!Spec

\* A reader that completes wakes the call: it goes on without the deadline.
CompletionWakesTheCall ==
    \A s \in Stream : pc = s /\ Ended(s) ~> pc # s
=============================================================================
