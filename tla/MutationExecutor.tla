-------------------------- MODULE MutationExecutor --------------------------
(***************************************************************************)
(* MutationExecutor::run_in_session, as the command line calls it in       *)
(* execute_mutation_run: a cooperative scope around the baseline and the   *)
(* candidates, each mutated, validated, tested and restored in turn, while *)
(* termination signals arrive.                                             *)
(*                                                                         *)
(* Commands are used through what run_command promises (BoundedCommand),   *)
(* signals through their handler (TerminationSignals), and the journalled  *)
(* file system, which MutationRecovery models, by what it does to the      *)
(* source.                                                                 *)
(***************************************************************************)
EXTENDS Naturals, Sequences, FiniteSets

CONSTANTS
    Candidates,   \* the number of candidates of the inventory
    MaxSignals    \* how many signals are sent

ASSUME CandidatesAssumption == Candidates \in Nat
ASSUME SignalsAssumption == MaxSignals \in Nat

VARIABLES
    active, token, handler, sent, pending, exited,     \* TerminationSignals
    alive, result,                                     \* BoundedCommand
    options,      \* MutationOptions
    pc,           \* Place
    phase,        \* what the command in progress is for
    baseline,     \* the baseline has passed
    selected,     \* the candidates chosen for execution so far
    source,       \* 0, or the candidate whose mutant is in its source file
    verdict,      \* what the candidate's commands have led to, or "none"
    verdicts,     \* the statuses of MutationRun.results
    outcome       \* what the run returns

signals == <<active, handler, sent, pending, exited>>
command == <<alive, result>>
progress == <<baseline, selected, verdicts>>
main == <<options, pc, phase, progress, source, verdict, outcome>>
vars == <<signals, token, command, main>>

Signals == INSTANCE TerminationSignals
Command == INSTANCE BoundedCommand

Candidate == 1..Candidates

\* A limit of Candidates stands for none.
MutationOptions ==
    [ignored : SUBSET Candidate, noCoverage : SUBSET Candidate, max : 0..Candidates,
     validation : BOOLEAN, baseline : BOOLEAN]

Tried == {"killed", "survived", "timeout", "compileError", "runtimeError"}
Fatal == {"cancelled", "treeError"}

Place == {"begin", "prepare", "command", "loop", "apply", "restore", "dropGuard", "record", "leave",
          "after", "done"}
Phase == {"baseValidation", "baseTest", "validation", "test"}

MutationStatus == {"ignored", "noCoverage", "invalid"} \cup Tried

Outcome ==
    {"none", "ok", "baselineFailed", "error", "otherError", "restoreError"} \cup Fatal

MainTypeOK ==
    /\ options \in MutationOptions
    /\ pc \in Place
    /\ phase \in Phase
    /\ baseline \in BOOLEAN
    /\ selected \in 0..Candidates
    /\ source \in {0} \cup Candidate
    /\ verdict \in {"none"} \cup Tried \cup Fatal
    /\ verdicts \in Seq(MutationStatus) /\ Len(verdicts) <= Candidates
    /\ outcome \in Outcome

TypeOK == Signals!TypeOK /\ Command!TypeOK /\ MainTypeOK

\* The candidate whose turn it is.
Current == Len(verdicts) + 1

Excluded == options.ignored \cup options.noCoverage

\* executable_count
ExecutableCount ==
    LET available == Cardinality(Candidate \ Excluded)
    IN  IF options.max < available THEN options.max ELSE available

----------------------------------------------------------------------------
(* Steps of the main thread *)

Goto(place) == pc' = place /\ UNCHANGED outcome

End(o) == pc' = "leave" /\ outcome' = o

Running(place) == ~exited /\ pc = place

\* execute_mutation_run
EnterScope ==
    /\ Running("begin")
    /\ Signals!EnterScope
    /\ Goto("prepare")
    /\ UNCHANGED <<command, options, phase, progress, source, verdict>>

StartBaseline ==
    /\ Goto("command")
    /\ phase' = IF options.validation THEN "baseValidation" ELSE "baseTest"

\* run_in_session up to the baseline, which no candidate may need.
Prepare ==
    /\ Running("prepare")
    /\ \/ token /\ End("cancelled") /\ UNCHANGED phase
       \/ ~token /\ End("error") /\ UNCHANGED phase
       \/ /\ ~token
          /\ IF options.baseline /\ ExecutableCount > 0
             THEN StartBaseline
             ELSE Goto("loop") /\ UNCHANGED phase
    /\ UNCHANGED <<signals, token, command, options, progress, source, verdict>>

\* run_command, step by step.
RunCommand ==
    /\ Running("command")
    /\ Command!Start \/ Command!Answer
    /\ UNCHANGED <<signals, main>>

\* run_baseline: the validation, if there is one, and then the tests.
AssessBaseline ==
    /\ Running("command")
    /\ phase \in {"baseValidation", "baseTest"}
    /\ result \in Command!Outcome \cup Command!Error
    /\ result' = "none"
    /\ \/ result \in Command!Error /\ End(result) /\ UNCHANGED <<phase, baseline>>
       \/ /\ result \in Command!Outcome \ {"success"}
          /\ End("baselineFailed")
          /\ UNCHANGED <<phase, baseline>>
       \/ /\ result = "success" /\ phase = "baseValidation"
          /\ IF token THEN End("cancelled") /\ UNCHANGED phase
                      ELSE phase' = "baseTest" /\ Goto("command")
          /\ UNCHANGED baseline
       \/ /\ result = "success" /\ phase = "baseTest"
          /\ baseline' = TRUE
          /\ Goto("loop")
          /\ UNCHANGED phase
    /\ UNCHANGED <<signals, token, alive, options, selected, verdicts, source, verdict>>

\* Wrong: one candidate too many.
NonexecutedLate ==
    IF Current \in options.ignored THEN "ignored"
    ELSE IF Current \in options.noCoverage THEN "noCoverage"
    ELSE IF selected > options.max THEN "ignored" ELSE "none"

\* nonexecuted_result
Nonexecuted ==
    IF Current \in options.ignored THEN "ignored"
    ELSE IF Current \in options.noCoverage THEN "noCoverage"
    ELSE IF selected >= options.max THEN "ignored" ELSE "none"

\* execute_candidates: the next candidate, or the end.
NextCandidate ==
    /\ Running("loop")
    /\ \/ /\ Current > Candidates
          /\ End("ok")
          /\ UNCHANGED progress
       \/ /\ Current <= Candidates /\ Nonexecuted # "none"
          /\ verdicts' = Append(verdicts, Nonexecuted)
          /\ UNCHANGED <<pc, outcome, baseline, selected>>
       \/ /\ Current <= Candidates /\ Nonexecuted = "none"
          /\ selected' = selected + 1
          /\ IF token THEN End("cancelled") ELSE Goto("apply")
          /\ UNCHANGED <<baseline, verdicts>>
    /\ UNCHANGED <<signals, token, command, options, phase, source, verdict>>

\* SourceRestoreGuard::apply_bounded; when its replacement fails it recovers,
\* and that may fail, too.
Apply ==
    /\ Running("apply")
    /\ \/ /\ source' = Current
          /\ phase' = IF options.validation THEN "validation" ELSE "test"
          /\ Goto("command")
          /\ UNCHANGED verdicts
       \/ /\ verdicts' = Append(verdicts, "invalid")
          /\ Goto("loop")
          /\ UNCHANGED <<phase, source>>
       \/ /\ source' \in {0, Current}
          /\ End("error")
          /\ UNCHANGED <<phase, verdicts>>
    /\ UNCHANGED <<signals, token, command, options, baseline, selected, verdict>>

\* Wrong: a tree that could not be killed is one runtime error among others.
ClassifyLeniently ==
    IF result = "cancelled" THEN result
    ELSE IF result = "timeout" THEN "timeout"
    ELSE IF result \in {"signalled", "otherError", "treeError"} THEN "runtimeError"
    ELSE IF phase = "validation" THEN "compileError"
    ELSE IF result = "success" THEN "survived" ELSE "killed"

\* classify_validation, classify_test_outcome, classify_command_error
Classify ==
    IF result \in Fatal THEN result
    ELSE IF result = "timeout" THEN "timeout"
    ELSE IF result \in {"signalled", "otherError"} THEN "runtimeError"
    ELSE IF phase = "validation" THEN "compileError"
    ELSE IF result = "success" THEN "survived" ELSE "killed"

\* execute_applied_candidate: a mutant that is valid is tested.
AssessCandidate ==
    /\ Running("command")
    /\ phase \in {"validation", "test"}
    /\ result \in Command!Outcome \cup Command!Error
    /\ result' = "none"
    /\ IF phase = "validation" /\ result = "success" /\ ~token
       THEN phase' = "test" /\ UNCHANGED <<pc, verdict>>
       ELSE /\ pc' = "restore"
            /\ verdict' = IF phase = "validation" /\ result = "success" THEN "cancelled" ELSE Classify
            /\ UNCHANGED phase
    /\ UNCHANGED <<signals, token, alive, options, progress, source, outcome>>

\* Wrong: a fatal verdict ends the run without a restore.
RestoreUnlessFatal ==
    /\ Running("restore")
    /\ \/ verdict \in Fatal /\ End(verdict) /\ UNCHANGED source
       \/ verdict \notin Fatal /\ source' = 0 /\ Goto("record")
    /\ UNCHANGED <<signals, token, command, options, phase, progress, verdict>>

\* SourceRestoreGuard::restore comes before anything is made of the verdict.
Restore ==
    /\ Running("restore")
    /\ \/ source' = 0 /\ IF verdict \in Fatal THEN End(verdict) ELSE Goto("record")
       \/ source' \in {0, source} /\ Goto("dropGuard")
    /\ UNCHANGED <<signals, token, command, options, phase, progress, verdict>>

\* Wrong: what cannot be restored is tried again, and again.
DropGuardForEver ==
    /\ Running("dropGuard")
    /\ source' \in {0, source}
    /\ Goto("restore")
    /\ UNCHANGED <<signals, token, command, options, phase, progress, verdict>>

\* The drop of a guard that could not restore tries again.
DropGuard ==
    /\ Running("dropGuard")
    /\ source' \in {0, source}
    /\ End("restoreError")
    /\ UNCHANGED <<signals, token, command, options, phase, progress, verdict>>

\* Wrong: the result is recorded with the source still mutated.
RecordEarly ==
    /\ ~exited /\ pc \in {"restore", "record"}
    /\ verdict \notin Fatal
    /\ verdicts' = Append(verdicts, verdict)
    /\ verdict' = "none"
    /\ Goto("loop")
    /\ UNCHANGED <<signals, token, command, options, phase, baseline, selected, source>>

\* The result is pushed.
Record ==
    /\ Running("record")
    /\ verdicts' = Append(verdicts, verdict)
    /\ verdict' = "none"
    /\ Goto("loop")
    /\ UNCHANGED <<signals, token, command, options, phase, baseline, selected, source>>

\* The end of execute_mutation_run: the scope is left ...
LeaveScope ==
    /\ Running("leave")
    /\ Signals!LeaveScope
    /\ Goto("after")
    /\ UNCHANGED <<command, options, phase, progress, source, verdict>>

\* Wrong: the token is not asked any more.
FinishAtOnce ==
    /\ Running("after")
    /\ Goto("done")
    /\ UNCHANGED <<signals, token, command, options, phase, progress, source, verdict>>

\* ... and then the token is asked for the last time.
Finish ==
    /\ Running("after")
    /\ pc' = "done"
    /\ outcome' = IF outcome = "ok" /\ token THEN "cancelled" ELSE outcome
    /\ UNCHANGED <<signals, token, command, options, phase, progress, source, verdict>>

----------------------------------------------------------------------------

Init ==
    /\ Signals!Init
    /\ alive = FALSE /\ result = "none"
    /\ options \in MutationOptions
    /\ pc = "begin" /\ phase = "test"
    /\ baseline = FALSE /\ selected = 0 /\ verdicts = <<>>
    /\ source = 0 /\ verdict = "none" /\ outcome = "none"

Main ==
    \/ EnterScope \/ Prepare \/ RunCommand \/ AssessBaseline
    \/ NextCandidate \/ Apply \/ AssessCandidate \/ Restore \/ DropGuard \/ Record
    \/ LeaveScope \/ Finish

Handler == Signals!Handler /\ UNCHANGED <<command, main>>

Environment ==
    \/ Signals!Signal /\ UNCHANGED <<command, main>>
    \/ Command!Die /\ UNCHANGED <<signals, main>>

Next == Main \/ Handler \/ Environment

Spec == Init /\ [][Next]_vars

\* Both threads keep going; a command always gives an answer (CallReturns).
LiveSpec == Spec /\ WF_vars(Main) /\ WF_vars(Handler)

----------------------------------------------------------------------------
(* Properties *)

\* Two commands never run at the same time, not even when the first could not
\* be killed: a test never sees processes, or files, of another candidate's.
OneTreeAtATime == [][result = "none" /\ result' = "running" => ~alive]_vars

\* A run that ends well, is cancelled, or fails its baseline leaves neither a
\* mutant nor a process behind, at whatever step it was interrupted.
NothingLeftBehind ==
    pc = "done" /\ outcome \in {"ok", "cancelled", "baselineFailed"} => source = 0 /\ ~alive

\* The baseline decides by a count what the loop decides one by one.  Mutants
\* are tried only on a tree whose tests pass, and the tests are not run for
\* nothing.  Of a run that ends well, the first candidates that are not excluded
\* are executed, as many as the limit allows, and no others.
OptionsHonoured ==
    /\ source # 0 /\ options.baseline => baseline
    /\ outcome = "ok" =>
        /\ baseline <=> options.baseline /\ selected > 0
        /\ Len(verdicts) = Candidates
        /\ \A c \in Candidate :
             verdicts[c] \in {"invalid"} \cup Tried <=>
                /\ c \notin Excluded
                /\ Cardinality({d \in 1..c : d \notin Excluded}) <= options.max

\* The scope is active, a command is there, and the baseline runs, exactly where
\* they belong.
ControlAgrees ==
    /\ active <=> pc \notin {"begin", "after", "done"}
    /\ result # "none" => pc = "command"
    /\ outcome # "none" <=> pc \in {"leave", "after", "done"}
    /\ pc \in {"begin", "prepare"} => ~baseline /\ verdicts = <<>> /\ selected = 0
    /\ pc = "command" /\ phase \in {"baseValidation", "baseTest"} =>
         options.baseline /\ ~baseline /\ verdicts = <<>> /\ selected = 0

\* What is alive belongs to the command in progress, or ends the run.
TreesAgree ==
    alive => result \in {"running", "treeError"} \/ verdict = "treeError" \/ outcome = "treeError"

\* A mutant is in its source from Apply to Restore, and after a failure of one
\* of them.
SourceAgrees ==
    /\ source # 0 =>
         /\ source = Current
         /\ \/ pc = "command" /\ phase \in {"validation", "test"}
            \/ pc \in {"restore", "dropGuard"}
            \/ outcome \in {"error", "restoreError"}
    /\ pc = "command" /\ phase \in {"validation", "test"} => source = Current
    /\ pc \in {"apply", "restore", "dropGuard", "record"} => Current \in Candidate

\* A verdict waits for the source to be restored; a fatal one ends the run.
VerdictAgrees ==
    /\ pc \in {"restore", "dropGuard", "record"} => verdict # "none"
    /\ verdict # "none" => \/ pc \in {"restore", "dropGuard"}
                           \/ pc = "record" /\ verdict \in Tried /\ source = 0
                           \/ outcome = "restoreError"
                           \/ outcome = verdict /\ verdict \in Fatal /\ source = 0

\* The inductive invariant, but for the counting.
IInv ==
    /\ TypeOK
    /\ ControlAgrees
    /\ TreesAgree
    /\ SourceAgrees
    /\ VerdictAgrees

Judging == INSTANCE MutationJudging WITH
    Verdict <- Tried,
    tried <- verdict # "none" /\ source = 0

\* Every verdict is that of the mutant that was in the source, and is given
\* when the original is back.
ImplementsJudging == Judging!Spec

\* A signal that arrives in time ends the run, and not with a report.
CancellationEndsRun == token /\ active ~> exited \/ (pc = "done" /\ outcome # "ok")

\* A run that has begun ends, whatever its commands do.
RunEnds == pc # "begin" ~> exited \/ pc = "done"

\* signals.rs: during a mutation execution "the first signal requests cooperative
\* cancellation so the child tree can be killed and source guards can restore".
FirstSignalIsCooperative == exited /\ sent = 1 => source = 0 /\ ~alive
=============================================================================
