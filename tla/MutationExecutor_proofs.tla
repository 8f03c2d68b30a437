---------------------- MODULE MutationExecutor_proofs ----------------------
(***************************************************************************)
(* For any number of candidates and signals, and any options: a run that   *)
(* ends in order leaves nothing behind, commands never overlap, the        *)
(* options are honoured, and MutationExecutor implements MutationJudging.  *)
(***************************************************************************)
EXTENDS MutationExecutor, FiniteSetTheorems, TLAPS

\* The signals are only touched by their handler and by the scope.
LEMMA SignalStep ==
    ASSUME Signals!TypeOK, [Next]_vars
    PROVE  Signals!TypeOK'
<1> USE SignalsAssumption DEF Signals!TypeOK, signals
<1>1. CASE EnterScope
  BY <1>1 DEF EnterScope, Signals!EnterScope
<1>2. CASE LeaveScope
  BY <1>2 DEF LeaveScope, Signals!LeaveScope
<1>3. CASE RunCommand
  BY <1>3 DEF RunCommand, Command!Start, Command!Answer
<1>4. CASE \/ Prepare \/ AssessBaseline \/ NextCandidate \/ Apply \/ AssessCandidate \/ Restore
           \/ DropGuard \/ Record \/ Finish
  BY <1>4 DEF Prepare, AssessBaseline, NextCandidate, Apply, AssessCandidate, Restore, DropGuard,
     Record, Finish
<1>5. CASE Handler
  <2>1. CASE Signals!LoadActive
    BY <2>1 DEF Signals!LoadActive
  <2>2. CASE Signals!Dispose
    BY <2>2 DEF Signals!Dispose
  <2>3. QED
    BY <1>5, <2>1, <2>2 DEF Handler, Signals!Handler
<1>6. CASE Environment
  BY <1>6 DEF Environment, Signals!Signal, Command!Die
<1>7. CASE UNCHANGED vars
  BY <1>7 DEF vars
<1>8. QED
  BY <1>1, <1>2, <1>3, <1>4, <1>5, <1>6, <1>7 DEF Next, Main

\* The command is started and answers, and its answer is taken.
LEMMA CommandStep ==
    ASSUME Command!TypeOK, Signals!TypeOK', [Next]_vars
    PROVE  Command!TypeOK'
<1> USE DEF Command!TypeOK, Command!Outcome, Command!Error, command
<1>0. token' \in BOOLEAN
  BY DEF Signals!TypeOK
<1>1. CASE RunCommand
  BY <1>0, <1>1 DEF RunCommand, Command!Start, Command!Answer
<1>2. CASE AssessBaseline \/ AssessCandidate
  BY <1>0, <1>2 DEF AssessBaseline, AssessCandidate
<1>3. CASE \/ EnterScope \/ Prepare \/ NextCandidate \/ Apply \/ Restore \/ DropGuard \/ Record
           \/ LeaveScope \/ Finish
  BY <1>0, <1>3 DEF EnterScope, Prepare, NextCandidate, Apply, Restore, DropGuard, Record, LeaveScope,
     Finish
<1>4. CASE Handler
  BY <1>0, <1>4 DEF Handler
<1>5. CASE Environment
  BY <1>0, <1>5 DEF Environment, Command!Die
<1>6. CASE UNCHANGED vars
  BY <1>0, <1>6 DEF vars
<1>7. QED
  BY <1>1, <1>2, <1>3, <1>4, <1>5, <1>6 DEF Next, Main

\* A recorded status extends the results by one.
LEMMA AppendStatus ==
    ASSUME MainTypeOK, Current \in Candidate, NEW v \in MutationStatus,
           verdicts' = Append(verdicts, v)
    PROVE  /\ verdicts' \in Seq(MutationStatus)
           /\ Len(verdicts') = Len(verdicts) + 1
           /\ Len(verdicts') <= Candidates
  BY CandidatesAssumption DEF MainTypeOK, Current, Candidate

LEMMA Classified ==
    ASSUME result \in Command!Outcome \cup Command!Error
    PROVE  Classify \in Tried \cup Fatal
  BY DEF Classify, Command!Outcome, Command!Error, Tried, Fatal

\* A candidate is executed only while the limit is not reached.
LEMMA Chosen ==
    ASSUME MainTypeOK
    PROVE  /\ Nonexecuted \in {"ignored", "noCoverage", "none"}
           /\ Nonexecuted = "none" => selected + 1 \in 0..Candidates
<1>1. options.max \in 0..Candidates
  BY DEF MainTypeOK, MutationOptions
<1>2. QED
  BY <1>1, CandidatesAssumption DEF Nonexecuted, MainTypeOK

\* The results are counted before and after the one that is added.
LEMMA CurrentType ==
    ASSUME MainTypeOK
    PROVE  Current \in Nat \ {0} /\ (Current <= Candidates => Current \in Candidate)
  BY CandidatesAssumption DEF MainTypeOK, Current, Candidate

LEMMA MainStep ==
    ASSUME TypeOK, ControlAgrees, SourceAgrees, VerdictAgrees, [Next]_vars
    PROVE  MainTypeOK'
<1>0. MainTypeOK
  BY DEF TypeOK
<1>a. ASSUME UNCHANGED options, pc' \in Place, phase' \in Phase, baseline' \in BOOLEAN,
             selected' \in 0..Candidates, source' \in {0} \cup Candidate,
             verdict' \in {"none"} \cup Tried \cup Fatal,
             verdicts' \in Seq(MutationStatus), Len(verdicts') <= Candidates, outcome' \in Outcome
      PROVE  MainTypeOK'
  BY <1>0, <1>a DEF MainTypeOK
<1>1. CASE EnterScope
  <2>1. pc' \in Place /\ UNCHANGED <<options, phase, baseline, selected, verdicts>>
    BY <1>1 DEF EnterScope, Goto, progress, Place
  <2>2. UNCHANGED <<source, verdict, outcome>>
    BY <1>1 DEF EnterScope, Goto
  <2>3. QED
    BY <1>0, <1>a, <2>1, <2>2 DEF MainTypeOK
<1>2. CASE Prepare
  <2>1. pc' \in Place /\ UNCHANGED <<options, baseline, selected, verdicts>>
    BY <1>2 DEF Prepare, StartBaseline, Goto, End, progress, Place
  <2>2. phase' \in Phase /\ outcome' \in Outcome /\ UNCHANGED <<source, verdict>>
    BY <1>0, <1>2 DEF Prepare, StartBaseline, Goto, End, Phase, Outcome, Fatal, MainTypeOK
  <2>3. QED
    BY <1>0, <1>a, <2>1, <2>2 DEF MainTypeOK
<1>3. CASE RunCommand \/ Handler \/ Environment \/ UNCHANGED vars
  <2>1. UNCHANGED main
    BY <1>3 DEF RunCommand, Handler, Environment, vars
  <2>2. QED
    BY <1>0, <2>1 DEF main, progress, MainTypeOK
<1>4. CASE AssessBaseline
  <2>1. pc' \in Place /\ UNCHANGED <<options, selected, verdicts>>
    BY <1>4 DEF AssessBaseline, Goto, End, Place
  <2>2. phase' \in Phase /\ baseline' \in BOOLEAN /\ UNCHANGED <<source, verdict>>
    BY <1>0, <1>4 DEF AssessBaseline, Goto, End, Phase, MainTypeOK
  <2>3. outcome' \in Outcome
    BY <1>0, <1>4 DEF AssessBaseline, Goto, End, Outcome, Fatal, Command!Error, MainTypeOK
  <2>4. QED
    BY <1>0, <1>a, <2>1, <2>2, <2>3 DEF MainTypeOK
<1>5. CASE NextCandidate
  <2>1. pc' \in Place /\ UNCHANGED <<options, phase, source, verdict, baseline>>
    BY <1>0, <1>5 DEF NextCandidate, Goto, End, progress, Place, MainTypeOK
  <2>2. outcome' \in Outcome
    BY <1>0, <1>5 DEF NextCandidate, Goto, End, Outcome, Fatal, MainTypeOK
  <2>3. selected' \in 0..Candidates
    BY <1>0, <1>5, Chosen DEF NextCandidate, progress, MainTypeOK
  <2>4. verdicts' \in Seq(MutationStatus) /\ Len(verdicts') <= Candidates
    <3>1. CASE UNCHANGED verdicts
      BY <1>0, <3>1 DEF MainTypeOK
    <3>2. CASE Current <= Candidates /\ Nonexecuted # "none" /\ verdicts' = Append(verdicts, Nonexecuted)
      <4>1. Nonexecuted \in MutationStatus
        BY <1>0, <3>2, Chosen DEF MutationStatus
      <4>2. Current \in Candidate
        BY <1>0, <3>2, CurrentType
      <4>3. QED
        BY <1>0, <3>2, <4>1, <4>2, AppendStatus
    <3>3. QED
      BY <1>5, <3>1, <3>2 DEF NextCandidate, progress
  <2>5. QED
    BY <1>0, <1>a, <2>1, <2>2, <2>3, <2>4 DEF MainTypeOK
<1>6. CASE Apply
  <2>0. Current \in Candidate
    BY <1>6 DEF Apply, Running, SourceAgrees
  <2>1. pc' \in Place /\ UNCHANGED <<options, selected, verdict, baseline>>
    BY <1>6 DEF Apply, Goto, End, Place
  <2>2. phase' \in Phase /\ outcome' \in Outcome
    BY <1>0, <1>6 DEF Apply, Goto, End, Phase, Outcome, MainTypeOK
  <2>3. source' \in {0} \cup Candidate
    BY <1>0, <1>6, <2>0 DEF Apply, MainTypeOK
  <2>4. verdicts' \in Seq(MutationStatus) /\ Len(verdicts') <= Candidates
    <3>1. "invalid" \in MutationStatus
      BY DEF MutationStatus
    <3>2. CASE verdicts' = Append(verdicts, "invalid")
      BY <1>0, <2>0, <3>1, <3>2, AppendStatus
    <3>3. CASE UNCHANGED verdicts
      BY <1>0, <3>3 DEF MainTypeOK
    <3>4. QED
      BY <1>6, <3>2, <3>3 DEF Apply
  <2>5. QED
    BY <1>0, <1>a, <2>1, <2>2, <2>3, <2>4 DEF MainTypeOK
<1>7. CASE AssessCandidate
  <2>1. pc' \in Place /\ UNCHANGED <<options, selected, baseline, verdicts, source, outcome>>
    BY <1>0, <1>7 DEF AssessCandidate, progress, Place, MainTypeOK
  <2>2. phase' \in Phase
    BY <1>0, <1>7 DEF AssessCandidate, Phase, MainTypeOK
  <2>3. verdict' \in {"none"} \cup Tried \cup Fatal
    <3>1. "cancelled" \in Fatal
      BY DEF Fatal
    <3>2. QED
      BY <1>0, <1>7, <3>1, Classified DEF AssessCandidate, MainTypeOK
  <2>4. QED
    BY <1>0, <1>a, <2>1, <2>2, <2>3 DEF MainTypeOK
<1>8. CASE Restore \/ DropGuard
  <2>1. pc' \in Place /\ UNCHANGED <<options, phase, selected, baseline, verdicts, verdict>>
    BY <1>8 DEF Restore, DropGuard, Goto, End, progress, Place
  <2>2. source' \in {0, source}
    BY <1>8 DEF Restore, DropGuard
  <2>3. outcome' \in Outcome
    BY <1>0, <1>8 DEF Restore, DropGuard, Goto, End, Outcome, MainTypeOK
  <2>4. QED
    BY <1>0, <1>a, <2>1, <2>2, <2>3 DEF MainTypeOK
<1>9. CASE Record
  <2>1. pc' \in Place /\ UNCHANGED <<options, phase, selected, baseline, source, outcome>>
    BY <1>9 DEF Record, Goto, Place
  <2>2. verdict' = "none" /\ verdicts' = Append(verdicts, verdict)
    BY <1>9 DEF Record
  <2>3. verdict \in MutationStatus /\ Current \in Candidate
    BY <1>9 DEF Record, Running, ControlAgrees, SourceAgrees, VerdictAgrees, MutationStatus, Fatal
  <2>4. verdicts' \in Seq(MutationStatus) /\ Len(verdicts') <= Candidates
    BY <1>0, <2>2, <2>3, AppendStatus
  <2>5. QED
    BY <1>0, <1>a, <2>1, <2>2, <2>4 DEF MainTypeOK
<1>10. CASE LeaveScope \/ Finish
  <2>1. pc' \in Place /\ UNCHANGED <<options, phase, baseline, selected, verdicts, source, verdict>>
    BY <1>10 DEF LeaveScope, Finish, Goto, progress, Place
  <2>2. outcome' \in Outcome
    BY <1>0, <1>10 DEF LeaveScope, Finish, Goto, Outcome, Fatal, MainTypeOK
  <2>3. QED
    BY <1>0, <1>a, <2>1, <2>2 DEF MainTypeOK
<1>11. QED
  BY <1>1, <1>2, <1>3, <1>4, <1>5, <1>6, <1>7, <1>8, <1>9, <1>10 DEF Next, Main

\* The scope, the command and the baseline are where the main thread is.
LEMMA ControlStep ==
    ASSUME TypeOK, ControlAgrees, SourceAgrees, VerdictAgrees, [Next]_vars
    PROVE  ControlAgrees'
<1> USE DEF ControlAgrees, Running, Goto, End, signals, command, progress
<1>0. phase \in Phase /\ outcome \in Outcome
  BY DEF TypeOK, MainTypeOK
<1>1. CASE EnterScope
  BY <1>0, <1>1 DEF EnterScope, Signals!EnterScope
<1>2. CASE Prepare
  BY <1>0, <1>2 DEF Prepare, StartBaseline
<1>3. CASE RunCommand
  BY <1>0, <1>3 DEF RunCommand, main
<1>4. CASE AssessBaseline
  BY <1>0, <1>4 DEF AssessBaseline, Command!Error
<1>5. CASE NextCandidate
  BY <1>0, <1>5 DEF NextCandidate
<1>6. CASE Apply
  BY <1>0, <1>6 DEF Apply
<1>7. CASE AssessCandidate
  BY <1>0, <1>7 DEF AssessCandidate
<1>8. CASE Restore \/ DropGuard
  BY <1>0, <1>8 DEF Restore, DropGuard, Fatal
<1>9. CASE Record
  BY <1>0, <1>9 DEF Record
<1>10. CASE LeaveScope
  BY <1>0, <1>10 DEF LeaveScope, Signals!LeaveScope
<1>11. CASE Finish
  BY <1>0, <1>11 DEF Finish
<1>12. CASE Handler
  BY <1>0, <1>12 DEF Handler, Signals!Handler, Signals!LoadActive, Signals!Dispose, main
<1>13. CASE Environment
  BY <1>0, <1>13 DEF Environment, Signals!Signal, Command!Die, main
<1>14. CASE UNCHANGED vars
  BY <1>0, <1>14 DEF vars, main
<1>15. QED
  BY <1>1, <1>2, <1>3, <1>4, <1>5, <1>6, <1>7, <1>8, <1>9, <1>10, <1>11, <1>12, <1>13, <1>14
     DEF Next, Main

\* Only a start makes something live, and only a failed cleanup leaves it alive.
LEMMA TreesStep ==
    ASSUME TypeOK, ControlAgrees, TreesAgree, SourceAgrees, VerdictAgrees, [Next]_vars
    PROVE  TreesAgree'
<1> USE DEF ControlAgrees, TreesAgree, Running, Goto, End, signals, command, progress
<1>0. phase \in Phase /\ outcome \in Outcome
  BY DEF TypeOK, MainTypeOK
<1>1. CASE \/ EnterScope \/ Prepare \/ NextCandidate \/ Apply \/ LeaveScope
  BY <1>0, <1>1 DEF EnterScope, Prepare, NextCandidate, Apply, LeaveScope
<1>2. CASE RunCommand
  <2>1. verdict # "treeError" /\ outcome # "treeError" /\ (alive => result \in {"running", "treeError"})
    BY <1>2 DEF RunCommand, VerdictAgrees
  <2>2. QED
    BY <1>2, <2>1 DEF RunCommand, Command!Start, Command!Answer
<1>3. CASE AssessBaseline
  <2>1. result # "running" /\ outcome # "treeError" /\ UNCHANGED <<alive, verdict>>
    BY <1>3 DEF AssessBaseline, Command!Outcome, Command!Error
  <2>2. result = "treeError" => outcome' = "treeError"
    BY <1>3 DEF AssessBaseline, Command!Outcome, Command!Error
  <2>3. QED
    BY <2>1, <2>2
<1>4. CASE AssessCandidate
  <2>1. result # "running" /\ verdict = "none" /\ UNCHANGED <<alive, outcome>>
    BY <1>4 DEF AssessCandidate, Command!Outcome, Command!Error, VerdictAgrees
  <2>2. result = "treeError" => verdict' = "treeError"
    BY <1>4 DEF AssessCandidate, Classify, Fatal
  <2>3. QED
    BY <2>1, <2>2
<1>5. CASE Restore \/ DropGuard
  BY <1>5 DEF Restore, DropGuard
<1>6. CASE Record
  <2>1. verdict # "treeError"
    BY <1>6 DEF Record, VerdictAgrees, Tried, Fatal
  <2>2. QED
    BY <1>6, <2>1 DEF Record
<1>7. CASE Finish
  BY <1>7 DEF Finish
<1>8. CASE Handler \/ Environment \/ UNCHANGED vars
  BY <1>8 DEF Handler, Environment, Command!Die, vars, main
<1>9. QED
  BY <1>1, <1>2, <1>3, <1>4, <1>5, <1>6, <1>7, <1>8 DEF Next, Main

\* A mutant goes into its source when its turn comes and stays until it is
\* restored: the turn does not pass on in between.
LEMMA SourceStep ==
    ASSUME TypeOK, ControlAgrees, SourceAgrees, VerdictAgrees, [Next]_vars
    PROVE  SourceAgrees'
<1> USE DEF ControlAgrees, SourceAgrees, Running, Goto, End, signals, command, progress
<1>0. MainTypeOK /\ phase \in Phase /\ Current # 0 /\ (Current <= Candidates => Current \in Candidate)
  BY CurrentType DEF TypeOK, MainTypeOK
<1>a. UNCHANGED verdicts => Current' = Current
  BY DEF Current
<1>b. Candidate' = Candidate
  BY DEF Candidate
<1>1. CASE EnterScope \/ LeaveScope \/ Finish
  BY <1>0, <1>a, <1>b, <1>1 DEF EnterScope, LeaveScope, Finish
<1>2. CASE Prepare
  BY <1>0, <1>a, <1>b, <1>2 DEF Prepare, StartBaseline
<1>3. CASE RunCommand \/ Handler \/ Environment \/ UNCHANGED vars
  <2>1. UNCHANGED main
    BY <1>3 DEF RunCommand, Handler, Environment, vars
  <2>2. QED
    BY <1>a, <1>b, <2>1 DEF main
<1>4. CASE AssessBaseline
  BY <1>0, <1>a, <1>b, <1>4 DEF AssessBaseline, Phase
<1>5. CASE NextCandidate
  <2>1. source = 0 /\ source' = 0 /\ pc' \in {"loop", "apply", "leave"}
    BY <1>5 DEF NextCandidate
  <2>2. pc' = "apply" => UNCHANGED verdicts /\ Current <= Candidates
    BY <1>5 DEF NextCandidate
  <2>3. QED
    BY <1>0, <1>a, <1>b, <2>1, <2>2
<1>6. CASE Apply
  <2>1. source = 0 /\ Current \in Candidate
    BY <1>6 DEF Apply
  <2>2. CASE source' = Current /\ pc' = "command" /\ phase' \in {"validation", "test"} /\ UNCHANGED verdicts
    BY <1>a, <1>b, <2>1, <2>2
  <2>3. CASE pc' = "loop" /\ UNCHANGED <<phase, source>>
    BY <2>1, <2>3
  <2>4. CASE source' \in {0, Current} /\ pc' = "leave" /\ outcome' = "error" /\ UNCHANGED verdicts
    BY <1>a, <1>b, <2>1, <2>4
  <2>5. QED
    BY <1>6, <2>2, <2>3, <2>4 DEF Apply
<1>7. CASE AssessCandidate
  <2>1. source = Current /\ source # 0 /\ UNCHANGED <<source, verdicts>>
    BY <1>0, <1>7 DEF AssessCandidate
  <2>2. \/ pc' = "command" /\ phase' = "test"
        \/ pc' = "restore"
    BY <1>7 DEF AssessCandidate
  <2>3. Current \in Candidate
    BY <1>0, <2>1 DEF MainTypeOK
  <2>4. QED
    BY <1>a, <1>b, <2>1, <2>2, <2>3
<1>8. CASE Restore \/ DropGuard
  <2>1. Current \in Candidate /\ UNCHANGED verdicts /\ source' \in {0, source}
    BY <1>8 DEF Restore, DropGuard
  <2>2. \/ source' = 0 /\ pc' \in {"record", "leave"}
        \/ pc' = "dropGuard"
        \/ pc' = "leave" /\ outcome' = "restoreError"
    BY <1>8 DEF Restore, DropGuard
  <2>3. source = 0 \/ source = Current
    OBVIOUS
  <2>4. QED
    BY <1>a, <1>b, <2>1, <2>2, <2>3
<1>9. CASE Record
  <2>1. source = 0 /\ source' = 0 /\ pc' = "loop"
    BY <1>9 DEF Record
  <2>2. QED
    BY <2>1
<1>10. QED
  BY <1>1, <1>2, <1>3, <1>4, <1>5, <1>6, <1>7, <1>8, <1>9 DEF Next, Main

LEMMA VerdictStep ==
    ASSUME TypeOK, ControlAgrees, SourceAgrees, VerdictAgrees, [Next]_vars
    PROVE  VerdictAgrees'
<1> USE DEF ControlAgrees, VerdictAgrees, Running, Goto, End, signals, command, progress
<1>0. verdict \in {"none"} \cup Tried \cup Fatal /\ "none" \notin Tried \cup Fatal
  BY DEF TypeOK, MainTypeOK, Tried, Fatal
<1>1. CASE EnterScope \/ LeaveScope
  BY <1>1 DEF EnterScope, LeaveScope
<1>2. CASE Finish
  <2>1. outcome = "ok" => verdict = "none"
    BY <1>2 DEF Finish, Fatal
  <2>2. QED
    BY <1>2, <2>1 DEF Finish
<1>3. CASE Prepare \/ AssessBaseline \/ NextCandidate \/ Apply
  <2>1. verdict = "none" /\ verdict' = "none" /\ pc' \notin {"restore", "dropGuard", "record"}
    BY <1>3 DEF Prepare, StartBaseline, AssessBaseline, NextCandidate, Apply
  <2>2. QED
    BY <2>1
<1>4. CASE RunCommand \/ Handler \/ Environment \/ UNCHANGED vars
  <2>1. UNCHANGED main
    BY <1>4 DEF RunCommand, Handler, Environment, vars
  <2>2. QED
    BY <2>1 DEF main
<1>5. CASE AssessCandidate
  <2>1. verdict = "none"
    BY <1>5 DEF AssessCandidate
  <2>2. \/ pc' = "command" /\ verdict' = "none"
        \/ pc' = "restore" /\ verdict' \in Tried \cup Fatal
    BY <1>5, <2>1, Classified DEF AssessCandidate, Fatal
  <2>3. QED
    BY <1>0, <2>2
<1>6. CASE Restore
  <2>1. verdict # "none" /\ UNCHANGED verdict
    BY <1>6 DEF Restore
  <2>2. \/ source' = 0 /\ verdict \in Fatal /\ pc' = "leave" /\ outcome' = verdict
        \/ source' = 0 /\ verdict \in Tried /\ pc' = "record"
        \/ pc' = "dropGuard"
    BY <1>0, <1>6, <2>1 DEF Restore
  <2>3. QED
    BY <2>1, <2>2
<1>7. CASE DropGuard
  BY <1>7 DEF DropGuard
<1>8. CASE Record
  BY <1>8 DEF Record
<1>9. QED
  BY <1>1, <1>2, <1>3, <1>4, <1>5, <1>6, <1>7, <1>8 DEF Next, Main

\* The inductive invariant of a mutation run: types, control, what is alive,
\* what is in the source, and what waits for it.
THEOREM Invariance == Spec => []IInv
<1>1. Init => IInv
  <2> SUFFICES ASSUME Init PROVE IInv
    OBVIOUS
  <2> USE DEF Init, Signals!Init
  <2>1. Signals!TypeOK
    <3>1. active = FALSE /\ token = FALSE /\ exited = FALSE /\ handler = "idle" /\ sent = 0 /\ pending = 0
      OBVIOUS
    <3>2. sent \in 0..MaxSignals /\ pending \in 0..sent
      BY <3>1, SignalsAssumption
    <3>3. QED
      BY <3>1, <3>2 DEF Signals!TypeOK
  <2>2. Command!TypeOK
    BY DEF Command!TypeOK
  <2>3. MainTypeOK
    <3>1. verdicts \in Seq(MutationStatus) /\ Len(verdicts) <= Candidates
      BY CandidatesAssumption
    <3>2. selected \in 0..Candidates
      BY CandidatesAssumption
    <3>3. options \in MutationOptions /\ pc \in Place /\ phase \in Phase /\ baseline \in BOOLEAN
      BY DEF Place, Phase
    <3>4. source \in {0} \cup Candidate /\ verdict \in {"none"} \cup Tried \cup Fatal /\ outcome \in Outcome
      BY DEF Outcome
    <3>5. QED
      BY <3>1, <3>2, <3>3, <3>4 DEF MainTypeOK
  <2>4. ControlAgrees /\ TreesAgree /\ VerdictAgrees
    BY DEF ControlAgrees, TreesAgree, VerdictAgrees
  <2>5. SourceAgrees
    BY DEF SourceAgrees
  <2>6. QED
    BY <2>1, <2>2, <2>3, <2>4, <2>5 DEF IInv, TypeOK
<1>2. IInv /\ [Next]_vars => IInv'
  BY SignalStep, CommandStep, MainStep, ControlStep, TreesStep, SourceStep, VerdictStep
     DEF IInv, TypeOK
<1>3. QED
  BY <1>1, <1>2, PTL DEF Spec

\* Whenever a run ends in order, by its end, a cancellation or a baseline that
\* fails, no mutant is left in a source and no process of a command lives.
THEOREM LeavesNothing == Spec => []NothingLeftBehind
<1>1. IInv => NothingLeftBehind
  BY DEF IInv, ControlAgrees, TreesAgree, SourceAgrees, VerdictAgrees, NothingLeftBehind, Fatal
<1>2. QED
  BY <1>1, Invariance, PTL

\* A command is started only when nothing of an earlier one lives, even after
\* trees that could not be killed.
THEOREM TreesNeverOverlap == Spec => OneTreeAtATime
<1>1. IInv /\ [Next]_vars => [result = "none" /\ result' = "running" => ~alive]_vars
  <2> SUFFICES ASSUME IInv, [Next]_vars, result = "none", result' = "running"
               PROVE  ~alive
    OBVIOUS
  <2>1. RunCommand
    BY DEF Next, Main, EnterScope, Prepare, AssessBaseline, NextCandidate, Apply, AssessCandidate,
       Restore, DropGuard, Record, LeaveScope, Finish, Handler, Environment, Command!Die, vars, command
  <2>2. QED
    BY <2>1 DEF RunCommand, Running, IInv, ControlAgrees, TreesAgree, VerdictAgrees
<1>2. QED
  BY <1>1, Invariance, PTL DEF Spec, OneTreeAtATime

\* A run implements MutationJudging: each verdict is that of the mutant that was
\* in the source, and is given when the original is back.
THEOREM KeepsJudging == Spec => ImplementsJudging
<1>1. Init => Judging!Init
  BY DEF Init, Judging!Init
<1>2. IInv /\ [Next]_vars => [Judging!Next]_(Judging!vars)
  <2> SUFFICES ASSUME IInv, [Next]_vars
               PROVE  [Judging!Next]_(Judging!vars)
    OBVIOUS
  <2> USE DEF IInv, ControlAgrees, SourceAgrees, VerdictAgrees, Running, Goto, progress
  <2>0. Judging!Current = Current /\ MainTypeOK
    BY DEF Judging!Current, Current, TypeOK
  <2>a. ASSUME UNCHANGED <<source, verdict, verdicts>> PROVE [Judging!Next]_(Judging!vars)
    BY <2>a DEF Judging!vars
  <2>1. CASE \/ EnterScope \/ Prepare \/ AssessBaseline \/ LeaveScope \/ Finish
    BY <2>1, <2>a DEF EnterScope, Prepare, AssessBaseline, LeaveScope, Finish
  <2>2. CASE RunCommand \/ Handler \/ Environment \/ UNCHANGED vars
    BY <2>2, <2>a DEF RunCommand, Handler, Environment, vars, main
  <2>3. CASE NextCandidate
    <3>1. CASE UNCHANGED verdicts
      BY <2>3, <2>a, <3>1 DEF NextCandidate
    <3>2. CASE Current <= Candidates /\ Nonexecuted # "none" /\ verdicts' = Append(verdicts, Nonexecuted)
      <4>1. Nonexecuted \in {"ignored", "noCoverage"} /\ Current \in 1..Candidates
        BY <2>0, <3>2, Chosen, CurrentType DEF Candidate
      <4>2. source = 0 /\ verdict = "none" /\ UNCHANGED <<source, verdict>>
        BY <2>3 DEF NextCandidate
      <4>3. QED
        BY <2>0, <3>2, <4>1, <4>2 DEF Judging!Next, Judging!Dismiss
    <3>3. QED
      BY <2>3, <3>1, <3>2 DEF NextCandidate
  <2>4. CASE Apply
    <3>1. Current \in 1..Candidates /\ source = 0 /\ verdict = "none" /\ UNCHANGED verdict
      BY <2>4 DEF Apply, Candidate
    <3>2. CASE source' = Current /\ UNCHANGED verdicts
      <4>1. source' # 0
        BY <2>0, <3>2, CurrentType
      <4>2. QED
        BY <2>0, <3>1, <3>2, <4>1 DEF Judging!Next, Judging!Mutate
    <3>3. CASE verdicts' = Append(verdicts, "invalid") /\ UNCHANGED source
      BY <2>0, <3>1, <3>3 DEF Judging!Next, Judging!Dismiss
    <3>4. CASE source' = 0 /\ UNCHANGED verdicts
      BY <2>a, <3>1, <3>4
    <3>5. QED
      BY <2>4, <3>2, <3>3, <3>4 DEF Apply, End
  <2>5. CASE AssessCandidate
    <3>1. source # 0 /\ UNCHANGED <<source, verdicts>>
      BY <2>0, <2>5, CurrentType DEF AssessCandidate
    <3>2. QED
      BY <3>1 DEF Judging!vars
  <2>6. CASE Restore \/ DropGuard
    <3>1. verdict # "none" /\ UNCHANGED <<verdict, verdicts>> /\ source' \in {0, source}
      BY <2>6 DEF Restore, DropGuard
    <3>2. CASE UNCHANGED source
      BY <2>a, <3>1, <3>2
    <3>3. CASE source # 0 /\ source' = 0
      BY <2>0, <3>1, <3>3 DEF Judging!Next, Judging!Restore
    <3>4. QED
      BY <3>1, <3>2, <3>3
  <2>7. CASE Record
    <3>1. /\ verdict \in Tried /\ source = 0 /\ source' = 0
          /\ verdict # "none" /\ verdict' = "none" /\ verdicts' = Append(verdicts, verdict)
      BY <2>7 DEF Record
    <3>2. QED
      BY <3>1 DEF Judging!Next, Judging!Judge
  <2>8. QED
    BY <2>1, <2>2, <2>3, <2>4, <2>5, <2>6, <2>7 DEF Next, Main
<1>3. QED
  BY <1>1, <1>2, Invariance, PTL DEF Spec, ImplementsJudging, Judging!Spec
-----------------------------------------------------------------------------
(* What the baseline decides by a count, and the loop one by one *)

\* Those of the first n candidates that are not excluded, and how many they are.
Available(n) == {d \in 1..n : d \notin Excluded}
Count(n) == Cardinality(Available(n))
Least(m, n) == IF m <= n THEN m ELSE n

\* A candidate is being tried: it has been selected, not judged.
Trying ==
    \/ pc \in {"apply", "restore", "dropGuard", "record"}
    \/ pc = "command" /\ phase \in {"validation", "test"}

\* Of the candidates that were passed, those within the limit have been selected.
SelectionAgrees ==
    /\ pc = "loop" \/ outcome = "ok" => selected = Least(Count(Len(verdicts)), options.max)
    /\ Trying => /\ Current \notin Excluded
                 /\ selected = Count(Current) /\ Count(Current) <= options.max
    /\ outcome = "ok" => Len(verdicts) = Candidates

\* The verdicts tell the executed candidates from the others.
ExecutedWithinLimit ==
    \A c \in 1..Len(verdicts) :
        verdicts[c] \in {"invalid"} \cup Tried <=> c \notin Excluded /\ Count(c) <= options.max

\* The baseline was run if the count said that it is needed.
BaselineAgrees ==
    /\ pc = "command" /\ phase \in {"baseValidation", "baseTest"} => ExecutableCount > 0
    /\ pc = "loop" \/ Trying \/ outcome = "ok" =>
         (baseline <=> options.baseline /\ ExecutableCount > 0)
    /\ source # 0 /\ options.baseline => baseline

CountsAgree == SelectionAgrees /\ ExecutedWithinLimit /\ BaselineAgrees

LEMMA CountType ==
    ASSUME NEW n \in Nat
    PROVE  IsFiniteSet(Available(n)) /\ Count(n) \in Nat
<1>1. IsFiniteSet(1..n)
  BY FS_Interval
<1>2. Available(n) \in SUBSET (1..n)
  BY DEF Available
<1>3. QED
  BY <1>1, <1>2, FS_Subset, FS_CardinalityType DEF Count

\* One candidate further, one more is counted, unless it is excluded.
LEMMA CountNext ==
    ASSUME NEW n \in Nat
    PROVE  Count(n + 1) = IF n + 1 \in Excluded THEN Count(n) ELSE Count(n) + 1
<1>1. CASE n + 1 \in Excluded
  <2>1. Available(n + 1) = Available(n)
    BY <1>1 DEF Available
  <2>2. QED
    BY <1>1, <2>1 DEF Count
<1>2. CASE n + 1 \notin Excluded
  <2>1. Available(n + 1) = Available(n) \cup {n + 1}
    BY <1>2 DEF Available
  <2>2. n + 1 \notin Available(n)
    BY DEF Available
  <2>3. QED
    BY <1>2, <2>1, <2>2, CountType, FS_AddElement DEF Count
<1>3. QED
  BY <1>1, <1>2

\* The whole inventory counts what the baseline counts, and no part of it more.
LEMMA CountAll ==
    ASSUME MainTypeOK
    PROVE  /\ Count(0) = 0
           /\ options.max \in Nat
           /\ ExecutableCount = Least(Count(Candidates), options.max)
           /\ \A n \in 0..Candidates : Count(n) <= Count(Candidates)
<1>1. Available(0) = {} /\ Available(Candidates) = Candidate \ Excluded
  BY DEF Available, Candidate
<1>2. options.max \in Nat
  BY CandidatesAssumption DEF MainTypeOK, MutationOptions
<1>3. Count(Candidates) \in Nat
  BY CountType, CandidatesAssumption
<1>4. ExecutableCount = Least(Count(Candidates), options.max)
  BY <1>1, <1>2, <1>3 DEF ExecutableCount, Least, Count
<1>5. ASSUME NEW n \in 0..Candidates PROVE Count(n) <= Count(Candidates)
  <2>1. Available(n) \in SUBSET Available(Candidates)
    BY CandidatesAssumption DEF Available
  <2>2. QED
    BY <2>1, CountType, FS_Subset, CandidatesAssumption DEF Count
<1>6. QED
  BY <1>1, <1>2, <1>4, <1>5, FS_EmptySet DEF Count

\* The options stay as they are, and what depends on them alone.
LEMMA OptionsStay ==
    ASSUME UNCHANGED options
    PROVE  /\ Excluded' = Excluded /\ ExecutableCount' = ExecutableCount
           /\ \A n : Count(n)' = Count(n)
  BY DEF Excluded, ExecutableCount, Count, Available

\* Verdicts that stay keep their counts; so does one that is added rightly.
LEMMA VerdictsCounted ==
    ASSUME MainTypeOK, ExecutedWithinLimit, UNCHANGED options,
           \/ UNCHANGED verdicts
           \/ \E v \in MutationStatus :
                /\ verdicts' = Append(verdicts, v)
                /\ v \in {"invalid"} \cup Tried <=>
                     Current \notin Excluded /\ Count(Current) <= options.max
    PROVE  ExecutedWithinLimit'
<1>1. CASE UNCHANGED verdicts
  BY <1>1, OptionsStay DEF ExecutedWithinLimit
<1>2. ASSUME NEW v \in MutationStatus, verdicts' = Append(verdicts, v),
             v \in {"invalid"} \cup Tried <=>
               Current \notin Excluded /\ Count(Current) <= options.max
      PROVE  ExecutedWithinLimit'
  <2>1. /\ Len(verdicts) \in Nat /\ Len(verdicts') = Len(verdicts) + 1
        /\ \A c \in 1..Len(verdicts) : verdicts'[c] = verdicts[c]
        /\ verdicts'[Len(verdicts) + 1] = v
    BY <1>2 DEF MainTypeOK
  <2>2. ASSUME NEW c \in 1..Len(verdicts')
        PROVE  verdicts'[c] \in {"invalid"} \cup Tried <=>
                 c \notin Excluded /\ Count(c) <= options.max
    <3>1. c \in 1..Len(verdicts) \/ c = Current
      BY <2>1 DEF Current
    <3>2. QED
      BY <1>2, <2>1, <3>1 DEF ExecutedWithinLimit, Current
  <2>3. QED
    BY <2>2, OptionsStay DEF ExecutedWithinLimit
<1>3. QED
  BY <1>1, <1>2

\* Every step keeps the counts.
LEMMA CountsStep ==
    ASSUME IInv, IInv', CountsAgree, [Next]_vars
    PROVE  CountsAgree'
<1> DEFINE n == Len(verdicts)
<1>0. /\ MainTypeOK /\ ControlAgrees /\ SourceAgrees /\ VerdictAgrees
      /\ SelectionAgrees /\ ExecutedWithinLimit /\ BaselineAgrees
  BY DEF IInv, TypeOK, CountsAgree
<1>1. /\ n \in Nat /\ Current = n + 1 /\ options.max \in Nat
      /\ Count(n) \in Nat /\ Count(Current) \in Nat
      /\ Count(Current) = IF Current \in Excluded THEN Count(n) ELSE Count(n) + 1
  BY <1>0, CountType, CountNext, CountAll DEF MainTypeOK, Current
<1>2. UNCHANGED options => /\ Excluded' = Excluded /\ ExecutableCount' = ExecutableCount
                           /\ \A k : Count(k)' = Count(k)
  BY OptionsStay
<1>3. UNCHANGED <<options, verdicts>> => Current' = Current /\ Count(Len(verdicts))' = Count(n)
                                         /\ Count(Current)' = Count(Current)
                                         /\ ExecutedWithinLimit'
  BY <1>0, <1>2, VerdictsCounted DEF Current, Count, Available, Excluded
<1> HIDE DEF n
<1>4. CASE UNCHANGED main
  BY <1>0, <1>2, <1>3, <1>4
     DEF main, progress, CountsAgree, SelectionAgrees, BaselineAgrees, Trying
<1>5. CASE EnterScope
  <2>1. UNCHANGED <<options, phase, baseline, selected, verdicts, source, outcome>> /\ pc' = "prepare"
    BY <1>5 DEF EnterScope, Goto, progress
  <2>2. outcome = "none"
    BY <1>0, <1>5 DEF EnterScope, Running, ControlAgrees
  <2>3. QED
    BY <1>0, <1>2, <1>3, <2>1, <2>2 DEF CountsAgree, SelectionAgrees, BaselineAgrees, Trying
<1>6. CASE Prepare
  <2>1. UNCHANGED <<options, baseline, selected, verdicts, source>>
    BY <1>6 DEF Prepare, progress
  <2>2. ~baseline /\ verdicts = <<>> /\ selected = 0 /\ source = 0 /\ outcome = "none"
    BY <1>0, <1>6 DEF Prepare, Running, ControlAgrees, SourceAgrees
  <2>3. \/ pc' = "leave" /\ outcome' \in {"cancelled", "error"} /\ UNCHANGED phase
        \/ /\ options.baseline /\ ExecutableCount > 0
           /\ pc' = "command" /\ phase' \in {"baseValidation", "baseTest"} /\ UNCHANGED outcome
        \/ /\ ~(options.baseline /\ ExecutableCount > 0)
           /\ pc' = "loop" /\ UNCHANGED <<phase, outcome>>
    BY <1>6 DEF Prepare, StartBaseline, Goto, End
  <2>4. n = 0 /\ Count(n) = 0 /\ Least(Count(n), options.max) = 0
    BY <1>0, <1>1, <2>2, CountAll DEF n, Least
  <2>5. QED
    BY <1>0, <1>2, <1>3, <2>1, <2>2, <2>3, <2>4
       DEF CountsAgree, SelectionAgrees, BaselineAgrees, Trying, n
<1>7. CASE AssessBaseline
  <2>1. UNCHANGED <<options, selected, verdicts, source>>
    BY <1>7 DEF AssessBaseline
  <2>2. /\ options.baseline /\ ~baseline /\ verdicts = <<>> /\ selected = 0 /\ source = 0
        /\ outcome = "none" /\ ExecutableCount > 0
    BY <1>0, <1>7 DEF AssessBaseline, Running, ControlAgrees, SourceAgrees, BaselineAgrees
  <2>3. \/ pc' = "leave" /\ outcome' # "ok" /\ UNCHANGED baseline
        \/ pc' = "command" /\ phase' = "baseTest" /\ UNCHANGED <<baseline, outcome>>
        \/ pc' = "loop" /\ baseline' = TRUE /\ UNCHANGED outcome
    BY <1>7 DEF AssessBaseline, Goto, End, Command!Error
  <2>4. n = 0 /\ Count(n) = 0 /\ Least(Count(n), options.max) = 0
    BY <1>0, <1>1, <2>2, CountAll DEF n, Least
  <2>5. QED
    BY <1>0, <1>2, <1>3, <2>1, <2>2, <2>3, <2>4
       DEF CountsAgree, SelectionAgrees, BaselineAgrees, Trying, n
<1>8. CASE NextCandidate
  <2>1. /\ UNCHANGED <<options, phase, baseline, source>> /\ source = 0 /\ outcome = "none"
        /\ pc = "loop"
    BY <1>0, <1>8 DEF NextCandidate, Running, progress, ControlAgrees, SourceAgrees
  <2>2. /\ selected = Least(Count(n), options.max)
        /\ baseline <=> options.baseline /\ ExecutableCount > 0
    BY <1>0, <2>1 DEF SelectionAgrees, BaselineAgrees, n
  <2>3. CASE Current > Candidates /\ End("ok") /\ UNCHANGED progress
    <3>1. n = Candidates
      BY <1>0, <1>1, <2>3, CandidatesAssumption DEF MainTypeOK, n
    <3>2. QED
      BY <1>2, <1>3, <2>1, <2>2, <2>3, <3>1
         DEF CountsAgree, SelectionAgrees, BaselineAgrees, Trying, progress, End, n
  <2>4. CASE /\ Current <= Candidates /\ Nonexecuted # "none"
             /\ verdicts' = Append(verdicts, Nonexecuted)
             /\ UNCHANGED <<pc, outcome, baseline, selected>>
    <3>1. Nonexecuted \in {"ignored", "noCoverage"}
      BY <1>0, <2>4, Chosen
    <3>2. Current \in Excluded \/ selected >= options.max
      BY <2>4 DEF Nonexecuted, Excluded
    <3>3. ~(Current \notin Excluded /\ Count(Current) <= options.max)
      BY <1>1, <2>2, <3>2 DEF Least
    <3>4. ExecutedWithinLimit'
      <4>1. Nonexecuted \in MutationStatus /\ Nonexecuted \notin {"invalid"} \cup Tried
        BY <3>1 DEF MutationStatus, Tried
      <4>2. QED
        BY <1>0, <2>1, <2>4, <3>3, <4>1, VerdictsCounted
    <3>5. Len(verdicts') = Current
      BY <1>0, <1>1, <2>4 DEF MainTypeOK, n
    <3>6. selected = Least(Count(Current), options.max)
      BY <1>1, <2>2, <3>2 DEF Least
    <3>7. Count(Len(verdicts))' = Count(Current)
      BY <1>2, <2>1, <3>5 DEF Count, Available, Excluded
    <3>8. QED
      BY <1>2, <2>1, <2>2, <2>4, <3>4, <3>6, <3>7
         DEF CountsAgree, SelectionAgrees, BaselineAgrees, Trying
  <2>5. CASE /\ Nonexecuted = "none" /\ selected' = selected + 1 /\ UNCHANGED verdicts
             /\ IF token THEN End("cancelled") ELSE Goto("apply")
    <3>1. Current \notin Excluded /\ ~(selected >= options.max)
      BY <2>5 DEF Nonexecuted, Excluded
    <3>2. selected' = Count(Current) /\ Count(Current) <= options.max
      BY <1>1, <2>2, <2>5, <3>1 DEF Least
    <3>3. \/ pc' = "leave" /\ outcome' = "cancelled"
          \/ pc' = "apply" /\ UNCHANGED outcome
      BY <2>5 DEF End, Goto
    <3>4. QED
      BY <1>2, <1>3, <2>1, <2>2, <2>5, <3>1, <3>2, <3>3
         DEF CountsAgree, SelectionAgrees, BaselineAgrees, Trying
  <2>6. QED
    BY <1>8, <2>3, <2>4, <2>5 DEF NextCandidate
<1>9. CASE Apply
  <2>1. /\ UNCHANGED <<options, baseline, selected>> /\ source = 0 /\ outcome = "none"
        /\ pc = "apply" /\ Trying
    BY <1>0, <1>9 DEF Apply, Running, ControlAgrees, SourceAgrees, Trying
  <2>2. /\ Current \notin Excluded /\ selected = Count(Current) /\ Count(Current) <= options.max
        /\ baseline <=> options.baseline /\ ExecutableCount > 0
    BY <1>0, <2>1 DEF SelectionAgrees, BaselineAgrees
  <2>3. ExecutableCount > 0
    <3>1. Current \in 0..Candidates /\ Count(Current) > 0
      BY <1>0, <1>1, <2>1, <2>2, CandidatesAssumption DEF SourceAgrees, Candidate
    <3>2. Count(Current) <= Count(Candidates) /\ Count(Candidates) \in Nat
      BY <1>0, <3>1, CountAll, CountType, CandidatesAssumption
    <3>3. QED
      BY <1>0, <1>1, <2>2, <3>1, <3>2, CountAll DEF Least
  <2>4. CASE UNCHANGED verdicts /\ (pc' = "command" \/ (pc' = "leave" /\ outcome' = "error"))
    <3>1. source' # 0 /\ options'.baseline => baseline'
      BY <2>1, <2>2, <2>3
    <3>2. pc' = "command" => phase' \in {"validation", "test"} /\ UNCHANGED outcome
      BY <1>9 DEF Apply, Goto, End
    <3>3. QED
      BY <1>2, <1>3, <2>1, <2>2, <2>3, <2>4, <3>1, <3>2
         DEF CountsAgree, SelectionAgrees, BaselineAgrees, Trying
  <2>5. CASE /\ verdicts' = Append(verdicts, "invalid") /\ Goto("loop")
             /\ UNCHANGED <<phase, source>>
    <3>1. ExecutedWithinLimit'
      <4>1. "invalid" \in MutationStatus
        BY DEF MutationStatus
      <4>2. QED
        BY <1>0, <2>1, <2>2, <2>5, <4>1, VerdictsCounted
    <3>2. Len(verdicts') = Current
      BY <1>0, <1>1, <2>5 DEF MainTypeOK, n
    <3>3. Count(Len(verdicts))' = Count(Current)
      BY <1>2, <2>1, <3>2 DEF Count, Available, Excluded
    <3>4. selected = Least(Count(Current), options.max)
      BY <1>1, <2>2 DEF Least
    <3>5. QED
      BY <1>2, <2>1, <2>2, <2>3, <2>5, <3>1, <3>3, <3>4
         DEF CountsAgree, SelectionAgrees, BaselineAgrees, Trying, Goto
  <2>6. QED
    BY <1>9, <2>4, <2>5 DEF Apply, Goto, End
<1>10. CASE AssessCandidate
  <2>1. UNCHANGED <<options, baseline, selected, verdicts, source, outcome>>
    BY <1>10 DEF AssessCandidate, progress
  <2>2. Trying /\ outcome = "none"
    BY <1>0, <1>10 DEF AssessCandidate, Running, ControlAgrees, Trying
  <2>3. pc' = "restore" \/ (pc' = "command" /\ phase' = "test")
    BY <1>10 DEF AssessCandidate, Running
  <2>4. QED
    BY <1>0, <1>2, <1>3, <2>1, <2>2, <2>3
       DEF CountsAgree, SelectionAgrees, BaselineAgrees, Trying
<1>11. CASE Restore \/ DropGuard
  <2>1. UNCHANGED <<options, baseline, selected, verdicts>>
    BY <1>11 DEF Restore, DropGuard, progress
  <2>2. Trying /\ outcome = "none" /\ verdict # "none" /\ source' \in {0, source}
    BY <1>0, <1>11 DEF Restore, DropGuard, Running, ControlAgrees, VerdictAgrees, Trying
  <2>3. \/ pc' \in {"record", "dropGuard"} /\ outcome' = outcome
        \/ pc' = "leave" /\ outcome' # "ok"
    BY <1>11 DEF Restore, DropGuard, Goto, End, Fatal
  <2>4. QED
    BY <1>0, <1>2, <1>3, <2>1, <2>2, <2>3
       DEF CountsAgree, SelectionAgrees, BaselineAgrees, Trying
<1>12. CASE Record
  <2>1. /\ UNCHANGED <<options, phase, baseline, selected, source, outcome>>
        /\ outcome = "none" /\ source = 0 /\ Trying /\ pc' = "loop"
        /\ verdicts' = Append(verdicts, verdict) /\ verdict \in Tried
    BY <1>0, <1>12 DEF Record, Running, Goto, ControlAgrees, VerdictAgrees, Trying
  <2>2. /\ Current \notin Excluded /\ selected = Count(Current) /\ Count(Current) <= options.max
        /\ baseline <=> options.baseline /\ ExecutableCount > 0
    BY <1>0, <2>1 DEF SelectionAgrees, BaselineAgrees
  <2>3. ExecutedWithinLimit'
    <3>1. verdict \in MutationStatus
      BY <2>1 DEF MutationStatus
    <3>2. QED
      BY <1>0, <2>1, <2>2, <3>1, VerdictsCounted
  <2>4. Len(verdicts') = Current
    BY <1>0, <1>1, <2>1 DEF MainTypeOK, MutationStatus, n
  <2>5. Count(Len(verdicts))' = Count(Current)
    BY <1>2, <2>1, <2>4 DEF Count, Available, Excluded
  <2>6. selected = Least(Count(Current), options.max)
    BY <1>1, <2>2 DEF Least
  <2>7. QED
    BY <1>2, <2>1, <2>2, <2>3, <2>5, <2>6
       DEF CountsAgree, SelectionAgrees, BaselineAgrees, Trying
<1>13. CASE LeaveScope \/ Finish
  <2>1. UNCHANGED <<options, phase, baseline, selected, verdicts, source>>
    BY <1>13 DEF LeaveScope, Finish, progress
  <2>2. pc' \in {"after", "done"} /\ (outcome' = "ok" => outcome = "ok")
    BY <1>13 DEF LeaveScope, Finish, Goto
  <2>3. QED
    BY <1>0, <1>2, <1>3, <2>1, <2>2
       DEF CountsAgree, SelectionAgrees, BaselineAgrees, Trying
<1>14. QED
  BY <1>4, <1>5, <1>6, <1>7, <1>8, <1>9, <1>10, <1>11, <1>12, <1>13
     DEF Next, Main, RunCommand, Handler, Environment, vars

\* The baseline runs exactly when a candidate will be executed, mutants are only
\* tried after it, and the first candidates that are not excluded are executed,
\* as many as the limit allows, for any inventory and any options.
THEOREM HonoursOptions == Spec => []OptionsHonoured
<1>1. Init => CountsAgree
  <2> SUFFICES ASSUME Init PROVE CountsAgree
    OBVIOUS
  <2>1. Len(verdicts) = 0 /\ pc = "begin" /\ outcome = "none" /\ source = 0
    BY DEF Init
  <2>2. QED
    BY <2>1 DEF CountsAgree, SelectionAgrees, ExecutedWithinLimit, BaselineAgrees, Trying
<1>2. IInv /\ IInv' /\ CountsAgree /\ [Next]_vars => CountsAgree'
  BY CountsStep
<1>3. IInv /\ CountsAgree => OptionsHonoured
  <2> SUFFICES ASSUME IInv, CountsAgree, outcome = "ok"
               PROVE  /\ baseline <=> options.baseline /\ selected > 0
                      /\ Len(verdicts) = Candidates
                      /\ \A c \in Candidate :
                           verdicts[c] \in {"invalid"} \cup Tried <=>
                             /\ c \notin Excluded
                             /\ Cardinality({d \in 1..c : d \notin Excluded}) <= options.max
    BY DEF OptionsHonoured, CountsAgree, BaselineAgrees
  <2>1. Len(verdicts) = Candidates /\ selected = Least(Count(Candidates), options.max)
    BY DEF CountsAgree, SelectionAgrees
  <2>2. selected = ExecutableCount
    BY <2>1, CountAll DEF IInv, TypeOK
  <2>3. QED
    BY <2>1, <2>2
       DEF CountsAgree, BaselineAgrees, ExecutedWithinLimit, Candidate, Count, Available
<1>4. QED
  BY <1>1, <1>2, <1>3, Invariance, PTL DEF Spec
=============================================================================
