-------------------------- MODULE MutationJudging --------------------------
(***************************************************************************)
(* What a mutation run promises: candidates are dealt with in their order, *)
(* one verdict each; a verdict of the commands belongs to the candidate    *)
(* whose mutant was in its source, and the source is the original again    *)
(* before the verdict is given and before the next candidate's turn.       *)
(***************************************************************************)
EXTENDS Naturals, Sequences

CONSTANTS
    Candidates,    \* how many there are
    Verdict        \* what the commands may say of a mutant

VARIABLES
    source,        \* 0, or the candidate whose mutant is in its source file
    tried,         \* is the candidate whose turn it is finished with its mutant?
    verdicts       \* what was said of the candidates so far

vars == <<source, tried, verdicts>>

Current == Len(verdicts) + 1

Init == source = 0 /\ tried = FALSE /\ verdicts = <<>>

\* The mutant does not apply, or is not to be tried.
Dismiss ==
    /\ source = 0 /\ ~tried
    /\ Current \in 1..Candidates
    /\ \E v \in {"ignored", "noCoverage", "invalid"} : verdicts' = Append(verdicts, v)
    /\ UNCHANGED <<source, tried>>

Mutate ==
    /\ source = 0 /\ ~tried
    /\ Current \in 1..Candidates
    /\ source' = Current
    /\ UNCHANGED <<tried, verdicts>>

\* The source may also stay a mutant: then nothing is said any more.
Restore ==
    /\ source = Current
    /\ source' = 0
    /\ tried' = TRUE
    /\ UNCHANGED verdicts

Judge ==
    /\ source = 0 /\ tried
    /\ \E v \in Verdict : verdicts' = Append(verdicts, v)
    /\ tried' = FALSE
    /\ UNCHANGED source

Next == Dismiss \/ Mutate \/ Restore \/ Judge

Spec == Init /\ [][Next]_vars
=============================================================================
