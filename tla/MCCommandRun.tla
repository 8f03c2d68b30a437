---------------------------- MODULE MCCommandRun ----------------------------
(***************************************************************************)
(* The commands of the program, side by side: the cancellable command of a *)
(* mutation run; the bounded run of the other tools, with its reader       *)
(* threads; the Cargo proxy that rustc builds in such a run; and the tail  *)
(* of the output that both runners keep.  They share no state; part says   *)
(* which one moves, the others stay as they began.                         *)
(***************************************************************************)
EXTENDS CommandRun

CONSTANTS MaxRunWritten, MaxLimit, CleanupAttempts, TailLimit, MaxTotal

ASSUME PartsAssumption == MaxRunWritten \in Nat /\ CleanupAttempts \in Nat \ {0}

VARIABLES
    part,
    runAlive, runAnswer, runEscaped, runWritten, limit, state, runLate, place, waiter, wait,
    taken, onTime, runResult,
    proxyToken, rustcAlive, rustcResult, directory, executable, step, attempt, refused,
    tailLimit, stream

run == <<runAlive, runAnswer, runEscaped, runWritten, limit, state, runLate, place, waiter,
         wait, taken, onTime, runResult>>
proxy == <<proxyToken, rustcAlive, rustcResult, directory, executable, step, attempt, refused>>
tail == <<tailLimit, stream>>
allVars == <<part, vars, run, proxy, tail>>

Run == INSTANCE BoundedRun
       WITH MaxWritten <- MaxRunWritten, alive <- runAlive, answer <- runAnswer, escaped <- runEscaped,
            written <- runWritten, late <- runLate, pc <- place, result <- runResult
Proxy == INSTANCE CargoProxy
         WITH token <- proxyToken, alive <- rustcAlive, result <- rustcResult, pc <- step
Kept == INSTANCE OutputTail WITH MaxLimit <- TailLimit, limit <- tailLimit

MCInit ==
    /\ part \in {"command", "run", "proxy", "tail"}
    /\ Init /\ Run!Init /\ Proxy!Init /\ Kept!Init
    /\ IF part = "run" THEN limit["stdout"] + limit["stderr"] = MaxLimit
                       ELSE limit = [s \in Stream |-> 0]
    /\ part # "tail" => tailLimit = 0

Commands(A) == part = "command" /\ A /\ UNCHANGED <<part, run, proxy, tail>>
Runs(A) == part = "run" /\ A /\ UNCHANGED <<part, vars, proxy, tail>>

MCNext ==
    \/ Commands(Next)
    \/ Runs(Run!Next)
    \/ part = "proxy" /\ Proxy!Next /\ UNCHANGED <<part, vars, run, tail>>
    \/ part = "tail" /\ Kept!Next /\ UNCHANGED <<part, vars, run, proxy>>

\* The fairness of the LiveSpecs of CommandRun and BoundedRun.
MCSpec ==
    /\ MCInit /\ [][MCNext]_allVars
    /\ WF_allVars(Commands(Call)) /\ WF_allVars(Commands(Deadline))
    /\ WF_allVars(Runs(Run!Call))

\* A bounded run judges its streams rightly, keeps the promise of a bounded
\* command (process-tree, bounded.rs).
OutputIsJudgedRightly == Run!OutputIsJudgedRightly
RunImplementsBoundedCommand == Run!RunImplementsBoundedCommand

\* Calls come back: a cancellable one whatever its command and its pipes do, a
\* bounded one without waiting for the deadline once its readers are through.
CallsComeBack == CallReturns /\ Run!CompletionWakesTheCall

\* The Cargo proxy is whole while it is used and gone afterwards (cargo_proxy.rs).
ProxyIsWholeOrGone == Proxy!ProxyIsWholeOrGone

\* The text of an outcome is a marked end of both streams (command.rs).
OutputIsAnEnd == Kept!OutputIsAnEnd
=============================================================================
