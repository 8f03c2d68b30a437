------------------------- MODULE CommandRun_proofs -------------------------
(***************************************************************************)
(* However much is written, and however long an escaped process holds the  *)
(* pipes: an output that is not marked as truncated is whole, and          *)
(* CommandRun implements BoundedCommand.  For any number of attempts to    *)
(* remove it, the Cargo proxy is whole or gone.  With what is proved of    *)
(* the bounded run and of the tail of an output, so are all the commands   *)
(* of the composition.                                                     *)
(***************************************************************************)
EXTENDS MCCommandRun, TLAPS

\* What TreeDies, WaitSlice and Terminate do to the tree.
LEMMA TreeCalls ==
    /\ Tree!Die <=> alive /\ alive' = FALSE /\ answer' = answer
    /\ Tree!Inconclusive <=> answer # "status" /\ answer' \in {"running", "failed"} /\ alive' = alive
    /\ Tree!Conclusive <=> ~alive /\ answer' = "status" /\ alive' = alive
  BY DEF Tree!Die, Tree!Inconclusive, Tree!Conclusive

LEMMA TypesStep ==
    ASSUME TypeOK, [Next]_vars
    PROVE  TypeOK'
<1> USE WrittenAssumption, TreeCalls
    DEF TypeOK, Place, Stream, Tree!TypeOK, Tree!Answer, Bounded!Outcome, Bounded!Error,
        tree, pipes, call, Go, Return
<1>1. CASE Begin
  <2>1. alive' \in BOOLEAN /\ pc' \in Place /\ result' \in {"cancelled", "otherError", "running"}
    BY <1>1 DEF Begin
  <2>2. UNCHANGED <<token, late, answer, escaped, written, captured, reader>>
    BY <1>1 DEF Begin
  <2>3. UNCHANGED <<output, verdict, truncated>>
    BY <1>1 DEF Begin
  <2>4. QED
    BY <2>1, <2>2, <2>3
<1>2. CASE PollTermination
  BY <1>2 DEF PollTermination
<1>3. CASE WaitSlice
  BY <1>3 DEF WaitSlice
<1>4. CASE Terminate
  BY <1>4 DEF Terminate
<1>5. CASE LastCheck \/ Discard
  BY <1>5 DEF LastCheck, Discard
<1>6. ASSUME NEW s \in Stream, FinishOutput(s) PROVE TypeOK'
  <2>1. output' \in [Stream -> 0..MaxWritten] /\ truncated' \in BOOLEAN
    BY <1>6 DEF FinishOutput
  <2>2. pc' \in Place /\ verdict' = verdict /\ result' \in {result, "otherError"}
    BY <1>6 DEF FinishOutput
  <2>3. UNCHANGED <<token, late, alive, answer, escaped, written, captured, reader>>
    BY <1>6 DEF FinishOutput
  <2>4. /\ token' \in BOOLEAN /\ late' \in BOOLEAN /\ Tree!TypeOK' /\ escaped' \in BOOLEAN
        /\ written' \in [Stream -> 0..MaxWritten] /\ captured' \in [Stream -> 0..MaxWritten]
        /\ reader' \in [Stream -> {"reading", "complete", "failed"}]
    BY <2>3
  <2>5. /\ verdict' \in {"none"} \cup Bounded!Outcome \cup Bounded!Error
        /\ result' \in {"none", "running"} \cup Bounded!Outcome \cup Bounded!Error
    BY <2>2
  <2>6. QED
    BY <2>1, <2>2, <2>4, <2>5
<1>7. CASE Cancel \/ Deadline \/ TreeDies \/ Escape \/ EscapedDies
  <2>1. CASE Cancel
    BY <2>1 DEF Cancel
  <2>2. CASE Deadline
    BY <2>2 DEF Deadline
  <2>3. CASE TreeDies
    <3>1. alive' \in BOOLEAN /\ answer' = answer
      BY <2>3 DEF TreeDies
    <3>2. UNCHANGED <<token, late, escaped, written, captured, reader, output, pc, verdict>>
      BY <2>3 DEF TreeDies
    <3>3. UNCHANGED <<truncated, result>>
      BY <2>3 DEF TreeDies
    <3>4. QED
      BY ONLY TypeOK, <3>1, <3>2, <3>3 DEF TypeOK, Tree!TypeOK
  <2>4. CASE Escape \/ EscapedDies
    <3>1. escaped' \in BOOLEAN
      BY <2>4 DEF Escape, EscapedDies
    <3>2. UNCHANGED <<token, late, alive, answer, written, captured, reader, output, pc, verdict>>
      BY <2>4 DEF Escape, EscapedDies
    <3>3. UNCHANGED <<truncated, result>>
      BY <2>4 DEF Escape, EscapedDies
    <3>4. QED
      BY ONLY TypeOK, <3>1, <3>2, <3>3 DEF TypeOK, Tree!TypeOK
  <2>5. QED
    BY <1>7, <2>1, <2>2, <2>3, <2>4
<1>8. ASSUME NEW s \in Stream, Write(s) PROVE TypeOK'
  BY <1>8 DEF Write
<1>9. ASSUME NEW s \in Stream, Read(s) PROVE TypeOK'
  BY <1>9 DEF Read
<1>10. ASSUME NEW s \in Stream, EndOfFile(s) \/ ReadFails(s) PROVE TypeOK'
  BY <1>10 DEF EndOfFile, ReadFails
<1>11. CASE UNCHANGED vars
  BY <1>11 DEF vars
<1>12. QED
  BY <1>1, <1>2, <1>3, <1>4, <1>5, <1>6, <1>7, <1>8, <1>9, <1>10, <1>11 DEF Next, Call, Environment

\* Nothing writes to a pipe whose reader has seen the end of it: the tree is
\* never alive again, and no process escapes from a dead one.
LEMMA ReadersStep ==
    ASSUME TypeOK, CallInOrder, ReadersAgree, [Next]_vars
    PROVE  ReadersAgree'
<1> USE WrittenAssumption, TreeCalls DEF TypeOK, ReadersAgree, tree, pipes, call
<1>1. CASE Begin
  <2>1. \A s \in Stream : reader'[s] = "reading" \/ pc' # "poll"
    BY <1>1 DEF Begin, Return
  <2>2. QED
    BY <1>1, <2>1 DEF Begin, Return
<1>2. CASE Call
  BY <1>2 DEF Call, Go, Return, PollTermination, WaitSlice, Terminate, LastCheck, Discard,
              FinishOutput
<1>3. CASE Cancel \/ Deadline \/ TreeDies \/ Escape \/ EscapedDies
  BY <1>3 DEF Cancel, Deadline, TreeDies, Escape, EscapedDies
<1>4. ASSUME NEW s \in Stream, Write(s) PROVE ReadersAgree'
  BY <1>4 DEF Write
<1>5. ASSUME NEW s \in Stream, Read(s) PROVE ReadersAgree'
  BY <1>5 DEF Read
<1>6. ASSUME NEW s \in Stream, EndOfFile(s) \/ ReadFails(s) PROVE ReadersAgree'
  BY <1>6 DEF EndOfFile, ReadFails
<1>7. CASE UNCHANGED vars
  BY <1>7 DEF vars
<1>8. QED
  BY <1>1, <1>2, <1>3, <1>4, <1>5, <1>6, <1>7 DEF Next, Environment

\* The call and the tree: one step per action of the call, and one for the rest.
LEMMA CallStep ==
    ASSUME TypeOK, CallInOrder, [Next]_vars
    PROVE  CallInOrder'
<1> USE TreeCalls
    DEF TypeOK, CallInOrder, Place, Tree!TypeOK, Tree!Answer, Bounded!Outcome, Bounded!Error,
        tree, pipes, call, Go, Return
<1>1. CASE Begin
  BY <1>1 DEF Begin
<1>2. CASE PollTermination
  BY <1>2 DEF PollTermination
<1>3. CASE WaitSlice
  BY <1>3 DEF WaitSlice
<1>4. CASE Terminate
  BY <1>4 DEF Terminate
<1>5. CASE LastCheck \/ Discard
  BY <1>5 DEF LastCheck, Discard
<1>6. ASSUME NEW s \in Stream, FinishOutput(s) PROVE CallInOrder'
  BY <1>6 DEF FinishOutput, Stream
<1>7. CASE Cancel \/ Deadline \/ TreeDies \/ Escape \/ EscapedDies
  BY <1>7 DEF Cancel, Deadline, TreeDies, Escape, EscapedDies
<1>8. ASSUME NEW s \in Stream, Write(s) \/ Read(s) \/ EndOfFile(s) \/ ReadFails(s)
      PROVE  CallInOrder'
  BY <1>8 DEF Write, Read, EndOfFile, ReadFails
<1>9. CASE UNCHANGED vars
  BY <1>9 DEF vars
<1>10. QED
  BY <1>1, <1>2, <1>3, <1>4, <1>5, <1>6, <1>7, <1>8, <1>9 DEF Next, Call, Environment

\* What finish_output took from a complete reader stays all there is.
LEMMA OutputStep ==
    ASSUME TypeOK, CallInOrder, OutputAgrees, [Next]_vars
    PROVE  OutputAgrees'
<1> USE TreeCalls
    DEF TypeOK, CallInOrder, OutputAgrees, Finished, Place, Stream, Bounded!Outcome, Bounded!Error,
        tree, pipes, call, Go, Return
<1>1. CASE Begin
  BY <1>1 DEF Begin
<1>2. CASE PollTermination
  BY <1>2 DEF PollTermination
<1>3. CASE WaitSlice
  BY <1>3 DEF WaitSlice
<1>4. CASE Terminate
  BY <1>4 DEF Terminate
<1>5. CASE LastCheck \/ Discard
  BY <1>5 DEF LastCheck, Discard
<1>6. ASSUME NEW s \in Stream, FinishOutput(s) PROVE OutputAgrees'
  <2>1. CASE reader[s] = "failed"
    BY <1>6, <2>1 DEF FinishOutput
  <2>2. CASE reader[s] # "failed" /\ s = "stdout"
    BY <1>6, <2>2 DEF FinishOutput
  <2>3. CASE reader[s] # "failed" /\ s = "stderr"
    BY <1>6, <2>3 DEF FinishOutput
  <2>4. QED
    BY <1>6, <2>1, <2>2, <2>3
<1>7. CASE Cancel \/ Deadline \/ TreeDies \/ Escape \/ EscapedDies
  BY <1>7 DEF Cancel, Deadline, TreeDies, Escape, EscapedDies
<1>8. ASSUME NEW s \in Stream, Write(s) PROVE OutputAgrees'
  BY <1>8 DEF Write
<1>9. ASSUME NEW s \in Stream, Read(s) \/ EndOfFile(s) \/ ReadFails(s) PROVE OutputAgrees'
  BY <1>9 DEF Read, EndOfFile, ReadFails
<1>10. CASE UNCHANGED vars
  BY <1>10 DEF vars
<1>11. QED
  BY <1>1, <1>2, <1>3, <1>4, <1>5, <1>6, <1>7, <1>8, <1>9, <1>10 DEF Next, Call, Environment

\* The inductive invariant of the run of a command holds in every behaviour:
\* a call in progress agrees with its tree, its readers and its token.
THEOREM Invariance == Spec => []IInv
<1>1. Init => IInv
  <2> SUFFICES ASSUME Init PROVE IInv
    OBVIOUS
  <2> USE WrittenAssumption DEF Init
  <2>1. written \in [Stream -> 0..MaxWritten] /\ reader \in [Stream -> {"reading", "complete", "failed"}]
    OBVIOUS
  <2>2. TypeOK
    BY <2>1 DEF TypeOK, Place, Tree!TypeOK, Tree!Answer, Bounded!Outcome, Bounded!Error
  <2>3. CallInOrder
    BY DEF CallInOrder
  <2>4. ReadersAgree
    BY <2>1 DEF ReadersAgree
  <2>5. OutputAgrees
    BY DEF OutputAgrees, Finished, Bounded!Outcome
  <2>6. QED
    BY <2>2, <2>3, <2>4, <2>5 DEF IInv
<1>2. IInv /\ [Next]_vars => IInv'
  BY TypesStep, CallStep, ReadersStep, OutputStep DEF IInv
<1>3. QED
  BY <1>1, <1>2, PTL DEF Spec

\* finish_output never passes a part of an output off as the whole of it,
\* however the reader threads and the processes interleave with the call.
THEOREM WholeOutput == Spec => []WholeUnlessTruncated
<1>1. IInv => WholeUnlessTruncated
  <2> SUFFICES ASSUME IInv, result \in Bounded!Outcome, ~truncated
               PROVE  output = written
    BY DEF WholeUnlessTruncated
  <2>1. \A s \in Stream : reader[s] = "complete" /\ output[s] = captured[s]
    BY DEF IInv, OutputAgrees, Finished
  <2>2. \A s \in Stream : output[s] = written[s]
    BY <2>1 DEF IInv, ReadersAgree
  <2>3. QED
    BY <2>2 DEF IInv, TypeOK
<1>2. QED
  BY <1>1, Invariance, PTL

\* run_command keeps its promise to the executor: every step is a step of
\* BoundedCommand or changes nothing of it.
THEOREM KeepsCommandPromise == Spec => ImplementsBoundedCommand
<1>1. Init => Bounded!Init
  BY DEF Init, Bounded!Init
<1>2. IInv /\ [Next]_vars => [Bounded!Next]_(Bounded!vars)
  <2> SUFFICES ASSUME IInv, [Next]_vars
               PROVE  [Bounded!Next]_(Bounded!vars)
    OBVIOUS
  <2>0. TypeOK /\ CallInOrder
    BY DEF IInv
  <2> USE <2>0, TreeCalls DEF tree, pipes, call, Bounded!vars, Go, Return, CallInOrder
  <2>1. CASE Begin
    BY <2>1 DEF Begin, Bounded!Next, Bounded!Start
  <2>2. CASE PollTermination \/ WaitSlice \/ Terminate
    BY <2>2 DEF PollTermination, WaitSlice, Terminate
  <2>3. CASE LastCheck
    BY <2>3 DEF LastCheck, Bounded!Next, Bounded!Answer, TypeOK
  <2>4. CASE Discard
    BY <2>4 DEF Discard, Bounded!Next, Bounded!Answer, TypeOK
  <2>5. ASSUME NEW s \in Stream, FinishOutput(s) PROVE [Bounded!Next]_(Bounded!vars)
    BY <2>5 DEF FinishOutput, Stream, Bounded!Next, Bounded!Answer
  <2>6. CASE Cancel
    BY <2>6 DEF Cancel, Bounded!Next, Bounded!Cancel
  <2>7. CASE TreeDies
    BY <2>7 DEF TreeDies, Bounded!Next, Bounded!Die
  <2>8. CASE Deadline \/ Escape \/ EscapedDies \/ UNCHANGED vars
    BY <2>8 DEF Deadline, Escape, EscapedDies, vars
  <2>9. ASSUME NEW s \in Stream, Write(s) \/ Read(s) \/ EndOfFile(s) \/ ReadFails(s)
        PROVE  [Bounded!Next]_(Bounded!vars)
    BY <2>9 DEF Write, Read, EndOfFile, ReadFails
  <2>10. QED
    BY <2>1, <2>2, <2>3, <2>4, <2>5, <2>6, <2>7, <2>8, <2>9 DEF Next, Call, Environment
<1>3. QED
  BY <1>1, <1>2, Invariance, PTL DEF Spec, ImplementsBoundedCommand, Bounded!Spec

-----------------------------------------------------------------------------
(* The Cargo proxy, for any number of attempts to remove it *)

\* What has been made, at each place.
BuiltInOrder ==
    /\ step \in {"write", "rustc", "canonicalize", "held"} => directory
    /\ step \in {"canonicalize", "held"} => executable
    /\ step \in {"create", "write", "rustc"} /\ rustcResult = "success" => executable

\* Every attempt but the last leaves another; a removal that gives up has been
\* refused every time.
AttemptsCounted ==
    /\ refused = attempt
    /\ step # "done" => attempt < CleanupAttempts
    /\ step = "done" => ~directory \/ attempt = CleanupAttempts

ProxyIInv == Proxy!TypeOK /\ BuiltInOrder /\ AttemptsCounted

-----------------------------------------------------------------------------
\* rustc's steps keep its types.
LEMMA RustcTyped ==
    ASSUME Proxy!Rustc!TypeOK, Proxy!Rustc!Next \/ UNCHANGED Proxy!rustc
    PROVE  Proxy!Rustc!TypeOK'
  BY DEF Proxy!Rustc!TypeOK, Proxy!Rustc!Next, Proxy!Rustc!Start, Proxy!Rustc!Cancel,
         Proxy!Rustc!Die, Proxy!Rustc!Answer, Proxy!Rustc!Outcome,
         Proxy!Rustc!Error, Proxy!rustc

\* Every step of the proxy is one of rustc or leaves it alone.
LEMMA RustcSteps ==
    ASSUME Proxy!Next
    PROVE  Proxy!Rustc!Next \/ UNCHANGED Proxy!rustc
  BY DEF Proxy!Next, Proxy!Build, Proxy!Create, Proxy!WriteSource, Proxy!RustcRuns,
         Proxy!LateDeath, Proxy!FinishRustc, Proxy!Canonicalize, Proxy!Drop, Proxy!Remove,
         Proxy!Rustc!Next

\* The inductive invariant: what was made when, and how often the removal was
\* refused, for any number of attempts.
THEOREM ProxyInvariant == Proxy!Spec => []ProxyIInv
<1>1. Proxy!Init => ProxyIInv
  <2> SUFFICES ASSUME Proxy!Init PROVE ProxyIInv
    OBVIOUS
  <2>1. 0 \in 0..CleanupAttempts /\ 0 < CleanupAttempts
    BY PartsAssumption
  <2>2. Proxy!Rustc!TypeOK
    BY DEF Proxy!Init, Proxy!Rustc!Init, Proxy!Rustc!TypeOK
  <2>3. Proxy!TypeOK
    BY <2>1, <2>2 DEF Proxy!Init, Proxy!TypeOK
  <2>4. BuiltInOrder /\ AttemptsCounted
    BY <2>1 DEF Proxy!Init, Proxy!Rustc!Init, BuiltInOrder, AttemptsCounted
  <2>5. QED
    BY <2>3, <2>4 DEF ProxyIInv
<1>2. ProxyIInv /\ [Proxy!Next]_(Proxy!vars) => ProxyIInv'
  <2> SUFFICES ASSUME ProxyIInv, [Proxy!Next]_(Proxy!vars) PROVE ProxyIInv'
    OBVIOUS
  <2> USE PartsAssumption DEF ProxyIInv, Proxy!TypeOK, BuiltInOrder, AttemptsCounted, Proxy!Go
  <2>1. Proxy!Rustc!TypeOK'
    BY RustcTyped, RustcSteps DEF Proxy!vars, Proxy!rustc
  <2>2. CASE Proxy!Create \/ Proxy!WriteSource \/ Proxy!Canonicalize \/ Proxy!Drop
    <3>1. directory' \in BOOLEAN /\ executable' = executable /\ rustcResult' = rustcResult
      BY <2>2 DEF Proxy!Create, Proxy!WriteSource, Proxy!Canonicalize, Proxy!Drop, Proxy!rustc
    <3>2. attempt' = attempt /\ refused' = refused
      BY <2>2 DEF Proxy!Create, Proxy!WriteSource, Proxy!Canonicalize, Proxy!Drop
    <3>3. /\ step # "done"
          /\ step' \in {"write", "rustc", "canonicalize", "held", "removing"}
          /\ step' = "write" => directory' /\ step = "create"
          /\ step' = "rustc" => directory' /\ step = "write"
          /\ step' = "canonicalize" => FALSE
          /\ step' = "held" => directory' /\ executable
      BY <2>2 DEF Proxy!Create, Proxy!WriteSource, Proxy!Canonicalize, Proxy!Drop
    <3>4. Proxy!TypeOK'
      BY <2>1, <3>1, <3>2, <3>3
    <3>5. BuiltInOrder'
      BY <3>1, <3>3
    <3>6. AttemptsCounted'
      BY <3>2, <3>3
    <3>7. QED
      BY <3>4, <3>5, <3>6
  <2>3. CASE Proxy!RustcRuns
    <3>1. /\ executable' \in BOOLEAN /\ (executable => executable')
          /\ rustcResult' = "success" => executable'
      BY <2>3 DEF Proxy!RustcRuns
    <3>2. QED
      BY <2>1, <2>3, <3>1 DEF Proxy!RustcRuns
  <2>4. CASE Proxy!LateDeath
    BY <2>1, <2>4 DEF Proxy!LateDeath, Proxy!Rustc!Die
  <2>5. CASE Proxy!FinishRustc
    BY <2>1, <2>5 DEF Proxy!FinishRustc, Proxy!rustc
  <2>6. CASE Proxy!Remove
    <3>1. executable' \in BOOLEAN /\ directory' \in BOOLEAN
      BY <2>6 DEF Proxy!Remove
    <3>2. CASE Proxy!Go("done") /\ directory' = FALSE
      BY <2>1, <3>1, <3>2, <2>6 DEF Proxy!Remove
    <3>3. CASE refused' = refused + 1 /\ attempt' = attempt + 1
               /\ step' = IF attempt + 1 = CleanupAttempts THEN "done" ELSE "removing"
      <4>1. attempt' \in 0..CleanupAttempts /\ refused' \in 0..CleanupAttempts /\ AttemptsCounted'
        <5>1. step = "removing"
          BY <2>6 DEF Proxy!Remove
        <5>2. QED
          BY <3>3, <5>1
      <4>2. QED
        BY <2>1, <3>1, <3>3, <4>1
    <3>4. QED
      BY <3>2, <3>3, <2>6 DEF Proxy!Remove
  <2>7. CASE UNCHANGED Proxy!vars
    BY <2>1, <2>7 DEF Proxy!vars, Proxy!rustc
  <2>8. QED
    BY <2>2, <2>3, <2>4, <2>5, <2>6, <2>7 DEF Proxy!Next, Proxy!Build
<1>3. QED
  BY <1>1, <1>2, PTL DEF Proxy!Spec

\* The proxy is whole while it is held, and gone when the build has failed or
\* the proxy was dropped, unless every attempt was refused (cargo_proxy.rs).
THEOREM ProxyWholeOrGone == Proxy!Spec => []ProxyIsWholeOrGone
<1>1. ProxyIInv => ProxyIsWholeOrGone
  BY DEF ProxyIInv, BuiltInOrder, AttemptsCounted, ProxyIsWholeOrGone, Proxy!ProxyIsWholeOrGone
<1>2. QED
  BY <1>1, ProxyInvariant, PTL

\* The build runs rustc as a bounded command, once.
THEOREM RunsRustcOnce == Proxy!Spec => Proxy!Rustc!Spec
<1>1. Proxy!Init => Proxy!Rustc!Init
  BY DEF Proxy!Init
<1>2. [Proxy!Next]_(Proxy!vars) => [Proxy!Rustc!Next]_(Proxy!Rustc!vars)
  BY RustcSteps DEF Proxy!vars, Proxy!rustc, Proxy!Rustc!vars
<1>3. QED
  BY <1>1, <1>2, PTL DEF Proxy!Spec, Proxy!Rustc!Spec
-----------------------------------------------------------------------------
(* The bounded run of process-tree *)

\* What TreeDies and WaitBounded do to the tree.
LEMMA RunTreeCalls ==
    /\ Run!Tree!Die <=> runAlive /\ runAlive' = FALSE /\ runAnswer' = runAnswer
    /\ Run!Tree!Inconclusive <=>
           runAnswer # "status" /\ runAnswer' \in {"running", "failed"} /\ runAlive' = runAlive
    /\ Run!Tree!Conclusive <=> ~runAlive /\ runAnswer' = "status" /\ runAlive' = runAlive
  BY DEF Run!Tree!Die, Run!Tree!Inconclusive, Run!Tree!Conclusive

\* retain_tail keeps the last bytes, as many as the limit allows, whatever the
\* size of the chunk.
LEMMA RetainTailKeeps ==
    ASSUME NEW c \in Run!ReaderState, NEW n \in Nat \ {0}, NEW most \in Nat,
           c.first = (IF c.seen > most THEN c.seen - most ELSE 0),
           c.truncated <=> c.seen > most
    PROVE  LET d == Run!RetainTail(c, n, most)
           IN  /\ d \in Run!ReaderState
               /\ d.seen = c.seen + n
               /\ d.reader = c.reader
               /\ d.first = IF d.seen > most THEN d.seen - most ELSE 0
               /\ d.truncated <=> d.seen > most
<1> DEFINE seen == c.seen + n
           d == Run!RetainTail(c, n, most)
<1>0. c.first \in Nat /\ c.seen \in Nat /\ c.truncated \in BOOLEAN /\ c.reader \in Run!Reader
  BY DEF Run!ReaderState
<1>1. d.seen = seen /\ d.reader = c.reader
  BY DEF Run!RetainTail, Run!ReaderState
<1>2. d.first = IF seen > most THEN seen - most ELSE 0
  BY <1>0 DEF Run!RetainTail, Run!ReaderState
<1>3. d.truncated = (seen > most)
  <2>1. CASE n >= most
    <3>1. d.truncated = (c.truncated \/ c.first < c.seen \/ n > most)
      BY <2>1 DEF Run!RetainTail, Run!ReaderState
    <3>2. QED
      BY <1>0, <2>1, <3>1
  <2>2. CASE n < most /\ seen - c.first > most
    <3>1. d = [c EXCEPT !.first = seen - most, !.seen = seen, !.truncated = TRUE]
      BY <2>2 DEF Run!RetainTail
    <3>2. d.truncated = TRUE
      BY <3>1 DEF Run!ReaderState
    <3>3. seen > most
      BY <1>0, <2>2
    <3>4. QED
      BY <3>2, <3>3
  <2>3. CASE n < most /\ ~(seen - c.first > most)
    <3>1. d.truncated = c.truncated
      BY <2>3 DEF Run!RetainTail
    <3>2. QED
      BY <1>0, <2>3, <3>1
  <2>4. QED
    BY <1>0, <2>1, <2>2, <2>3
<1>4. d = [first |-> d.first, seen |-> d.seen, truncated |-> d.truncated, reader |-> d.reader]
  BY DEF Run!RetainTail, Run!ReaderState
<1> HIDE DEF d
<1>5. d \in Run!ReaderState
  <2>1. d.first \in Nat /\ d.seen \in Nat /\ d.truncated \in BOOLEAN /\ d.reader \in Run!Reader
    BY <1>0, <1>1, <1>2, <1>3
  <2>2. QED
    BY <1>4, <2>1 DEF Run!ReaderState
<1>6. QED
  BY <1>1, <1>2, <1>3, <1>5 DEF d

\* A step of a reader: its state is replaced, and the call may be woken.
LEMMA ReaderUpdateStep ==
    ASSUME Run!TypeOK, NEW s \in Run!Stream, NEW new \in Run!ReaderState, Run!Update(s, new)
    PROVE  /\ state' \in [Run!Stream -> Run!ReaderState]
           /\ state'[s] = new
           /\ \A r \in Run!Stream \ {s} : state'[r] = state[r]
           /\ waiter' \in {waiter, "awake"}
           /\ place = s => waiter' # "asleep"
  BY DEF Run!Update, Run!TypeOK

LEMMA RunReadStep ==
    ASSUME Run!IInv, NEW s \in Run!Stream, Run!Read(s)
    PROVE  Run!IInv'
<1> USE DEF Run!IInv, Run!tree, Run!pipes, Run!call
<1>1. PICK n \in 1..(runWritten[s] - state[s].seen) : Run!Update(s, Run!RetainTail(state[s], n, limit[s]))
  BY DEF Run!Read
<1> DEFINE d == Run!RetainTail(state[s], n, limit[s])
<1>2. runWritten[s] \in Nat /\ limit[s] \in Nat /\ state[s] \in Run!ReaderState /\ state[s].seen \in Nat
  BY PartsAssumption DEF Run!TypeOK, Run!ReaderState
<1>3. n \in Nat \ {0} /\ state[s].seen + n <= runWritten[s]
  BY <1>2
<1>4. /\ d \in Run!ReaderState
      /\ d.seen = state[s].seen + n
      /\ d.reader = state[s].reader
      /\ d.first = IF d.seen > limit[s] THEN d.seen - limit[s] ELSE 0
      /\ d.truncated <=> d.seen > limit[s]
  <2>1. state[s].first = (IF state[s].seen > limit[s] THEN state[s].seen - limit[s] ELSE 0)
    BY DEF Run!TailIsKept
  <2>2. state[s].truncated <=> state[s].seen > limit[s]
    BY DEF Run!TailIsKept
  <2>3. QED
    BY <1>2, <1>3, <2>1, <2>2, RetainTailKeeps
<1>5. /\ state' \in [Run!Stream -> Run!ReaderState]
      /\ state'[s] = d
      /\ \A r \in Run!Stream \ {s} : state'[r] = state[r]
      /\ waiter' \in {waiter, "awake"}
      /\ place = s => waiter' # "asleep"
  BY <1>1, <1>4, ReaderUpdateStep
<1> HIDE DEF d
<1>6. /\ UNCHANGED <<runAlive, runAnswer, runEscaped, runWritten, runLate, onTime>>
      /\ UNCHANGED <<limit, place, wait, taken, runResult>>
      /\ state[s].reader = "reading"
  BY DEF Run!Read, Run!Reading
<1>7. Run!TypeOK'
  BY <1>5, <1>6 DEF Run!TypeOK, Run!Tree!TypeOK
<1>8. Run!TailIsKept'
  BY <1>3, <1>4, <1>5, <1>6 DEF Run!TailIsKept
<1>9. \A r \in Run!Stream : Run!Ended(r)' = Run!Ended(r) /\ state'[r].reader = state[r].reader
  BY <1>4, <1>5 DEF Run!Ended
<1>10. Run!ReadersAgree'
  BY <1>4, <1>5, <1>6, <1>9 DEF Run!ReadersAgree
<1>11. Run!VerdictsAgree'
  BY <1>6, <1>9 DEF Run!VerdictsAgree
<1>12. Run!CallInOrder'
  BY <1>5, <1>6, <1>9 DEF Run!CallInOrder, Run!Captured, Run!TypeOK
<1>13. QED
  BY <1>7, <1>8, <1>10, <1>11, <1>12

LEMMA RunEndsStep ==
    ASSUME Run!IInv, NEW s \in Run!Stream, Run!EndOfFile(s) \/ Run!ReadFails(s)
    PROVE  Run!IInv'
<1> USE DEF Run!IInv, Run!tree, Run!pipes, Run!call
<1>1. PICK how \in {"complete", "failed"} :
           /\ Run!Ends(s, how)
           /\ how = "complete" => state[s].seen = runWritten[s] /\ ~runAlive /\ ~runEscaped
  BY DEF Run!EndOfFile, Run!ReadFails
<1> DEFINE d == [state[s] EXCEPT !.reader = how]
<1>2. /\ d \in Run!ReaderState /\ d.reader = how
      /\ d.first = state[s].first /\ d.seen = state[s].seen /\ d.truncated = state[s].truncated
  BY DEF Run!TypeOK, Run!ReaderState, Run!Reader
<1>3. /\ state' \in [Run!Stream -> Run!ReaderState]
      /\ state'[s] = d
      /\ \A r \in Run!Stream \ {s} : state'[r] = state[r]
      /\ waiter' \in {waiter, "awake"}
      /\ place = s => waiter' # "asleep"
  BY <1>1, <1>2, ReaderUpdateStep DEF Run!Ends
<1> HIDE DEF d
<1>4. /\ UNCHANGED <<runAlive, runAnswer, runEscaped, runWritten, runLate>>
      /\ UNCHANGED <<limit, place, wait, taken, runResult>>
      /\ state[s].reader = "reading"
      /\ onTime' = IF runLate THEN onTime ELSE onTime \cup {s}
  BY <1>1 DEF Run!Ends, Run!EndOfFile, Run!ReadFails, Run!Reading
<1>5. Run!TypeOK'
  BY <1>3, <1>4 DEF Run!TypeOK, Run!Tree!TypeOK
<1>6. Run!TailIsKept'
  BY <1>2, <1>3, <1>4 DEF Run!TailIsKept
<1>7. \A r \in Run!Stream : Run!Ended(r) => Run!Ended(r)' /\ state'[r] = state[r]
  BY <1>3, <1>4 DEF Run!Ended
<1>8. \A r \in Run!Stream : Run!Ended(r)' => Run!Ended(r) \/ r = s
  BY <1>3 DEF Run!Ended
<1>9. Run!ReadersAgree'
  <2>1. Run!Ended(s)'
    BY <1>2, <1>3 DEF Run!Ended
  <2>2. QED
    BY <1>1, <1>2, <1>3, <1>4, <1>7, <1>8, <2>1 DEF Run!ReadersAgree
<1>10. Run!VerdictsAgree'
  <2>1. \A r \in Run!Stream : state[r].reader = "complete" => state'[r].reader = "complete"
    BY <1>3, <1>4
  <2>2. \A r \in Run!Stream : taken[r] = "open" => runLate /\ onTime' = onTime
    BY <1>4 DEF Run!VerdictsAgree
  <2>3. QED
    BY <1>4, <2>1, <2>2 DEF Run!VerdictsAgree
<1>11. Run!CallInOrder'
  <2>1. waiter' = "asleep" => place \in Run!Stream \ {s} /\ waiter = "asleep"
    BY <1>3 DEF Run!CallInOrder, Run!TypeOK
  <2>2. waiter' = "asleep" => \A r \in Run!Stream : place' = r => ~Run!Ended(r)'
    BY <1>4, <1>8, <2>1 DEF Run!CallInOrder
  <2>3. place # "start"
    BY <1>1 DEF Run!EndOfFile, Run!ReadFails, Run!Reading
  <2>4. QED
    BY <1>3, <1>4, <2>2, <2>3 DEF Run!CallInOrder, Run!Captured, Run!TypeOK
<1>12. QED
  BY <1>5, <1>6, <1>9, <1>10, <1>11

\* The processes and the clock: readers and verdicts are as they were.
LEMMA RunEnvironmentStep ==
    ASSUME Run!IInv, Run!Processes \/ Run!Deadline
    PROVE  Run!IInv'
<1> USE PartsAssumption, RunTreeCalls DEF Run!IInv, Run!tree, Run!pipes, Run!call
<1>1. UNCHANGED <<limit, state, waiter, onTime, place, wait, taken, runResult, runAnswer>>
  BY DEF Run!Processes, Run!TreeDies, Run!Escape, Run!EscapedDies, Run!Write, Run!Deadline
<1>2. \A r \in Run!Stream : Run!Ended(r)' = Run!Ended(r)
  BY <1>1 DEF Run!Ended
<1>3. CASE Run!TreeDies \/ Run!Escape \/ Run!EscapedDies
  <2>1. /\ UNCHANGED <<runWritten, runLate>> /\ runAlive' \in BOOLEAN /\ runEscaped' \in BOOLEAN
        /\ ~runAlive /\ ~runEscaped => ~runAlive' /\ ~runEscaped'
        /\ ~runAlive => ~runAlive'
    <3>1. CASE Run!TreeDies
      BY <3>1 DEF Run!TreeDies, Run!TypeOK, Run!Tree!TypeOK
    <3>2. CASE Run!Escape \/ Run!EscapedDies
      <4>1. UNCHANGED <<runWritten, runLate, runAlive>> /\ runEscaped' \in BOOLEAN
        BY <3>2 DEF Run!Escape, Run!EscapedDies
      <4>2. ~runAlive => ~runEscaped'
        BY <3>2 DEF Run!Escape, Run!EscapedDies
      <4>3. runAlive \in BOOLEAN
        BY DEF Run!TypeOK, Run!Tree!TypeOK
      <4>4. QED
        BY ONLY <4>1, <4>2, <4>3
    <3>3. QED
      BY <1>3, <3>1, <3>2
  <2>2. place = "start" => ~runAlive' /\ ~runEscaped'
    BY <2>1 DEF Run!CallInOrder
  <2>3. Run!TypeOK'
    BY <1>1, <2>1 DEF Run!TypeOK, Run!Tree!TypeOK
  <2>4. Run!TailIsKept'
    BY <1>1, <2>1 DEF Run!TailIsKept
  <2>5. Run!ReadersAgree'
    BY <1>1, <1>2, <2>1 DEF Run!ReadersAgree
  <2>6. Run!VerdictsAgree'
    BY <1>1, <2>1 DEF Run!VerdictsAgree
  <2>7. Run!CallInOrder'
    BY <1>1, <1>2, <2>1, <2>2 DEF Run!CallInOrder, Run!Captured
  <2>8. QED
    BY <2>3, <2>4, <2>5, <2>6, <2>7
<1>4. ASSUME NEW s \in Run!Stream, Run!Write(s) PROVE Run!IInv'
  <2>1. /\ UNCHANGED <<runAlive, runEscaped, runLate>>
        /\ runAlive \/ runEscaped
        /\ runWritten' = [runWritten EXCEPT ![s] = @ + 1] /\ runWritten[s] < MaxRunWritten
    BY <1>4 DEF Run!Write
  <2>2. Run!TypeOK'
    BY <1>1, <2>1 DEF Run!TypeOK, Run!Tree!TypeOK
  <2>3. \A r \in Run!Stream : runWritten'[r] >= runWritten[r]
    BY <2>1 DEF Run!TypeOK
  <2>4. \A r \in Run!Stream : state[r].seen \in Nat /\ runWritten[r] \in Nat /\ runWritten'[r] \in Nat
    BY <2>2, <1>1 DEF Run!TypeOK, Run!ReaderState
  <2>5. Run!TailIsKept'
    BY <1>1, <2>3, <2>4 DEF Run!TailIsKept
  <2>6. Run!ReadersAgree'
    BY <1>1, <1>2, <2>1 DEF Run!ReadersAgree
  <2>7. Run!VerdictsAgree'
    BY <1>1, <2>1 DEF Run!VerdictsAgree
  <2>8. Run!CallInOrder'
    BY <1>1, <1>2, <2>1 DEF Run!CallInOrder, Run!Captured
  <2>9. QED
    BY <2>2, <2>5, <2>6, <2>7, <2>8
<1>5. CASE Run!Deadline
  <2>1. /\ UNCHANGED <<runAlive, runEscaped, runWritten>> /\ runLate' = TRUE
        /\ place \in {"stdout", "stderr"} /\ ~runLate
    BY <1>5 DEF Run!Deadline
  <2>2. Run!TypeOK'
    BY <1>1, <2>1 DEF Run!TypeOK, Run!Tree!TypeOK
  <2>3. Run!TailIsKept' /\ Run!ReadersAgree' /\ Run!VerdictsAgree'
    BY <1>1, <1>2, <2>1 DEF Run!TailIsKept, Run!ReadersAgree, Run!VerdictsAgree
  <2>4. Run!CallInOrder'
    BY <1>1, <1>2, <2>1 DEF Run!CallInOrder, Run!Captured
  <2>5. QED
    BY <2>2, <2>3, <2>4
<1>6. QED
  BY <1>3, <1>4, <1>5 DEF Run!Processes

\* The end of finish, with a verdict that its stream deserves.
LEMMA RunFinishStep ==
    ASSUME Run!IInv, NEW s \in Run!Stream, place = s,
           NEW what \in {"captured", "open", "unreadable"}, Run!Finish(s, what),
           UNCHANGED <<Run!tree, Run!pipes, state, runLate, onTime>>,
           what = "captured" => state[s].reader = "complete",
           what = "open" => s \notin onTime /\ runLate
    PROVE  Run!IInv'
<1> USE DEF Run!IInv, Run!tree, Run!pipes, Run!call
<1>1. /\ UNCHANGED <<runAlive, runAnswer, runEscaped, runWritten, state, runLate, onTime, limit, wait, runResult>>
      /\ taken' = [taken EXCEPT ![s] = what]
      /\ place' = IF s = "stdout" THEN "stderr" ELSE "complete"
      /\ waiter' = "awake"
  BY DEF Run!Finish
<1>2. Run!TypeOK'
  BY <1>1 DEF Run!TypeOK, Run!Tree!TypeOK, Run!Place
<1>3. \A r \in Run!Stream : Run!Ended(r)' = Run!Ended(r)
  BY <1>1 DEF Run!Ended
<1>4. Run!TailIsKept' /\ Run!ReadersAgree'
  BY <1>1, <1>3 DEF Run!TailIsKept, Run!ReadersAgree
<1>5. runResult = "running"
  BY DEF Run!CallInOrder, Run!Place, Run!Stream
<1>6. Run!VerdictsAgree'
  <2>1. taken'[s] = what /\ \A r \in Run!Stream \ {s} : taken'[r] = taken[r]
    BY <1>1 DEF Run!TypeOK
  <2>2. \A r \in Run!Stream :
           taken'[r] # "none" <=> place' \in {"complete"} \cup (IF r = "stdout" THEN {"stderr"} ELSE {})
    <3>1. CASE s = "stdout"
      BY <3>1, <1>1, <1>5, <2>1 DEF Run!VerdictsAgree, Run!Stream
    <3>2. CASE s = "stderr"
      BY <3>2, <1>1, <1>5, <2>1 DEF Run!VerdictsAgree, Run!Stream
    <3>3. QED
      BY <3>1, <3>2 DEF Run!Stream
  <2>3. QED
    BY <1>1, <1>5, <2>1, <2>2 DEF Run!VerdictsAgree
<1>7. Run!CallInOrder'
  BY <1>1, <1>5 DEF Run!CallInOrder, Run!Captured, Run!Place, Run!Stream
<1>8. QED
  BY <1>2, <1>4, <1>6, <1>7

LEMMA RunFinishingStep ==
    ASSUME Run!IInv, NEW s \in Run!Stream, Run!Check(s) \/ Run!Judge(s)
    PROVE  Run!IInv'
<1> USE DEF Run!IInv, Run!tree, Run!pipes, Run!call
<1>0. /\ UNCHANGED <<runAlive, runAnswer, runEscaped, runWritten, state, runLate, onTime>>
      /\ place = s
      /\ state[s].reader \in Run!Reader
  BY DEF Run!Check, Run!Judge, Run!TypeOK, Run!ReaderState
<1>1. CASE Run!Ended(s) /\ Run!Take(s)
  BY <1>0, <1>1, RunFinishStep DEF Run!Take, Run!Ended, Run!Reader
<1>2. CASE ~Run!Ended(s) /\ runLate /\ Run!Finish(s, "open")
  BY <1>0, <1>2, RunFinishStep DEF Run!ReadersAgree
<1>3. CASE ~Run!Ended(s) /\ waiter = "awake" /\ waiter' = "asleep" /\ UNCHANGED Run!call
  <2>1. \A r \in Run!Stream : Run!Ended(r)' = Run!Ended(r)
    BY <1>0 DEF Run!Ended
  <2>2. Run!TypeOK' /\ Run!TailIsKept'
    BY <1>0, <1>3 DEF Run!TypeOK, Run!Tree!TypeOK, Run!TailIsKept
  <2>3. Run!ReadersAgree' /\ Run!VerdictsAgree'
    BY <1>0, <1>3, <2>1 DEF Run!ReadersAgree, Run!VerdictsAgree
  <2>4. Run!CallInOrder'
    BY <1>0, <1>3, <2>1 DEF Run!CallInOrder, Run!Captured
  <2>5. QED
    BY <2>2, <2>3, <2>4
<1>4. waiter = "timedOut" => runLate
  BY DEF Run!CallInOrder
<1>5. QED
  BY <1>1, <1>2, <1>3, <1>4 DEF Run!Check, Run!Judge

\* The remaining steps of the call leave the readers alone.
LEMMA RunCallStep ==
    ASSUME Run!IInv, Run!Spawn \/ Run!WaitBounded \/ Run!Wake \/ Run!Complete
    PROVE  Run!IInv'
<1> USE RunTreeCalls DEF Run!IInv, Run!tree, Run!pipes, Run!call
<1>1. UNCHANGED <<runEscaped, runWritten, limit, state, runLate, onTime, taken>>
  BY DEF Run!Spawn, Run!WaitBounded, Run!Wake, Run!Complete, Run!Return
<1>2. \A r \in Run!Stream : Run!Ended(r)' = Run!Ended(r)
  BY <1>1 DEF Run!Ended
<1>3. Run!TailIsKept'
  BY <1>1 DEF Run!TailIsKept
<1>4. CASE Run!Spawn
  <2>1. /\ place = "start" /\ runResult = "none" /\ UNCHANGED <<runAnswer, waiter, wait>>
        /\ \/ place' = "done" /\ runResult' = "Start" /\ runAlive' = runAlive
           \/ place' = "wait" /\ runResult' = "running" /\ runAlive' = TRUE
    BY <1>4 DEF Run!Spawn, Run!Return, Run!CallInOrder
  <2>2. Run!TypeOK'
    BY <1>1, <2>1 DEF Run!TypeOK, Run!Tree!TypeOK, Run!Place, Run!Stage
  <2>3. \A r \in Run!Stream : state[r].reader # "complete" \/ ~runAlive
    BY DEF Run!ReadersAgree
  <2>4. Run!ReadersAgree' /\ Run!VerdictsAgree' /\ Run!CallInOrder'
    <3>1. waiter = "awake"
      BY <2>1 DEF Run!CallInOrder, Run!TypeOK, Run!Stream
    <3>2. place' # "start" /\ place' \notin Run!Stream /\ runResult' \in {"Start", "running"}
      BY <2>1 DEF Run!Stream
    <3>3. Run!CallInOrder'
      BY <1>1, <2>1, <3>1, <3>2 DEF Run!CallInOrder, Run!Captured, Run!Place
    <3>4. Run!VerdictsAgree'
      BY <1>1, <2>1, <3>2 DEF Run!VerdictsAgree
    <3>5. Run!ReadersAgree'
      BY <1>1, <1>2, <2>1 DEF Run!ReadersAgree, Run!CallInOrder, Run!Ended
    <3>6. QED
      BY <3>3, <3>4, <3>5
  <2>5. QED
    BY <1>3, <2>2, <2>4
<1>5. CASE Run!WaitBounded
  <2>1. /\ place = "wait" /\ place' = "stdout" /\ UNCHANGED <<runAlive, waiter, runResult>>
        /\ runAnswer' \in {"status", "failed"}
        /\ wait' \in {"Exited", "TimedOut", "Error"}
        /\ wait' # "Error" => ~runAlive
    BY <1>5 DEF Run!WaitBounded
  <2>2. Run!TypeOK'
    BY <1>1, <2>1 DEF Run!TypeOK, Run!Tree!TypeOK, Run!Tree!Answer, Run!Place
  <2>3. waiter = "awake" /\ runResult = "running"
    BY <2>1 DEF Run!CallInOrder, Run!Captured, Run!TypeOK, Run!Stream, Run!Place
  <2>4. Run!ReadersAgree' /\ Run!VerdictsAgree'
    BY <1>1, <1>2, <2>1, <2>3 DEF Run!ReadersAgree, Run!VerdictsAgree
  <2>5. Run!CallInOrder'
    BY <1>1, <1>2, <2>1, <2>3 DEF Run!CallInOrder, Run!Captured, Run!Place
  <2>6. QED
    BY <1>3, <2>2, <2>4, <2>5
<1>6. CASE Run!Wake
  <2>1. /\ UNCHANGED <<runAlive, runAnswer, place, wait, runResult>> /\ waiter = "asleep"
        /\ waiter' = "awake" \/ (runLate /\ waiter' = "timedOut")
    BY <1>6 DEF Run!Wake
  <2>2. Run!TypeOK' /\ Run!ReadersAgree' /\ Run!VerdictsAgree'
    BY <1>1, <1>2, <2>1 DEF Run!TypeOK, Run!Tree!TypeOK, Run!ReadersAgree, Run!VerdictsAgree
  <2>3. Run!CallInOrder'
    BY <1>1, <1>2, <2>1 DEF Run!CallInOrder, Run!Captured
  <2>4. QED
    BY <1>3, <2>2, <2>3
<1>7. CASE Run!Complete
  <2>1. /\ place = "complete" /\ place' = "done" /\ UNCHANGED <<runAlive, runAnswer, waiter, wait>>
        /\ runResult' \in {"Wait", "Output", "Timeout", "Ok"}
        /\ runResult' # "Wait" => wait # "Error"
        /\ runResult' = "Ok" => Run!Captured
    BY <1>7 DEF Run!Complete, Run!Return
  <2>2. wait \in {"Exited", "TimedOut", "Error"} /\ waiter = "awake"
    BY <2>1 DEF Run!CallInOrder, Run!TypeOK, Run!Stream
  <2>3. Run!TypeOK' /\ Run!ReadersAgree'
    BY <1>1, <1>2, <2>1 DEF Run!TypeOK, Run!Tree!TypeOK, Run!ReadersAgree, Run!Place, Run!Stage
  <2>4. Run!VerdictsAgree'
    BY <1>1, <2>1 DEF Run!VerdictsAgree
  <2>5. Run!CallInOrder'
    BY <1>1, <1>2, <2>1, <2>2 DEF Run!CallInOrder, Run!Captured, Run!Place
  <2>6. QED
    BY <1>3, <2>3, <2>4, <2>5
<1>8. QED
  BY <1>4, <1>5, <1>6, <1>7

\* The inductive invariant of a bounded run: its readers keep the tails, and
\* the verdicts of the call are those the streams deserve.
THEOREM RunInvariant == Run!Spec => []Run!IInv
<1>1. Run!Init => Run!IInv
  <2> SUFFICES ASSUME Run!Init PROVE Run!IInv
    OBVIOUS
  <2> USE PartsAssumption DEF Run!Init
  <2>1. /\ runWritten \in [Run!Stream -> 0..MaxRunWritten] /\ state \in [Run!Stream -> Run!ReaderState]
        /\ taken \in [Run!Stream -> {"none", "captured", "open", "unreadable"}]
    BY DEF Run!ReaderState, Run!Reader
  <2>2. \A s \in Run!Stream : limit[s] \in Nat
    OBVIOUS
  <2>3. limit \in [Run!Stream -> Nat]
    BY <2>2
  <2>4. Run!TypeOK
    BY <2>1, <2>3 DEF Run!TypeOK, Run!Tree!TypeOK, Run!Tree!Answer, Run!Place
  <2>5. Run!TailIsKept
    BY <2>2 DEF Run!TailIsKept
  <2>6. Run!ReadersAgree
    BY DEF Run!ReadersAgree, Run!Ended
  <2>7. Run!VerdictsAgree
    BY DEF Run!VerdictsAgree
  <2>8. Run!CallInOrder
    BY DEF Run!CallInOrder, Run!Captured, Run!Place, Run!Ended
  <2>9. QED
    BY <2>4, <2>5, <2>6, <2>7, <2>8 DEF Run!IInv
<1>2. Run!IInv /\ [Run!Next]_(Run!vars) => Run!IInv'
  <2> SUFFICES ASSUME Run!IInv, [Run!Next]_(Run!vars) PROVE Run!IInv'
    OBVIOUS
  <2>1. CASE Run!Next
    BY <2>1, RunReadStep, RunEndsStep, RunEnvironmentStep, RunFinishingStep, RunCallStep
    DEF Run!Next, Run!Call, Run!Threads
  <2>2. CASE UNCHANGED Run!vars
    BY <2>2
       DEF Run!vars, Run!tree, Run!pipes, Run!call, Run!IInv, Run!TypeOK, Run!Tree!TypeOK,
           Run!TailIsKept, Run!ReadersAgree, Run!VerdictsAgree, Run!CallInOrder, Run!Captured, Run!Ended
  <2>3. QED
    BY <2>1, <2>2
<1>3. QED
  BY <1>1, <1>2, PTL DEF Run!Spec

\* What run_bounded returns is the end of all that was written, and a pipe is
\* called open only if its reader was late.
THEOREM RunJudgesRightly == Run!Spec => []OutputIsJudgedRightly
<1>1. Run!IInv => OutputIsJudgedRightly
  <2> SUFFICES ASSUME Run!IInv PROVE OutputIsJudgedRightly
    OBVIOUS
  <2> USE DEF Run!IInv
  <2>1. \A s \in onTime : taken[s] # "open"
    BY DEF Run!VerdictsAgree, Run!TypeOK
  <2>2. ASSUME runResult = "Ok", NEW s \in Run!Stream
        PROVE  /\ state[s].seen = runWritten[s]
               /\ state[s].seen - state[s].first =
                      IF runWritten[s] > limit[s] THEN limit[s] ELSE runWritten[s]
               /\ state[s].truncated <=> runWritten[s] > limit[s]
    <3>1. state[s].reader = "complete"
      BY <2>2 DEF Run!CallInOrder, Run!Captured, Run!VerdictsAgree
    <3>2. state[s].seen = runWritten[s]
      BY <3>1 DEF Run!ReadersAgree
    <3>3. runWritten[s] \in Nat /\ limit[s] \in Nat
      BY PartsAssumption DEF Run!TypeOK
    <3>4. QED
      BY <3>2, <3>3 DEF Run!TailIsKept
  <2>3. QED
    BY <2>1, <2>2 DEF OutputIsJudgedRightly, Run!OutputIsJudgedRightly
<1>2. QED
  BY <1>1, RunInvariant, PTL

\* run_bounded is a bounded command for a caller that never cancels: with any
\* answer but the failed wait, nothing of the tree is left.
THEOREM RunKeepsPromise == Run!Spec => RunImplementsBoundedCommand
<1> USE DEF Run!Seen, Run!Bounded!vars
<1>1. Run!Init => Run!Bounded!Init
  BY DEF Run!Init, Run!Bounded!Init
<1>2. Run!IInv /\ [Run!Next]_(Run!vars) => [Run!Bounded!Next]_(Run!Bounded!vars)
  <2> SUFFICES ASSUME Run!IInv, [Run!Next]_(Run!vars)
               PROVE  [Run!Bounded!Next]_(Run!Bounded!vars)
    OBVIOUS
  <2> USE RunTreeCalls DEF Run!IInv, Run!tree, Run!pipes, Run!call
  <2>1. CASE Run!Spawn
    <3>1. runResult = "none"
      BY <2>1 DEF Run!Spawn, Run!CallInOrder
    <3>2. QED
      BY <2>1, <3>1 DEF Run!Spawn, Run!Return, Run!Bounded!Next, Run!Bounded!Start
  <2>2. CASE Run!TreeDies
    BY <2>2 DEF Run!TreeDies, Run!Bounded!Next, Run!Bounded!Die
  <2>3. CASE Run!Complete
    <3>1. /\ runResult = "running" /\ runAlive' = runAlive
          /\ wait \in {"Exited", "TimedOut", "Error"} /\ (wait # "Error" => ~runAlive)
      BY <2>3 DEF Run!Complete, Run!CallInOrder, Run!TypeOK, Run!Place
    <3>2. runResult' \in {"Wait", "Output", "Timeout", "Ok"} /\ (runResult' # "Wait" => wait # "Error")
      BY <2>3 DEF Run!Complete, Run!Return
    <3>3. QED
      BY <3>1, <3>2 DEF Run!Bounded!Next, Run!Bounded!Answer, Run!Bounded!Outcome
  <2>4. CASE Run!WaitBounded \/ Run!Wake \/ Run!Deadline \/ Run!Escape \/ Run!EscapedDies \/ UNCHANGED Run!vars
    BY <2>4 DEF Run!WaitBounded, Run!Wake, Run!Deadline, Run!Escape, Run!EscapedDies, Run!vars
  <2>5. ASSUME NEW s \in Run!Stream, Run!Write(s) \/ Run!Read(s) \/ Run!EndOfFile(s) \/ Run!ReadFails(s)
        PROVE  UNCHANGED <<runAlive, runResult>>
    BY <2>5 DEF Run!Write, Run!Read, Run!EndOfFile, Run!ReadFails, Run!Ends
  <2>6. ASSUME NEW s \in Run!Stream, Run!Check(s) \/ Run!Judge(s)
        PROVE  UNCHANGED <<runAlive, runResult>>
    BY <2>6 DEF Run!Check, Run!Judge, Run!Take, Run!Finish
  <2>7. QED
    BY <2>1, <2>2, <2>3, <2>4, <2>5, <2>6 DEF Run!Next, Run!Call, Run!Threads, Run!Processes
<1>3. QED
  BY <1>1, <1>2, RunInvariant, PTL
     DEF Run!Spec, RunImplementsBoundedCommand, Run!RunImplementsBoundedCommand, Run!Bounded!Spec

-----------------------------------------------------------------------------
(* What is proved of the tail *)

TailProofs == INSTANCE OutputTail_proofs WITH MaxLimit <- TailLimit, limit <- tailLimit

\* The tail of the composition is the one that the proofs are about.
LEMMA TailAgrees ==
    /\ Kept!Spec <=> TailProofs!Spec
    /\ OutputIsAnEnd <=> TailProofs!OutputIsAnEnd
<1>1. Kept!Init <=> TailProofs!Init
  BY DEF Kept!Init, TailProofs!Init, Kept!Stream, TailProofs!Stream
<1>2. Kept!Next <=> TailProofs!Next
  BY DEF Kept!Next, TailProofs!Next, Kept!Extend, TailProofs!Extend, Kept!ExtendTail,
         TailProofs!ExtendTail, Kept!ReplaceWithTail, TailProofs!ReplaceWithTail, Kept!TailBytes,
         TailProofs!TailBytes, Kept!Stream, TailProofs!Stream, Kept!Chunk, TailProofs!Chunk,
         Kept!Byte, TailProofs!Byte
<1>3. Kept!Spec <=> TailProofs!Spec
  <2>1. [Kept!Next]_(Kept!vars) <=> [TailProofs!Next]_(TailProofs!vars)
    BY <1>2 DEF Kept!vars, TailProofs!vars
  <2>2. QED
    BY <1>1, <2>1, PTL DEF Kept!Spec, TailProofs!Spec
<1>4. ASSUME NEW s, NEW n PROVE Kept!TailBytes(s, n) = TailProofs!TailBytes(s, n)
  BY DEF Kept!TailBytes, TailProofs!TailBytes
<1>5. ASSUME NEW s PROVE Kept!WidthOf(s) = TailProofs!WidthOf(s)
  BY DEF Kept!WidthOf, TailProofs!WidthOf, Kept!FoldLeft, TailProofs!FoldLeft,
         Kept!MapThenFoldSet, TailProofs!MapThenFoldSet, Kept!Width, TailProofs!Width, Kept!Max,
         TailProofs!Max
<1>6. ASSUME NEW s PROVE Kept!Rendered(s) = TailProofs!Rendered(s)
  BY DEF Kept!Rendered, TailProofs!Rendered
<1>7. ASSUME NEW s PROVE Kept!BoundedLossy(s) = TailProofs!BoundedLossy(s)
  BY <1>4, <1>5, <1>6 DEF Kept!BoundedLossy, TailProofs!BoundedLossy
<1>8. Kept!Kept = TailProofs!Kept /\ Kept!Combined = TailProofs!Combined
  BY <1>4 DEF Kept!Kept, TailProofs!Kept, Kept!Combined, TailProofs!Combined
<1>9. Kept!Output = TailProofs!Output
  BY <1>7, <1>8 DEF Kept!Output, TailProofs!Output
<1>10. OutputIsAnEnd <=> TailProofs!OutputIsAnEnd
  BY <1>4, <1>5, <1>6, <1>8, <1>9
     DEF OutputIsAnEnd, Kept!OutputIsAnEnd, TailProofs!OutputIsAnEnd, Kept!OutputTruncated,
         TailProofs!OutputTruncated
<1>11. QED
  BY <1>3, <1>10

\* The text of an outcome is the marked end of what was written (command.rs).
THEOREM OutcomeIsAnEnd == Kept!Spec => []OutputIsAnEnd
<1>1. TailProofs!Spec => []TailProofs!OutputIsAnEnd
  BY TailProofs!TextIsAnEnd
<1>2. OutputIsAnEnd <=> TailProofs!OutputIsAnEnd
  BY TailAgrees
<1>3. QED
  BY <1>1, <1>2, TailAgrees, PTL

-----------------------------------------------------------------------------
(* All the commands, side by side *)

\* A step of the composition is a step of each part, or leaves it alone.
LEMMA StepOfAll ==
    /\ [MCNext]_allVars => [Next]_vars
    /\ [MCNext]_allVars => [Run!Next]_(Run!vars)
    /\ [MCNext]_allVars => [Proxy!Next]_(Proxy!vars)
    /\ [MCNext]_allVars => [Kept!Next]_(Kept!vars)
<1>1. allVars' = allVars => vars' = vars /\ run' = run /\ proxy' = proxy /\ tail' = tail
  BY DEF allVars
<1>2. /\ run' = run => (Run!vars)' = Run!vars
      /\ proxy' = proxy => (Proxy!vars)' = Proxy!vars
      /\ tail' = tail => (Kept!vars)' = Kept!vars
  BY DEF run, proxy, tail, Run!vars, Run!tree, Run!pipes, Run!call, Proxy!vars, Proxy!rustc,
         Kept!vars
<1>3. MCNext => \/ Next /\ run' = run /\ proxy' = proxy /\ tail' = tail
                \/ Run!Next /\ vars' = vars /\ proxy' = proxy /\ tail' = tail
                \/ Proxy!Next /\ vars' = vars /\ run' = run /\ tail' = tail
                \/ Kept!Next /\ vars' = vars /\ run' = run /\ proxy' = proxy
  BY DEF MCNext, Commands, Runs
<1>4. QED
  BY <1>1, <1>2, <1>3

\* What was proved of each command is true of them all: both runners keep the
\* promise of a bounded command, no output is passed off as more than it is,
\* and the Cargo proxy is whole or gone.
THEOREM AllCommandsKeepTheirWord ==
    MCSpec => /\ ImplementsBoundedCommand /\ RunImplementsBoundedCommand
              /\ [](WholeUnlessTruncated /\ OutputIsJudgedRightly
                    /\ ProxyIsWholeOrGone /\ OutputIsAnEnd)
<1>1. MCInit => Init /\ Run!Init /\ Proxy!Init /\ Kept!Init
  BY DEF MCInit
<1>2. MCSpec => Spec
  BY <1>1, StepOfAll, PTL DEF MCSpec, Spec
<1>3. MCSpec => Run!Spec
  BY <1>1, StepOfAll, PTL DEF MCSpec, Run!Spec
<1>4. MCSpec => Proxy!Spec
  BY <1>1, StepOfAll, PTL DEF MCSpec, Proxy!Spec
<1>5. MCSpec => Kept!Spec
  BY <1>1, StepOfAll, PTL DEF MCSpec, Kept!Spec
<1>6. QED
  BY <1>2, <1>3, <1>4, <1>5, WholeOutput, KeepsCommandPromise, RunJudgesRightly,
     RunKeepsPromise, ProxyWholeOrGone, OutcomeIsAnEnd, PTL
=============================================================================
