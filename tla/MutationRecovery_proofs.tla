----------------------- MODULE MutationRecovery_proofs -----------------------
(***************************************************************************)
(* Proofs about MutationRecovery: its types, the invariant that makes      *)
(* every mutant recoverable, the refinement of SourceCustody, and, in the  *)
(* last part and without any assumption on edits and on accidents, that no *)
(* session leaves its tree and that only edits make a recovery refuse.     *)
(***************************************************************************)
EXTENDS MutationRecovery, TLAPS

-----------------------------------------------------------------------------
(* Types. *)

(* The two halves of TypeOK /\ Control: what the files hold, and where the *)
(* sessions are.                                                           *)
FilesTyped ==
  /\ human \in [File -> Saved]
  /\ src \in [File -> Saved] /\ srcDisk \in [File -> Saved]
  /\ journal \in [Root -> Journal \cup {None}]
  /\ journalDisk \in [Root -> Journal \cup {None}]
  /\ pointer \in Pointer \cup {None} /\ pointerDisk \in Pointer \cup {None}

SessionTyped ==
  /\ holder \in Proc \cup {None}
  /\ step \in Steps
  /\ ctx \in Context \cup {None} /\ rec \in Pointer \cup {None}
  /\ reader \in [Proc -> {"idle", "checking", "reading"}]
  /\ Control

FaultsTyped == {edits, crashes, losses, ioErrors} \subseteq Nat

LEMMA NoneFresh ==
  None \notin Proc /\ None \notin Journal /\ None \notin Pointer
  BY ConstantsOK DEF ConstantsOK

LEMMA TypesSplit == TypeOK /\ Control <=> FilesTyped /\ SessionTyped /\ FaultsTyped
  BY DEF TypeOK, FilesTyped, SessionTyped, FaultsTyped

(* The end of a session is always typed. *)
LEMMA EndTyped ==
  ASSUME EndSession, reader' \in [Proc -> {"idle", "checking", "reading"}]
  PROVE  SessionTyped'
  BY DEF EndSession, SessionTyped, Control, Steps, ApplySteps, ReplaceSteps, ClearSteps

LEMMA FailedTyped ==
  ASSUME SessionTyped, step \in IoSteps, Failed, UNCHANGED reader
  PROVE  SessionTyped'
<1>1. CASE step \in ReplaceSteps
  BY <1>1 DEF Failed, SessionTyped, Control, IoSteps, Steps, ApplySteps, ReplaceSteps,
              ClearSteps, Context, Jobs
<1>2. CASE step \notin ReplaceSteps /\ ctx.job = "guard" /\ ~ctx.retried
  BY <1>2 DEF Failed, SessionTyped, Control, IoSteps, Steps, ApplySteps, ReplaceSteps,
              ClearSteps, Context, Jobs
<1>3. CASE step \notin ReplaceSteps /\ ~(ctx.job = "guard" /\ ~ctx.retried)
  BY <1>3, EndTyped DEF Failed, SessionTyped
<1>4. QED BY <1>1, <1>2, <1>3

LEMMA ClearedTyped ==
  ASSUME SessionTyped, step \in ClearSteps, Cleared, UNCHANGED reader
  PROVE  SessionTyped'
<1>1. CASE EndSession
  BY <1>1, EndTyped DEF SessionTyped
<1>2. CASE Leave("recoverOwn") /\ ctx.job # "guard"
  BY <1>2 DEF Leave, SessionTyped, Control, Steps, ApplySteps, ReplaceSteps, ClearSteps
<1>3. CASE Leave("ready")
  BY <1>3 DEF Leave, SessionTyped, Control, Steps, ApplySteps, ReplaceSteps, ClearSteps
<1>4. QED BY <1>1, <1>2, <1>3 DEF Cleared

(* Every way to go on from one step of clearing to another. *)
LEMMA GotoTyped ==
  ASSUME SessionTyped, UNCHANGED reader,
         NEW s \in ClearSteps, Goto(s), rec \in Pointer, step # "idle",
         step \in ClearSteps \cup {"restore"}
  PROVE  SessionTyped'
  BY DEF Goto, SessionTyped, Control, Steps, ApplySteps, ReplaceSteps, ClearSteps

(* Actions of the environment and of the readers keep the session. *)
LEMMA SessionKept ==
  ASSUME SessionTyped, UNCHANGED session,
         reader' \in [Proc -> {"idle", "checking", "reading"}],
         step # "idle" => UNCHANGED reader \/ \A p \in Proc : reader'[p] = "idle"
  PROVE  SessionTyped'
  BY DEF session, SessionTyped, Control

(* Every action keeps the types of the files. *)
LEMMA FilesTypedStep ==
  ASSUME FilesTyped, SessionTyped, [Next]_vars
  PROVE  FilesTyped'
<1>1. CASE UNCHANGED <<human, src, journal, pointer, srcDisk, journalDisk, pointerDisk>>
  BY <1>1 DEF FilesTyped
<1>2. CASE PutBack
  BY <1>2 DEF FilesTyped, PutBack, SessionTyped, Control, Saved, Pointer, durable
<1>3. CASE SyncPutBack \/ SyncSource \/ (\E f \in File : WriteBackSource(f))
  BY <1>3 DEF FilesTyped, SyncPutBack, SyncSource, WriteBackSource, cached
<1>4. CASE RemovePointer \/ SyncPointerRemoval \/ SyncPointer \/ WriteBackPointer
  BY <1>4 DEF FilesTyped, RemovePointer, SyncPointerRemoval, SyncPointer, WriteBackPointer, cached, durable
<1>5. CASE RemoveJournal
  BY <1>5 DEF FilesTyped, RemoveJournal, durable
<1>6. CASE SyncJournalRemoval \/ SyncJournal \/ (\E r \in Root : WriteBackJournal(r))
  BY <1>6 DEF FilesTyped, SyncJournalRemoval, SyncJournal, WriteBackJournal, cached
<1>7. CASE WriteJournal
  BY <1>7 DEF FilesTyped, WriteJournal, JournalOf, SessionTyped, Control, Journal, Pointer, durable
<1>8. CASE WritePointer
  BY <1>8 DEF FilesTyped, WritePointer, SessionTyped, Control, durable
<1>9. CASE ReplaceSource
  BY <1>9 DEF FilesTyped, ReplaceSource, SessionTyped, Control, Saved, Pointer, durable
<1>10. CASE \E f \in File, c \in Saved : Edit(f, c)
  BY <1>10 DEF FilesTyped, Edit
<1>11. CASE PowerLoss
  BY <1>11 DEF FilesTyped, PowerLoss, durable
<1>12. CASE \/ \E p \in Proc, r \in Root : BeginSession(p, r, "run") \/ BeginSession(p, r, "command")
            \/ \E p \in Proc : BeginRead(p) \/ ReaderStep(p)
            \/ \E p \in Proc : CrashReader(p)
            \/ Recovery \/ TestsEnd \/ Restore \/ FinishRun
            \/ \E f \in File, m \in Content : LoadSource(f, m)
            \/ IoError \/ CrashSession
            \/ UNCHANGED vars
  <2>1. UNCHANGED <<human, cached, durable>>
    BY <1>12 DEF BeginSession, BeginRead, ReaderStep, CheckPending, EndRead, CrashReader,
                 Recovery, RecoverPointed, RecoverOwn, NothingToRecover, RecoveryRefused,
                 TestsEnd, Restore, FinishRun, LoadSource, IoError, CrashSession, vars
  <2>2. QED BY <2>1, <1>1 DEF cached, durable
<1>13. CASE SessionStep
  BY <1>13, <1>2, <1>3, <1>4, <1>5, <1>6, <1>7, <1>8, <1>9, <1>12
     DEF SessionStep, Clearing, Applying
<1>14. CASE Environment
  BY <1>14, <1>3, <1>4, <1>6, <1>10, <1>11, <1>12 DEF Environment, WriteBack
<1>15. QED
  BY <1>12, <1>13, <1>14 DEF Next

(* Every action keeps the types, and the control, of the sessions. *)
LEMMA SessionTypedStep ==
  ASSUME FilesTyped, SessionTyped, [Next]_vars
  PROVE  SessionTyped'
<1>1. CASE \E p \in Proc, r \in Root, j \in {"run", "command"} : BeginSession(p, r, j)
  BY <1>1, NoneFresh
     DEF BeginSession, Unlocked, SessionTyped, Control, Steps, ApplySteps,
         ReplaceSteps, ClearSteps, Context, Jobs
<1>2. CASE FinishRun \/ CrashSession
  BY <1>2, EndTyped DEF FinishRun, CrashSession, SessionTyped
<1>3. CASE PowerLoss
  BY <1>3, EndTyped DEF PowerLoss
<1>4. CASE \E p \in Proc : BeginRead(p) \/ ReaderStep(p) \/ CrashReader(p)
  BY <1>4, SessionKept
     DEF BeginRead, ReaderStep, CheckPending, EndRead, CrashReader, SessionTyped, Control
<1>5. CASE (\E f \in File, c \in Saved : Edit(f, c)) \/ WriteBack \/ UNCHANGED vars
  BY <1>5, SessionKept
     DEF Edit, WriteBack, WriteBackSource, WriteBackJournal, WriteBackPointer, vars, session,
         SessionTyped
<1>6. CASE RecoverPointed
  BY <1>6 DEF RecoverPointed, FilesTyped, SessionTyped, Control, Steps, ApplySteps,
              ReplaceSteps, ClearSteps, Context
<1>7. CASE RecoverOwn
  <2>1. ctx \in Context /\ step \in {"recover", "recoverOwn"}
    BY <1>7 DEF RecoverOwn, AtOwnJournal, SessionTyped, Control
  <2>2. journal[ctx.root] \in Journal
    BY <1>7, <2>1 DEF RecoverOwn, FilesTyped, Context
  <2>3. rec' \in Pointer
    BY <1>7, <2>1, <2>2 DEF RecoverOwn, PointerTo, Context, Journal, Pointer
  <2>4. ctx' \in Context /\ ctx'.job = ctx.job
    BY <1>7, <2>1 DEF RecoverOwn, Context
  <2>5. step' \in {"removeJournal", "putBack"}
    BY <1>7 DEF RecoverOwn
  <2>6. QED
    BY <1>7, <2>1, <2>3, <2>4, <2>5, NoneFresh
       DEF RecoverOwn, SessionTyped, Control, Steps, ApplySteps, ReplaceSteps, ClearSteps
<1>8. CASE NothingToRecover
  <2>1. CASE Leave("ready")
    BY <1>8, <2>1 DEF NothingToRecover, AtOwnJournal, Leave, SessionTyped, Control, Steps,
                 ApplySteps, ReplaceSteps, ClearSteps
  <2>2. QED BY <1>8, <2>1, EndTyped DEF NothingToRecover, SessionTyped
<1>9. CASE RecoveryRefused \/ IoError
  BY <1>9, FailedTyped DEF RecoveryRefused, AtOwnJournal, IoError, IoSteps
<1>10. CASE PutBack \/ SyncPutBack
  BY <1>10, GotoTyped DEF PutBack, SyncPutBack, SessionTyped, Control, ClearSteps
<1>11. CASE RemovePointer \/ SyncPointerRemoval
  BY <1>11, GotoTyped, ClearedTyped DEF RemovePointer, SyncPointerRemoval, AfterPointer,
     SessionTyped, Control, ClearSteps
<1>12. CASE RemoveJournal \/ SyncJournalRemoval
  BY <1>12, GotoTyped, ClearedTyped DEF RemoveJournal, SyncJournalRemoval,
     SessionTyped, Control, ClearSteps
<1>13. CASE \E f \in File, m \in Content : LoadSource(f, m)
  <2> PICK f \in File, m \in Content : LoadSource(f, m)
    BY <1>13
  <2>1. ctx \in Context
    BY DEF LoadSource, SessionTyped, Control
  <2>2. rec' \in Pointer
    BY <2>1 DEF LoadSource, FilesTyped, Saved, Context, Pointer
  <2>3. ctx' \in Context /\ ctx'.job = "run" /\ ctx'.pointed /\ ctx'.journaled
    BY <2>1 DEF LoadSource, Context, Jobs
  <2>4. QED
    BY <2>2, <2>3, NoneFresh
       DEF LoadSource, SessionTyped, Control, Steps, ApplySteps, ReplaceSteps, ClearSteps
<1>14. CASE WriteJournal \/ SyncJournal \/ WritePointer \/ SyncPointer \/ ReplaceSource
  <2>1. CASE EndSession /\ UNCHANGED reader
    BY <2>1, EndTyped DEF SessionTyped
  <2>2. CASE /\ step \in ApplySteps \cup {"replaceSource"} /\ UNCHANGED reader
             /\ \E s \in ApplySteps \cup ReplaceSteps : Goto(s)
    BY <2>2 DEF Goto, SessionTyped, Control, Steps, ApplySteps, ReplaceSteps, ClearSteps
  <2>3. QED BY <1>14, <2>1, <2>2 DEF WriteJournal, SyncJournal, WritePointer, SyncPointer,
                 ReplaceSource, ApplySteps, ReplaceSteps
<1>15. CASE SyncSource \/ TestsEnd
  BY <1>15 DEF SyncSource, TestsEnd, Goto, SessionTyped, Control, Steps,
                 ApplySteps, ReplaceSteps, ClearSteps, Context, Jobs
<1>16. CASE Restore
  BY <1>16, GotoTyped, FailedTyped DEF Restore, SessionTyped, Control, ClearSteps, IoSteps
<1>17. QED
  BY <1>1, <1>2, <1>3, <1>4, <1>5, <1>6, <1>7, <1>8, <1>9, <1>10, <1>11, <1>12, <1>13, <1>14,
     <1>15, <1>16
     DEF Next, SessionStep, Recovery, Clearing, Applying, Environment

(* The counters of the environment only ever grow by one. *)
LEMMA FaultsTypedStep ==
  ASSUME FaultsTyped, [Next]_vars
  PROVE  FaultsTyped'
<1>1. CASE UNCHANGED faults
  BY <1>1 DEF FaultsTyped, faults
<1>2. CASE \/ \E f \in File, c \in Saved : Edit(f, c)
           \/ \E p \in Proc : CrashReader(p)
           \/ IoError \/ CrashSession \/ PowerLoss
  BY <1>2 DEF FaultsTyped, Edit, CrashReader, IoError, CrashSession, PowerLoss
<1>3. CASE SessionStep \/ WriteBack
  BY <1>1, <1>3
     DEF SessionStep, Recovery, RecoverPointed, RecoverOwn, NothingToRecover, RecoveryRefused,
         Clearing, PutBack, SyncPutBack, RemovePointer, SyncPointerRemoval, RemoveJournal,
         SyncJournalRemoval, Applying, LoadSource, WriteJournal, SyncJournal, WritePointer,
         SyncPointer, ReplaceSource, SyncSource, TestsEnd, Restore, FinishRun,
         WriteBack, WriteBackSource, WriteBackJournal, WriteBackPointer
<1>4. CASE \/ \E p \in Proc, r \in Root : BeginSession(p, r, "run") \/ BeginSession(p, r, "command")
           \/ \E p \in Proc : BeginRead(p) \/ ReaderStep(p)
           \/ UNCHANGED vars
  BY <1>1, <1>4 DEF BeginSession, BeginRead, ReaderStep, CheckPending, EndRead, vars
<1>5. QED BY <1>2, <1>3, <1>4 DEF Next, Environment

(* Every variable keeps its type, and the control variables of a session   *)
(* agree with its step, whatever crashes, fails or is edited.              *)
THEOREM TypeCorrect == Spec => [](TypeOK /\ Control)
<1>1. Init => TypeOK /\ Control
  BY NoneFresh DEF Init, TypeOK, Control, Steps, ApplySteps, ReplaceSteps, ClearSteps, Saved
<1>2. TypeOK /\ Control /\ [Next]_vars => (TypeOK /\ Control)'
  <2> SUFFICES ASSUME FilesTyped, SessionTyped, FaultsTyped, [Next]_vars
               PROVE  FilesTyped' /\ SessionTyped' /\ FaultsTyped'
    BY TypesSplit DEF TypeOK, Control, FilesTyped, SessionTyped, FaultsTyped
  <2>1. FilesTyped'
    BY FilesTypedStep
  <2>2. SessionTyped'
    BY SessionTypedStep
  <2>3. FaultsTyped'
    BY FaultsTypedStep
  <2>4. QED BY <2>1, <2>2, <2>3
<1>3. QED BY <1>1, <1>2, PTL DEF Spec

-----------------------------------------------------------------------------
(* Recoverability. *)

(* RecordsSound in two: the records in the files, and that of the session. *)
FilesSound ==
  /\ \A r \in Root : \A J \in {journal[r], journalDisk[r]} :
       J # None => NotForged(J) /\ Distinguishes(J)
  /\ \A P \in {pointer, pointerDisk} : P # None => Distinguishes(P)

RecSound == rec # None => Distinguishes(rec) /\ (ctx.journaled => NotForged(rec))

LEMMA SoundSplit == RecordsSound <=> FilesSound /\ RecSound
  BY DEF RecordsSound, FilesSound, RecSound

Typed == FilesTyped /\ SessionTyped

LEMMA IInvSplit ==
  IInv <=> /\ Typed /\ FaultsTyped /\ FilesSound /\ RecSound /\ RecordsInStep
           /\ OriginalsDurable /\ Recoverable
  BY TypesSplit, SoundSplit DEF IInv, Typed

(* What the invariant says when there is no mutation to undo, ... *)
LEMMA OthersPristine ==
  ASSUME Recoverable, NEW f \in File,
         pointer = None \/ pointerDisk # pointer \/ pointer.file # f
  PROVE  src[f] = human[f] /\ srcDisk[f] = human[f]
  BY DEF Recoverable, Covered

LEMMA Pristine ==
  ASSUME FilesTyped, Recoverable, pointer = None \/ pointerDisk # pointer
  PROVE  src = human /\ srcDisk = human
  BY OthersPristine DEF FilesTyped

(* ... when the file of the pointer reads as the original, ... *)
LEMMA OriginalIsHuman ==
  ASSUME FilesTyped, FilesSound, OriginalsDurable, Recoverable, step # "syncPutBack",
         pointer # None, HoldsOriginal(pointer)
  PROVE  src = human /\ srcDisk = human
<1>1. /\ pointer.file \in File /\ pointer.orig \in Content
      /\ pointer.mut \in Mutants[pointer.orig]
  BY DEF FilesTyped, FilesSound, Distinguishes, Pointer
<1>2. pointer.mut # pointer.orig
  BY <1>1, ConstantsOK DEF ConstantsOK
<1>3. src[pointer.file] = human[pointer.file]
  BY <1>1, <1>2 DEF Recoverable, Covered, HoldsOriginal
<1>4. srcDisk[pointer.file] = human[pointer.file]
  BY <1>1, <1>3 DEF OriginalsDurable
<1>5. \A f \in File : src[f] = human[f] /\ srcDisk[f] = human[f]
  BY <1>3, <1>4, OthersPristine
<1>6. QED BY <1>5 DEF FilesTyped

(* ... and when a file reads as the mutant of a record. *)
LEMMA MutantIsCovered ==
  ASSUME Recoverable, NEW R, R.file \in File, NotForged(R), HoldsMutant(R)
  PROVE  /\ pointer # None /\ pointer.file = R.file /\ pointer.mut = R.mut
         /\ pointer.orig = human[R.file]
         /\ journal[pointer.root] = JournalOf(pointer)
  BY DEF Recoverable, Covered, NotForged, HoldsMutant

Safe == FilesSound /\ RecSound /\ RecordsInStep /\ OriginalsDurable /\ Recoverable

(* A step that touches no file disturbs only what is said of the session. *)
LEMMA FilesUntouched ==
  ASSUME Typed, Safe, UNCHANGED <<human, cached, durable>>, step # "syncPutBack"
  PROVE  FilesSound' /\ OriginalsDurable' /\ Recoverable'
  BY DEF Typed, Safe, cached, durable, FilesSound, NotForged, Distinguishes, OriginalsDurable,
         Recoverable, Covered

(* The end of a session leaves nothing to say. *)
LEMMA EndSafe ==
  ASSUME Typed, RecordsInStep, EndSession, UNCHANGED reader,
         pointer' = pointer \/ pointer' = None
  PROVE  RecSound' /\ RecordsInStep'
<1>1. RecSound'
  BY DEF EndSession, RecSound
<1>2. RecordsInStep'
  BY DEF EndSession, RecordsInStep, ApplySteps, ClearSteps
<1>3. QED BY <1>1, <1>2

(* Failing is safe wherever it may happen. *)
LEMMA FailedSafe ==
  ASSUME Typed, Safe, step \in IoSteps, step # "syncPutBack", Failed,
         UNCHANGED <<human, cached, durable, reader>>
  PROVE  Safe'
<1>1. RecSound' /\ RecordsInStep'
  <2>1. CASE step \in ReplaceSteps
    BY <2>1 DEF Failed, Typed, SessionTyped, Control, Safe, RecSound, RecordsInStep,
                ReplaceSteps, ApplySteps, ClearSteps, Context, cached, durable
  <2>2. CASE step \notin ReplaceSteps /\ ctx.job = "guard" /\ ~ctx.retried
    <3>1. /\ step \in ClearSteps \cup {"restore"} /\ ctx \in Context /\ rec \in Pointer
          /\ step' = "restore" /\ rec' = rec /\ ctx'.journaled = ctx.journaled
      BY <2>2, NoneFresh
         DEF Failed, Typed, SessionTyped, Control, IoSteps, ReplaceSteps, ApplySteps,
             ClearSteps, Context
    <3>2. QED
      BY <3>1 DEF Safe, RecSound, RecordsInStep, NotForged, Distinguishes, ApplySteps,
                  ClearSteps, cached, durable
  <2>3. CASE step \notin ReplaceSteps /\ ~(ctx.job = "guard" /\ ~ctx.retried)
    BY <2>3, EndSafe DEF Failed, Safe, cached
  <2>4. QED BY <2>1, <2>2, <2>3
<1>2. QED BY <1>1, FilesUntouched DEF Safe

(* After the last record is cleared there is no pointer. *)
LEMMA ClearedSafe ==
  ASSUME Typed, RecordsInStep, Cleared, UNCHANGED reader, pointer' = None
  PROVE  RecSound' /\ RecordsInStep'
<1>1. CASE EndSession
  BY <1>1, EndSafe
<1>2. CASE Leave("recoverOwn") \/ Leave("ready")
  BY <1>2 DEF Leave, RecSound, RecordsInStep, ApplySteps, ClearSteps
<1>3. QED BY <1>1, <1>2 DEF Cleared

(* Recovery decides only for contents it can account for. *)
LEMMA RecoveryStep ==
  ASSUME Typed, Safe, Recovery
  PROVE  Safe'
<1>1. CASE RecoverPointed
  <2>1. /\ pointer \in Pointer /\ pointer # None /\ rec' = pointer
        /\ step = "recover" /\ ctx \in Context /\ ctx' \in Context
        /\ ctx'.pointed /\ (ctx'.journaled <=> JournalOfPointer # None)
        /\ \A p \in Proc : reader'[p] = "idle"
    BY <1>1 DEF RecoverPointed, Typed, FilesTyped, SessionTyped, Control, Context
  <2>2. JournalOfPointer \in {None, JournalOf(pointer)}
    BY <1>1 DEF RecoverPointed, PointerRefused, PointerUsable
  <2>3. JournalOfPointer # None => NotForged(pointer)
    BY <2>1, <2>2 DEF Safe, FilesSound, JournalOfPointer, NotForged, JournalOf, Pointer
  <2>4. RecSound'
    BY <1>1, <2>1, <2>3
       DEF RecoverPointed, RecSound, Safe, FilesSound, NotForged, Distinguishes
  <2>5. CASE HoldsOriginal(pointer)
    <3>1. src = human /\ srcDisk = human
      BY <2>1, <2>5, OriginalIsHuman DEF Typed, Safe
    <3>2. RecordsInStep'
      BY <1>1, <2>1, <2>5, <3>1
         DEF RecoverPointed, RecordsInStep, ApplySteps, ClearSteps, cached, durable
    <3>3. QED BY <1>1, <2>1, <2>4, <3>2, FilesUntouched DEF RecoverPointed, Safe
  <2>6. CASE ~HoldsOriginal(pointer)
    <3>1. HoldsMutant(pointer) /\ JournalOfPointer # None
      BY <1>1, <2>6 DEF RecoverPointed, PointerRefused
    <3>2. pointer.orig = human[pointer.file]
      BY <2>1, <2>3, <3>1, MutantIsCovered DEF Safe, Pointer
    <3>3. RecordsInStep'
      BY <1>1, <2>1, <2>6, <3>2
         DEF RecoverPointed, RecordsInStep, ApplySteps, ClearSteps, cached, durable
    <3>4. QED BY <1>1, <2>1, <2>4, <3>3, FilesUntouched DEF RecoverPointed, Safe
  <2>7. QED BY <2>5, <2>6
<1>2. CASE RecoverOwn
  <2>1. /\ step \in {"recover", "recoverOwn"} /\ pointer = None /\ ctx \in Context
        /\ \A p \in Proc : reader'[p] = "idle"
    BY <1>2 DEF RecoverOwn, AtOwnJournal, Typed, SessionTyped, Control, Safe, RecordsInStep
  <2> DEFINE J == journal[ctx.root]
  <2>2. /\ J \in Journal /\ NotForged(J) /\ Distinguishes(J)
    BY <1>2, <2>1 DEF RecoverOwn, Typed, FilesTyped, Safe, FilesSound, Context
  <2>3. src[J.file] = human[J.file] /\ J.mut # human[J.file]
    BY <2>1, <2>2, Pristine DEF Typed, Safe, NotForged
  <2>4. HoldsOriginal(J)
    BY <1>2, <2>3 DEF RecoverOwn, OwnRefused, HoldsMutant, HoldsOriginal
  <2>5. step' = "removeJournal" /\ rec' = PointerTo(ctx.root, J)
    BY <1>2, <2>4 DEF RecoverOwn
  <2>6. RecSound'
    BY <1>2, <2>2, <2>5
       DEF RecoverOwn, RecSound, PointerTo, NotForged, Distinguishes
  <2>7. RecordsInStep'
    BY <1>2, <2>1, <2>5 DEF RecoverOwn, RecordsInStep, ApplySteps, ClearSteps, cached
  <2>8. QED BY <1>2, <2>1, <2>6, <2>7, FilesUntouched DEF RecoverOwn, Safe
<1>3. CASE NothingToRecover
  <2>1. step \in {"recover", "recoverOwn"} /\ pointer = None
    BY <1>3 DEF NothingToRecover, AtOwnJournal, Safe, RecordsInStep
  <2>2. RecSound' /\ RecordsInStep'
    <3>1. CASE Leave("ready")
      BY <1>3, <2>1, <3>1
         DEF NothingToRecover, Leave, RecSound, RecordsInStep, ApplySteps, ClearSteps, cached
    <3>2. CASE EndSession
      BY <1>3, <3>2, EndSafe DEF NothingToRecover, Safe, cached
    <3>3. QED BY <1>3, <3>1, <3>2 DEF NothingToRecover
  <2>3. QED BY <1>3, <2>1, <2>2, FilesUntouched DEF NothingToRecover, Safe
<1>4. CASE RecoveryRefused
  BY <1>4, FailedSafe DEF RecoveryRefused, AtOwnJournal, IoSteps
<1>5. QED BY <1>1, <1>2, <1>3, <1>4 DEF Recovery

(* Clearing puts the original back before it forgets the pointer, and      *)
(* forgets the pointer before the journal.                                 *)
LEMMA ClearingStep ==
  ASSUME Typed, Safe, Clearing
  PROVE  Safe'
<1>1. /\ step \in ClearSteps /\ ctx \in Context /\ rec \in Pointer /\ rec # None
      /\ pointer \in {None, rec} /\ \A p \in Proc : reader'[p] = "idle"
  BY NoneFresh DEF Clearing, PutBack, SyncPutBack, RemovePointer, SyncPointerRemoval, RemoveJournal,
         SyncJournalRemoval, Typed, SessionTyped, Control, Safe, RecordsInStep, ClearSteps
<1>2. rec.file \in File /\ rec.root \in Root
  BY <1>1 DEF Pointer
<1>3. \A f \in File \ {rec.file} : src[f] = human[f] /\ srcDisk[f] = human[f]
  BY <1>1, OthersPristine DEF Safe
<1>4. CASE PutBack
  <2>1. src' = [src EXCEPT ![rec.file] = human[rec.file]]
    BY <1>4 DEF PutBack, Safe, RecordsInStep
  <2>2. src' = human
    BY <1>2, <1>3, <2>1 DEF Typed, FilesTyped
  <2>3. FilesSound' /\ RecSound'
    BY <1>4 DEF PutBack, Goto, Safe, FilesSound, RecSound, NotForged, Distinguishes, durable
  <2>4. RecordsInStep'
    BY <1>1, <1>4, <2>2 DEF PutBack, Goto, Safe, RecordsInStep, ApplySteps, ClearSteps
  <2>5. OriginalsDurable'
    BY <1>3, <1>4, <2>2 DEF PutBack, Goto, durable, OriginalsDurable
  <2>6. Recoverable'
    BY <1>4, <2>2 DEF PutBack, durable, Safe, Recoverable, Covered
  <2>7. QED BY <2>3, <2>4, <2>5, <2>6 DEF Safe
<1>5. CASE SyncPutBack
  <2>1. src = human /\ srcDisk' = human
    BY <1>2, <1>3, <1>5 DEF SyncPutBack, Safe, RecordsInStep, Typed, FilesTyped
  <2>2. FilesSound' /\ RecSound'
    BY <1>5 DEF SyncPutBack, Goto, Safe, FilesSound, RecSound, NotForged, Distinguishes, cached
  <2>3. RecordsInStep'
    BY <1>1, <1>5, <2>1
       DEF SyncPutBack, Goto, Safe, RecordsInStep, ApplySteps, ClearSteps, cached
  <2>4. OriginalsDurable' /\ Recoverable'
    BY <1>5, <2>1 DEF SyncPutBack, cached, OriginalsDurable, Recoverable
  <2>5. QED BY <2>2, <2>3, <2>4 DEF Safe
<1>6. CASE RemovePointer \/ SyncPointerRemoval
  <2>1. src = human /\ srcDisk = human /\ pointer' = None
    BY <1>6, Pristine DEF RemovePointer, SyncPointerRemoval, Safe, RecordsInStep, Typed, cached
  <2>2. UNCHANGED <<human, src, srcDisk, journal, journalDisk, reader>>
        /\ pointerDisk' \in {pointerDisk, None}
    BY <1>6, <2>1 DEF RemovePointer, SyncPointerRemoval, cached, durable
  <2>3. RecSound' /\ RecordsInStep'
    <3>1. CASE Goto("syncPointerDir") \/ Goto("removeJournal")
      BY <1>1, <2>1, <2>2, <3>1
         DEF Goto, Safe, RecSound, RecordsInStep, NotForged, Distinguishes, ApplySteps, ClearSteps
    <3>2. CASE Cleared
      BY <2>1, <2>2, <3>2, ClearedSafe DEF Safe
    <3>3. QED BY <1>6, <3>1, <3>2 DEF RemovePointer, SyncPointerRemoval, AfterPointer
  <2>4. FilesSound'
    BY <2>1, <2>2 DEF Safe, FilesSound, NotForged, Distinguishes
  <2>5. OriginalsDurable' /\ Recoverable'
    BY <2>1, <2>2 DEF OriginalsDurable, Recoverable
  <2>6. QED BY <2>3, <2>4, <2>5 DEF Safe
<1>7. CASE RemoveJournal \/ SyncJournalRemoval
  <2>1. pointer = None /\ src = human /\ srcDisk = human
    BY <1>7, Pristine DEF RemoveJournal, SyncJournalRemoval, Safe, RecordsInStep, Typed
  <2>2. UNCHANGED <<human, src, srcDisk, pointer, pointerDisk, reader>>
    BY <1>7 DEF RemoveJournal, SyncJournalRemoval, cached, durable
  <2>3. \A r \in Root : /\ journal'[r] \in {None, journal[r]}
                        /\ journalDisk'[r] \in {journal[r], journalDisk[r]}
    BY <1>2, <1>7 DEF RemoveJournal, SyncJournalRemoval, Typed, FilesTyped, cached, durable
  <2>4. RecSound' /\ RecordsInStep'
    <3>1. CASE Goto("syncJournalDir")
      BY <1>1, <2>1, <2>2, <3>1
         DEF Goto, Safe, RecSound, RecordsInStep, NotForged, Distinguishes, ApplySteps, ClearSteps
    <3>2. CASE Cleared
      BY <2>1, <2>2, <3>2, ClearedSafe DEF Safe
    <3>3. QED BY <1>7, <3>1, <3>2 DEF RemoveJournal, SyncJournalRemoval
  <2>5. FilesSound'
    BY <2>2, <2>3 DEF Safe, FilesSound, NotForged, Distinguishes
  <2>6. OriginalsDurable' /\ Recoverable'
    BY <2>1, <2>2 DEF OriginalsDurable, Recoverable
  <2>7. QED BY <2>4, <2>5, <2>6 DEF Safe
<1>8. QED BY <1>4, <1>5, <1>6, <1>7 DEF Clearing

(* Applying writes the journal before the pointer and both before the      *)
(* mutant.                                                                 *)
LEMMA ApplyingStep ==
  ASSUME Typed, Safe, Applying
  PROVE  Safe'
<1>1. CASE \E f \in File, m \in Content : LoadSource(f, m)
  <2> PICK f \in File, m \in Content : LoadSource(f, m)
    BY <1>1
  <2>1. step = "ready" /\ pointer = None /\ src = human
    BY Pristine DEF LoadSource, Safe, RecordsInStep, Typed
  <2>2. src[f] \in Content /\ src[f] = human[f] /\ m \in Mutants[src[f]] /\ m # src[f]
    BY <2>1, ConstantsOK DEF LoadSource, Typed, FilesTyped, Saved, ConstantsOK
  <2>3. RecSound'
    BY <2>2 DEF LoadSource, RecSound, NotForged, Distinguishes
  <2>4. RecordsInStep'
    BY <2>1, <2>2
       DEF LoadSource, Safe, RecordsInStep, ApplySteps, ClearSteps, cached, durable
  <2>5. QED BY <2>1, <2>3, <2>4, FilesUntouched DEF LoadSource, Safe
<1>2. CASE WriteJournal \/ SyncJournal \/ WritePointer
  <2>1. /\ pointer = None /\ src = human /\ srcDisk = human
        /\ step \in ApplySteps /\ ctx.journaled /\ rec \in Pointer /\ rec # None
        /\ \A p \in Proc : reader'[p] = "idle"
    BY <1>2, Pristine, NoneFresh
       DEF WriteJournal, SyncJournal, WritePointer, ApplySteps, Typed, SessionTyped, Control,
           Safe, RecordsInStep
  <2>2. rec.root \in Root /\ rec.file \in File /\ NotForged(rec) /\ Distinguishes(rec)
    BY <2>1 DEF Pointer, Safe, RecSound
  <2>3. UNCHANGED <<human, src, srcDisk, pointerDisk, reader>>
    BY <1>2 DEF WriteJournal, SyncJournal, WritePointer, cached, durable
  <2>4. RecSound'
    BY <1>2, <2>3
       DEF WriteJournal, SyncJournal, WritePointer, Goto, EndSession, Safe, RecSound,
           NotForged, Distinguishes
  <2>5. OriginalsDurable' /\ Recoverable'
    BY <2>1, <2>3 DEF OriginalsDurable, Recoverable
  <2>6. CASE EndSession /\ UNCHANGED <<cached, durable>>
    BY <2>1, <2>3, <2>5, <2>6, EndSafe, FilesUntouched DEF Safe, ApplySteps, cached
  <2>7. CASE WriteJournal /\ Goto("syncJournal")
    <3>1. journal' = [journal EXCEPT ![rec.root] = JournalOf(rec)]
      BY <2>7 DEF WriteJournal, Goto, EndSession
    <3>2. FilesSound'
      <4>1. /\ \A r \in Root : journal'[r] \in {journal[r], JournalOf(rec)}
            /\ UNCHANGED <<journalDisk, pointer>>
        BY <2>7, <3>1 DEF WriteJournal, Typed, FilesTyped, durable
      <4>2. NotForged(JournalOf(rec)) /\ Distinguishes(JournalOf(rec))
        BY <2>2 DEF NotForged, Distinguishes, JournalOf
      <4>3. QED BY <2>3, <4>1, <4>2 DEF Safe, FilesSound, NotForged, Distinguishes
    <3>3. RecordsInStep'
      BY <2>1, <2>2, <2>3, <2>7, <3>1
         DEF WriteJournal, Goto, Safe, RecordsInStep, ApplySteps, ClearSteps, Typed, FilesTyped,
             JournalOf
    <3>4. QED BY <2>4, <2>5, <3>2, <3>3 DEF Safe
  <2>8. CASE SyncJournal
    <3>1. journal[rec.root] = JournalOf(rec) /\ UNCHANGED <<journal, pointer>>
          /\ journalDisk' = [journalDisk EXCEPT ![rec.root] = JournalOf(rec)]
      BY <2>8 DEF SyncJournal, Safe, RecordsInStep, cached
    <3>2. FilesSound'
      BY <2>2, <2>3, <3>1
         DEF Safe, FilesSound, NotForged, Distinguishes, JournalOf, Typed, FilesTyped
    <3>3. RecordsInStep'
      BY <2>1, <2>2, <2>3, <2>8, <3>1
         DEF SyncJournal, Goto, Safe, RecordsInStep, ApplySteps, ClearSteps, Typed, FilesTyped,
             JournalOf
    <3>4. QED BY <2>4, <2>5, <3>2, <3>3 DEF Safe
  <2>9. CASE WritePointer /\ Goto("syncPointer")
    <3>1. pointer' = rec /\ UNCHANGED <<journal, journalDisk>>
      BY <2>1, <2>9 DEF WritePointer, durable
    <3>2. FilesSound'
      BY <2>2, <2>3, <3>1 DEF Safe, FilesSound, NotForged, Distinguishes
    <3>3. RecordsInStep'
      BY <2>1, <2>2, <2>3, <2>9, <3>1
         DEF WritePointer, Goto, Safe, RecordsInStep, ApplySteps, ClearSteps, JournalOf
    <3>4. QED BY <2>4, <2>5, <3>2, <3>3 DEF Safe
  <2>10. QED
    BY <1>2, <2>1, <2>6, <2>7, <2>8, <2>9 DEF WriteJournal, WritePointer, durable, cached
<1>3. CASE SyncPointer \/ ReplaceSource \/ SyncSource
  <2>1. /\ step \in {"syncPointer", "replaceSource", "syncSource"}
        /\ ctx.journaled /\ rec \in Pointer /\ rec # None /\ pointer \in {None, rec}
        /\ \A p \in Proc : reader'[p] = "idle"
    BY <1>3, NoneFresh
       DEF SyncPointer, ReplaceSource, SyncSource, ApplySteps, ReplaceSteps, Typed, SessionTyped,
           Control, Safe, RecordsInStep
  <2>2. rec.file \in File /\ NotForged(rec)
    BY <2>1 DEF Pointer, Safe, RecSound
  <2>3. UNCHANGED <<human, journal, journalDisk, pointer>> /\ pointerDisk' \in {pointerDisk, pointer}
    BY <1>3 DEF SyncPointer, ReplaceSource, SyncSource, cached, durable
  <2>4. FilesSound'
    BY <2>3 DEF Safe, FilesSound, NotForged, Distinguishes
  <2>5. RecSound'
    <3>1. CASE rec' = rec /\ ctx'.journaled = ctx.journaled
      BY <2>3, <3>1 DEF Safe, RecSound, NotForged, Distinguishes
    <3>2. ctx \in Context
      BY <2>1 DEF Typed, SessionTyped, Control
    <3>3. QED BY <1>3, <3>1, <3>2 DEF SyncPointer, ReplaceSource, SyncSource, Goto, Context
  <2>6. CASE SyncPointer
    <3>1. RecordsInStep'
      BY <2>1, <2>3, <2>6
         DEF SyncPointer, Goto, Safe, RecordsInStep, ApplySteps, ClearSteps, cached
    <3>2. OriginalsDurable' /\ Recoverable'
      BY <2>3, <2>6 DEF SyncPointer, cached, Safe, OriginalsDurable, Recoverable, Covered
    <3>3. QED BY <2>4, <2>5, <3>1, <3>2 DEF Safe
  <2>7. CASE ReplaceSource
    <3>1. /\ pointer = rec /\ pointerDisk = rec /\ rec.orig = human[rec.file]
          /\ journal[rec.root] = JournalOf(rec) /\ journalDisk[rec.root] = JournalOf(rec)
          /\ UNCHANGED <<srcDisk, pointerDisk, rec>>
          /\ \A f \in File : src'[f] = IF f = rec.file THEN rec.mut ELSE src[f]
      BY <2>2, <2>7
         DEF ReplaceSource, Goto, Safe, RecordsInStep, ApplySteps, Typed, FilesTyped, durable
    <3>2. RecordsInStep'
      BY <2>1, <2>3, <2>7, <3>1
         DEF ReplaceSource, Goto, Safe, RecordsInStep, ApplySteps, ClearSteps
    <3>3. OriginalsDurable'
      BY <2>1, <2>2, <2>3, <2>7, <3>1
         DEF ReplaceSource, Goto, Safe, OriginalsDurable, NotForged
    <3>4. Recoverable'
      BY <2>1, <2>2, <2>3, <3>1 DEF Safe, Recoverable, Covered, JournalOf
    <3>5. QED BY <2>4, <2>5, <3>2, <3>3, <3>4 DEF Safe
  <2>8. CASE SyncSource
    <3>1. UNCHANGED <<src, pointerDisk>>
          /\ \A f \in File : srcDisk'[f] \in {src[f], srcDisk[f]}
          /\ srcDisk'[rec.file] = src[rec.file]
      BY <2>2, <2>8 DEF SyncSource, cached, Typed, FilesTyped
    <3>2. RecordsInStep'
      BY <2>1, <2>3, <2>8, <3>1
         DEF SyncSource, Goto, Safe, RecordsInStep, ApplySteps, ClearSteps
    <3>3. OriginalsDurable'
      BY <2>1, <2>3, <2>8, <3>1 DEF SyncSource, Safe, OriginalsDurable
    <3>4. Recoverable'
      BY <2>3, <3>1 DEF Safe, Recoverable, Covered
    <3>5. QED BY <2>4, <2>5, <3>2, <3>3, <3>4 DEF Safe
  <2>9. QED BY <1>3, <2>6, <2>7, <2>8
<1>4. QED BY <1>1, <1>2, <1>3 DEF Applying

(* Beginning and ending a session, the tests, and the readers. *)
LEMMA SessionsStep ==
  ASSUME Typed, Safe,
         \/ \E p \in Proc, r \in Root, j \in {"run", "command"} : BeginSession(p, r, j)
         \/ \E p \in Proc : BeginRead(p) \/ ReaderStep(p) \/ CrashReader(p)
         \/ FinishRun \/ TestsEnd \/ Restore
  PROVE  Safe'
<1>1. CASE \E p \in Proc, r \in Root, j \in {"run", "command"} : BeginSession(p, r, j)
  <2>1. step = "idle" /\ step' = "recover" /\ rec' = None /\ \A p \in Proc : reader'[p] = "idle"
    BY <1>1, NoneFresh DEF BeginSession, Unlocked, Typed, SessionTyped, Control
  <2>2. RecSound' /\ RecordsInStep'
    BY <2>1 DEF RecSound, RecordsInStep, ApplySteps, ClearSteps
  <2>3. QED BY <1>1, <2>1, <2>2, FilesUntouched DEF BeginSession, Safe
<1>2. CASE FinishRun
  BY <1>2, EndSafe, FilesUntouched DEF FinishRun, Safe, cached
<1>3. CASE TestsEnd
  <2>1. RecSound' /\ RecordsInStep'
    BY <1>3 DEF TestsEnd, Goto, Safe, RecSound, RecordsInStep, NotForged, Distinguishes,
                ApplySteps, ClearSteps, cached, durable
  <2>2. QED BY <1>3, <2>1, FilesUntouched DEF TestsEnd, Safe
<1>4. CASE Restore
  <2>1. /\ step = "restore" /\ ctx.pointed /\ ctx.journaled /\ rec \in Pointer /\ rec # None
        /\ pointer \in {None, rec} /\ \A p \in Proc : reader'[p] = "idle"
    BY <1>4, NoneFresh
       DEF Restore, Typed, SessionTyped, Control, Safe, RecordsInStep, ApplySteps, ReplaceSteps,
           ClearSteps
  <2>2. CASE HoldsOriginal(rec) /\ Goto("removePointer")
    <3>1. src = human /\ srcDisk = human
      BY <2>1, <2>2, OriginalIsHuman, Pristine DEF Typed, Safe
    <3>2. RecSound' /\ RecordsInStep'
      BY <1>4, <2>1, <2>2, <3>1
         DEF Restore, Goto, Safe, RecSound, RecordsInStep, NotForged, Distinguishes,
             ApplySteps, ClearSteps, cached, durable
    <3>3. QED BY <1>4, <2>1, <3>2, FilesUntouched DEF Restore, Safe
  <2>3. CASE HoldsMutant(rec) /\ Goto("putBack")
    <3>1. rec.orig = human[rec.file]
      <4>1. rec.file \in File /\ NotForged(rec)
        BY <2>1 DEF Safe, RecSound, Pointer
      <4>2. pointer = rec /\ pointer.orig = human[rec.file]
        BY <2>1, <2>3, <4>1, MutantIsCovered DEF Safe
      <4>3. QED BY <4>2
    <3>2. RecSound' /\ RecordsInStep'
      BY <1>4, <2>1, <2>3, <3>1
         DEF Restore, Goto, Safe, RecSound, RecordsInStep, NotForged, Distinguishes,
             ApplySteps, ClearSteps, cached, durable
    <3>3. QED BY <1>4, <2>1, <3>2, FilesUntouched DEF Restore, Safe
  <2>4. CASE Failed
    BY <1>4, <2>1, <2>4, FailedSafe DEF Restore, IoSteps
  <2>5. QED BY <1>4, <2>2, <2>3, <2>4 DEF Restore
<1>5. CASE \E p \in Proc : BeginRead(p) \/ ReaderStep(p) \/ CrashReader(p)
  <2>1. /\ UNCHANGED <<human, cached, durable, session>>
        /\ \A p \in Proc : reader'[p] = "reading" => reader[p] = "reading" \/ pointer = None
    BY <1>5 DEF BeginRead, ReaderStep, CheckPending, EndRead, CrashReader, Typed, SessionTyped
  <2>2. QED
    BY <2>1 DEF cached, durable, session, Safe, FilesSound, RecSound, RecordsInStep, NotForged,
                Distinguishes, OriginalsDurable, Recoverable, Covered
<1>6. QED BY <1>1, <1>2, <1>3, <1>4, <1>5

(* The environment disturbs nothing either, if the human keeps clear of    *)
(* the tool and a restored source is synchronized without an accident.     *)
LEMMA EnvironmentStep ==
  ASSUME EditsAvoidTool, RestoreIsDurable, Typed, Safe, Environment
  PROVE  Safe'
<1>1. CASE \E f \in File, c \in Saved : Edit(f, c)
  <2> PICK f \in File, c \in Saved : Edit(f, c)
    BY <1>1
  <2>1. /\ \A g \in File : /\ human'[g] = IF g = f THEN c ELSE human[g]
                           /\ src'[g] = IF g = f THEN c ELSE src[g]
                           /\ srcDisk'[g] = IF g = f THEN c ELSE srcDisk[g]
        /\ UNCHANGED <<journal, pointer, journalDisk, pointerDisk, holder, step, ctx, rec, reader>>
    BY DEF Edit, Typed, FilesTyped, session
  <2>2. ~(step \in UnguardedSteps /\ rec.file = f) /\ ~Recorded(f, c)
    BY DEF Edit
  <2>3. /\ \A r \in Root : \A J \in {journal[r], journalDisk[r]} :
             J # None => J.file \in File /\ ~(J.file = f /\ J.mut = c)
        /\ rec # None => rec.file \in File /\ ~(rec.file = f /\ rec.mut = c)
    BY <2>2, NoneFresh
       DEF Recorded, Typed, FilesTyped, SessionTyped, Journal, Pointer
  <2>4. FilesSound'
    BY <2>1, <2>3 DEF Safe, FilesSound, NotForged, Distinguishes
  <2>5. RecSound'
    BY <2>1, <2>3 DEF Safe, RecSound, NotForged, Distinguishes
  <2>6. RecordsInStep'
    <3>1. step \in ApplySteps \cup ClearSteps \cup {"replaceSource"} => rec # None /\ rec.file \in File
      BY <2>3 DEF Typed, SessionTyped, Control, ApplySteps, ReplaceSteps, ClearSteps
    <3>2. step = "removePointer" => src' = human' /\ srcDisk' = human'
      BY DEF Edit, Safe, RecordsInStep
    <3>3. QED
      BY <2>1, <2>2, <3>1, <3>2
         DEF Safe, RecordsInStep, UnguardedSteps, ApplySteps, ClearSteps, JournalOf
  <2>7. OriginalsDurable'
    BY <2>1 DEF Safe, OriginalsDurable
  <2>8. Recoverable'
    BY <2>1 DEF Safe, Recoverable, Covered, JournalOf
  <2>9. QED BY <2>4, <2>5, <2>6, <2>7, <2>8 DEF Safe
<1>2. CASE IoError
  BY <1>2, FailedSafe DEF IoError
<1>3. CASE CrashSession
  BY <1>3, EndSafe, FilesUntouched DEF CrashSession, Safe, cached
<1>4. CASE PowerLoss
  <2>1. /\ src' = srcDisk /\ srcDisk' = srcDisk /\ human' = human
        /\ journal' = journalDisk /\ journalDisk' = journalDisk
        /\ pointer' = pointerDisk /\ pointerDisk' = pointerDisk
        /\ step' = "idle" /\ rec' = None /\ \A p \in Proc : reader'[p] = "idle"
    BY <1>4 DEF PowerLoss, EndSession, durable
  <2>2. FilesSound' /\ RecSound'
    BY <2>1 DEF Safe, FilesSound, RecSound, NotForged, Distinguishes
  <2>3. RecordsInStep' /\ OriginalsDurable'
    BY <2>1 DEF RecordsInStep, OriginalsDurable, ApplySteps, ClearSteps
  <2>4. Recoverable'
    BY <2>1 DEF Safe, Recoverable, Covered, JournalOf
  <2>5. QED BY <2>2, <2>3, <2>4 DEF Safe
<1>5. CASE WriteBack
  <2>1. /\ \A f \in File : srcDisk'[f] \in {srcDisk[f], src[f]}
        /\ \A r \in Root : journalDisk'[r] \in {journalDisk[r], journal[r]}
        /\ pointerDisk' \in {pointerDisk, pointer}
        /\ UNCHANGED <<human, src, journal, pointer, holder, step, ctx, rec, reader>>
    BY <1>5 DEF WriteBack, WriteBackSource, WriteBackJournal, WriteBackPointer, cached, session,
                Typed, FilesTyped
  <2>2. FilesSound' /\ RecSound'
    BY <2>1 DEF Safe, FilesSound, RecSound, NotForged, Distinguishes
  <2>3. RecordsInStep'
    <3>1. rec # None => rec.root \in Root
      BY DEF Typed, SessionTyped, Pointer
    <3>2. step \in ApplySteps \cup {"replaceSource"} => rec # None
      BY DEF Typed, SessionTyped, Control, ApplySteps, ReplaceSteps
    <3>3. step = "removePointer" => srcDisk' = human
      BY <1>5 DEF Safe, RecordsInStep, Typed, FilesTyped, WriteBack, WriteBackSource,
                  WriteBackJournal, WriteBackPointer
    <3>4. QED
      BY <2>1, <3>1, <3>2, <3>3 DEF Safe, RecordsInStep, ApplySteps, ClearSteps
  <2>4. OriginalsDurable'
    BY <2>1 DEF Safe, OriginalsDurable
  <2>5. Recoverable'
    <3>1. pointer # None => pointer.root \in Root
      BY DEF Typed, FilesTyped, Pointer
    <3>2. QED BY <2>1, <3>1 DEF Safe, Recoverable, Covered
  <2>6. QED BY <2>2, <2>3, <2>4, <2>5 DEF Safe
<1>6. CASE \E p \in Proc : CrashReader(p)
  BY <1>6, SessionsStep
<1>7. QED BY <1>1, <1>2, <1>3, <1>4, <1>5, <1>6 DEF Environment

LEMMA SafeStep ==
  ASSUME EditsAvoidTool, RestoreIsDurable, Typed, Safe, [Next]_vars
  PROVE  Safe'
<1>1. CASE UNCHANGED vars
  BY <1>1 DEF vars, cached, durable, session, Safe, FilesSound, RecSound, RecordsInStep, NotForged,
              Distinguishes, OriginalsDurable, Recoverable, Covered
<1>2. CASE SessionStep
  BY <1>2, RecoveryStep, ClearingStep, ApplyingStep, SessionsStep DEF SessionStep
<1>3. CASE Environment
  BY <1>3, EnvironmentStep
<1>4. CASE \/ \E p \in Proc, r \in Root : BeginSession(p, r, "run") \/ BeginSession(p, r, "command")
           \/ \E p \in Proc : BeginRead(p) \/ ReaderStep(p)
  BY <1>4, SessionsStep
<1>5. QED BY <1>1, <1>2, <1>3, <1>4 DEF Next

(* IInv is an invariant for every set of roots, files and contents, and    *)
(* without bounds on crashes, I/O errors, power losses and edits.          *)
THEOREM Invariance ==
  ASSUME EditsAvoidTool, RestoreIsDurable
  PROVE  Spec => []IInv
<1>1. Init => IInv
  <2> SUFFICES ASSUME Init PROVE IInv
    OBVIOUS
  <2>1. TypeOK /\ Control
    BY NoneFresh DEF Init, TypeOK, Control, Steps, ApplySteps, ReplaceSteps, ClearSteps, Saved
  <2>2. RecordsSound
    BY DEF Init, RecordsSound
  <2>3. RecordsInStep
    BY DEF Init, RecordsInStep, ApplySteps, ClearSteps
  <2>4. OriginalsDurable /\ Recoverable
    BY DEF Init, OriginalsDurable, Recoverable
  <2>5. QED BY <2>1, <2>2, <2>3, <2>4 DEF IInv
<1>2. IInv /\ [Next]_vars => IInv'
  <2> SUFFICES ASSUME Typed, FaultsTyped, Safe, [Next]_vars
               PROVE  Typed' /\ FaultsTyped' /\ Safe'
    BY IInvSplit DEF Safe, IInv, TypeOK, Control, RecordsSound, FilesSound, RecSound, Typed,
                     FilesTyped, SessionTyped, FaultsTyped
  <2>1. Typed'
    BY FilesTypedStep, SessionTypedStep DEF Typed
  <2>2. FaultsTyped'
    BY FaultsTypedStep
  <2>3. Safe'
    BY SafeStep
  <2>4. QED BY <2>1, <2>2, <2>3
<1>3. QED BY <1>1, <1>2, PTL DEF Spec

(* What is found in a source file, now or after a power loss, is what the  *)
(* human last saved or a mutant that recovery can undo.                    *)
THEOREM AlwaysRecoverable ==
  ASSUME EditsAvoidTool, RestoreIsDurable
  PROVE  Spec => []Recoverable
<1>1. IInv => Recoverable
  BY DEF IInv
<1>2. QED BY <1>1, Invariance, PTL

(* An analysis that got past the pending check reads the human's sources.  *)
THEOREM ReadersAreSafe ==
  ASSUME EditsAvoidTool, RestoreIsDurable
  PROVE  Spec => []ReadersSeeHumanSource
<1>1. IInv => ReadersSeeHumanSource
  BY IInvSplit, Pristine DEF RecordsInStep, Typed, ReadersSeeHumanSource
<1>2. QED BY <1>1, Invariance, PTL

-----------------------------------------------------------------------------
(* Refinement. *)

Readers == {p \in Proc : reader[p] = "reading"}

(* The step of the rename that mutates maps to Mutate, that of the rename  *)
(* that puts back to Restore, the pending check that succeeds to BeginRead *)
(* and a power loss to PowerFailure.                                       *)
LEMMA CustodyStep ==
  ASSUME IInv, [Next]_vars
  PROVE  [Custody!Next]_(Custody!vars)
<1> USE DEF Custody!vars
<1>0. Typed /\ Safe
  BY IInvSplit DEF Safe
<1>1. CASE UNCHANGED <<human, src, reader>>
  BY <1>1
<1>2. CASE PutBack
  <2>1. rec \in Pointer /\ rec.orig = human[rec.file] /\ \A p \in Proc : reader[p] = "idle"
    BY <1>0, <1>2 DEF PutBack, Typed, SessionTyped, Control, Safe, RecordsInStep
  <2>2. rec.file \in File /\ Readers = {}
    BY <2>1 DEF Pointer, Readers
  <2>3. Custody!Restore(rec.file) /\ reader' = reader
    BY <1>2, <2>1, <2>2 DEF PutBack, Custody!Restore, Readers
  <2>4. QED BY <2>2, <2>3 DEF Custody!Next
<1>3. CASE ReplaceSource
  <2>1. /\ rec \in Pointer /\ rec.mut \in Mutants[rec.orig] /\ rec.orig = human[rec.file]
        /\ pointer = rec /\ src[rec.file] = human[rec.file]
        /\ \A p \in Proc : reader[p] = "idle"
    BY <1>0, <1>3, NoneFresh
       DEF ReplaceSource, Typed, SessionTyped, Control, Safe, RecordsInStep, RecSound,
           Distinguishes, ReplaceSteps, ApplySteps
  <2>2. /\ rec.file \in File /\ rec.mut \in Content /\ human[rec.file] \in Content
        /\ Readers = {}
    BY <2>1 DEF Pointer, Readers
  <2>3. \A g \in File : src[g] = human[g]
    BY <1>0, <2>1, OthersPristine DEF Safe
  <2>4. rec.mut \in Custody!MutantsOf(human[rec.file])
    BY <2>1, <2>2, ConstantsOK DEF ConstantsOK, Custody!MutantsOf
  <2>5. Custody!Mutate(rec.file, rec.mut)
    BY <1>3, <2>2, <2>3, <2>4
       DEF ReplaceSource, Custody!Mutate, Custody!Untouched, Readers
  <2>6. QED BY <2>2, <2>5 DEF Custody!Next
<1>4. CASE \E f \in File, c \in Saved : Edit(f, c)
  <2> PICK f \in File, c \in Saved : Edit(f, c)
    BY <1>4
  <2>1. Custody!Edit(f, c) /\ c \in Custody!Saved
    BY DEF Edit, Custody!Edit, Saved, Custody!Saved
  <2>2. QED BY <2>1 DEF Custody!Next
<1>5. CASE \E p \in Proc : BeginRead(p) \/ ReaderStep(p) \/ CrashReader(p)
  <2> PICK p \in Proc : BeginRead(p) \/ ReaderStep(p) \/ CrashReader(p)
    BY <1>5
  <2>1. UNCHANGED <<human, src>> /\ Readers' \in {Readers, Readers \ {p}, Readers \cup {p}}
    BY <1>0 DEF BeginRead, ReaderStep, CheckPending, EndRead, CrashReader, Typed, SessionTyped,
                Readers, cached
  <2>2. CASE Readers' \in {Readers, Readers \ {p}}
    <3>1. Custody!EndRead(p) \/ UNCHANGED Custody!vars
      BY <2>1, <2>2 DEF Custody!EndRead, Readers
    <3>2. QED BY <3>1 DEF Custody!Next
  <2>3. CASE Readers' \notin {Readers, Readers \ {p}}
    <3>1. pointer = None
      BY <1>0, <2>3 DEF BeginRead, ReaderStep, CheckPending, EndRead, CrashReader, Typed,
                        SessionTyped, Readers
    <3>2. \A f \in File : src[f] = human[f]
      BY <1>0, <3>1, Pristine DEF Typed, Safe
    <3>3. Custody!BeginRead(p)
      BY <2>1, <2>3, <3>2 DEF Custody!BeginRead, Custody!Untouched, Readers
    <3>4. QED BY <3>3 DEF Custody!Next
  <2>4. QED BY <2>2, <2>3
<1>6. CASE PowerLoss
  <2>1. src' = srcDisk /\ human' = human /\ Readers' = {}
    BY <1>6 DEF PowerLoss, durable, Readers
  <2>2. CASE srcDisk = human
    <3>1. Custody!PowerFailure
      BY <2>1, <2>2 DEF Custody!PowerFailure, Readers
    <3>2. QED BY <3>1 DEF Custody!Next
  <2>3. CASE srcDisk # human
    <3>1. PICK f \in File : srcDisk[f] # human[f]
      BY <1>0, <2>3 DEF Typed, FilesTyped
    <3>2. Covered(f, srcDisk[f])
      BY <1>0, <3>1 DEF Safe, Recoverable
    <3>3. /\ srcDisk[f] \in Content /\ human[f] \in Content
          /\ srcDisk[f] \in Mutants[human[f]]
      BY <1>0, <3>2 DEF Covered, Typed, FilesTyped, Pointer, Safe, FilesSound, Distinguishes
    <3>4. \A g \in File : g # f => srcDisk[g] = human[g]
      BY <1>0, <3>2, OthersPristine DEF Covered, Safe
    <3>5. srcDisk = [human EXCEPT ![f] = srcDisk[f]]
      BY <1>0, <3>4 DEF Typed, FilesTyped
    <3>6. srcDisk[f] \in Custody!MutantsOf(human[f])
      BY <3>3, ConstantsOK DEF ConstantsOK, Custody!MutantsOf
    <3>7. Custody!PowerFailure
      BY <2>1, <3>3, <3>5, <3>6 DEF Custody!PowerFailure, Readers
    <3>8. QED BY <3>7 DEF Custody!Next
  <2>4. QED BY <2>2, <2>3
<1>7. CASE \/ \E p \in Proc, r \in Root : BeginSession(p, r, "run") \/ BeginSession(p, r, "command")
           \/ Recovery \/ SyncPutBack \/ RemovePointer \/ SyncPointerRemoval
           \/ RemoveJournal \/ SyncJournalRemoval
           \/ \E f \in File, m \in Content : LoadSource(f, m)
           \/ WriteJournal \/ SyncJournal \/ WritePointer \/ SyncPointer \/ SyncSource
           \/ TestsEnd \/ Restore \/ FinishRun \/ IoError \/ CrashSession \/ WriteBack
           \/ UNCHANGED vars
  <2>1. UNCHANGED <<human, src, reader>>
    BY <1>7
       DEF BeginSession, Recovery, RecoverPointed, RecoverOwn, NothingToRecover, RecoveryRefused,
           SyncPutBack, RemovePointer, SyncPointerRemoval, RemoveJournal, SyncJournalRemoval,
           LoadSource, WriteJournal, SyncJournal, WritePointer, SyncPointer, SyncSource,
           TestsEnd, Restore, FinishRun, IoError, CrashSession, WriteBack, WriteBackSource,
           WriteBackJournal, WriteBackPointer, vars, cached
  <2>2. QED BY <1>1, <2>1
<1>8. CASE SessionStep
  BY <1>2, <1>3, <1>7, <1>8 DEF SessionStep, Clearing, Applying
<1>9. CASE Environment
  BY <1>4, <1>5, <1>6, <1>7, <1>9 DEF Environment
<1>10. QED BY <1>5, <1>7, <1>8, <1>9 DEF Next

(* The whole implements SourceCustody. *)
THEOREM KeepsCustody ==
  ASSUME EditsAvoidTool, RestoreIsDurable
  PROVE  Spec => ImplementsCustody
<1>1. Init => Custody!Init
  BY DEF Init, Custody!Init
<1>2. IInv /\ [Next]_vars => [Custody!Next]_(Custody!vars)
  BY CustodyStep
<1>3. QED BY <1>1, <1>2, Invariance, PTL DEF Spec, ImplementsCustody, Custody!Spec

-----------------------------------------------------------------------------
(* What holds without any assumption on the human and on accidents. *)

(* Where the pointer is, and whose records the session works on.           *)
PointerInStep ==
  /\ step \in {"ready", "recoverOwn", "writeJournal", "syncJournal", "writePointer",
               "syncPointerDir", "removeJournal", "syncJournalDir"} => pointer = None
  /\ step \in {"syncSource", "testing", "restore"} \cup ClearSteps => pointer \in {None, rec}
  /\ step \in {"syncPointer", "replaceSource"} => pointer = rec
  /\ step \in {"putBack", "syncPutBack"} => ctx.pointed \/ pointer = None

InItsTree == rec # None => RootsOverlap(ctx.root, rec.root)

Where == PointerInStep /\ InItsTree

LEMMA OverlapsItself == \A r \in Root : RootsOverlap(r, r)
  BY DEF RootsOverlap

(* Without a record, and without a pointer where there is none, ... *)
LEMMA WhereUnrecorded ==
  ASSUME rec' = None, step' \in {"idle", "recover"} \/ (step' \in {"ready", "recoverOwn"} /\ pointer' = None)
  PROVE  Where'
  BY DEF Where, PointerInStep, InItsTree, ClearSteps

(* ... after a failure, ... *)
LEMMA WhereFailed ==
  ASSUME Typed, Where, step \in IoSteps, Failed, UNCHANGED pointer
  PROVE  Where'
<1>1. CASE rec' = None /\ step' \in {"idle", "recover"}
  BY <1>1, WhereUnrecorded
<1>2. CASE /\ step \notin ReplaceSteps /\ ctx.job = "guard"
           /\ step' = "restore" /\ ctx' = [ctx EXCEPT !.retried = TRUE] /\ UNCHANGED <<holder, rec>>
  <2>1. step \in ClearSteps \cup {"restore"} /\ ctx'.root = ctx.root
    BY <1>2 DEF Typed, SessionTyped, Control, IoSteps, ApplySteps, ReplaceSteps, Context
  <2>2. QED
    BY <1>2, <2>1 DEF Where, PointerInStep, InItsTree, ClearSteps
<1>3. QED BY <1>1, <1>2 DEF Failed, EndSession

(* ... and when the records are cleared. *)
LEMMA WhereCleared ==
  ASSUME Cleared, pointer' = None
  PROVE  Where'
  BY WhereUnrecorded DEF Cleared, Leave, EndSession

LEMMA WhereKept ==
  ASSUME Where, UNCHANGED <<pointer, step, ctx, rec>>
  PROVE  Where'
  BY DEF Where, PointerInStep, InItsTree

LEMMA WhereStep ==
  ASSUME Typed, Where, [Next]_vars
  PROVE  Where'
<1> USE DEF Where
<1>1. CASE \E p \in Proc, r \in Root, j \in {"run", "command"} : BeginSession(p, r, j)
  <2>1. step = "idle" /\ rec = None /\ rec' = None /\ step' = "recover"
    BY <1>1 DEF BeginSession, Unlocked, Typed, SessionTyped, Control
  <2>2. QED BY <2>1, WhereUnrecorded
<1>2. CASE FinishRun \/ CrashSession \/ PowerLoss
  BY <1>2, WhereUnrecorded DEF FinishRun, CrashSession, PowerLoss, EndSession
<1>3. CASE RecoverPointed
  <2>1. RootsOverlap(ctx.root, pointer.root) /\ ctx'.root = ctx.root /\ ctx'.pointed
    BY <1>3 DEF RecoverPointed, PointerRefused, PointerUsable, Typed, SessionTyped, Control, Context
  <2>2. QED
    BY <1>3, <2>1 DEF RecoverPointed, PointerInStep, InItsTree, ClearSteps, cached
<1>4. CASE RecoverOwn
  <2>1. pointer = None /\ pointer' = None /\ step' \in {"removeJournal", "putBack"}
    BY <1>4 DEF RecoverOwn, AtOwnJournal, PointerInStep, cached
  <2>2. rec'.root = ctx.root /\ ctx'.root = ctx.root /\ ctx.root \in Root
    BY <1>4 DEF RecoverOwn, AtOwnJournal, PointerTo, Typed, SessionTyped, Control, Context
  <2>3. QED
    BY <2>1, <2>2, OverlapsItself DEF PointerInStep, InItsTree, RootsOverlap
<1>5. CASE NothingToRecover
  <2>1. pointer' = None /\ rec' = None /\ step' \in {"ready", "idle"}
    BY <1>5 DEF NothingToRecover, AtOwnJournal, PointerInStep, Leave, EndSession, cached
  <2>2. QED BY <2>1, WhereUnrecorded
<1>6. CASE RecoveryRefused \/ IoError
  BY <1>6, WhereFailed DEF RecoveryRefused, AtOwnJournal, IoError, IoSteps, cached
<1>7. CASE PutBack \/ SyncPutBack
  <2>1. UNCHANGED <<pointer, ctx, rec>> /\ step' \in {"syncPutBack", "removePointer", "removeJournal"}
    BY <1>7 DEF PutBack, SyncPutBack, Goto, cached
  <2>2. step' = "removeJournal" => pointer = None
    BY <1>7 DEF PutBack, SyncPutBack, Goto, PointerInStep
  <2>3. QED BY <1>7, <2>1, <2>2 DEF PutBack, SyncPutBack, PointerInStep, InItsTree, ClearSteps
<1>8. CASE RemovePointer \/ SyncPointerRemoval
  <2>1. pointer' = None
    BY <1>8 DEF RemovePointer, SyncPointerRemoval, PointerInStep, cached
  <2>2. CASE Cleared
    BY <2>1, <2>2, WhereCleared
  <2>3. CASE Goto("syncPointerDir") \/ Goto("removeJournal")
    BY <2>1, <2>3 DEF Goto, PointerInStep, InItsTree
  <2>4. QED BY <1>8, <2>2, <2>3 DEF RemovePointer, SyncPointerRemoval, AfterPointer
<1>9. CASE RemoveJournal \/ SyncJournalRemoval
  <2>1. pointer' = None
    BY <1>9 DEF RemoveJournal, SyncJournalRemoval, PointerInStep, cached
  <2>2. CASE Cleared
    BY <2>1, <2>2, WhereCleared
  <2>3. CASE Goto("syncJournalDir")
    BY <2>1, <2>3 DEF Goto, PointerInStep, InItsTree
  <2>4. QED BY <1>9, <2>2, <2>3 DEF RemoveJournal, SyncJournalRemoval
<1>10. CASE \E f \in File, m \in Content : LoadSource(f, m)
  <2>1. pointer = None /\ pointer' = None /\ step' = "writeJournal"
    BY <1>10 DEF LoadSource, PointerInStep, cached
  <2>2. rec'.root = ctx.root /\ ctx'.root = ctx.root /\ ctx.root \in Root
    BY <1>10 DEF LoadSource, Typed, SessionTyped, Control, Context
  <2>3. QED
    BY <2>1, <2>2, OverlapsItself DEF PointerInStep, InItsTree, RootsOverlap
<1>11. CASE WriteJournal \/ SyncJournal \/ WritePointer \/ SyncPointer \/ ReplaceSource
  <2>1. CASE EndSession
    BY <2>1, WhereUnrecorded DEF EndSession
  <2>2. CASE WriteJournal \/ SyncJournal
    BY <2>1, <2>2 DEF WriteJournal, SyncJournal, Goto, PointerInStep, InItsTree, cached
  <2>3. CASE WritePointer \/ SyncPointer \/ ReplaceSource
    BY <2>1, <2>3 DEF WritePointer, SyncPointer, ReplaceSource, Goto, PointerInStep, InItsTree,
                      cached, ClearSteps
  <2>4. QED BY <1>11, <2>2, <2>3
<1>12. CASE SyncSource
  BY <1>12 DEF SyncSource, PointerInStep, InItsTree, cached, ClearSteps, Typed, SessionTyped, Control,
               Context
<1>13. CASE TestsEnd
  BY <1>13 DEF TestsEnd, Goto, PointerInStep, InItsTree, cached, ClearSteps
<1>14. CASE Restore
  <2>1. CASE Failed
    BY <1>14, <2>1, WhereFailed DEF Restore, IoSteps, cached
  <2>2. CASE Goto("removePointer") \/ Goto("putBack")
    <3>1. ctx.pointed /\ step = "restore" /\ UNCHANGED pointer
      BY <1>14 DEF Restore, Typed, SessionTyped, Control, cached
    <3>2. QED BY <2>2, <3>1 DEF Goto, PointerInStep, InItsTree, ClearSteps
  <2>3. QED BY <1>14, <2>1, <2>2 DEF Restore
<1>15. CASE \/ \E p \in Proc : BeginRead(p) \/ ReaderStep(p) \/ CrashReader(p)
            \/ \E f \in File, c \in Saved : Edit(f, c)
            \/ WriteBack \/ UNCHANGED vars
  <2>1. UNCHANGED <<pointer, step, ctx, rec>>
    BY <1>15 DEF BeginRead, ReaderStep, CheckPending, EndRead, CrashReader, Edit, WriteBack,
                 WriteBackSource, WriteBackJournal, WriteBackPointer, vars, cached, session
  <2>2. QED BY <2>1, WhereKept
<1>16. QED
  BY <1>1, <1>2, <1>3, <1>4, <1>5, <1>6, <1>7, <1>8, <1>9, <1>10, <1>11, <1>12, <1>13, <1>14,
     <1>15
     DEF Next, SessionStep, Recovery, Clearing, Applying, Environment

(* The invariant that needs no assumption on the environment. *)
LEMMA WhereInvariant == Spec => [](Typed /\ Where)
<1>1. Init => Where
  BY DEF Init, Where, PointerInStep, InItsTree, ClearSteps
<1>2. TypeOK /\ Control => Typed
  BY TypesSplit DEF Typed
<1>3. Typed /\ Where /\ [Next]_vars => Where'
  BY WhereStep
<1>4. QED BY <1>1, <1>2, <1>3, TypeCorrect, PTL DEF Spec

(* A session changes the records of no unrelated root, wherever the global *)
(* pointer leads, and whatever is edited, crashes or fails.                *)
THEOREM NeverLeavesItsTree == Spec => StaysInItsTree
<1>1. Typed /\ Where /\ [Next]_vars =>
        [SessionStep =>
           /\ \A r \in Root : journal'[r] # journal[r] => RootsOverlap(ctx.root, r)
           /\ pointer # None /\ pointer' # pointer => RootsOverlap(ctx.root, pointer.root)]_vars
  <2> SUFFICES ASSUME Typed, Where, SessionStep
               PROVE  /\ \A r \in Root : journal'[r] # journal[r] => RootsOverlap(ctx.root, r)
                      /\ pointer # None /\ pointer' # pointer => RootsOverlap(ctx.root, pointer.root)
    OBVIOUS
  <2>1. CASE WriteJournal \/ RemoveJournal
    <3>1. RootsOverlap(ctx.root, rec.root) /\ pointer' = pointer
      BY <2>1 DEF WriteJournal, RemoveJournal, Typed, SessionTyped, Control, Where, InItsTree,
                  ApplySteps, ReplaceSteps
    <3>2. \A r \in Root : journal'[r] # journal[r] => r = rec.root
      BY <2>1 DEF WriteJournal, RemoveJournal, Typed, FilesTyped
    <3>3. QED BY <3>1, <3>2
  <2>2. CASE RemovePointer
    <3>1. rec # None /\ pointer \in {None, rec} /\ RootsOverlap(ctx.root, rec.root)
      BY <2>2 DEF RemovePointer, Typed, SessionTyped, Control, Where, PointerInStep, InItsTree,
                  ClearSteps
    <3>2. QED BY <2>2, <3>1 DEF RemovePointer
  <2>3. CASE WritePointer
    BY <2>3 DEF WritePointer, Where, PointerInStep
  <2>4. CASE ~(WriteJournal \/ RemoveJournal \/ RemovePointer \/ WritePointer)
    <3>1. UNCHANGED <<journal, pointer>>
      BY <2>4
         DEF SessionStep, Recovery, RecoverPointed, RecoverOwn, NothingToRecover, RecoveryRefused,
             Clearing, PutBack, SyncPutBack, SyncPointerRemoval, SyncJournalRemoval,
             Applying, LoadSource, SyncJournal, SyncPointer, ReplaceSource, SyncSource,
             TestsEnd, Restore, FinishRun, cached
    <3>2. QED BY <3>1
  <2>5. QED BY <2>1, <2>2, <2>3, <2>4
<1>2. QED BY <1>1, WhereInvariant, PTL DEF Spec, StaysInItsTree

-----------------------------------------------------------------------------
(* Without edits. *)

Original(R) == R.orig = human[R.file]

(* Every record that processes see holds the human's work as the original, *)
(* the pointer leads to a journal that agrees with it, and only the file   *)
(* of the pointer may hold a mutant, its own.                              *)
Consistent ==
  /\ \A r \in Root : journal[r] # None => Original(journal[r])
  /\ pointer # None => Original(pointer) /\ journal[pointer.root] = JournalOf(pointer)
  /\ rec # None => Original(rec)
  /\ \A f \in File : src[f] = human[f] \/ (pointer # None /\ pointer.file = f /\ pointer.mut = src[f])

ConsistentStep ==
  /\ step \in {"syncJournal", "writePointer", "syncPointer", "replaceSource"}
       => journal[rec.root] = JournalOf(rec)
  /\ step = "syncPutBack" => src[rec.file] = human[rec.file]
  /\ step = "removePointer" => src = human

Undisturbed == edits = 0 /\ losses = 0 => Consistent /\ ConsistentStep

(* A step that touches no file, to a step that says nothing of the files.  *)
LEMMA ConsistentKept ==
  ASSUME Consistent, UNCHANGED <<human, src, journal, pointer>>, rec' \in {rec, None},
         step' \notin {"syncJournal", "writePointer", "syncPointer", "replaceSource",
                       "syncPutBack", "removePointer"}
  PROVE  Consistent' /\ ConsistentStep'
  BY DEF Consistent, ConsistentStep, Original, JournalOf

LEMMA ConsistentFailed ==
  ASSUME Consistent, UNCHANGED <<human, src, journal, pointer>>, Failed
  PROVE  Consistent' /\ ConsistentStep'
<1>1. rec' \in {rec, None} /\ step' \in {"recover", "restore", "idle"}
  BY DEF Failed, EndSession
<1>2. QED BY <1>1, ConsistentKept

LEMMA UndisturbedStep ==
  ASSUME Typed, Where, Consistent, ConsistentStep, [Next]_vars, edits' = 0, losses' = 0,
         edits = 0, losses = 0
  PROVE  Consistent' /\ ConsistentStep'
<1> USE DEF Where
<1>1. CASE \/ \E p \in Proc, r \in Root, j \in {"run", "command"} : BeginSession(p, r, j)
           \/ NothingToRecover \/ TestsEnd \/ FinishRun \/ CrashSession \/ SyncSource
  <2>1. /\ UNCHANGED <<human, src, journal, pointer>> /\ rec' \in {rec, None}
        /\ step' \in {"recover", "idle", "ready", "restore", "testing"}
    BY <1>1 DEF BeginSession, NothingToRecover, TestsEnd, FinishRun, CrashSession, SyncSource, Goto,
                Leave, EndSession, cached
  <2>2. QED BY <2>1, ConsistentKept
<1>2. CASE RecoveryRefused \/ IoError
  BY <1>2, ConsistentFailed DEF RecoveryRefused, IoError, cached
<1>3. CASE RecoverPointed
  <2>1. /\ pointer # None /\ rec' = pointer /\ UNCHANGED <<human, src, journal, pointer>>
        /\ step' = IF HoldsOriginal(pointer) THEN "removePointer" ELSE "putBack"
    BY <1>3 DEF RecoverPointed, cached
  <2>2. HoldsOriginal(pointer) => src = human
    <3>1. pointer.file \in File /\ Original(pointer)
      BY <2>1 DEF Consistent, Typed, FilesTyped, Pointer
    <3>2. HoldsOriginal(pointer) => \A f \in File : src[f] = human[f]
      BY <3>1 DEF Consistent, HoldsOriginal, Original
    <3>3. QED BY <3>2 DEF Typed, FilesTyped
  <2>3. QED BY <2>1, <2>2 DEF Consistent, ConsistentStep, Original, JournalOf
<1>4. CASE RecoverOwn
  <2>1. /\ UNCHANGED <<human, src, journal, pointer>> /\ step' \in {"removeJournal", "putBack"}
        /\ journal[ctx.root] # None /\ ctx.root \in Root /\ rec' = PointerTo(ctx.root, journal[ctx.root])
    BY <1>4 DEF RecoverOwn, AtOwnJournal, Typed, SessionTyped, Control, Context, cached
  <2>2. Original(rec)'
    BY <2>1 DEF Consistent, Original, PointerTo
  <2>3. QED BY <2>1, <2>2 DEF Consistent, ConsistentStep, Original, JournalOf
<1>5. CASE PutBack
  <2>1. /\ rec \in Pointer /\ Original(rec) /\ pointer \in {None, rec} /\ rec # None
    BY <1>5, NoneFresh DEF PutBack, Consistent, PointerInStep, ClearSteps, Typed, SessionTyped, Control,
                ApplySteps, ReplaceSteps
  <2>2. /\ UNCHANGED <<human, journal, pointer, rec>> /\ step' = "syncPutBack"
        /\ rec.file \in File
        /\ \A f \in File : src'[f] = IF f = rec.file THEN human[f] ELSE src[f]
    BY <1>5, <2>1 DEF PutBack, Goto, Typed, FilesTyped, Pointer, Original
  <2>3. QED BY <2>1, <2>2 DEF Consistent, ConsistentStep, Original, JournalOf
<1>6. CASE SyncPutBack
  <2>1. /\ pointer \in {None, rec} /\ src[rec.file] = human[rec.file]
    BY <1>6 DEF SyncPutBack, ConsistentStep, PointerInStep, ClearSteps
  <2>2. \A f \in File : src[f] = human[f]
    BY <2>1 DEF Consistent
  <2>3. src = human
    BY <2>2 DEF Typed, FilesTyped
  <2>4. UNCHANGED <<human, src, journal, pointer, rec>> /\ step' \in {"removePointer", "removeJournal"}
    BY <1>6 DEF SyncPutBack, Goto, cached
  <2>5. QED BY <2>3, <2>4 DEF Consistent, ConsistentStep, Original, JournalOf
<1>7. CASE RemovePointer
  <2>1. /\ src = human /\ pointer' = None /\ UNCHANGED <<human, src, journal>>
        /\ rec' \in {rec, None}
        /\ step' \in {"syncPointerDir", "removeJournal", "recoverOwn", "ready", "idle"}
    BY <1>7 DEF RemovePointer, ConsistentStep, AfterPointer, Cleared, Goto, Leave, EndSession
  <2>2. QED BY <2>1 DEF Consistent, ConsistentStep, Original
<1>8. CASE SyncPointerRemoval \/ SyncJournalRemoval
  <2>1. /\ UNCHANGED <<human, src, journal, pointer>> /\ rec' \in {rec, None}
        /\ step' \in {"removeJournal", "recoverOwn", "ready", "idle"}
    BY <1>8 DEF SyncPointerRemoval, SyncJournalRemoval, AfterPointer, Cleared, Goto, Leave, EndSession,
                cached
  <2>2. QED BY <2>1, ConsistentKept
<1>9. CASE RemoveJournal
  <2>1. /\ UNCHANGED <<human, src, pointer>> /\ pointer = None /\ rec' \in {rec, None}
        /\ step' \in {"syncJournalDir", "recoverOwn", "ready", "idle"}
    BY <1>9 DEF RemoveJournal, PointerInStep, Cleared, Goto, Leave, EndSession
  <2>2. \A r \in Root : journal'[r] \in {journal[r], None}
    BY <1>9 DEF RemoveJournal, Typed, FilesTyped
  <2>3. QED BY <2>1, <2>2 DEF Consistent, ConsistentStep, Original
<1>10. CASE \E f \in File, m \in Content : LoadSource(f, m)
  <2> PICK f \in File, m \in Content : LoadSource(f, m)
    BY <1>10
  <2>1. pointer = None /\ UNCHANGED <<human, src, journal, pointer>> /\ step' = "writeJournal"
    BY DEF LoadSource, PointerInStep, cached
  <2>2. rec'.file = f /\ rec'.orig = human[f]
    BY <2>1 DEF LoadSource, Consistent
  <2>3. QED BY <2>1, <2>2 DEF Consistent, ConsistentStep, Original
<1>11. CASE WriteJournal
  <2>1. pointer = None /\ UNCHANGED <<human, src, pointer>> /\ rec \in Pointer /\ Original(rec)
    BY <1>11, NoneFresh DEF WriteJournal, PointerInStep, Consistent, Typed, SessionTyped, Control, ApplySteps
  <2>2. CASE EndSession /\ UNCHANGED journal
    BY <2>1, <2>2, ConsistentKept DEF EndSession
  <2>3. CASE journal' = [journal EXCEPT ![rec.root] = JournalOf(rec)] /\ Goto("syncJournal")
    <3>1. /\ \A r \in Root : journal'[r] = IF r = rec.root THEN JournalOf(rec) ELSE journal[r]
          /\ rec.root \in Root /\ rec' = rec /\ step' = "syncJournal"
      BY <2>1, <2>3 DEF Typed, FilesTyped, Pointer, Goto
    <3>2. QED BY <2>1, <3>1 DEF Consistent, ConsistentStep, Original, JournalOf
  <2>4. QED BY <1>11, <2>2, <2>3 DEF WriteJournal
<1>12. CASE SyncJournal \/ SyncPointer
  BY <1>12 DEF SyncJournal, SyncPointer, Goto, Consistent, ConsistentStep, Original, JournalOf, cached
<1>13. CASE WritePointer
  <2>1. /\ pointer = None /\ UNCHANGED <<human, src, journal>> /\ rec # None
        /\ journal[rec.root] = JournalOf(rec)
    BY <1>13 DEF WritePointer, PointerInStep, ConsistentStep, Typed, SessionTyped, Control, ApplySteps
  <2>2. pointer' = rec /\ rec' = rec /\ step' = "syncPointer"
    BY <1>13, <2>1 DEF WritePointer, Goto
  <2>3. QED BY <2>1, <2>2 DEF Consistent, ConsistentStep, Original, JournalOf
<1>14. CASE ReplaceSource
  <2>1. /\ rec \in Pointer /\ pointer = rec /\ rec # None
        /\ UNCHANGED <<human, journal, pointer, rec>> /\ step' = "syncSource"
    BY <1>14, NoneFresh DEF ReplaceSource, Goto, PointerInStep, Typed, SessionTyped, Control, ReplaceSteps
  <2>2. \A f \in File : src'[f] = IF f = rec.file THEN rec.mut ELSE src[f]
    BY <1>14 DEF ReplaceSource, Typed, FilesTyped
  <2>3. QED BY <2>1, <2>2 DEF Consistent, ConsistentStep, Original, JournalOf
<1>15. CASE Restore
  <2>1. UNCHANGED <<human, src, journal, pointer>> /\ pointer \in {None, rec} /\ rec # None
    BY <1>15 DEF Restore, PointerInStep, Typed, SessionTyped, Control, cached
  <2>2. CASE Failed
    BY <2>1, <2>2, ConsistentFailed
  <2>3. CASE HoldsOriginal(rec) /\ Goto("removePointer")
    <3>1. \A f \in File : src[f] = human[f]
      BY <2>1, <2>3 DEF Consistent, HoldsOriginal, Original
    <3>2. src = human
      BY <3>1 DEF Typed, FilesTyped
    <3>3. QED BY <2>1, <2>3, <3>2 DEF Goto, Consistent, ConsistentStep, Original, JournalOf
  <2>4. CASE Goto("putBack")
    BY <2>1, <2>4, ConsistentKept DEF Goto
  <2>5. QED BY <1>15, <2>2, <2>3, <2>4 DEF Restore
<1>16. CASE \/ \E p \in Proc : BeginRead(p) \/ ReaderStep(p) \/ CrashReader(p)
            \/ WriteBack \/ UNCHANGED vars
  <2>1. UNCHANGED <<human, src, journal, pointer, step, ctx, rec>>
    BY <1>16 DEF BeginRead, ReaderStep, CheckPending, EndRead, CrashReader, WriteBack,
                 WriteBackSource, WriteBackJournal, WriteBackPointer, vars, cached, session
  <2>2. QED BY <2>1 DEF Consistent, ConsistentStep, Original, JournalOf
<1>17. CASE PowerLoss \/ \E f \in File, c \in Saved : Edit(f, c)
  BY <1>17 DEF PowerLoss, Edit
<1>18. QED
  BY <1>1, <1>2, <1>3, <1>4, <1>5, <1>6, <1>7, <1>8, <1>9, <1>10, <1>11, <1>12, <1>13, <1>14,
     <1>15, <1>16, <1>17
     DEF Next, SessionStep, Recovery, Clearing, Applying, Environment

(* As long as nothing was edited and no power was lost, recovery never     *)
(* asks for manual repair, however often processes die and system calls    *)
(* fail: it refuses only to work for an unrelated root.                    *)
THEOREM NeverRefusesUndisturbed == Spec => []RefusesOnlyAfterEdits
<1>1. Init => Undisturbed
  BY DEF Init, Undisturbed, Consistent, ConsistentStep
<1>2. Typed /\ Where /\ FaultsTyped /\ Undisturbed /\ [Next]_vars => Undisturbed'
  <2>1. FaultsTyped /\ [Next]_vars /\ edits' = 0 /\ losses' = 0 => edits = 0 /\ losses = 0
    <3>1. CASE (\E f \in File, c \in Saved : Edit(f, c)) \/ PowerLoss
      BY <3>1 DEF Edit, PowerLoss, FaultsTyped
    <3>2. CASE ~((\E f \in File, c \in Saved : Edit(f, c)) \/ PowerLoss)
      BY <3>2
         DEF Next, BeginSession, SessionStep, Recovery, RecoverPointed, RecoverOwn, NothingToRecover,
             RecoveryRefused, Clearing, PutBack, SyncPutBack, RemovePointer, SyncPointerRemoval,
             RemoveJournal, SyncJournalRemoval, Applying, LoadSource, WriteJournal, SyncJournal,
             WritePointer, SyncPointer, ReplaceSource, SyncSource, TestsEnd, Restore, FinishRun,
             BeginRead, ReaderStep, CheckPending, EndRead, Environment, IoError, CrashSession,
             CrashReader, WriteBack, WriteBackSource, WriteBackJournal, WriteBackPointer, vars,
             faults
    <3>3. QED BY <3>1, <3>2
  <2>2. QED BY <2>1, UndisturbedStep DEF Undisturbed
<1>3. Typed /\ Where /\ Undisturbed => RefusesOnlyAfterEdits
  <2> SUFFICES ASSUME Typed, Where, Consistent
               PROVE  /\ step = "recover" /\ pointer # None /\ PointerRefused
                           => ~RootsOverlap(ctx.root, pointer.root)
                      /\ AtOwnJournal => ~OwnRefused
                      /\ step = "restore" => HoldsOriginal(rec) \/ HoldsMutant(rec)
    BY DEF Undisturbed, RefusesOnlyAfterEdits
  <2>1. ASSUME pointer # None PROVE HoldsOriginal(pointer) \/ HoldsMutant(pointer)
    BY <2>1 DEF Consistent, Original, HoldsOriginal, HoldsMutant, Typed, FilesTyped, Pointer
  <2>2. ASSUME step = "recover", pointer # None, PointerRefused
        PROVE  ~RootsOverlap(ctx.root, pointer.root)
    <3>1. JournalOfPointer = JournalOf(pointer)
      BY <2>2 DEF Consistent, JournalOfPointer
    <3>2. JournalOf(pointer) \in Journal
      BY <2>2 DEF Typed, FilesTyped, Pointer, Journal, JournalOf
    <3>3. QED BY <2>1, <2>2, <3>1, <3>2, NoneFresh DEF PointerRefused, PointerUsable
  <2>3. ASSUME AtOwnJournal PROVE ~OwnRefused
    <3>1. pointer = None /\ ctx.root \in Root
      BY <2>3 DEF AtOwnJournal, Where, PointerInStep, Typed, SessionTyped, Control, Context
    <3>2. \A J \in Journal : J.file \in File
      BY DEF Journal
    <3>3. journal[ctx.root] # None => HoldsOriginal(journal[ctx.root])
      BY <3>1, <3>2 DEF Consistent, Original, HoldsOriginal, Typed, FilesTyped
    <3>4. QED BY <3>3 DEF OwnRefused
  <2>4. ASSUME step = "restore" PROVE HoldsOriginal(rec) \/ HoldsMutant(rec)
    <3>1. rec # None /\ rec \in Pointer /\ rec.file \in File /\ pointer \in {None, rec}
      BY <2>4 DEF Where, PointerInStep, Typed, SessionTyped, Control, Pointer
    <3>2. QED BY <2>1, <3>1 DEF Consistent, Original, HoldsOriginal
  <2>5. QED BY <2>2, <2>3, <2>4
<1>4. TypeOK /\ Control => FaultsTyped
  BY TypesSplit
<1>5. QED BY <1>1, <1>2, <1>3, <1>4, TypeCorrect, WhereInvariant, PTL DEF Spec
=============================================================================
