-------------------------- MODULE MutationRecovery --------------------------
(***************************************************************************)
(* How reporigor replaces a source file by a mutant, puts the original     *)
(* back, and recovers after a crash (crates/analysis-mutate, filesystem.rs *)
(* and the sessions of executor.rs).                                       *)
(*                                                                         *)
(* Every action is one operation on the file system: a rename, an unlink,  *)
(* the synchronization of a directory, or a read and the decision taken on *)
(* it.  The file system is a cache over a disk: processes see the cache, a *)
(* power loss leaves the disk.  Directory entries reach the disk when      *)
(* their directory is synchronized, or earlier, one by one, in any order.  *)
(*                                                                         *)
(* Exclusive sessions are serialised by the lock of module RunLock, so the *)
(* one that runs is held in the variables holder, step and ctx.            *)
(***************************************************************************)
EXTENDS Naturals

CONSTANTS Proc,          \* processes of the tool
          Root,          \* canonical project roots
          File,          \* source files
          Content,       \* what a file may contain
          Missing,       \* the "content" of a deleted file
          None,          \* an absent journal, pointer or process
          FilesUnder,    \* FilesUnder[r]: the files below root r
          Mutants,       \* Mutants[c]: what the candidates make of content c
          MaxEdits,      \* bound on the edits of the human
          MaxCrashes,    \* bound on process deaths in a session
          MaxPowerLosses,
          MaxIoErrors,
          EditsAvoidTool,    \* the human keeps clear of the tool (see Edit)
          RestoreIsDurable   \* no death or I/O error between the rename that
                             \* restores a source and its synchronization

VARIABLES
  human,                      \* what the human last saved (not in the program)
  src, journal, pointer,      \* the file system as processes see it
  srcDisk, journalDisk, pointerDisk,   \* what a power loss leaves of it
  holder,                     \* the process in the exclusive session, or None
  step, ctx, rec,             \* where that session is, its control and its data
  reader,                     \* reader[p]: the shared session of p
  edits, crashes, losses, ioErrors     \* how much the environment has done

cached == <<src, journal, pointer>>
durable == <<srcDisk, journalDisk, pointerDisk>>
session == <<holder, step, ctx, rec>>
faults == <<edits, crashes, losses, ioErrors>>
vars == <<human, cached, durable, session, reader, faults>>

-----------------------------------------------------------------------------
Saved == Content \cup {Missing}

(* JournalRecord, and ActiveRunRecord, which also names the root.  Equal   *)
(* checksums are equal contents.                                           *)
Journal == [file : File, orig : Content, mut : Content]
Pointer == [root : Root, file : File, orig : Content, mut : Content]

ASSUME ConstantsOK ==
  /\ FilesUnder \in [Root -> SUBSET File]
  /\ Mutants \in [Content -> SUBSET Content]
  /\ \A c \in Content : c \notin Mutants[c]
  /\ Missing \notin Content
  /\ None \notin Proc \cup Journal \cup Pointer
  /\ {EditsAvoidTool, RestoreIsDurable} \subseteq BOOLEAN
  /\ {MaxEdits, MaxCrashes, MaxPowerLosses, MaxIoErrors} \subseteq Nat

ApplySteps == {"writeJournal", "syncJournal", "writePointer", "syncPointer"}
ReplaceSteps == {"replaceSource", "syncSource"}
ClearSteps == {"putBack", "syncPutBack", "removePointer", "syncPointerDir",
               "removeJournal", "syncJournalDir"}
Steps == {"idle", "recover", "recoverOwn", "ready", "testing", "restore"}
           \cup ApplySteps \cup ReplaceSteps \cup ClearSteps

(* Why the session clears recovery state: it begins a run, it is the       *)
(* recover command, it cleans up after a failed replacement, or it is the  *)
(* guard that restores the source after the tests.                         *)
Jobs == {"run", "command", "abort", "guard"}

(* root is the requested root, pointed and journaled tell which of the two *)
(* records recovery found, retried that the guard is being dropped.        *)
Context == [root : Root, job : Jobs, pointed : BOOLEAN, journaled : BOOLEAN,
            retried : BOOLEAN]

(* The journal that goes with a pointer. *)
JournalOf(P) == [file |-> P.file, orig |-> P.orig, mut |-> P.mut]
PointerTo(r, J) == [root |-> r, file |-> J.file, orig |-> J.orig, mut |-> J.mut]

(* A root is identified with the files below it: one path is a prefix of   *)
(* the other exactly when one of the sets contains the other.              *)
RootsOverlap(r, s) == \/ FilesUnder[r] \subseteq FilesUnder[s]
                      \/ FilesUnder[s] \subseteq FilesUnder[r]

-----------------------------------------------------------------------------
Init ==
  /\ human \in [File -> Content]
  /\ src = human /\ srcDisk = human
  /\ journal = [r \in Root |-> None] /\ journalDisk = [r \in Root |-> None]
  /\ pointer = None /\ pointerDisk = None
  /\ holder = None /\ step = "idle" /\ ctx = None /\ rec = None
  /\ reader = [p \in Proc |-> "idle"]
  /\ edits = 0 /\ crashes = 0 /\ losses = 0 /\ ioErrors = 0

(* The session is dropped and its lock released. *)
EndSession == holder' = None /\ step' = "idle" /\ ctx' = None /\ rec' = None

Goto(s) == step' = s /\ UNCHANGED <<holder, ctx, rec>>

(* The record dealt with is dropped. *)
Leave(s) == step' = s /\ rec' = None /\ UNCHANGED <<holder, ctx>>

(* An operation failed.  restore() is called a second time by the drop of  *)
(* its guard, recovery is tried after a failed replacement; every other    *)
(* caller returns the error.                                               *)
Failed ==
  IF step \in ReplaceSteps
  THEN /\ step' = "recover"
       /\ ctx' = [ctx EXCEPT !.job = "abort"]
       /\ rec' = None
       /\ UNCHANGED holder
  ELSE IF ctx.job = "guard" /\ ~ctx.retried
       THEN /\ step' = "restore"
            /\ ctx' = [ctx EXCEPT !.retried = TRUE]
            /\ UNCHANGED <<holder, rec>>
       ELSE EndSession

(* The records of rec.root are cleared.  Recovery that followed the        *)
(* pointer to another root still looks at the journal of its own; a guard  *)
(* that succeeds only when it is dropped leaves the run with the error.    *)
Cleared ==
  IF ctx.job # "guard" /\ ctx.pointed /\ rec.root # ctx.root
  THEN Leave("recoverOwn")
  ELSE IF ctx.job = "run" \/ (ctx.job = "guard" /\ ~ctx.retried)
       THEN Leave("ready")
       ELSE EndSession

-----------------------------------------------------------------------------
(* Sessions. *)

Unlocked == holder = None /\ \A p \in Proc : reader[p] = "idle"

(* MutationExecutionSession::begin (job "run") and recover_active (job     *)
(* "command"): take the exclusive lock, then recover.                      *)
BeginSession(p, r, job) ==
  /\ Unlocked
  /\ holder' = p
  /\ step' = "recover"
  /\ ctx' = [root |-> r, job |-> job, pointed |-> FALSE, journaled |-> FALSE,
             retried |-> FALSE]
  /\ UNCHANGED <<human, cached, durable, rec, reader, faults>>

(* The run has no more candidates, is cancelled, or fails elsewhere. *)
FinishRun ==
  /\ step = "ready"
  /\ EndSession
  /\ UNCHANGED <<human, cached, durable, reader, faults>>

(* Wrong: the analysis does not take the lock. *)
BeginReadUnlocked(p) ==
  /\ reader[p] = "idle"
  /\ reader' = [reader EXCEPT ![p] = "checking"]
  /\ UNCHANGED <<human, cached, durable, session, faults>>

(* MutationReadSession::begin: the shared lock. *)
BeginRead(p) ==
  /\ holder = None
  /\ reader[p] = "idle"
  /\ reader' = [reader EXCEPT ![p] = "checking"]
  /\ UNCHANGED <<human, cached, durable, session, faults>>

(* Wrong: only the journal of the reader's own root counts. *)
CheckOwnPending(p, r) ==
  /\ reader[p] = "checking"
  /\ reader' = [reader EXCEPT ![p] = IF journal[r] # None THEN "idle" ELSE "reading"]
  /\ UNCHANGED <<human, cached, durable, session, faults>>

(* pending_mutation_in_state under that lock: any pointer, or a journal of *)
(* the reader's own root, refuses the analysis.                            *)
CheckPending(p, r) ==
  /\ reader[p] = "checking"
  /\ reader' = [reader EXCEPT ![p] =
                  IF pointer # None \/ journal[r] # None THEN "idle" ELSE "reading"]
  /\ UNCHANGED <<human, cached, durable, session, faults>>

EndRead(p) ==
  /\ reader[p] = "reading"
  /\ reader' = [reader EXCEPT ![p] = "idle"]
  /\ UNCHANGED <<human, cached, durable, session, faults>>

-----------------------------------------------------------------------------
(* Recovery. *)

(* What restore_recovery_target decides on the record R that names its     *)
(* target: nothing to restore, the original to put back, or a refusal.     *)
HoldsOriginal(R) == src[R.file] = R.orig

(* Wrong: the checksum of the original is compared twice. *)
HoldsOriginalAgain(R) == src[R.file] = R.orig

HoldsMutant(R) == src[R.file] = R.mut

JournalOfPointer == journal[pointer.root]

(* Wrong: the root of the pointer is not compared with the requested one. *)
PointerConsistent == JournalOfPointer \in {None, JournalOf(pointer)}

(* The pointer can be acted upon: its root overlaps the requested one and  *)
(* its journal, if there is one, records the same mutation.                *)
PointerUsable ==
  /\ RootsOverlap(ctx.root, pointer.root)
  /\ JournalOfPointer \in {None, JournalOf(pointer)}

(* Wrong: a source that was never replaced counts as changed. *)
PointerRefusedUnlessMutated ==
  \/ ~PointerUsable
  \/ JournalOfPointer = None
  \/ ~HoldsMutant(pointer)

(* Without the journal the original bytes are lost. *)
PointerRefused ==
  \/ ~PointerUsable
  \/ /\ ~HoldsOriginal(pointer)
     /\ JournalOfPointer = None \/ ~HoldsMutant(pointer)

(* recover_pointed_and_requested, up to the first write. *)
RecoverPointed ==
  /\ step = "recover" /\ pointer # None /\ ~PointerRefused
  /\ step' = IF HoldsOriginal(pointer) THEN "removePointer" ELSE "putBack"
  /\ ctx' = [ctx EXCEPT !.pointed = TRUE, !.journaled = JournalOfPointer # None]
  /\ rec' = pointer
  /\ UNCHANGED <<human, cached, durable, holder, reader, faults>>

AtOwnJournal == step = "recoverOwn" \/ (step = "recover" /\ pointer = None)

OwnRefused == /\ journal[ctx.root] # None
              /\ ~HoldsOriginal(journal[ctx.root])
              /\ ~HoldsMutant(journal[ctx.root])

(* recover_project_journal for the requested root, without a pointer. *)
RecoverOwn ==
  /\ AtOwnJournal /\ journal[ctx.root] # None /\ ~OwnRefused
  /\ step' = IF HoldsOriginal(journal[ctx.root]) THEN "removeJournal" ELSE "putBack"
  /\ ctx' = [ctx EXCEPT !.pointed = FALSE, !.journaled = TRUE]
  /\ rec' = PointerTo(ctx.root, journal[ctx.root])
  /\ UNCHANGED <<human, cached, durable, holder, reader, faults>>

NothingToRecover ==
  /\ AtOwnJournal /\ journal[ctx.root] = None
  /\ IF ctx.job = "run" THEN Leave("ready") ELSE EndSession
  /\ UNCHANGED <<human, cached, durable, reader, faults>>

(* PendingMutationRoot, InvalidJournal, MissingRecoveryJournal and         *)
(* RecoveryConflict: the records stay.                                     *)
RecoveryRefused ==
  /\ \/ step = "recover" /\ pointer # None /\ PointerRefused
     \/ AtOwnJournal /\ OwnRefused
  /\ Failed
  /\ UNCHANGED <<human, cached, durable, reader, faults>>

-----------------------------------------------------------------------------
(* Putting a source back and clearing its records. *)

(* The rename of atomic_replace with the original bytes. *)
PutBack ==
  /\ step = "putBack"
  /\ src' = [src EXCEPT ![rec.file] = rec.orig]
  /\ Goto("syncPutBack")
  /\ UNCHANGED <<human, journal, pointer, durable, reader, faults>>

SyncPutBack ==
  /\ step = "syncPutBack"
  /\ srcDisk' = [srcDisk EXCEPT ![rec.file] = src[rec.file]]
  /\ Goto(IF ctx.pointed THEN "removePointer" ELSE "removeJournal")
  /\ UNCHANGED <<human, cached, journalDisk, pointerDisk, reader, faults>>

(* A pointer that is already gone is not an error, and nothing is          *)
(* synchronized then.                                                      *)
AfterPointer == IF ctx.journaled THEN Goto("removeJournal") ELSE Cleared

RemovePointer ==
  /\ step = "removePointer"
  /\ pointer' = None
  /\ IF pointer # None THEN Goto("syncPointerDir") ELSE AfterPointer
  /\ UNCHANGED <<human, src, journal, durable, reader, faults>>

SyncPointerRemoval ==
  /\ step = "syncPointerDir"
  /\ pointerDisk' = pointer
  /\ AfterPointer
  /\ UNCHANGED <<human, cached, srcDisk, journalDisk, reader, faults>>

RemoveJournal ==
  /\ step = "removeJournal"
  /\ journal' = [journal EXCEPT ![rec.root] = None]
  /\ IF journal[rec.root] # None THEN Goto("syncJournalDir") ELSE Cleared
  /\ UNCHANGED <<human, src, pointer, durable, reader, faults>>

SyncJournalRemoval ==
  /\ step = "syncJournalDir"
  /\ journalDisk' = [journalDisk EXCEPT ![rec.root] = journal[rec.root]]
  /\ Cleared
  /\ UNCHANGED <<human, cached, srcDisk, pointerDisk, reader, faults>>

-----------------------------------------------------------------------------
(* Applying a candidate. *)

(* load_mutation_source and build_mutated_source.  A candidate that does   *)
(* not fit the bytes read is Invalid and changes nothing.                  *)
LoadSource(f, m) ==
  /\ step = "ready" /\ f \in FilesUnder[ctx.root]
  /\ src[f] # Missing /\ m \in Mutants[src[f]]
  /\ rec' = [root |-> ctx.root, file |-> f, orig |-> src[f], mut |-> m]
  /\ ctx' = [ctx EXCEPT !.job = "run", !.pointed = TRUE, !.journaled = TRUE]
  /\ step' = "writeJournal"
  /\ UNCHANGED <<human, cached, durable, holder, reader, faults>>

(* StateFile::write_new refuses to replace a record. *)
WriteJournal ==
  /\ step = "writeJournal"
  /\ IF journal[rec.root] # None
     THEN EndSession /\ UNCHANGED journal
     ELSE /\ journal' = [journal EXCEPT ![rec.root] = JournalOf(rec)]
          /\ Goto("syncJournal")
  /\ UNCHANGED <<human, src, pointer, durable, reader, faults>>

SyncJournal ==
  /\ step = "syncJournal"
  /\ journalDisk' = [journalDisk EXCEPT ![rec.root] = journal[rec.root]]
  /\ Goto("writePointer")
  /\ UNCHANGED <<human, cached, srcDisk, pointerDisk, reader, faults>>

(* Wrong: the source is replaced before the pointer is on disk. *)
WritePointerUnsynced ==
  /\ step = "writePointer"
  /\ IF pointer # None
     THEN EndSession /\ UNCHANGED pointer
     ELSE pointer' = rec /\ Goto("replaceSource")
  /\ UNCHANGED <<human, src, journal, durable, reader, faults>>

WritePointer ==
  /\ step = "writePointer"
  /\ IF pointer # None
     THEN EndSession /\ UNCHANGED pointer
     ELSE pointer' = rec /\ Goto("syncPointer")
  /\ UNCHANGED <<human, src, journal, durable, reader, faults>>

SyncPointer ==
  /\ step = "syncPointer"
  /\ pointerDisk' = pointer
  /\ Goto("replaceSource")
  /\ UNCHANGED <<human, cached, srcDisk, journalDisk, reader, faults>>

(* The rename of atomic_replace_for_mutation: the path is not read again. *)
ReplaceSource ==
  /\ step = "replaceSource"
  /\ src' = [src EXCEPT ![rec.file] = rec.mut]
  /\ Goto("syncSource")
  /\ UNCHANGED <<human, journal, pointer, durable, reader, faults>>

SyncSource ==
  /\ step = "syncSource"
  /\ srcDisk' = [srcDisk EXCEPT ![rec.file] = src[rec.file]]
  /\ step' = "testing" /\ ctx' = [ctx EXCEPT !.job = "guard"]
  /\ UNCHANGED <<human, cached, journalDisk, pointerDisk, holder, rec, reader, faults>>

(* Validation and tests end, time out or are cancelled. *)
TestsEnd ==
  /\ step = "testing"
  /\ Goto("restore")
  /\ UNCHANGED <<human, cached, durable, reader, faults>>

(* SourceRestoreGuard::restore, up to the first write. *)
Restore ==
  /\ step = "restore"
  /\ \/ HoldsOriginal(rec) /\ Goto("removePointer")
     \/ HoldsMutant(rec) /\ Goto("putBack")
     \/ ~HoldsOriginal(rec) /\ ~HoldsMutant(rec) /\ Failed
  /\ UNCHANGED <<human, cached, durable, reader, faults>>

-----------------------------------------------------------------------------
(* The environment. *)

(* Between what it reads of a source and its rename over it the tool does  *)
(* not look at the source again.                                           *)
UnguardedSteps == ApplySteps \cup {"replaceSource", "putBack"}

(* c is the mutant of f in a journal, or in the memory of the session. *)
Recorded(f, c) ==
  \/ \E r \in Root : \E J \in {journal[r], journalDisk[r]} :
       J # None /\ J.file = f /\ J.mut = c
  \/ rec # None /\ rec.file = f /\ rec.mut = c

(* The human saves a file, or deletes it, durably.  A human who keeps      *)
(* clear of the tool does not save the file it is replacing, nor save as   *)
(* original work the very bytes of a mutant that is still recorded.        *)
Edit(f, c) ==
  /\ edits < MaxEdits /\ edits' = edits + 1
  /\ EditsAvoidTool => /\ ~(step \in UnguardedSteps /\ rec.file = f)
                       /\ ~Recorded(f, c)
  /\ human' = [human EXCEPT ![f] = c]
  /\ src' = [src EXCEPT ![f] = c]
  /\ srcDisk' = [srcDisk EXCEPT ![f] = c]
  /\ UNCHANGED <<journal, pointer, journalDisk, pointerDisk, session, reader,
                 crashes, losses, ioErrors>>

(* A system call of the session fails; what it should have done is not     *)
(* done, or, for a synchronization, not durable.                           *)
IoSteps == ApplySteps \cup ReplaceSteps \cup ClearSteps \cup {"restore", "recover", "recoverOwn"}

IoError ==
  /\ ioErrors < MaxIoErrors /\ ioErrors' = ioErrors + 1
  /\ step \in IoSteps
  /\ RestoreIsDurable => step # "syncPutBack"
  /\ Failed
  /\ UNCHANGED <<human, cached, durable, reader, edits, crashes, losses>>

(* The process dies: killed, or a second termination signal. *)
CrashSession ==
  /\ crashes < MaxCrashes /\ crashes' = crashes + 1
  /\ holder # None
  /\ RestoreIsDurable => step # "syncPutBack"
  /\ EndSession
  /\ UNCHANGED <<human, cached, durable, reader, edits, losses, ioErrors>>

CrashReader(p) ==
  /\ crashes < MaxCrashes /\ crashes' = crashes + 1
  /\ reader[p] # "idle"
  /\ reader' = [reader EXCEPT ![p] = "idle"]
  /\ UNCHANGED <<human, cached, durable, session, edits, losses, ioErrors>>

(* The kernel writes a directory entry back on its own. *)
WriteBackSource(f) ==
  /\ srcDisk' = [srcDisk EXCEPT ![f] = src[f]]
  /\ UNCHANGED <<human, cached, journalDisk, pointerDisk, session, reader, faults>>

WriteBackJournal(r) ==
  /\ journalDisk' = [journalDisk EXCEPT ![r] = journal[r]]
  /\ UNCHANGED <<human, cached, srcDisk, pointerDisk, session, reader, faults>>

WriteBackPointer ==
  /\ pointerDisk' = pointer
  /\ UNCHANGED <<human, cached, srcDisk, journalDisk, session, reader, faults>>

PowerLoss ==
  /\ losses < MaxPowerLosses /\ losses' = losses + 1
  /\ src' = srcDisk /\ journal' = journalDisk /\ pointer' = pointerDisk
  /\ EndSession
  /\ reader' = [p \in Proc |-> "idle"]
  /\ UNCHANGED <<human, durable, edits, crashes, ioErrors>>

-----------------------------------------------------------------------------
Recovery == RecoverPointed \/ RecoverOwn \/ NothingToRecover \/ RecoveryRefused

Clearing == \/ PutBack \/ SyncPutBack \/ RemovePointer \/ SyncPointerRemoval
            \/ RemoveJournal \/ SyncJournalRemoval

Applying == \/ \E f \in File, m \in Content : LoadSource(f, m)
            \/ WriteJournal \/ SyncJournal \/ WritePointer \/ SyncPointer
            \/ ReplaceSource \/ SyncSource

(* The steps of an exclusive session that has begun. *)
SessionStep == Recovery \/ Clearing \/ Applying \/ TestsEnd \/ Restore \/ FinishRun

ReaderStep(p) == (\E r \in Root : CheckPending(p, r)) \/ EndRead(p)

WriteBack == \/ \E f \in File : WriteBackSource(f)
             \/ \E r \in Root : WriteBackJournal(r)
             \/ WriteBackPointer

Environment == \/ \E f \in File, c \in Saved : Edit(f, c)
               \/ IoError \/ CrashSession \/ PowerLoss \/ WriteBack
               \/ \E p \in Proc : CrashReader(p)

Next == \/ \E p \in Proc, r \in Root : \/ BeginSession(p, r, "run")
                                       \/ BeginSession(p, r, "command")
        \/ SessionStep
        \/ \E p \in Proc : BeginRead(p) \/ ReaderStep(p)
        \/ Environment

Spec == Init /\ [][Next]_vars
-----------------------------------------------------------------------------
(* The variables stay in their types. *)
TypeOK ==
  /\ human \in [File -> Saved]
  /\ src \in [File -> Saved] /\ srcDisk \in [File -> Saved]
  /\ journal \in [Root -> Journal \cup {None}]
  /\ journalDisk \in [Root -> Journal \cup {None}]
  /\ pointer \in Pointer \cup {None} /\ pointerDisk \in Pointer \cup {None}
  /\ holder \in Proc \cup {None}
  /\ step \in Steps
  /\ ctx \in Context \cup {None} /\ rec \in Pointer \cup {None}
  /\ reader \in [Proc -> {"idle", "checking", "reading"}]
  /\ {edits, crashes, losses, ioErrors} \subseteq Nat

(* The content v of f is a mutant that recovery can undo: the pointer and  *)
(* the journal it leads to are on disk, they record this mutation, and the *)
(* original they hold is what the human last saved.                        *)
Covered(f, v) ==
  /\ pointer # None /\ pointerDisk = pointer
  /\ pointer.file = f /\ pointer.mut = v /\ pointer.orig = human[f]
  /\ journal[pointer.root] = JournalOf(pointer)
  /\ journalDisk[pointer.root] = journal[pointer.root]

(* Whatever a reader, or the next boot, finds in a source file is what the *)
(* human last saved there or a mutant that recovery can undo.  (persist_   *)
(* mutation_state, restore and clear_recovery_state: journal before        *)
(* pointer before mutant, and the reverse on the way back.)                *)
Recoverable ==
  \A f \in File : \A v \in {src[f], srcDisk[f]} : v = human[f] \/ Covered(f, v)

(* An analysis that got past the pending check reads the human's sources   *)
(* for as long as it holds the shared lock, whatever files its root        *)
(* shares with another root's mutation.                                    *)
ReadersSeeHumanSource ==
  (\E p \in Proc : reader[p] = "reading") => src = human

(* The inductive invariant behind the two.  Control: which local variables *)
(* go with which step.                                                     *)
Control ==
  /\ step = "idle" <=> holder = None
  /\ step # "idle" => /\ ctx \in Context
                      /\ \A p \in Proc : reader[p] = "idle"
  /\ rec = None <=> step \in {"idle", "recover", "recoverOwn", "ready"}
  /\ step \in ApplySteps \cup ReplaceSteps \cup {"testing", "restore"}
       => ctx.journaled /\ ctx.pointed
  /\ step \in ApplySteps \cup ReplaceSteps => ctx.job = "run"
  /\ step \in {"testing", "restore"} => ctx.job = "guard"
  /\ step \in {"recover", "recoverOwn"} => ctx.job # "guard"
  /\ step # "idle" /\ ctx.job = "guard" => ctx.journaled /\ ctx.pointed

(* No record holds the human's content of its file as the mutant. *)
NotForged(R) == R.mut # human[R.file]
Distinguishes(R) == R.mut \in Mutants[R.orig]

RecordsSound ==
  /\ \A r \in Root : \A J \in {journal[r], journalDisk[r]} :
       J # None => NotForged(J) /\ Distinguishes(J)
  /\ \A P \in {pointer, pointerDisk} : P # None => Distinguishes(P)
  /\ rec # None => Distinguishes(rec) /\ (ctx.journaled => NotForged(rec))

(* Which records exist at which step, and what the session remembers. *)
RecordsInStep ==
  /\ step \in {"ready", "recoverOwn", "writeJournal", "syncJournal", "writePointer",
               "syncPointerDir", "removeJournal", "syncJournalDir"} => pointer = None
  /\ step \in {"syncSource", "testing", "restore"} \cup ClearSteps => pointer \in {None, rec}
  /\ step = "syncJournal" => journal[rec.root] = JournalOf(rec)
  /\ step \in {"writePointer", "syncPointer", "replaceSource"}
       => journal[rec.root] = JournalOf(rec) /\ journalDisk[rec.root] = JournalOf(rec)
  /\ step \in {"syncPointer", "replaceSource"} => pointer = rec
  /\ step = "replaceSource" => pointerDisk = rec
  /\ step \in ApplySteps \cup {"replaceSource"}
       => src[rec.file] = human[rec.file] /\ rec.orig = human[rec.file]
  /\ step = "putBack" => rec.orig = human[rec.file]
  /\ step = "syncPutBack" => src[rec.file] = human[rec.file]
  /\ step \in {"putBack", "syncPutBack"} => ctx.pointed \/ pointer = None
  /\ step = "removePointer" => src = human /\ srcDisk = human
  /\ \A p \in Proc : reader[p] = "reading" => pointer = None

(* A source that reads as the human's is the human's on disk, unless it is *)
(* just being synchronized.                                                *)
OriginalsDurable ==
  \A f \in File : src[f] = human[f]
                    => srcDisk[f] = human[f] \/ (step = "syncPutBack" /\ rec.file = f)

IInv == /\ TypeOK /\ Control /\ RecordsSound /\ RecordsInStep
        /\ OriginalsDurable /\ Recoverable

(* The whole is an implementation of SourceCustody. *)
Custody == INSTANCE SourceCustody
             WITH readers <- {p \in Proc : reader[p] = "reading"}

ImplementsCustody == Custody!Spec

(* Without an edit by the human there is never a conflict that asks for    *)
(* manual repair: recovery refuses only to work for an unrelated root.     *)
RefusesOnlyAfterEdits ==
  edits = 0 /\ losses = 0 =>
    /\ step = "recover" /\ pointer # None /\ PointerRefused
         => ~RootsOverlap(ctx.root, pointer.root)
    /\ AtOwnJournal => ~OwnRefused
    /\ step = "restore" => HoldsOriginal(rec) \/ HoldsMutant(rec)

(* A session touches the records of no root that does not overlap its own, *)
(* even when the global pointer leads there.                               *)
StaysInItsTree ==
  [][SessionStep =>
       /\ \A r \in Root : journal'[r] # journal[r] => RootsOverlap(ctx.root, r)
       /\ pointer # None /\ pointer' # pointer => RootsOverlap(ctx.root, pointer.root)]_vars

(* What is put back replaces what recovery, or the guard, compared: a file *)
(* that was changed independently stays as it is.  (docs/ARCHITECTURE.md,  *)
(* 524-527; restore and recovery read and compare, write and synchronize a *)
(* temporary file, and rename it over whatever is there by then.)          *)
NeverRestoresOverAnEdit ==
  [][PutBack => src[rec.file] \in {rec.orig, rec.mut, Missing}]_vars

-----------------------------------------------------------------------------
(* A session that has begun goes on, and the operator of every root runs   *)
(* reporigor again; the lock, which is never waited for by readers, may    *)
(* turn it away some of the time.                                          *)
Fairness ==
  /\ WF_vars(SessionStep)
  /\ \A p \in Proc : WF_vars(ReaderStep(p))
  /\ \A r \in Root : SF_vars(\E p \in Proc : BeginSession(p, r, "command"))

LiveSpec == Spec /\ Fairness

(* A mutant never stays: again and again every source is the human's. *)
SourcesComeBack == []<>(src = human)
=============================================================================
