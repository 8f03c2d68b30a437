--------------------------- MODULE MovedCheckout ---------------------------
(***************************************************************************)
(* Which checkout a crashed mutation belongs to, after checkouts were      *)
(* moved, copied, removed and linked (analysis-mutate, filesystem.rs,      *)
(* recover_active_locked).  The records name the root by its path; on Unix *)
(* the pointer also has the identity of its directory.                     *)
(*                                                                         *)
(* A checkout is a directory with one source in its member package.  It is *)
(* analysed as a whole or by its member, so two roots share the source.    *)
(* The steps of MutationRecovery are taken together here: a crash leaves   *)
(* what was on disk at some point of a mutation or of a recovery.          *)
(***************************************************************************)
EXTENDS Integers, FiniteSets

CONSTANTS
    Paths,      \* where a checkout may be
    Dirs,       \* directories, by device and inode
    Texts,      \* what a human writes
    MaxJournals,    \* bound: journals that crashes leave at a time
    Nothing

VARIABLES
    at,         \* at[p]: the directory at p, the path p is a link to, or Nothing
    source,     \* source[d]: the entry at the source's path in d
    journals,   \* journals[r]: the journal kept under the key of root r
    pointer,    \* the global pointer to the active mutation
    marked,     \* directories that hold a mutant and whose pointer has their identity
    analysed    \* the last step was an analysis that was let through

vars == <<at, source, journals, pointer, marked, analysed>>

Roots == [path : Paths, member : BOOLEAN]
File(text, mutant) == [kind |-> "file", text |-> text, mutant |-> mutant]
\* No entry, a link, or a directory: refused alike.
Unusable == [kind |-> "other"]
Entries == [kind : {"file"}, text : Texts, mutant : BOOLEAN] \cup {Unusable}

\* What is named in a record: the source's path depends on the root.
Recorded(root, text) == [member |-> root.member, text |-> text]
Records == [member : BOOLEAN, text : Texts]
Identity(root) == [dir |-> at[root.path], member |-> root.member]

TypeOK ==
    /\ at \in [Paths -> Dirs \cup Paths \cup {Nothing}]
    /\ source \in [Dirs -> Entries]
    /\ journals \in [Roots -> Records \cup {Nothing}]
    /\ pointer \in {Nothing} \cup
           [root : Roots, change : Records,
            identity : {Nothing} \cup [dir : Dirs, member : BOOLEAN]]
    /\ marked \subseteq Dirs
    /\ analysed \in BOOLEAN

Init ==
    /\ \E taken \in SUBSET Paths : \E place \in [taken -> Dirs] :
          /\ \A p, q \in taken : place[p] = place[q] => p = q
          /\ at = [p \in Paths |-> IF p \in taken THEN place[p] ELSE Nothing]
    /\ source \in [Dirs -> {File(t, FALSE) : t \in Texts}]
    /\ journals = [r \in Roots |-> Nothing]
    /\ pointer = Nothing /\ marked = {} /\ analysed = FALSE

-----------------------------------------------------------------------------
(* Records and roots. *)

Exists(path) == at[path] \in Dirs \/ (at[path] \in Paths /\ at[at[path]] \in Dirs)

\* A root as the caller gives it: a path without links to a directory.
Canonical(root) == at[root.path] \in Dirs

MayBe(root, identity) == identity = Nothing \/ identity = Identity(root)

\* The recorded root is still what it was.
Validated(active) == Canonical(active.root) /\ MayBe(active.root, active.identity)

\* One of two roots contains the other.
RootsOverlap(left, right) == left.path = right.path

\* What the disk holds: the sources and the tool's records.
Disk == [source |-> source, journals |-> journals, pointer |-> pointer]

\* The source that a record names, under a root, is a regular file of the
\* original text, or of the mutant.
Matches(disk, root, change, mutant) ==
    root.member = change.member /\ disk.source[at[root.path]] = File(change.text, mutant)

\* Wrong: a directory with the recorded content passes for the one that moved.
MovedByContent(active, requested) ==
    /\ ~Exists(active.root.path)
    /\ \E mutant \in BOOLEAN : Matches(Disk, requested, active.change, mutant)

\* The root of the active mutation is not there any more, and the requested
\* one is the same directory and holds what the pointer says.
Moved(active, requested) ==
    /\ ~Exists(active.root.path)
    /\ MayBe(requested, active.identity)
    /\ \E mutant \in BOOLEAN : Matches(Disk, requested, active.change, mutant)

ActiveRoots(active, requested) ==
    IF Validated(active) THEN {active.root} ELSE {r \in {requested} : Moved(active, r)}

-----------------------------------------------------------------------------
(* Recovery.  An outcome has the disk it leaves and what the call says; one *)
(* that dies leaves the disk as it was between two steps.                   *)

Outcome(disk, says) == [disk |-> disk, says |-> says]
Died(disk) == Outcome(disk, "died")

RestoredIn(disk, root, change) == [disk EXCEPT !.source[at[root.path]] = File(change.text, FALSE)]
WithoutPointer(disk) == [disk EXCEPT !.pointer = Nothing]
WithoutJournal(disk, key) == [disk EXCEPT !.journals[key] = Nothing]

\* Clear the records of a source that holds its original: first the pointer.
ClearRecords(disk, key, pointed, says) ==
    LET unpointed == IF pointed THEN WithoutPointer(disk) ELSE disk
    IN  {Died(disk), Died(unpointed), Outcome(WithoutJournal(unpointed, key), says)}

\* Recover from the journal under key the source it names under root.
RecoverJournal(disk, root, key, pointed) ==
    LET change == disk.journals[key]
    IN  IF pointed /\ disk.pointer.change # change THEN {Outcome(disk, "refused")}
        ELSE IF Matches(disk, root, change, FALSE) THEN ClearRecords(disk, key, pointed, "AlreadyClean")
        ELSE IF Matches(disk, root, change, TRUE)
             THEN {Died(disk)} \cup ClearRecords(RestoredIn(disk, root, change), key, pointed, "Restored")
        ELSE {Outcome(disk, "refused")}

\* A pointer without its journal is cleared only over the original.
RecoverPointerWithoutJournal(disk, root) ==
    IF Matches(disk, root, disk.pointer.change, FALSE)
    THEN {Outcome(WithoutPointer(disk), "AlreadyClean")}
    ELSE {Outcome(disk, "refused")}

RecoverProject(disk, root) ==
    IF disk.journals[root] # Nothing
    THEN RecoverJournal(disk, root, root, FALSE)
    ELSE {Outcome(disk, "None")}

RecoverPointed(disk, root) ==
    IF disk.journals[disk.pointer.root] # Nothing
    THEN RecoverJournal(disk, root, disk.pointer.root, TRUE)
    ELSE RecoverPointerWithoutJournal(disk, root)

Combined(left, right) ==
    IF "Restored" \in {left, right} THEN "Restored"
    ELSE IF "AlreadyClean" \in {left, right} THEN "AlreadyClean" ELSE "None"

\* After the pointed root, the requested one's own journal, if it has another.
FinishRequested(outcome, key, requested) ==
    IF outcome.says \in {"refused", "died"} \/ key = requested THEN {outcome}
    ELSE {IF own.says \in {"refused", "died"} THEN own
          ELSE Outcome(own.disk, Combined(outcome.says, own.says)) :
              own \in RecoverProject(outcome.disk, requested)}

\* What a recovery for the requested root may come to.
RecoverActive(requested) ==
    IF pointer = Nothing THEN RecoverProject(Disk, requested)
    ELSE LET roots == {r \in ActiveRoots(pointer, requested) : RootsOverlap(requested, r)}
         IN  IF roots = {} THEN {Outcome(Disk, "refused")}
             ELSE UNION {FinishRequested(o, pointer.root, requested) :
                             o \in UNION {RecoverPointed(Disk, r) : r \in roots}}

Recover(requested) ==
    /\ Canonical(requested)
    /\ \E outcome \in RecoverActive(requested) :
          /\ source' = outcome.disk.source
          /\ journals' = outcome.disk.journals
          /\ pointer' = outcome.disk.pointer
          /\ marked' = {d \in marked : outcome.disk.source[d] = source[d]}
    /\ analysed' = FALSE /\ UNCHANGED at

\* An analysis starts only without any pointer and without a journal of its root.
Analyse(root) ==
    /\ Canonical(root)
    /\ analysed' = (pointer = Nothing /\ journals[root] = Nothing)
    /\ UNCHANGED <<at, source, journals, pointer, marked>>

\* A mutation under root that dies with its journal written, with the pointer
\* written, or over the mutant.  It begins when recovery has left no records.
\* A pointer of an older release, or of another host, has no identity.
CrashedMutation(root) ==
    /\ Canonical(root) /\ pointer = Nothing /\ journals[root] = Nothing
    /\ Cardinality({r \in Roots : journals[r] # Nothing}) < MaxJournals
    /\ \E t \in Texts, steps \in 1..3, known \in BOOLEAN :
          LET d == at[root.path] IN
          /\ source[d] = File(t, FALSE)
          /\ journals' = [journals EXCEPT ![root] = Recorded(root, t)]
          /\ pointer' = IF steps = 1 THEN Nothing
                        ELSE [root |-> root, change |-> Recorded(root, t),
                              identity |-> IF known THEN Identity(root) ELSE Nothing]
          /\ source' = IF steps < 3 THEN source ELSE [source EXCEPT ![d] = File(t, TRUE)]
          /\ marked' = IF steps = 3 /\ known THEN marked \cup {d} ELSE marked
          /\ analysed' = FALSE
          /\ UNCHANGED at

-----------------------------------------------------------------------------
(* The humans. *)

Free(d) == \A p \in Paths : at[p] # d

\* Move a checkout, or link a path to it.
Move(p, q) ==
    /\ at[p] \in Dirs /\ at[q] = Nothing
    /\ at' = [at EXCEPT ![p] = Nothing, ![q] = at[p]]
    /\ analysed' = FALSE /\ UNCHANGED <<source, journals, pointer, marked>>

LinkTo(p, q) ==
    /\ at[p] = Nothing /\ at[q] \in Dirs
    /\ at' = [at EXCEPT ![p] = q]
    /\ analysed' = FALSE /\ UNCHANGED <<source, journals, pointer, marked>>

Remove(p) ==
    /\ at[p] # Nothing
    /\ at' = [at EXCEPT ![p] = Nothing]
    /\ marked' = marked \ {at[p]}
    /\ analysed' = FALSE /\ UNCHANGED <<source, journals, pointer>>

\* A new checkout, of a human's text or a copy of another with all it has, in
\* a directory that may have the inode of one that was removed.
Create(p, d, entry) ==
    /\ at[p] = Nothing /\ Free(d)
    /\ at' = [at EXCEPT ![p] = d]
    /\ source' = [source EXCEPT ![d] = entry]
    /\ analysed' = FALSE /\ UNCHANGED <<journals, pointer, marked>>

\* A human writes the source, removes it, or puts a link in its place.
Edit(d, entry) ==
    /\ source[d] # entry
    /\ source' = [source EXCEPT ![d] = entry]
    /\ marked' = marked \ {d}
    /\ analysed' = FALSE /\ UNCHANGED <<at, journals, pointer>>

Humans ==
    \/ \E p, q \in Paths : Move(p, q) \/ LinkTo(p, q)
    \/ \E p \in Paths :
          \/ Remove(p)
          \/ \E d \in Dirs :
                \/ \E t \in Texts : Create(p, d, File(t, FALSE))
                \/ \E q \in Paths : at[q] \in Dirs /\ Create(p, d, source[at[q]])
    \/ \E p \in Paths, entry \in {File(t, FALSE) : t \in Texts} \cup {Unusable} :
          at[p] \in Dirs /\ Edit(at[p], entry)

Next ==
    \/ Humans
    \/ \E r \in Roots : Recover(r) \/ Analyse(r) \/ CrashedMutation(r)

Spec == Init /\ [][Next]_vars

-----------------------------------------------------------------------------
(* Properties. *)

\* The root under which the pointer's directory can be found now.
Whereabouts(active) ==
    {r \in Roots : Canonical(r) /\ active.identity = Identity(r)}

\* Wherever a mutated checkout is moved to, copied to or linked from, and
\* whatever takes its place: as long as it holds the mutant, the pointer knows
\* its directory and the journal its original, no analysis starts, and a
\* recovery asked for at its place can restore it unless its old path is
\* taken by another (recover_moved_active_root, pending_mutation_from_active).
MutatedCheckoutStaysKnown ==
    \A d \in marked :
        /\ pointer # Nothing
        /\ pointer.identity = [dir |-> d, member |-> pointer.root.member]
        /\ journals[pointer.root] = pointer.change
        /\ source[d] = File(pointer.change.text, TRUE)
        /\ ~analysed
        /\ \A r \in Whereabouts(pointer) :
              r = pointer.root \/ ~Exists(pointer.root.path)
                  => \E outcome \in RecoverActive(r) :
                        /\ outcome.says # "died"
                        /\ outcome.disk.source[d] = File(pointer.change.text, FALSE)
                        /\ outcome.disk.pointer = Nothing
=============================================================================
