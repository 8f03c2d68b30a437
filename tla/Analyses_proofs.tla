-------------------------- MODULE Analyses_proofs --------------------------
(***************************************************************************)
(* Proofs about the analyses: wherever a mutated checkout is moved it      *)
(* stays known, no function is measured twice or by the wrong backend, the *)
(* ratchet over the quality rules holds, cycles of packages are found,     *)
(* functions are scored by their own execution, equal code is found, clone *)
(* groups are the families of similar functions, and a mutation is found   *)
(* again by its fingerprint.                                               *)
(***************************************************************************)
EXTENDS Analyses, FiniteSetTheorems, SequenceTheorems, WellFoundedInduction, TLAPS

-----------------------------------------------------------------------------
(* Moved checkouts: types. *)

Pointers ==
  {Absent} \cup [root : Checkouts!Roots, change : Checkouts!Records,
                 identity : {Absent} \cup [dir : Dirs, member : BOOLEAN]]
Disks ==
  [source : [Dirs -> Checkouts!Entries],
   journals : [Checkouts!Roots -> Checkouts!Records \cup {Absent}],
   pointer : Pointers]

(* A recovery puts originals in the place of their mutants, and no more.   *)
OnlyRestores(before, after) ==
  \A d \in Dirs :
     \/ after[d] = before[d]
     \/ \E t \in Texts : before[d] = Checkouts!File(t, TRUE) /\ after[d] = Checkouts!File(t, FALSE)

LEMMA OriginalIsNoMutant ==
  ASSUME NEW t, NEW u
  PROVE  Checkouts!File(t, FALSE) # Checkouts!File(u, TRUE)
<1>1. Checkouts!File(t, FALSE).mutant # Checkouts!File(u, TRUE).mutant
  BY DEF Checkouts!File
<1>2. QED
  BY <1>1

LEMMA Restoring ==
  \A x, y, z : OnlyRestores(x, x) /\ (OnlyRestores(x, y) /\ OnlyRestores(y, z) => OnlyRestores(x, z))
<1>1. \A x : OnlyRestores(x, x)
  BY DEF OnlyRestores
<1>2. ASSUME NEW x, NEW y, NEW z, OnlyRestores(x, y), OnlyRestores(y, z)
      PROVE  OnlyRestores(x, z)
  <2>1. SUFFICES ASSUME NEW d \in Dirs
                 PROVE  \/ z[d] = x[d]
                        \/ \E t \in Texts : x[d] = Checkouts!File(t, TRUE) /\ z[d] = Checkouts!File(t, FALSE)
    BY DEF OnlyRestores
  <2>2. CASE z[d] = y[d]
    BY <1>2, <2>2 DEF OnlyRestores
  <2>3. CASE y[d] = x[d]
    BY <1>2, <2>3 DEF OnlyRestores
  <2>4. CASE z[d] # y[d] /\ y[d] # x[d]
    BY <1>2, <2>4, OriginalIsNoMutant DEF OnlyRestores
  <2>5. QED
    BY <2>2, <2>3, <2>4
<1>3. QED
  BY <1>1, <1>2

LEMMA DiskTyped == Checkouts!TypeOK => Checkouts!Disk \in Disks
  BY DEF Checkouts!TypeOK, Checkouts!Disk, Disks, Pointers

LEMMA RestoredTyped ==
  ASSUME NEW disk \in Disks, NEW root \in Checkouts!Roots, at[root.path] \in Dirs,
         NEW change \in Checkouts!Records, Checkouts!Matches(disk, root, change, TRUE)
  PROVE  /\ Checkouts!RestoredIn(disk, root, change) \in Disks
         /\ OnlyRestores(disk.source, Checkouts!RestoredIn(disk, root, change).source)
<1>1. change.text \in Texts
  BY DEF Checkouts!Records
<1>2. Checkouts!File(change.text, FALSE) \in Checkouts!Entries
  BY <1>1 DEF Checkouts!Entries, Checkouts!File
<1>3. QED
  BY <1>1, <1>2 DEF Disks, Checkouts!RestoredIn, Checkouts!Matches, OnlyRestores

LEMMA ClearedTyped ==
  ASSUME NEW disk \in Disks, NEW key \in Checkouts!Roots, NEW pointed, NEW says,
         NEW o \in Checkouts!ClearRecords(disk, key, pointed, says)
  PROVE  o.disk \in Disks /\ o.disk.source = disk.source
<1>1. Checkouts!WithoutPointer(disk) \in Disks /\ Checkouts!WithoutPointer(disk).source = disk.source
  BY DEF Disks, Pointers, Checkouts!WithoutPointer
<1>2. \A x \in Disks : Checkouts!WithoutJournal(x, key) \in Disks /\ Checkouts!WithoutJournal(x, key).source = x.source
  BY DEF Disks, Checkouts!WithoutJournal
<1>3. QED
  BY <1>1, <1>2 DEF Checkouts!ClearRecords, Checkouts!Died, Checkouts!Outcome

(* Each kind of recovery leaves a disk and only restores. *)
LEMMA JournalRecovers ==
  ASSUME NEW disk \in Disks, NEW root \in Checkouts!Roots, at[root.path] \in Dirs,
         NEW key \in Checkouts!Roots, disk.journals[key] # Absent, NEW pointed,
         NEW o \in Checkouts!RecoverJournal(disk, root, key, pointed)
  PROVE  o.disk \in Disks /\ OnlyRestores(disk.source, o.disk.source)
<1> DEFINE change == disk.journals[key]
           restored == Checkouts!RestoredIn(disk, root, change)
<1>1. change \in Checkouts!Records
  BY DEF Disks
<1>2. Checkouts!Matches(disk, root, change, TRUE) =>
        restored \in Disks /\ OnlyRestores(disk.source, restored.source)
  BY <1>1, RestoredTyped
<1>3. \/ o = Checkouts!Outcome(disk, "refused") \/ o = Checkouts!Died(disk)
      \/ o \in Checkouts!ClearRecords(disk, key, pointed, "AlreadyClean")
      \/ /\ Checkouts!Matches(disk, root, change, TRUE)
         /\ o \in Checkouts!ClearRecords(restored, key, pointed, "Restored")
  BY DEF Checkouts!RecoverJournal
<1>4. CASE o = Checkouts!Outcome(disk, "refused") \/ o = Checkouts!Died(disk)
  BY <1>4, Restoring DEF Checkouts!Outcome, Checkouts!Died
<1>5. CASE o \in Checkouts!ClearRecords(disk, key, pointed, "AlreadyClean")
  BY <1>5, ClearedTyped, Restoring
<1>6. CASE /\ Checkouts!Matches(disk, root, change, TRUE)
           /\ o \in Checkouts!ClearRecords(restored, key, pointed, "Restored")
  BY <1>6, <1>2, ClearedTyped
<1>7. QED
  BY <1>3, <1>4, <1>5, <1>6

LEMMA ProjectRecovers ==
  ASSUME NEW disk \in Disks, NEW root \in Checkouts!Roots, at[root.path] \in Dirs,
         NEW o \in Checkouts!RecoverProject(disk, root)
  PROVE  o.disk \in Disks /\ OnlyRestores(disk.source, o.disk.source)
<1>1. CASE disk.journals[root] # Absent
  BY <1>1, JournalRecovers DEF Checkouts!RecoverProject
<1>2. CASE disk.journals[root] = Absent
  BY <1>2, Restoring DEF Checkouts!RecoverProject, Checkouts!Outcome
<1>3. QED
  BY <1>1, <1>2

LEMMA PointedRecovers ==
  ASSUME NEW disk \in Disks, disk.pointer # Absent, NEW root \in Checkouts!Roots, at[root.path] \in Dirs,
         NEW o \in Checkouts!RecoverPointed(disk, root)
  PROVE  o.disk \in Disks /\ OnlyRestores(disk.source, o.disk.source)
<1>1. disk.pointer.root \in Checkouts!Roots
  BY DEF Disks, Pointers
<1>2. CASE disk.journals[disk.pointer.root] # Absent
  BY <1>1, <1>2, JournalRecovers DEF Checkouts!RecoverPointed
<1>3. CASE disk.journals[disk.pointer.root] = Absent
  <2>1. o \in Checkouts!RecoverPointerWithoutJournal(disk, root)
    BY <1>3 DEF Checkouts!RecoverPointed
  <2>2. o = Checkouts!Outcome(Checkouts!WithoutPointer(disk), "AlreadyClean") \/ o = Checkouts!Outcome(disk, "refused")
    BY <2>1 DEF Checkouts!RecoverPointerWithoutJournal
  <2>3. Checkouts!WithoutPointer(disk) \in Disks /\ Checkouts!WithoutPointer(disk).source = disk.source
    BY DEF Disks, Pointers, Checkouts!WithoutPointer
  <2>4. QED
    BY <2>2, <2>3, Restoring DEF Checkouts!Outcome
<1>4. QED
  BY <1>2, <1>3

(* The requested root's own journal comes after the pointed one.           *)
LEMMA RequestedRecovers ==
  ASSUME NEW o, o.disk \in Disks, NEW key, NEW requested \in Checkouts!Roots, at[requested.path] \in Dirs,
         NEW last \in Checkouts!FinishRequested(o, key, requested)
  PROVE  last.disk \in Disks /\ OnlyRestores(o.disk.source, last.disk.source)
<1>1. CASE last = o
  BY <1>1, Restoring
<1>2. CASE last # o
  <2>1. PICK own \in Checkouts!RecoverProject(o.disk, requested) :
          last = own \/ last = Checkouts!Outcome(own.disk, Checkouts!Combined(o.says, own.says))
    BY <1>2 DEF Checkouts!FinishRequested
  <2>2. last.disk = own.disk
    BY <2>1 DEF Checkouts!Outcome
  <2>3. QED
    BY <2>2, ProjectRecovers
<1>3. QED
  BY <1>1, <1>2

(* The roots a pointer is recovered under exist.                           *)
LEMMA ActiveIsThere ==
  ASSUME Checkouts!TypeOK, pointer # Absent, NEW requested \in Checkouts!Roots, Checkouts!Canonical(requested),
         NEW r \in Checkouts!ActiveRoots(pointer, requested)
  PROVE  r \in Checkouts!Roots /\ Checkouts!Canonical(r) /\ Checkouts!MayBe(r, pointer.identity)
<1>1. pointer.root \in Checkouts!Roots
  BY DEF Checkouts!TypeOK
<1>2. QED
  BY <1>1 DEF Checkouts!ActiveRoots, Checkouts!Validated, Checkouts!Moved

LEMMA ActiveRecovers ==
  ASSUME Checkouts!TypeOK, NEW requested \in Checkouts!Roots, Checkouts!Canonical(requested),
         NEW o \in Checkouts!RecoverActive(requested)
  PROVE  o.disk \in Disks /\ OnlyRestores(source, o.disk.source)
<1>1. Checkouts!Disk \in Disks /\ Checkouts!Disk.source = source /\ Checkouts!Disk.pointer = pointer
  BY DiskTyped DEF Checkouts!Disk
<1>2. at[requested.path] \in Dirs
  BY DEF Checkouts!Canonical
<1>3. CASE pointer = Absent
  BY <1>1, <1>2, <1>3, ProjectRecovers DEF Checkouts!RecoverActive
<1>4. CASE pointer # Absent
  <2>1. CASE o = Checkouts!Outcome(Checkouts!Disk, "refused")
    BY <1>1, <2>1, Restoring DEF Checkouts!Outcome
  <2>2. CASE o # Checkouts!Outcome(Checkouts!Disk, "refused")
    <3>1. PICK r \in Checkouts!ActiveRoots(pointer, requested) :
            \E x \in Checkouts!RecoverPointed(Checkouts!Disk, r) :
               o \in Checkouts!FinishRequested(x, pointer.root, requested)
      BY <1>4, <2>2 DEF Checkouts!RecoverActive
    <3>2. PICK x \in Checkouts!RecoverPointed(Checkouts!Disk, r) :
            o \in Checkouts!FinishRequested(x, pointer.root, requested)
      BY <3>1
    <3>3. x.disk \in Disks /\ OnlyRestores(source, x.disk.source)
      BY <1>1, <1>4, ActiveIsThere, PointedRecovers DEF Checkouts!Canonical
    <3>4. QED
      BY <1>2, <3>2, <3>3, RequestedRecovers, Restoring
  <2>3. QED
    BY <2>1, <2>2
<1>5. QED
  BY <1>3, <1>4

-----------------------------------------------------------------------------
(* Moved checkouts: the invariant.                                         *)

(* A directory is in one place, a marked one is in some, and the records    *)
(* of a marked one are complete.                                           *)
OnePlace == \A p, q \in PathNames : at[p] \in Dirs /\ at[q] = at[p] => p = q
MarkedIsPlaced == \A d \in marked : \E p \in PathNames : at[p] = d
Known(d) ==
  /\ pointer # Absent /\ pointer.identity = [dir |-> d, member |-> pointer.root.member]
  /\ journals[pointer.root] = pointer.change
  /\ pointer.change.member = pointer.root.member
  /\ source[d] = Checkouts!File(pointer.change.text, TRUE)
  /\ ~analysed
CheckoutsInv ==
  /\ Checkouts!TypeOK /\ OnePlace /\ MarkedIsPlaced
  /\ \A d \in marked : Known(d)

LEMMA OneMarked ==
  ASSUME CheckoutsInv, NEW d \in marked, NEW e \in marked
  PROVE  d = e
<1>1. [dir |-> d, member |-> pointer.root.member] = [dir |-> e, member |-> pointer.root.member]
  BY DEF CheckoutsInv, Known
<1>2. [dir |-> d, member |-> pointer.root.member].dir = [dir |-> e, member |-> pointer.root.member].dir
  BY <1>1
<1>3. QED
  BY <1>2

(* A root that passes for the marked directory is where it is.             *)
LEMMA IsThere ==
  ASSUME CheckoutsInv, NEW d \in marked, NEW r \in Checkouts!Roots, Checkouts!MayBe(r, pointer.identity)
  PROVE  at[r.path] = d /\ r.member = pointer.root.member
<1>1. pointer.identity = [dir |-> d, member |-> pointer.root.member]
  BY DEF CheckoutsInv, Known
<1>2. pointer.identity # Absent
  <2>1. d \in Dirs /\ pointer.root.member \in BOOLEAN
    BY DEF CheckoutsInv, Checkouts!TypeOK, Checkouts!Roots, Known
  <2>2. QED
    BY <1>1, <2>1, CheckoutsAssumption
<1>3. [dir |-> at[r.path], member |-> r.member] = [dir |-> d, member |-> pointer.root.member]
  BY <1>1, <1>2 DEF Checkouts!MayBe, Checkouts!Identity
<1>4. QED
  BY <1>3

(* A recovery at the marked directory dies first, or restores it.          *)
LEMMA MarkedRecovers ==
  ASSUME CheckoutsInv, NEW d \in marked, NEW r \in Checkouts!Roots, Checkouts!MayBe(r, pointer.identity),
         NEW o \in Checkouts!RecoverPointed(Checkouts!Disk, r)
  PROVE  \/ o = Checkouts!Died(Checkouts!Disk)
         \/ o.disk.source[d] = Checkouts!File(pointer.change.text, FALSE)
<1> DEFINE change == pointer.change
           restored == Checkouts!RestoredIn(Checkouts!Disk, r, change)
<1>1. /\ pointer # Absent /\ pointer.root \in Checkouts!Roots /\ change \in Checkouts!Records
      /\ d \in Dirs /\ Checkouts!Disk \in Disks
  BY DiskTyped DEF CheckoutsInv, Checkouts!TypeOK, Known
<1>2. /\ Checkouts!Disk.source = source /\ Checkouts!Disk.pointer = pointer
      /\ Checkouts!Disk.journals[pointer.root] = change /\ source[d] = Checkouts!File(change.text, TRUE)
      /\ change # Absent
  BY <1>1, CheckoutsAssumption DEF CheckoutsInv, Known, Checkouts!Disk
<1>3. at[r.path] = d
  BY IsThere
<1>4. o \in Checkouts!RecoverJournal(Checkouts!Disk, r, pointer.root, TRUE)
  BY <1>2 DEF Checkouts!RecoverPointed
<1>5. ~Checkouts!Matches(Checkouts!Disk, r, change, FALSE)
  BY <1>2, <1>3, OriginalIsNoMutant DEF Checkouts!Matches
<1>6. Checkouts!Matches(Checkouts!Disk, r, change, TRUE)
  BY <1>2, <1>3, IsThere DEF Checkouts!Matches, CheckoutsInv, Known
<1>7. \/ o = Checkouts!Died(Checkouts!Disk)
      \/ o \in Checkouts!ClearRecords(restored, pointer.root, TRUE, "Restored")
  BY <1>2, <1>4, <1>5, <1>6 DEF Checkouts!RecoverJournal
<1>8. restored \in Disks
  BY <1>1, <1>3, <1>6, RestoredTyped
<1>9. restored.source[d] = Checkouts!File(change.text, FALSE)
  BY <1>1, <1>2, <1>3 DEF Checkouts!RestoredIn, Disks
<1> HIDE DEF restored, change
<1>10. CASE o \in Checkouts!ClearRecords(restored, pointer.root, TRUE, "Restored")
  <2> DEFINE unpointed == Checkouts!WithoutPointer(restored)
             cleared == Checkouts!WithoutJournal(unpointed, pointer.root)
  <2>1. \/ o = Checkouts!Died(restored) \/ o = Checkouts!Died(unpointed)
        \/ o = Checkouts!Outcome(cleared, "Restored")
    BY <1>10 DEF Checkouts!ClearRecords
  <2>2. unpointed.source = restored.source /\ cleared.source = restored.source
    BY <1>8 DEF Disks, Checkouts!WithoutPointer, Checkouts!WithoutJournal
  <2> HIDE DEF unpointed, cleared
  <2>3. o.disk = restored \/ o.disk = unpointed \/ o.disk = cleared
    BY <2>1 DEF Checkouts!Died, Checkouts!Outcome
  <2>4. QED
    BY <1>9, <2>2, <2>3 DEF change
<1>11. QED
  BY <1>7, <1>10 DEF change

LEMMA KnownOrRestored ==
  ASSUME CheckoutsInv, NEW d \in marked, NEW requested \in Checkouts!Roots, Checkouts!Canonical(requested),
         NEW o \in Checkouts!RecoverActive(requested)
  PROVE  o.disk = Checkouts!Disk \/ o.disk.source[d] # source[d]
<1>1. /\ pointer # Absent /\ d \in Dirs /\ source[d] = Checkouts!File(pointer.change.text, TRUE)
      /\ Checkouts!Disk \in Disks /\ Checkouts!Disk.pointer = pointer
  BY DiskTyped DEF CheckoutsInv, Checkouts!TypeOK, Known, Checkouts!Disk
<1>2. SUFFICES ASSUME o.disk # Checkouts!Disk
               PROVE  o.disk.source[d] # source[d]
  OBVIOUS
<1>3. PICK r \in Checkouts!ActiveRoots(pointer, requested) :
        \E x \in Checkouts!RecoverPointed(Checkouts!Disk, r) :
           o \in Checkouts!FinishRequested(x, pointer.root, requested)
  BY <1>1, <1>2 DEF Checkouts!RecoverActive, Checkouts!Outcome
<1>4. PICK x \in Checkouts!RecoverPointed(Checkouts!Disk, r) :
        o \in Checkouts!FinishRequested(x, pointer.root, requested)
  BY <1>3
<1>5. r \in Checkouts!Roots /\ Checkouts!Canonical(r) /\ Checkouts!MayBe(r, pointer.identity)
  BY <1>1, ActiveIsThere DEF CheckoutsInv
<1>6. CASE x = Checkouts!Died(Checkouts!Disk)
  BY <1>2, <1>4, <1>6 DEF Checkouts!FinishRequested, Checkouts!Died, Checkouts!Outcome
<1>7. CASE x.disk.source[d] = Checkouts!File(pointer.change.text, FALSE)
  <2>1. x.disk \in Disks
    BY <1>1, <1>5, PointedRecovers DEF Checkouts!Canonical
  <2>2. OnlyRestores(x.disk.source, o.disk.source)
    BY <1>4, <2>1, RequestedRecovers DEF Checkouts!Canonical
  <2>3. \E t : o.disk.source[d] = Checkouts!File(t, FALSE)
    BY <1>1, <1>7, <2>2, OriginalIsNoMutant DEF OnlyRestores
  <2>4. QED
    BY <1>1, <2>3, OriginalIsNoMutant
<1>8. QED
  BY <1>5, <1>6, <1>7, MarkedRecovers

(* The steps, one by one. *)
LEMMA CheckoutsBegin == Checkouts!Init => CheckoutsInv
<1> SUFFICES ASSUME Checkouts!Init PROVE CheckoutsInv
  OBVIOUS
<1>1. PICK taken \in SUBSET PathNames : \E place \in [taken -> Dirs] :
        /\ \A p, q \in taken : place[p] = place[q] => p = q
        /\ at = [p \in PathNames |-> IF p \in taken THEN place[p] ELSE Absent]
  BY DEF Checkouts!Init
<1>2. PICK place \in [taken -> Dirs] :
        /\ \A p, q \in taken : place[p] = place[q] => p = q
        /\ at = [p \in PathNames |-> IF p \in taken THEN place[p] ELSE Absent]
  BY <1>1
<1>3. at \in [PathNames -> Dirs \cup PathNames \cup {Absent}]
  BY <1>2
<1>4. OnePlace
  BY <1>2, CheckoutsAssumption DEF OnePlace
<1>5. \A t \in Texts : Checkouts!File(t, FALSE) \in Checkouts!Entries
  BY DEF Checkouts!Entries, Checkouts!File
<1>6. source \in [Dirs -> Checkouts!Entries]
  <2> DEFINE Originals == {Checkouts!File(t, FALSE) : t \in Texts}
  <2>1. source \in [Dirs -> Originals]
    BY DEF Checkouts!Init
  <2>2. Originals \subseteq Checkouts!Entries
    BY <1>5
  <2> HIDE DEF Originals
  <2>3. QED
    BY <2>1, <2>2
<1>7. Checkouts!TypeOK
  BY <1>3, <1>6 DEF Checkouts!Init, Checkouts!TypeOK
<1>8. QED
  BY <1>4, <1>7 DEF CheckoutsInv, MarkedIsPlaced, Checkouts!Init

(* Nothing that Known looks at changes, and marked grows by nothing.       *)
LEMMA RecordsKept ==
  ASSUME CheckoutsInv, UNCHANGED <<journals, pointer>>, marked' \subseteq marked,
         \A d \in marked' : source'[d] = source[d] /\ ~analysed'
  PROVE  \A d \in marked' : Known(d)'
  BY DEF CheckoutsInv, Known

LEMMA CheckoutsRecover ==
  ASSUME CheckoutsInv, NEW requested \in Checkouts!Roots, Checkouts!Recover(requested)
  PROVE  CheckoutsInv'
<1>1. PICK o \in Checkouts!RecoverActive(requested) :
        /\ source' = o.disk.source /\ journals' = o.disk.journals /\ pointer' = o.disk.pointer
        /\ marked' = {d \in marked : o.disk.source[d] = source[d]}
  BY DEF Checkouts!Recover
<1>2. at' = at /\ analysed' = FALSE /\ Checkouts!Canonical(requested)
  BY DEF Checkouts!Recover
<1>3. o.disk \in Disks
  BY <1>2, ActiveRecovers DEF CheckoutsInv
<1>4. Checkouts!TypeOK'
  BY <1>1, <1>2, <1>3 DEF CheckoutsInv, Checkouts!TypeOK, Disks, Pointers
<1>5. OnePlace' /\ MarkedIsPlaced'
  BY <1>1, <1>2 DEF CheckoutsInv, OnePlace, MarkedIsPlaced
<1>6. ASSUME NEW d \in marked'
      PROVE  Known(d)'
  <2>1. d \in marked /\ o.disk.source[d] = source[d]
    BY <1>1
  <2>2. o.disk = Checkouts!Disk
    BY <1>2, <2>1, KnownOrRestored
  <2>3. UNCHANGED <<source, journals, pointer>>
    BY <1>1, <2>2 DEF Checkouts!Disk
  <2>4. QED
    BY <1>2, <2>1, <2>3 DEF CheckoutsInv, Known
<1>7. QED
  BY <1>4, <1>5, <1>6 DEF CheckoutsInv

LEMMA CheckoutsAnalyse ==
  ASSUME CheckoutsInv, NEW root \in Checkouts!Roots, Checkouts!Analyse(root)
  PROVE  CheckoutsInv'
<1>1. UNCHANGED <<at, source, journals, pointer, marked>> /\ (analysed' <=> pointer = Absent /\ journals[root] = Absent)
      /\ analysed' \in BOOLEAN
  BY DEF Checkouts!Analyse
<1>2. \A d \in marked : pointer # Absent
  BY DEF CheckoutsInv, Known
<1>3. \A d \in marked' : Known(d)'
  BY <1>1, <1>2, RecordsKept
<1>4. QED
  BY <1>1, <1>3 DEF CheckoutsInv, Checkouts!TypeOK, OnePlace, MarkedIsPlaced

LEMMA CheckoutsCrash ==
  ASSUME CheckoutsInv, NEW root \in Checkouts!Roots, Checkouts!CrashedMutation(root)
  PROVE  CheckoutsInv'
<1> DEFINE d == at[root.path]
<1>1. marked = {} /\ d \in Dirs /\ root.path \in PathNames /\ root.member \in BOOLEAN
  BY DEF CheckoutsInv, Known, Checkouts!CrashedMutation, Checkouts!Canonical, Checkouts!Roots
<1>2. PICK t \in Texts, steps \in 1..3, known \in BOOLEAN :
        /\ journals' = [journals EXCEPT ![root] = Checkouts!Recorded(root, t)]
        /\ pointer' = IF steps = 1 THEN Absent
                      ELSE [root |-> root, change |-> Checkouts!Recorded(root, t),
                            identity |-> IF known THEN Checkouts!Identity(root) ELSE Absent]
        /\ source' = IF steps < 3 THEN source ELSE [source EXCEPT ![d] = Checkouts!File(t, TRUE)]
        /\ marked' = IF steps = 3 /\ known THEN marked \cup {d} ELSE marked
        /\ analysed' = FALSE /\ UNCHANGED at
  BY DEF Checkouts!CrashedMutation
<1>3. /\ Checkouts!Recorded(root, t) \in Checkouts!Records /\ Checkouts!Recorded(root, t).member = root.member
      /\ Checkouts!Recorded(root, t).text = t
  BY <1>1 DEF Checkouts!Recorded, Checkouts!Records
<1>4. Checkouts!Identity(root) = [dir |-> d, member |-> root.member]
  BY DEF Checkouts!Identity
<1>5. Checkouts!File(t, TRUE) \in Checkouts!Entries
  BY DEF Checkouts!Entries, Checkouts!File
<1>6. Checkouts!TypeOK'
  <2>1. /\ at' \in [PathNames -> Dirs \cup PathNames \cup {Absent}] /\ source' \in [Dirs -> Checkouts!Entries]
        /\ journals' \in [Checkouts!Roots -> Checkouts!Records \cup {Absent}]
        /\ marked' \subseteq Dirs /\ analysed' \in BOOLEAN
    BY <1>1, <1>2, <1>3, <1>5 DEF CheckoutsInv, Checkouts!TypeOK
  <2>2. pointer' \in Pointers
    BY <1>1, <1>2, <1>3, <1>4 DEF Pointers
  <2>3. QED
    BY <2>1, <2>2 DEF Checkouts!TypeOK, Pointers
<1>7. OnePlace' /\ MarkedIsPlaced'
  BY <1>1, <1>2 DEF CheckoutsInv, OnePlace, MarkedIsPlaced
<1>8. ASSUME NEW e \in marked'
      PROVE  Known(e)'
  <2>1. e = d /\ steps = 3 /\ known
    BY <1>1, <1>2
  <2>2. pointer' = [root |-> root, change |-> Checkouts!Recorded(root, t), identity |-> [dir |-> d, member |-> root.member]]
    BY <1>2, <1>4, <2>1
  <2>3. pointer' # Absent
    BY <1>1, <1>3, <2>2, CheckoutsAssumption
  <2>4. journals'[root] = Checkouts!Recorded(root, t) /\ source'[d] = Checkouts!File(t, TRUE)
    <3>1. source' = [source EXCEPT ![d] = Checkouts!File(t, TRUE)]
      BY <1>2, <2>1
    <3>2. journals' = [journals EXCEPT ![root] = Checkouts!Recorded(root, t)]
      BY <1>2
    <3>3. d \in Dirs /\ source \in [Dirs -> Checkouts!Entries]
          /\ journals \in [Checkouts!Roots -> Checkouts!Records \cup {Absent}]
      BY <1>1 DEF CheckoutsInv, Checkouts!TypeOK
    <3> HIDE DEF d
    <3>4. QED
      BY <3>1, <3>2, <3>3
  <2>5. ~analysed'
    BY <1>2
  <2> HIDE DEF d
  <2>6. pointer'.root = root /\ pointer'.change = Checkouts!Recorded(root, t)
        /\ pointer'.identity = [dir |-> d, member |-> root.member]
    BY <2>2
  <2>7. QED
    BY <1>3, <2>1, <2>3, <2>4, <2>5, <2>6 DEF Known
<1>9. QED
  BY <1>6, <1>7, <1>8 DEF CheckoutsInv

LEMMA CheckoutsHumans ==
  ASSUME CheckoutsInv, Checkouts!Humans
  PROVE  CheckoutsInv'
<1>1. ASSUME NEW p \in PathNames, NEW q \in PathNames, Checkouts!Move(p, q)
      PROVE  CheckoutsInv'
  <2>1. p # q /\ at' = [at EXCEPT ![p] = Absent, ![q] = at[p]] /\ at[p] \in Dirs /\ at[q] = Absent
    BY <1>1, CheckoutsAssumption DEF Checkouts!Move
  <2>2. UNCHANGED <<source, journals, pointer, marked>> /\ analysed' = FALSE
    BY <1>1 DEF Checkouts!Move
  <2>3. Checkouts!TypeOK'
    BY <2>1, <2>2 DEF CheckoutsInv, Checkouts!TypeOK
  <2>4. OnePlace'
    BY <2>1, CheckoutsAssumption DEF CheckoutsInv, Checkouts!TypeOK, OnePlace
  <2>5. MarkedIsPlaced'
    BY <2>1, <2>2, CheckoutsAssumption DEF CheckoutsInv, Checkouts!TypeOK, MarkedIsPlaced
  <2>6. QED
    BY <2>2, <2>3, <2>4, <2>5, RecordsKept DEF CheckoutsInv
<1>2. ASSUME NEW p \in PathNames, NEW q \in PathNames, Checkouts!LinkTo(p, q)
      PROVE  CheckoutsInv'
  <2>1. at' = [at EXCEPT ![p] = q] /\ at[p] = Absent /\ q \notin Dirs
    BY <1>2, CheckoutsAssumption DEF Checkouts!LinkTo
  <2>2. UNCHANGED <<source, journals, pointer, marked>> /\ analysed' = FALSE
    BY <1>2 DEF Checkouts!LinkTo
  <2>3. Checkouts!TypeOK'
    BY <2>1, <2>2 DEF CheckoutsInv, Checkouts!TypeOK
  <2>4. OnePlace' /\ MarkedIsPlaced'
    BY <2>1, <2>2, CheckoutsAssumption DEF CheckoutsInv, Checkouts!TypeOK, OnePlace, MarkedIsPlaced
  <2>5. QED
    BY <2>2, <2>3, <2>4, RecordsKept DEF CheckoutsInv
<1>3. ASSUME NEW p \in PathNames, Checkouts!Remove(p)
      PROVE  CheckoutsInv'
  <2>1. at' = [at EXCEPT ![p] = Absent] /\ marked' = marked \ {at[p]}
    BY <1>3 DEF Checkouts!Remove
  <2>2. UNCHANGED <<source, journals, pointer>> /\ analysed' = FALSE
    BY <1>3 DEF Checkouts!Remove
  <2>3. Checkouts!TypeOK'
    BY <2>1, <2>2 DEF CheckoutsInv, Checkouts!TypeOK
  <2>4. OnePlace' /\ MarkedIsPlaced'
    BY <2>1, CheckoutsAssumption DEF CheckoutsInv, Checkouts!TypeOK, OnePlace, MarkedIsPlaced
  <2>5. QED
    BY <2>1, <2>2, <2>3, <2>4, RecordsKept DEF CheckoutsInv
<1>4. ASSUME NEW p \in PathNames, NEW d \in Dirs, NEW entry \in Checkouts!Entries, Checkouts!Create(p, d, entry)
      PROVE  CheckoutsInv'
  <2>1. at' = [at EXCEPT ![p] = d] /\ at[p] = Absent /\ \A x \in PathNames : at[x] # d
    BY <1>4 DEF Checkouts!Create, Checkouts!Free
  <2>2. UNCHANGED <<journals, pointer, marked>> /\ analysed' = FALSE /\ source' = [source EXCEPT ![d] = entry]
    BY <1>4 DEF Checkouts!Create
  <2>3. Checkouts!TypeOK'
    BY <2>1, <2>2 DEF CheckoutsInv, Checkouts!TypeOK
  <2>4. OnePlace' /\ MarkedIsPlaced'
    BY <2>1, <2>2, CheckoutsAssumption DEF CheckoutsInv, Checkouts!TypeOK, OnePlace, MarkedIsPlaced
  <2>5. \A x \in marked' : source'[x] = source[x]
    BY <2>1, <2>2 DEF CheckoutsInv, Checkouts!TypeOK, MarkedIsPlaced
  <2>6. QED
    BY <2>2, <2>3, <2>4, <2>5, RecordsKept DEF CheckoutsInv
<1>5. ASSUME NEW d \in Dirs, NEW entry \in Checkouts!Entries, Checkouts!Edit(d, entry)
      PROVE  CheckoutsInv'
  <2>1. source' = [source EXCEPT ![d] = entry] /\ marked' = marked \ {d} /\ UNCHANGED <<at, journals, pointer>>
        /\ analysed' = FALSE
    BY <1>5 DEF Checkouts!Edit
  <2>2. Checkouts!TypeOK' /\ OnePlace' /\ MarkedIsPlaced'
    BY <2>1 DEF CheckoutsInv, Checkouts!TypeOK, OnePlace, MarkedIsPlaced
  <2>3. \A x \in marked' : source'[x] = source[x]
    BY <2>1 DEF CheckoutsInv, Checkouts!TypeOK
  <2>4. QED
    BY <2>1, <2>2, <2>3, RecordsKept DEF CheckoutsInv
<1>6. \A t \in Texts : Checkouts!File(t, FALSE) \in Checkouts!Entries
  BY DEF Checkouts!Entries, Checkouts!File
<1>7. Checkouts!Unusable \in Checkouts!Entries /\ source \in [Dirs -> Checkouts!Entries]
  BY DEF Checkouts!Entries, CheckoutsInv, Checkouts!TypeOK
<1>8. CASE \E p, q \in PathNames : Checkouts!Move(p, q) \/ Checkouts!LinkTo(p, q)
  BY <1>1, <1>2, <1>8
<1>9. CASE \E p \in PathNames : Checkouts!Remove(p)
  BY <1>3, <1>9
<1>10. CASE \E p \in PathNames, d \in Dirs, t \in Texts : Checkouts!Create(p, d, Checkouts!File(t, FALSE))
  BY <1>4, <1>6, <1>10
<1>11. CASE \E p \in PathNames, d \in Dirs, q \in PathNames : at[q] \in Dirs /\ Checkouts!Create(p, d, source[at[q]])
  BY <1>4, <1>7, <1>11
<1>12. CASE \E p \in PathNames, entry \in {Checkouts!File(t, FALSE) : t \in Texts} \cup {Checkouts!Unusable} :
              at[p] \in Dirs /\ Checkouts!Edit(at[p], entry)
  BY <1>5, <1>6, <1>7, <1>12
<1>13. QED
  BY <1>8, <1>9, <1>10, <1>11, <1>12 DEF Checkouts!Humans

LEMMA CheckoutsStep == CheckoutsInv /\ [Checkouts!Next]_checkouts => CheckoutsInv'
<1> SUFFICES ASSUME CheckoutsInv, [Checkouts!Next]_checkouts PROVE CheckoutsInv'
  OBVIOUS
<1>1. CASE UNCHANGED checkouts
  BY <1>1 DEF checkouts, CheckoutsInv, Checkouts!TypeOK, OnePlace, MarkedIsPlaced, Known
<1>2. CASE Checkouts!Next
  BY <1>2, CheckoutsHumans, CheckoutsRecover, CheckoutsAnalyse, CheckoutsCrash DEF Checkouts!Next
<1>3. QED
  BY <1>1, <1>2

-----------------------------------------------------------------------------
(* Moved checkouts: what the invariant gives.                              *)

(* At the place of the marked directory, the pointed root is recovered.    *)
LEMMA ActiveAtPlace ==
  ASSUME CheckoutsInv, NEW d \in marked, NEW r \in Checkouts!Whereabouts(pointer),
         r = pointer.root \/ ~Checkouts!Exists(pointer.root.path)
  PROVE  r \in Checkouts!ActiveRoots(pointer, r)
<1>1. /\ r \in Checkouts!Roots /\ Checkouts!Canonical(r) /\ pointer.identity = Checkouts!Identity(r)
      /\ pointer # Absent /\ pointer.root \in Checkouts!Roots
  BY DEF Checkouts!Whereabouts, CheckoutsInv, Checkouts!TypeOK, Known
<1>2. Checkouts!MayBe(r, pointer.identity)
  BY <1>1 DEF Checkouts!MayBe
<1>3. CASE r = pointer.root
  BY <1>1, <1>2, <1>3 DEF Checkouts!ActiveRoots, Checkouts!Validated
<1>4. CASE ~Checkouts!Exists(pointer.root.path)
  <2>1. ~Checkouts!Validated(pointer)
    BY <1>4 DEF Checkouts!Validated, Checkouts!Canonical, Checkouts!Exists
  <2>2. Checkouts!Matches(Checkouts!Disk, r, pointer.change, TRUE)
    BY <1>1, <1>2, IsThere DEF CheckoutsInv, Known, Checkouts!Matches, Checkouts!Disk
  <2>3. Checkouts!Moved(pointer, r)
    BY <1>2, <1>4, <2>2, TRUE \in BOOLEAN DEF Checkouts!Moved
  <2>4. QED
    BY <2>1, <2>3 DEF Checkouts!ActiveRoots
<1>5. QED
  BY <1>3, <1>4

(* A journal that is there is recovered to its end.                        *)
LEMMA OwnRecovery ==
  ASSUME NEW disk \in Disks, NEW r \in Checkouts!Roots
  PROVE  \E own \in Checkouts!RecoverProject(disk, r) :
            own.says # "died" /\ own.disk.pointer = disk.pointer
<1>1. CASE disk.journals[r] = Absent
  BY <1>1 DEF Checkouts!RecoverProject, Checkouts!Outcome
<1>2. CASE disk.journals[r] # Absent
  <2> DEFINE change == disk.journals[r]
             restored == Checkouts!RestoredIn(disk, r, change)
  <2>1. Checkouts!RecoverProject(disk, r) = Checkouts!RecoverJournal(disk, r, r, FALSE)
    BY <1>2 DEF Checkouts!RecoverProject
  <2>2. CASE Checkouts!Matches(disk, r, change, FALSE)
    <3>1. Checkouts!Outcome(Checkouts!WithoutJournal(disk, r), "AlreadyClean") \in Checkouts!RecoverProject(disk, r)
      BY <2>1, <2>2 DEF Checkouts!RecoverJournal, Checkouts!ClearRecords
    <3>2. Checkouts!WithoutJournal(disk, r).pointer = disk.pointer
      BY DEF Disks, Checkouts!WithoutJournal
    <3>3. QED
      BY <3>1, <3>2 DEF Checkouts!Outcome
  <2>3. CASE ~Checkouts!Matches(disk, r, change, FALSE) /\ Checkouts!Matches(disk, r, change, TRUE)
    <3>1. Checkouts!Outcome(Checkouts!WithoutJournal(restored, r), "Restored") \in Checkouts!RecoverProject(disk, r)
      BY <2>1, <2>3 DEF Checkouts!RecoverJournal, Checkouts!ClearRecords
    <3>2. Checkouts!WithoutJournal(restored, r).pointer = disk.pointer
      BY DEF Disks, Checkouts!WithoutJournal, Checkouts!RestoredIn
    <3>3. QED
      BY <3>1, <3>2 DEF Checkouts!Outcome
  <2>4. CASE ~Checkouts!Matches(disk, r, change, FALSE) /\ ~Checkouts!Matches(disk, r, change, TRUE)
    <3>1. Checkouts!Outcome(disk, "refused") \in Checkouts!RecoverProject(disk, r)
      BY <2>1, <2>4 DEF Checkouts!RecoverJournal
    <3>2. QED
      BY <3>1 DEF Checkouts!Outcome
  <2>5. QED
    BY <2>2, <2>3, <2>4
<1>3. QED
  BY <1>1, <1>2

(* The marked directory can be restored where it is.                       *)
LEMMA RestoredAtPlace ==
  ASSUME CheckoutsInv, NEW d \in marked, NEW r \in Checkouts!Whereabouts(pointer),
         r = pointer.root \/ ~Checkouts!Exists(pointer.root.path)
  PROVE  \E o \in Checkouts!RecoverActive(r) :
            /\ o.says # "died" /\ o.disk.pointer = Absent
            /\ o.disk.source[d] = Checkouts!File(pointer.change.text, FALSE)
<1> DEFINE change == pointer.change
           restored == Checkouts!RestoredIn(Checkouts!Disk, r, change)
           cleared == Checkouts!WithoutJournal(Checkouts!WithoutPointer(restored), pointer.root)
           first == Checkouts!Outcome(cleared, "Restored")
           original == Checkouts!File(change.text, FALSE)
<1>1. /\ pointer # Absent /\ pointer.root \in Checkouts!Roots /\ change \in Checkouts!Records /\ d \in Dirs
      /\ Checkouts!Disk \in Disks /\ Checkouts!Disk.pointer = pointer /\ Checkouts!Disk.source = source
      /\ Checkouts!Disk.journals[pointer.root] = change /\ change # Absent
      /\ source[d] = Checkouts!File(change.text, TRUE) /\ change.member = pointer.root.member
  BY DiskTyped, CheckoutsAssumption DEF CheckoutsInv, Checkouts!TypeOK, Known, Checkouts!Disk
<1>2. r \in Checkouts!Roots /\ Checkouts!Canonical(r) /\ Checkouts!MayBe(r, pointer.identity)
  BY DEF Checkouts!Whereabouts, Checkouts!MayBe
<1>3. at[r.path] = d /\ r.member = pointer.root.member
  BY <1>2, IsThere
<1>4. ~Checkouts!Matches(Checkouts!Disk, r, change, FALSE)
  BY <1>1, <1>3, OriginalIsNoMutant DEF Checkouts!Matches
<1>5. Checkouts!Matches(Checkouts!Disk, r, change, TRUE)
  BY <1>1, <1>3 DEF Checkouts!Matches
<1>6. first \in Checkouts!ClearRecords(restored, pointer.root, TRUE, "Restored")
  BY DEF Checkouts!ClearRecords
<1>7. first \in Checkouts!RecoverJournal(Checkouts!Disk, r, pointer.root, TRUE)
  BY <1>1, <1>4, <1>5, <1>6 DEF Checkouts!RecoverJournal
<1>8. first \in Checkouts!RecoverPointed(Checkouts!Disk, r)
  BY <1>1, <1>7 DEF Checkouts!RecoverPointed
<1>9. restored \in Disks
  BY <1>1, <1>2, <1>3, <1>5, RestoredTyped
<1>10. restored.source[d] = original
  BY <1>1, <1>3 DEF Checkouts!RestoredIn, Disks
<1> HIDE DEF restored
<1>11. cleared \in Disks /\ cleared.source = restored.source /\ cleared.pointer = Absent
  BY <1>1, <1>9 DEF Disks, Pointers, Checkouts!WithoutPointer, Checkouts!WithoutJournal
<1>12. first.disk = cleared /\ first.says = "Restored"
  BY DEF Checkouts!Outcome
<1> HIDE DEF first, cleared, original
<1>13. \A o \in Checkouts!FinishRequested(first, pointer.root, r) : o \in Checkouts!RecoverActive(r)
  <2>1. r \in {x \in Checkouts!ActiveRoots(pointer, r) : Checkouts!RootsOverlap(r, x)}
    BY ActiveAtPlace DEF Checkouts!RootsOverlap
  <2>2. QED
    BY <1>1, <1>8, <2>1 DEF Checkouts!RecoverActive
<1>14. \E o \in Checkouts!FinishRequested(first, pointer.root, r) : o.says # "died" /\ o.disk.pointer = Absent
  <2>1. CASE pointer.root = r
    BY <1>11, <1>12, <2>1 DEF Checkouts!FinishRequested
  <2>2. CASE pointer.root # r
    <3>1. PICK own \in Checkouts!RecoverProject(cleared, r) : own.says # "died" /\ own.disk.pointer = Absent
      BY <1>2, <1>11, OwnRecovery
    <3>2. \/ own \in Checkouts!FinishRequested(first, pointer.root, r)
          \/ Checkouts!Outcome(own.disk, Checkouts!Combined("Restored", own.says))
               \in Checkouts!FinishRequested(first, pointer.root, r)
      BY <1>12, <2>2, <3>1 DEF Checkouts!FinishRequested
    <3>3. Checkouts!Combined("Restored", own.says) = "Restored"
      BY DEF Checkouts!Combined
    <3>4. QED
      BY <3>1, <3>2, <3>3 DEF Checkouts!Outcome
  <2>3. QED
    BY <2>1, <2>2
<1>15. PICK o \in Checkouts!FinishRequested(first, pointer.root, r) : o.says # "died" /\ o.disk.pointer = Absent
  BY <1>14
<1>16. o.disk.source[d] = original
  <2>1. OnlyRestores(cleared.source, o.disk.source)
    BY <1>2, <1>11, <1>12, RequestedRecovers DEF Checkouts!Canonical
  <2>2. QED
    BY <1>1, <1>10, <1>11, <2>1, OriginalIsNoMutant DEF OnlyRestores, original
<1>17. QED
  BY <1>13, <1>15, <1>16 DEF original

(* Wherever the humans move, copy, link or remove checkouts, and whenever a *)
(* mutation or a recovery dies, a directory that holds a mutant and whose   *)
(* pointer has its identity stays known, and can be restored               *)
(* (recover_active_locked, recover_moved_active_root).                     *)
THEOREM CheckoutsStayKnown == Checkouts!Spec => []MutatedCheckoutStaysKnown
<1>1. Checkouts!Init => CheckoutsInv
  BY CheckoutsBegin
<1>2. CheckoutsInv /\ [Checkouts!Next]_checkouts => CheckoutsInv'
  BY CheckoutsStep
<1>3. CheckoutsInv => MutatedCheckoutStaysKnown
  <2> SUFFICES ASSUME CheckoutsInv, NEW d \in marked
               PROVE  /\ Known(d)
                      /\ \A r \in Checkouts!Whereabouts(pointer) :
                            r = pointer.root \/ ~Checkouts!Exists(pointer.root.path)
                              => \E ending \in Checkouts!RecoverActive(r) :
                                    /\ ending.says # "died"
                                    /\ ending.disk.source[d] = Checkouts!File(pointer.change.text, FALSE)
                                    /\ ending.disk.pointer = Absent
    BY DEF MutatedCheckoutStaysKnown, Checkouts!MutatedCheckoutStaysKnown, Known
  <2>1. Known(d)
    BY DEF CheckoutsInv
  <2>2. QED
    BY <2>1, RestoredAtPlace
<1>4. QED
  BY <1>1, <1>2, <1>3, PTL DEF Checkouts!Spec, Checkouts!vars, checkouts
-----------------------------------------------------------------------------
(* The choice of backends: the invariant.                                  *)

SourceFiles == DOMAIN project.language
Native == project.request.backend = "native"
Asked == project.request.backend # "generic"
NotedFor(s) == ~Native /\ Routing!Noted(Routing!Routers(s.language), s.file)
Routed == {"clang", "preflight", "validate", "dump"}

(* The sources before Clang's units join them are those of discovery.      *)
SourcesKnown ==
  /\ project \in RoutedProjects
  /\ phase \in {"start", "rust", "generic", "done", "failed"} \cup Routed
  /\ phase = "start" => sources = {} /\ notes = {}
  /\ phase \in {"rust"} \cup Routed =>
       \A s \in sources : s.file \in SourceFiles /\ s.language = project.language[s.file]

UnitRecord == [file : SourceFiles \cup {0}, language : Routing!CFamily \cup {"none"},
               status : {"skipped", "pending", "valid", "invalid", "analyzed", "failed"}]

(* A unit that was not skipped is of the C family, and its file no crate's. *)
UnitsKnown ==
  /\ units \in Seq(UnitRecord)
  /\ \A i \in DOMAIN units :
       IF units[i].status = "skipped" THEN units[i].file = 0
       ELSE /\ units[i].file \in SourceFiles \ project.crates
            /\ units[i].language \in Routing!CFamily
  /\ phase = "dump" => \A i \in DOMAIN units : units[i].status # "pending"

(* Clang's records are functions of the project, one of each symbol.       *)
RecordsKnown ==
  /\ \A r \in records : /\ r = [file |-> r.file, at |-> r.at, language |-> r.language]
                        /\ r.file \in SourceFiles /\ r.at \in DOMAIN project.code[r.file]
  /\ \A r, q \in records : Routing!SameSymbol(r, q) => r = q

IsFunction(n) ==
  n = [file |-> n.file, at |-> n.at, by |-> n.by, language |-> n.language, facts |-> n.facts]

(* Which backend's functions there are, and that none of Rust's is left.   *)
FunctionsKnown ==
  /\ \A n \in functions : IsFunction(n) /\ n.by \in {"rust", "clang", "syntax"}
  /\ phase \in {"start", "rust"} => functions = {}
  /\ phase \in Routed => \A n \in functions : n.by = "rust"
  /\ \A n \in functions : n.by = "rust" => n.file \in project.crates
  /\ \A n \in functions, s \in sources : n.by = "rust" => n.file # s.file

(* What a native backend leaves is noted before the syntax backend begins. *)
LeftNoted ==
  /\ phase \notin {"start", "failed"} /\ Asked /\ ~project.request.exec =>
       ~Native /\ <<"project-router", 0>> \in notes
  /\ phase \in Routed => \A s \in sources : Asked /\ s.language = "rust" => NotedFor(s)
  /\ phase = "generic" =>
       \A s \in sources : Asked /\ s.language \in Routing!CFamily \cup {"rust"} =>
          s.file \in authoritative \/ NotedFor(s)

(* The functions of the syntax backend.                                    *)
SyntaxApart ==
  \A n \in functions : n.by = "syntax" =>
     /\ n.file \notin authoritative
     /\ \A m \in functions : m.file = n.file => m.by # "rust"
     /\ Routing!LeftOver(n) => NotedFor(n)

(* Clang's functions: one of each symbol, with the structure of their own.  *)
ClangApart ==
  /\ \A n \in functions : n.by = "clang" =>
       /\ n.file \in SourceFiles /\ n.at \in DOMAIN project.code[n.file]
       /\ n.facts # 0 => n.at = n.facts \/ ~Routing!ShownByClang(n.file, n.facts)
  /\ \A n, m \in functions : n.by = "clang" /\ m.by = "clang" /\ Routing!SameSymbol(n, m) => n.at = m.at

RoutingInv ==
  SourcesKnown /\ UnitsKnown /\ RecordsKnown /\ FunctionsKnown /\ LeftNoted /\ SyntaxApart /\ ClangApart

USE DEF Asked, Native, Routed, SourceFiles

LEMMA ProjectConsistent ==
  ASSUME SourcesKnown
  PROVE  Routing!Consistent(project)
  BY RoutingAssumption DEF SourcesKnown

LEMMA RoutingBegin == Routing!Init => RoutingInv
<1> SUFFICES ASSUME Routing!Init PROVE RoutingInv
  OBVIOUS
<1>1. SourcesKnown /\ RecordsKnown /\ FunctionsKnown /\ LeftNoted /\ SyntaxApart /\ ClangApart
  BY DEF Routing!Init, SourcesKnown, RecordsKnown, FunctionsKnown, LeftNoted, SyntaxApart,
         ClangApart
<1>2. UnitsKnown
  <2>1. units = <<>> /\ phase = "start"
    BY DEF Routing!Init
  <2>2. QED
    BY <2>1 DEF UnitsKnown, UnitRecord
<1>3. QED
  BY <1>1, <1>2 DEF RoutingInv

(* What is noted stays noted. *)
LEMMA StaysNoted ==
  ASSUME UNCHANGED project, notes \subseteq notes', NEW s, NotedFor(s)
  PROVE  NotedFor(s)'
  BY DEF NotedFor, Routing!Noted, Routing!Routers, Routing!Native, Routing!request

LEMMA SyntaxKept ==
  ASSUME SyntaxApart, UNCHANGED <<project, functions, authoritative>>, notes \subseteq notes'
  PROVE  SyntaxApart'
<1>1. \A n : Routing!LeftOver(n)' <=> Routing!LeftOver(n)
  BY DEF Routing!LeftOver, Routing!request
<1>2. \A n : NotedFor(n) => NotedFor(n)'
  BY StaysNoted
<1>3. QED
  BY <1>1, <1>2 DEF SyntaxApart

LEMMA ClangKept ==
  ASSUME ClangApart, UNCHANGED <<project, functions>>
  PROVE  ClangApart'
  BY DEF ClangApart, Routing!ShownByClang, Routing!SameSymbol, Routing!Code

LEMMA RecordsKept2 ==
  ASSUME RecordsKnown, UNCHANGED <<project, records>>
  PROVE  RecordsKnown'
  BY DEF RecordsKnown, Routing!SameSymbol, Routing!Code

LEMMA FailKeeps ==
  ASSUME RoutingInv, Routing!Fail
  PROVE  RoutingInv'
<1>1. phase' = "failed" /\ UNCHANGED <<project, sources, units, charged, records, functions, notes, authoritative>>
  BY DEF Routing!Fail
<1>2. SyntaxApart' /\ ClangApart' /\ RecordsKnown'
  BY <1>1, SyntaxKept, ClangKept, RecordsKept2 DEF RoutingInv
<1>3. QED
  BY <1>1, <1>2 DEF RoutingInv, SourcesKnown, UnitsKnown, UnitRecord, FunctionsKnown, LeftNoted

(* To the next phase, with a note that covers all that is left to it. *)
LEMMA ResolveStep ==
  ASSUME RoutingInv, Routing!Resolve
  PROVE  RoutingInv'
<1>1. CASE Routing!Fail
  BY <1>1, FailKeeps
<1>2. CASE ~Routing!Fail
  <2>1. /\ phase = "start" /\ phase' = "rust" /\ ~(Native /\ ~project.request.exec)
        /\ sources' = {[file |-> f, language |-> project.language[f]] : f \in project.found}
        /\ notes' = IF project.request.backend = "auto" /\ ~project.request.exec THEN {<<"project-router", 0>>} ELSE {}
        /\ UNCHANGED <<project, units, charged, records, functions, authoritative>>
    BY <1>2 DEF Routing!Resolve, Routing!Native, Routing!request
  <2>2. SourcesKnown'
    BY <2>1, ProjectConsistent DEF RoutingInv, SourcesKnown, Routing!Consistent
  <2>3. functions = {} /\ functions' = {} /\ notes = {}
    BY <2>1 DEF RoutingInv, FunctionsKnown, SourcesKnown
  <2>4. UnitsKnown' /\ RecordsKnown' /\ ClangApart'
    BY <2>1, ClangKept, RecordsKept2 DEF RoutingInv, UnitsKnown, UnitRecord
  <2>5. FunctionsKnown' /\ SyntaxApart'
    BY <2>1, <2>3 DEF RoutingInv, FunctionsKnown, SyntaxApart
  <2>6. LeftNoted'
    BY <2>1, ProjectConsistent DEF RoutingInv, LeftNoted, Routing!Consistent
  <2>7. QED
    BY <2>2, <2>4, <2>5, <2>6 DEF RoutingInv
<1>3. QED
  BY <1>1, <1>2

(* A step that only moves on needs to keep units, records and notes right. *)
LEMMA Onward ==
  ASSUME RoutingInv, UNCHANGED <<project, sources, functions, authoritative>>, notes \subseteq notes',
         phase \in {"rust"} \cup Routed \/ (phase # "start" /\ phase' \in {"generic", "done"}),
         phase' \in {"generic", "done"} \cup Routed,
         UnitsKnown', RecordsKnown', LeftNoted'
  PROVE  RoutingInv'
<1>1. SyntaxApart' /\ ClangApart'
  BY SyntaxKept, ClangKept DEF RoutingInv
<1>2. SourcesKnown'
  BY DEF RoutingInv, SourcesKnown
<1>3. FunctionsKnown'
  <2>1. phase' \in Routed => \A n \in functions : n.by = "rust"
    BY DEF RoutingInv, FunctionsKnown
  <2>2. QED
    BY <2>1 DEF RoutingInv, FunctionsKnown, IsFunction
<1>4. QED
  BY <1>1, <1>2, <1>3 DEF RoutingInv

(* The notes that a step finds are still there after it. *)
LEMMA StillNoted ==
  ASSUME RoutingInv, UNCHANGED <<project, sources, authoritative>>, notes \subseteq notes', phase \in {"rust"} \cup Routed,
         phase' \in {"generic"} \cup Routed,
         phase = "rust" => \A s \in sources : Asked /\ s.language = "rust" => NotedFor(s)',
         phase' = "generic" =>
           \A s \in sources : Asked /\ s.language \in Routing!CFamily => s.file \in authoritative \/ NotedFor(s)'
  PROVE  LeftNoted'
<1>1. \A s : NotedFor(s) => NotedFor(s)'
  BY StaysNoted
<1>2. \A s \in sources : Asked /\ s.language = "rust" => NotedFor(s)'
  BY <1>1 DEF RoutingInv, LeftNoted
<1>3. Asked /\ ~project.request.exec => ~Native /\ <<"project-router", 0>> \in notes'
  BY DEF RoutingInv, LeftNoted
<1>4. QED
  BY <1>2, <1>3 DEF LeftNoted, NotedFor

LEMMA MissingStep ==
  ASSUME RoutingInv, NEW router, NEW next \in {"clang", "generic"}, Routing!Missing(router, next),
         IF next = "clang" THEN phase = "rust" /\ router = "rust-router" ELSE phase \in Routed /\ router = "clang-router"
  PROVE  RoutingInv'
<1>1. CASE Native
  BY <1>1, FailKeeps DEF Routing!Missing, Routing!Native, Routing!request
<1>2. CASE ~Native
  <2>1. /\ phase' = next /\ notes' = notes \cup {<<router, 0>>}
        /\ UNCHANGED <<project, sources, units, charged, records, functions, authoritative>>
    BY <1>2 DEF Routing!Missing, Routing!Native, Routing!request
  <2>2. UnitsKnown' /\ RecordsKnown'
    BY <2>1, RecordsKept2 DEF RoutingInv, UnitsKnown, UnitRecord
  <2>3. \A s : (IF next = "clang" THEN s.language = "rust" ELSE s.language \in Routing!CFamily) => NotedFor(s)'
    BY <1>2, <2>1 DEF NotedFor, Routing!Noted, Routing!Routers, Routing!CFamily
  <2>4. LeftNoted'
    BY <2>1, <2>3, StillNoted
  <2>5. QED
    BY <2>1, <2>2, <2>4, Onward
<1>3. QED
  BY <1>1, <1>2

LEMMA FallbackStep ==
  ASSUME RoutingInv, NEW router, NEW error, NEW next \in {"clang", "generic"}, Routing!Fallback(router, error, next),
         IF next = "clang" THEN phase = "rust" /\ router = "rust-router" ELSE phase \in Routed /\ router = "clang-router"
  PROVE  RoutingInv'
<1>1. CASE Routing!Propagates(error)
  BY <1>1, FailKeeps DEF Routing!Fallback
<1>2. CASE ~Routing!Propagates(error)
  <2>1. /\ phase' = next /\ notes' = notes \cup {<<router, 0>>} /\ ~Native
        /\ units' = <<>> /\ records' = {}
        /\ UNCHANGED <<project, sources, functions, authoritative>>
    BY <1>2 DEF Routing!Fallback, Routing!Propagates, Routing!Native, Routing!request
  <2>2. UnitsKnown' /\ RecordsKnown'
    <3>1. units' = <<>> /\ records' = {}
      BY <2>1
    <3>2. QED
      BY <3>1 DEF UnitsKnown, UnitRecord, RecordsKnown
  <2>3. \A s : (IF next = "clang" THEN s.language = "rust" ELSE s.language \in Routing!CFamily) => NotedFor(s)'
    BY <2>1 DEF NotedFor, Routing!Noted, Routing!Routers, Routing!CFamily
  <2>4. LeftNoted'
    BY <2>1, <2>3, StillNoted
  <2>5. QED
    BY <2>1, <2>2, <2>4, Onward
<1>3. QED
  BY <1>1, <1>2

LEMMA RustLeftStep ==
  ASSUME RoutingInv, Routing!SkipRust \/ Routing!NoCargo \/ Routing!RustFails
  PROVE  RoutingInv'
<1>1. CASE Routing!SkipRust
  <2>1. /\ phase = "rust" /\ phase' = "clang"
        /\ UNCHANGED <<project, sources, units, charged, records, functions, notes, authoritative>>
    BY <1>1 DEF Routing!SkipRust
  <2>2. \A s \in sources : Asked /\ s.language = "rust" => NotedFor(s)'
    <3>1. SUFFICES ASSUME NEW s \in sources, Asked, s.language = "rust"
                   PROVE  NotedFor(s)'
      OBVIOUS
    <3>2. ~project.request.exec
      BY <1>1, <3>1 DEF Routing!SkipRust, Routing!RustRequested, Routing!Of, Routing!request
    <3>3. QED
      BY <2>1, <3>1, <3>2 DEF RoutingInv, LeftNoted, NotedFor, Routing!Noted, Routing!Routers
  <2>3. UnitsKnown' /\ RecordsKnown'
    BY <2>1, RecordsKept2 DEF RoutingInv, UnitsKnown, UnitRecord
  <2>4. LeftNoted'
    BY <2>1, <2>2, StillNoted
  <2>5. QED
    BY <2>1, <2>3, <2>4, Onward
<1>2. CASE Routing!NoCargo
  BY <1>2, MissingStep DEF Routing!NoCargo, Routing!RustRequested
<1>3. CASE Routing!RustFails
  BY <1>3, FallbackStep DEF Routing!RustFails, Routing!RustRequested
<1>4. QED
  BY <1>1, <1>2, <1>3

LEMMA RouteClangStep ==
  ASSUME RoutingInv, Routing!RouteClang
  PROVE  RoutingInv'
<1>1. CASE Routing!Database = "refused"
  BY <1>1, FailKeeps DEF Routing!RouteClang
<1>2. CASE Routing!Missing("clang-router", "generic") \/ Routing!Fallback("clang-router", "other", "generic")
  BY <1>2, MissingStep, FallbackStep DEF Routing!RouteClang
<1>3. CASE /\ Routing!Database # "refused"
           /\ \/ ~Routing!ClangRouted /\ phase' = "generic"
              \/ phase' = "preflight"
           /\ UNCHANGED <<project, sources, units, charged, records, functions, notes, authoritative>>
  <2>1. phase = "clang"
    BY DEF Routing!RouteClang
  <2>2. ASSUME phase' = "generic", NEW s \in sources, Asked, s.language \in Routing!CFamily
        PROVE  NotedFor(s)'
    <3>1. ~project.request.exec
      BY <1>3, <2>2 DEF Routing!ClangRouted, Routing!Of, Routing!request
    <3>2. QED
      BY <1>3, <2>1, <2>2, <3>1 DEF RoutingInv, LeftNoted, NotedFor, Routing!Noted, Routing!Routers
  <2>3. UnitsKnown' /\ RecordsKnown'
    BY <1>3, <2>1, RecordsKept2 DEF RoutingInv, UnitsKnown, UnitRecord
  <2>4. LeftNoted'
    BY <1>3, <2>1, <2>2, StillNoted
  <2>5. QED
    BY <1>3, <2>1, <2>3, <2>4, Onward
<1>4. QED
  BY <1>1, <1>2, <1>3 DEF Routing!RouteClang

LEMMA FunctionsOfMeans ==
  ASSUME NEW files, NEW x \in Routing!FunctionsOf(files)
  PROVE  x[1] \in files /\ x[2] \in DOMAIN project.code[x[1]]
<1>1. PICK f \in files : x \in {f} \X DOMAIN project.code[f]
  BY DEF Routing!FunctionsOf
<1>2. QED
  BY <1>1

(* The adapter's functions are those of crates' files that nothing else is *)
(* to measure; what it leaves is noted by file, or once for all.           *)
LEMMA RustAnswersStep ==
  ASSUME RoutingInv, NEW broken \in SUBSET project.crates, NEW located \in SUBSET broken,
         Routing!RustAnswers(broken, located)
  PROVE  RoutingInv'
<1> DEFINE generic == Routing!GenericFiles(broken, located)
<1>1. CASE Routing!Fail
  BY <1>1, FailKeeps
<1>2. CASE ~Routing!Fail
  <2>1. /\ phase = "rust" /\ phase' = "clang" /\ ~(Native /\ broken # {})
        /\ functions' = functions \cup Routing!RustFunctions(project.crates \ (broken \cup generic))
        /\ notes' = notes \cup {<<"rust-native", IF f \in located THEN f ELSE 0>> : f \in broken}
        /\ sources' = {s \in sources : s.language = "rust" => s.file \in generic}
        /\ UNCHANGED <<project, units, charged, records, authoritative>>
    BY <1>2 DEF Routing!RustAnswers, Routing!RustRequested, Routing!Native, Routing!request
  <2>2. \A f \in project.crates : f \in SourceFiles /\ project.language[f] = "rust"
    BY ProjectConsistent DEF RoutingInv, Routing!Consistent
  <2>3. functions = {}
    BY <2>1 DEF RoutingInv, FunctionsKnown
  <2>4. \A n \in functions' : IsFunction(n) /\ n.by = "rust" /\ n.file \in project.crates \ generic
    <3>1. SUFFICES ASSUME NEW n \in functions'
                   PROVE  IsFunction(n) /\ n.by = "rust" /\ n.file \in project.crates \ generic
      OBVIOUS
    <3>2. PICK x \in Routing!FunctionsOf(project.crates \ (broken \cup generic)) :
             n = [file |-> x[1], at |-> x[2], by |-> "rust", language |-> "rust", facts |-> x[2]]
      BY <2>1, <2>3, <3>1 DEF Routing!RustFunctions
    <3>3. x[1] \in project.crates \ (broken \cup generic)
      BY FunctionsOfMeans
    <3>4. QED
      BY <3>2, <3>3 DEF IsFunction
  <2>5. \A s \in sources' : s \in sources /\ s.file \in SourceFiles /\ s.language = project.language[s.file]
    BY <2>1 DEF RoutingInv, SourcesKnown
  <2>6. \A n \in functions', s \in sources' : n.file # s.file
    BY <2>1, <2>2, <2>4, <2>5
  <2>7. \A s \in sources' : s.language = "rust" => NotedFor(s)'
    <3>1. SUFFICES ASSUME NEW s \in sources', s.language = "rust"
                   PROVE  NotedFor(s)'
      OBVIOUS
    <3>2. s.file \in generic
      BY <2>1, <3>1
    <3>3. ~Native /\ (<<"rust-native", 0>> \in notes' \/ <<"rust-native", s.file>> \in notes')
      <4>1. CASE located = broken
        BY <2>1, <3>2, <4>1 DEF Routing!GenericFiles
      <4>2. CASE located # broken
        <5>1. PICK f \in broken : f \notin located
          BY <4>2
        <5>2. QED
          BY <2>1, <5>1
      <4>3. QED
        BY <4>1, <4>2
    <3>4. QED
      BY <2>1, <3>1, <3>3 DEF NotedFor, Routing!Noted, Routing!Routers
  <2> HIDE DEF generic
  <2>8. SourcesKnown' /\ UnitsKnown' /\ RecordsKnown'
    BY <2>1, <2>5, RecordsKept2 DEF RoutingInv, SourcesKnown, UnitsKnown, UnitRecord
  <2>9. FunctionsKnown' /\ SyntaxApart' /\ ClangApart'
    BY <2>1, <2>4, <2>6 DEF FunctionsKnown, SyntaxApart, ClangApart
  <2>10. LeftNoted'
    BY <2>1, <2>7 DEF RoutingInv, LeftNoted
  <2>11. QED
    BY <2>8, <2>9, <2>10 DEF RoutingInv
<1>3. QED
  BY <1>1, <1>2

LEMMA PreflightStep ==
  ASSUME RoutingInv, Routing!Preflight
  PROVE  RoutingInv'
<1> DEFINE c == project.commands[Len(units) + 1]
           Unit(file, status) == [file |-> file, language |-> c.mode, status |-> status]
<1>1. phase = "preflight" /\ Len(units) < Len(project.commands)
  BY DEF Routing!Preflight
<1>2. /\ c \in [file : SourceFiles, mode : Routing!CFamily \cup {"none"}, at : {"file", "missing", "outside", "directory"}]
      /\ c.at = "file" => c.file \notin project.crates
  <2> DEFINE Command == [file : SourceFiles, mode : Routing!CFamily \cup {"none"},
                         at : {"file", "missing", "outside", "directory"}]
  <2>1. project.commands \in Seq(Command)
    BY ProjectConsistent DEF RoutingInv, Routing!Consistent
  <2>2. Len(units) \in Nat
    BY DEF RoutingInv, UnitsKnown, UnitRecord
  <2> HIDE DEF Command
  <2>3. Len(units) + 1 \in DOMAIN project.commands /\ project.commands[Len(units) + 1] \in Command
    BY <1>1, <2>1, <2>2
  <2>4. \A i \in DOMAIN project.commands :
           project.commands[i].at = "file" => project.commands[i].file \notin project.crates
    BY ProjectConsistent DEF RoutingInv, Routing!Consistent
  <2>5. QED
    BY <2>3, <2>4 DEF Command
<1> HIDE DEF c
<1>3. CASE Routing!Skipped(c)
  <2>1. /\ units' = Append(units, Unit(0, "skipped"))
        /\ UNCHANGED <<project, phase, sources, charged, records, functions, notes, authoritative>>
    BY <1>3 DEF Routing!Preflight, c
  <2>2. Unit(0, "skipped") \in UnitRecord
    BY <1>2 DEF UnitRecord
  <2>3. UnitsKnown'
    BY <1>1, <2>1, <2>2 DEF RoutingInv, UnitsKnown, UnitRecord
  <2>4. RecordsKnown' /\ LeftNoted'
    BY <1>1, <2>1, RecordsKept2, StillNoted DEF RoutingInv
  <2>5. QED
    BY <1>1, <2>1, <2>3, <2>4, Onward
<1>4. CASE ~Routing!Skipped(c) /\ Routing!ChargeError(c) # "none"
  <2>1. Routing!Fallback("clang-router", Routing!ChargeError(c), "generic")
    BY <1>4 DEF Routing!Preflight, c
  <2>2. QED
    BY <1>1, <2>1, FallbackStep
<1>5. CASE ~Routing!Skipped(c) /\ Routing!ChargeError(c) = "none"
  <2>1. /\ units' = Append(units, Unit(c.file, "pending"))
        /\ UNCHANGED <<project, phase, sources, records, functions, notes, authoritative>>
    BY <1>5 DEF Routing!Preflight, c
  <2>2. c.at = "file" /\ c.mode \in Routing!CFamily
    BY <1>2, <1>5 DEF Routing!Skipped, Routing!ChargeError
  <2>3. Unit(c.file, "pending") \in UnitRecord
    BY <1>2 DEF UnitRecord
  <2>4. UnitsKnown'
    BY <1>1, <1>2, <2>1, <2>2, <2>3 DEF RoutingInv, UnitsKnown, UnitRecord
  <2>5. RecordsKnown' /\ LeftNoted'
    BY <1>1, <2>1, RecordsKept2, StillNoted DEF RoutingInv
  <2>6. QED
    BY <1>1, <2>1, <2>4, <2>5, Onward
<1>6. QED
  BY <1>3, <1>4, <1>5

LEMMA StatusSet ==
  ASSUME UnitsKnown, UNCHANGED <<project, phase>>, NEW i \in DOMAIN units, units[i].status # "skipped",
         NEW status \in {"valid", "invalid", "analyzed", "failed"}, units' = [units EXCEPT ![i].status = status]
  PROVE  UnitsKnown'
<1> DEFINE u == [units[i] EXCEPT !.status = status]
<1>1. units \in Seq(UnitRecord) /\ units[i] \in UnitRecord
  BY DEF UnitsKnown
<1>2. u \in UnitRecord /\ u.file = units[i].file /\ u.language = units[i].language /\ u.status = status
  BY <1>1 DEF UnitRecord
<1>3. units' = [units EXCEPT ![i] = u]
  OBVIOUS
<1> HIDE DEF u
<1>4. /\ units' \in Seq(UnitRecord) /\ DOMAIN units' = DOMAIN units /\ units'[i] = u
      /\ \A j \in DOMAIN units : j # i => units'[j] = units[j]
  BY <1>1, <1>2, <1>3
<1>5. \A j \in DOMAIN units' : units'[j] = u \/ units'[j] = units[j]
  BY <1>4
<1>6. UnitRecord' = UnitRecord
  BY DEF UnitRecord
<1>7. QED
  BY <1>2, <1>4, <1>5, <1>6 DEF UnitsKnown

(* A step on one unit. *)
LEMMA UnitStep ==
  ASSUME RoutingInv, NEW i \in DOMAIN units,
         \/ \E status \in {"valid", "invalid"} : Routing!Validate(i, status)
         \/ Routing!DumpFails(i)
         \/ \E shown \in SUBSET Routing!InUnit(i) : Routing!Dump(i, shown)
  PROVE  RoutingInv'
<1>1. /\ phase \in {"validate", "dump"} /\ units[i].status # "skipped"
      /\ \E status \in {"valid", "invalid", "analyzed", "failed"} : units' = [units EXCEPT ![i].status = status]
      /\ UNCHANGED <<project, phase, sources, functions, notes, authoritative>>
  BY DEF Routing!Validate, Routing!DumpFails, Routing!Dump, Routing!InHand
<1>2. UnitsKnown' /\ LeftNoted'
  BY <1>1, StatusSet, StillNoted DEF RoutingInv
<1>3. RecordsKnown'
  <2>1. CASE UNCHANGED records
    BY <1>1, <2>1, RecordsKept2 DEF RoutingInv
  <2>2. ASSUME NEW shown \in SUBSET Routing!InUnit(i), Routing!Dump(i, shown)
        PROVE  RecordsKnown'
    <3> DEFINE new == {Routing!Seen(i, x) : x \in shown}
    <3>1. records' = Routing!MergedWith(new)
      BY <2>2 DEF Routing!Dump
    <3>2. {units[i].file} \cup project.includes[units[i].file] \subseteq SourceFiles
      BY <1>1, ProjectConsistent DEF RoutingInv, UnitsKnown, UnitRecord, Routing!Consistent
    <3>3. \A r \in new : /\ r = [file |-> r.file, at |-> r.at, language |-> units[i].language]
                         /\ r.file \in SourceFiles /\ r.at \in DOMAIN project.code[r.file]
      BY <3>2, FunctionsOfMeans DEF Routing!Seen, Routing!InUnit
    <3> HIDE DEF new
    <3>4. \A r \in new : r.at \in Nat
      BY <3>3, ProjectConsistent DEF RoutingInv, Routing!Consistent
    <3>5. \A r \in records' : /\ r = [file |-> r.file, at |-> r.at, language |-> r.language]
                              /\ r.file \in SourceFiles /\ r.at \in DOMAIN project.code[r.file]
      BY <3>1, <3>3 DEF RoutingInv, RecordsKnown, Routing!MergedWith
    <3>6. ASSUME NEW r \in records', NEW q \in records', Routing!SameSymbol(r, q)
          PROVE  r = q
      <4>1. Routing!SameSymbol(q, r) /\ r.file = q.file
        BY <3>6 DEF Routing!SameSymbol
      <4>2. CASE r \in records /\ q \in records
        BY <3>6, <4>2 DEF RoutingInv, RecordsKnown
      <4>3. CASE r \in records /\ q \notin records
        BY <3>1, <3>6, <4>3 DEF Routing!MergedWith
      <4>4. CASE r \notin records /\ q \in records
        BY <3>1, <4>1, <4>4 DEF Routing!MergedWith
      <4>5. CASE r \notin records /\ q \notin records
        <5>1. r \in new /\ q \in new /\ r.at <= q.at /\ q.at <= r.at
          BY <3>1, <3>6, <4>1, <4>5 DEF Routing!MergedWith
        <5>2. r.at = q.at
          BY <3>4, <5>1
        <5>3. QED
          BY <3>3, <4>1, <5>1, <5>2
      <4>6. QED
        BY <4>2, <4>3, <4>4, <4>5
    <3>7. \A r, q \in records' : Routing!SameSymbol(r, q)' <=> Routing!SameSymbol(r, q)
      BY <1>1 DEF Routing!SameSymbol, Routing!Code
    <3>8. QED
      BY <1>1, <3>5, <3>6, <3>7 DEF RecordsKnown
  <2>3. QED
    BY <2>1, <2>2 DEF Routing!Validate, Routing!DumpFails
<1>4. QED
  BY <1>1, <1>2, <1>3, Onward

LEMMA EndStep ==
  ASSUME RoutingInv, Routing!EndPreflight \/ Routing!EndValidate
  PROVE  RoutingInv'
<1>1. /\ phase \in {"preflight", "validate"} /\ phase' \in {"validate", "dump"}
      /\ UNCHANGED <<project, sources, units, records, functions, notes, authoritative>>
      /\ phase' = "dump" => \A i \in DOMAIN units : units[i].status # "pending"
  BY DEF Routing!EndPreflight, Routing!EndValidate, Routing!None
<1>2. UnitsKnown' /\ RecordsKnown' /\ LeftNoted'
  BY <1>1, RecordsKept2, StillNoted DEF RoutingInv, UnitsKnown, UnitRecord
<1>3. QED
  BY <1>1, <1>2, Onward

(* In native mode every unit is analyzed; in auto mode what Clang leaves is *)
(* noted.                                                                   *)
LEMMA IntegrateStep ==
  ASSUME RoutingInv, Routing!Integrate
  PROVE  RoutingInv'
<1>1. CASE Routing!Fail
  BY <1>1, FailKeeps
<1>2. CASE ~Routing!Fail
  <2>1. /\ phase = "dump" /\ phase' = "generic" /\ Routing!None({"valid", "invalid"})
        /\ Native => Routing!With({"failed"}) = {}
        /\ sources' = Routing!UnitSources \cup (IF Native THEN sources \ Routing!Of(Routing!CFamily) ELSE sources)
        /\ notes' = IF Native THEN notes
                    ELSE notes \cup {<<"clang-router", f>> : f \in Routing!Unrepresented(sources') \ Routing!Authoritative}
        /\ functions' = functions \cup Routing!ClangFunctions
        /\ authoritative' = Routing!Authoritative
        /\ UNCHANGED <<project, units, charged, records>>
    BY <1>2 DEF Routing!Integrate, Routing!Native, Routing!request
  <2>2. \A s \in Routing!UnitSources :
           /\ s.file \notin project.crates /\ s.language \in Routing!CFamily
           /\ s.file \in Routing!Authoritative \/ s.file \in Routing!With({"failed"})
    <3>1. SUFFICES ASSUME NEW i \in DOMAIN units, units[i].file # 0
                   PROVE  /\ units[i].file \notin project.crates /\ units[i].language \in Routing!CFamily
                          /\ units[i].file \in Routing!Authoritative \cup Routing!With({"failed"})
      BY DEF Routing!UnitSources
    <3>2. units[i] \in UnitRecord /\ units[i].status \notin {"skipped", "valid", "invalid", "pending"}
      BY <2>1, <3>1 DEF RoutingInv, UnitsKnown, Routing!None
    <3>3. units[i].status \in {"analyzed", "failed"}
      BY <3>2 DEF UnitRecord
    <3>4. units[i].file \notin project.crates /\ units[i].language \in Routing!CFamily
      BY <3>2 DEF RoutingInv, UnitsKnown
    <3>5. QED
      BY <3>3, <3>4 DEF Routing!Authoritative, Routing!With
  <2>3. \A n \in Routing!ClangFunctions :
           /\ IsFunction(n) /\ n.by = "clang" /\ n.facts = 0
           /\ n.file \in SourceFiles /\ n.at \in DOMAIN project.code[n.file]
           /\ \E r \in records : r.file = n.file /\ r.at = n.at
    BY DEF RoutingInv, RecordsKnown, Routing!ClangFunctions, IsFunction
  <2>4. \A n \in functions : IsFunction(n) /\ n.by = "rust" /\ n.file \in project.crates
    BY <2>1 DEF RoutingInv, FunctionsKnown
  <2>5. FunctionsKnown'
    <3>1. \A n \in functions, s \in sources' : n.file # s.file
      BY <2>1, <2>2, <2>4 DEF RoutingInv, FunctionsKnown
    <3>2. QED
      BY <2>1, <2>3, <2>4, <3>1 DEF FunctionsKnown, IsFunction
  <2>6. ClangApart'
    <3>1. \A n \in functions' : n.by = "clang" => n \in Routing!ClangFunctions
      BY <2>1, <2>4
    <3>2. ASSUME NEW n \in Routing!ClangFunctions, NEW m \in Routing!ClangFunctions, Routing!SameSymbol(n, m)
          PROVE  n.at = m.at
      <4>1. PICK r \in records : r.file = n.file /\ r.at = n.at
        BY <2>3
      <4>2. PICK q \in records : q.file = m.file /\ q.at = m.at
        BY <2>3
      <4>3. Routing!SameSymbol(r, q)
        BY <3>2, <4>1, <4>2 DEF Routing!SameSymbol, Routing!Code
      <4>4. QED
        BY <4>1, <4>2, <4>3 DEF RoutingInv, RecordsKnown
    <3>3. \A n, m : Routing!SameSymbol(n, m)' <=> Routing!SameSymbol(n, m)
      BY <2>1 DEF Routing!SameSymbol, Routing!Code
    <3>4. QED
      BY <2>1, <2>3, <3>1, <3>2, <3>3 DEF ClangApart
  <2>7. LeftNoted'
    <3>1. SUFFICES ASSUME NEW s \in sources', Asked, s.language \in Routing!CFamily \cup {"rust"}
                   PROVE  s.file \in authoritative' \/ NotedFor(s)'
      BY <2>1 DEF RoutingInv, LeftNoted
    <3>2. CASE s.language = "rust"
      <4>1. s \in sources
        BY <2>1, <2>2, <3>2 DEF Routing!CFamily
      <4>2. NotedFor(s)
        BY <2>1, <3>1, <3>2, <4>1 DEF RoutingInv, LeftNoted
      <4>3. QED
        BY <2>1, <4>2, StaysNoted
    <3>3. CASE Native /\ s.language \in Routing!CFamily
      BY <2>1, <2>2, <3>1, <3>3 DEF Routing!Of
    <3>4. CASE ~Native /\ s.language \in Routing!CFamily
      <4>1. s.file \in Routing!Unrepresented(sources')
        BY <3>1, <3>4 DEF Routing!Unrepresented
      <4>2. s.file \in authoritative' \/ <<"clang-router", s.file>> \in notes'
        BY <2>1, <3>4, <4>1
      <4>3. s.language # "rust"
        BY <3>4 DEF Routing!CFamily
      <4>4. QED
        BY <2>1, <3>4, <4>2, <4>3 DEF NotedFor, Routing!Noted, Routing!Routers
    <3>5. QED
      BY <3>1, <3>2, <3>3, <3>4
  <2>8. SourcesKnown' /\ UnitsKnown' /\ RecordsKnown'
    BY <2>1, RecordsKept2 DEF RoutingInv, SourcesKnown, UnitsKnown, UnitRecord
  <2>9. SyntaxApart'
    BY <2>1, <2>3, <2>4 DEF SyntaxApart
  <2>10. QED
    BY <2>5, <2>6, <2>7, <2>8, <2>9 DEF RoutingInv
<1>3. QED
  BY <1>1, <1>2

(* The function that Clang shows at k is itself a candidate, unless another *)
(* of its scope has the parameters that are written there: then the two are *)
(* one symbol, of which Clang has one record, or both are candidates.       *)
LEMMA OwnFacts ==
  ASSUME RoutingInv, NEW n \in functions, n.by = "clang", NEW k \in DOMAIN project.code[n.file],
         Routing!Candidates(n.file, k) = {n}, Routing!ShownByClang(n.file, k)
  PROVE  n.at = k
<1> DEFINE f == project.code[n.file][k]
           near == {x \in functions : /\ x.file = n.file /\ Routing!Code(x).leaf = f.leaf
                                      /\ Routing!Code(x).from <= f.to /\ f.from <= Routing!Code(x).to}
           exact == {x \in near : Routing!Code(x).owner = f.owner}
           named == IF ~Routing!AtMostOne(near) /\ exact # {} THEN exact ELSE near
<1>1. n.file \in SourceFiles /\ n.at \in DOMAIN project.code[n.file]
  BY DEF RoutingInv, ClangApart
<1>2. PICK m \in functions : m.by = "clang" /\ m.file = n.file /\ m.at = k
  BY DEF Routing!ShownByClang
<1>3. Routing!Code(m) = f
  BY <1>2 DEF Routing!Code
<1>4. f.from \in Nat /\ f.to \in Nat /\ f.from <= f.to
  BY <1>1, ProjectConsistent DEF RoutingInv, Routing!Consistent
<1>5. m \in exact
  BY <1>2, <1>3, <1>4
<1>6. m \in named
  BY <1>5
<1>7. Routing!Candidates(n.file, k) =
        IF Routing!AtMostOne(named) THEN named
        ELSE IF f.written = Absent THEN {}
        ELSE {x \in named : Routing!Code(x).spelled = f.written}
  BY DEF Routing!Candidates
<1>8. CASE Routing!AtMostOne(named)
  BY <1>2, <1>6, <1>7, <1>8
<1>9. CASE ~Routing!AtMostOne(named)
  <2>1. named = exact
    BY <1>5, <1>9
  <2>2. f.written # Absent /\ n \in exact /\ Routing!Code(n).spelled = f.written
    BY <1>7, <1>9, <2>1
  <2>3. /\ Routing!Code(n) = project.code[n.file][n.at]
        /\ Routing!Code(n).owner = f.owner /\ Routing!Code(n).leaf = f.leaf
    BY <2>2 DEF Routing!Code
  <2>4. Routing!Code(n).type = f.type \/ f.spelled = f.written
    <3>1. \A i, j \in DOMAIN project.code[n.file] :
             LET x == project.code[n.file][i]
                 y == project.code[n.file][j]
             IN  x.owner = y.owner /\ x.leaf = y.leaf /\ y.written # Absent /\ x.spelled = y.written
                   => x.type = y.type \/ y.spelled = y.written
      BY <1>1, ProjectConsistent DEF RoutingInv, Routing!Consistent
    <3>2. QED
      BY <1>1, <2>2, <2>3, <3>1
  <2>5. CASE Routing!Code(n).type = f.type
    <3>1. Routing!SameSymbol(n, m)
      BY <1>2, <1>3, <2>3, <2>5 DEF Routing!SameSymbol
    <3>2. QED
      BY <1>2, <3>1 DEF RoutingInv, ClangApart
  <2>6. CASE f.spelled = f.written
    BY <1>2, <1>3, <1>6, <1>7, <1>9, <2>2, <2>6
  <2>7. QED
    BY <2>4, <2>5, <2>6
<1>10. QED
  BY <1>8, <1>9

(* A source of the syntax backend's own. *)
LEMMA AddedStep ==
  ASSUME RoutingInv, NEW s \in sources, s.file \notin authoritative, phase = "generic",
         NEW found, sources' = sources \ {s},
         functions' = functions \cup
            {[file |-> s.file, at |-> k, by |-> "syntax", language |-> s.language, facts |-> k] : k \in found},
         UNCHANGED <<project, phase, units, charged, records, notes, authoritative>>
  PROVE  RoutingInv'
<1>1. \A n \in functions' : \/ n \in functions
                            \/ /\ IsFunction(n) /\ n.by = "syntax"
                               /\ n.file = s.file /\ n.language = s.language
  BY DEF IsFunction
<1>2. \A n \in functions : n \in functions'
  OBVIOUS
<1>3. \A n \in functions : n.by = "rust" => n.file # s.file
  BY DEF RoutingInv, FunctionsKnown
<1>4. FunctionsKnown'
  BY <1>1 DEF RoutingInv, FunctionsKnown, IsFunction
<1>5. SyntaxApart'
  <2>1. SUFFICES ASSUME NEW n \in functions', n.by = "syntax"
                 PROVE  /\ n.file \notin authoritative
                        /\ \A m \in functions' : m.file = n.file => m.by # "rust"
                        /\ Routing!LeftOver(n) => NotedFor(n)'
    BY DEF SyntaxApart, Routing!LeftOver, Routing!request
  <2>2. CASE n \in functions
    <3>1. /\ n.file \notin authoritative
          /\ Routing!LeftOver(n) => NotedFor(n)
          /\ \A m \in functions : m.file = n.file => m.by # "rust"
      BY <2>1, <2>2 DEF RoutingInv, SyntaxApart
    <3>2. NotedFor(n) => NotedFor(n)'
      BY StaysNoted
    <3>3. QED
      BY <1>1, <3>1, <3>2
  <2>3. CASE n \notin functions
    <3>1. n.file = s.file /\ n.language = s.language
      BY <1>1, <2>3
    <3>2. \A m \in functions' : m.file = n.file => m.by # "rust"
      BY <1>1, <1>3, <3>1
    <3>3. Routing!LeftOver(n) => NotedFor(s)
      BY <3>1 DEF RoutingInv, LeftNoted, Routing!LeftOver, Routing!request
    <3>4. NotedFor(s) => NotedFor(n)'
      BY <3>1 DEF NotedFor, Routing!Noted
    <3>5. QED
      BY <3>1, <3>2, <3>3, <3>4
  <2>4. QED
    BY <2>2, <2>3
<1>6. ClangApart'
  <2>1. \A n \in functions' : n.by = "clang" => n \in functions
    BY <1>1
  <2>2. \A n : Routing!ShownByClang(n.file, n.facts)' <=> Routing!ShownByClang(n.file, n.facts)
    BY <1>2, <2>1 DEF Routing!ShownByClang
  <2>3. \A n, m : Routing!SameSymbol(n, m)' <=> Routing!SameSymbol(n, m)
    BY DEF Routing!SameSymbol, Routing!Code
  <2>4. QED
    BY <2>1, <2>2, <2>3 DEF RoutingInv, ClangApart
<1>7. SourcesKnown' /\ UnitsKnown' /\ RecordsKnown' /\ LeftNoted'
  <2>1. \A x : NotedFor(x) => NotedFor(x)'
    BY StaysNoted
  <2>2. QED
    BY <2>1, RecordsKept2 DEF RoutingInv, SourcesKnown, UnitsKnown, UnitRecord, LeftNoted
<1>8. QED
  BY <1>4, <1>5, <1>6, <1>7 DEF RoutingInv

(* A source that Clang has measured: its functions get their structure. *)
LEMMA EnrichedStep ==
  ASSUME RoutingInv, NEW s \in sources, phase = "generic",
         NEW found \in SUBSET DOMAIN project.code[s.file], sources' = sources \ {s},
         functions' = Routing!WithFacts(s.file, found),
         UNCHANGED <<project, phase, units, charged, records, notes, authoritative>>
  PROVE  RoutingInv'
<1> DEFINE With(n) == Routing!Enriched(s.file, found, n)
           Alike(n, x) == /\ IsFunction(x) /\ x.file = n.file /\ x.at = n.at /\ x.by = n.by /\ x.language = n.language
                          /\ n.by = "clang" /\ x.facts # 0 => x.at = x.facts \/ ~Routing!ShownByClang(x.file, x.facts)
<1>1. /\ \A x \in functions' : \E n \in functions : x = With(n)
      /\ \A n \in functions : With(n) \in functions'
  BY DEF Routing!WithFacts
<1>2. \A n \in functions : Alike(n, With(n))
  <2>1. SUFFICES ASSUME NEW n \in functions
                 PROVE  Alike(n, With(n))
    OBVIOUS
  <2>2. IsFunction(n)
    BY DEF RoutingInv, FunctionsKnown
  <2>3. CASE n.file = s.file /\ \E k \in found : Routing!Claims(s.file, found, n) = {k}
    <3>1. PICK k \in found : With(n) = [n EXCEPT !.facts = k] /\ k \in Routing!Claims(s.file, found, n)
      BY <2>3 DEF Routing!Enriched
    <3>2. Routing!Candidates(n.file, k) = {n} /\ k \in DOMAIN project.code[n.file]
      BY <2>3, <3>1 DEF Routing!Claims
    <3>3. /\ With(n).file = n.file /\ With(n).at = n.at /\ With(n).by = n.by
          /\ With(n).language = n.language /\ With(n).facts = k /\ IsFunction(With(n))
      <4>1. With(n) = [file |-> n.file, at |-> n.at, by |-> n.by, language |-> n.language, facts |-> k]
        BY <2>2, <3>1 DEF IsFunction
      <4>2. QED
        BY <4>1 DEF IsFunction
    <3>4. n.by = "clang" => n.at = k \/ ~Routing!ShownByClang(n.file, k)
      BY <3>2, OwnFacts
    <3>5. QED
      BY <3>3, <3>4
  <2>4. CASE ~(n.file = s.file /\ \E k \in found : Routing!Claims(s.file, found, n) = {k})
    BY <2>2, <2>4 DEF RoutingInv, ClangApart, Routing!Enriched
  <2>5. QED
    BY <2>3, <2>4
<1> HIDE DEF With
<1>3. \A x \in functions' : \E n \in functions : Alike(n, x)
  BY <1>1, <1>2
<1>4. \A n \in functions : \E x \in functions' : Alike(n, x)
  BY <1>1, <1>2
<1>5. FunctionsKnown'
  BY <1>3 DEF RoutingInv, FunctionsKnown, IsFunction
<1>6. SyntaxApart'
  <2>1. SUFFICES ASSUME NEW x \in functions', x.by = "syntax"
                 PROVE  /\ x.file \notin authoritative
                        /\ \A m \in functions' : m.file = x.file => m.by # "rust"
                        /\ Routing!LeftOver(x) => NotedFor(x)'
    BY DEF SyntaxApart, Routing!LeftOver, Routing!request
  <2>2. PICK n \in functions : Alike(n, x)
    BY <1>3
  <2>3. n.by = "syntax" /\ n.file = x.file /\ n.language = x.language
    BY <2>1, <2>2
  <2>4. n.file \notin authoritative /\ \A m \in functions : m.file = n.file => m.by # "rust"
    BY <2>3 DEF RoutingInv, SyntaxApart
  <2>5. Routing!LeftOver(x) => NotedFor(n)
    BY <2>1, <2>3 DEF RoutingInv, SyntaxApart, Routing!LeftOver
  <2>6. NotedFor(n) => NotedFor(x)'
    BY <2>3 DEF NotedFor, Routing!Noted
  <2>7. QED
    BY <1>3, <2>3, <2>4, <2>5, <2>6
<1>7. ClangApart'
  <2>1. \A x : Routing!ShownByClang(x.file, x.facts)' <=> Routing!ShownByClang(x.file, x.facts)
    BY <1>3, <1>4 DEF Routing!ShownByClang
  <2>2. ASSUME NEW x \in functions', x.by = "clang"
        PROVE  /\ x.file \in SourceFiles /\ x.at \in DOMAIN project.code[x.file]
               /\ x.facts # 0 => x.at = x.facts \/ ~Routing!ShownByClang(x.file, x.facts)
    <3>1. PICK n \in functions : Alike(n, x)
      BY <1>3
    <3>2. QED
      BY <2>2, <3>1 DEF RoutingInv, ClangApart
  <2>3. ASSUME NEW x \in functions', NEW y \in functions', x.by = "clang", y.by = "clang", Routing!SameSymbol(x, y)
        PROVE  x.at = y.at
    <3>1. PICK n \in functions : Alike(n, x)
      BY <1>3
    <3>2. PICK m \in functions : Alike(m, y)
      BY <1>3
    <3>3. Routing!SameSymbol(n, m)
      BY <2>3, <3>1, <3>2 DEF Routing!SameSymbol, Routing!Code
    <3>4. QED
      BY <2>3, <3>1, <3>2, <3>3 DEF RoutingInv, ClangApart
  <2>4. \A n, m : Routing!SameSymbol(n, m)' <=> Routing!SameSymbol(n, m)
    BY DEF Routing!SameSymbol, Routing!Code
  <2>5. QED
    BY <2>1, <2>2, <2>3, <2>4 DEF ClangApart
<1>8. SourcesKnown' /\ UnitsKnown' /\ RecordsKnown' /\ LeftNoted'
  <2>1. \A x : NotedFor(x) => NotedFor(x)'
    BY StaysNoted
  <2>2. QED
    BY <2>1, RecordsKept2 DEF RoutingInv, SourcesKnown, UnitsKnown, UnitRecord, LeftNoted
<1>9. QED
  BY <1>5, <1>6, <1>7, <1>8 DEF RoutingInv

LEMMA GenericStep ==
  ASSUME RoutingInv, NEW s \in sources, NEW issues \in BOOLEAN,
         NEW found \in SUBSET DOMAIN project.code[s.file], Routing!Generic(s, issues, found)
  PROVE  RoutingInv'
<1>1. CASE Routing!Fail
  BY <1>1, FailKeeps
<1>2. CASE ~Routing!Fail
  <2>1. /\ phase = "generic" /\ sources' = sources \ {s}
        /\ functions' = IF s.file \in authoritative THEN Routing!WithFacts(s.file, found)
                        ELSE functions \cup
                          {[file |-> s.file, at |-> k, by |-> "syntax", language |-> s.language, facts |-> k] : k \in found}
        /\ UNCHANGED <<project, phase, units, charged, records, notes, authoritative>>
    BY <1>2 DEF Routing!Generic
  <2>2. QED
    BY <2>1, AddedStep, EnrichedStep
<1>3. QED
  BY <1>1, <1>2

LEMMA FinishStep ==
  ASSUME RoutingInv, Routing!Finish
  PROVE  RoutingInv'
<1>1. /\ phase = "generic" /\ phase' = "done"
      /\ UNCHANGED <<project, sources, units, charged, records, functions, notes, authoritative>>
  BY DEF Routing!Finish
<1>2. UnitsKnown' /\ RecordsKnown' /\ LeftNoted'
  BY <1>1, RecordsKept2 DEF RoutingInv, UnitsKnown, UnitRecord, LeftNoted
<1>3. QED
  BY <1>1, <1>2, Onward

LEMMA RoutingStep ==
  ASSUME RoutingInv, [Routing!Next]_routing
  PROVE  RoutingInv'
<1>1. CASE UNCHANGED routing
  <2>1. SyntaxApart' /\ ClangApart' /\ RecordsKnown'
    BY <1>1, SyntaxKept, ClangKept, RecordsKept2 DEF RoutingInv, routing
  <2>2. \A s : NotedFor(s) => NotedFor(s)'
    BY <1>1, StaysNoted DEF routing
  <2>3. QED
    BY <1>1, <2>1, <2>2 DEF RoutingInv, SourcesKnown, UnitsKnown, UnitRecord, FunctionsKnown,
                            IsFunction, LeftNoted, routing
<1>2. CASE Routing!Resolve
  BY <1>2, ResolveStep
<1>3. CASE Routing!SkipRust \/ Routing!NoCargo \/ Routing!RustFails
  BY <1>3, RustLeftStep
<1>4. CASE \E broken \in SUBSET project.crates : \E located \in SUBSET broken : Routing!RustAnswers(broken, located)
  BY <1>4, RustAnswersStep
<1>5. CASE Routing!RouteClang
  BY <1>5, RouteClangStep
<1>6. CASE Routing!Preflight
  BY <1>6, PreflightStep
<1>7. CASE Routing!EndPreflight \/ Routing!EndValidate
  BY <1>7, EndStep
<1>8. CASE \E i \in DOMAIN units :
             \/ \E status \in {"valid", "invalid"} : Routing!Validate(i, status)
             \/ Routing!DumpFails(i)
             \/ units[i].status = "valid" /\ \E shown \in SUBSET Routing!InUnit(i) : Routing!Dump(i, shown)
  BY <1>8, UnitStep
<1>9. CASE Routing!Integrate
  BY <1>9, IntegrateStep
<1>10. CASE \E s \in sources, issues \in BOOLEAN :
              \E found \in SUBSET DOMAIN project.code[s.file] : Routing!Generic(s, issues, found)
  BY <1>10, GenericStep
<1>11. CASE Routing!GenericFails
  BY <1>11, FailKeeps DEF Routing!GenericFails
<1>12. CASE Routing!Finish
  BY <1>12, FinishStep
<1>13. QED
  BY <1>1, <1>2, <1>3, <1>4, <1>5, <1>6, <1>7, <1>8, <1>9, <1>10, <1>11, <1>12 DEF Routing!Next

(* Whatever the tools answer and the database says, no function is measured *)
(* twice or by the wrong backend, what a native backend leaves is noted, and *)
(* Clang's functions get the structure of their own code (analyze_project). *)
THEOREM OneBackendMeasures == Routing!Spec => []MeasuredByOneBackend
<1>1. Routing!Init => RoutingInv
  BY RoutingBegin
<1>2. RoutingInv /\ [Routing!Next]_routing => RoutingInv'
  BY RoutingStep
<1>3. RoutingInv => MeasuredByOneBackend
  <2> SUFFICES ASSUME RoutingInv, NEW n \in functions
               PROVE  /\ n.by = "syntax" => /\ n.file \notin authoritative
                                            /\ \A m \in functions : m.file = n.file => m.by # "rust"
                      /\ Routing!LeftOver(n) => ~Native /\ Routing!Noted(Routing!Routers(n.language), n.file)
                      /\ n.by = "clang" /\ n.facts # 0 => n.at = n.facts \/ ~Routing!ShownByClang(n.file, n.facts)
    BY DEF MeasuredByOneBackend, Routing!MeasuredByOneBackend, Routing!Native, Routing!request
  <2>1. SyntaxApart /\ ClangApart
    BY DEF RoutingInv
  <2>2. Routing!LeftOver(n) => n.by = "syntax"
    BY DEF Routing!LeftOver
  <2>3. QED
    BY <2>1, <2>2 DEF SyntaxApart, ClangApart, NotedFor
<1>4. QED
  BY <1>1, <1>2, <1>3, PTL DEF Routing!Spec, Routing!vars, routing
-----------------------------------------------------------------------------
(* The ratchet: a report is of the facts as they are, and the rows of a    *)
(* baseline about single functions are about functions that it selected.   *)

RatchetTyped ==
  /\ family \in {"functions", "mutants", "graph", "inventories"}
  /\ facts \in Ratchet!FactsOf(family)

ReportOf(scope, enabled) ==
  /\ report = Ratchet!Report(facts, scope, enabled)
  /\ enabled => baseline.made /\ baseline.scope = scope

Reported ==
  \/ report \in {Ratchet!NoReport, Ratchet!OperationalError}
  \/ \E scope \in Ratchet!ScopesOf(family) : ReportOf(scope, TRUE) \/ ReportOf(scope, FALSE)

OfSelected(rows, scope) ==
  \A p \in rows : p.rule \in {"crap.maximum", "kiss.function"} => p.id \subseteq scope.filter

RatchetInv ==
  RatchetTyped /\ Reported /\ (family = "functions" => OfSelected(baseline.rows, baseline.scope))

(* What the rows of functions are.                                         *)
LEMMA FunctionRowsAre ==
  ASSUME NEW F, NEW alike, NEW r \in Ratchet!FunctionRows(F, alike)
  PROVE  \/ r.rule = "crap.maximum" /\ \E f \in Ratchet!Scored(F) : r.id = {f}
         \/ r.rule = "kiss.function" /\ \E f \in Ratchet!Reliable(F) : r.id = {f}
         \/ r.rule = "cohesion.module" /\ r.id = {}
         \/ r.rule = "dry.clone"
<1>1. \A rule, id, m, a : /\ Ratchet!Maximum(rule, id, m, a).rule = rule /\ Ratchet!Maximum(rule, id, m, a).id = id
                          /\ Ratchet!Minimum(rule, id, m, a).rule = rule /\ Ratchet!Minimum(rule, id, m, a).id = id
                          /\ Ratchet!MaximumExclusive(rule, id, m, a).rule = rule
  BY DEF Ratchet!Maximum, Ratchet!Minimum, Ratchet!MaximumExclusive, Ratchet!Row
<1>2. Ratchet!Empty("dry.clone").rule = "dry.clone"
  BY DEF Ratchet!Empty, Ratchet!Boolean, Ratchet!Row
<1>3. CASE r \in Ratchet!CrapRows(F)
  <2>1. PICK f \in Ratchet!Scored(F) : r = Ratchet!Maximum("crap.maximum", {f}, F[f].metric, FailOver)
    BY <1>3 DEF Ratchet!CrapRows
  <2>2. QED
    BY <1>1, <2>1
<1>4. CASE r \in Ratchet!KissRows(F)
  <2>1. PICK f \in Ratchet!Reliable(F) : r = Ratchet!Maximum("kiss.function", {f}, F[f].metric, FailOver)
    BY <1>4 DEF Ratchet!KissRows
  <2>2. QED
    BY <1>1, <2>1
<1>5. CASE r \in Ratchet!CohesionRows(F, alike)
  BY <1>1, <1>5 DEF Ratchet!CohesionRows
<1>6. CASE r \in Ratchet!CloneRows(F, alike)
  BY <1>1, <1>2, <1>6 DEF Ratchet!CloneRows
<1>7. QED
  BY <1>3, <1>4, <1>5, <1>6 DEF Ratchet!FunctionRows

LEMMA CompletedFunctions ==
  ASSUME family = "functions", NEW x \in Ratchet!FunctionFacts
  PROVE  /\ Ratchet!Complete(x).alike = x.alike
         /\ DOMAIN Ratchet!Complete(x).functions = DOMAIN x.functions
         /\ \A f \in DOMAIN x.functions :
              Ratchet!Complete(x).functions[f] = [x.functions[f] EXCEPT !.lacks = "nothing"]
         /\ \A f \in DOMAIN x.functions :
              x.functions[f] \in [metric : 0..Ratchet!MaxMetric, lacks : {"nothing", "coverage", "reliability", "parse"}]
<1>1. x = [functions |-> x.functions, alike |-> x.alike]
  BY DEF Ratchet!FunctionFacts
<1>2. x.functions \in Ratchet!Partial(DOMAIN TopMetric,
        [metric : 0..Ratchet!MaxMetric, lacks : {"nothing", "coverage", "reliability", "parse"}])
  BY DEF Ratchet!FunctionFacts
<1>3. QED
  BY <1>1, <1>2 DEF Ratchet!Complete, Ratchet!Partial

(* Of functions that lack nothing, a complete check says the same.         *)
LEMMA FunctionsWhole ==
  ASSUME family = "functions", NEW x \in Ratchet!FunctionFacts, NEW scope,
         Ratchet!Omissions(x, scope) = {}
  PROVE  Ratchet!Rows(Ratchet!Complete(x), scope) = Ratchet!Rows(x, scope)
<1> DEFINE F == Ratchet!Selected(x.functions, scope)
           G == Ratchet!Selected(Ratchet!Complete(x).functions, scope)
<1>1. Ratchet!Present(F) = DOMAIN F /\ Ratchet!Scored(F) = DOMAIN F /\ Ratchet!Reliable(F) = DOMAIN F
  <2>1. Ratchet!FunctionOmissions(F) = {} /\ Ratchet!Present(F) = DOMAIN F
    BY DEF Ratchet!Omissions, Ratchet!RuleOmissions, Ratchet!ParseOmissions, Ratchet!ParseErrors
  <2>2. QED
    BY <2>1 DEF Ratchet!FunctionOmissions, Ratchet!OmittedUnless
<1> DEFINE Fact == [metric : 0..Ratchet!MaxMetric, lacks : {"nothing", "coverage", "reliability", "parse"}]
<1>0. \A f \in DOMAIN x.functions : x.functions[f] \in Fact
  BY CompletedFunctions
<1>2. \A f \in DOMAIN x.functions \cap scope.filter : x.functions[f].lacks = "nothing"
  <2>1. \A f \in DOMAIN x.functions \cap scope.filter : f \in DOMAIN F /\ F[f] = x.functions[f]
    BY DEF Ratchet!Selected, Ratchet!Restrict
  <2>2. \A f \in DOMAIN F : F[f].lacks \notin {"parse", "coverage", "reliability"}
    BY <1>1 DEF Ratchet!Present, Ratchet!Scored, Ratchet!Reliable
  <2> HIDE DEF F
  <2>3. QED
    BY <2>1, <2>2, <1>0
<1>3. G = F
  <2>1. \A f \in DOMAIN x.functions \cap scope.filter : Ratchet!Complete(x).functions[f] = x.functions[f]
    <3>1. \A f \in DOMAIN x.functions : Ratchet!Complete(x).functions[f] = [x.functions[f] EXCEPT !.lacks = "nothing"]
      BY CompletedFunctions
    <3>2. \A u \in Fact : u.lacks = "nothing" => [u EXCEPT !.lacks = "nothing"] = u
      OBVIOUS
    <3> HIDE DEF Fact
    <3>3. QED
      BY <1>0, <1>2, <3>1, <3>2
  <2>2. DOMAIN Ratchet!Complete(x).functions = DOMAIN x.functions
    BY CompletedFunctions
  <2>3. QED
    BY <2>1, <2>2 DEF Ratchet!Selected, Ratchet!Restrict
<1>4. QED
  BY <1>3, CompletedFunctions DEF Ratchet!Rows

(* A function of the selection that fails if nothing is lacking has a row  *)
(* unless its rule is omitted.                                             *)
LEMMA FunctionsGone ==
  ASSUME family = "functions", NEW x \in Ratchet!FunctionFacts, NEW scope, NEW p,
         OfSelected({p}, scope), p.rule # "dry.clone",
         \E q \in Ratchet!Rows(x, scope) : q.rule = p.rule,
         p.rule \notin Ratchet!Omissions(x, scope),
         NEW r \in Ratchet!Rows(Ratchet!Complete(x), Ratchet!Everything(scope)), Ratchet!Same(r, p)
  PROVE  \E q \in Ratchet!Rows(x, scope) : Ratchet!Same(q, p)
<1> DEFINE F == Ratchet!Selected(x.functions, scope)
           E == Ratchet!Selected(Ratchet!Complete(x).functions, Ratchet!Everything(scope))
<1>1. Ratchet!Rows(x, scope) = Ratchet!FunctionRows(F, x.alike)
  BY DEF Ratchet!Rows
<1>2. r \in Ratchet!FunctionRows(E, Ratchet!Complete(x).alike)
  BY DEF Ratchet!Rows
<1>3. r.rule = p.rule /\ r.id = p.id
  BY DEF Ratchet!Same
<1>4. /\ DOMAIN E \subseteq DOMAIN x.functions
      /\ DOMAIN F = DOMAIN x.functions \cap scope.filter
  BY CompletedFunctions DEF Ratchet!Selected, Ratchet!Restrict
<1>5. /\ p.rule \notin Ratchet!FunctionOmissions(F)
      /\ p.rule \in {"crap.maximum", "kiss.function"} => Ratchet!Present(F) = DOMAIN F
  BY DEF Ratchet!Omissions, Ratchet!RuleOmissions, Ratchet!ParseOmissions, Ratchet!ParseErrors
<1> HIDE DEF F, E
<1>6. CASE r.rule = "crap.maximum" /\ \E f \in Ratchet!Scored(E) : r.id = {f}
  <2>1. PICK f \in Ratchet!Scored(E) : r.id = {f}
    BY <1>6
  <2>2. f \in DOMAIN F
    BY <1>3, <1>4, <1>6, <2>1 DEF OfSelected, Ratchet!Scored, Ratchet!Present
  <2>3. f \in Ratchet!Scored(F)
    BY <1>3, <1>5, <1>6, <2>2 DEF Ratchet!FunctionOmissions, Ratchet!OmittedUnless
  <2>4. Ratchet!Maximum("crap.maximum", {f}, F[f].metric, FailOver) \in Ratchet!FunctionRows(F, x.alike)
    BY <2>3 DEF Ratchet!FunctionRows, Ratchet!CrapRows
  <2>5. QED
    BY <1>1, <1>3, <1>6, <2>1, <2>4 DEF Ratchet!Same, Ratchet!Maximum, Ratchet!Row
<1>7. CASE r.rule = "kiss.function" /\ \E f \in Ratchet!Reliable(E) : r.id = {f}
  <2>1. PICK f \in Ratchet!Reliable(E) : r.id = {f}
    BY <1>7
  <2>2. f \in DOMAIN F
    BY <1>3, <1>4, <1>7, <2>1 DEF OfSelected, Ratchet!Reliable, Ratchet!Present
  <2>3. f \in Ratchet!Reliable(F)
    BY <1>3, <1>5, <1>7, <2>2 DEF Ratchet!FunctionOmissions, Ratchet!OmittedUnless
  <2>4. Ratchet!Maximum("kiss.function", {f}, F[f].metric, FailOver) \in Ratchet!FunctionRows(F, x.alike)
    BY <2>3 DEF Ratchet!FunctionRows, Ratchet!KissRows
  <2>5. QED
    BY <1>1, <1>3, <1>7, <2>1, <2>4 DEF Ratchet!Same, Ratchet!Maximum, Ratchet!Row
<1>8. CASE r.rule = "cohesion.module" /\ r.id = {}
  <2>1. PICK q \in Ratchet!FunctionRows(F, x.alike) : q.rule = p.rule
    BY <1>1
  <2>2. q.id = {}
    BY <1>3, <1>8, <2>1, FunctionRowsAre
  <2>3. QED
    BY <1>1, <1>3, <1>8, <2>1, <2>2 DEF Ratchet!Same
<1>9. QED
  BY <1>2, <1>3, <1>6, <1>7, <1>8, FunctionRowsAre

(* Of mutants that all have a verdict, a complete check says the same.     *)
LEMMA MutantsWhole ==
  ASSUME family = "mutants", NEW x \in Ratchet!MutantFacts, NEW executes, NEW most,
         Ratchet!Inventory(x) = DOMAIN x, Ratchet!Unresolved(x, executes, most) = {}
  PROVE  Ratchet!MutationRows(Ratchet!Complete(x), executes, most) = Ratchet!MutationRows(x, executes, most)
<1> DEFINE C == Ratchet!Complete(x)
<1>1. /\ DOMAIN C = DOMAIN x
      /\ \A m \in DOMAIN x : C[m].survives = x[m].survives /\ C[m].lacks = "nothing"
  <2>1. \A m \in DOMAIN x : x[m] \in [survives : BOOLEAN, lacks : {"nothing", "verdict", "parse"}]
    BY DEF Ratchet!MutantFacts, Ratchet!Partial
  <2>2. C = [m \in DOMAIN x |-> [x[m] EXCEPT !.lacks = "nothing"]]
    BY DEF Ratchet!Complete
  <2>3. QED
    BY <2>1, <2>2
<1> HIDE DEF C
<1>2. Ratchet!Inventory(C) = Ratchet!Inventory(x)
  BY <1>1 DEF Ratchet!Inventory
<1>3. \A m \in DOMAIN x : Ratchet!Status(x, m, executes, most) \notin {"pending", "timeout"}
  BY DEF Ratchet!Unresolved, Ratchet!WithStatus
<1>4. \A m \in DOMAIN x : Ratchet!Status(C, m, executes, most) = Ratchet!Status(x, m, executes, most)
  BY <1>1, <1>2, <1>3 DEF Ratchet!Status
<1>5. /\ Ratchet!Scoreable(C, executes, most) = Ratchet!Scoreable(x, executes, most)
      /\ Ratchet!Survivors(C, executes, most) = Ratchet!Survivors(x, executes, most)
  BY <1>2, <1>4 DEF Ratchet!Scoreable, Ratchet!Survivors, Ratchet!WithStatus
<1>6. QED
  BY <1>5 DEF Ratchet!MutationRows, C

(* Nothing that is lacking is left out of the omissions.                   *)
LEMMA NothingLacks ==
  ASSUME RatchetTyped, NEW scope \in Ratchet!ScopesOf(family), Ratchet!Omissions(facts, scope) = {}
  PROVE  Ratchet!Rows(Ratchet!Complete(facts), scope) = Ratchet!Rows(facts, scope)
<1>1. CASE family = "functions"
  BY <1>1, FunctionsWhole DEF RatchetTyped, Ratchet!FactsOf
<1>2. CASE family = "mutants"
  <2>1. facts \in Ratchet!MutantFacts
    BY <1>2 DEF RatchetTyped, Ratchet!FactsOf
  <2>2. /\ Ratchet!Inventory(facts) = DOMAIN facts
        /\ Ratchet!MutationOmissions(facts, scope.executes, scope.cap) = {}
    BY <1>2 DEF Ratchet!Omissions, Ratchet!RuleOmissions, Ratchet!ParseOmissions,
                Ratchet!ParseErrors
  <2>3. Ratchet!Unresolved(facts, scope.executes, scope.cap) = {}
    BY <2>2 DEF Ratchet!MutationOmissions
  <2>4. QED
    BY <1>2, <2>1, <2>2, <2>3, MutantsWhole DEF Ratchet!Rows
<1>3. CASE family = "graph"
  <2>1. facts \in [edges : SUBSET PackageEdges, lacks : {"nothing", "graph"}]
    BY <1>3 DEF RatchetTyped, Ratchet!FactsOf, Ratchet!GraphFacts
  <2>2. Ratchet!GraphRules # {}
    BY DEF Ratchet!GraphRules
  <2>3. facts.lacks # "graph"
    BY <1>3, <2>2 DEF Ratchet!Omissions, Ratchet!RuleOmissions
  <2>4. Ratchet!Complete(facts) = facts
    BY <1>3, <2>1, <2>3 DEF Ratchet!Complete
  <2>5. QED
    BY <2>4
<1>4. CASE family = "inventories"
  <2>1. facts \in [unused : SUBSET ItemNames, implementations : SUBSET ItemNames, tested : SUBSET ItemNames,
                   lacks : SUBSET {"references", "traits"}]
    BY <1>4 DEF RatchetTyped, Ratchet!FactsOf, Ratchet!InventoryFacts
  <2>2. "references" \notin facts.lacks /\ "traits" \notin facts.lacks
    BY <1>4 DEF Ratchet!Omissions, Ratchet!RuleOmissions
  <2>3. facts.lacks = {}
    BY <2>1, <2>2
  <2>4. Ratchet!Complete(facts) = facts
    BY <1>4, <2>1, <2>3 DEF Ratchet!Complete
  <2>5. QED
    BY <2>4
<1>5. QED
  BY <1>1, <1>2, <1>3, <1>4 DEF RatchetTyped

LEMMA InventoryRowsAre ==
  ASSUME NEW unused, NEW implementations, NEW tested
  PROVE  /\ \A r \in Ratchet!YagniRows(unused) : r.rule = "yagni.unused"
         /\ \A r \in Ratchet!ContractRows(implementations, tested) : r.rule = "solid.subtype-contract-test"
<1>1. \A rule, id, m, a : Ratchet!Maximum(rule, id, m, a).rule = rule
  BY DEF Ratchet!Maximum, Ratchet!Row
<1>2. \A rule, id, excess : Ratchet!Row(rule, id, excess).rule = rule
  BY DEF Ratchet!Row
<1>3. ASSUME NEW r \in Ratchet!YagniRows(unused)
      PROVE  r.rule = "yagni.unused"
  <2>1. \E id, m : r = Ratchet!Maximum("yagni.unused", id, m, MaxItems)
    BY <1>3 DEF Ratchet!YagniRows
  <2>2. QED
    BY <1>1, <2>1
<1>4. ASSUME NEW r \in Ratchet!ContractRows(implementations, tested)
      PROVE  r.rule = "solid.subtype-contract-test"
  <2>1. CASE implementations = {}
    BY <1>2, <1>4, <2>1 DEF Ratchet!ContractRows, Ratchet!Empty, Ratchet!Boolean
  <2>2. CASE implementations # {}
    <3>1. PICK i \in implementations : r = Ratchet!Boolean("solid.subtype-contract-test", {i}, i \in tested)
      BY <1>4, <2>2 DEF Ratchet!ContractRows
    <3>2. QED
      BY <1>2, <3>1 DEF Ratchet!Boolean
  <2>3. QED
    BY <2>1, <2>2
<1>5. QED
  BY <1>3, <1>4

(* A failure that the project still has, of a rule that the check has       *)
(* evaluated, is a row of the check.                                        *)
LEMMA StillThereIsSeen ==
  ASSUME RatchetTyped, NEW scope \in Ratchet!ScopesOf(family), NEW p,
         family = "functions" => OfSelected({p}, scope), p.rule # "dry.clone",
         \E q \in Ratchet!Rows(facts, scope) : q.rule = p.rule,
         p.rule \notin Ratchet!Omissions(facts, scope),
         NEW r \in Ratchet!Rows(Ratchet!Complete(facts), Ratchet!Everything(scope)), Ratchet!Same(r, p)
  PROVE  \E q \in Ratchet!Rows(facts, scope) : Ratchet!Same(q, p)
<1>1. CASE family = "functions"
  BY <1>1, FunctionsGone DEF RatchetTyped, Ratchet!FactsOf
<1>2. CASE family = "mutants"
  <2>1. facts \in Ratchet!MutantFacts
    BY <1>2 DEF RatchetTyped, Ratchet!FactsOf
  <2>2. Ratchet!Everything(scope).executes = scope.executes /\ Ratchet!Everything(scope).cap = scope.cap
    BY DEF Ratchet!Everything, Ratchet!ScopesOf
  <2>3. p.rule \in {"mutation.score", "mutation.surviving-mutant"}
    <3>1. \A q \in Ratchet!MutationRows(facts, scope.executes, scope.cap) :
             q.rule \in {"mutation.score", "mutation.surviving-mutant"}
      <4>1. \A id, e : Ratchet!Row("mutation.score", id, e).rule = "mutation.score"
                       /\ Ratchet!Row("mutation.surviving-mutant", id, e).rule = "mutation.surviving-mutant"
        BY DEF Ratchet!Row
      <4>2. SUFFICES ASSUME NEW q \in Ratchet!MutationRows(facts, scope.executes, scope.cap)
                     PROVE  \E id, e : \/ q = Ratchet!Row("mutation.score", id, e)
                                       \/ q = Ratchet!Row("mutation.surviving-mutant", id, e)
        BY <4>1
      <4> DEFINE scoreable == Ratchet!Scoreable(facts, scope.executes, scope.cap)
                 survivors == Ratchet!Survivors(facts, scope.executes, scope.cap)
      <4>3. \/ q \in {Ratchet!Boolean("mutation.surviving-mutant", {m}, FALSE) : m \in survivors}
            \/ q = Ratchet!MutationScore(scoreable, survivors)
            \/ q = Ratchet!Empty("mutation.surviving-mutant")
        BY <4>2 DEF Ratchet!MutationRows
      <4> HIDE DEF scoreable, survivors
      <4>4. QED
        BY <4>3 DEF Ratchet!MutationScore, Ratchet!Minimum, Ratchet!Boolean, Ratchet!Empty
    <3>2. QED
      BY <1>2, <3>1 DEF Ratchet!Rows
  <2>4. Ratchet!Inventory(facts) = DOMAIN facts
    BY <1>2, <2>3 DEF Ratchet!Omissions, Ratchet!ParseOmissions, Ratchet!ParseErrors
  <2>5. Ratchet!Unresolved(facts, scope.executes, scope.cap) = {}
    BY <1>2, <2>3 DEF Ratchet!Omissions, Ratchet!RuleOmissions, Ratchet!MutationOmissions
  <2>6. r \in Ratchet!Rows(facts, scope)
    BY <1>2, <2>1, <2>2, <2>4, <2>5, MutantsWhole DEF Ratchet!Rows
  <2>7. QED
    BY <2>6
<1>3. CASE family = "graph"
  <2>1. facts \in [edges : SUBSET PackageEdges, lacks : {"nothing", "graph"}]
    BY <1>3 DEF RatchetTyped, Ratchet!FactsOf, Ratchet!GraphFacts
  <2>2. facts.lacks # "graph"
    BY <1>3 DEF Ratchet!Rows
  <2>3. Ratchet!Complete(facts) = facts
    BY <1>3, <2>1, <2>2 DEF Ratchet!Complete
  <2>4. r \in Ratchet!Rows(facts, scope)
    BY <1>3, <2>3 DEF Ratchet!Rows
  <2>5. QED
    BY <2>4
<1>4. CASE family = "inventories"
  <2>1. facts \in [unused : SUBSET ItemNames, implementations : SUBSET ItemNames, tested : SUBSET ItemNames,
                   lacks : SUBSET {"references", "traits"}]
    BY <1>4 DEF RatchetTyped, Ratchet!FactsOf, Ratchet!InventoryFacts
  <2>2. /\ Ratchet!Complete(facts).unused = facts.unused /\ Ratchet!Complete(facts).tested = facts.tested
        /\ Ratchet!Complete(facts).implementations = facts.implementations
    BY <1>4, <2>1 DEF Ratchet!Complete
  <2>3. r.rule = p.rule
    BY DEF Ratchet!Same
  <2>4. \/ r \in Ratchet!YagniRows(facts.unused)
        \/ r \in Ratchet!ContractRows(facts.implementations, facts.tested)
    BY <1>4, <2>2 DEF Ratchet!Rows
  <2>5. /\ "references" \in facts.lacks => p.rule # "yagni.unused"
        /\ "traits" \in facts.lacks => p.rule # "solid.subtype-contract-test"
    BY <1>4 DEF Ratchet!Omissions, Ratchet!RuleOmissions
  <2>6. r \in Ratchet!Rows(facts, scope)
    BY <1>4, <2>3, <2>4, <2>5, InventoryRowsAre DEF Ratchet!Rows
  <2>7. QED
    BY <2>6
<1>5. QED
  BY <1>1, <1>2, <1>3, <1>4 DEF RatchetTyped

(* What is adopted as the baseline is about selected functions.             *)
LEMMA RowsOfSelected ==
  ASSUME family = "functions", NEW x, NEW scope
  PROVE  OfSelected(Ratchet!Rows(x, scope), scope)
<1> DEFINE F == Ratchet!Selected(x.functions, scope)
<1>1. SUFFICES ASSUME NEW p \in Ratchet!FunctionRows(F, x.alike), p.rule \in {"crap.maximum", "kiss.function"}
               PROVE  p.id \subseteq scope.filter
  BY DEF OfSelected, Ratchet!Rows
<1>2. DOMAIN F \subseteq scope.filter
  BY DEF Ratchet!Selected, Ratchet!Restrict
<1>3. Ratchet!Scored(F) \subseteq DOMAIN F /\ Ratchet!Reliable(F) \subseteq DOMAIN F
  BY DEF Ratchet!Scored, Ratchet!Reliable, Ratchet!Present
<1> HIDE DEF F
<1>4. QED
  BY <1>1, <1>2, <1>3, FunctionRowsAre

(* The report of a check, and no other, counts and decides.                *)
LEMMA ReportSays ==
  ASSUME Reported, report.made \/ report.gate \/ report.resolved # {}
  PROVE  \E scope \in Ratchet!ScopesOf(family) :
            /\ ReportOf(scope, TRUE) \/ ReportOf(scope, FALSE)
            /\ report.rows = Ratchet!Rows(facts, scope) /\ report.scope = scope
            /\ report.gate => Ratchet!Omissions(facts, scope) = {}
<1>1. report # Ratchet!NoReport
  BY DEF Ratchet!NoReport
<1>2. report # Ratchet!OperationalError
  <2>1. Ratchet!NoReport = [made |-> FALSE, rows |-> {}, scope |-> {}, resolved |-> {}, gate |-> FALSE, exit |-> "none"]
    BY DEF Ratchet!NoReport
  <2>2. Ratchet!OperationalError = [Ratchet!NoReport EXCEPT !.exit = "operational"]
    BY DEF Ratchet!OperationalError
  <2>3. /\ ~Ratchet!OperationalError.made /\ ~Ratchet!OperationalError.gate
        /\ Ratchet!OperationalError.resolved = {}
    BY <2>1, <2>2
  <2>4. QED
    BY <2>3
<1>3. PICK scope \in Ratchet!ScopesOf(family) : ReportOf(scope, TRUE) \/ ReportOf(scope, FALSE)
  BY <1>1, <1>2 DEF Reported
<1>4. CASE ReportOf(scope, TRUE)
  <2>1. report = Ratchet!Report(facts, scope, TRUE)
    BY <1>4 DEF ReportOf
  <2>2. /\ report.rows = Ratchet!Rows(facts, scope) /\ report.scope = scope
        /\ report.gate = Ratchet!GatePasses(Ratchet!ComparisonPasses(TRUE, report.rows, baseline.rows),
                                            Ratchet!Omissions(facts, scope))
    BY <2>1 DEF Ratchet!Report
  <2>3. QED
    BY <1>4, <2>2 DEF Ratchet!GatePasses
<1>5. CASE ReportOf(scope, FALSE)
  <2>1. report = Ratchet!Report(facts, scope, FALSE)
    BY <1>5 DEF ReportOf
  <2>2. /\ report.rows = Ratchet!Rows(facts, scope) /\ report.scope = scope
        /\ report.gate = Ratchet!GatePasses(Ratchet!ComparisonPasses(FALSE, report.rows, baseline.rows),
                                            Ratchet!Omissions(facts, scope))
    BY <2>1 DEF Ratchet!Report
  <2>3. QED
    BY <1>5, <2>2 DEF Ratchet!GatePasses
<1>6. QED
  BY <1>3, <1>4, <1>5

LEMMA CheckStep ==
  ASSUME RatchetInv, NEW scope \in Ratchet!ScopesOf(family), NEW enabled \in BOOLEAN,
         Ratchet!Check(scope, enabled)
  PROVE  RatchetInv'
<1>1. UNCHANGED <<family, facts, baseline>>
  BY DEF Ratchet!Check
<1>2. \/ report' = Ratchet!OperationalError
      \/ /\ report' = Ratchet!Report(facts, scope, enabled)
         /\ enabled => baseline.made /\ baseline.scope = scope
  BY DEF Ratchet!Check, Ratchet!BaselineFits
<1>3. enabled = TRUE \/ enabled = FALSE
  OBVIOUS
<1>4. Reported'
  <2>0. \A s, e : (Ratchet!Report(facts, s, e))' = Ratchet!Report(facts, s, e)
    BY <1>1 DEF Ratchet!Report, Ratchet!Rows, Ratchet!Omissions, Ratchet!ParseOmissions,
                Ratchet!ParseErrors,
                Ratchet!RuleOmissions, Ratchet!MutationExit
  <2>1. CASE report' = Ratchet!OperationalError
    BY <2>1 DEF Reported
  <2>2. CASE enabled = TRUE /\ report' # Ratchet!OperationalError
    BY <1>1, <1>2, <2>0, <2>2 DEF Reported, ReportOf
  <2>3. CASE enabled = FALSE /\ report' # Ratchet!OperationalError
    BY <1>1, <1>2, <2>0, <2>3 DEF Reported, ReportOf
  <2>4. QED
    BY <1>3, <2>1, <2>2, <2>3
<1>5. QED
  BY <1>1, <1>4 DEF RatchetInv, RatchetTyped, OfSelected

LEMMA AdoptStep ==
  ASSUME RatchetInv, NEW x \in Ratchet!FactsOf(family), Ratchet!Adopt(x)
  PROVE  RatchetInv'
<1>1. /\ report.made /\ facts' = x /\ family' = family /\ report' = Ratchet!NoReport
      /\ baseline' = [Ratchet!NoReport EXCEPT !.made = TRUE, !.rows = report.rows, !.scope = report.scope]
  BY DEF Ratchet!Adopt
<1>2. baseline'.rows = report.rows /\ baseline'.scope = report.scope
  BY <1>1 DEF Ratchet!NoReport
<1>3. PICK scope : report.rows = Ratchet!Rows(facts, scope) /\ report.scope = scope
  BY <1>1, ReportSays DEF RatchetInv
<1>4. family = "functions" => OfSelected(baseline'.rows, baseline'.scope)
  BY <1>2, <1>3, RowsOfSelected
<1>5. RatchetTyped'
  BY <1>1 DEF RatchetInv, RatchetTyped, Ratchet!FactsOf
<1>6. Reported'
  BY <1>1 DEF Reported
<1>7. QED
  BY <1>1, <1>4, <1>5, <1>6 DEF RatchetInv, OfSelected

LEMMA RatchetStep ==
  ASSUME RatchetInv, [Ratchet!Next]_ratchet
  PROVE  RatchetInv'
<1>1. CASE UNCHANGED ratchet
  <2>1. \A s, e : (Ratchet!Report(facts, s, e))' = Ratchet!Report(facts, s, e)
    BY <1>1 DEF ratchet, Ratchet!Report, Ratchet!Rows, Ratchet!Omissions, Ratchet!ParseOmissions,
                Ratchet!ParseErrors, Ratchet!RuleOmissions, Ratchet!MutationExit
  <2>2. Reported'
    BY <1>1, <2>1 DEF RatchetInv, Reported, ReportOf, ratchet
  <2>3. QED
    BY <1>1, <2>2 DEF RatchetInv, RatchetTyped, OfSelected, ratchet
<1>2. CASE \E scope \in Ratchet!ScopesOf(family), enabled \in BOOLEAN : Ratchet!Check(scope, enabled)
  BY <1>2, CheckStep
<1>3. CASE \E x \in Ratchet!FactsOf(family) : Ratchet!Adopt(x)
  BY <1>3, AdoptStep
<1>4. QED
  BY <1>1, <1>2, <1>3 DEF Ratchet!Next

LEMMA RatchetBegin == Ratchet!Init => RatchetInv
  BY DEF Ratchet!Init, RatchetInv, RatchetTyped, Reported, OfSelected, Ratchet!NoReport

LEMMA ResolvedGone ==
  ASSUME RatchetInv
  PROVE  Ratchet!ResolvedIsGone
<1>1. SUFFICES ASSUME NEW p \in report.resolved, p.rule # "dry.clone",
                      NEW r \in Ratchet!TrueFailures(Ratchet!Everything(report.scope)), Ratchet!Same(r, p)
               PROVE  FALSE
  BY DEF Ratchet!ResolvedIsGone
<1>2. PICK scope \in Ratchet!ScopesOf(family) : ReportOf(scope, TRUE) \/ ReportOf(scope, FALSE)
  BY <1>1, ReportSays DEF RatchetInv
<1> DEFINE rows == Ratchet!Rows(facts, scope)
           omitted == Ratchet!Omissions(facts, scope)
<1>3. report.scope = scope /\ baseline.scope = scope /\ p \in Ratchet!Resolved(rows, baseline.rows, omitted)
  <2>1. CASE ReportOf(scope, TRUE)
    BY <1>1, <2>1 DEF ReportOf, Ratchet!Report
  <2>2. CASE ReportOf(scope, FALSE)
    BY <1>1, <2>2 DEF ReportOf, Ratchet!Report
  <2>3. QED
    BY <1>2, <2>1, <2>2
<1>4. /\ p \in baseline.rows /\ p.rule \notin omitted
      /\ \E q \in rows : q.rule = p.rule
      /\ ~\E q \in rows : Ratchet!Same(q, p)
  BY <1>3 DEF Ratchet!Resolved
<1>5. r \in Ratchet!Rows(Ratchet!Complete(facts), Ratchet!Everything(scope))
  BY <1>1, <1>3 DEF Ratchet!TrueFailures
<1>6. family = "functions" => OfSelected({p}, scope)
  BY <1>3, <1>4 DEF RatchetInv, OfSelected
<1>7. QED
  BY <1>1, <1>4, <1>5, <1>6, StillThereIsSeen DEF RatchetInv

LEMMA GateHolds ==
  ASSUME RatchetInv
  PROVE  Ratchet!GateHoldsTheLine
<1>1. SUFFICES ASSUME report.gate, NEW r \in Ratchet!TrueFailures(report.scope)
               PROVE  \E p \in baseline.rows : Ratchet!Same(r, p) /\ p.fails /\ ~(r.excess > p.excess)
  BY DEF Ratchet!GateHoldsTheLine
<1>2. PICK scope \in Ratchet!ScopesOf(family) :
         /\ ReportOf(scope, TRUE) \/ ReportOf(scope, FALSE)
         /\ report.scope = scope /\ Ratchet!Omissions(facts, scope) = {}
  BY <1>1, ReportSays DEF RatchetInv
<1> DEFINE rows == Ratchet!Rows(facts, scope)
<1>3. r \in rows /\ r.fails
  BY <1>1, <1>2, NothingLacks DEF RatchetInv, Ratchet!TrueFailures
<1> HIDE DEF rows
<1>4. CASE ReportOf(scope, TRUE)
  <2>1. Ratchet!ComparisonPasses(TRUE, rows, baseline.rows)
    BY <1>1, <1>4 DEF ReportOf, Ratchet!Report, Ratchet!GatePasses, rows
  <2>2. Ratchet!Disposition(r, baseline.rows) \notin {"new", "worsened"}
    BY <1>3, <2>1 DEF Ratchet!ComparisonPasses
  <2> DEFINE before == {p \in baseline.rows : Ratchet!Same(r, p)}
  <2>3. before # {}
    BY <1>3, <2>2 DEF Ratchet!Disposition
  <2>4. ~\E p \in before : ~p.fails \/ r.excess > p.excess
    BY <1>3, <2>2, <2>3 DEF Ratchet!Disposition
  <2>5. QED
    BY <2>3, <2>4
<1>5. CASE ReportOf(scope, FALSE)
  <2>1. Ratchet!ComparisonPasses(FALSE, rows, baseline.rows)
    BY <1>1, <1>5 DEF ReportOf, Ratchet!Report, Ratchet!GatePasses, rows
  <2>2. QED
    BY <1>3, <2>1 DEF Ratchet!ComparisonPasses
<1>6. QED
  BY <1>2, <1>4, <1>5

(* Whatever changes between two checks and whatever evidence is lacking in *)
(* either, what counts as resolved is gone from the project, and a gate     *)
(* that passes holds the line of the baseline (baseline.rs, run_check).     *)
THEOREM RatchetAlwaysHolds == Ratchet!Spec => []RatchetHolds
<1>1. Ratchet!Init => RatchetInv
  BY RatchetBegin
<1>2. RatchetInv /\ [Ratchet!Next]_ratchet => RatchetInv'
  BY RatchetStep
<1>3. RatchetInv => RatchetHolds
  BY ResolvedGone, GateHolds DEF RatchetHolds
<1>4. QED
  BY <1>1, <1>2, <1>3, PTL DEF Ratchet!Spec, Ratchet!vars, ratchet
-----------------------------------------------------------------------------
(* Cycles: what leads to what.                                             *)

Pack == Graph!Node
Edge(m, n) == <<m, n>> \in Graph!Edges

(* A package and all that it leads to, and those that lead back.           *)
Leads(n) == {m \in Pack : \A S \in SUBSET Pack : Graph!Closed(S) /\ n \in S => m \in S}
Class(n) == {m \in Leads(n) : n \in Leads(m)}

LEMMA SameCount == \A S : Graph!Cardinality(S) = Cardinality(S)
  BY DEF Graph!Cardinality, Cardinality, Graph!IsFiniteSet, IsFiniteSet

LEMMA LeadsOn ==
  /\ \A n \in Pack : n \in Leads(n) /\ Leads(n) \subseteq Pack
  /\ \A m, n \in Pack : Edge(m, n) => n \in Leads(m)
  /\ \A k, m, n \in Pack : m \in Leads(k) /\ n \in Leads(m) => n \in Leads(k)
  /\ \A n \in Pack, S \in SUBSET Pack : Graph!Closed(S) /\ n \in S => Leads(n) \subseteq S
  BY DEF Leads, Edge, Graph!Closed, Pack

(* What is reached from a package is what its dependencies lead to.        *)
LEMMA ReachedIs ==
  ASSUME NEW n \in Pack
  PROVE  Graph!Reached(n) = {m \in Pack : \E s \in Pack : Edge(n, s) /\ m \in Leads(s)}
<1> DEFINE T == {m \in Pack : \E s \in Pack : Edge(n, s) /\ m \in Leads(s)}
<1>1. T \subseteq Graph!Reached(n)
  BY LeadsOn DEF Graph!Reached, Edge, Pack, Leads
<1>2. T \in SUBSET Pack
  OBVIOUS
<1>3. \A k \in Pack : <<n, k>> \in Graph!Edges => k \in T
  BY LeadsOn DEF Edge
<1>4. Graph!Closed(T)
  <2>1. SUFFICES ASSUME NEW k \in Pack, NEW m \in Pack, Edge(k, m), k \in T
                 PROVE  m \in T
    BY DEF Graph!Closed, Edge, Pack
  <2>2. QED
    BY <2>1, LeadsOn
<1> HIDE DEF T
<1>5. Graph!Reached(n) \subseteq T
  BY <1>2, <1>3, <1>4 DEF Graph!Reached, Pack
<1>6. QED
  BY <1>1, <1>5 DEF T

LEMMA LeadsIs ==
  ASSUME NEW n \in Pack
  PROVE  Leads(n) = {n} \cup Graph!Reached(n)
<1>1. {n} \cup Graph!Reached(n) \in SUBSET Pack
  BY ReachedIs
<1>2. Graph!Closed({n} \cup Graph!Reached(n))
  <2>1. SUFFICES ASSUME NEW k \in Pack, NEW m \in Pack, Edge(k, m), k \in {n} \cup Graph!Reached(n)
                 PROVE  m \in Graph!Reached(n)
    BY DEF Graph!Closed, Edge, Pack
  <2>2. QED
    BY <2>1, LeadsOn, ReachedIs
<1>3. Leads(n) \subseteq {n} \cup Graph!Reached(n)
  BY <1>1, <1>2, LeadsOn
<1>4. {n} \cup Graph!Reached(n) \subseteq Leads(n)
  BY ReachedIs, LeadsOn
<1>5. QED
  BY <1>3, <1>4

(* A cycle is the class of its members; other classes have one member that *)
(* does not depend on itself.                                              *)
LEMMA CycleOrNone ==
  ASSUME NEW n \in Pack
  PROVE  Graph!MutualDependencies(n) = IF Graph!IsCycle(Class(n)) THEN Class(n) ELSE {}
<1>1. /\ Class(n) \subseteq Pack /\ n \in Class(n)
      /\ \A m \in Class(n) : n \in Leads(m) /\ m \in Leads(n)
  BY LeadsOn DEF Class
<1>2. Graph!MutualDependencies(n) \subseteq Class(n)
  BY LeadsIs, ReachedIs DEF Graph!MutualDependencies, Class
<1>3. ASSUME NEW m \in Class(n), m # n
      PROVE  m \in Graph!MutualDependencies(n) /\ n \in Graph!MutualDependencies(n)
  <2>1. m \in Pack /\ m \in Graph!Reached(n) /\ n \in Graph!Reached(m)
    BY <1>1, <1>3, LeadsIs
  <2>2. n \in Graph!Reached(n)
    BY <2>1, ReachedIs, LeadsOn, LeadsIs
  <2>3. QED
    BY <2>1, <2>2 DEF Graph!MutualDependencies
<1>4. IsFiniteSet(Class(n))
  <2>1. IsFiniteSet(1..PackageCount)
    BY GraphAssumption, FS_Interval
  <2>2. Class(n) \in SUBSET (1..PackageCount)
    BY <1>1 DEF Pack, Graph!Node
  <2>3. QED
    BY <2>1, <2>2, FS_Subset
<1>5. Cardinality(Class(n)) > 1 <=> \E m \in Class(n) : m # n
  <2>1. CASE Class(n) = {n}
    BY <2>1, FS_Singleton
  <2>2. CASE Class(n) # {n}
    <3>1. PICK m \in Class(n) : m # n
      BY <1>1, <2>2
    <3>2. {n, m} = {m} \cup {n} /\ n \notin {m} /\ {n, m} \subseteq Class(n)
      BY <1>1, <3>1
    <3>3. IsFiniteSet({m}) /\ Cardinality({m}) = 1
      BY FS_Singleton
    <3>4. Cardinality({m} \cup {n}) = 2
      BY <3>2, <3>3, FS_AddElement
    <3>5. Cardinality({n, m}) <= Cardinality(Class(n)) /\ Cardinality(Class(n)) \in Nat
      BY <1>4, <3>2, FS_Subset, FS_CardinalityType
    <3>6. QED
      BY <3>1, <3>2, <3>4, <3>5
  <2>3. QED
    BY <2>1, <2>2
<1>6. CASE \E m \in Class(n) : m # n
  BY <1>1, <1>2, <1>3, <1>5, <1>6, SameCount DEF Graph!IsCycle
<1>7. CASE ~ \E m \in Class(n) : m # n
  <2>1. Class(n) = {n}
    BY <1>1, <1>7
  <2>2. n \in Graph!Reached(n) <=> Edge(n, n)
    <3>1. ASSUME NEW s \in Pack, Edge(n, s), n \in Leads(s)
          PROVE  s = n
      BY <2>1, <3>1, LeadsOn DEF Class
    <3>2. QED
      BY <3>1, ReachedIs, LeadsOn
  <2>3. Graph!IsCycle(Class(n)) <=> Edge(n, n)
    BY <1>1, <1>5, <1>7, <2>1, SameCount DEF Graph!IsCycle, Edge
  <2>4. QED
    BY <1>2, <2>1, <2>2, <2>3 DEF Graph!MutualDependencies
<1>8. QED
  BY <1>6, <1>7

-----------------------------------------------------------------------------
(* Cycles: the invariant of the walk.                                      *)

Call == [node : Pack, edges : SUBSET Pack]
Depth == Len(frames)
Caller(k) == frames[k].node
OnStack == {stack[i] : i \in 1..Len(stack)}
Complete == UNION {components[i] : i \in 1..Len(components)}

WalkTyped ==
  /\ stack \in Seq(Pack) /\ components \in Seq(SUBSET Pack) /\ frames \in Seq(Call)
  /\ DOMAIN indices \subseteq Pack
  /\ indices \in [DOMAIN indices -> Nat] /\ lowlinks \in [DOMAIN indices -> Nat]
  /\ \A x \in DOMAIN indices : indices[x] < Cardinality(DOMAIN indices)

(* The stack holds the visited packages whose class is open, the calls are *)
(* about some of them, and both are in the order of the visits.            *)
Ordered ==
  /\ OnStack \cap Complete = {} /\ OnStack \cup Complete = DOMAIN indices
  /\ \A i, j \in 1..Len(stack) : i < j => indices[stack[i]] < indices[stack[j]]
  /\ \A k \in 1..Depth : Caller(k) \in OnStack
  /\ \A k, l \in 1..Depth : k < l => indices[Caller(k)] < indices[Caller(l)]
  /\ \A k \in 1..Depth : \A m \in frames[k].edges : Edge(Caller(k), m)

(* What is complete is a class each, and leads to nothing else.            *)
ClassesFound ==
  /\ \A m, n \in Pack : Edge(m, n) /\ m \in Complete => n \in Complete
  /\ \A i \in 1..Len(components) :
       components[i] # {} /\ \A x \in components[i] : components[i] = Class(x)
  /\ \A i, j \in 1..Len(components) : i # j => components[i] \cap components[j] = {}

(* An open call leads to all that was visited since; what was visited      *)
(* leads back to an open call that is no younger.                          *)
CallsLead ==
  /\ \A k \in 1..Depth : \A x \in OnStack : indices[Caller(k)] <= indices[x] => x \in Leads(Caller(k))
  /\ \A x \in OnStack : \E k \in 1..Depth : indices[Caller(k)] <= indices[x] /\ Caller(k) \in Leads(x)

(* A lowlink is the index of something open that the package leads to, and *)
(* no edge from what a call has seen leads below the lowlink of the call.  *)
LowlinkIsReached ==
  \A x \in OnStack :
     /\ lowlinks[x] <= indices[x]
     /\ \E y \in OnStack : indices[y] = lowlinks[x] /\ y \in Leads(x)
SeenBy(k, x) ==
  /\ indices[Caller(k)] <= indices[x]
  /\ k < Depth => indices[x] < indices[Caller(k + 1)]
LowlinkIsLeast ==
  \A k \in 1..Depth : \A x \in OnStack, y \in Pack :
     SeenBy(k, x) /\ Edge(x, y) /\ (x = Caller(k) => y \notin frames[k].edges) =>
        y \in DOMAIN indices /\ (y \in OnStack => lowlinks[Caller(k)] <= indices[y])

GraphInv ==
  WalkTyped /\ Ordered /\ ClassesFound /\ CallsLead /\ LowlinkIsReached /\ LowlinkIsLeast

LEMMA LeastIsThere ==
  ASSUME NEW S \in SUBSET Nat, S # {}
  PROVE  \E x \in S : \A y \in S : x <= y
<1> DEFINE R == OpToRel(<, Nat)
<1>1. \A a, b \in Nat : a < b => <<a, b>> \in R
  BY DEF OpToRel
<1>2. IsWellFoundedOn(R, Nat)
  BY NatLessThanWellFounded
<1> HIDE DEF R
<1>3. PICK x \in S : \A y \in S : ~(<<y, x>> \in R)
  BY <1>2, WFMin
<1>4. ASSUME NEW y \in S PROVE x <= y
  <2>1. x \in Nat /\ y \in Nat
    OBVIOUS
  <2>2. ~(y < x)
    BY <1>1, <1>3, <2>1
  <2>3. QED
    BY <2>1, <2>2
<1>5. QED
  BY <1>4

LEMMA MinIsIn ==
  /\ \A S \in SUBSET Pack : S # {} => Graph!Min(S) \in S
  /\ \A a, b \in Nat : Graph!Min({a, b}) \in {a, b} /\ Graph!Min({a, b}) <= a /\ Graph!Min({a, b}) <= b
<1>1. ASSUME NEW S \in SUBSET Pack, S # {} PROVE Graph!Min(S) \in S
  <2>1. S \in SUBSET Nat
    BY <1>1 DEF Pack, Graph!Node
  <2>2. \E x \in S : \A y \in S : x <= y
    BY <1>1, <2>1, LeastIsThere
  <2>3. QED
    BY <2>2 DEF Graph!Min
<1>2. ASSUME NEW a \in Nat, NEW b \in Nat
      PROVE  Graph!Min({a, b}) \in {a, b} /\ Graph!Min({a, b}) <= a /\ Graph!Min({a, b}) <= b
  <2>1. \E x \in {a, b} : \A y \in {a, b} : x <= y
    BY <1>2
  <2>2. QED
    BY <2>1 DEF Graph!Min
<1>3. QED
  BY <1>1, <1>2

LEMMA GraphBegins == Graph!Init => GraphInv
<1> SUFFICES ASSUME Graph!Init PROVE GraphInv
  OBVIOUS
<1>1. stack = <<>> /\ components = <<>> /\ frames = <<>> /\ indices = <<>> /\ lowlinks = <<>>
  BY DEF Graph!Init
<1>2. Len(<<>>) = 0 /\ 1..0 = {} /\ DOMAIN <<>> = {}
  OBVIOUS
<1>3. OnStack = {} /\ Complete = {}
  BY <1>1, <1>2 DEF OnStack, Complete
<1>4. QED
  BY <1>1, <1>2, <1>3
     DEF GraphInv, WalkTyped, Ordered, ClassesFound, CallsLead, LowlinkIsReached, LowlinkIsLeast,
         Depth, Call

(* The top of the stack down to a package on it.                           *)
LEMMA ComponentIs ==
  ASSUME WalkTyped, Ordered, NEW n \in OnStack
  PROVE  /\ Graph!Component(n).members = {x \in OnStack : indices[n] <= indices[x]}
         /\ Graph!Component(n).below \in Seq(Pack)
         /\ Len(Graph!Component(n).below) <= Len(stack)
         /\ \A i \in 1..Len(Graph!Component(n).below) : Graph!Component(n).below[i] = stack[i]
         /\ {Graph!Component(n).below[i] : i \in 1..Len(Graph!Component(n).below)}
              = {x \in OnStack : indices[x] < indices[n]}
<1> DEFINE first == CHOOSE i \in DOMAIN stack : stack[i] = n
           below == SubSeq(stack, 1, first - 1)
<1>1. /\ Len(stack) \in Nat /\ DOMAIN stack = 1..Len(stack)
      /\ \A i \in 1..Len(stack) : stack[i] \in Pack /\ indices[stack[i]] \in Nat
  BY DEF WalkTyped, Ordered, OnStack
<1>2. first \in 1..Len(stack) /\ stack[first] = n
  BY <1>1 DEF OnStack
<1>3. Graph!Component(n) = [members |-> {stack[i] : i \in first..Len(stack)}, below |-> below]
  BY DEF Graph!Component
<1> HIDE DEF first
<1>4. \A i \in 1..Len(stack) : indices[n] <= indices[stack[i]] <=> i \in first..Len(stack)
  BY <1>1, <1>2 DEF Ordered
<1>5. /\ below \in Seq(Pack) /\ Len(below) = first - 1
      /\ \A i \in 1..first - 1 : below[i] = stack[i]
  BY <1>1, <1>2 DEF WalkTyped
<1> HIDE DEF below
<1>6. {below[i] : i \in 1..Len(below)} = {x \in OnStack : indices[x] < indices[n]}
  <2>1. {below[i] : i \in 1..Len(below)} = {stack[i] : i \in 1..first - 1}
    BY <1>5
  <2>2. \A i \in 1..Len(stack) : indices[stack[i]] < indices[n] <=> i \in 1..first - 1
    BY <1>1, <1>2, <1>4
  <2>3. 1..first - 1 \subseteq 1..Len(stack)
    BY <1>1, <1>2
  <2>4. QED
    BY <2>1, <2>2, <2>3 DEF OnStack
<1>7. {stack[i] : i \in first..Len(stack)} = {x \in OnStack : indices[n] <= indices[x]}
  BY <1>1, <1>2, <1>4 DEF OnStack
<1>8. /\ Graph!Component(n).members = {stack[i] : i \in first..Len(stack)}
      /\ Graph!Component(n).below = below
  BY <1>3
<1>9. Len(below) <= Len(stack)
  BY <1>1, <1>2, <1>5
<1>10. QED
  BY <1>5, <1>6, <1>7, <1>8, <1>9

(* The graph stays, and with it what leads to what.                        *)
LEMMA GraphStays ==
  ASSUME UNCHANGED dependencies
  PROVE  /\ \A m, n : Edge(m, n)' <=> Edge(m, n)
         /\ \A n : Leads(n)' = Leads(n) /\ Class(n)' = Class(n)
  BY DEF Edge, Leads, Class, Graph!Closed, Graph!Edges, Pack, Graph!Node

LEMMA NumberedCount ==
  ASSUME WalkTyped
  PROVE  IsFiniteSet(DOMAIN indices) /\ Cardinality(DOMAIN indices) \in Nat
<1>1. IsFiniteSet(1..PackageCount)
  BY GraphAssumption, FS_Interval
<1>2. DOMAIN indices \in SUBSET (1..PackageCount)
  BY DEF WalkTyped, Pack, Graph!Node
<1>3. QED
  BY <1>1, <1>2, FS_Subset, FS_CardinalityType

(* A package is visited, from the top call or as a root.                   *)
LEMMA Starting ==
  ASSUME GraphInv, NEW n \in Pack, n \notin DOMAIN indices, NEW below \in Seq(Call),
         Graph!Start(n, below), UNCHANGED <<dependencies, components>>,
         Len(below) = Depth,
         \A k \in 1..Depth : /\ below[k].node = Caller(k) /\ below[k].edges \subseteq frames[k].edges
                             /\ \A m \in frames[k].edges : m \notin below[k].edges => m = n,
         Depth > 0 => Edge(Caller(Depth), n)
  PROVE  GraphInv'
<1> DEFINE index == Cardinality(DOMAIN indices)
           N == DOMAIN indices
<1> USE DEF GraphInv
<1>1. index \in Nat /\ IsFiniteSet(N) /\ \A x \in N : indices[x] \in Nat /\ indices[x] < index /\ lowlinks[x] \in Nat
  BY NumberedCount DEF WalkTyped
<1>2. /\ indices' = [m \in N \cup {n} |-> IF m = n THEN index ELSE indices[m]]
      /\ lowlinks' = [m \in N \cup {n} |-> IF m = n THEN index ELSE lowlinks[m]]
      /\ stack' = Append(stack, n)
      /\ frames' = Append(below, [node |-> n, edges |-> {m \in Pack : Edge(n, m)}])
  <2>1. DOMAIN lowlinks = N
    BY DEF WalkTyped
  <2>2. QED
    BY <2>1, SameCount DEF Graph!Start, Graph!Inserted, Pack, Edge
<1>3. Len(stack) \in Nat /\ Depth \in Nat /\ OnStack \subseteq N /\ Complete \subseteq N /\ N \subseteq Pack
  BY DEF WalkTyped, Ordered, Depth
<1>4. /\ DOMAIN indices' = N \cup {n} /\ indices'[n] = index /\ lowlinks'[n] = index
      /\ \A x \in N : indices'[x] = indices[x] /\ lowlinks'[x] = lowlinks[x]
  BY <1>2
<1>5. /\ Len(stack') = Len(stack) + 1 /\ stack'[Len(stack) + 1] = n
      /\ \A i \in 1..Len(stack) : stack'[i] = stack[i]
  BY <1>2 DEF WalkTyped
<1>6. OnStack' = OnStack \cup {n} /\ n \notin OnStack
  BY <1>3, <1>5 DEF OnStack
<1>7. Complete' = Complete
  BY DEF Complete
<1>8. /\ frames' \in Seq(Call) /\ Depth' = Depth + 1
      /\ \A k \in 1..Depth : frames'[k] = below[k]
      /\ frames'[Depth + 1] = [node |-> n, edges |-> {m \in Pack : Edge(n, m)}]
  BY <1>2 DEF Depth, Call
<1>9. /\ \A k \in 1..Depth : frames'[k].node = Caller(k) /\ frames'[k].edges \subseteq frames[k].edges
      /\ frames'[Depth + 1].node = n /\ frames'[Depth + 1].edges = {m \in Pack : Edge(n, m)}
  BY <1>8 DEF Caller
<1>10. \A k \in 1..Depth : Caller(k) \in OnStack /\ indices[Caller(k)] \in Nat /\ indices[Caller(k)] < index
  BY <1>1, <1>3 DEF Ordered
<1> HIDE DEF index, N
<1>11. WalkTyped'
  <2>1. Cardinality(N \cup {n}) = index + 1
    BY <1>1, FS_AddElement DEF index, N
  <2>2. \A x \in N \cup {n} : indices'[x] \in Nat /\ lowlinks'[x] \in Nat /\ indices'[x] < index + 1
    BY <1>1, <1>4
  <2>3. stack' \in Seq(Pack) /\ components' \in Seq(SUBSET Pack)
    BY <1>2 DEF WalkTyped
  <2>4. indices' \in [N \cup {n} -> Nat] /\ lowlinks' \in [N \cup {n} -> Nat]
    BY <1>2, <2>2
  <2>5. Pack' = Pack /\ Call' = Call
    BY DEF Pack, Call, Graph!Node
  <2>6. QED
    BY <1>3, <1>4, <1>8, <2>1, <2>2, <2>3, <2>4, <2>5 DEF WalkTyped
<1>12. Ordered'
  <2>1. OnStack' \cap Complete' = {} /\ OnStack' \cup Complete' = DOMAIN indices'
    BY <1>3, <1>4, <1>6, <1>7 DEF Ordered, N
  <2>2. \A i, j \in 1..Len(stack') : i < j => indices'[stack'[i]] < indices'[stack'[j]]
    <3>1. \A i \in 1..Len(stack) : stack[i] \in N
      BY <1>3 DEF OnStack
    <3>2. QED
      BY <1>1, <1>3, <1>4, <1>5, <3>1 DEF Ordered
  <2>3. \A k \in 1..Depth' : frames'[k].node \in OnStack'
    BY <1>3, <1>6, <1>8, <1>9, <1>10
  <2>4. \A k, l \in 1..Depth' : k < l => indices'[frames'[k].node] < indices'[frames'[l].node]
    <3>1. SUFFICES ASSUME NEW k \in 1..Depth, NEW l \in 1..Depth', k < l
                   PROVE  indices'[frames'[k].node] < indices'[frames'[l].node]
      BY <1>3, <1>8
    <3>2. frames'[k].node = Caller(k) /\ indices'[Caller(k)] = indices[Caller(k)]
      BY <1>3, <1>4, <1>9, <1>10
    <3>3. CASE l = Depth + 1
      BY <1>4, <1>9, <1>10, <3>2, <3>3
    <3>4. CASE l \in 1..Depth
      <4>1. frames'[l].node = Caller(l) /\ indices'[Caller(l)] = indices[Caller(l)]
        BY <1>3, <1>4, <1>9, <1>10, <3>4
      <4>2. QED
        BY <3>1, <3>2, <3>4, <4>1 DEF Ordered
    <3>5. l = Depth + 1 \/ l \in 1..Depth
      BY <1>3, <1>8
    <3>6. QED
      BY <3>3, <3>4, <3>5
  <2>5. \A k \in 1..Depth' : \A m \in frames'[k].edges : Edge(frames'[k].node, m)
    BY <1>3, <1>8, <1>9 DEF Ordered
  <2>6. QED
    BY <2>1, <2>2, <2>3, <2>4, <2>5, GraphStays DEF Ordered, Caller
<1>13. ClassesFound'
  <2>1. Pack' = Pack
    BY DEF Pack, Graph!Node
  <2>2. QED
    BY <1>7, <2>1, GraphStays DEF ClassesFound
<1>14. CallsLead'
  <2>1. \A k \in 1..Depth' : \A x \in OnStack' : indices'[frames'[k].node] <= indices'[x] => x \in Leads(frames'[k].node)
    <3>1. SUFFICES ASSUME NEW k \in 1..Depth', NEW x \in OnStack', indices'[frames'[k].node] <= indices'[x]
                   PROVE  x \in Leads(frames'[k].node)
      OBVIOUS
    <3>2. CASE k = Depth + 1
      <4>1. x = n
        BY <1>1, <1>3, <1>4, <1>6, <1>9, <3>1, <3>2
      <4>2. QED
        BY <1>9, <3>2, <4>1, LeadsOn
    <3>3. CASE k \in 1..Depth /\ x \in OnStack
      <4>1. frames'[k].node = Caller(k) /\ Caller(k) \in N /\ x \in N
        BY <1>3, <1>9, <1>10, <3>3
      <4>2. indices[Caller(k)] <= indices[x]
        BY <1>4, <3>1, <4>1
      <4>3. QED
        BY <3>3, <4>1, <4>2 DEF CallsLead
    <3>4. CASE k \in 1..Depth /\ x = n
      <4>1. Depth \in 1..Depth /\ indices[Caller(k)] <= indices[Caller(Depth)]
        BY <1>3, <1>10, <3>4 DEF Ordered
      <4>2. Caller(Depth) \in Leads(Caller(k)) /\ n \in Leads(Caller(Depth))
        BY <1>3, <1>10, <3>4, <4>1, LeadsOn DEF CallsLead
      <4>3. QED
        BY <1>3, <1>9, <1>10, <3>4, <4>1, <4>2, LeadsOn
    <3>5. QED
      BY <1>3, <1>6, <1>8, <3>2, <3>3, <3>4
  <2>2. ASSUME NEW x \in OnStack
        PROVE  \E k \in 1..Depth' : indices'[frames'[k].node] <= indices'[x] /\ frames'[k].node \in Leads(x)
    <3>1. PICK k \in 1..Depth : indices[Caller(k)] <= indices[x] /\ Caller(k) \in Leads(x)
      BY DEF CallsLead
    <3>2. k \in 1..Depth'
      BY <1>3, <1>8
    <3>3. QED
      BY <1>3, <1>4, <1>9, <1>10, <3>1, <3>2
  <2>3. Depth + 1 \in 1..Depth' /\ indices'[frames'[Depth + 1].node] <= indices'[n] /\ frames'[Depth + 1].node \in Leads(n)
    BY <1>1, <1>3, <1>4, <1>8, <1>9, LeadsOn
  <2>4. \A x \in OnStack' : \E k \in 1..Depth' : indices'[frames'[k].node] <= indices'[x] /\ frames'[k].node \in Leads(x)
    BY <1>6, <2>2, <2>3
  <2>5. QED
    BY <2>1, <2>4, GraphStays DEF CallsLead, Caller
<1>15. LowlinkIsReached'
  <2>1. ASSUME NEW x \in OnStack'
        PROVE  lowlinks'[x] <= indices'[x] /\ \E y \in OnStack' : indices'[y] = lowlinks'[x] /\ y \in Leads(x)
    <3>1. CASE x = n
      BY <1>1, <1>4, <1>6, <3>1, LeadsOn
    <3>2. CASE x \in OnStack
      <4>1. PICK y \in OnStack : indices[y] = lowlinks[x] /\ y \in Leads(x)
        BY <3>2 DEF LowlinkIsReached
      <4>2. lowlinks[x] <= indices[x]
        BY <3>2 DEF LowlinkIsReached
      <4>3. QED
        BY <1>3, <1>4, <1>6, <3>2, <4>1, <4>2
    <3>3. QED
      BY <1>6, <3>1, <3>2
  <2>2. QED
    BY <2>1, GraphStays DEF LowlinkIsReached
<1>16. LowlinkIsLeast'
  <2>1. SUFFICES ASSUME NEW k \in 1..Depth', NEW x \in OnStack', NEW y \in Pack,
                        indices'[frames'[k].node] <= indices'[x],
                        k < Depth' => indices'[x] < indices'[frames'[k + 1].node],
                        Edge(x, y), x = frames'[k].node => y \notin frames'[k].edges
                 PROVE  y \in DOMAIN indices' /\ (y \in OnStack' => lowlinks'[frames'[k].node] <= indices'[y])
    <3>1. Pack' = Pack
      BY DEF Pack, Graph!Node
    <3>2. QED
      BY <3>1, GraphStays DEF LowlinkIsLeast, SeenBy, Caller
  <2>2. indices'[frames'[k].node] <= indices'[x] /\ (k < Depth + 1 => indices'[x] < indices'[frames'[k + 1].node])
    BY <1>8, <2>1
  <2>3. CASE k = Depth + 1
    <3>1. x = n
      BY <1>1, <1>3, <1>4, <1>6, <1>9, <2>2, <2>3
    <3>2. QED
      BY <1>9, <2>1, <2>3, <3>1
  <2>4. CASE k \in 1..Depth
    <3>1. x \in OnStack
      <4>1. k + 1 \in 1..Depth + 1 /\ indices'[x] < indices'[frames'[k + 1].node]
        BY <1>3, <2>2, <2>4
      <4>2. indices'[frames'[k + 1].node] \in Nat /\ indices'[frames'[k + 1].node] <= index
        <5>1. CASE k = Depth
          BY <1>1, <1>4, <1>9, <5>1
        <5>2. CASE k # Depth
          <6>1. k + 1 \in 1..Depth
            BY <1>3, <2>4, <5>2
          <6>2. QED
            BY <1>1, <1>3, <1>4, <1>9, <1>10, <6>1
        <5>3. QED
          BY <5>1, <5>2
      <4>3. QED
        BY <1>1, <1>4, <1>6, <4>1, <4>2
    <3>2. SeenBy(k, x)
      BY <1>3, <1>4, <1>9, <1>10, <2>2, <2>4, <3>1 DEF SeenBy
    <3>3. lowlinks[Caller(k)] <= indices[Caller(k)] /\ lowlinks'[frames'[k].node] = lowlinks[Caller(k)]
      BY <1>3, <1>4, <1>9, <1>10, <2>4 DEF LowlinkIsReached
    <3>4. CASE y = n
      BY <1>1, <1>3, <1>4, <1>10, <2>4, <3>3, <3>4
    <3>5. CASE y # n
      <4>1. x = Caller(k) => y \notin frames[k].edges
        BY <1>8, <1>9, <2>1, <2>4, <3>5
      <4>2. y \in DOMAIN indices /\ (y \in OnStack => lowlinks[Caller(k)] <= indices[y])
        BY <2>1, <2>4, <3>1, <3>2, <4>1 DEF LowlinkIsLeast
      <4>3. QED
        BY <1>3, <1>4, <1>6, <3>3, <3>5, <4>2 DEF N
    <3>6. QED
      BY <3>4, <3>5
  <2>5. QED
    BY <1>3, <1>8, <2>3, <2>4
<1>17. QED
  BY <1>11, <1>12, <1>13, <1>14, <1>15, <1>16

(* The calls that are open, and the last of them.                          *)
LEMMA OpenCalls ==
  ASSUME GraphInv
  PROVE  /\ Depth \in Nat /\ (frames = <<>> <=> Depth = 0)
         /\ OnStack \subseteq DOMAIN indices /\ DOMAIN indices \subseteq Pack
         /\ \A x \in DOMAIN indices : indices[x] \in Nat /\ lowlinks[x] \in Nat
         /\ \A k \in 1..Depth :
               /\ frames[k] = [node |-> Caller(k), edges |-> frames[k].edges]
               /\ Caller(k) \in OnStack /\ frames[k].edges \subseteq Pack
         /\ \A k \in 1..Depth : k # Depth => indices[Caller(k)] < indices[Caller(Depth)]
<1>1. Depth \in Nat /\ (frames = <<>> <=> Depth = 0)
  BY DEF GraphInv, WalkTyped, Depth
<1>2. \A k \in 1..Depth : frames[k] \in Call
  BY DEF GraphInv, WalkTyped, Depth
<1>3. \A k \in 1..Depth : frames[k] = [node |-> Caller(k), edges |-> frames[k].edges] /\ frames[k].edges \subseteq Pack
  BY <1>2 DEF Call, Caller
<1>4. QED
  BY <1>1, <1>3 DEF GraphInv, WalkTyped, Ordered

(* An edge to a package that was visited before.                           *)
LEMMA VisitingAgain ==
  ASSUME GraphInv, Depth > 0, NEW e \in frames[Depth].edges, e \in DOMAIN indices,
         frames' = [frames EXCEPT ![Depth].edges = @ \ {e}],
         lowlinks' = IF e \in OnStack THEN Graph!Lowered(Caller(Depth), indices[e]) ELSE lowlinks,
         UNCHANGED <<dependencies, components, indices, stack>>
  PROVE  GraphInv'
<1> DEFINE t == Caller(Depth)
           N == DOMAIN indices
<1>1. /\ Depth \in Nat /\ Depth \in 1..Depth /\ OnStack \subseteq N /\ N \subseteq Pack /\ e \in N
      /\ \A x \in N : indices[x] \in Nat /\ lowlinks[x] \in Nat
      /\ \A k \in 1..Depth : Caller(k) \in OnStack
      /\ t \in OnStack /\ t \in N
  <2>1. Depth \in 1..Depth
    BY OpenCalls
  <2>2. QED
    BY <2>1, OpenCalls
<1>2. Edge(t, e) /\ e \in Pack
  BY <1>1 DEF GraphInv, Ordered
<1>3. /\ frames' \in Seq(Call) /\ Depth' = Depth
      /\ \A k \in 1..Depth : frames'[k].node = Caller(k) /\ frames'[k].edges \subseteq frames[k].edges
      /\ \A k \in 1..Depth : \A m \in frames[k].edges : m \notin frames'[k].edges => k = Depth /\ m = e
  <2>1. frames \in Seq(Call) /\ frames[Depth] \in Call
    BY <1>1 DEF GraphInv, WalkTyped, Depth
  <2>2. [frames[Depth] EXCEPT !.edges = @ \ {e}] \in Call
    BY <2>1 DEF Call
  <2>3. frames' = [frames EXCEPT ![Depth] = [frames[Depth] EXCEPT !.edges = @ \ {e}]]
    OBVIOUS
  <2>4. frames' \in Seq(Call) /\ Len(frames') = Len(frames)
    BY <1>1, <2>1, <2>2, <2>3 DEF Depth
  <2>5. \A k \in 1..Depth : frames'[k] = IF k = Depth THEN [frames[Depth] EXCEPT !.edges = @ \ {e}] ELSE frames[k]
    BY <1>1, <2>1, <2>3 DEF Depth
  <2>6. /\ [frames[Depth] EXCEPT !.edges = @ \ {e}].node = frames[Depth].node
        /\ [frames[Depth] EXCEPT !.edges = @ \ {e}].edges = frames[Depth].edges \ {e}
    BY <2>1 DEF Call
  <2>7. QED
    BY <2>4, <2>5, <2>6 DEF Depth, Caller
<1>4. /\ lowlinks' \in [N -> Nat] /\ \A x \in N : x # t => lowlinks'[x] = lowlinks[x]
      /\ lowlinks'[t] <= lowlinks[t]
      /\ lowlinks'[t] # lowlinks[t] => e \in OnStack /\ lowlinks'[t] = indices[e]
      /\ e \in OnStack => lowlinks'[t] <= indices[e]
  <2> DEFINE low == Graph!Min({lowlinks[t], indices[e]})
  <2>1. low \in {lowlinks[t], indices[e]} /\ low <= lowlinks[t] /\ low <= indices[e]
    BY <1>1, MinIsIn
  <2>2. Graph!Lowered(t, indices[e]) = [lowlinks EXCEPT ![t] = low]
    BY DEF Graph!Lowered
  <2>3. lowlinks \in [N -> Nat]
    BY DEF GraphInv, WalkTyped
  <2> HIDE DEF low, N
  <2>4. low \in Nat
    BY <1>1, <2>1
  <2>5. CASE e \in OnStack
    BY <1>1, <2>1, <2>2, <2>3, <2>4, <2>5
  <2>6. CASE e \notin OnStack
    BY <1>1, <2>3, <2>6
  <2>7. QED
    BY <2>5, <2>6
<1>5. OnStack' = OnStack /\ Complete' = Complete /\ Pack' = Pack /\ Call' = Call
  BY DEF OnStack, Complete, Pack, Call, Graph!Node
<1> HIDE DEF t
<1>6. WalkTyped'
  BY <1>3, <1>4, <1>5 DEF GraphInv, WalkTyped
<1> HIDE DEF N
<1>7. Ordered'
  BY <1>3, <1>5, GraphStays DEF GraphInv, Ordered, Caller
<1>8. ClassesFound'
  BY <1>5, GraphStays DEF GraphInv, ClassesFound
<1>9. CallsLead'
  BY <1>3, <1>5, GraphStays, SMTT(30) DEF GraphInv, CallsLead, Caller
<1>10. LowlinkIsReached'
  <2>1. ASSUME NEW x \in OnStack
        PROVE  lowlinks'[x] <= indices[x] /\ \E y \in OnStack : indices[y] = lowlinks'[x] /\ y \in Leads(x)
    <3>1. /\ lowlinks[x] <= indices[x] /\ indices[x] \in Nat /\ lowlinks[x] \in Nat
          /\ \E y \in OnStack : indices[y] = lowlinks[x] /\ y \in Leads(x)
      BY <1>1 DEF GraphInv, LowlinkIsReached
    <3>2. CASE lowlinks'[x] = lowlinks[x]
      BY <3>1, <3>2
    <3>3. CASE lowlinks'[x] # lowlinks[x]
      <4>1. x = t /\ e \in OnStack /\ lowlinks'[x] = indices[e] /\ lowlinks'[x] <= lowlinks[x]
        BY <1>1, <1>4, <3>3
      <4>2. e \in Leads(x) /\ indices[e] \in Nat
        BY <1>1, <1>2, <4>1, LeadsOn
      <4>3. QED
        BY <3>1, <4>1, <4>2
    <3>4. QED
      BY <3>2, <3>3
  <2>2. QED
    BY <1>5, <2>1, GraphStays DEF LowlinkIsReached
<1>11. LowlinkIsLeast'
  <2>1. SUFFICES ASSUME NEW k \in 1..Depth, NEW x \in OnStack, NEW y \in Pack,
                        SeenBy(k, x), Edge(x, y), x = Caller(k) => y \notin frames'[k].edges
                 PROVE  y \in DOMAIN indices /\ (y \in OnStack => lowlinks'[Caller(k)] <= indices[y])
    <3>1. \A k \in 1..Depth : k < Depth => k + 1 \in 1..Depth
      BY <1>1
    <3>2. QED
      BY <1>3, <1>5, <3>1, GraphStays DEF LowlinkIsLeast, SeenBy, Caller
  <2>2. /\ lowlinks'[Caller(k)] <= lowlinks[Caller(k)] /\ lowlinks'[Caller(k)] \in Nat
        /\ lowlinks[Caller(k)] \in Nat
    BY <1>1, <1>4 DEF t, N
  <2>3. CASE x = Caller(k) => y \notin frames[k].edges
    <3>1. y \in DOMAIN indices /\ (y \in OnStack => lowlinks[Caller(k)] <= indices[y])
      BY <2>1, <2>3 DEF GraphInv, LowlinkIsLeast
    <3>2. QED
      BY <1>1, <2>2, <3>1 DEF N
  <2>4. CASE x = Caller(k) /\ y \in frames[k].edges
    BY <1>3, <1>4, <2>1, <2>4 DEF t
  <2>5. QED
    BY <2>3, <2>4
<1>12. QED
  BY <1>6, <1>7, <1>8, <1>9, <1>10, <1>11 DEF GraphInv

(* When the lowlink of a finished call is its own index, what was visited  *)
(* since is its class, and leads only to itself and to what is complete.   *)
Since(n) == {x \in OnStack : indices[n] <= indices[x]}

LEMMA FinishedClass ==
  ASSUME GraphInv, Depth > 0, frames[Depth].edges = {},
         lowlinks[Caller(Depth)] = indices[Caller(Depth)]
  PROVE  LET n == Caller(Depth)
         IN  /\ \A x \in Since(n) : Class(x) = Since(n)
             /\ \A m \in Since(n), k \in Pack : Edge(m, k) => k \in Since(n) \cup Complete
<1> DEFINE n == Caller(Depth)
           N == DOMAIN indices
           C == Since(n)
<1>1. /\ Depth \in Nat /\ Depth \in 1..Depth /\ OnStack \subseteq N /\ N \subseteq Pack
      /\ \A x \in N : indices[x] \in Nat
      /\ \A k \in 1..Depth : Caller(k) \in OnStack /\ indices[Caller(k)] <= indices[n]
      /\ n \in OnStack /\ n \in Pack
  <2>1. Depth \in 1..Depth
    BY OpenCalls
  <2>2. ASSUME NEW k \in 1..Depth PROVE indices[Caller(k)] <= indices[n]
    <3>1. indices[Caller(k)] \in Nat /\ indices[n] \in Nat
      BY <2>1, OpenCalls
    <3>2. k # Depth => indices[Caller(k)] < indices[n]
      BY OpenCalls
    <3>3. QED
      BY <3>1, <3>2
  <2>3. QED
    BY <2>1, <2>2, OpenCalls
<1>2. \A x \in C : x \in OnStack /\ x \in Pack /\ indices[n] <= indices[x] /\ indices[x] \in Nat
  BY <1>1 DEF Since
<1>3. OnStack \cap Complete = {} /\ Complete \subseteq Pack /\ N = OnStack \cup Complete
  BY <1>1 DEF GraphInv, Ordered
<1> HIDE DEF n, C
<1>4. ASSUME NEW x \in C PROVE x \in Leads(n) /\ n \in Leads(x)
  <2>1. x \in Leads(n)
    BY <1>1, <1>2 DEF GraphInv, CallsLead, n
  <2>2. PICK k \in 1..Depth : indices[Caller(k)] <= indices[x] /\ Caller(k) \in Leads(x)
    BY <1>2 DEF GraphInv, CallsLead
  <2>3. n \in Leads(Caller(k))
    BY <1>1 DEF GraphInv, CallsLead
  <2>4. QED
    BY <1>1, <1>2, <2>1, <2>2, <2>3, LeadsOn
<1>5. ASSUME NEW m \in C, NEW k \in Pack, Edge(m, k) PROVE k \in C \cup Complete
  <2>1. SeenBy(Depth, m)
    BY <1>1, <1>2 DEF SeenBy, n
  <2>2. k \in N /\ (k \in OnStack => lowlinks[n] <= indices[k])
    BY <1>1, <1>2, <1>5, <2>1 DEF GraphInv, LowlinkIsLeast, n
  <2>3. QED
    BY <1>3, <2>2 DEF C, Since, n
<1>6. Leads(n) \subseteq C \cup Complete
  <2>1. C \cup Complete \in SUBSET Pack /\ n \in C
    BY <1>1, <1>2, <1>3 DEF C, Since
  <2>2. Graph!Closed(C \cup Complete)
    BY <1>5 DEF Graph!Closed, GraphInv, ClassesFound, Pack, Edge
  <2>3. QED
    BY <1>1, <2>1, <2>2, LeadsOn
<1>7. ASSUME NEW x \in Complete PROVE n \notin Leads(x)
  <2>1. Graph!Closed(Complete)
    BY DEF Graph!Closed, GraphInv, ClassesFound, Pack, Edge
  <2>2. Leads(x) \subseteq Complete
    BY <1>3, <2>1, LeadsOn
  <2>3. QED
    BY <1>1, <1>3, <2>2
<1>8. ASSUME NEW x \in C PROVE Class(x) = C
  <2>1. \A y \in C : y \in Class(x)
    BY <1>1, <1>2, <1>4, LeadsOn DEF Class
  <2>2. ASSUME NEW y \in Class(x) PROVE y \in C
    <3>1. y \in Pack /\ y \in Leads(n) /\ n \in Leads(y)
      BY <1>1, <1>2, <1>4, LeadsOn DEF Class
    <3>2. QED
      BY <1>6, <1>7, <3>1
  <2>3. QED
    BY <2>1, <2>2
<1>9. QED
  BY <1>5, <1>8 DEF n, C

(* A call ends, and its caller takes over the lowlink.                     *)
Returns ==
  /\ frames' = SubSeq(frames, 1, Depth - 1)
  /\ lowlinks' = IF Depth > 1 THEN Graph!Lowered(Caller(Depth - 1), lowlinks[Caller(Depth)]) ELSE lowlinks
  /\ UNCHANGED <<dependencies, indices>>

LEMMA Returning ==
  ASSUME GraphInv, Depth > 0, Returns
  PROVE  /\ Depth' = Depth - 1 /\ Depth - 1 \in Nat /\ frames' \in Seq(Call)
         /\ \A k \in 1..Depth - 1 : k \in 1..Depth /\ frames'[k] = frames[k]
         /\ lowlinks' \in [DOMAIN indices -> Nat]
         /\ \A x \in DOMAIN indices : lowlinks'[x] # lowlinks[x] =>
               /\ Depth > 1 /\ x = Caller(Depth - 1)
               /\ lowlinks'[x] = lowlinks[Caller(Depth)] /\ lowlinks'[x] <= lowlinks[x]
         /\ Depth > 1 => /\ lowlinks'[Caller(Depth - 1)] <= lowlinks[Caller(Depth)]
                         /\ lowlinks'[Caller(Depth - 1)] <= lowlinks[Caller(Depth - 1)]
<1> DEFINE n == Caller(Depth)
           c == Caller(Depth - 1)
           N == DOMAIN indices
<1>1. Depth \in Nat /\ frames \in Seq(Call) /\ Depth = Len(frames)
  BY OpenCalls DEF GraphInv, WalkTyped, Depth
<1>2. /\ frames' \in Seq(Call) /\ Len(frames') = Depth - 1
      /\ \A k \in 1..Depth - 1 : frames'[k] = frames[k]
  BY <1>1 DEF Returns
<1>3. n \in N /\ (Depth > 1 => c \in N) /\ \A x \in N : lowlinks[x] \in Nat
  <2>1. Depth \in 1..Depth /\ (Depth > 1 => Depth - 1 \in 1..Depth)
    BY <1>1
  <2>2. QED
    BY <2>1, OpenCalls
<1>4. lowlinks \in [N -> Nat]
  BY DEF GraphInv, WalkTyped
<1> DEFINE low == Graph!Min({lowlinks[c], lowlinks[n]})
<1>5. Depth > 1 => /\ low \in {lowlinks[c], lowlinks[n]} /\ low \in Nat
                   /\ low <= lowlinks[c] /\ low <= lowlinks[n]
                   /\ lowlinks' = [lowlinks EXCEPT ![c] = low]
  BY <1>3, MinIsIn DEF Returns, Graph!Lowered
<1>6. ~(Depth > 1) => lowlinks' = lowlinks
  BY DEF Returns
<1> HIDE DEF low, c, n, N
<1>7. /\ lowlinks' \in [N -> Nat]
      /\ \A x \in N : lowlinks'[x] # lowlinks[x] =>
           Depth > 1 /\ x = c /\ lowlinks'[x] = lowlinks[n] /\ lowlinks'[x] <= lowlinks[x]
      /\ Depth > 1 => lowlinks'[c] <= lowlinks[n] /\ lowlinks'[c] <= lowlinks[c]
  BY <1>3, <1>4, <1>5, <1>6
<1>8. QED
  BY <1>1, <1>2, <1>7 DEF Depth, n, c, N

(* A call ends, its class is complete.                                     *)
LEMMA FinishingClass ==
  ASSUME GraphInv, Depth > 0, Returns, frames[Depth].edges = {},
         lowlinks[Caller(Depth)] = indices[Caller(Depth)],
         components' = Append(components, Graph!Component(Caller(Depth)).members),
         stack' = Graph!Component(Caller(Depth)).below
  PROVE  GraphInv'
<1> DEFINE n == Caller(Depth)
           N == DOMAIN indices
           C == Since(n)
           d == Depth - 1
<1>1. /\ Depth \in Nat /\ Depth \in 1..Depth /\ OnStack \subseteq N /\ N \subseteq Pack
      /\ n \in OnStack /\ n \in N
  <2>1. Depth \in 1..Depth
    BY OpenCalls
  <2>2. QED
    BY <2>1, OpenCalls
<1>2. /\ Depth' = d /\ d \in Nat /\ frames' \in Seq(Call) /\ lowlinks' \in [N -> Nat]
      /\ \A k \in 1..d : k \in 1..Depth /\ k # Depth /\ frames'[k] = frames[k]
      /\ indices' = indices /\ dependencies' = dependencies
  <2>1. \A k \in 1..d : k # Depth
    BY <1>1
  <2>2. QED
    BY <2>1, Returning DEF Returns
<1>3. /\ \A x \in N : indices[x] \in Nat
      /\ \A k \in 1..d : /\ Caller(k) \in OnStack /\ Caller(k) \in N
                         /\ indices[Caller(k)] < indices[n]
  BY <1>1, <1>2, OpenCalls
<1>4. \A x \in N : lowlinks'[x] = lowlinks[x]
  <2>1. SUFFICES ASSUME NEW x \in N, lowlinks'[x] # lowlinks[x] PROVE FALSE
    OBVIOUS
  <2>2. Depth > 1 /\ x = Caller(d) /\ lowlinks'[x] = lowlinks[n] /\ lowlinks'[x] <= lowlinks[x]
    BY <2>1, Returning
  <2>3. d \in 1..d
    BY <1>1, <2>2
  <2>4. lowlinks[x] <= indices[x] /\ indices[x] < indices[n] /\ indices[x] \in Nat /\ indices[n] \in Nat
        /\ lowlinks[x] \in Nat
    BY <1>1, <1>3, <2>2, <2>3, OpenCalls DEF GraphInv, LowlinkIsReached
  <2>5. QED
    BY <2>2, <2>4
<1>5. /\ OnStack' = {x \in OnStack : indices[x] < indices[n]}
      /\ stack' \in Seq(Pack) /\ Len(stack') <= Len(stack)
      /\ \A i \in 1..Len(stack') : stack'[i] = stack[i]
      /\ components' = Append(components, C)
  <2> DEFINE c == Graph!Component(n)
  <2>1. /\ c.members = {x \in OnStack : indices[n] <= indices[x]}
        /\ c.below \in Seq(Pack) /\ Len(c.below) <= Len(stack)
        /\ \A i \in 1..Len(c.below) : c.below[i] = stack[i]
        /\ {c.below[i] : i \in 1..Len(c.below)} = {x \in OnStack : indices[x] < indices[n]}
    BY <1>1, ComponentIs DEF GraphInv
  <2>2. stack' = c.below /\ components' = Append(components, c.members)
    OBVIOUS
  <2> HIDE DEF c
  <2>3. OnStack' = {c.below[i] : i \in 1..Len(c.below)}
    BY <2>2 DEF OnStack
  <2>4. C = c.members
    BY <2>1 DEF Since
  <2>5. QED
    BY <2>1, <2>2, <2>3, <2>4
<1>6. /\ components \in Seq(SUBSET Pack) /\ C \in SUBSET Pack /\ n \in C
      /\ OnStack \cap Complete = {} /\ N = OnStack \cup Complete
  BY <1>1, <1>3 DEF GraphInv, WalkTyped, Ordered, Since
<1> HIDE DEF C, n, N
<1>7. /\ components' \in Seq(SUBSET Pack) /\ Len(components') = Len(components) + 1 /\ Len(components) \in Nat
      /\ \A i \in 1..Len(components) : components'[i] = components[i]
      /\ components'[Len(components) + 1] = C
  BY <1>5, <1>6
<1>8. Complete' = Complete \cup C
  BY <1>7 DEF Complete
<1>9. C \subseteq OnStack /\ \A x \in OnStack : x \in C <=> ~(indices[x] < indices[n])
  BY <1>1, <1>3 DEF C, Since
<1>10. /\ \A x \in C : Class(x) = C
       /\ \A m \in C, k \in Pack : Edge(m, k) => k \in C \cup Complete
  BY FinishedClass DEF C, n
<1>11. Pack' = Pack /\ Call' = Call
  BY DEF Pack, Call, Graph!Node
<1>12. WalkTyped'
  BY <1>2, <1>5, <1>7, <1>11 DEF GraphInv, WalkTyped, N
<1>13. Ordered'
  <2>1. OnStack' \cap Complete' = {} /\ OnStack' \cup Complete' = N
    BY <1>5, <1>6, <1>8, <1>9
  <2>2. \A i, j \in 1..Len(stack') : i < j => indices[stack'[i]] < indices[stack'[j]]
    <3>1. Len(stack) \in Nat /\ Len(stack') \in Nat
      BY <1>5 DEF GraphInv, WalkTyped
    <3>2. \A i \in 1..Len(stack') : i \in 1..Len(stack)
      BY <1>5, <3>1
    <3>3. QED
      BY <1>5, <3>2 DEF GraphInv, Ordered
  <2>3. \A k \in 1..d : Caller(k) \in OnStack'
    BY <1>3, <1>5
  <2>4. QED
    BY <1>2, <2>1, <2>2, <2>3, GraphStays DEF GraphInv, Ordered, Caller, N
<1>14. ClassesFound'
  <2>1. \A x, y \in Pack : Edge(x, y) /\ x \in Complete' => y \in Complete'
    BY <1>8, <1>10 DEF GraphInv, ClassesFound
  <2>2. \A i \in 1..Len(components') :
          components'[i] # {} /\ \A x \in components'[i] : components'[i] = Class(x)
    BY <1>6, <1>7, <1>10 DEF GraphInv, ClassesFound
  <2>3. ASSUME NEW i \in 1..Len(components'), NEW j \in 1..Len(components'), i # j
        PROVE  components'[i] \cap components'[j] = {}
    <3>1. \A k \in 1..Len(components) : components[k] \cap C = {}
      BY <1>6, <1>9 DEF Complete
    <3>2. CASE i \in 1..Len(components) /\ j \in 1..Len(components)
      BY <1>7, <2>3, <3>2 DEF GraphInv, ClassesFound
    <3>3. CASE i \notin 1..Len(components)
      BY <1>7, <2>3, <3>1, <3>3
    <3>4. CASE j \notin 1..Len(components)
      BY <1>7, <2>3, <3>1, <3>4
    <3>5. QED
      BY <3>2, <3>3, <3>4
  <2>4. QED
    BY <1>2, <1>11, <2>1, <2>2, <2>3, GraphStays DEF ClassesFound
<1>15. CallsLead'
  <2>1. \A k \in 1..d : \A x \in OnStack' : indices[Caller(k)] <= indices[x] => x \in Leads(Caller(k))
    BY <1>2, <1>5 DEF GraphInv, CallsLead
  <2>2. ASSUME NEW x \in OnStack'
        PROVE  \E k \in 1..d : indices[Caller(k)] <= indices[x] /\ Caller(k) \in Leads(x)
    <3>1. x \in OnStack /\ indices[x] < indices[n] /\ indices[x] \in Nat /\ indices[n] \in Nat
      BY <1>1, <1>3, <1>5
    <3>2. PICK k \in 1..Depth : indices[Caller(k)] <= indices[x] /\ Caller(k) \in Leads(x)
      BY <3>1 DEF GraphInv, CallsLead
    <3>3. k # Depth
      BY <3>1, <3>2 DEF n
    <3>4. k \in 1..d
      BY <1>1, <3>3
    <3>5. QED
      BY <3>2, <3>4
  <2>3. /\ \A k \in 1..d : \A x \in OnStack' :
              indices'[frames'[k].node] <= indices'[x] => x \in Leads(frames'[k].node)
        /\ \A x \in OnStack' : \E k \in 1..d :
              indices'[frames'[k].node] <= indices'[x] /\ frames'[k].node \in Leads(x)
    BY <1>2, <2>1, <2>2 DEF Caller
  <2>4. QED
    BY <1>2, <2>3, GraphStays DEF CallsLead, Caller
<1>16. LowlinkIsReached'
  <2>1. ASSUME NEW x \in OnStack'
        PROVE  lowlinks'[x] <= indices[x] /\ \E y \in OnStack' : indices[y] = lowlinks'[x] /\ y \in Leads(x)
    <3>1. x \in OnStack /\ x \in N /\ indices[x] < indices[n] /\ indices[x] \in Nat /\ indices[n] \in Nat
      BY <1>1, <1>3, <1>5
    <3>2. lowlinks[x] <= indices[x] /\ lowlinks[x] \in Nat
      BY <3>1, OpenCalls DEF GraphInv, LowlinkIsReached
    <3>3. PICK y \in OnStack : indices[y] = lowlinks[x] /\ y \in Leads(x)
      BY <3>1 DEF GraphInv, LowlinkIsReached
    <3>4. indices[y] < indices[n]
      BY <3>1, <3>2, <3>3
    <3>5. QED
      BY <1>4, <1>5, <3>1, <3>2, <3>3, <3>4
  <2>2. QED
    BY <1>2, <2>1, GraphStays DEF LowlinkIsReached
<1>17. LowlinkIsLeast'
  <2>1. SUFFICES ASSUME NEW k \in 1..d, NEW x \in OnStack', NEW y \in Pack,
                        indices[Caller(k)] <= indices[x],
                        k < d => indices[x] < indices[Caller(k + 1)],
                        Edge(x, y), x = Caller(k) => y \notin frames[k].edges
                 PROVE  y \in N /\ (y \in OnStack' => lowlinks'[Caller(k)] <= indices[y])
    <3>1. \A k \in 1..d : k < d => k + 1 \in 1..d
      BY <1>2
    <3>2. QED
      BY <1>2, <1>11, <3>1, GraphStays DEF LowlinkIsLeast, SeenBy, Caller, N
  <2>2. x \in OnStack /\ indices[x] < indices[n]
    BY <1>5
  <2>3. k \in 1..Depth /\ SeenBy(k, x)
    <3>1. k \in Nat /\ k \in 1..Depth /\ (k < d \/ k + 1 = Depth)
      BY <1>1, <1>2
    <3>2. QED
      BY <2>1, <2>2, <3>1 DEF SeenBy, n
  <2>4. y \in N /\ (y \in OnStack => lowlinks[Caller(k)] <= indices[y])
    BY <2>1, <2>2, <2>3 DEF GraphInv, LowlinkIsLeast, N
  <2>5. QED
    BY <1>3, <1>4, <1>5, <2>4
<1>18. QED
  BY <1>12, <1>13, <1>14, <1>15, <1>16, <1>17 DEF GraphInv

(* A call ends, its class includes something that is older.                *)
LEMMA FinishingPart ==
  ASSUME GraphInv, Depth > 0, Returns, frames[Depth].edges = {},
         lowlinks[Caller(Depth)] # indices[Caller(Depth)],
         UNCHANGED <<components, stack>>
  PROVE  GraphInv'
<1> DEFINE n == Caller(Depth)
           N == DOMAIN indices
           d == Depth - 1
<1>1. /\ Depth \in Nat /\ Depth \in 1..Depth /\ OnStack \subseteq N /\ N \subseteq Pack
      /\ n \in OnStack /\ n \in N
  <2>1. Depth \in 1..Depth
    BY OpenCalls
  <2>2. QED
    BY <2>1, OpenCalls
<1>2. /\ Depth' = d /\ d \in Nat /\ frames' \in Seq(Call) /\ lowlinks' \in [N -> Nat]
      /\ \A k \in 1..d : k \in 1..Depth /\ k # Depth /\ frames'[k] = frames[k]
      /\ indices' = indices /\ dependencies' = dependencies
  <2>1. \A k \in 1..d : k # Depth
    BY <1>1
  <2>2. QED
    BY <2>1, Returning DEF Returns
<1>3. /\ \A x \in N : indices[x] \in Nat /\ lowlinks[x] \in Nat /\ lowlinks'[x] \in Nat
      /\ \A k \in 1..d : /\ Caller(k) \in OnStack /\ Caller(k) \in N
                         /\ indices[Caller(k)] < indices[n]
  BY <1>1, <1>2, OpenCalls
<1>4. /\ \A x \in N : lowlinks'[x] # lowlinks[x] =>
             Depth > 1 /\ x = Caller(d) /\ lowlinks'[x] = lowlinks[n] /\ lowlinks'[x] <= lowlinks[x]
      /\ Depth > 1 => lowlinks'[Caller(d)] <= lowlinks[n] /\ lowlinks'[Caller(d)] <= lowlinks[Caller(d)]
  BY Returning
<1>5. OnStack' = OnStack /\ Complete' = Complete /\ Pack' = Pack /\ Call' = Call
  BY DEF OnStack, Complete, Pack, Call, Graph!Node
<1>6. PICK y \in OnStack : indices[y] = lowlinks[n] /\ y \in Leads(n) /\ indices[y] < indices[n]
  <2>1. lowlinks[n] <= indices[n] /\ \E y \in OnStack : indices[y] = lowlinks[n] /\ y \in Leads(n)
    BY <1>1 DEF GraphInv, LowlinkIsReached
  <2>2. QED
    BY <1>1, <1>3, <2>1
<1> HIDE DEF n, N
<1>7. WalkTyped'
  BY <1>2, <1>5 DEF GraphInv, WalkTyped, N
<1>8. Ordered'
  BY <1>2, <1>5, GraphStays DEF GraphInv, Ordered, Caller
<1>9. ClassesFound'
  BY <1>2, <1>5, GraphStays DEF GraphInv, ClassesFound
<1>10. CallsLead'
  <2>1. \A k \in 1..d : \A x \in OnStack : indices[Caller(k)] <= indices[x] => x \in Leads(Caller(k))
    BY <1>2 DEF GraphInv, CallsLead
  <2>2. PICK l \in 1..Depth : indices[Caller(l)] <= indices[y] /\ Caller(l) \in Leads(y)
    BY DEF GraphInv, CallsLead
  <2>3. l \in 1..d /\ indices[Caller(l)] < indices[n] /\ Caller(l) \in Leads(n)
    <3>1. l # Depth
      BY <1>1, <1>3, <1>6, <2>2 DEF n
    <3>2. l \in 1..d
      BY <1>1, <3>1
    <3>3. QED
      BY <1>1, <1>3, <1>6, <2>2, <3>2, LeadsOn
  <2>4. ASSUME NEW x \in OnStack
        PROVE  \E k \in 1..d : indices[Caller(k)] <= indices[x] /\ Caller(k) \in Leads(x)
    <3>1. PICK k \in 1..Depth : indices[Caller(k)] <= indices[x] /\ Caller(k) \in Leads(x)
      BY DEF GraphInv, CallsLead
    <3>2. CASE k = Depth
      <4>1. n \in Leads(x) /\ indices[n] <= indices[x]
        BY <3>1, <3>2 DEF n
      <4>2. Caller(l) \in Leads(x)
        BY <1>1, <1>3, <2>3, <4>1, LeadsOn
      <4>3. indices[Caller(l)] <= indices[x]
        BY <1>1, <1>3, <2>3, <4>1
      <4>4. QED
        BY <2>3, <4>2, <4>3
    <3>3. CASE k # Depth
      <4>1. k \in 1..d
        BY <1>1, <3>3
      <4>2. QED
        BY <3>1, <4>1
    <3>4. QED
      BY <3>2, <3>3
  <2>5. QED
    BY <1>2, <1>5, <2>1, <2>4, GraphStays DEF CallsLead, Caller
<1>11. LowlinkIsReached'
  <2>1. ASSUME NEW x \in OnStack
        PROVE  lowlinks'[x] <= indices[x] /\ \E z \in OnStack : indices[z] = lowlinks'[x] /\ z \in Leads(x)
    <3>1. /\ lowlinks[x] <= indices[x] /\ x \in N
          /\ \E z \in OnStack : indices[z] = lowlinks[x] /\ z \in Leads(x)
      BY <1>1 DEF GraphInv, LowlinkIsReached
    <3>2. CASE lowlinks'[x] = lowlinks[x]
      BY <3>1, <3>2
    <3>3. CASE lowlinks'[x] # lowlinks[x]
      <4>1. Depth > 1 /\ x = Caller(d) /\ lowlinks'[x] = indices[y] /\ lowlinks'[x] <= lowlinks[x]
        BY <1>4, <1>6, <3>1, <3>3
      <4>2. d \in 1..d
        BY <1>1, <4>1
      <4>3. indices[x] <= indices[n]
        BY <1>1, <1>3, <3>1, <4>1, <4>2
      <4>4. n \in Leads(x)
        BY <1>1, <1>2, <4>1, <4>2, <4>3 DEF GraphInv, CallsLead
      <4>5. y \in Leads(x)
        BY <1>1, <1>6, <4>4, LeadsOn
      <4>6. QED
        BY <1>3, <3>1, <4>1, <4>5
    <3>4. QED
      BY <3>2, <3>3
  <2>2. QED
    BY <1>2, <1>5, <2>1, GraphStays DEF LowlinkIsReached
<1>12. LowlinkIsLeast'
  <2>1. SUFFICES ASSUME NEW k \in 1..d, NEW x \in OnStack, NEW z \in Pack,
                        indices[Caller(k)] <= indices[x],
                        k < d => indices[x] < indices[Caller(k + 1)],
                        Edge(x, z), x = Caller(k) => z \notin frames[k].edges
                 PROVE  z \in N /\ (z \in OnStack => lowlinks'[Caller(k)] <= indices[z])
    <3>1. \A k \in 1..d : k < d => k + 1 \in 1..d
      BY <1>2
    <3>2. \A k \in 1..d : Caller(k)' = Caller(k) /\ frames'[k].edges = frames[k].edges
      BY <1>2 DEF Caller
    <3>3. \A k \in 1..d, x \in OnStack :
             SeenBy(k, x)' <=> /\ indices[Caller(k)] <= indices[x]
                               /\ k < d => indices[x] < indices[Caller(k + 1)]
      BY <1>2, <3>1, <3>2 DEF SeenBy
    <3>4. \A x, z : Edge(x, z)' <=> Edge(x, z)
      BY <1>2, GraphStays
    <3>5. SUFFICES ASSUME NEW k \in 1..d, NEW x \in OnStack, NEW z \in Pack,
                          SeenBy(k, x)', Edge(x, z)', x = Caller(k)' => z \notin frames'[k].edges
                   PROVE  z \in DOMAIN indices' /\ (z \in OnStack => lowlinks'[Caller(k)'] <= indices'[z])
      BY <1>2, <1>5 DEF LowlinkIsLeast
    <3>6. /\ indices[Caller(k)] <= indices[x] /\ (k < d => indices[x] < indices[Caller(k + 1)])
          /\ Edge(x, z) /\ (x = Caller(k) => z \notin frames[k].edges)
      BY <3>2, <3>3, <3>4, <3>5
    <3>7. z \in N /\ (z \in OnStack => lowlinks'[Caller(k)] <= indices[z])
      BY <2>1, <3>6
    <3>8. QED
      BY <1>2, <3>2, <3>7 DEF N
  <2>2. /\ Caller(k) \in N /\ lowlinks'[Caller(k)] <= lowlinks[Caller(k)]
        /\ \A x0 \in N : indices[x0] \in Nat
        /\ lowlinks[Caller(k)] \in Nat /\ lowlinks'[Caller(k)] \in Nat
    BY <1>3, <1>4
  <2>3. CASE SeenBy(k, x)
    <3>1. z \in N /\ (z \in OnStack => lowlinks[Caller(k)] <= indices[z])
      BY <1>2, <2>1, <2>3 DEF GraphInv, LowlinkIsLeast, N
    <3>2. QED
      BY <2>2, <3>1
  <2>4. CASE ~SeenBy(k, x)
    <3>1. k = d /\ k + 1 = Depth /\ Depth > 1
      BY <1>1, <1>2, <2>1, <2>4 DEF SeenBy
    <3>2. ~(indices[x] < indices[n])
      BY <2>1, <2>4, <3>1 DEF SeenBy, n
    <3>3. indices[n] <= indices[x] /\ x # Caller(k)
      BY <1>1, <1>3, <3>2
    <3>4. SeenBy(Depth, x)
      BY <1>1, <3>3 DEF SeenBy, n
    <3>5. z \in N /\ (z \in OnStack => lowlinks[n] <= indices[z])
      BY <1>1, <2>1, <3>4 DEF GraphInv, LowlinkIsLeast, n, N
    <3>6. lowlinks'[Caller(k)] <= lowlinks[n] /\ lowlinks[n] \in Nat
      BY <1>1, <1>3, <1>4, <3>1
    <3>7. QED
      BY <2>2, <3>5, <3>6
  <2>5. QED
    BY <2>3, <2>4
<1>13. QED
  BY <1>7, <1>8, <1>9, <1>10, <1>11, <1>12 DEF GraphInv

LEMMA TopIs ==
  ASSUME GraphInv, frames # <<>>
  PROVE  /\ Depth \in 1..Depth /\ Depth > 0 /\ Depth = Len(frames)
         /\ Graph!Top = frames[Depth] /\ frames[Depth] \in Call
         /\ Caller(Depth) \in Pack /\ Caller(Depth) \in DOMAIN indices
         /\ frames[Depth].edges \in SUBSET Pack
<1>1. Depth \in Nat /\ Depth # 0
  BY OpenCalls
<1>2. Depth \in 1..Depth
  BY <1>1
<1>3. frames[Depth] \in Call
  BY <1>2 DEF GraphInv, WalkTyped, Depth
<1>4. Depth = Len(frames) /\ Graph!Top = frames[Depth]
  BY DEF Graph!Top, Depth
<1>5. Caller(Depth) \in DOMAIN indices /\ Caller(Depth) \in Pack
  BY <1>2, OpenCalls
<1>6. frames[Depth].edges \in SUBSET Pack
  BY <1>3 DEF Call
<1>7. QED
  BY <1>1, <1>2, <1>3, <1>4, <1>5, <1>6

LEMMA VisitingRoot ==
  ASSUME GraphInv, Graph!VisitRoot
  PROVE  GraphInv'
<1> DEFINE n == Graph!Min(Graph!Unvisited)
<1>1. frames = <<>> /\ Graph!Start(n, <<>>) /\ UNCHANGED <<dependencies, components>>
  BY DEF Graph!VisitRoot
<1>2. n \in Pack /\ n \notin DOMAIN indices
  <2>1. Graph!Unvisited \in SUBSET Pack /\ Graph!Unvisited # {}
    BY DEF Graph!VisitRoot, Graph!Unvisited, Pack
  <2>2. QED
    BY <2>1, MinIsIn DEF Graph!Unvisited
<1>3. Depth = 0 /\ <<>> \in Seq(Call) /\ Len(<<>>) = Depth /\ 1..Depth = {}
  BY <1>1, OpenCalls
<1> HIDE DEF n
<1>4. \A k \in 1..Depth : /\ <<>>[k].node = Caller(k) /\ <<>>[k].edges \subseteq frames[k].edges
                          /\ \A m \in frames[k].edges : m \notin <<>>[k].edges => m = n
  BY <1>3
<1>5. ~(Depth > 0)
  BY <1>3
<1>6. QED
  BY <1>1, <1>2, <1>3, <1>4, <1>5, Starting

LEMMA VisitingEdge ==
  ASSUME GraphInv, Graph!VisitEdge
  PROVE  GraphInv'
<1> DEFINE e == Graph!Min(frames[Depth].edges)
           rest == [frames EXCEPT ![Depth].edges = @ \ {e}]
<1>1. frames # <<>>
  BY DEF Graph!VisitEdge
<1>2. /\ Depth \in 1..Depth /\ Depth > 0 /\ Depth = Len(frames)
      /\ Graph!Top = frames[Depth] /\ frames[Depth] \in Call
      /\ Caller(Depth) \in Pack /\ Caller(Depth) \in DOMAIN indices
      /\ frames[Depth].edges \in SUBSET Pack
  BY <1>1, TopIs
<1>3. e \in frames[Depth].edges /\ e \in Pack
  <2>1. frames[Depth].edges # {}
    BY <1>2 DEF Graph!VisitEdge
  <2>2. QED
    BY <1>2, <2>1, MinIsIn
<1>4. Edge(Caller(Depth), e)
  BY <1>2, <1>3 DEF GraphInv, Ordered
<1>5. /\ UNCHANGED <<dependencies, components>>
      /\ \/ e \in Graph!Unvisited /\ Graph!Start(e, rest)
         \/ /\ e \notin Graph!Unvisited /\ frames' = rest
            /\ lowlinks' = IF e \in Graph!Range(stack) THEN Graph!Lowered(Caller(Depth), indices[e]) ELSE lowlinks
            /\ UNCHANGED <<indices, stack>>
  BY <1>2 DEF Graph!VisitEdge, Caller
<1>6. CASE e \in Graph!Unvisited /\ Graph!Start(e, rest)
  <2>1. e \notin DOMAIN indices
    BY <1>6 DEF Graph!Unvisited
  <2>2. frames \in Seq(Call) /\ Depth \in Nat
    BY OpenCalls DEF GraphInv, WalkTyped
  <2> DEFINE top == [frames[Depth] EXCEPT !.edges = @ \ {e}]
  <2>3. top \in Call /\ top.node = Caller(Depth) /\ top.edges = frames[Depth].edges \ {e}
    BY <1>2 DEF Call, Caller
  <2>4. rest = [frames EXCEPT ![Depth] = top]
    OBVIOUS
  <2> HIDE DEF top, rest, e
  <2>5. rest \in Seq(Call) /\ Len(rest) = Depth
    BY <1>2, <2>2, <2>3, <2>4
  <2>6. \A k \in 1..Depth : rest[k] = IF k = Depth THEN top ELSE frames[k]
    BY <1>2, <2>2, <2>4
  <2>7. \A k \in 1..Depth : /\ rest[k].node = Caller(k) /\ rest[k].edges \subseteq frames[k].edges
                            /\ \A m \in frames[k].edges : m \notin rest[k].edges => m = e
    BY <2>3, <2>6 DEF Caller
  <2>8. QED
    BY <1>3, <1>4, <1>5, <1>6, <2>1, <2>5, <2>7, Starting
<1>7. CASE /\ e \notin Graph!Unvisited /\ frames' = rest
           /\ lowlinks' = IF e \in Graph!Range(stack) THEN Graph!Lowered(Caller(Depth), indices[e]) ELSE lowlinks
           /\ UNCHANGED <<indices, stack>>
  <2>1. e \in DOMAIN indices
    BY <1>3, <1>7 DEF Graph!Unvisited, Pack
  <2>2. Graph!Range(stack) = OnStack
    <3>1. DOMAIN stack = 1..Len(stack)
      BY DEF GraphInv, WalkTyped
    <3>2. QED
      BY <3>1 DEF Graph!Range, OnStack
  <2>3. frames' = [frames EXCEPT ![Depth].edges = @ \ {e}]
    BY <1>7
  <2> HIDE DEF rest, e
  <2>4. QED
    BY <1>2, <1>3, <1>5, <1>7, <2>1, <2>2, <2>3, VisitingAgain
<1>8. QED
  BY <1>5, <1>6, <1>7

LEMMA FinishingCall ==
  ASSUME GraphInv, Graph!Finish
  PROVE  GraphInv'
<1>1. frames # <<>>
  BY DEF Graph!Finish
<1>2. Depth > 0 /\ Depth = Len(frames) /\ Graph!Top = frames[Depth]
  BY <1>1, TopIs
<1>3. frames[Depth].edges = {} /\ Returns
  BY <1>2 DEF Graph!Finish, Returns, Caller
<1>4. CASE lowlinks[Caller(Depth)] = indices[Caller(Depth)]
  <2>1. /\ components' = Append(components, Graph!Component(Caller(Depth)).members)
        /\ stack' = Graph!Component(Caller(Depth)).below
    BY <1>2, <1>4 DEF Graph!Finish, Caller
  <2>2. QED
    BY <1>2, <1>3, <1>4, <2>1, FinishingClass
<1>5. CASE lowlinks[Caller(Depth)] # indices[Caller(Depth)]
  <2>1. UNCHANGED <<components, stack>>
    BY <1>2, <1>5 DEF Graph!Finish, Caller
  <2>2. QED
    BY <1>2, <1>3, <1>5, <2>1, FinishingPart
<1>6. QED
  BY <1>4, <1>5

LEMMA WalkGoesOn == GraphInv /\ [Graph!Next]_graph => GraphInv'
<1> SUFFICES ASSUME GraphInv, [Graph!Next]_graph PROVE GraphInv'
  OBVIOUS
<1>1. CASE Graph!VisitRoot
  BY <1>1, VisitingRoot
<1>2. CASE Graph!VisitEdge
  BY <1>2, VisitingEdge
<1>3. CASE Graph!Finish
  BY <1>3, FinishingCall
<1>4. CASE UNCHANGED graph
  <2>1. /\ UNCHANGED <<dependencies, frames, indices, lowlinks, stack, components>>
        /\ Pack' = Pack /\ Call' = Call /\ OnStack' = OnStack /\ Complete' = Complete /\ Depth' = Depth
    BY <1>4 DEF graph, Pack, Call, OnStack, Complete, Depth, Graph!Node
  <2>2. WalkTyped'
    BY <2>1 DEF GraphInv, WalkTyped
  <2>3. Ordered'
    BY <2>1, GraphStays DEF GraphInv, Ordered, Caller
  <2>4. ClassesFound' /\ CallsLead' /\ LowlinkIsReached'
    BY <2>1, GraphStays DEF GraphInv, ClassesFound, CallsLead, LowlinkIsReached, Caller
  <2>5. LowlinkIsLeast'
    BY <2>1, GraphStays DEF GraphInv, LowlinkIsLeast, SeenBy, Caller
  <2>6. QED
    BY <2>2, <2>3, <2>4, <2>5 DEF GraphInv
<1>5. QED
  BY <1>1, <1>2, <1>3, <1>4 DEF Graph!Next

(* When every package was visited and no call is open, every package is    *)
(* complete, and the components that are cycles are the classes that are.  *)
LEMMA AllIsFound ==
  ASSUME GraphInv, Graph!Done
  PROVE  /\ Graph!Cycles = {Graph!MutualDependencies(n) : n \in Graph!Node} \ {{}}
         /\ \A i, j \in DOMAIN components : i # j => components[i] \cap components[j] = {}
<1>1. /\ components \in Seq(SUBSET Pack) /\ DOMAIN components = 1..Len(components)
      /\ Graph!Range(components) = {components[i] : i \in 1..Len(components)}
  <2>1. components \in Seq(SUBSET Pack) /\ DOMAIN components = 1..Len(components)
    BY DEF GraphInv, WalkTyped
  <2>2. QED
    BY <2>1 DEF Graph!Range
<1>2. Depth = 0 /\ DOMAIN indices = Pack
  BY OpenCalls DEF Graph!Done, Graph!Unvisited, Pack
<1>3. OnStack = {}
  BY <1>2 DEF GraphInv, CallsLead
<1>4. Complete = Pack
  BY <1>2, <1>3 DEF GraphInv, Ordered
<1>5. \A n \in Pack : \E i \in 1..Len(components) : n \in components[i] /\ components[i] = Class(n)
  BY <1>4 DEF Complete, GraphInv, ClassesFound
<1>6. \A i \in 1..Len(components) : \E n \in Pack : n \in components[i] /\ components[i] = Class(n)
  <2>1. ASSUME NEW i \in 1..Len(components)
        PROVE  \E n \in Pack : n \in components[i] /\ components[i] = Class(n)
    <3>1. components[i] # {} /\ \A x \in components[i] : components[i] = Class(x)
      BY DEF GraphInv, ClassesFound
    <3>2. components[i] \subseteq Pack
      BY <1>1
    <3>3. QED
      BY <3>1, <3>2
  <2>2. QED
    BY <2>1
<1>7. Graph!Cycles = {c \in {Class(n) : n \in Pack} : Graph!IsCycle(c)}
  BY <1>1, <1>5, <1>6 DEF Graph!Cycles
<1>8. \A n \in Pack : n \in Class(n)
  BY LeadsOn DEF Class
<1>9. Graph!Cycles = {Graph!MutualDependencies(n) : n \in Pack} \ {{}}
  <2>1. ASSUME NEW c \in Graph!Cycles PROVE c \in {Graph!MutualDependencies(n) : n \in Pack} \ {{}}
    BY <1>7, <1>8, <2>1, CycleOrNone
  <2>2. ASSUME NEW n \in Pack, Graph!MutualDependencies(n) # {}
        PROVE  Graph!MutualDependencies(n) \in Graph!Cycles
    BY <1>7, <2>2, CycleOrNone
  <2>3. QED
    BY <2>1, <2>2
<1>10. QED
  BY <1>1, <1>9 DEF Pack, GraphInv, ClassesFound

(* Whatever the packages and their dependencies, the cycles found are the  *)
(* classes of packages that depend on one another (dependency_cycles).     *)
THEOREM CyclesAreFound == Graph!Spec => []CyclesAreMutualDependencies
<1>1. Graph!Init => GraphInv
  BY GraphBegins
<1>2. GraphInv /\ [Graph!Next]_graph => GraphInv'
  BY WalkGoesOn
<1>3. GraphInv => CyclesAreMutualDependencies
  BY AllIsFound DEF CyclesAreMutualDependencies, Graph!CyclesAreMutualDependencies
<1>4. QED
  BY <1>1, <1>2, <1>3, PTL DEF Graph!Spec, Graph!vars, graph
-----------------------------------------------------------------------------
(* Coverage: lines and columns, and functions that are nested.             *)

LEMMA LineIs ==
  ASSUME NEW p \in Nat \ {0}
  PROVE  /\ Crap!Line(p) \in Nat \ {0}
         /\ (Crap!Line(p) - 1) * ColumnsPerLine < p
         /\ p <= Crap!Line(p) * ColumnsPerLine
<1> DEFINE n == ColumnsPerLine
           q == (p - 1) \div n
<1>1. n \in Nat \ {0}
  BY CrapAssumption
<1>2. q \in Nat /\ n * q <= p - 1 /\ p - 1 < n * q + n
  BY <1>1, SMTT(30)
<1>3. Crap!Line(p) = q + 1
  BY DEF Crap!Line
<1>4. (Crap!Line(p) - 1) * n = n * q /\ Crap!Line(p) * n = n * q + n
  BY <1>1, <1>2, <1>3, SMTT(30)
<1>5. QED
  BY <1>1, <1>2, <1>3, <1>4

LEMMA LineOf ==
  ASSUME NEW p \in Nat \ {0}, NEW l \in Nat \ {0},
         (l - 1) * ColumnsPerLine < p, p <= l * ColumnsPerLine
  PROVE  Crap!Line(p) = l
<1> DEFINE n == ColumnsPerLine
           m == Crap!Line(p)
<1>1. n \in Nat \ {0} /\ m \in Nat \ {0} /\ (m - 1) * n < p /\ p <= m * n
  BY CrapAssumption, LineIs
<1>2. ASSUME NEW a \in Nat \ {0}, NEW b \in Nat \ {0}, a < b
      PROVE  a * n <= (b - 1) * n
  BY <1>1, <1>2, SMTT(30)
<1>3. ~(m < l) /\ ~(l < m)
  BY <1>1, <1>2
<1>4. \A a, b \in Nat : ~(a < b) /\ ~(b < a) => a = b
  OBVIOUS
<1>5. QED
  BY <1>1, <1>3, <1>4

LEMMA LineGrows ==
  ASSUME NEW p \in Nat \ {0}, NEW q \in Nat \ {0}, p <= q
  PROVE  Crap!Line(p) <= Crap!Line(q)
<1> DEFINE n == ColumnsPerLine
           a == Crap!Line(p)
           b == Crap!Line(q)
<1>1. n \in Nat \ {0} /\ a \in Nat \ {0} /\ b \in Nat \ {0} /\ (a - 1) * n < p /\ q <= b * n
  BY CrapAssumption, LineIs
<1>2. b < a => b * n <= (a - 1) * n
  BY <1>1, SMTT(30)
<1>3. QED
  BY <1>1, <1>2

Fun == DOMAIN layout

LEMMA Nesting ==
  ASSUME layout \in Layouts
  PROVE  /\ \E n \in Nat : Fun = 1..n
         /\ IsFiniteSet(Fun)
         /\ \A f \in Fun :
               /\ f \in Nat \ {0}
               /\ layout[f].from \in Nat \ {0} /\ layout[f].to \in Nat /\ layout[f].from <= layout[f].to
               /\ layout[f].parent \in Nat /\ layout[f].parent < f
               /\ layout[f].parent = 0 => layout[f].recorded
               /\ layout[f].parent # 0 =>
                     /\ layout[f].parent \in Fun /\ layout[layout[f].parent].recorded
                     /\ layout[layout[f].parent].from <= layout[f].from
                     /\ layout[f].to <= layout[layout[f].parent].to
               /\ \A g \in Fun : g < f /\ layout[f].parent = layout[g].parent => layout[g].to < layout[f].from
<1> DEFINE Functions == [from : Nat \ {0}, to : Nat, parent : Nat, recorded : BOOLEAN]
<1>1. Crap!WellNested(layout)
  BY CrapAssumption
<1>2. layout \in Seq(Functions)
  BY <1>1 DEF Crap!WellNested
<1> HIDE DEF Functions
<1>3. Fun = 1..Len(layout) /\ Len(layout) \in Nat /\ \A f \in Fun : layout[f] \in Functions
  BY <1>2 DEF Fun
<1>4. IsFiniteSet(Fun)
  BY <1>3, FS_Interval
<1> USE DEF Functions
<1>5. ASSUME NEW f \in Fun
      PROVE  /\ layout[f].from <= layout[f].to /\ layout[f].parent < f
             /\ layout[f].parent = 0 => layout[f].recorded
             /\ layout[f].parent # 0 =>
                   /\ layout[layout[f].parent].recorded
                   /\ layout[layout[f].parent].from <= layout[f].from
                   /\ layout[f].to <= layout[layout[f].parent].to
             /\ \A g \in Fun : g < f /\ layout[f].parent = layout[g].parent => layout[g].to < layout[f].from
  BY <1>1 DEF Crap!WellNested, Fun
<1>6. ASSUME NEW f \in Fun, layout[f].parent # 0
      PROVE  layout[f].parent \in Fun
  <2>1. f \in 1..Len(layout) /\ layout[f].parent \in Nat /\ layout[f].parent < f
    BY <1>3, <1>5
  <2>2. QED
    BY <1>3, <1>6, <2>1
<1>7. QED
  BY <1>3, <1>4, <1>5, <1>6

(* Two functions at a column are one in the other: so the outer one has a  *)
(* function there that is nested in it.                                    *)
TopOrCovers(f, p) == f = 0 \/ (f \in Fun /\ Crap!Covers(f, p))

LEMMA OneInTheOther ==
  ASSUME layout \in Layouts, NEW p \in Nat \ {0}, NEW f \in Nat, NEW g \in Fun,
         TopOrCovers(f, p), Crap!Covers(g, p), f < g
  PROVE  \E c \in Crap!Nested(f) : c <= g /\ Crap!Covers(c, p)
<1> DEFINE Bad == {h \in Fun :
             /\ Crap!Covers(h, p)
             /\ \E e \in Nat : /\ TopOrCovers(e, p) /\ e < h
                            /\ ~ \E c \in Crap!Nested(e) : c <= h /\ Crap!Covers(c, p)}
<1>1. SUFFICES ASSUME Bad # {} PROVE FALSE
  OBVIOUS
<1>2. Bad \in SUBSET Nat
  BY Nesting
<1>3. PICK h \in Bad : \A i \in Bad : h <= i
  BY <1>1, <1>2, LeastIsThere
<1>4. PICK e \in Nat : /\ TopOrCovers(e, p) /\ e < h
                      /\ ~ \E c \in Crap!Nested(e) : c <= h /\ Crap!Covers(c, p)
  BY <1>3
<1> DEFINE o == layout[h].parent
<1>5. h \in Fun /\ h \in Nat /\ Crap!Covers(h, p) /\ o \in Nat /\ o < h
  BY <1>3, Nesting
<1>6. TopOrCovers(o, p)
  BY <1>5, Nesting, SMTT(30) DEF TopOrCovers, Crap!Covers
<1>7. o # e
  BY <1>4, <1>5 DEF Crap!Nested, Fun
<1>8. CASE e < o
  <2>1. o \in Fun /\ Crap!Covers(o, p)
    BY <1>4, <1>5, <1>6, <1>8 DEF TopOrCovers
  <2>2. o \notin Bad
    BY <1>3, <1>5
  <2>3. PICK c \in Crap!Nested(e) : c <= o /\ Crap!Covers(c, p)
    BY <1>4, <1>8, <2>1, <2>2
  <2>4. c \in Nat
    BY <2>3, Nesting DEF Crap!Nested, Fun
  <2>5. QED
    BY <1>4, <1>5, <2>3, <2>4
<1>9. CASE o < e
  <2>1. e \in Fun /\ Crap!Covers(e, p)
    BY <1>4, <1>5, <1>9 DEF TopOrCovers
  <2>2. e \notin Bad
    BY <1>3, <1>4, <1>5
  <2>3. PICK c \in Crap!Nested(o) : c <= e /\ Crap!Covers(c, p)
    BY <1>5, <1>6, <1>9, <2>1, <2>2
  <2>4. c \in Fun /\ c \in Nat /\ layout[c].parent = o /\ c < h
    BY <1>4, <1>5, <2>3, Nesting DEF Crap!Nested, Fun
  <2>5. layout[c].to < layout[h].from
    BY <1>5, <2>4, Nesting
  <2>6. QED
    BY <1>5, <2>3, <2>4, <2>5, Nesting DEF Crap!Covers
<1>10. QED
  BY <1>4, <1>5, <1>7, <1>8, <1>9
-----------------------------------------------------------------------------
(* Where the functions are. *)
Lines(f) == Crap!First(f)..Crap!Last(f)
OwnLines(f) == Lines(f) \ Crap!Interior(f)

LEMMA FunctionLines ==
  ASSUME layout \in Layouts, NEW f \in Fun
  PROVE  /\ Crap!First(f) \in Nat \ {0} /\ Crap!Last(f) \in Nat \ {0} /\ Crap!First(f) <= Crap!Last(f)
         /\ \A p \in Nat \ {0} : Crap!Covers(f, p) => Crap!Line(p) \in Lines(f)
         /\ \A p \in Nat \ {0} :
              Crap!First(f) < Crap!Line(p) /\ Crap!Line(p) < Crap!Last(f) => Crap!Covers(f, p)
<1>1. /\ layout[f].from \in Nat \ {0} /\ layout[f].to \in Nat \ {0} /\ layout[f].from <= layout[f].to
  BY Nesting
<1>2. /\ Crap!First(f) \in Nat \ {0} /\ Crap!Last(f) \in Nat \ {0} /\ Crap!First(f) <= Crap!Last(f)
  BY <1>1, LineIs, LineGrows DEF Crap!First, Crap!Last
<1>3. ASSUME NEW p \in Nat \ {0}, Crap!Covers(f, p)
      PROVE  Crap!Line(p) \in Lines(f)
  <2>1. Crap!First(f) <= Crap!Line(p) /\ Crap!Line(p) <= Crap!Last(f)
    BY <1>1, <1>3, LineGrows DEF Crap!Covers, Crap!First, Crap!Last
  <2>2. QED
    BY <1>2, <2>1, LineIs DEF Lines
<1>4. ASSUME NEW p \in Nat \ {0}, Crap!First(f) < Crap!Line(p), Crap!Line(p) < Crap!Last(f)
      PROVE  Crap!Covers(f, p)
  <2>1. Crap!Line(p) \in Nat
    BY LineIs
  <2>2. p <= layout[f].from => Crap!Line(p) <= Crap!First(f)
    BY <1>1, LineGrows DEF Crap!First
  <2>3. layout[f].to <= p => Crap!Last(f) <= Crap!Line(p)
    BY <1>1, LineGrows DEF Crap!Last
  <2>4. QED
    BY <1>1, <1>2, <1>4, <2>1, <2>2, <2>3 DEF Crap!Covers
<1>5. QED
  BY <1>2, <1>3, <1>4

LEMMA Siblings ==
  ASSUME layout \in Layouts, NEW f \in Fun, NEW g \in Fun, layout[f].parent = layout[g].parent,
         NEW p \in Nat, Crap!Covers(f, p), Crap!Covers(g, p)
  PROVE  f = g
<1>1. f \in Nat /\ g \in Nat
  BY Nesting
<1>2. ~(f < g) /\ ~(g < f)
  BY Nesting DEF Crap!Covers
<1>3. QED
  BY <1>1, <1>2

LEMMA NestedIs ==
  ASSUME layout \in Layouts, NEW f \in Nat, NEW g \in Crap!Nested(f)
  PROVE  /\ g \in Fun /\ layout[g].parent = f /\ f < g
         /\ f # 0 => f \in Fun /\ f \in Crap!Recorded
BY Nesting DEF Crap!Nested, Crap!Recorded, Fun

LEMMA RecordedIs == Crap!Recorded = {f \in Fun : layout[f].recorded}
  BY DEF Crap!Recorded, Fun

(* Where a function has code, and no function that is nested in it has, it *)
(* is the innermost one.                                                   *)
LEMMA Innermost ==
  ASSUME layout \in Layouts, NEW f \in Fun, NEW p \in Nat \ {0}, Crap!Covers(f, p),
         \A g \in Crap!Nested(f) : ~Crap!Covers(g, p)
  PROVE  Crap!OwnersOf(p) = {f}
<1>1. f \in Crap!OwnersOf(p)
  BY DEF Crap!OwnersOf, Fun
<1>2. ASSUME NEW g \in Crap!OwnersOf(p), g # f
      PROVE  FALSE
  <2>1. g \in Fun /\ Crap!Covers(g, p) /\ ~ \E c \in Crap!Nested(g) : Crap!Covers(c, p)
    BY <1>2 DEF Crap!OwnersOf, Fun
  <2>2. f \in Nat /\ g \in Nat
    BY <2>1, Nesting
  <2>3. ~(f < g)
    BY <2>1, <2>2, OneInTheOther DEF TopOrCovers
  <2>4. ~(g < f)
    BY <2>1, <2>2, OneInTheOther DEF TopOrCovers
  <2>5. QED
    BY <1>2, <2>2, <2>3, <2>4
<1>3. QED
  BY <1>1, <1>2

LEMMA LineAlone ==
  ASSUME layout \in Layouts, NEW f \in Crap!Recorded, NEW l \in OwnLines(f),
         \A g \in Crap!Nested(f) : l # Crap!First(g) /\ l # Crap!Last(g),
         \A g \in Crap!Recorded : l \in OwnLines(g) => g = f
  PROVE  Crap!OwnersOnLine(l) = {f}
<1> DEFINE n == ColumnsPerLine
           Column == (l - 1) * n + 1..l * n
<1>1. f \in Fun /\ l \in Nat \ {0} /\ Crap!First(f) <= l /\ l <= Crap!Last(f)
  <2>1. f \in Fun
    BY RecordedIs
  <2>2. QED
    BY <2>1, FunctionLines DEF OwnLines, Lines
<1>2. ASSUME NEW g \in Crap!Nested(f)
      PROVE  l \notin Lines(g)
  <2>1. g \in Fun
    BY <1>1, <1>2, Nesting, NestedIs
  <2>2. Crap!First(g) \in Nat /\ Crap!Last(g) \in Nat /\ Crap!First(g) <= Crap!Last(g)
    BY <2>1, FunctionLines
  <2>3. l \notin Crap!First(g) + 1..Crap!Last(g) - 1
    BY <1>2 DEF OwnLines, Crap!Interior
  <2>4. QED
    BY <1>1, <1>2, <2>2, <2>3 DEF Lines
<1>3. /\ Column \subseteq Nat \ {0}
      /\ \A p \in Nat \ {0} : p \in Column <=> Crap!Line(p) = l
  <2>1. n \in Nat \ {0}
    BY CrapAssumption
  <2>2. (l - 1) * n \in Nat /\ l * n \in Nat
    BY <1>1, <2>1
  <2>3. \A p \in Nat \ {0} : p \in Column <=> (l - 1) * n < p /\ p <= l * n
    BY <2>2
  <2>4. \A p \in Nat \ {0} : p \in Column <=> Crap!Line(p) = l
    BY <1>1, <2>3, LineIs, LineOf
  <2>5. QED
    BY <2>2, <2>4
<1>4. PICK p \in Column : Crap!Covers(f, p)
  <2>1. layout[f].from \in Nat \ {0} /\ layout[f].to \in Nat \ {0} /\ layout[f].from <= layout[f].to
    BY <1>1, Nesting
  <2>2. n \in Nat \ {0}
    BY CrapAssumption
  <2>3. (l - 1) * n \in Nat /\ l * n = (l - 1) * n + n
    BY <1>1, <2>2, SMTT(30)
  <2>4. CASE Crap!First(f) = l
    <3>1. layout[f].from \in Column
      BY <1>3, <2>1, <2>4 DEF Crap!First
    <3>2. QED
      BY <2>1, <3>1 DEF Crap!Covers
  <2>5. CASE Crap!First(f) < l
    <3>1. (l - 1) * n + 1 \in Column
      BY <2>2, <2>3
    <3>2. Crap!Line((l - 1) * n + 1) = l /\ (l - 1) * n + 1 \in Nat \ {0}
      BY <1>3, <3>1
    <3>3. ~((l - 1) * n + 1 <= layout[f].from)
      BY <1>1, <2>1, <2>5, <3>2, LineGrows, LineIs DEF Crap!First
    <3>4. CASE (l - 1) * n + 1 <= layout[f].to
      BY <2>1, <2>3, <3>1, <3>3, <3>4 DEF Crap!Covers
    <3>5. CASE layout[f].to < (l - 1) * n + 1
      <4>1. (Crap!Last(f) - 1) * n < layout[f].to /\ Crap!Last(f) \in Nat \ {0}
        BY <2>1, LineIs DEF Crap!Last
      <4>2. layout[f].to <= (l - 1) * n
        BY <2>1, <2>3, <3>5
      <4>3. l <= Crap!Last(f) => (l - 1) * n <= (Crap!Last(f) - 1) * n
        BY <1>1, <2>2, <4>1, SMTT(30)
      <4>4. (Crap!Last(f) - 1) * n \in Int
        BY <2>2, <4>1
      <4>5. QED
        BY <1>1, <2>1, <2>3, <4>1, <4>2, <4>3, <4>4
    <3>6. QED
      BY <2>1, <2>3, <3>4, <3>5
  <2>6. QED
    BY <1>1, <2>4, <2>5, FunctionLines
<1>5. f \in Crap!OwnersOf(p)
  <2>1. p \in Nat \ {0} /\ Crap!Line(p) = l
    BY <1>3
  <2>2. \A g \in Crap!Nested(f) : ~Crap!Covers(g, p)
    BY <1>1, <1>2, <2>1, FunctionLines, NestedIs, Nesting
  <2>3. QED
    BY <1>1, <1>4, <2>1, <2>2, Innermost
<1>6. ASSUME NEW q \in Column, NEW g \in Crap!OwnersOf(q), g # f
      PROVE  FALSE
  <2>1. q \in Nat \ {0} /\ Crap!Line(q) = l /\ p \in Nat \ {0} /\ Crap!Line(p) = l
    BY <1>3
  <2>2. g \in Fun /\ Crap!Covers(g, q) /\ ~ \E c \in Crap!Nested(g) : Crap!Covers(c, q)
    BY <1>6 DEF Crap!OwnersOf, Fun
  <2>3. f \in Nat /\ g \in Nat /\ l \in Lines(g)
    BY <1>1, <2>1, <2>2, Nesting, FunctionLines
  <2>4. ASSUME NEW h \in Fun, l \in Lines(h), l \notin OwnLines(h)
        PROVE  \E c \in Crap!Nested(h) :
                  /\ Crap!First(c) < l /\ l < Crap!Last(c)
                  /\ \A x \in Nat \ {0} : Crap!Line(x) = l => Crap!Covers(c, x)
    <3>1. PICK c \in Crap!Nested(h) : l \in Crap!First(c) + 1..Crap!Last(c) - 1
      BY <2>4 DEF OwnLines, Crap!Interior
    <3>2. c \in Fun
      BY <2>4, Nesting, NestedIs
    <3>3. Crap!First(c) < l /\ l < Crap!Last(c)
      BY <3>1, <3>2, FunctionLines
    <3>4. QED
      BY <3>2, <3>3, FunctionLines
  <2>5. CASE g \in Crap!Recorded
    BY <1>6, <2>1, <2>2, <2>3, <2>4, <2>5
  <2>6. CASE g \notin Crap!Recorded
    <3> DEFINE h == layout[g].parent
    <3>1. h \in Fun /\ h \in Crap!Recorded /\ Crap!Covers(h, q) /\ g \in Crap!Nested(h)
      BY <2>2, <2>6, Nesting, RecordedIs DEF Crap!Covers, Crap!Nested, Fun
    <3>2. h # f
      BY <1>2, <2>3, <3>1
    <3>3. l \in Lines(h) /\ l \notin OwnLines(h)
      BY <2>1, <3>1, <3>2, FunctionLines
    <3>4. PICK c \in Crap!Nested(h) : \A x \in Nat \ {0} : Crap!Line(x) = l => Crap!Covers(c, x)
      BY <2>4, <3>1, <3>3
    <3>5. c \in Fun /\ layout[c].parent = h
      BY <3>1, <3>4, Nesting, NestedIs
    <3>6. c = g
      BY <2>1, <2>2, <3>4, <3>5, Siblings
    <3>7. Crap!Covers(g, p)
      BY <2>1, <3>4, <3>6
    <3>8. CASE f < g
      <4>1. PICK d \in Crap!Nested(f) : Crap!Covers(d, p)
        BY <1>1, <1>4, <2>1, <2>2, <2>3, <3>7, <3>8, OneInTheOther DEF TopOrCovers
      <4>2. d \in Fun
        BY <2>3, <4>1, NestedIs
      <4>3. QED
        BY <1>2, <2>1, <4>1, <4>2, FunctionLines
    <3>9. CASE g < f
      <4>1. PICK d \in Crap!Nested(g) : Crap!Covers(d, p)
        BY <1>1, <1>4, <2>1, <2>2, <2>3, <3>7, <3>9, OneInTheOther DEF TopOrCovers
      <4>2. g # 0
        BY <2>2, Nesting
      <4>3. QED
        BY <2>3, <2>6, <4>1, <4>2, NestedIs
    <3>10. QED
      BY <1>6, <2>3, <3>8, <3>9
  <2>7. QED
    BY <2>5, <2>6
<1>7. Crap!OwnersOnLine(l) = UNION {Crap!OwnersOf(q) : q \in Column}
  BY DEF Crap!OwnersOnLine
<1>8. QED
  BY <1>5, <1>6, <1>7

LEMMA RegionAlone ==
  ASSUME layout \in Layouts, NEW f \in Crap!Recorded, NEW r, precise, Crap!Fits(f, r), r.spans # {},
         \A s \in r.spans : s[1] \in Nat \ {0} /\ s[2] \in Nat /\ s[1] <= s[2]
  PROVE  Crap!OwnersIn(r) = {f}
<1> DEFINE Columns == UNION {s[1]..s[2] : s \in r.spans}
<1>1. f \in Fun
  BY RecordedIs
<1>2. ASSUME NEW p \in Columns
      PROVE  Crap!OwnersOf(p) = {f}
  <2>1. PICK s \in r.spans : p \in s[1]..s[2]
    OBVIOUS
  <2>2. s[1] \in Nat \ {0} /\ s[2] \in Nat /\ p \in Nat \ {0} /\ s[1] <= p /\ p <= s[2]
    BY <2>1
  <2>3. /\ layout[f].from <= s[1] /\ s[2] <= layout[f].to
        /\ \A g \in Crap!Nested(f) : s[2] < layout[g].from \/ layout[g].to < s[1]
    BY DEF Crap!Fits
  <2>4. Crap!Covers(f, p)
    BY <1>1, <2>2, <2>3, Nesting DEF Crap!Covers
  <2>5. \A g \in Crap!Nested(f) : g \in Fun
    BY <1>1, Nesting, NestedIs
  <2>6. \A g \in Crap!Nested(f) : ~Crap!Covers(g, p)
    BY <2>2, <2>3, <2>5, Nesting DEF Crap!Covers
  <2>7. QED
    BY <1>1, <2>2, <2>4, <2>6, Innermost
<1>3. Columns # {}
  <2>1. PICK s \in r.spans : TRUE
    OBVIOUS
  <2>2. s[1] \in s[1]..s[2]
    OBVIOUS
  <2>3. QED
    BY <2>2
<1>4. Crap!OwnersIn(r) = UNION {Crap!OwnersOf(p) : p \in Columns}
  BY DEF Crap!OwnersIn
<1>5. QED
  BY <1>2, <1>3, <1>4

LEMMA BoundaryMeets ==
  ASSUME layout \in Layouts, NEW f \in Crap!Recorded, Crap!SharedBoundary(f)
  PROVE  \E l \in DOMAIN counted, g \in Fun \ {f} : l \in Lines(f) /\ l \in Lines(g)
<1>1. f \in Fun /\ f \in Nat
  BY RecordedIs, Nesting
<1>2. PICK g \in Crap!Nested(f) : {Crap!First(g), Crap!Last(g)} \cap Lines(f) \cap DOMAIN counted # {}
  BY DEF Crap!SharedBoundary, Lines
<1>3. g \in Fun \ {f}
  BY <1>1, <1>2, NestedIs, Nesting
<1>4. Crap!First(g) \in Lines(g) /\ Crap!Last(g) \in Lines(g)
  BY <1>3, FunctionLines DEF Lines
<1>5. QED
  BY <1>2, <1>3, <1>4

-----------------------------------------------------------------------------
(* The segments of a function are its own lines, apart from each other. *)
At(s, l) == s.start <= l /\ l <= s.end

LEMMA SegmentsAre ==
  ASSUME layout \in Layouts, NEW s \in Crap!AllSegments
  PROVE  /\ s.function \in Crap!Recorded /\ s.start \in Nat \ {0} /\ s.end \in Nat /\ s.start <= s.end
         /\ s.start..s.end \subseteq OwnLines(s.function)
         /\ s.end + 1 \notin OwnLines(s.function)
<1>1. PICK f \in Crap!Recorded : \E t \in Crap!Segments(f) : s = [function |-> f, start |-> t[1], end |-> t[2]]
  BY DEF Crap!AllSegments
<1>2. PICK t \in Crap!Segments(f) : s = [function |-> f, start |-> t[1], end |-> t[2]]
  BY <1>1
<1>3. /\ t \in OwnLines(f) \X OwnLines(f) /\ t[1] <= t[2]
      /\ t[1]..t[2] \subseteq OwnLines(f) /\ t[2] + 1 \notin OwnLines(f)
  BY DEF Crap!Segments, OwnLines, Lines
<1>4. OwnLines(f) \subseteq Nat \ {0}
  BY RecordedIs, FunctionLines DEF OwnLines, Lines
<1>5. QED
  BY <1>2, <1>3, <1>4

LEMMA SegmentsApart ==
  ASSUME layout \in Layouts, NEW s \in Crap!AllSegments, NEW t \in Crap!AllSegments,
         s.function = t.function, s.end < t.end
  PROVE  s.end < t.start
<1>1. s.end + 1 \notin t.start..t.end
  BY SegmentsAre
<1>2. QED
  BY <1>1, SegmentsAre

LEMMA OwnLinesCovered ==
  ASSUME layout \in Layouts, NEW f \in Crap!Recorded, NEW l \in OwnLines(f)
  PROVE  \E s \in Crap!AllSegments : s.function = f /\ At(s, l)
<1>1. OwnLines(f) \subseteq Nat \ {0} /\ l \in Nat \ {0}
  BY RecordedIs, FunctionLines DEF OwnLines, Lines
<1> DEFINE Starts == {b \in Nat : b <= l /\ b..l \subseteq OwnLines(f)}
           Ends == {e \in Nat : l < e /\ e \notin OwnLines(f)}
<1>2. PICK b \in Starts : \A x \in Starts : b <= x
  <2>1. l \in Starts
    BY <1>1
  <2>2. Starts \in SUBSET Nat
    OBVIOUS
  <2>3. QED
    BY <2>1, <2>2, LeastIsThere
<1>3. PICK e \in Ends : \A x \in Ends : e <= x
  <2>1. Crap!Last(f) \in Nat /\ l <= Crap!Last(f) /\ Crap!Last(f) + 1 \notin OwnLines(f)
    BY <1>1, RecordedIs, FunctionLines DEF OwnLines, Lines
  <2>2. Crap!Last(f) + 1 \in Ends
    BY <1>1, <2>1
  <2>3. Ends \in SUBSET Nat
    OBVIOUS
  <2>4. QED
    BY <2>2, <2>3, LeastIsThere
<1>4. b - 1 \notin OwnLines(f)
  <2>1. SUFFICES ASSUME b - 1 \in OwnLines(f) PROVE FALSE
    OBVIOUS
  <2>2. b - 1 \in Nat /\ b - 1 <= l /\ b - 1..l \subseteq OwnLines(f)
    BY <1>1, <1>2, <2>1
  <2>3. b - 1 \in Starts
    BY <2>2
  <2>4. QED
    BY <1>2, <2>3
<1>5. b..e - 1 \subseteq OwnLines(f)
  <2>1. ASSUME NEW x \in b..e - 1 PROVE x \in OwnLines(f)
    <3>1. CASE x <= l
      BY <1>1, <1>2, <2>1, <3>1
    <3>2. CASE l < x
      <4>1. x \in Nat /\ x < e
        BY <1>1, <1>2, <1>3, <2>1
      <4>2. QED
        BY <1>3, <3>2, <4>1
    <3>3. QED
      BY <1>1, <1>2, <1>3, <2>1, <3>1, <3>2
  <2>2. QED
    BY <2>1
<1>6. b \in OwnLines(f) /\ e - 1 \in OwnLines(f) /\ b <= e - 1 /\ (e - 1) + 1 \notin OwnLines(f)
  BY <1>1, <1>2, <1>3, <1>5
<1>7. <<b, e - 1>> \in Crap!Segments(f)
  BY <1>4, <1>5, <1>6 DEF Crap!Segments, OwnLines, Lines
<1> DEFINE s == [function |-> f, start |-> b, end |-> e - 1]
<1>8. s \in Crap!AllSegments
  BY <1>7 DEF Crap!AllSegments
<1>9. At(s, l)
  BY <1>1, <1>2, <1>3 DEF At
<1>10. QED
  BY <1>8, <1>9

-----------------------------------------------------------------------------
(* The sweep: what is started and not ended is what is at the last line    *)
(* that was visited; and whoever met another there is marked.              *)
Here(f, l) == \E s \in Crap!AllSegments : s.function = f /\ At(s, l)
Visited == DOMAIN counted \ ahead
Sweeping ==
  /\ ahead \subseteq DOMAIN counted
  /\ \A v \in Visited, l \in ahead : v < l
  /\ opening = {s \in Crap!AllSegments : \A v \in Visited : v < s.start}
  /\ closing = {s \in Crap!AllSegments : \A v \in Visited : v <= s.end}
  /\ active = {s.function : s \in closing \ opening}
  /\ unmarked = active \ ambiguous
  /\ \A v \in Visited, f, g \in Crap!Recorded : f # g /\ Here(f, v) /\ Here(g, v) => f \in ambiguous
  /\ \A f \in ambiguous : \E v \in DOMAIN counted, g \in Fun \ {f} : Here(f, v) /\ Here(g, v)
CrapInv ==
  /\ layout \in Layouts /\ coverage \in CoverageReports /\ precise \in BOOLEAN
  /\ stage \in {"read", "sweep", "apply", "done", "error"}
  /\ DOMAIN counted \subseteq Nat
  /\ unread \subseteq Crap!AllRecords
  /\ stage \in {"sweep", "apply", "done"} => Sweeping
  /\ stage \in {"apply", "done"} => ahead = {}
  /\ stage = "done" => scores = [f \in Crap!Recorded |-> Crap!Score(f)]

LEMMA TwoOfThem ==
  ASSUME NEW S, IsFiniteSet(S)
  PROVE  Crap!Cardinality(S) > 1 <=> \E x, y \in S : x # y
<1>1. Crap!Cardinality(S) = Cardinality(S)
  BY DEF Crap!Cardinality, Cardinality, Crap!IsFiniteSet, IsFiniteSet
<1>2. Cardinality(S) \in Nat
  BY FS_CardinalityType
<1>3. Cardinality(S) = 0 <=> S = {}
  BY FS_EmptySet
<1>4. Cardinality(S) = 1 <=> \E x : S = {x}
  BY FS_Singleton
<1>5. QED
  BY <1>1, <1>2, <1>3, <1>4

LEMMA CrapBegins == Crap!Init => CrapInv
<1> SUFFICES ASSUME Crap!Init PROVE CrapInv
  OBVIOUS
<1>1. DOMAIN counted = {}
  BY DEF Crap!Init
<1>2. QED
  BY <1>1 DEF Crap!Init, CrapInv

LEMMA RecordsHaveLines ==
  ASSUME CrapInv, NEW x \in Crap!AllRecords
  PROVE  x.line \in Nat
<1>1. Crap!Consistent(coverage)
  BY CrapAssumption DEF CrapInv
<1>2. CASE x \in coverage.records
  BY <1>1, <1>2 DEF Crap!Consistent
<1>3. CASE x \notin coverage.records
  <2>1. PICK r \in coverage.regions : x \in [line : Crap!LinesOf(r), hits : {r.hits}]
    BY <1>3 DEF Crap!AllRecords
  <2>2. PICK s \in r.spans : x.line \in Crap!Line(s[1])..Crap!Line(s[2])
    BY <2>1 DEF Crap!LinesOf
  <2>3. s[1] \in Nat \ {0} /\ s[2] \in Nat \ {0}
    BY <1>1 DEF Crap!Consistent
  <2>4. QED
    BY <2>2, <2>3, LineIs
<1>4. QED
  BY <1>2, <1>3

LEMMA InsertLineStep == CrapInv /\ Crap!InsertLine => CrapInv'
<1> SUFFICES ASSUME CrapInv, Crap!InsertLine PROVE CrapInv'
  OBVIOUS
<1>1. stage = "read" /\ UNCHANGED <<layout, precise, coverage, zero, scores>>
  BY DEF Crap!InsertLine, Crap!given
<1>2. PICK r \in unread :
        /\ unread' = unread \ {r}
        /\ \/ stage' = stage /\ r.line \in DOMAIN counted
              /\ counted' = [counted EXCEPT ![r.line] = Crap!Max({@, r.hits})]
           \/ stage' = stage
              /\ counted' = [l \in DOMAIN counted \cup {r.line} |-> IF l = r.line THEN r.hits ELSE counted[l]]
           \/ stage' = "error" /\ counted' = counted
  BY DEF Crap!InsertLine
<1>3. r.line \in Nat
  BY <1>2, RecordsHaveLines DEF CrapInv
<1>4. DOMAIN counted' \subseteq DOMAIN counted \cup {r.line}
  BY <1>2
<1>5. Crap!AllRecords' = Crap!AllRecords
  BY <1>1 DEF Crap!AllRecords, Crap!LinesOf, Crap!Line
<1>6. QED
  BY <1>1, <1>2, <1>3, <1>4, <1>5 DEF CrapInv

LEMMA JoinStep == CrapInv /\ Crap!Join => CrapInv'
<1> SUFFICES ASSUME CrapInv, Crap!Join PROVE CrapInv'
  OBVIOUS
<1>1. /\ UNCHANGED <<layout, precise, coverage, zero, unread, counted, scores>>
      /\ stage' \in {"error", "sweep"}
      /\ ahead' = DOMAIN counted /\ active' = {} /\ unmarked' = {} /\ ambiguous' = {}
      /\ opening' = Crap!AllSegments /\ closing' = Crap!AllSegments
  BY DEF Crap!Join, Crap!given, Crap!reading
<1>2. Crap!AllRecords' = Crap!AllRecords /\ Crap!AllSegments' = Crap!AllSegments
  BY <1>1 DEF Crap!AllRecords, Crap!LinesOf, Crap!Line, Crap!AllSegments, Crap!Segments, Crap!Interior,
     Crap!First, Crap!Last, Crap!Nested, Crap!Recorded
<1>3. Visited' = {}
  BY <1>1 DEF Visited
<1>4. Sweeping'
  BY <1>1, <1>2, <1>3 DEF Sweeping
<1>5. QED
  BY <1>1, <1>2, <1>4 DEF CrapInv

LEMMA SweepLineStep == CrapInv /\ Crap!SweepLine => CrapInv'
<1> SUFFICES ASSUME CrapInv, Crap!SweepLine PROVE CrapInv'
  OBVIOUS
<1> DEFINE line == Crap!Min(ahead)
           ended == {s \in closing : s.end < line}
           started == {s \in opening : s.start <= line}
           gone == {s.function : s \in ended}
           come == {s.function : s \in {t \in started : t.end >= line}}
           now == (active \ gone) \cup come
           left == (unmarked \ gone) \cup (come \ ambiguous)
           Segs == Crap!AllSegments
<1>1. /\ UNCHANGED <<layout, precise, coverage, zero, unread, counted, scores, stage>>
      /\ stage = "sweep" /\ ahead # {} /\ ahead' = ahead \ {line}
      /\ closing' = closing \ ended /\ opening' = opening \ started /\ active' = now
      /\ Crap!Cardinality(now) > 1 => ambiguous' = ambiguous \cup left /\ unmarked' = {}
      /\ ~(Crap!Cardinality(now) > 1) => ambiguous' = ambiguous /\ unmarked' = left
  BY DEF Crap!SweepLine, Crap!given, Crap!reading
<1>2. Crap!AllRecords' = Crap!AllRecords /\ Segs' = Segs /\ Crap!Recorded' = Crap!Recorded /\ Fun' = Fun
  BY <1>1 DEF Crap!AllRecords, Crap!LinesOf, Crap!Line, Crap!AllSegments, Crap!Segments, Crap!Interior,
     Crap!First, Crap!Last, Crap!Nested, Crap!Recorded, Fun
<1>3. Sweeping /\ ahead \subseteq Nat /\ Visited \subseteq Nat
  BY <1>1 DEF CrapInv, Sweeping, Visited
<1>4. line \in ahead /\ \A l \in ahead : line <= l
  <2>1. \E x \in ahead : \A y \in ahead : x <= y
    BY <1>1, <1>3, LeastIsThere
  <2>2. QED
    BY <2>1 DEF Crap!Min
<1>5. Visited' = Visited \cup {line} /\ line \in Nat /\ \A v \in Visited : v < line
  BY <1>1, <1>3, <1>4 DEF Visited, Sweeping
<1>6. \A s \in Segs : s.start \in Nat /\ s.end \in Nat /\ s.start <= s.end /\ s.function \in Crap!Recorded
  BY SegmentsAre DEF CrapInv
<1> HIDE DEF line
<1>7. opening' = {s \in Segs : \A v \in Visited' : v < s.start}
  BY <1>1, <1>3, <1>5, <1>6 DEF Sweeping
<1>8. closing' = {s \in Segs : \A v \in Visited' : v <= s.end}
  BY <1>1, <1>3, <1>5, <1>6 DEF Sweeping
<1>9. closing' \ opening' = {s \in Segs : At(s, line)}
  <2>1. \A s \in Segs : (\A v \in Visited' : v <= s.end) <=> line <= s.end
    BY <1>3, <1>5, <1>6
  <2>2. \A s \in Segs : (\A v \in Visited' : v < s.start) <=> line < s.start
    BY <1>3, <1>5, <1>6
  <2>3. QED
    BY <1>5, <1>6, <1>7, <1>8, <2>1, <2>2 DEF At
<1>10. now = {s.function : s \in closing' \ opening'}
  <2>1. ASSUME NEW s \in closing' \ opening' PROVE s.function \in now
    <3>1. s \in Segs /\ s.start <= line /\ line <= s.end
      BY <1>9, <2>1 DEF At
    <3>2. CASE s \in opening
      BY <1>5, <1>6, <3>1, <3>2
    <3>3. CASE s \notin opening
      <4>1. PICK v \in Visited : s.start <= v
        BY <1>3, <1>6, <3>1, <3>3 DEF Sweeping
      <4>2. s \in closing \ opening
        BY <1>1, <2>1, <3>3
      <4>3. s.function \in active
        BY <1>3, <4>2 DEF Sweeping
      <4>4. ASSUME NEW t \in ended, t.function = s.function PROVE FALSE
        <5>1. t \in Segs /\ v <= t.end /\ t.end < line
          BY <1>3, <4>4 DEF Sweeping
        <5>2. t.end < s.end
          BY <1>5, <1>6, <3>1, <5>1
        <5>3. t.end < s.start
          BY <3>1, <4>4, <5>1, <5>2, SegmentsApart DEF CrapInv
        <5>4. QED
          BY <1>3, <1>6, <3>1, <4>1, <5>1, <5>3
      <4>5. QED
        BY <4>3, <4>4
    <3>4. QED
      BY <3>2, <3>3
  <2>2. ASSUME NEW f \in now PROVE \E s \in closing' \ opening' : f = s.function
    <3>1. CASE f \in come
      <4>1. PICK s \in opening : s.start <= line /\ s.end >= line /\ f = s.function
        BY <3>1
      <4>2. s \in Segs /\ At(s, line)
        BY <1>3, <1>5, <1>6, <4>1 DEF Sweeping, At
      <4>3. QED
        BY <1>9, <4>1, <4>2
    <3>2. CASE f \in active \ gone
      <4>1. PICK s \in closing \ opening : f = s.function
        BY <1>3, <3>2 DEF Sweeping
      <4>2. s \notin ended
        BY <3>2, <4>1
      <4>3. s \in closing' \ opening'
        BY <1>1, <4>1, <4>2
      <4>4. QED
        BY <4>1, <4>3
    <3>3. QED
      BY <2>2, <3>1, <3>2
  <2>3. QED
    BY <2>1, <2>2
<1>11. now = {f \in Crap!Recorded : Here(f, line)}
  BY <1>6, <1>9, <1>10 DEF Here
<1>12. unmarked' = now \ ambiguous' /\ left = now \ ambiguous
  BY <1>1, <1>3 DEF Sweeping
<1>13. IsFiniteSet(now) /\ now \subseteq Fun
  <2>1. now \subseteq Fun
    BY <1>11, RecordedIs
  <2>2. IsFiniteSet(Fun)
    BY Nesting DEF CrapInv
  <2>3. QED
    BY <2>1, <2>2, FS_Subset
<1>14. \A f, l : Here(f, l)' <=> Here(f, l)
  BY <1>2 DEF Here, At
<1>15. ASSUME NEW f \in Crap!Recorded, NEW g \in Crap!Recorded, f # g, Here(f, line), Here(g, line)
       PROVE  f \in ambiguous'
  <2>1. f \in now /\ g \in now
    BY <1>11, <1>15
  <2>2. Crap!Cardinality(now) > 1
    BY <1>13, <1>15, <2>1, TwoOfThem
  <2>3. QED
    BY <1>1, <1>12, <2>1, <2>2
<1>16. ASSUME NEW f \in ambiguous'
       PROVE  \E v \in DOMAIN counted, g \in Fun \ {f} : Here(f, v) /\ Here(g, v)
  <2>1. CASE f \in ambiguous
    BY <1>3, <2>1 DEF Sweeping
  <2>2. CASE f \notin ambiguous
    <3>1. Crap!Cardinality(now) > 1 /\ f \in now
      BY <1>1, <1>12, <1>16, <2>2
    <3>2. PICK x \in now, y \in now : x # y
      BY <1>13, <3>1, TwoOfThem
    <3>3. PICK g \in now : g # f
      BY <3>2
    <3>4. Here(f, line) /\ Here(g, line) /\ g \in Fun \ {f}
      BY <1>11, <1>13, <3>1, <3>3
    <3>5. line \in DOMAIN counted
      BY <1>3, <1>4 DEF Sweeping
    <3>6. QED
      BY <3>4, <3>5
  <2>3. QED
    BY <2>1, <2>2
<1>17. ambiguous \subseteq ambiguous'
  BY <1>1
<1>18. \A v \in Visited', f, g \in Crap!Recorded : f # g /\ Here(f, v) /\ Here(g, v) => f \in ambiguous'
  BY <1>3, <1>5, <1>15, <1>17 DEF Sweeping
<1>19. (ahead \subseteq DOMAIN counted)' /\ \A v \in Visited', l \in ahead' : v < l
  BY <1>1, <1>3, <1>4, <1>5 DEF Sweeping
<1>20. Sweeping'
  BY <1>1, <1>2, <1>7, <1>8, <1>10, <1>12, <1>14, <1>16, <1>18, <1>19 DEF Sweeping
<1>21. QED
  BY <1>1, <1>2, <1>20 DEF CrapInv

LEMMA LaterSteps ==
  /\ CrapInv /\ Crap!FinishSweep => CrapInv'
  /\ CrapInv /\ Crap!Apply => CrapInv'
  /\ CrapInv /\ UNCHANGED Crap!vars => CrapInv'
<1> DEFINE kept == <<layout, precise, coverage, zero, unread, counted, ahead, opening, closing, active,
                     unmarked, ambiguous>>
<1>1. ASSUME UNCHANGED kept
      PROVE  /\ Crap!AllRecords' = Crap!AllRecords /\ Sweeping' = Sweeping
             /\ Crap!Recorded' = Crap!Recorded /\ \A f : Crap!Score(f)' = Crap!Score(f)
  <2>1. Crap!AllSegments' = Crap!AllSegments /\ Crap!AllRecords' = Crap!AllRecords /\ Fun' = Fun
    BY <1>1 DEF Crap!AllRecords, Crap!LinesOf, Crap!Line, Crap!AllSegments, Crap!Segments, Crap!Interior,
       Crap!First, Crap!Last, Crap!Nested, Crap!Recorded, Fun
  <2>2. Sweeping' = Sweeping
    BY <1>1, <2>1 DEF Sweeping, Visited, Here, Crap!Recorded
  <2>3. \A f : Crap!Score(f)' = Crap!Score(f)
    BY <1>1 DEF Crap!Score, Crap!Assigned, Crap!Fits, Crap!Shorter, Crap!Columns, Crap!RegionalHits,
       Crap!RegionalLines, Crap!LinesOf, Crap!Line, Crap!First, Crap!Last, Crap!Nested, Crap!Recorded,
       Crap!SharedBoundary, Crap!Owned, Crap!Interior, Crap!Missing, Crap!Zero
  <2>4. QED
    BY <1>1, <2>1, <2>2, <2>3 DEF Crap!Recorded
<1>2. ASSUME CrapInv, Crap!FinishSweep PROVE CrapInv'
  <2>1. UNCHANGED kept /\ UNCHANGED scores /\ stage = "sweep" /\ ahead = {} /\ stage' = "apply"
    BY <1>2 DEF Crap!FinishSweep, Crap!given, Crap!reading, Crap!sweep
  <2>2. QED
    BY <1>1, <1>2, <2>1 DEF CrapInv
<1>3. ASSUME CrapInv, Crap!Apply PROVE CrapInv'
  <2>1. /\ UNCHANGED kept /\ stage = "apply" /\ stage' = "done"
        /\ scores' = [f \in Crap!Recorded |-> Crap!Score(f)]
    BY <1>3 DEF Crap!Apply, Crap!given, Crap!reading, Crap!sweep
  <2>2. QED
    BY <1>1, <1>3, <2>1 DEF CrapInv
<1>4. ASSUME CrapInv, UNCHANGED Crap!vars PROVE CrapInv'
  <2>1. UNCHANGED kept /\ UNCHANGED <<scores, stage>>
    BY <1>4 DEF Crap!vars, Crap!given, Crap!reading, Crap!sweep
  <2>2. QED
    BY <1>1, <1>4, <2>1 DEF CrapInv
<1>5. QED
  BY <1>2, <1>3, <1>4

LEMMA CrapStep == CrapInv /\ [Crap!Next]_(Crap!vars) => CrapInv'
BY InsertLineStep, JoinStep, SweepLineStep, LaterSteps DEF Crap!Next

LEMMA ScoredByItsOwn == CrapInv => Crap!CoverageIsOwn
<1> SUFFICES ASSUME CrapInv, stage = "done", NEW f \in Crap!Recorded
             PROVE  /\ scores[f].kind = "lines" => \A l \in scores[f].executable : Crap!OwnersOnLine(l) = {f}
                    /\ scores[f].kind = "regional" /\ precise =>
                          \A r \in Crap!Assigned(f) : Crap!OwnersIn(r) = {f}
                    /\ scores[f].kind = "ambiguous" =>
                          \E l \in DOMAIN counted, g \in Fun \ {f} : l \in Lines(f) /\ l \in Lines(g)
  BY DEF Crap!CoverageIsOwn, Fun, Lines
<1>1. layout \in Layouts /\ Sweeping /\ ahead = {} /\ Visited = DOMAIN counted /\ f \in Fun
  BY RecordedIs DEF CrapInv, Visited
<1>2. scores[f] = Crap!Score(f)
  BY DEF CrapInv
<1>3. ASSUME scores[f].kind = "lines", NEW l \in scores[f].executable
      PROVE  Crap!OwnersOnLine(l) = {f}
  <2>1. /\ scores[f].executable = Crap!Owned(f)
        /\ ~Crap!SharedBoundary(f) /\ f \notin ambiguous
    BY <1>2, <1>3 DEF Crap!Score, Crap!Missing, Crap!Zero
  <2>2. l \in DOMAIN counted /\ l \in OwnLines(f)
    BY <1>3, <2>1 DEF Crap!Owned, OwnLines, Lines
  <2>3. \A g \in Crap!Nested(f) : l # Crap!First(g) /\ l # Crap!Last(g)
    BY <2>1, <2>2 DEF Crap!SharedBoundary, OwnLines, Lines
  <2>4. ASSUME NEW g \in Crap!Recorded, l \in OwnLines(g), g # f
        PROVE  FALSE
    <3>1. Here(f, l) /\ Here(g, l)
      BY <1>1, <2>2, <2>4, OwnLinesCovered DEF Here
    <3>2. QED
      BY <1>1, <2>1, <2>2, <2>4, <3>1 DEF Sweeping
  <2>5. QED
    BY <1>1, <2>2, <2>3, <2>4, LineAlone
<1>4. ASSUME precise, NEW r \in Crap!Assigned(f)
      PROVE  Crap!OwnersIn(r) = {f}
  <2>1. r \in coverage.regions /\ Crap!Fits(f, r)
    BY <1>4 DEF Crap!Assigned
  <2>2. Crap!Consistent(coverage)
    BY CrapAssumption DEF CrapInv
  <2>3. r.spans # {} /\ \A s \in r.spans : s[1] \in Nat \ {0} /\ s[2] \in Nat /\ s[1] <= s[2]
    BY <2>1, <2>2 DEF Crap!Consistent
  <2>4. QED
    BY <1>1, <1>4, <2>1, <2>3, RegionAlone
<1>5. ASSUME scores[f].kind = "ambiguous"
      PROVE  \E l \in DOMAIN counted, g \in Fun \ {f} : l \in Lines(f) /\ l \in Lines(g)
  <2>1. Crap!SharedBoundary(f) \/ f \in ambiguous
    BY <1>2, <1>5 DEF Crap!Score, Crap!Missing, Crap!Zero
  <2>2. CASE Crap!SharedBoundary(f)
    BY <1>1, <2>2, BoundaryMeets
  <2>3. CASE f \in ambiguous
    <3>1. PICK v \in DOMAIN counted, g \in Fun \ {f} : Here(f, v) /\ Here(g, v)
      BY <1>1, <2>3 DEF Sweeping
    <3>2. \A h : Here(h, v) => v \in Lines(h)
      <4>1. ASSUME NEW s \in Crap!AllSegments, At(s, v) PROVE v \in Lines(s.function)
        <5>1. v \in Nat
          BY <3>1 DEF CrapInv
        <5>2. v \in s.start..s.end
          BY <1>1, <4>1, <5>1, SegmentsAre DEF At
        <5>3. QED
          BY <1>1, <5>2, SegmentsAre DEF OwnLines
      <4>2. QED
        BY <4>1 DEF Here
    <3>3. QED
      BY <3>1, <3>2
  <2>4. QED
    BY <2>1, <2>2, <2>3
<1>6. QED
  BY <1>3, <1>4, <1>5

(* However functions are nested and whatever a report counts, a function   *)
(* is scored by the execution of its own lines, and by nothing where a line *)
(* may be another's (CoverageMapper, peer_ambiguous_functions).            *)
THEOREM CoverageStaysOwn == Crap!Spec => []CoverageIsOwn
<1>1. CrapInv => CoverageIsOwn
  BY ScoredByItsOwn DEF CoverageIsOwn
<1>2. QED
  BY CrapBegins, CrapStep, <1>1, PTL DEF Crap!Spec

-----------------------------------------------------------------------------
(* Exact clones: sets of numbers.                                          *)

LEMMA GreatestIsThere ==
  ASSUME NEW S \in SUBSET Nat, IsFiniteSet(S), S # {}
  PROVE  \E x \in S : \A y \in S : y <= x
<1> DEFINE Topped(T) == \E x \in T : \A y \in T : y <= x
           Bad == {n \in Nat : \E T \in SUBSET Nat :
                     IsFiniteSet(T) /\ T # {} /\ Cardinality(T) = n /\ ~Topped(T)}
<1>1. SUFFICES ASSUME ~Topped(S) PROVE FALSE
  OBVIOUS
<1>2. Cardinality(S) \in Bad /\ Bad \in SUBSET Nat
  BY <1>1, FS_CardinalityType
<1>3. PICK n \in Bad : \A m \in Bad : n <= m
  BY <1>2, LeastIsThere
<1>4. PICK T \in SUBSET Nat : IsFiniteSet(T) /\ T # {} /\ Cardinality(T) = n /\ ~Topped(T)
  BY <1>3
<1>5. PICK t \in T : TRUE
  BY <1>4
<1> DEFINE U == T \ {t}
<1>6. IsFiniteSet(U) /\ Cardinality(U) = n - 1 /\ Cardinality(U) \in Nat /\ U \in SUBSET Nat
  BY <1>4, <1>5, FS_RemoveElement, FS_CardinalityType
<1>7. n \in Nat /\ n - 1 \notin Bad
  BY <1>3, <1>6
<1>8. U # {}
  BY <1>4, <1>5
<1>9. PICK m \in U : \A y \in U : y <= m
  BY <1>6, <1>7, <1>8
<1>10. Topped(T)
  <2>1. CASE t <= m
    BY <1>9, <2>1
  <2>2. CASE ~(t <= m)
    <3>1. t \in Nat /\ m \in Nat /\ \A y \in U : y \in Nat
      BY <1>5, <1>9
    <3>2. \A y \in T : y <= t
      BY <1>9, <2>2, <3>1
    <3>3. QED
      BY <3>2
  <2>3. QED
    BY <2>1, <2>2
<1>11. QED
  BY <1>4, <1>10

LEMMA MaxOfBounded ==
  ASSUME NEW S \in SUBSET Nat, S # {}, NEW n \in Nat, \A x \in S : x <= n
  PROVE  Clones!Max(S) \in S /\ \A x \in S : x <= Clones!Max(S)
<1>1. IsFiniteSet(S)
  BY FS_BoundedSetOfNaturals
<1>2. \E x \in S : \A y \in S : x >= y
  BY <1>1, GreatestIsThere
<1>3. QED
  BY <1>2 DEF Clones!Max

LEMMA ImageIsFinite ==
  ASSUME NEW f, IsFiniteSet(DOMAIN f)
  PROVE  IsFiniteSet({f[x] : x \in DOMAIN f})
<1> DEFINE T == {f[x] : x \in DOMAIN f}
           g == [x \in DOMAIN f |-> f[x]]
<1>1. g \in Surjection(DOMAIN f, T)
  BY DEF Surjection
<1>2. QED
  BY <1>1, FS_Surjection DEF ExistsSurjection

-----------------------------------------------------------------------------
(* Texts. *)
TokenAt(p, k) == tokens[p[1]][p[2] + k]
Spot(p) == p[1] \in DOMAIN tokens /\ p[2] \in Nat \ {0} /\ p = <<p[1], p[2]>>

LEMMA FilesAre ==
  ASSUME tokens \in CloneSources
  PROVE  /\ DOMAIN tokens \subseteq Nat
         /\ \A f \in DOMAIN tokens : tokens[f] \in Seq(Tokens) /\ Len(tokens[f]) \in Nat
BY ClonesAssumption

LEMMA PlaceIs ==
  ASSUME tokens \in CloneSources, NEW p
  PROVE  p \in Clones!Place <=> Spot(p) /\ p[2] <= Len(tokens[p[1]])
<1>1. ASSUME p \in Clones!Place PROVE Spot(p) /\ p[2] <= Len(tokens[p[1]])
  <2>1. PICK f \in DOMAIN tokens : p \in {<<f, i>> : i \in 1..Len(tokens[f])}
    BY <1>1 DEF Clones!Place
  <2>2. PICK i \in 1..Len(tokens[f]) : p = <<f, i>>
    BY <2>1
  <2>3. QED
    BY <2>2, FilesAre DEF Spot
<1>2. ASSUME Spot(p), p[2] <= Len(tokens[p[1]]) PROVE p \in Clones!Place
  <2>1. p[2] \in 1..Len(tokens[p[1]]) /\ p = <<p[1], p[2]>> /\ p[1] \in DOMAIN tokens
    BY <1>2, FilesAre DEF Spot
  <2>2. p \in {<<p[1], i>> : i \in 1..Len(tokens[p[1]])}
    BY <2>1
  <2>3. QED
    BY <2>1, <2>2 DEF Clones!Place
<1>3. QED
  BY <1>1, <1>2

LEMMA TextIs ==
  ASSUME tokens \in CloneSources, NEW p, Spot(p), NEW n \in Nat, Clones!Fits(p, n)
  PROVE  /\ Clones!Text(p, n) \in Seq(Tokens) /\ Len(Clones!Text(p, n)) = n
         /\ \A k \in 0..n - 1 : Clones!Text(p, n)[k + 1] = TokenAt(p, k)
<1> DEFINE s == tokens[p[1]]
           i == p[2]
           j == p[2] + n - 1
<1>1. s \in Seq(Tokens) /\ i \in Nat \ {0} /\ j \in Int /\ j <= Len(s)
  BY FilesAre DEF Spot, Clones!Fits
<1>2. \A k \in i..j : s[k] \in Tokens
  BY <1>1
<1> HIDE DEF s
<1>3. /\ SubSeq(s, i, j) \in Seq(Tokens)
      /\ Len(SubSeq(s, i, j)) = IF i <= j THEN j - i + 1 ELSE 0
      /\ \A k \in 1..j - i + 1 : SubSeq(s, i, j)[k] = s[i + k - 1]
  BY <1>1, <1>2, SubSeqProperties, SMTT(30)
<1>4. Clones!Text(p, n) = SubSeq(s, i, j)
  BY DEF Clones!Text, s
<1>5. \A k \in 0..n - 1 : SubSeq(s, i, j)[k + 1] = s[i + k]
  BY <1>1, <1>3, SMTT(30)
<1>6. QED
  BY <1>1, <1>3, <1>4, <1>5 DEF TokenAt, s

LEMMA SameText ==
  ASSUME tokens \in CloneSources, NEW p, NEW q, Spot(p), Spot(q), NEW n \in Nat,
         Clones!Fits(p, n), Clones!Fits(q, n)
  PROVE  Clones!Text(p, n) = Clones!Text(q, n) <=> \A k \in 0..n - 1 : TokenAt(p, k) = TokenAt(q, k)
<1> DEFINE s == Clones!Text(p, n)
           t == Clones!Text(q, n)
<1>1. /\ s \in Seq(Tokens) /\ Len(s) = n /\ t \in Seq(Tokens) /\ Len(t) = n
      /\ \A k \in 0..n - 1 : s[k + 1] = TokenAt(p, k) /\ t[k + 1] = TokenAt(q, k)
  BY TextIs
<1> HIDE DEF s, t
<1>2. ASSUME s = t PROVE \A k \in 0..n - 1 : TokenAt(p, k) = TokenAt(q, k)
  BY <1>1, <1>2
<1>3. ASSUME \A k \in 0..n - 1 : TokenAt(p, k) = TokenAt(q, k) PROVE s = t
  <2>1. ASSUME NEW i \in 1..n PROVE s[i] = t[i]
    <3>1. i - 1 \in 0..n - 1 /\ (i - 1) + 1 = i
      BY <2>1
    <3>2. QED
      BY <1>1, <1>3, <3>1
  <2>2. QED
    BY <1>1, <2>1, SeqEqual
<1>4. QED
  BY <1>2, <1>3 DEF s, t

-----------------------------------------------------------------------------
(* Two windows are extended as far as their files agree. *)
Agree(l, r, d) == TokenAt(l, d) = TokenAt(r, d)
Size(p) == Len(tokens[p[1]])

LEMMA EarlierIs ==
  ASSUME tokens \in CloneSources, NEW l \in Clones!Place, NEW r \in Clones!Place
  PROVE  LET b == Clones!Earlier(l, r)
         IN  /\ b \in Nat /\ b < l[2] /\ b < r[2]
             /\ \A d \in -b..-1 : Agree(l, r, d)
             /\ b + 1 < l[2] /\ b + 1 < r[2] => ~Agree(l, r, -b - 1)
<1>1. Spot(l) /\ Spot(r) /\ l[2] <= Size(l) /\ r[2] <= Size(r) /\ Size(l) \in Nat /\ Size(r) \in Nat
  BY PlaceIs, FilesAre DEF Size, Spot
<1>2. l[2] \in Nat \ {0} /\ r[2] \in Nat \ {0}
  BY <1>1 DEF Spot
<1> DEFINE m == Clones!Min({l[2], r[2]})
<1>3. m \in Nat \ {0} /\ m \in {l[2], r[2]} /\ m <= l[2] /\ m <= r[2]
  <2>1. \E x \in {l[2], r[2]} : \A y \in {l[2], r[2]} : x <= y
    BY <1>2
  <2>2. QED
    BY <1>2, <2>1 DEF Clones!Min
<1> HIDE DEF m
<1> DEFINE From(p, b) == <<p[1], p[2] - b>>
           Backward == {b \in 0..m - 1 : Clones!Text(From(l, b), b) = Clones!Text(From(r, b), b)}
<1>4. ASSUME NEW b \in 0..m - 1
      PROVE  b \in Backward <=> \A d \in -b..-1 : Agree(l, r, d)
  <2>1. Spot(From(l, b)) /\ Spot(From(r, b)) /\ b \in Nat
    BY <1>1, <1>2, <1>3 DEF Spot
  <2>2. Clones!Fits(From(l, b), b) /\ Clones!Fits(From(r, b), b)
    <3>1. /\ From(l, b)[1] = l[1] /\ From(l, b)[2] + b - 1 = l[2] - 1
          /\ From(r, b)[1] = r[1] /\ From(r, b)[2] + b - 1 = r[2] - 1
      BY <1>2, <2>1
    <3>2. l[2] - 1 <= Size(l) /\ r[2] - 1 <= Size(r)
      BY <1>1, <1>2
    <3>3. QED
      BY <3>1, <3>2 DEF Clones!Fits, Size
  <2>3. Clones!Text(From(l, b), b) = Clones!Text(From(r, b), b) <=>
          \A k \in 0..b - 1 : TokenAt(From(l, b), k) = TokenAt(From(r, b), k)
    BY <2>1, <2>2, SameText
  <2>4. ASSUME NEW k \in Int
        PROVE  TokenAt(From(l, b), k) = TokenAt(l, k - b) /\ TokenAt(From(r, b), k) = TokenAt(r, k - b)
    <3>1. l[2] - b + k = l[2] + (k - b) /\ r[2] - b + k = r[2] + (k - b)
      BY <1>2, <2>1
    <3>2. QED
      BY <3>1 DEF TokenAt
  <2>5. (\A k \in 0..b - 1 : Agree(l, r, k - b)) <=> \A d \in -b..-1 : Agree(l, r, d)
    <3>1. ASSUME \A k \in 0..b - 1 : Agree(l, r, k - b), NEW d \in -b..-1 PROVE Agree(l, r, d)
      <4>1. d + b \in 0..b - 1 /\ (d + b) - b = d
        BY <2>1, <3>1
      <4>2. QED
        BY <3>1, <4>1
    <3>2. \A k \in 0..b - 1 : k - b \in -b..-1
      BY <2>1
    <3>3. QED
      BY <3>1, <3>2
  <2>6. (\A k \in 0..b - 1 : TokenAt(From(l, b), k) = TokenAt(From(r, b), k)) <=>
          \A k \in 0..b - 1 : Agree(l, r, k - b)
    BY <2>4 DEF Agree
  <2>7. QED
    BY <2>3, <2>5, <2>6
<1>5. 0 \in Backward
  BY <1>3, <1>4
<1> HIDE DEF Backward
<1>6. Backward \in SUBSET Nat /\ m - 1 \in Nat /\ \A b \in Backward : b <= m - 1
  BY <1>3 DEF Backward
<1> DEFINE b == Clones!Max(Backward)
<1>7. b \in Backward /\ \A x \in Backward : x <= b
  BY <1>3, <1>5, <1>6, MaxOfBounded
<1>8. b = Clones!Earlier(l, r)
  BY DEF Clones!Earlier, Backward, m
<1> HIDE DEF b
<1>9. b \in Nat /\ b < l[2] /\ b < r[2] /\ b \in 0..m - 1
  BY <1>2, <1>3, <1>6, <1>7
<1>10. \A d \in -b..-1 : Agree(l, r, d)
  BY <1>4, <1>7, <1>9
<1>11. ASSUME b + 1 < l[2], b + 1 < r[2], Agree(l, r, -b - 1) PROVE FALSE
  <2>1. b + 1 \in 0..m - 1
    BY <1>2, <1>3, <1>9, <1>11
  <2>2. ASSUME NEW d \in -(b + 1)..-1 PROVE Agree(l, r, d)
    <3>1. d = -b - 1 \/ d \in -b..-1
      BY <1>9, <2>2
    <3>2. QED
      BY <1>10, <1>11, <3>1
  <2>3. b + 1 \in Backward
    BY <1>4, <2>1, <2>2
  <2>4. QED
    BY <1>7, <1>9, <2>3
<1>12. QED
  BY <1>8, <1>9, <1>10, <1>11

LEMMA AgreeingIs ==
  ASSUME tokens \in CloneSources, NEW l \in Clones!Place, NEW r \in Clones!Place, NEW n \in Nat
  PROVE  Clones!Agreeing(l, r, n) <=>
           /\ l[2] + n - 1 <= Size(l) /\ r[2] + n - 1 <= Size(r)
           /\ \A d \in 0..n - 1 : Agree(l, r, d)
<1>1. Spot(l) /\ Spot(r)
  BY PlaceIs
<1>2. QED
  BY <1>1, SameText DEF Clones!Agreeing, Clones!Fits, Agree, Size

LEMMA LaterIs ==
  ASSUME tokens \in CloneSources, NEW l \in Clones!Place, NEW r \in Clones!Place
  PROVE  LET n == Clones!Later(l, r)
         IN  /\ n \in Nat /\ Clones!Agreeing(l, r, n)
             /\ l[2] + n <= Size(l) /\ r[2] + n <= Size(r) => ~Agree(l, r, n)
             /\ \A k \in Nat : Clones!Agreeing(l, r, k) => k <= n
<1>1. /\ l[2] \in Nat \ {0} /\ r[2] \in Nat \ {0} /\ Size(l) \in Nat /\ Size(r) \in Nat
      /\ l[2] <= Size(l) /\ r[2] <= Size(r)
  BY PlaceIs, FilesAre DEF Size, Spot
<1> DEFINE Forward == {n \in 0..Size(l) : Clones!Agreeing(l, r, n)}
           n == Clones!Max(Forward)
<1>2. \A k \in Nat : Clones!Agreeing(l, r, k) <=> k \in Forward
  BY <1>1, AgreeingIs
<1>3. 0 \in Forward
  BY <1>1, <1>2, AgreeingIs
<1> HIDE DEF Forward
<1>4. Forward \in SUBSET Nat /\ \A k \in Forward : k <= Size(l)
  BY <1>1 DEF Forward
<1>5. n \in Forward /\ \A x \in Forward : x <= n
  BY <1>1, <1>3, <1>4, MaxOfBounded
<1>6. n = Clones!Later(l, r)
  BY DEF Clones!Later, Forward, Size
<1> HIDE DEF n
<1>7. n \in Nat /\ Clones!Agreeing(l, r, n)
  BY <1>2, <1>4, <1>5
<1>8. ASSUME l[2] + n <= Size(l), r[2] + n <= Size(r), Agree(l, r, n) PROVE FALSE
  <2>1. ASSUME NEW d \in 0..(n + 1) - 1 PROVE Agree(l, r, d)
    <3>1. d = n \/ d \in 0..n - 1
      BY <1>7, <2>1
    <3>2. QED
      BY <1>7, <1>8, <3>1, AgreeingIs
  <2>2. l[2] + (n + 1) - 1 <= Size(l) /\ r[2] + (n + 1) - 1 <= Size(r)
    BY <1>1, <1>7, <1>8
  <2>3. Clones!Agreeing(l, r, n + 1)
    BY <1>7, <2>1, <2>2, AgreeingIs
  <2>4. QED
    BY <1>2, <1>5, <1>7, <2>3
<1>9. QED
  BY <1>2, <1>5, <1>6, <1>7, <1>8

(* A pair is extended to where it agrees: from Start on, up to before Stop. *)
Start(l, r) == l[2] - Clones!Earlier(l, r)
Stop(l, r) == l[2] + Clones!Later(l, r)
Along(l, r, i) == Agree(l, r, i - l[2])

LEMMA ExtensionIs ==
  ASSUME tokens \in CloneSources, NEW l \in Clones!Place, NEW r \in Clones!Place
  PROVE  LET x == Clones!Extension(l, r)
             a == Start(l, r)
             e == Stop(l, r)
             s == r[2] - l[2]
         IN  /\ x = [first |-> <<l[1], a>>, second |-> <<r[1], a + s>>, size |-> e - a]
             /\ a \in Nat \ {0} /\ e \in Nat /\ s \in Int /\ a + s \in Nat \ {0}
             /\ a <= l[2] /\ l[2] <= e /\ e <= Size(l) + 1 /\ e + s <= Size(r) + 1
             /\ \A i \in a..e - 1 : Along(l, r, i)
             /\ a > 1 /\ a + s > 1 => ~Along(l, r, a - 1)
             /\ e <= Size(l) /\ e + s <= Size(r) => ~Along(l, r, e)
<1> DEFINE b == Clones!Earlier(l, r)
           n == Clones!Later(l, r)
           a == Start(l, r)
           e == Stop(l, r)
           s == r[2] - l[2]
<1>1. /\ l[2] \in Nat \ {0} /\ r[2] \in Nat \ {0} /\ Size(l) \in Nat /\ Size(r) \in Nat
  BY PlaceIs, FilesAre DEF Size, Spot
<1>2. /\ b \in Nat /\ b < l[2] /\ b < r[2]
      /\ \A d \in -b..-1 : Agree(l, r, d)
      /\ b + 1 < l[2] /\ b + 1 < r[2] => ~Agree(l, r, -b - 1)
  BY EarlierIs
<1>3. /\ n \in Nat /\ l[2] + n - 1 <= Size(l) /\ r[2] + n - 1 <= Size(r)
      /\ \A d \in 0..n - 1 : Agree(l, r, d)
      /\ l[2] + n <= Size(l) /\ r[2] + n <= Size(r) => ~Agree(l, r, n)
  BY LaterIs, AgreeingIs
<1> HIDE DEF b, n
<1>4. a = l[2] - b /\ e = l[2] + n
  BY DEF Start, Stop, b, n
<1>5. Clones!Extension(l, r) = [first |-> <<l[1], l[2] - b>>, second |-> <<r[1], r[2] - b>>, size |-> b + n]
  BY DEF Clones!Extension, b, n
<1>6. l[2] - b = a /\ r[2] - b = a + s /\ b + n = e - a
  BY <1>1, <1>2, <1>3, <1>4
<1>7. \A i \in a..e - 1 : Along(l, r, i)
  <2>1. ASSUME NEW i \in a..e - 1 PROVE Agree(l, r, i - l[2])
    <3>1. i - l[2] \in -b..-1 \/ i - l[2] \in 0..n - 1
      BY <1>1, <1>2, <1>3, <1>4, <2>1
    <3>2. QED
      BY <1>2, <1>3, <3>1
  <2>2. QED
    BY <2>1 DEF Along
<1>8. a > 1 /\ a + s > 1 => ~Along(l, r, a - 1)
  <2>1. (a - 1) - l[2] = -b - 1 /\ (a > 1 <=> b + 1 < l[2]) /\ (a + s > 1 <=> b + 1 < r[2])
    BY <1>1, <1>2, <1>4
  <2>2. QED
    BY <1>2, <2>1 DEF Along
<1>9. e <= Size(l) /\ e + s <= Size(r) => ~Along(l, r, e)
  <2>1. e - l[2] = n /\ e + s = r[2] + n
    BY <1>1, <1>3, <1>4
  <2>2. QED
    BY <1>3, <1>4, <2>1 DEF Along
<1>10. /\ a \in Nat \ {0} /\ e \in Nat /\ s \in Int /\ a + s \in Nat \ {0}
       /\ a <= l[2] /\ l[2] <= e /\ e <= Size(l) + 1 /\ e + s <= Size(r) + 1
  BY <1>1, <1>2, <1>3, <1>4
<1>11. QED
  BY <1>5, <1>6, <1>7, <1>8, <1>9, <1>10

(* Every pair of a diagonal in between is extended to the same.            *)
LEMMA SameExtension ==
  ASSUME tokens \in CloneSources, NEW l \in Clones!Place, NEW r \in Clones!Place,
         NEW m \in Clones!Place, NEW q \in Clones!Place,
         m[1] = l[1], q[1] = r[1], q[2] - m[2] = r[2] - l[2],
         Start(l, r) <= m[2], m[2] < Stop(l, r)
  PROVE  Clones!Extension(m, q) = Clones!Extension(l, r)
<1> DEFINE a == Start(l, r)
           e == Stop(l, r)
           b == Start(m, q)
           f == Stop(m, q)
           s == r[2] - l[2]
<1>1. /\ l[2] \in Nat \ {0} /\ r[2] \in Nat \ {0} /\ m[2] \in Nat \ {0} /\ q[2] \in Nat \ {0}
      /\ Size(l) \in Nat /\ Size(r) \in Nat /\ Size(m) = Size(l) /\ Size(q) = Size(r)
  BY PlaceIs, FilesAre DEF Size, Spot
<1>2. ASSUME NEW i \in Int PROVE Along(l, r, i) <=> Along(m, q, i)
  <2>1. /\ l[2] + (i - l[2]) = i /\ m[2] + (i - m[2]) = i
        /\ r[2] + (i - l[2]) = i + s /\ q[2] + (i - m[2]) = i + s
    BY <1>1
  <2>2. QED
    BY <2>1 DEF Along, Agree, TokenAt
<1>3. /\ Clones!Extension(l, r) = [first |-> <<l[1], a>>, second |-> <<r[1], a + s>>, size |-> e - a]
      /\ a \in Nat \ {0} /\ e \in Nat /\ s \in Int /\ a + s \in Nat \ {0}
      /\ e <= Size(l) + 1 /\ e + s <= Size(r) + 1
      /\ \A i \in a..e - 1 : Along(l, r, i)
      /\ a > 1 /\ a + s > 1 => ~Along(l, r, a - 1)
      /\ e <= Size(l) /\ e + s <= Size(r) => ~Along(l, r, e)
  BY ExtensionIs
<1>4. /\ Clones!Extension(m, q) = [first |-> <<l[1], b>>, second |-> <<r[1], b + s>>, size |-> f - b]
      /\ b \in Nat \ {0} /\ f \in Nat /\ b + s \in Nat \ {0} /\ b <= m[2] /\ m[2] <= f
      /\ f <= Size(l) + 1 /\ f + s <= Size(r) + 1
      /\ \A i \in b..f - 1 : Along(l, r, i)
      /\ b > 1 /\ b + s > 1 => ~Along(l, r, b - 1)
      /\ f <= Size(l) /\ f + s <= Size(r) => ~Along(l, r, f)
  <2>1. LET x == Clones!Extension(m, q)
            t == q[2] - m[2]
        IN  /\ x = [first |-> <<m[1], b>>, second |-> <<q[1], b + t>>, size |-> f - b]
            /\ b \in Nat \ {0} /\ f \in Nat /\ b + t \in Nat \ {0} /\ b <= m[2] /\ m[2] <= f
            /\ f <= Size(m) + 1 /\ f + t <= Size(q) + 1
            /\ \A i \in b..f - 1 : Along(m, q, i)
            /\ b > 1 /\ b + t > 1 => ~Along(m, q, b - 1)
            /\ f <= Size(m) /\ f + t <= Size(q) => ~Along(m, q, f)
    BY ExtensionIs
  <2>2. /\ \A i \in b..f - 1 : Along(m, q, i) <=> Along(l, r, i)
        /\ Along(m, q, b - 1) <=> Along(l, r, b - 1)
        /\ Along(m, q, f) <=> Along(l, r, f)
    BY <1>2, <2>1
  <2>3. QED
    BY <1>1, <2>1, <2>2
<1> HIDE DEF a, e, b, f, s
<1>5. m[2] \in Nat /\ a <= m[2] /\ m[2] < e
  BY <1>1 DEF a, e
<1>6. ~(a < b)
  <2>1. a < b => b - 1 \in a..e - 1 /\ b > 1 /\ b + s > 1
    BY <1>3, <1>4, <1>5
  <2>2. QED
    BY <1>3, <1>4, <2>1
<1>7. ~(b < a)
  <2>1. b < a => a - 1 \in b..f - 1 /\ a > 1 /\ a + s > 1
    BY <1>3, <1>4, <1>5
  <2>2. QED
    BY <1>3, <1>4, <2>1
<1>8. ~(e < f)
  <2>1. e < f => e \in b..f - 1 /\ e <= Size(l) /\ e + s <= Size(r)
    BY <1>1, <1>3, <1>4, <1>5
  <2>2. QED
    BY <1>3, <1>4, <2>1
<1>9. ~(f < e)
  <2>1. f < e => f \in a..e - 1 /\ f <= Size(l) /\ f + s <= Size(r)
    BY <1>1, <1>3, <1>4, <1>5
  <2>2. QED
    BY <1>3, <1>4, <2>1
<1>10. a = b /\ e = f
  BY <1>3, <1>4, <1>6, <1>7, <1>8, <1>9
<1>11. QED
  BY <1>3, <1>4, <1>10

-----------------------------------------------------------------------------
(* Regions are found for all pairs, and considered in groups.              *)
Matching(l, r) ==
  l \in Clones!Place /\ r \in Clones!Place /\ Clones!Before(l, r) /\ Clones!Agreeing(l, r, MinTokens)
Region(x) ==
  \E l, r \in Clones!Place : Matching(l, r) /\ x = Clones!Extension(l, r) /\ ~Clones!Overlapping(x)
Key(l) == WindowFingerprint[Clones!Text(l, MinTokens)]
Eligible(l, r) ==
  /\ l \in Clones!Window /\ r \in Clones!Window
  /\ Clones!Before(l, r) /\ Clones!Agreeing(l, r, MinTokens)
  /\ l \in Clones!Occurrences(Key(l)) /\ r \in Clones!Occurrences(Key(l))
  /\ ~Clones!Overlapping(Clones!Extension(l, r))
ExtendedFrom(e, l, r) ==
  /\ Matching(l, r) /\ e.diagonal = Clones!Diagonal(l, r)
  /\ Start(l, r) <= e.start /\ e.start < Stop(l, r)
  /\ Clones!Overlapping(Clones!Extension(l, r)) \/ Clones!Extension(l, r) \in regions

Found ==
  /\ pairs \subseteq Clones!Place \X Clones!Place /\ \A p \in pairs : Clones!Before(p[1], p[2])
  /\ IsFiniteSet(regions) /\ \A x \in regions : Region(x)
  /\ \A e \in extended : \E l, r \in Clones!Place : ExtendedFrom(e, l, r)
  /\ \A l, r \in Clones!Place : Eligible(l, r) =>
        Key(l) \in buckets \/ <<l, r>> \in pairs \/ Clones!Extension(l, r) \in regions
Considered ==
  /\ \A g \in groups \cup selected : \E x \in Clones!Candidates : g = Clones!GroupOf(x)
  /\ \A x \in Clones!Candidates : Clones!GroupOf(x) \in groups \/ Clones!Touched(x)
ClonesInv ==
  /\ tokens \in CloneSources /\ turn \in {"match", "select", "done"}
  /\ Found
  /\ turn = "match" => selected = {}
  /\ turn # "match" => buckets = {} /\ pairs = {} /\ Considered
  /\ turn = "done" => groups = {}

LEMMA RegionIs ==
  ASSUME tokens \in CloneSources, NEW l, NEW r, Matching(l, r)
  PROVE  LET x == Clones!Extension(l, r)
         IN  /\ x = [first |-> x.first, second |-> x.second, size |-> x.size]
             /\ x.first \in Clones!Place /\ x.second \in Clones!Place
             /\ x.size \in Nat /\ MinTokens <= x.size
             /\ Clones!Agreeing(x.first, x.second, x.size)
             /\ Clones!Within(l, MinTokens, x.first, x.size)
             /\ Clones!Within(r, MinTokens, x.second, x.size)
             /\ x.first[2] = Start(l, r) /\ x.first[2] + x.size = Stop(l, r)
<1> DEFINE x == Clones!Extension(l, r)
           a == Start(l, r)
           e == Stop(l, r)
           s == r[2] - l[2]
           p == <<l[1], a>>
           q == <<r[1], a + s>>
<1>1. l \in Clones!Place /\ r \in Clones!Place /\ Clones!Agreeing(l, r, MinTokens) /\ MinTokens \in Nat \ {0}
  BY ClonesAssumption DEF Matching
<1>2. /\ x = [first |-> p, second |-> q, size |-> e - a]
      /\ a \in Nat \ {0} /\ e \in Nat /\ s \in Int /\ a + s \in Nat \ {0}
      /\ a <= l[2] /\ l[2] <= e /\ e <= Size(l) + 1 /\ e + s <= Size(r) + 1
      /\ \A i \in a..e - 1 : Along(l, r, i)
  BY <1>1, ExtensionIs
<1>3. /\ l[2] \in Nat \ {0} /\ r[2] \in Nat \ {0} /\ Size(l) \in Nat /\ Size(r) \in Nat
      /\ l[1] \in DOMAIN tokens /\ r[1] \in DOMAIN tokens
  BY <1>1, PlaceIs, FilesAre DEF Size, Spot
<1>4. l[2] + MinTokens <= e
  <2>1. MinTokens <= Clones!Later(l, r) /\ Clones!Later(l, r) \in Nat
    BY <1>1, LaterIs
  <2>2. QED
    BY <1>1, <1>3, <2>1 DEF Stop
<1> HIDE DEF a, e, s, x
<1>5. e - a \in Nat /\ MinTokens <= e - a
  BY <1>1, <1>2, <1>3, <1>4
<1>6. p \in Clones!Place /\ q \in Clones!Place
  <2>1. Spot(p) /\ Spot(q)
    BY <1>2, <1>3 DEF Spot
  <2>2. a <= Size(l) /\ a + s <= Size(r)
    BY <1>1, <1>2, <1>3, <1>5
  <2>3. QED
    BY <2>1, <2>2, PlaceIs DEF Size
<1>7. Clones!Agreeing(p, q, e - a)
  <2>1. ASSUME NEW d \in 0..(e - a) - 1 PROVE Agree(p, q, d)
    <3>1. Along(l, r, a + d)
      BY <1>2, <2>1
    <3>2. l[2] + ((a + d) - l[2]) = a + d /\ r[2] + ((a + d) - l[2]) = (a + s) + d
      BY <1>2, <1>3, <2>1 DEF s
    <3>3. QED
      BY <3>1, <3>2 DEF Along, Agree, TokenAt
  <2>2. a + (e - a) - 1 <= Size(p) /\ (a + s) + (e - a) - 1 <= Size(q)
    BY <1>2, <1>3 DEF Size
  <2>3. QED
    BY <1>5, <1>6, <2>1, <2>2, AgreeingIs
<1>8. Clones!Within(l, MinTokens, p, e - a) /\ Clones!Within(r, MinTokens, q, e - a)
  <2>1. a + s <= r[2] /\ r[2] + MinTokens <= (a + s) + (e - a) /\ l[2] + MinTokens <= a + (e - a)
    BY <1>1, <1>2, <1>3, <1>4 DEF s
  <2>2. QED
    BY <1>2, <2>1 DEF Clones!Within
<1>9. a + (e - a) = e
  BY <1>2
<1>10. QED
  BY <1>2, <1>5, <1>6, <1>7, <1>8, <1>9 DEF x, a, e

LEMMA SameDiagonal ==
  ASSUME tokens \in CloneSources, NEW l \in Clones!Place, NEW r \in Clones!Place,
         NEW m \in Clones!Place, NEW q \in Clones!Place,
         Clones!Diagonal(m, q) = Clones!Diagonal(l, r)
  PROVE  m[1] = l[1] /\ q[1] = r[1] /\ q[2] - m[2] = r[2] - l[2]
<1>1. /\ l[2] \in Nat /\ r[2] \in Nat /\ m[2] \in Nat /\ q[2] \in Nat
  BY PlaceIs DEF Spot
<1>2. /\ m[1] = l[1] /\ q[1] = r[1] /\ (m[2] <= q[2]) = (l[2] <= r[2])
      /\ (IF m[2] <= q[2] THEN q[2] - m[2] ELSE m[2] - q[2]) = (IF l[2] <= r[2] THEN r[2] - l[2] ELSE l[2] - r[2])
  BY DEF Clones!Diagonal
<1>3. QED
  BY <1>1, <1>2

LEMMA LeastPlace ==
  ASSUME NEW S, S # {}, \A p \in S : p[1] \in Nat /\ p[2] \in Nat /\ p = <<p[1], p[2]>>
  PROVE  \E p \in S : \A q \in S \ {p} : Clones!Before(p, q)
<1>1. PICK f \in {p[1] : p \in S} : \A g \in {p[1] : p \in S} : f <= g
  <2>1. {p[1] : p \in S} \in SUBSET Nat /\ {p[1] : p \in S} # {}
    OBVIOUS
  <2>2. QED
    BY <2>1, LeastIsThere
<1>2. PICK i \in {p[2] : p \in {q \in S : q[1] = f}} : \A j \in {p[2] : p \in {q \in S : q[1] = f}} : i <= j
  <2>1. {p[2] : p \in {q \in S : q[1] = f}} \in SUBSET Nat /\ {p[2] : p \in {q \in S : q[1] = f}} # {}
    BY <1>1
  <2>2. QED
    BY <2>1, LeastIsThere
<1>3. PICK p \in S : p[1] = f /\ p[2] = i
  BY <1>2
<1>4. ASSUME NEW q \in S \ {p} PROVE Clones!Before(p, q)
  <2>1. f <= q[1] /\ (q[1] = f => i <= q[2]) /\ (q[1] = f => q[2] # i)
    BY <1>1, <1>2, <1>3
  <2>2. f \in Nat /\ i \in Nat /\ q[1] \in Nat /\ q[2] \in Nat
    BY <1>3
  <2>3. QED
    BY <1>3, <2>1, <2>2 DEF Clones!Before
<1>5. QED
  BY <1>4

LEMMA PlacesAre ==
  ASSUME tokens \in CloneSources, NEW S \in SUBSET Clones!Place
  PROVE  \A p \in S : p[1] \in Nat /\ p[2] \in Nat /\ p = <<p[1], p[2]>>
BY PlaceIs, FilesAre DEF Spot

LEMMA NextPair ==
  ASSUME tokens \in CloneSources, pairs \subseteq Clones!Place \X Clones!Place, pairs # {}
  PROVE  Clones!Least(pairs, Clones!InTurn) \in pairs
<1> DEFINE Lefts == {p[1] : p \in pairs}
<1>1. Lefts \in SUBSET Clones!Place /\ Lefts # {}
  OBVIOUS
<1>2. PICK l \in Lefts : \A m \in Lefts \ {l} : Clones!Before(l, m)
  BY <1>1, LeastPlace, PlacesAre
<1> DEFINE Rights == {p[2] : p \in {q \in pairs : q[1] = l}}
<1>3. Rights \in SUBSET Clones!Place /\ Rights # {}
  BY <1>2
<1>4. PICK r \in Rights : \A m \in Rights \ {r} : Clones!Before(r, m)
  <2>1. \A p \in Rights : p[1] \in Nat /\ p[2] \in Nat /\ p = <<p[1], p[2]>>
    BY <1>3, PlacesAre
  <2> HIDE DEF Rights
  <2>2. QED
    BY <1>3, <2>1, LeastPlace
<1>5. PICK p \in pairs : p[1] = l /\ p[2] = r
  BY <1>4
<1>6. ASSUME NEW q \in pairs \ {p} PROVE Clones!InTurn(p, q)
  <2>1. CASE q[1] # l
    BY <1>2, <1>5, <2>1 DEF Clones!InTurn
  <2>2. CASE q[1] = l
    <3>1. p = <<p[1], p[2]>> /\ q = <<q[1], q[2]>>
      OBVIOUS
    <3>2. q[2] \in Rights \ {r}
      BY <1>5, <1>6, <2>2, <3>1
    <3>3. QED
      BY <1>4, <1>5, <2>2, <3>2 DEF Clones!InTurn
  <2>3. QED
    BY <2>1, <2>2
<1>7. QED
  BY <1>6 DEF Clones!Least

LEMMA GroupIs ==
  ASSUME tokens \in CloneSources, Found, NEW x \in Clones!Candidates
  PROVE  LET g == Clones!GroupOf(x)
         IN  /\ g = [size |-> x.size, locations |-> g.locations] /\ g.size = x.size
             /\ x \in regions /\ x.size \in Nat /\ MinTokens <= x.size
             /\ x.first \in g.locations /\ x.second \in g.locations /\ x.first # x.second
             /\ g.locations \subseteq Clones!Place /\ IsFiniteSet(g.locations)
             /\ \A p \in g.locations :
                  Clones!Fits(p, x.size) /\ Clones!Text(p, x.size) = Clones!Text(x.first, x.size)
<1> DEFINE g == Clones!GroupOf(x)
           Alike == {y \in Clones!Candidates : Clones!Text(y.first, y.size) = Clones!Text(x.first, x.size)}
<1>1. Clones!Candidates \subseteq regions
  BY DEF Clones!Candidates
<1>2. ASSUME NEW y \in Clones!Candidates
      PROVE  /\ y.first \in Clones!Place /\ y.second \in Clones!Place /\ y.first # y.second
             /\ y.size \in Nat /\ MinTokens <= y.size
             /\ Clones!Agreeing(y.first, y.second, y.size)
             /\ Len(Clones!Text(y.first, y.size)) = y.size
  <2>1. PICK l \in Clones!Place, r \in Clones!Place :
          Matching(l, r) /\ y = Clones!Extension(l, r) /\ ~Clones!Overlapping(y)
    BY <1>1, <1>2 DEF Found, Region
  <2>2. /\ y.first \in Clones!Place /\ y.second \in Clones!Place
        /\ y.size \in Nat /\ MinTokens <= y.size
        /\ Clones!Agreeing(y.first, y.second, y.size)
    BY <2>1, RegionIs
  <2>3. Spot(y.first) /\ Clones!Fits(y.first, y.size)
    BY <2>2, PlaceIs DEF Clones!Agreeing
  <2>4. y.first # y.second
    BY <2>1, <2>2, <2>3, ClonesAssumption DEF Clones!Overlapping, Spot
  <2>5. QED
    BY <2>2, <2>3, <2>4, TextIs
<1>3. g = [size |-> x.size, locations |-> UNION {{y.first, y.second} : y \in Alike}]
  BY DEF Clones!GroupOf
<1>4. ASSUME NEW y \in Alike, NEW p \in {y.first, y.second}
      PROVE  p \in Clones!Place /\ Clones!Fits(p, x.size) /\ Clones!Text(p, x.size) = Clones!Text(x.first, x.size)
  <2>1. y.size = x.size
    BY <1>2
  <2>2. QED
    BY <1>2, <1>4, <2>1 DEF Clones!Agreeing
<1>5. IsFiniteSet(g.locations)
  <2> DEFINE F == {y.first : y \in Alike}
             S == {y.second : y \in Alike}
             f == [y \in Alike |-> y.first]
             s == [y \in Alike |-> y.second]
  <2>1. IsFiniteSet(Alike)
    BY <1>1, FS_Subset DEF Found
  <2>2. F = {f[y] : y \in DOMAIN f} /\ S = {s[y] : y \in DOMAIN s}
    OBVIOUS
  <2>3. IsFiniteSet(F) /\ IsFiniteSet(S)
    BY <2>1, <2>2, ImageIsFinite
  <2>4. g.locations = F \cup S
    BY <1>3
  <2>5. QED
    BY <2>3, <2>4, FS_Union
<1>6. x \in Alike
  OBVIOUS
<1>7. QED
  BY <1>1, <1>2, <1>3, <1>4, <1>5, <1>6

LEMMA SameGroup ==
  ASSUME tokens \in CloneSources, Found, NEW x \in Clones!Candidates, NEW y \in Clones!Candidates,
         x.size = y.size, NEW p \in Clones!GroupOf(x).locations, p \in Clones!GroupOf(y).locations
  PROVE  Clones!GroupOf(x) = Clones!GroupOf(y)
<1>1. Clones!Text(x.first, x.size) = Clones!Text(y.first, y.size)
  BY GroupIs
<1>2. QED
  BY <1>1 DEF Clones!GroupOf

LEMMA NextGroup ==
  ASSUME tokens \in CloneSources, Found, groups # {},
         \A g \in groups : \E x \in Clones!Candidates : g = Clones!GroupOf(x)
  PROVE  Clones!Least(groups, Clones!InOrder) \in groups
<1> DEFINE Sizes == {g.size : g \in groups}
<1>1. ASSUME NEW g \in groups
      PROVE  /\ g.size \in Nat /\ g.size \in {x.size : x \in regions}
             /\ Clones!Head1(g) \in g.locations /\ Clones!Head1(g) \in Clones!Place
  <2>1. PICK x \in Clones!Candidates : g = Clones!GroupOf(x)
    BY <1>1
  <2>2. g.size = x.size /\ x \in regions /\ x.size \in Nat /\ g.locations # {} /\ g.locations \in SUBSET Clones!Place
    BY <2>1, GroupIs
  <2>3. \E p \in g.locations : \A q \in g.locations \ {p} : Clones!Before(p, q)
    BY <2>2, LeastPlace, PlacesAre
  <2>4. Clones!Head1(g) \in g.locations
    BY <2>3 DEF Clones!Head1, Clones!Least
  <2>5. QED
    BY <2>2, <2>4
<1>2. IsFiniteSet(Sizes)
  <2> DEFINE f == [x \in regions |-> x.size]
  <2>1. IsFiniteSet({f[x] : x \in DOMAIN f})
    BY ImageIsFinite DEF Found
  <2>2. Sizes \in SUBSET {f[x] : x \in DOMAIN f}
    BY <1>1
  <2>3. QED
    BY <2>1, <2>2, FS_Subset
<1>3. PICK n \in Sizes : \A m \in Sizes : m <= n
  <2>1. Sizes \in SUBSET Nat /\ Sizes # {}
    BY <1>1
  <2>2. QED
    BY <1>2, <2>1, GreatestIsThere
<1> DEFINE Longest == {g \in groups : g.size = n}
           Heads == {Clones!Head1(g) : g \in Longest}
<1>4. PICK p \in Heads : \A q \in Heads \ {p} : Clones!Before(p, q)
  <2>1. Heads \in SUBSET Clones!Place /\ Heads # {}
    BY <1>1, <1>3
  <2>2. QED
    BY <2>1, LeastPlace, PlacesAre
<1>5. PICK g \in groups : g.size = n /\ Clones!Head1(g) = p
  BY <1>4
<1>6. ASSUME NEW h \in groups \ {g} PROVE Clones!InOrder(g, h)
  <2>1. n \in Nat /\ h.size \in Nat /\ h.size <= n
    BY <1>1, <1>3
  <2>2. CASE h.size < n
    BY <1>5, <2>1, <2>2 DEF Clones!InOrder
  <2>3. CASE h.size = n
    <3>1. Clones!Head1(h) \in Heads
      BY <1>6, <2>3
    <3>2. Clones!Head1(h) # p
      <4>1. SUFFICES ASSUME Clones!Head1(h) = p PROVE FALSE
        OBVIOUS
      <4>2. PICK x \in Clones!Candidates : g = Clones!GroupOf(x)
        OBVIOUS
      <4>3. PICK y \in Clones!Candidates : h = Clones!GroupOf(y)
        BY <1>6
      <4>4. x.size = y.size /\ p \in g.locations /\ p \in h.locations
        BY <1>1, <1>5, <1>6, <2>3, <4>1, <4>2, <4>3, GroupIs
      <4>5. QED
        BY <1>6, <4>2, <4>3, <4>4, SameGroup
    <3>3. QED
      BY <1>4, <1>5, <2>3, <3>1, <3>2 DEF Clones!InOrder
  <2>4. QED
    BY <2>1, <2>2, <2>3
<1>7. QED
  BY <1>6 DEF Clones!Least

-----------------------------------------------------------------------------
(* The invariant holds. *)
LEMMA ClonesStay ==
  ASSUME UNCHANGED <<tokens, cap>>
  PROVE  /\ Clones!Place' = Clones!Place
         /\ \A l, r : Clones!Extension(l, r)' = Clones!Extension(l, r)
         /\ \A l, r : Start(l, r)' = Start(l, r) /\ Stop(l, r)' = Stop(l, r)
         /\ \A l, r : (Matching(l, r)' <=> Matching(l, r)) /\ (Eligible(l, r)' <=> Eligible(l, r))
         /\ \A l : Key(l)' = Key(l)
         /\ \A x : Region(x)' <=> Region(x)
         /\ \A x, n, g : Clones!Text(x, n)' = Clones!Text(x, n)
<1>1. /\ Clones!Place' = Clones!Place
      /\ \A p, n : Clones!Text(p, n)' = Clones!Text(p, n) /\ (Clones!Fits(p, n)' <=> Clones!Fits(p, n))
  BY DEF Clones!Place, Clones!Text, Clones!Fits
<1>2. \A l, r : Clones!Earlier(l, r)' = Clones!Earlier(l, r) /\ Clones!Later(l, r)' = Clones!Later(l, r)
  BY DEF Clones!Earlier, Clones!Later, Clones!Agreeing, Clones!Text, Clones!Fits
<1>3. \A l, r : Clones!Extension(l, r)' = Clones!Extension(l, r)
  BY <1>2 DEF Clones!Extension
<1>4. \A l, r : Start(l, r)' = Start(l, r) /\ Stop(l, r)' = Stop(l, r)
  BY <1>2 DEF Start, Stop
<1>5. \A l, r : Matching(l, r)' <=> Matching(l, r)
  BY <1>1 DEF Matching, Clones!Agreeing, Clones!Before
<1>6. \A l : Key(l)' = Key(l)
  BY <1>1 DEF Key
<1>7. Clones!Window' = Clones!Window /\ \A k : Clones!Occurrences(k)' = Clones!Occurrences(k)
  BY DEF Clones!Window, Clones!Occurrences, Clones!Place, Clones!Text, Clones!Fits, Clones!Before
<1>8. \A l, r : Eligible(l, r)' <=> Eligible(l, r)
  BY <1>1, <1>3, <1>6, <1>7 DEF Eligible, Clones!Agreeing, Clones!Before, Clones!Overlapping
<1>9. \A x : Region(x)' <=> Region(x)
  BY <1>1, <1>3, <1>5 DEF Region, Clones!Overlapping
<1>10. QED
  BY <1>1, <1>3, <1>4, <1>5, <1>6, <1>8, <1>9

LEMMA ClonesBegin == Clones!Init => ClonesInv
<1> SUFFICES ASSUME Clones!Init PROVE ClonesInv
  OBVIOUS
<1>1. ASSUME NEW l, NEW r, Eligible(l, r) PROVE Key(l) \in buckets
  BY <1>1 DEF Eligible, Key, Clones!Init
<1>2. IsFiniteSet(regions)
  BY FS_EmptySet DEF Clones!Init
<1>3. QED
  BY <1>1, <1>2 DEF Clones!Init, ClonesInv, Found

LEMMA OpenBucketStep == ClonesInv /\ Clones!OpenBucket => ClonesInv'
<1> SUFFICES ASSUME ClonesInv, Clones!OpenBucket PROVE ClonesInv'
  OBVIOUS
<1>1. PICK key \in buckets : buckets' = buckets \ {key} /\ pairs' = Clones!PairsOf(key)
  BY DEF Clones!OpenBucket
<1>2. /\ UNCHANGED <<tokens, cap, extended, regions, groups, selected, turn>>
      /\ turn = "match" /\ pairs = {}
  BY DEF Clones!OpenBucket
<1>3. pairs' \subseteq Clones!Place \X Clones!Place /\ \A p \in pairs' : Clones!Before(p[1], p[2])
  BY <1>1 DEF Clones!PairsOf, Clones!Occurrences, Clones!Window
<1>4. ASSUME NEW l, NEW r, Eligible(l, r), Key(l) = key PROVE <<l, r>> \in pairs'
  BY <1>1, <1>4 DEF Eligible, Clones!PairsOf
<1>5. \A e, l, r : ExtendedFrom(e, l, r)' <=> ExtendedFrom(e, l, r)
  BY <1>2, ClonesStay DEF ExtendedFrom, Clones!Diagonal, Clones!Overlapping
<1>6. Found'
  BY <1>1, <1>2, <1>3, <1>4, <1>5, ClonesStay DEF ClonesInv, Found
<1>7. QED
  BY <1>2, <1>6 DEF ClonesInv

LEMMA ExtendedBecomes ==
  ASSUME UNCHANGED <<tokens, cap>>, NEW e, NEW l, NEW r,
         Matching(l, r), e.diagonal = Clones!Diagonal(l, r),
         Start(l, r) <= e.start, e.start < Stop(l, r),
         Clones!Overlapping(Clones!Extension(l, r)) \/ Clones!Extension(l, r) \in regions'
  PROVE  ExtendedFrom(e, l, r)'
<1>1. /\ Matching(l, r)' <=> Matching(l, r)
      /\ Start(l, r)' = Start(l, r) /\ Stop(l, r)' = Stop(l, r)
      /\ Clones!Extension(l, r)' = Clones!Extension(l, r)
  BY ClonesStay
<1>2. Clones!Diagonal(l, r)' = Clones!Diagonal(l, r)
  BY DEF Clones!Diagonal
<1>3. Clones!Overlapping(Clones!Extension(l, r))' <=> Clones!Overlapping(Clones!Extension(l, r))
  BY <1>1 DEF Clones!Overlapping
<1>4. QED
  BY <1>1, <1>2, <1>3 DEF ExtendedFrom

LEMMA ProcessPairStep == ClonesInv /\ Clones!ProcessPair => ClonesInv'
<1> SUFFICES ASSUME ClonesInv, Clones!ProcessPair PROVE ClonesInv'
  OBVIOUS
<1> DEFINE pair == Clones!Least(pairs, Clones!InTurn)
           l == pair[1]
           r == pair[2]
           x == Clones!Extension(l, r)
           known == [diagonal |-> Clones!Diagonal(l, r), start |-> l[2]] \in extended
           fresh == {[diagonal |-> Clones!Diagonal(l, r), start |-> i] :
                       i \in x.first[2]..x.first[2] + x.size - MinTokens}
<1>1. /\ UNCHANGED <<tokens, cap, buckets, groups, selected, turn>> /\ turn = "match" /\ pairs # {}
      /\ pairs' = pairs \ {pair}
      /\ known \/ ~Clones!Agreeing(l, r, MinTokens) => UNCHANGED <<extended, regions>>
      /\ ~known /\ Clones!Agreeing(l, r, MinTokens) =>
            /\ extended' = extended \cup fresh
            /\ regions' = IF Clones!Overlapping(x) THEN regions ELSE regions \cup {x}
  BY DEF Clones!ProcessPair
<1>2. pair \in pairs /\ pair = <<l, r>> /\ l \in Clones!Place /\ r \in Clones!Place
  <2>1. pair \in pairs
    BY <1>1, NextPair DEF ClonesInv, Found
  <2>2. pair \in Clones!Place \X Clones!Place
    BY <2>1 DEF ClonesInv, Found
  <2>3. QED
    BY <2>1, <2>2
<1> HIDE DEF pair
<1>3. regions \subseteq regions'
  BY <1>1
<1>4. Clones!Before(l, r)
  BY <1>2 DEF ClonesInv, Found
<1>5. ASSUME Eligible(l, r) PROVE x \in regions'
  <2>1. Clones!Agreeing(l, r, MinTokens) /\ ~Clones!Overlapping(x)
    BY <1>5 DEF Eligible
  <2>2. CASE ~known
    BY <1>1, <2>1, <2>2
  <2>3. CASE known
    <3> DEFINE e == [diagonal |-> Clones!Diagonal(l, r), start |-> l[2]]
    <3>1. PICK m \in Clones!Place, q \in Clones!Place : ExtendedFrom(e, m, q)
      BY <2>3 DEF ClonesInv, Found
    <3>2. Clones!Diagonal(l, r) = Clones!Diagonal(m, q) /\ Start(m, q) <= l[2] /\ l[2] < Stop(m, q)
      BY <3>1 DEF ExtendedFrom
    <3>3. l[1] = m[1] /\ r[1] = q[1] /\ r[2] - l[2] = q[2] - m[2]
      BY <1>2, <3>2, SameDiagonal DEF ClonesInv
    <3>4. x = Clones!Extension(m, q)
      BY <1>2, <3>2, <3>3, SameExtension DEF ClonesInv
    <3>5. QED
      BY <1>3, <2>1, <3>1, <3>4 DEF ExtendedFrom
  <2>4. QED
    BY <2>2, <2>3
<1>6. /\ IsFiniteSet(regions') /\ \A y \in regions' : Region(y)
      /\ \A e \in extended' : \E m, q \in Clones!Place : ExtendedFrom(e, m, q)'
  <2>1. \A e, m, q : ExtendedFrom(e, m, q) => ExtendedFrom(e, m, q)'
    BY <1>1, <1>3, ClonesStay DEF ExtendedFrom, Clones!Diagonal, Clones!Overlapping
  <2>2. CASE known \/ ~Clones!Agreeing(l, r, MinTokens)
    BY <1>1, <2>1, <2>2 DEF ClonesInv, Found
  <2>3. CASE ~known /\ Clones!Agreeing(l, r, MinTokens)
    <3>1. Matching(l, r)
      BY <1>2, <1>4, <2>3 DEF Matching
    <3>2. ~Clones!Overlapping(x) => Region(x)
      BY <1>2, <3>1 DEF Region
    <3>3. IsFiniteSet(regions \cup {x})
      BY FS_AddElement DEF ClonesInv, Found
    <3>4. /\ x.first[2] = Start(l, r) /\ x.first[2] + x.size = Stop(l, r) /\ x.size \in Nat
          /\ x.first[2] \in Nat /\ MinTokens \in Nat \ {0}
      BY <3>1, RegionIs, PlaceIs, ClonesAssumption DEF ClonesInv, Spot
    <3> PICK a \in Clones!Place, b \in Clones!Place : a = l /\ b = r
      BY <1>2
    <3>5. ASSUME NEW e \in fresh PROVE ExtendedFrom(e, a, b)'
      <4>1. PICK i \in x.first[2]..x.first[2] + x.size - MinTokens :
              e = [diagonal |-> Clones!Diagonal(l, r), start |-> i]
        BY <3>5
      <4>2. Start(l, r) <= e.start /\ e.start < Stop(l, r) /\ e.diagonal = Clones!Diagonal(l, r)
        BY <3>4, <4>1
      <4>3. Clones!Overlapping(x) \/ x \in regions'
        BY <1>1, <2>3
      <4>4. /\ Matching(a, b) /\ e.diagonal = Clones!Diagonal(a, b)
            /\ Start(a, b) <= e.start /\ e.start < Stop(a, b)
            /\ Clones!Overlapping(Clones!Extension(a, b)) \/ Clones!Extension(a, b) \in regions'
        BY <3>1, <4>2, <4>3
      <4>5. QED
        BY <1>1, <4>4, ExtendedBecomes
    <3>6. regions' \in {regions, regions \cup {x}} /\ (Clones!Overlapping(x) => regions' = regions)
      BY <1>1, <2>3
    <3>7. extended' = extended \cup fresh
      BY <1>1, <2>3
    <3> HIDE DEF fresh, known, x
    <3>8. IsFiniteSet(regions')
      BY <3>3, <3>6 DEF ClonesInv, Found
    <3>9. \A y \in regions' : Region(y)
      BY <3>2, <3>6 DEF ClonesInv, Found
    <3>10. ASSUME NEW e \in extended' PROVE \E m, q \in Clones!Place : ExtendedFrom(e, m, q)'
      <4>1. CASE e \in fresh
        BY <3>5, <4>1
      <4>2. CASE e \in extended
        BY <2>1, <4>2 DEF ClonesInv, Found
      <4>3. QED
        BY <3>7, <3>10, <4>1, <4>2
    <3>11. QED
      BY <3>8, <3>9, <3>10
  <2>4. QED
    BY <2>2, <2>3
<1>7. ASSUME NEW m \in Clones!Place, NEW q \in Clones!Place, Eligible(m, q)
      PROVE  Key(m) \in buckets \/ <<m, q>> \in pairs' \/ Clones!Extension(m, q) \in regions'
  <2>1. Key(m) \in buckets \/ <<m, q>> \in pairs \/ Clones!Extension(m, q) \in regions
    BY <1>7 DEF ClonesInv, Found
  <2>2. <<m, q>> = pair => m = l /\ q = r
    BY <1>2
  <2>3. QED
    BY <1>1, <1>3, <1>5, <1>7, <2>1, <2>2
<1>8. Found'
  BY <1>1, <1>6, <1>7, ClonesStay DEF ClonesInv, Found
<1>9. QED
  BY <1>1, <1>8 DEF ClonesInv

LEMMA FoundStays ==
  ASSUME UNCHANGED <<tokens, cap, buckets, pairs, extended, regions>>
  PROVE  /\ Found' <=> Found
         /\ Clones!Candidates' = Clones!Candidates
         /\ \A x : Clones!GroupOf(x)' = Clones!GroupOf(x)
<1>1. \A e, l, r : ExtendedFrom(e, l, r)' <=> ExtendedFrom(e, l, r)
  BY ClonesStay DEF ExtendedFrom, Clones!Diagonal, Clones!Overlapping
<1>2. Clones!Candidates' = Clones!Candidates
  BY DEF Clones!Candidates, Clones!ContainedBy, Clones!Within
<1>3. \A x : Clones!GroupOf(x)' = Clones!GroupOf(x)
  BY <1>2 DEF Clones!GroupOf, Clones!Text
<1>4. QED
  BY <1>1, <1>2, <1>3, ClonesStay DEF Found

LEMMA ConsideredStays ==
  ASSUME UNCHANGED <<tokens, cap, buckets, pairs, extended, regions, groups, selected>>
  PROVE  Considered' <=> Considered
<1>1. Clones!Candidates' = Clones!Candidates /\ \A x : Clones!GroupOf(x)' = Clones!GroupOf(x)
  BY FoundStays
<1>2. \A x : Clones!Touched(x)' <=> Clones!Touched(x)
  BY DEF Clones!Touched, Clones!Touches, Clones!LinesOf
<1>3. Considered => Considered'
  BY <1>1, <1>2 DEF Considered
<1>4. Considered' => Considered
  BY <1>1, <1>2 DEF Considered
<1>5. QED
  BY <1>3, <1>4

LEMMA GroupRegionsStep == ClonesInv /\ Clones!GroupRegions => ClonesInv'
<1> SUFFICES ASSUME ClonesInv, Clones!GroupRegions PROVE ClonesInv'
  OBVIOUS
<1>1. /\ UNCHANGED <<tokens, cap, buckets, pairs, extended, regions, selected>>
      /\ turn = "match" /\ turn' = "select" /\ buckets = {} /\ pairs = {}
      /\ groups' = {Clones!GroupOf(x) : x \in Clones!Candidates}
  BY DEF Clones!GroupRegions
<1>2. selected' = {}
  BY <1>1 DEF ClonesInv
<1>3. Considered'
  BY <1>1, <1>2, FoundStays DEF Considered
<1>4. QED
  BY <1>1, <1>3, FoundStays DEF ClonesInv

LEMMA FewerThanTwo ==
  ASSUME NEW S, IsFiniteSet(S), Clones!Cardinality(S) < 2, NEW p \in S, NEW q \in S
  PROVE  p = q
<1>1. Clones!Cardinality(S) = Cardinality(S)
  BY DEF Clones!Cardinality, Cardinality, Clones!IsFiniteSet, IsFiniteSet
<1>2. Cardinality(S) \in Nat /\ Cardinality(S) # 0
  BY FS_CardinalityType, FS_EmptySet
<1>3. Cardinality(S) = 1
  BY <1>1, <1>2
<1>4. QED
  BY <1>3, FS_Singleton

LEMMA TouchesItself ==
  ASSUME tokens \in CloneSources, Found, NEW x \in Clones!Candidates
  PROVE  Clones!Touches(x.first, x.size, Clones!GroupOf(x))
<1>1. /\ x.first \in Clones!GroupOf(x).locations /\ Clones!GroupOf(x).size = x.size /\ x.size \in Nat \ {0}
      /\ x.first \in Clones!Place
  BY GroupIs, ClonesAssumption
<1>2. x.first[2] \in x.first[2]..x.first[2] + x.size - 1
  BY <1>1, PlaceIs DEF Spot
<1>3. Clones!LinesOf(x.first, x.size) # {}
  BY <1>2 DEF Clones!LinesOf
<1>4. QED
  BY <1>1, <1>3 DEF Clones!Touches

LEMMA ConsiderStep == ClonesInv /\ Clones!Consider => ClonesInv'
<1> SUFFICES ASSUME ClonesInv, Clones!Consider PROVE ClonesInv'
  OBVIOUS
<1> DEFINE g == Clones!Least(groups, Clones!InOrder)
<1>1. /\ UNCHANGED <<tokens, cap, buckets, pairs, extended, regions, turn>>
      /\ turn = "select" /\ groups # {} /\ groups' = groups \ {g}
      /\ selected' = IF Clones!Cardinality(Clones!Independent(g)) < 2 THEN selected ELSE selected \cup {g}
  BY DEF Clones!Consider
<1>2. tokens \in CloneSources /\ Found /\ Considered
  BY <1>1 DEF ClonesInv
<1>3. g \in groups
  BY <1>1, <1>2, NextGroup DEF Considered
<1> HIDE DEF g
<1>4. \A x : Clones!Touched(x) => Clones!Touched(x)'
  BY <1>1 DEF Clones!Touched, Clones!Touches, Clones!LinesOf
<1>5. ASSUME NEW x \in Clones!Candidates, Clones!GroupOf(x) = g
      PROVE  Clones!Touched(x)'
  <2>1. CASE ~(Clones!Cardinality(Clones!Independent(g)) < 2)
    <3>1. g \in selected'
      BY <1>1, <2>1
    <3>2. Clones!Touches(x.first, x.size, g)
      BY <1>2, <1>5, TouchesItself
    <3>3. QED
      BY <3>1, <3>2 DEF Clones!Touched, Clones!Touches, Clones!LinesOf
  <2>2. CASE Clones!Cardinality(Clones!Independent(g)) < 2
    <3>1. /\ x.first \in g.locations /\ x.second \in g.locations /\ x.first # x.second
          /\ IsFiniteSet(g.locations) /\ g.size = x.size
      BY <1>2, <1>5, GroupIs
    <3>2. IsFiniteSet(Clones!Independent(g))
      BY <3>1, FS_Subset DEF Clones!Independent
    <3>3. x.first \notin Clones!Independent(g) \/ x.second \notin Clones!Independent(g)
      BY <2>2, <3>1, <3>2, FewerThanTwo
    <3>4. Clones!Touched(x)
      BY <3>1, <3>3 DEF Clones!Independent, Clones!Touched
    <3>5. QED
      BY <1>4, <3>4
  <2>3. QED
    BY <2>1, <2>2
<1>6. ASSUME NEW x \in Clones!Candidates
      PROVE  Clones!GroupOf(x) \in groups' \/ Clones!Touched(x)'
  BY <1>1, <1>2, <1>4, <1>5 DEF Considered
<1>7. groups' \cup selected' \subseteq groups \cup selected
  BY <1>1, <1>3
<1>8. Considered'
  BY <1>1, <1>2, <1>6, <1>7, FoundStays DEF Considered
<1>9. QED
  BY <1>1, <1>2, <1>8, FoundStays DEF ClonesInv

LEMMA SelectionEnds == ClonesInv /\ Clones!Finish => ClonesInv'
<1> SUFFICES ASSUME ClonesInv, Clones!Finish PROVE ClonesInv'
  OBVIOUS
<1>1. /\ UNCHANGED <<tokens, cap, buckets, pairs, extended, regions, groups, selected>>
      /\ turn = "select" /\ turn' = "done" /\ groups = {}
  BY DEF Clones!Finish
<1>2. Considered' <=> Considered
  BY <1>1, ConsideredStays
<1>3. QED
  BY <1>1, <1>2, FoundStays DEF ClonesInv

LEMMA ClonesStep == ClonesInv /\ [Clones!Next]_(Clones!vars) => ClonesInv'
<1>1. ASSUME ClonesInv, UNCHANGED Clones!vars PROVE ClonesInv'
  <2>1. UNCHANGED <<tokens, cap, buckets, pairs, extended, regions, groups, selected, turn>>
    BY <1>1 DEF Clones!vars
  <2>2. Considered' <=> Considered
    BY <2>1, ConsideredStays
  <2>3. QED
    BY <1>1, <2>1, <2>2, FoundStays DEF ClonesInv
<1>2. QED
  BY <1>1, OpenBucketStep, ProcessPairStep, GroupRegionsStep, ConsiderStep, SelectionEnds DEF Clones!Next

LEMMA InACandidate ==
  ASSUME tokens \in CloneSources, Found, NEW x \in regions
  PROVE  \E y \in Clones!Candidates : y = x \/ Clones!ContainedBy(x, y)
<1> DEFINE Around == {y \in regions : y = x \/ Clones!ContainedBy(x, y)}
           Sizes == {y.size : y \in Around}
<1>1. ASSUME NEW y \in regions
      PROVE  /\ y = [first |-> y.first, second |-> y.second, size |-> y.size] /\ y.size \in Nat
             /\ y.first = <<y.first[1], y.first[2]>> /\ y.first[2] \in Nat
             /\ y.second = <<y.second[1], y.second[2]>> /\ y.second[2] \in Nat
  <2>1. PICK l, r : Matching(l, r) /\ y = Clones!Extension(l, r)
    BY <1>1 DEF Found, Region
  <2>2. /\ y = [first |-> y.first, second |-> y.second, size |-> y.size] /\ y.size \in Nat
        /\ y.first \in Clones!Place /\ y.second \in Clones!Place
    BY <2>1, RegionIs
  <2>3. QED
    BY <2>2, PlaceIs DEF Spot
<1>2. PICK n \in Sizes : \A m \in Sizes : m <= n
  <2> DEFINE f == [y \in regions |-> y.size]
  <2>1. IsFiniteSet({f[y] : y \in DOMAIN f})
    BY ImageIsFinite DEF Found
  <2>2. Sizes \in SUBSET {f[y] : y \in DOMAIN f} /\ Sizes \in SUBSET Nat /\ Sizes # {}
    BY <1>1
  <2>3. IsFiniteSet(Sizes)
    BY <2>1, <2>2, FS_Subset
  <2>4. QED
    BY <2>2, <2>3, GreatestIsThere
<1>3. PICK y \in Around : y.size = n
  BY <1>2
<1>4. ASSUME NEW z \in regions \ {y}, Clones!ContainedBy(y, z) PROVE FALSE
  <2>1. /\ y.first[1] = z.first[1] /\ z.first[2] <= y.first[2] /\ y.first[2] + y.size <= z.first[2] + z.size
        /\ y.second[1] = z.second[1] /\ z.second[2] <= y.second[2] /\ y.second[2] + y.size <= z.second[2] + z.size
    BY <1>4 DEF Clones!ContainedBy, Clones!Within
  <2>2. z \in Around
    <3>1. CASE y = x
      BY <1>4, <3>1
    <3>2. CASE Clones!ContainedBy(x, y)
      <4>1. /\ x.first[1] = y.first[1] /\ y.first[2] <= x.first[2] /\ x.first[2] + x.size <= y.first[2] + y.size
            /\ x.second[1] = y.second[1] /\ y.second[2] <= x.second[2] /\ x.second[2] + x.size <= y.second[2] + y.size
        BY <3>2 DEF Clones!ContainedBy, Clones!Within
      <4>2. Clones!ContainedBy(x, z)
        BY <1>1, <2>1, <4>1 DEF Clones!ContainedBy, Clones!Within
      <4>3. QED
        BY <4>2
    <3>3. QED
      BY <3>1, <3>2
  <2>3. z.size <= y.size
    BY <1>2, <1>3, <2>2
  <2>4. z.first[2] = y.first[2] /\ z.second[2] = y.second[2] /\ z.size = y.size
    BY <1>1, <2>1, <2>3
  <2>5. QED
    BY <1>1, <1>4, <2>1, <2>4
<1>5. y \in Clones!Candidates
  BY <1>3, <1>4 DEF Clones!Candidates
<1>6. QED
  BY <1>3, <1>5

LEMMA EqualWindowsAreTouched == ClonesInv => Clones!ClonesAreTouched
<1> SUFFICES ASSUME ClonesInv, turn = "done" PROVE Clones!ClonesAreTouched
  BY DEF Clones!ClonesAreTouched
<1>1. tokens \in CloneSources /\ Found /\ Considered /\ buckets = {} /\ pairs = {} /\ groups = {}
  BY DEF ClonesInv
<1>2. ASSUME NEW g \in selected, NEW p \in g.locations, NEW q \in g.locations
      PROVE  Clones!Agreeing(p, q, g.size)
  <2>1. PICK x \in Clones!Candidates : g = Clones!GroupOf(x)
    BY <1>1, <1>2 DEF Considered
  <2>2. QED
    BY <1>1, <1>2, <2>1, GroupIs DEF Clones!Agreeing
<1>3. ASSUME NEW l \in Clones!Window, NEW r \in Clones!Window,
             Clones!Before(l, r), Clones!Agreeing(l, r, MinTokens),
             {l, r} \subseteq Clones!Occurrences(WindowFingerprint[Clones!Text(l, MinTokens)]),
             ~Clones!Overlapping(Clones!Extension(l, r))
      PROVE  \E y \in Clones!Candidates : /\ Clones!Within(l, MinTokens, y.first, y.size)
                                         /\ Clones!Within(r, MinTokens, y.second, y.size)
                                         /\ Clones!Touched(y)
  <2> DEFINE x == Clones!Extension(l, r)
  <2>1. l \in Clones!Place /\ r \in Clones!Place
    BY DEF Clones!Window
  <2>2. Eligible(l, r) /\ Matching(l, r)
    BY <1>3, <2>1 DEF Eligible, Key, Matching
  <2>3. x \in regions
    BY <1>1, <2>1, <2>2 DEF Found
  <2>4. /\ Clones!Within(l, MinTokens, x.first, x.size) /\ Clones!Within(r, MinTokens, x.second, x.size)
        /\ x.first[2] \in Nat /\ x.second[2] \in Nat /\ x.size \in Nat
        /\ l[2] \in Nat /\ r[2] \in Nat /\ MinTokens \in Nat
    BY <1>1, <2>1, <2>2, RegionIs, PlaceIs, ClonesAssumption DEF Spot
  <2> HIDE DEF x
  <2>5. PICK y \in Clones!Candidates : y = x \/ Clones!ContainedBy(x, y)
    BY <1>1, <2>3, InACandidate
  <2>6. Clones!Touched(y)
    BY <1>1 DEF Considered
  <2>7. y.first[2] \in Nat /\ y.second[2] \in Nat /\ y.size \in Nat
    <3>1. y.first \in Clones!Place /\ y.second \in Clones!Place /\ y.size \in Nat
      BY <1>1, GroupIs
    <3>2. QED
      BY <1>1, <3>1, PlaceIs DEF Spot
  <2>8. Clones!Within(l, MinTokens, y.first, y.size) /\ Clones!Within(r, MinTokens, y.second, y.size)
    BY <2>4, <2>5, <2>7 DEF Clones!ContainedBy, Clones!Within
  <2>9. QED
    BY <2>6, <2>8
<1>4. QED
  BY <1>2, <1>3 DEF Clones!ClonesAreTouched

(* Whatever the files and the order of their fingerprints, two windows     *)
(* that are equal lie in a region which is kept or shares lines with what  *)
(* is kept, and what is kept is equal (find_with_hasher,                   *)
(* exact_fallback_groups).                                                 *)
THEOREM EqualCodeIsFound == Clones!Spec => []DuplicatesAreFound
<1>1. ClonesInv => DuplicatesAreFound
  BY EqualWindowsAreTouched DEF DuplicatesAreFound
<1>2. QED
  BY ClonesBegin, ClonesStep, <1>1, PTL DEF Clones!Spec

-----------------------------------------------------------------------------
(* Clone groups: an arithmetic fact. *)

LEMMA Quotient ==
  ASSUME NEW a \in Nat, NEW t \in Nat \ {0}, NEW h \in Nat
  PROVE  a \div t \in Nat /\ (a \div t >= h <=> a >= h * t)
<1>1. PICK q \in Nat : q = a \div t
  OBVIOUS
<1>2. t * q <= a /\ a < t * (q + 1)
  BY <1>1
<1>3. ASSUME q >= h PROVE a >= h * t
  <2>1. t * (q - h) >= 0
    BY <1>3
  <2>2. QED
    BY <1>2, <2>1
<1>4. ASSUME ~(q >= h) PROVE ~(a >= h * t)
  <2>1. h - (q + 1) \in Nat
    BY <1>4
  <2>2. t * (h - (q + 1)) >= 0
    BY <2>1
  <2>3. QED
    BY <1>2, <2>2
<1>5. QED
  BY <1>1, <1>3, <1>4

-----------------------------------------------------------------------------
(* Clone groups: the merge of two sorted sequences of shingles. *)

Sorted(q) == q \in Seq(Nat) /\ \A i, j \in DOMAIN q : i < j => q[i] <= q[j]
Unmerged == [left |-> 0, right |-> 0, shared |-> 0, lost |-> FALSE]
Rounds(l, r, k, g) == g = [n \in 0..k |-> IF n = 0 THEN Unmerged ELSE Families!Advance(l, r, g[n - 1])]

LEMMA RoundsAre ==
  ASSUME NEW l, NEW r, NEW k \in Nat
  PROVE  \E g : Rounds(l, r, k, g)
<1> DEFINE Bad == {n \in Nat : ~\E g : Rounds(l, r, n, g)}
<1>1. SUFFICES ASSUME k \in Bad PROVE FALSE
  OBVIOUS
<1>2. PICK n \in Bad : \A m \in Bad : n <= m
  BY <1>1, LeastIsThere
<1>3. CASE n = 0
  <2> DEFINE g == [x \in 0..0 |-> Unmerged]
  <2>1. Rounds(l, r, 0, g)
    BY DEF Rounds
  <2>2. QED
    BY <1>3, <2>1
<1>4. CASE n # 0
  <2>1. n - 1 \in Nat /\ n - 1 \notin Bad
    BY <1>2, <1>4
  <2>2. PICK g : Rounds(l, r, n - 1, g)
    BY <2>1
  <2> DEFINE h == [x \in 0..n |-> IF x = n THEN Families!Advance(l, r, g[n - 1]) ELSE g[x]]
  <2>3. \A x \in 0..(n - 1) : g[x] = IF x = 0 THEN Unmerged ELSE Families!Advance(l, r, g[x - 1])
    BY <2>2 DEF Rounds
  <2>4. \A x \in 0..n : h[x] = IF x = 0 THEN Unmerged ELSE Families!Advance(l, r, h[x - 1])
    BY <1>4, <2>1, <2>3
  <2>5. Rounds(l, r, n, h)
    BY <2>4 DEF Rounds
  <2>6. QED
    BY <2>5
<1>5. QED
  BY <1>3, <1>4

LEMMA MergedIs ==
  ASSUME NEW l \in Seq(Nat), NEW r \in Seq(Nat)
  PROVE  \E g : Rounds(l, r, Len(l) + Len(r), g) /\ Families!Merged(l, r) = g[Len(l) + Len(r)]
<1> DEFINE N == Len(l) + Len(r)
           g == CHOOSE x : Rounds(l, r, N, x)
<1>1. N \in Nat
  OBVIOUS
<1>2. Rounds(l, r, N, g)
  BY <1>1, RoundsAre
<1>3. Families!Merged(l, r) = g[N]
  BY DEF Families!Merged, Rounds, Unmerged
<1>4. QED
  BY <1>2, <1>3

Later(q, i, s) == {k \in (i + 1)..Len(q) : q[k] = s}
Count(q, i, s) == Cardinality(Later(q, i, s))
Both(l, r, i, j) ==
  {x \in Families!Range(l) \X (1..Len(l)) : x[2] <= Count(l, i, x[1]) /\ x[2] <= Count(r, j, x[1])}

LEMMA OneMore ==
  ASSUME NEW S, IsFiniteSet(S), NEW x
  PROVE  IsFiniteSet(S \cup {x}) /\ Cardinality(S \cup {x}) <= Cardinality(S) + 1 /\ Cardinality(S) \in Nat
<1>1. Cardinality(S) \in Nat
  BY FS_CardinalityType
<1>2. IsFiniteSet(S \cup {x}) /\ Cardinality(S \cup {x}) = IF x \in S THEN Cardinality(S) ELSE Cardinality(S) + 1
  BY FS_AddElement, Zenon
<1>3. QED
  BY <1>1, <1>2

LEMMA IntervalIs ==
  ASSUME NEW n \in Nat
  PROVE  IsFiniteSet(1..n) /\ Cardinality(1..n) = n
<1>1. IsFiniteSet(1..n) /\ Cardinality(1..n) = IF 1 > n THEN 0 ELSE n - 1 + 1
  BY FS_Interval
<1>2. QED
  BY <1>1

LEMMA CountIs ==
  ASSUME NEW q \in Seq(Nat), NEW i \in 0..Len(q), NEW s
  PROVE  /\ Count(q, i, s) \in 0..Len(q) /\ IsFiniteSet(Later(q, i, s))
         /\ (\A k \in (i + 1)..Len(q) : q[k] # s) => Count(q, i, s) = 0
         /\ i < Len(q) => Count(q, i, s) = IF q[i + 1] = s THEN Count(q, i + 1, s) + 1 ELSE Count(q, i + 1, s)
<1>1. IsFiniteSet(1..Len(q)) /\ Cardinality(1..Len(q)) = Len(q)
  BY IntervalIs
<1>2. \A j \in 0..Len(q) : IsFiniteSet(Later(q, j, s)) /\ Cardinality(Later(q, j, s)) \in 0..Len(q)
  <2>1. TAKE j \in 0..Len(q)
  <2>2. Later(q, j, s) \in SUBSET (1..Len(q))
    BY DEF Later
  <2>3. IsFiniteSet(Later(q, j, s)) /\ Cardinality(Later(q, j, s)) <= Len(q)
    BY <1>1, <2>2, FS_Subset
  <2>4. QED
    BY <2>3, FS_CardinalityType
<1>3. ASSUME \A k \in (i + 1)..Len(q) : q[k] # s PROVE Count(q, i, s) = 0
  <2>1. Later(q, i, s) = {}
    BY <1>3 DEF Later
  <2>2. QED
    BY <2>1, FS_EmptySet DEF Count
<1>4. ASSUME i < Len(q)
      PROVE  Count(q, i, s) = IF q[i + 1] = s THEN Count(q, i + 1, s) + 1 ELSE Count(q, i + 1, s)
  <2>1. i + 1 \in 0..Len(q) /\ \A k : k \in (i + 1)..Len(q) <=> k = i + 1 \/ k \in (i + 1 + 1)..Len(q)
    BY <1>4
  <2>2. CASE q[i + 1] = s
    <3>1. Later(q, i, s) = Later(q, i + 1, s) \cup {i + 1}
      BY <2>1, <2>2 DEF Later
    <3>2. i + 1 \notin Later(q, i + 1, s)
      BY DEF Later
    <3>3. QED
      BY <1>2, <2>1, <2>2, <3>1, <3>2, FS_AddElement DEF Count
  <2>3. CASE q[i + 1] # s
    <3>1. Later(q, i, s) = Later(q, i + 1, s)
      BY <2>1, <2>3 DEF Later
    <3>2. QED
      BY <2>3, <3>1 DEF Count
  <2>4. QED
    BY <2>2, <2>3
<1>5. QED
  BY <1>2, <1>3, <1>4 DEF Count

(* Occurrences that are numbered are no more than there are.               *)
Numbered(q, i, T) ==
  \A x \in T : x = <<x[1], x[2]>> /\ x[2] \in Nat \ {0} /\ x[2] <= Count(q, i, x[1])

LEMMA NumberedAreFew ==
  ASSUME NEW q \in Seq(Nat), NEW i \in 0..Len(q), NEW T, Numbered(q, i, T)
  PROVE  IsFiniteSet(T) /\ Cardinality(T) <= Len(q) - i
<1> DEFINE Few(U, n) == IsFiniteSet(U) /\ Cardinality(U) <= n
           Bad == {n \in 0..Len(q) : \E U : Numbered(q, Len(q) - n, U) /\ ~Few(U, n)}
<1>1. SUFFICES ASSUME ~Few(T, Len(q) - i) PROVE FALSE
  OBVIOUS
<1>2. Len(q) - (Len(q) - i) = i /\ Len(q) - i \in 0..Len(q)
  OBVIOUS
<1>3. Len(q) - i \in Bad
  BY <1>1, <1>2
<1>4. PICK n \in Bad : \A m \in Bad : n <= m
  <2>1. Bad \in SUBSET Nat
    OBVIOUS
  <2>2. QED
    BY <1>3, <2>1, LeastIsThere
<1>5. PICK U : Numbered(q, Len(q) - n, U) /\ ~Few(U, n)
  BY <1>4
<1>6. CASE n = 0
  <2>1. \A s : Count(q, Len(q), s) = 0
    BY CountIs
  <2>2. U = {}
    BY <1>5, <1>6, <2>1 DEF Numbered
  <2>3. QED
    BY <1>5, <1>6, <2>2, FS_EmptySet
<1>7. CASE n # 0
  <2>1. n \in Nat /\ n - 1 \in 0..Len(q) /\ ~(n <= n - 1) /\ Len(q) - (n - 1) = Len(q) - n + 1
    BY <1>4, <1>7
  <2>a. PICK j \in 0..Len(q) : j = Len(q) - n
    BY <1>4
  <2>b. j + 1 \in 0..Len(q) /\ j < Len(q) /\ j + 1 = Len(q) - (n - 1)
    BY <2>1, <2>a
  <2> DEFINE x0 == <<q[j + 1], Count(q, j, q[j + 1])>>
             V == U \ {x0}
  <2>2. Numbered(q, j + 1, V)
    <3>1. SUFFICES ASSUME NEW x \in V
                   PROVE  x = <<x[1], x[2]>> /\ x[2] \in Nat \ {0} /\ x[2] <= Count(q, j + 1, x[1])
      BY DEF Numbered
    <3>2. x = <<x[1], x[2]>> /\ x[2] \in Nat \ {0} /\ x[2] <= Count(q, j, x[1])
      BY <1>5, <2>a DEF Numbered
    <3>3. /\ Count(q, j, x[1]) \in Nat /\ Count(q, j + 1, x[1]) \in Nat
          /\ Count(q, j, x[1]) = IF q[j + 1] = x[1] THEN Count(q, j + 1, x[1]) + 1 ELSE Count(q, j + 1, x[1])
      BY <2>b, CountIs
    <3>4. CASE q[j + 1] = x[1]
      <4>1. x[2] # Count(q, j, x[1])
        BY <3>2, <3>4
      <4>2. QED
        BY <3>2, <3>3, <3>4, <4>1
    <3>5. CASE q[j + 1] # x[1]
      BY <3>2, <3>3, <3>5
    <3>6. QED
      BY <3>4, <3>5
  <2>3. n - 1 \notin Bad
    BY <1>4, <2>1
  <2>4. Few(V, n - 1)
    <3>1. Numbered(q, Len(q) - (n - 1), V)
      BY <2>2, <2>b
    <3>2. QED
      BY <2>1, <2>3, <3>1
  <2>5. IsFiniteSet(V \cup {x0}) /\ Cardinality(V \cup {x0}) <= Cardinality(V) + 1 /\ Cardinality(V) \in Nat
    BY <2>4, OneMore
  <2>6. U \in SUBSET (V \cup {x0})
    OBVIOUS
  <2>7. IsFiniteSet(U) /\ Cardinality(U) <= Cardinality(V \cup {x0})
    BY <2>5, <2>6, FS_Subset
  <2>8. Cardinality(U) \in Nat /\ Cardinality(V \cup {x0}) \in Nat
    BY <2>5, <2>7, FS_CardinalityType
  <2>9. QED
    BY <1>5, <2>1, <2>4, <2>5, <2>7, <2>8
<1>8. QED
  BY <1>6, <1>7

LEMMA BothBounded ==
  ASSUME NEW l \in Seq(Nat), NEW r \in Seq(Nat), NEW i \in 0..Len(l), NEW j \in 0..Len(r)
  PROVE  /\ IsFiniteSet(Both(l, r, i, j)) /\ Cardinality(Both(l, r, i, j)) \in Nat
         /\ Cardinality(Both(l, r, i, j)) <= Len(l) - i /\ Cardinality(Both(l, r, i, j)) <= Len(r) - j
<1>1. \A x \in Both(l, r, i, j) : x = <<x[1], x[2]>> /\ x[2] \in Nat \ {0}
  BY DEF Both
<1>2. Numbered(l, i, Both(l, r, i, j)) /\ Numbered(r, j, Both(l, r, i, j))
  BY <1>1 DEF Both, Numbered
<1>3. QED
  BY <1>2, NumberedAreFew, FS_CardinalityType

LEMMA Lesser ==
  ASSUME NEW a \in Nat, NEW b \in Nat
  PROVE  \E c \in Nat : /\ c <= a /\ c <= b /\ (c = a \/ c = b)
                        /\ \A n \in Nat : n <= a + 1 /\ n <= b + 1 /\ n # c + 1 => n <= a /\ n <= b
<1>1. CASE a <= b
  <2>1. \A n \in Nat : n <= a + 1 /\ n <= b + 1 /\ n # a + 1 => n <= a /\ n <= b
    BY <1>1
  <2>2. a <= a
    OBVIOUS
  <2>3. QED
    BY <1>1, <2>1, <2>2
<1>2. CASE b <= a
  <2>1. \A n \in Nat : n <= a + 1 /\ n <= b + 1 /\ n # b + 1 => n <= a /\ n <= b
    BY <1>2
  <2>2. b <= b
    OBVIOUS
  <2>3. QED
    BY <1>2, <2>1, <2>2
<1>3. a <= b \/ b <= a
  OBVIOUS
<1>4. QED
  BY <1>1, <1>2, <1>3

(* What both have is counted with them.                                    *)
LEMMA BothHave ==
  ASSUME NEW l \in Seq(Nat), NEW r \in Seq(Nat), NEW i \in 0..Len(l), NEW j \in 0..Len(r),
         i < Len(l), j < Len(r), l[i + 1] = r[j + 1]
  PROVE  Cardinality(Both(l, r, i, j)) = Cardinality(Both(l, r, i + 1, j + 1)) + 1
<1>1. PICK s : s = l[i + 1]
  OBVIOUS
<1>2. i + 1 \in 0..Len(l) /\ j + 1 \in 0..Len(r)
  OBVIOUS
<1>3. PICK a \in Nat, b \in Nat : a = Count(l, i + 1, s) /\ b = Count(r, j + 1, s)
  BY <1>2, CountIs
<1>4. Count(l, i, s) = a + 1 /\ Count(r, j, s) = b + 1 /\ a + 1 <= Len(l)
  <2>1. Count(l, i, s) = a + 1 /\ Count(l, i, s) \in 0..Len(l)
    BY <1>1, <1>3, CountIs
  <2>2. Count(r, j, s) = b + 1
    BY <1>1, <1>3, CountIs
  <2>3. QED
    BY <2>1, <2>2
<1>5. \A t : t # s => Count(l, i, t) = Count(l, i + 1, t) /\ Count(r, j, t) = Count(r, j + 1, t)
  BY <1>1, CountIs
<1>6. PICK c \in Nat : /\ c <= a /\ c <= b /\ (c = a \/ c = b)
                      /\ \A n \in Nat : n <= a + 1 /\ n <= b + 1 /\ n # c + 1 => n <= a /\ n <= b
  BY Lesser
<1>7. s \in Families!Range(l) /\ c + 1 \in 1..Len(l)
  BY <1>1, <1>4, <1>6 DEF Families!Range
<1>8. \A x : x \in Both(l, r, i, j) <=> x \in Both(l, r, i + 1, j + 1) \/ x = <<s, c + 1>>
  <2>1. TAKE x
  <2>2. ASSUME x \in Both(l, r, i, j), x # <<s, c + 1>> PROVE x \in Both(l, r, i + 1, j + 1)
    <3>1. x \in Families!Range(l) \X (1..Len(l)) /\ x = <<x[1], x[2]>> /\ x[2] \in Nat
      BY <2>2 DEF Both
    <3>2. CASE x[1] = s
      <4>1. x[2] <= a + 1 /\ x[2] <= b + 1 /\ x[2] # c + 1
        BY <1>4, <2>2, <3>1, <3>2 DEF Both
      <4>2. x[2] <= a /\ x[2] <= b 
        BY <1>6, <3>1, <4>1
      <4>3. QED
        BY <1>3, <3>1, <3>2, <4>2 DEF Both
    <3>3. CASE x[1] # s
      BY <1>5, <2>2, <3>1, <3>3 DEF Both
    <3>4. QED
      BY <3>2, <3>3
  <2>3. <<s, c + 1>> \in Both(l, r, i, j)
    <3>1. c + 1 <= a + 1 /\ c + 1 <= b + 1
      BY <1>6
    <3>2. QED
      BY <1>4, <1>7, <3>1 DEF Both
  <2>4. ASSUME x \in Both(l, r, i + 1, j + 1) PROVE x \in Both(l, r, i, j)
    <3>1. x \in Families!Range(l) \X (1..Len(l)) /\ x[2] \in Nat
      BY <2>4 DEF Both
    <3>2. CASE x[1] = s
      <4>1. x[2] <= a /\ x[2] <= b
        BY <1>3, <2>4, <3>2 DEF Both
      <4>2. \A n \in Nat : n <= a /\ n <= b => n <= a + 1 /\ n <= b + 1
        OBVIOUS
      <4>3. x[2] <= a + 1 /\ x[2] <= b + 1
        BY <3>1, <4>1, <4>2
      <4>4. QED
        BY <1>4, <3>1, <3>2, <4>3 DEF Both
    <3>3. CASE x[1] # s
      BY <1>5, <2>4, <3>1, <3>3 DEF Both
    <3>4. QED
      BY <3>2, <3>3
  <2>5. QED
    BY <2>2, <2>3, <2>4
<1>9. <<s, c + 1>> \notin Both(l, r, i + 1, j + 1)
  <2>1. ~(c + 1 <= a /\ c + 1 <= b)
    BY <1>6
  <2>2. ASSUME <<s, c + 1>> \in Both(l, r, i + 1, j + 1)
        PROVE  c + 1 <= Count(l, i + 1, s) /\ c + 1 <= Count(r, j + 1, s)
    BY <2>2 DEF Both
  <2>3. QED
    BY <1>3, <2>1, <2>2
<1>10. Both(l, r, i, j) = Both(l, r, i + 1, j + 1) \cup {<<s, c + 1>>}
  BY <1>8
<1>11. IsFiniteSet(Both(l, r, i + 1, j + 1))
  BY <1>2, BothBounded
<1>12. QED
  BY <1>9, <1>10, <1>11, FS_AddElement

LEMMA InOrder ==
  ASSUME NEW q, Sorted(q), NEW i \in 0..Len(q), i < Len(q)
  PROVE  q[i + 1] \in Nat /\ \A k \in (i + 1)..Len(q) : q[k] \in Nat /\ q[i + 1] <= q[k]
<1>1. q \in Seq(Nat) /\ Len(q) \in Nat /\ DOMAIN q = 1..Len(q)
  BY DEF Sorted
<1>2. \A k \in 1..Len(q) : q[k] \in Nat
  BY <1>1
<1>3. i \in Nat /\ i + 1 \in 1..Len(q)
  BY <1>1
<1>4. ASSUME NEW k \in (i + 1)..Len(q) PROVE q[k] \in Nat /\ q[i + 1] <= q[k]
  <2>1. k \in 1..Len(q) /\ (i + 1 < k \/ i + 1 = k)
    BY <1>1, <1>3
  <2>2. i + 1 < k => q[i + 1] <= q[k]
    BY <1>1, <1>3, <2>1 DEF Sorted
  <2>3. q[k] \in Nat /\ q[i + 1] \in Nat
    BY <1>2, <1>3, <2>1
  <2>4. QED
    BY <2>1, <2>2, <2>3
<1>5. QED
  BY <1>2, <1>3, <1>4

(* What only one has is not.                                               *)
LEMMA OneHas ==
  ASSUME NEW l, NEW r, Sorted(l), Sorted(r), NEW i \in 0..Len(l), NEW j \in 0..Len(r),
         i < Len(l), j < Len(r)
  PROVE  /\ l[i + 1] < r[j + 1] => Both(l, r, i, j) = Both(l, r, i + 1, j)
         /\ l[i + 1] > r[j + 1] => Both(l, r, i, j) = Both(l, r, i, j + 1)
<1>1. l \in Seq(Nat) /\ r \in Seq(Nat) /\ i + 1 \in 1..Len(l) /\ j + 1 \in 1..Len(r)
  BY DEF Sorted
<1>2. ASSUME l[i + 1] < r[j + 1] PROVE Both(l, r, i, j) = Both(l, r, i + 1, j)
  <2>1. \A k \in (j + 1)..Len(r) : r[k] # l[i + 1]
    <3>1. TAKE k \in (j + 1)..Len(r)
    <3>2. r[j + 1] <= r[k] /\ l[i + 1] \in Nat /\ r[j + 1] \in Nat /\ r[k] \in Nat
      BY <1>1, InOrder
    <3>3. QED
      BY <1>2, <3>2
  <2>2. Count(r, j, l[i + 1]) = 0
    BY <1>1, <2>1, CountIs
  <2>3. \A t : t # l[i + 1] => Count(l, i, t) = Count(l, i + 1, t)
    BY <1>1, CountIs
  <2>4. \A x \in Families!Range(l) \X (1..Len(l)) : x[2] \in Nat /\ ~(x[2] <= 0)
    OBVIOUS
  <2>5. QED
    BY <2>2, <2>3, <2>4 DEF Both
<1>3. ASSUME l[i + 1] > r[j + 1] PROVE Both(l, r, i, j) = Both(l, r, i, j + 1)
  <2>1. \A k \in (i + 1)..Len(l) : l[k] # r[j + 1]
    <3>1. TAKE k \in (i + 1)..Len(l)
    <3>2. l[i + 1] <= l[k] /\ r[j + 1] \in Nat /\ l[i + 1] \in Nat /\ l[k] \in Nat
      BY <1>1, InOrder
    <3>3. QED
      BY <1>3, <3>2
  <2>2. Count(l, i, r[j + 1]) = 0
    BY <1>1, <2>1, CountIs
  <2>3. \A t : t # r[j + 1] => Count(r, j, t) = Count(r, j + 1, t)
    BY <1>1, CountIs
  <2>4. \A x \in Families!Range(l) \X (1..Len(l)) : x[2] \in Nat /\ ~(x[2] <= 0)
    OBVIOUS
  <2>5. QED
    BY <2>2, <2>3, <2>4 DEF Both
<1>4. QED
  BY <1>2, <1>3

(* A round of the merge: what was counted and what is still to come add up *)
(* to what both have, until the threshold is out of reach.                 *)
Shares(l, r) == Cardinality(Both(l, r, 0, 0))
Counts(l, r, n, m) ==
  /\ m \in [left : 0..Len(l), right : 0..Len(r), shared : Nat, lost : BOOLEAN]
  /\ m.lost => ~Families!CanReach(Shares(l, r), Len(l) + Len(r))
  /\ ~m.lost =>
       /\ m.shared + Cardinality(Both(l, r, m.left, m.right)) = Shares(l, r)
       /\ m.left = Len(l) \/ m.right = Len(r) \/ m.left + m.right >= n

LEMMA LessIsOutOfReach ==
  ASSUME NEW a \in Nat, NEW b \in Nat, a <= b, NEW t \in Nat, ~Families!CanReach(b, t)
  PROVE  ~Families!CanReach(a, t)
<1>1. PICK w \in Nat, h \in Nat : w = Whole /\ h = Threshold
  BY FamiliesAssumption
<1>2. w * 2 * (b - a) >= 0
  BY <1>1
<1>3. w * 2 * b = w * 2 * a + w * 2 * (b - a)
  BY <1>1
<1>4. w * 2 * a \in Nat /\ w * 2 * b \in Nat /\ h * t \in Nat
  BY <1>1
<1>5. ~(w * 2 * b >= h * t)
  BY <1>1 DEF Families!CanReach
<1>6. ~(w * 2 * a >= h * t)
  BY <1>2, <1>3, <1>4, <1>5
<1>7. QED
  BY <1>1, <1>6 DEF Families!CanReach

LEMMA RoundCounts ==
  ASSUME NEW l, NEW r, Sorted(l), Sorted(r), NEW n \in Nat, NEW m, Counts(l, r, n, m)
  PROVE  Counts(l, r, n + 1, Families!Advance(l, r, m))
<1> DEFINE m2 == Families!Advance(l, r, m)
<1>1. l \in Seq(Nat) /\ r \in Seq(Nat) /\ Len(l) \in Nat /\ Len(r) \in Nat
  BY DEF Sorted
<1>2. /\ m \in [left : 0..Len(l), right : 0..Len(r), shared : Nat, lost : BOOLEAN]
      /\ m.left \in 0..Len(l) /\ m.right \in 0..Len(r) /\ m.shared \in Nat
  BY DEF Counts
<1>3. CASE m.lost \/ m.left = Len(l) \/ m.right = Len(r)
  <2>1. m2 = m
    BY <1>3 DEF Families!Advance
  <2>2. QED
    BY <1>3, <2>1 DEF Counts
<1> DEFINE most == Families!Min({Len(l) - m.left, Len(r) - m.right})
<1>4. CASE ~(m.lost \/ m.left = Len(l) \/ m.right = Len(r))
  <2>1. /\ m.left < Len(l) /\ m.right < Len(r)
        /\ m.left + 1 \in 0..Len(l) /\ m.right + 1 \in 0..Len(r)
        /\ m.left + m.right >= n
        /\ m.shared + Cardinality(Both(l, r, m.left, m.right)) = Shares(l, r)
    BY <1>1, <1>2, <1>4 DEF Counts
  <2>2. /\ Cardinality(Both(l, r, m.left, m.right)) \in Nat
        /\ Cardinality(Both(l, r, m.left, m.right)) <= Len(l) - m.left
        /\ Cardinality(Both(l, r, m.left, m.right)) <= Len(r) - m.right
    BY <1>1, <1>2, BothBounded
  <2>3. most \in Nat /\ Cardinality(Both(l, r, m.left, m.right)) <= most
    <3>1. \E x \in {Len(l) - m.left, Len(r) - m.right} :
             \A y \in {Len(l) - m.left, Len(r) - m.right} : x <= y
      BY <1>1, <1>2
    <3>2. most \in {Len(l) - m.left, Len(r) - m.right}
      BY <3>1 DEF Families!Min
    <3>3. QED
      BY <1>1, <1>2, <2>2, <3>2
  <2>4. CASE ~Families!CanReach(m.shared + most, Len(l) + Len(r))
    <3>1. m2 = [m EXCEPT !.lost = TRUE]
      BY <1>4, <2>4 DEF Families!Advance
    <3>2. Shares(l, r) \in Nat /\ Shares(l, r) <= m.shared + most /\ m.shared + most \in Nat
      BY <1>2, <2>1, <2>2, <2>3
    <3>3. ~Families!CanReach(Shares(l, r), Len(l) + Len(r))
      BY <1>1, <2>4, <3>2, LessIsOutOfReach
    <3>4. m2.lost /\ m2 \in [left : 0..Len(l), right : 0..Len(r), shared : Nat, lost : BOOLEAN]
      BY <1>2, <3>1
    <3>5. QED
      BY <3>3, <3>4 DEF Counts
  <2>5. CASE Families!CanReach(m.shared + most, Len(l) + Len(r)) /\ l[m.left + 1] < r[m.right + 1]
    <3>1. m2 = [m EXCEPT !.left = @ + 1]
      BY <1>4, <2>5 DEF Families!Advance
    <3>2. Both(l, r, m.left, m.right) = Both(l, r, m.left + 1, m.right)
      BY <1>2, <2>1, <2>5, OneHas
    <3>3. /\ m2 \in [left : 0..Len(l), right : 0..Len(r), shared : Nat, lost : BOOLEAN]
          /\ m2.left = m.left + 1 /\ m2.right = m.right /\ m2.shared = m.shared /\ ~m2.lost
      BY <1>2, <1>4, <2>1, <3>1
    <3>4. m2.left + m2.right >= n + 1
      BY <1>2, <2>1, <3>3
    <3>5. QED
      BY <2>1, <3>2, <3>3, <3>4 DEF Counts
  <2>6. l[m.left + 1] \in Nat /\ r[m.right + 1] \in Nat
    BY <1>2, <2>1, InOrder
  <2>7. CASE Families!CanReach(m.shared + most, Len(l) + Len(r)) /\ l[m.left + 1] > r[m.right + 1]
    <3>1. m2 = [m EXCEPT !.right = @ + 1]
      BY <1>4, <2>6, <2>7 DEF Families!Advance
    <3>2. Both(l, r, m.left, m.right) = Both(l, r, m.left, m.right + 1)
      BY <1>2, <2>1, <2>7, OneHas
    <3>3. /\ m2 \in [left : 0..Len(l), right : 0..Len(r), shared : Nat, lost : BOOLEAN]
          /\ m2.left = m.left /\ m2.right = m.right + 1 /\ m2.shared = m.shared /\ ~m2.lost
      BY <1>2, <1>4, <2>1, <3>1
    <3>4. m2.left + m2.right >= n + 1
      BY <1>2, <2>1, <3>3
    <3>5. QED
      BY <2>1, <3>2, <3>3, <3>4 DEF Counts
  <2>8. CASE Families!CanReach(m.shared + most, Len(l) + Len(r)) /\ l[m.left + 1] = r[m.right + 1]
    <3>1. m2 = [m EXCEPT !.left = @ + 1, !.right = @ + 1, !.shared = @ + 1]
      BY <1>4, <2>6, <2>8 DEF Families!Advance
    <3>2. Cardinality(Both(l, r, m.left, m.right)) = Cardinality(Both(l, r, m.left + 1, m.right + 1)) + 1
      BY <1>1, <1>2, <2>1, <2>8, BothHave
    <3>3. /\ m2 \in [left : 0..Len(l), right : 0..Len(r), shared : Nat, lost : BOOLEAN]
          /\ m2.left = m.left + 1 /\ m2.right = m.right + 1 /\ m2.shared = m.shared + 1 /\ ~m2.lost
      <4>1. m2.left = m.left + 1 /\ m2.right = m.right + 1 /\ m2.shared = m.shared + 1 /\ m2.lost = m.lost
        BY <1>2, <3>1
      <4>2. m2 = [left |-> m2.left, right |-> m2.right, shared |-> m2.shared, lost |-> m2.lost]
        BY <1>2, <3>1
      <4>3. QED
        BY <1>2, <1>4, <2>1, <4>1, <4>2
    <3>4. m2.left + m2.right >= n + 1
      BY <1>2, <2>1, <3>3
    <3>5. Cardinality(Both(l, r, m.left + 1, m.right + 1)) \in Nat
      BY <1>1, <2>1, BothBounded
    <3>6. m2.shared + Cardinality(Both(l, r, m2.left, m2.right)) = Shares(l, r)
      BY <1>2, <2>1, <3>2, <3>3, <3>5
    <3>7. QED
      BY <3>3, <3>4, <3>6 DEF Counts
  <2>9. QED
    BY <2>4, <2>5, <2>6, <2>7, <2>8
<1>5. QED
  BY <1>3, <1>4

(* At the end everything is counted, or the threshold cannot be reached.   *)
LEMMA MergeCounts ==
  ASSUME NEW l, NEW r, Sorted(l), Sorted(r)
  PROVE  LET m == Families!Merged(l, r)
         IN  /\ m.lost \in BOOLEAN /\ m.shared \in Nat
             /\ m.lost => ~Families!CanReach(Shares(l, r), Len(l) + Len(r))
             /\ ~m.lost => m.shared = Shares(l, r)
<1> DEFINE N == Len(l) + Len(r)
<1>1. l \in Seq(Nat) /\ r \in Seq(Nat) /\ Len(l) \in Nat /\ Len(r) \in Nat /\ N \in Nat
  BY DEF Sorted
<1>2. PICK g : Rounds(l, r, N, g) /\ Families!Merged(l, r) = g[N]
  BY <1>1, MergedIs
<1>3. \A n \in 0..N : g[n] = IF n = 0 THEN Unmerged ELSE Families!Advance(l, r, g[n - 1])
  BY <1>2 DEF Rounds
<1> DEFINE Bad == {n \in 0..N : ~Counts(l, r, n, g[n])}
<1>4. Bad = {}
  <2>1. SUFFICES ASSUME Bad # {} PROVE FALSE
    OBVIOUS
  <2>2. Bad \in SUBSET Nat
    BY <1>1
  <2>3. PICK n \in Bad : \A k \in Bad : n <= k
    BY <2>1, <2>2, LeastIsThere
  <2>4. CASE n = 0
    <3>1. g[n] = Unmerged
      BY <1>1, <1>3, <2>4
    <3>2. /\ Unmerged \in [left : 0..Len(l), right : 0..Len(r), shared : Nat, lost : BOOLEAN]
          /\ Unmerged.left = 0 /\ Unmerged.right = 0 /\ Unmerged.shared = 0 /\ Unmerged.lost = FALSE
      BY <1>1 DEF Unmerged
    <3>3. Cardinality(Both(l, r, 0, 0)) \in Nat
      BY <1>1, BothBounded
    <3>4. Counts(l, r, 0, Unmerged)
      BY <3>2, <3>3 DEF Counts, Shares
    <3>5. QED
      BY <2>3, <2>4, <3>1, <3>4
  <2>5. CASE n # 0
    <3>1. n \in Nat /\ n - 1 \in 0..N /\ ~(n <= n - 1) /\ n - 1 + 1 = n /\ n - 1 \in Nat
      BY <1>1, <2>3, <2>5
    <3>2. Counts(l, r, n - 1, g[n - 1])
      BY <2>3, <3>1
    <3>3. Counts(l, r, n - 1 + 1, Families!Advance(l, r, g[n - 1]))
      BY <3>1, <3>2, RoundCounts
    <3>4. g[n] = Families!Advance(l, r, g[n - 1])
      BY <1>3, <2>3, <2>5
    <3>5. QED
      BY <2>3, <3>1, <3>3, <3>4
  <2>6. QED
    BY <2>4, <2>5
<1>5. PICK m : m = g[N]
  OBVIOUS
<1>6. Counts(l, r, N, m)
  BY <1>1, <1>4, <1>5
<1>7. m.left \in 0..Len(l) /\ m.right \in 0..Len(r) /\ m.shared \in Nat /\ m.lost \in BOOLEAN
  BY <1>6 DEF Counts
<1>8. ASSUME ~m.lost PROVE m.shared = Shares(l, r)
  <2>1. m.shared + Cardinality(Both(l, r, m.left, m.right)) = Shares(l, r)
    BY <1>6, <1>8 DEF Counts
  <2>2. m.left = Len(l) \/ m.right = Len(r) \/ m.left + m.right >= N
    BY <1>6, <1>8 DEF Counts
  <2>3. m.left = Len(l) \/ m.right = Len(r)
    BY <1>1, <1>7, <2>2
  <2>4. /\ Cardinality(Both(l, r, m.left, m.right)) \in Nat
        /\ Cardinality(Both(l, r, m.left, m.right)) <= Len(l) - m.left
        /\ Cardinality(Both(l, r, m.left, m.right)) <= Len(r) - m.right
    BY <1>1, <1>7, BothBounded
  <2>5. Cardinality(Both(l, r, m.left, m.right)) = 0
    BY <1>1, <1>7, <2>3, <2>4
  <2>6. QED
    BY <1>7, <2>1, <2>5
<1>9. QED
  BY <1>2, <1>5, <1>6, <1>7, <1>8 DEF Counts

-----------------------------------------------------------------------------
(* Clone groups: the coefficient of two functions. *)

FamiliesTyped ==
  /\ shingled \in [Families!Function -> [file : CloneFiles, shingles : Shapes, eligible : BOOLEAN]]
  /\ occurrences \in OccurrenceLimits
  /\ candidates \subseteq Families!Candidates
  /\ parents \in [Families!Function -> Families!Function]
  /\ \A f \in Families!Function : parents[f] <= f

LEMMA SameSize == \A S : Families!Cardinality(S) = Cardinality(S)
  BY DEF Families!Cardinality, Cardinality, Families!IsFiniteSet, IsFiniteSet

LEMMA CoefficientIs ==
  ASSUME NEW a \in Nat, NEW t \in Nat
  PROVE  /\ Families!Coefficient(a, t) \in Nat
         /\ Families!Coefficient(a, t) >= Threshold <=> t # 0 /\ Families!CanReach(a, t)
<1>1. PICK w \in Nat, h \in Nat \ {0} : w = Whole /\ h = Threshold
  BY FamiliesAssumption
<1>2. CASE t = 0
  BY <1>1, <1>2 DEF Families!Coefficient
<1>3. CASE t # 0
  <2>1. PICK b \in Nat : b = w * 2 * a
    BY <1>1
  <2>2. b \div t \in Nat /\ (b \div t >= h <=> b >= h * t)
    BY <1>1, <1>3, Quotient
  <2>3. Families!Coefficient(a, t) = b \div t
    BY <1>1, <1>3, <2>1 DEF Families!Coefficient
  <2>4. QED
    BY <1>1, <1>3, <2>1, <2>2, <2>3 DEF Families!CanReach
<1>4. QED
  BY <1>2, <1>3

Shingles(f) == shingled[f].shingles

LEMMA SharedIs ==
  ASSUME FamiliesTyped, NEW f \in Families!Function, NEW g \in Families!Function
  PROVE  /\ Sorted(Shingles(f)) /\ Sorted(Shingles(g))
         /\ Families!Length(f) = Len(Shingles(f)) /\ Families!Length(f) \in Nat
         /\ Families!Shared(f, g) = Both(Shingles(f), Shingles(g), 0, 0)
         /\ Families!Dice(f, g) =
              Families!Coefficient(Shares(Shingles(f), Shingles(g)), Families!Length(f) + Families!Length(g))
<1>1. Shingles(f) \in Shapes /\ Shingles(g) \in Shapes
  BY DEF FamiliesTyped, Shingles
<1>2. Sorted(Shingles(f)) /\ Sorted(Shingles(g))
  BY <1>1, FamiliesAssumption DEF Sorted
<1>3. Families!Length(f) = Len(Shingles(f)) /\ Families!Length(g) = Len(Shingles(g)) /\ Families!Length(f) \in Nat
  BY <1>2 DEF Sorted, Families!Length, Shingles
<1>4. \A s : Families!Occurrences(f, s) = Count(Shingles(f), 0, s) /\ Families!Occurrences(g, s) = Count(Shingles(g), 0, s)
  <2>1. 0 + 1 = 1
    OBVIOUS
  <2>2. QED
    BY <1>3, <2>1, SameSize DEF Families!Occurrences, Count, Later, Shingles
<1>5. Families!Shared(f, g) = Both(Shingles(f), Shingles(g), 0, 0)
  BY <1>3, <1>4 DEF Families!Shared, Both, Shingles
<1>6. QED
  BY <1>2, <1>3, <1>5, SameSize DEF Families!Dice, Shares

(* The merge computes the coefficient of the pairs that are accepted, they *)
(* have a shingle in common, and no bound on it rules them out.            *)
LEMMA SimilarityIsDice ==
  ASSUME FamiliesTyped, NEW f \in Families!Function, NEW g \in Families!Function
  PROVE  /\ Families!Dice(f, g) \in Nat
         /\ Families!Similarity(f, g) >= Threshold <=> Families!Dice(f, g) >= Threshold
         /\ Families!Dice(f, g) >= Threshold => Families!Similarity(f, g) = Families!Dice(f, g)
<1>1. PICK l, r : l = Shingles(f) /\ r = Shingles(g)
  OBVIOUS
<1>2. PICK t \in Nat, d \in Nat : t = Len(l) + Len(r) /\ d = Shares(l, r)
  <2>1. l \in Seq(Nat) /\ r \in Seq(Nat)
    BY <1>1, SharedIs DEF Sorted
  <2>2. Shares(l, r) \in Nat
    BY <2>1, BothBounded DEF Shares
  <2>3. QED
    BY <2>1, <2>2
<1>3. /\ Sorted(l) /\ Sorted(r) /\ Families!Length(f) + Families!Length(g) = t
      /\ Families!Dice(f, g) = Families!Coefficient(d, t)
  BY <1>1, <1>2, SharedIs
<1>4. PICK m : m = Families!Merged(l, r)
  OBVIOUS
<1>5. /\ m.lost \in BOOLEAN
      /\ m.lost => ~Families!CanReach(d, t)
      /\ ~m.lost => m.shared = d
  BY <1>2, <1>3, <1>4, MergeCounts
<1>6. Families!Similarity(f, g) = IF m.lost THEN 0 ELSE Families!Coefficient(m.shared, t)
  BY <1>1, <1>3, <1>4 DEF Families!Similarity, Shingles
<1>7. Families!Dice(f, g) \in Nat /\ (Families!Dice(f, g) >= Threshold <=> t # 0 /\ Families!CanReach(d, t))
  BY <1>3, CoefficientIs
<1>8. ~(0 >= Threshold)
  BY FamiliesAssumption
<1>9. QED
  BY <1>3, <1>5, <1>6, <1>7, <1>8

LEMMA SimilarShare ==
  ASSUME FamiliesTyped, NEW f \in Families!Function, NEW g \in Families!Function,
         Families!Dice(f, g) >= Threshold
  PROVE  /\ \E s \in Families!Range(Shingles(f)) : s \in Families!Range(Shingles(g))
         /\ Families!CanReach(Families!Min({Families!Length(f), Families!Length(g)}), Families!Length(f) + Families!Length(g))
<1>1. PICK l \in Seq(Nat), r \in Seq(Nat) : l = Shingles(f) /\ r = Shingles(g)
  BY SharedIs DEF Sorted
<1>2. PICK t \in Nat, d \in Nat : t = Len(l) + Len(r) /\ d = Cardinality(Both(l, r, 0, 0))
  <2>1. 0 \in 0..Len(l) /\ 0 \in 0..Len(r)
    OBVIOUS
  <2>2. Cardinality(Both(l, r, 0, 0)) \in Nat
    BY <2>1, BothBounded
  <2>3. QED
    BY <2>2
<1>3. d <= Len(l) /\ d <= Len(r) /\ Len(l) \in Nat /\ Len(r) \in Nat
  BY <1>1, <1>2, BothBounded
<1>4. Families!Length(f) = Len(l) /\ Families!Length(g) = Len(r)
  BY <1>1, SharedIs
<1>5. t # 0 /\ Families!CanReach(d, t)
  <2>1. Families!Dice(f, g) = Families!Coefficient(d, t)
    BY <1>1, <1>2, <1>4, SharedIs DEF Shares
  <2>2. QED
    BY <2>1, CoefficientIs
<1>6. d # 0
  <2>1. ASSUME d = 0 PROVE FALSE
    <3>1. PICK w \in Nat, h \in Nat \ {0} : w = Whole /\ h = Threshold
      BY FamiliesAssumption
    <3>2. w * 2 * 0 = 0 /\ h * t \in Nat
      BY <3>1
    <3>3. h * t > 0
      BY <1>5, <3>1
    <3>4. QED
      BY <1>5, <2>1, <3>1, <3>2, <3>3 DEF Families!CanReach
  <2>2. QED
    BY <2>1
<1>7. PICK x : x \in Both(l, r, 0, 0)
  BY <1>2, <1>6, FS_EmptySet
<1>8. x[1] \in Families!Range(l) /\ x[2] \in Nat \ {0} /\ x[2] <= Count(r, 0, x[1])
  BY <1>7 DEF Both
<1>9. \E k \in 1..Len(r) : r[k] = x[1]
  <2>1. 0 \in 0..Len(r) /\ 0 + 1 = 1
    OBVIOUS
  <2>2. (\A k \in 1..Len(r) : r[k] # x[1]) => Count(r, 0, x[1]) = 0
    BY <2>1, CountIs
  <2>3. QED
    BY <1>8, <2>2
<1>10. x[1] \in Families!Range(r)
  BY <1>9 DEF Families!Range
<1>11. PICK n \in Nat : n = Families!Min({Len(l), Len(r)}) /\ d <= n
  <2>1. \E y \in {Len(l), Len(r)} : \A z \in {Len(l), Len(r)} : y <= z
    BY <1>3
  <2>2. Families!Min({Len(l), Len(r)}) \in {Len(l), Len(r)}
    BY <2>1 DEF Families!Min
  <2>3. QED
    BY <1>3, <2>2
<1>12. Families!CanReach(n, t)
  BY <1>5, <1>11, LessIsOutOfReach
<1>13. QED
  BY <1>1, <1>2, <1>4, <1>8, <1>10, <1>11, <1>12

LEMMA DiceIsMutual ==
  ASSUME FamiliesTyped, NEW f \in Families!Function, NEW g \in Families!Function
  PROVE  Families!Dice(f, g) = Families!Dice(g, f)
<1>1. \A l, r \in Seq(Nat) : \A x : x \in Both(l, r, 0, 0) => x \in Both(r, l, 0, 0)
  <2>1. TAKE l, r \in Seq(Nat)
  <2>2. TAKE x
  <2>3. HAVE x \in Both(l, r, 0, 0)
  <2>4. x = <<x[1], x[2]>> /\ x[2] \in Nat \ {0} /\ x[2] <= Count(l, 0, x[1]) /\ x[2] <= Count(r, 0, x[1])
    BY <2>3 DEF Both
  <2>5. /\ Count(r, 0, x[1]) \in 0..Len(r)
        /\ (\A k \in 1..Len(r) : r[k] # x[1]) => Count(r, 0, x[1]) = 0
    <3>1. 0 \in 0..Len(r) /\ 0 + 1 = 1
      OBVIOUS
    <3>2. Count(r, 0, x[1]) \in 0..Len(r)
      BY <3>1, CountIs
    <3>3. (\A k \in (0 + 1)..Len(r) : r[k] # x[1]) => Count(r, 0, x[1]) = 0
      BY <3>1, CountIs
    <3>4. QED
      BY <3>1, <3>2, <3>3
  <2>6. x[2] \in 1..Len(r)
    BY <2>4, <2>5
  <2>7. x[1] \in Families!Range(r)
    BY <2>4, <2>5 DEF Families!Range
  <2>8. QED
    BY <2>4, <2>6, <2>7 DEF Both
<1>2. PICK l \in Seq(Nat), r \in Seq(Nat) : l = Shingles(f) /\ r = Shingles(g)
  BY SharedIs DEF Sorted
<1>3. Both(l, r, 0, 0) = Both(r, l, 0, 0)
  BY <1>1
<1>4. Families!Length(f) + Families!Length(g) = Families!Length(g) + Families!Length(f)
  BY SharedIs
<1>5. QED
  BY <1>2, <1>3, <1>4, SharedIs DEF Shares

-----------------------------------------------------------------------------
(* Clone groups: disjoint sets. *)

Ups(p) == CHOOSE up : up = [g \in Families!Function |-> IF p[g] = g THEN g ELSE up[p[g]]]
LeadDown(p) == p \in [Families!Function -> Families!Function] /\ \A f \in Families!Function : p[f] <= f

LEMMA RootIsUp == \A f : Families!Root(f) = Ups(parents)[f]
  BY DEF Families!Root, Ups

LEMMA UpStep ==
  ASSUME NEW p, LeadDown(p), NEW f \in Families!Function
  PROVE  Ups(p)[f] = IF p[f] = f THEN f ELSE Ups(p)[p[f]]
<1> DEFINE Up(n, g) == g = [x \in 1..n |-> IF p[x] = x THEN x ELSE g[p[x]]]
           Bad == {n \in Nat : n <= FunctionCount /\ ~\E g : Up(n, g)}
<1>1. FunctionCount \in Nat /\ Families!Function = 1..FunctionCount
  BY FamiliesAssumption DEF Families!Function
<1>2. Bad = {}
  <2>1. SUFFICES ASSUME Bad # {} PROVE FALSE
    OBVIOUS
  <2>2. PICK n \in Bad : \A m \in Bad : n <= m
    BY <2>1, LeastIsThere
  <2>3. CASE n = 0
    <3> DEFINE g == [x \in 1..0 |-> x]
    <3>1. Up(0, g)
      OBVIOUS
    <3>2. QED
      BY <2>2, <2>3, <3>1
  <2>4. CASE n # 0
    <3>1. n \in Nat /\ n - 1 \in Nat /\ n - 1 <= FunctionCount /\ n <= FunctionCount /\ ~(n <= n - 1)
      BY <1>1, <2>2, <2>4
    <3>2. PICK g : Up(n - 1, g)
      BY <2>2, <3>1
    <3> DEFINE h == [x \in 1..n |-> IF x = n THEN (IF p[n] = n THEN n ELSE g[p[n]]) ELSE g[x]]
    <3>3. \A x \in 1..(n - 1) : g[x] = IF p[x] = x THEN x ELSE g[p[x]]
      BY <3>2
    <3>4. \A x \in 1..n : p[x] \in 1..x
      BY <1>1, <3>1 DEF LeadDown
    <3>5. \A x \in 1..n : h[x] = IF p[x] = x THEN x ELSE h[p[x]]
      <4>1. TAKE x \in 1..n
      <4>2. x \in Nat /\ p[x] \in Nat /\ p[x] <= x /\ p[x] \in 1..n
        BY <3>1, <3>4
      <4>3. CASE x = n
        <5>1. p[n] # n => h[p[n]] = g[p[n]]
          BY <4>2, <4>3
        <5>2. QED
          BY <4>3, <5>1
      <4>4. CASE x # n
        <5>1. x \in 1..(n - 1) /\ p[x] # n
          BY <3>1, <4>2, <4>4
        <5>2. h[x] = g[x] /\ h[p[x]] = g[p[x]]
          BY <4>2, <4>4, <5>1
        <5>3. QED
          BY <3>3, <5>1, <5>2
      <4>5. QED
        BY <4>3, <4>4
    <3>6. Up(n, h)
      BY <3>5
    <3>7. QED
      BY <2>2, <3>6
  <2>5. QED
    BY <2>3, <2>4
<1>3. \E g : Up(FunctionCount, g)
  BY <1>1, <1>2
<1>4. Ups(p) = [x \in Families!Function |-> IF p[x] = x THEN x ELSE Ups(p)[p[x]]]
  BY <1>1, <1>3 DEF Ups
<1>5. QED
  BY <1>4

LEMMA UpsAre ==
  ASSUME NEW p, LeadDown(p), NEW f \in Families!Function
  PROVE  Ups(p)[f] \in Families!Function /\ p[Ups(p)[f]] = Ups(p)[f]
<1>1. FunctionCount \in Nat /\ Families!Function = 1..FunctionCount
  BY FamiliesAssumption DEF Families!Function
<1>5. \A x \in Families!Function : Ups(p)[x] = IF p[x] = x THEN x ELSE Ups(p)[p[x]]
  BY UpStep
<1> DEFINE Lost == {x \in Families!Function : ~(Ups(p)[x] \in Families!Function /\ p[Ups(p)[x]] = Ups(p)[x])}
<1>6. Lost = {}
  <2>1. SUFFICES ASSUME Lost # {} PROVE FALSE
    OBVIOUS
  <2>2. Lost \in SUBSET Nat
    BY <1>1
  <2>3. PICK x \in Lost : \A y \in Lost : x <= y
    BY <2>1, <2>2, LeastIsThere
  <2>4. x \in Families!Function /\ x \in Nat /\ p[x] \in Families!Function /\ p[x] \in Nat /\ p[x] <= x
    BY <1>1, <2>3 DEF LeadDown
  <2>5. CASE p[x] = x
    BY <1>5, <2>3, <2>4, <2>5
  <2>6. CASE p[x] # x
    <3>1. p[x] \notin Lost
      BY <2>3, <2>4, <2>6
    <3>2. QED
      BY <1>5, <2>3, <2>4, <2>6, <3>1
  <2>7. QED
    BY <2>5, <2>6
<1>7. QED
  BY <1>5, <1>6

Joins(p, lo, hi, q) ==
  /\ LeadDown(p) /\ lo \in Families!Function /\ hi \in Families!Function
  /\ p[lo] = lo /\ p[hi] = hi /\ lo <= hi
  /\ q = [p EXCEPT ![hi] = lo]

(* Joining two roots moves the members of the higher to the lower.         *)
LEMMA UnionOf ==
  ASSUME NEW p, NEW lo, NEW hi, NEW q, Joins(p, lo, hi, q)
  PROVE  /\ LeadDown(q)
         /\ \A f \in Families!Function : Ups(q)[f] = IF Ups(p)[f] = hi THEN lo ELSE Ups(p)[f]
<1>1. FunctionCount \in Nat /\ Families!Function = 1..FunctionCount
  BY FamiliesAssumption DEF Families!Function
<1>2. LeadDown(q)
  BY DEF Joins, LeadDown
<1>3. /\ LeadDown(p) /\ lo \in Families!Function /\ p[lo] = lo /\ p[hi] = hi
      /\ \A f \in Families!Function : q[f] = IF f = hi THEN lo ELSE p[f]
  BY DEF Joins, LeadDown
<1> DEFINE Bad == {f \in Families!Function : Ups(q)[f] # IF Ups(p)[f] = hi THEN lo ELSE Ups(p)[f]}
<1>4. Bad = {}
  <2>1. SUFFICES ASSUME Bad # {} PROVE FALSE
    OBVIOUS
  <2>2. Bad \in SUBSET Nat
    BY <1>1
  <2>3. PICK f \in Bad : \A g \in Bad : f <= g
    BY <2>1, <2>2, LeastIsThere
  <2>4. f \in Families!Function /\ f \in Nat /\ p[f] \in Families!Function /\ p[f] \in Nat /\ p[f] <= f
    BY <1>1, <1>3, <2>3 DEF LeadDown
  <2>5. Ups(p)[f] = IF p[f] = f THEN f ELSE Ups(p)[p[f]]
    BY <1>3, <2>4, UpStep
  <2>6. Ups(q)[f] = IF q[f] = f THEN f ELSE Ups(q)[q[f]]
    BY <1>2, <2>4, UpStep
  <2>7. Ups(q)[lo] = lo
    <3>1. q[lo] = lo
      BY <1>3
    <3>2. QED
      BY <1>2, <1>3, <3>1, UpStep
  <2>8. CASE f = hi
    BY <1>3, <2>3, <2>5, <2>6, <2>7, <2>8
  <2>9. CASE f # hi /\ p[f] = f
    BY <1>3, <2>3, <2>4, <2>5, <2>6, <2>9
  <2>10. CASE f # hi /\ p[f] # f
    <3>1. ~(f <= p[f])
      BY <2>4, <2>10
    <3>2. p[f] \notin Bad
      BY <2>3, <3>1
    <3>3. Ups(q)[p[f]] = IF Ups(p)[p[f]] = hi THEN lo ELSE Ups(p)[p[f]]
      BY <2>4, <3>2
    <3>4. QED
      BY <1>3, <2>3, <2>4, <2>5, <2>6, <2>10, <3>3
  <2>11. QED
    BY <2>8, <2>9, <2>10
<1>5. QED
  BY <1>2, <1>4

-----------------------------------------------------------------------------
(* Clone groups: the classes while the pairs are compared. *)

Like(q) == Families!Dice(q[1], q[2]) >= Threshold
Rated(q) == [pair |-> q, similarity |-> Families!Dice(q[1], q[2])]

\* What has been compared and is alike is accepted.
Accepts == accepted = {Rated(q) : q \in {x \in Families!Candidates \ candidates : Like(x)}}

\* The two of an accepted pair are in one class,
Joined == \A a \in accepted : Families!Root(a.pair[1]) = Families!Root(a.pair[2])

\* and a set that parts no accepted pair parts no class.
Apart ==
  \A S \in SUBSET Families!Function :
      (\A a \in accepted : a.pair[1] \in S <=> a.pair[2] \in S)
      => \A f \in Families!Function : f \in S <=> Families!Root(f) \in S

Ended == outcome = "groups" => candidates = {} /\ clusters = Families!Maximal(Families!AllGroups)

FamiliesInv == FamiliesTyped /\ Accepts /\ Joined /\ Apart /\ Ended

LEMMA FamiliesStay ==
  ASSUME UNCHANGED <<shingled, occurrences>>
  PROVE  /\ Families!Candidates' = Families!Candidates
         /\ \A q : Like(q)' = Like(q) /\ Rated(q)' = Rated(q)
<1>1. \A f : Families!Length(f)' = Families!Length(f)
  BY DEF Families!Length
<1>2. Families!Eligible' = Families!Eligible
  BY DEF Families!Eligible
<1>3. \A s : Families!Bucket(s)' = Families!Bucket(s)
  BY <1>2 DEF Families!Bucket
<1>4. Families!Candidates' = Families!Candidates
  BY <1>1, <1>2, <1>3 DEF Families!Candidates
<1>5. \A f, g : Families!Dice(f, g)' = Families!Dice(f, g)
  <2>1. \A f, s : Families!Occurrences(f, s)' = Families!Occurrences(f, s)
    BY <1>1 DEF Families!Occurrences
  <2>2. \A f, g : Families!Shared(f, g)' = Families!Shared(f, g)
    BY <1>1, <2>1 DEF Families!Shared
  <2>3. QED
    BY <1>1, <2>2 DEF Families!Dice
<1>6. QED
  BY <1>4, <1>5 DEF Like, Rated

LEMMA CandidatesAre ==
  \A q \in Families!Candidates :
      /\ q = <<q[1], q[2]>> /\ q[1] \in Families!Eligible /\ q[2] \in Families!Eligible
      /\ q[1] \in Families!Function /\ q[2] \in Families!Function /\ q[1] # q[2]
<1>1. Families!Function \in SUBSET Nat
  BY FamiliesAssumption DEF Families!Function
<1>2. TAKE q \in Families!Candidates
<1>3. q \in Families!Eligible \X Families!Eligible /\ q[1] < q[2]
  BY DEF Families!Candidates
<1>4. q = <<q[1], q[2]>> /\ q[1] \in Families!Eligible /\ q[2] \in Families!Eligible
  BY <1>3
<1>5. q[1] \in Families!Function /\ q[2] \in Families!Function
  BY <1>4 DEF Families!Eligible
<1>6. q[1] # q[2]
  <2>1. q[1] \in Nat /\ q[2] \in Nat
    BY <1>1, <1>5
  <2>2. QED
    BY <1>3, <2>1
<1>7. QED
  BY <1>4, <1>5, <1>6

LEMMA FamiliesStart == Families!Init => FamiliesInv
<1> SUFFICES ASSUME Families!Init PROVE FamiliesInv
  OBVIOUS
<1>1. Families!Function \in SUBSET Nat
  BY FamiliesAssumption DEF Families!Function
<1>2. FamiliesTyped
  BY <1>1 DEF Families!Init, FamiliesTyped
<1>3. Accepts /\ Joined /\ Ended
  BY DEF Families!Init, Accepts, Joined, Ended
<1>4. \A f \in Families!Function : Families!Root(f) = f
  <2>1. LeadDown(parents)
    BY <1>2 DEF FamiliesTyped, LeadDown
  <2>2. \A f \in Families!Function : parents[f] = f
    BY DEF Families!Init
  <2>3. QED
    BY <2>1, <2>2, UpStep, RootIsUp
<1>5. Apart
  BY <1>4 DEF Apart
<1>6. QED
  BY <1>2, <1>3, <1>5 DEF FamiliesInv

LEMMA FamiliesGo == FamiliesInv /\ [Families!Next]_Families!vars => FamiliesInv'
<1> SUFFICES ASSUME FamiliesInv, [Families!Next]_Families!vars PROVE FamiliesInv'
  OBVIOUS
<1>1. CASE Families!Compare
  <2>1. PICK p \in candidates :
          /\ candidates' = candidates \ {p}
          /\ IF Families!Similarity(p[1], p[2]) >= Threshold
             THEN /\ parents' = Families!Union(p[1], p[2])
                  /\ accepted' = accepted \cup {[pair |-> p, similarity |-> Families!Similarity(p[1], p[2])]}
             ELSE UNCHANGED <<parents, accepted>>
    BY <1>1 DEF Families!Compare
  <2>2. outcome = "none" /\ UNCHANGED <<shingled, occurrences, outcome, clusters>>
    BY <1>1 DEF Families!Compare
  <2>3. FamiliesTyped /\ Accepts /\ Joined /\ Apart
    BY DEF FamiliesInv
  <2>4. p \in Families!Candidates /\ p[1] \in Families!Function /\ p[2] \in Families!Function
    BY <2>1, <2>3, CandidatesAre DEF FamiliesTyped
  <2>5. LeadDown(parents)
    BY <2>3 DEF FamiliesTyped, LeadDown
  <2>6. Families!Function \in SUBSET Nat
    BY FamiliesAssumption DEF Families!Function
  <2>7. /\ Families!Candidates' = Families!Candidates
        /\ \A q : Like(q)' = Like(q) /\ Rated(q)' = Rated(q)
    BY <2>2, FamiliesStay
  <2>8. Ended'
    BY <2>2 DEF Ended
  <2>9. CASE Like(p)
    <3>1. /\ parents' = Families!Union(p[1], p[2])
          /\ accepted' = accepted \cup {Rated(p)}
      BY <2>1, <2>3, <2>4, <2>9, SimilarityIsDice DEF Like, Rated
    <3>2. Accepts'
      BY <2>1, <2>3, <2>4, <2>7, <2>9, <3>1 DEF Accepts
    <3>3. PICK u, v : u = Families!Root(p[1]) /\ v = Families!Root(p[2])
      OBVIOUS
    <3>4. /\ u \in Families!Function /\ v \in Families!Function /\ u \in Nat /\ v \in Nat
          /\ parents[u] = u /\ parents[v] = v
      BY <2>4, <2>5, <2>6, <3>3, RootIsUp, UpsAre
    <3>5. PICK lo, hi : lo = Families!Min({u, v}) /\ hi = Families!Max({u, v})
      OBVIOUS
    <3>6. {lo, hi} = {u, v} /\ lo <= hi
      <4>1. (\E x \in {u, v} : \A y \in {u, v} : x <= y) /\ (\E x \in {u, v} : \A y \in {u, v} : x >= y)
        BY <3>4
      <4>2. lo \in {u, v} /\ \A y \in {u, v} : lo <= y
        BY <3>5, <4>1 DEF Families!Min
      <4>3. hi \in {u, v} /\ \A y \in {u, v} : hi >= y
        BY <3>5, <4>1 DEF Families!Max
      <4>4. QED
        BY <3>4, <4>2, <4>3
    <3>7. parents' = [parents EXCEPT ![hi] = lo]
      BY <3>1, <3>3, <3>5 DEF Families!Union
    <3>8. lo \in Families!Function /\ hi \in Families!Function /\ parents[lo] = lo /\ parents[hi] = hi
      BY <3>4, <3>6
    <3>9. /\ LeadDown(parents')
          /\ \A f \in Families!Function : Ups(parents')[f] = IF Ups(parents)[f] = hi THEN lo ELSE Ups(parents)[f]
      <4>1. PICK before, after : before = parents /\ after = parents'
        OBVIOUS
      <4>2. /\ LeadDown(before) /\ before[lo] = lo /\ before[hi] = hi
            /\ after = [before EXCEPT ![hi] = lo]
        BY <2>5, <3>7, <3>8, <4>1
      <4>3. Joins(before, lo, hi, after)
        BY <3>6, <3>8, <4>2 DEF Joins
      <4>4. /\ LeadDown(after)
            /\ \A f \in Families!Function : Ups(after)[f] = IF Ups(before)[f] = hi THEN lo ELSE Ups(before)[f]
        BY <4>3, UnionOf
      <4>5. QED
        BY <4>1, <4>4
    <3>10. \A f : Families!Root(f)' = Ups(parents')[f]
      BY DEF Families!Root, Ups
    <3>11. \A f \in Families!Function : Families!Root(f)' = IF Families!Root(f) = hi THEN lo ELSE Families!Root(f)
      BY <3>9, <3>10, RootIsUp
    <3>12. FamiliesTyped'
      BY <2>1, <2>2, <2>3, <2>7, <3>9 DEF FamiliesTyped, LeadDown
    <3>13. \A a \in accepted : a.pair[1] \in Families!Function /\ a.pair[2] \in Families!Function
      BY <2>3, CandidatesAre DEF Accepts, Rated
    <3>14. Rated(p).pair = p
      BY DEF Rated
    <3>15. Joined'
      <4>1. SUFFICES ASSUME NEW a \in accepted' PROVE Families!Root(a.pair[1])' = Families!Root(a.pair[2])'
        BY DEF Joined
      <4>2. CASE a \in accepted
        BY <2>3, <3>11, <3>13, <4>2 DEF Joined
      <4>3. CASE a = Rated(p)
        BY <2>4, <3>3, <3>6, <3>11, <3>14, <4>3
      <4>4. QED
        BY <3>1, <4>2, <4>3
    <3>16. Apart'
      <4>1. SUFFICES ASSUME NEW S \in SUBSET Families!Function,
                            \A a \in accepted' : a.pair[1] \in S <=> a.pair[2] \in S,
                            NEW f \in Families!Function
                     PROVE  f \in S <=> Families!Root(f)' \in S
        BY DEF Apart
      <4>2. \A g \in Families!Function : g \in S <=> Families!Root(g) \in S
        BY <2>3, <3>1, <4>1 DEF Apart
      <4>3. p[1] \in S <=> p[2] \in S
        BY <3>1, <3>14, <4>1
      <4>4. lo \in S <=> hi \in S
        BY <2>4, <3>3, <3>6, <4>2, <4>3
      <4>5. QED
        BY <3>11, <4>2, <4>4
    <3>17. QED
      BY <2>8, <3>2, <3>12, <3>15, <3>16 DEF FamiliesInv
  <2>10. CASE ~Like(p)
    <3>1. UNCHANGED <<parents, accepted>>
      BY <2>1, <2>3, <2>4, <2>10, SimilarityIsDice DEF Like
    <3>2. Accepts'
      BY <2>1, <2>3, <2>4, <2>7, <2>10, <3>1 DEF Accepts
    <3>3. \A f : Families!Root(f)' = Families!Root(f)
      BY <3>1 DEF Families!Root
    <3>4. FamiliesTyped'
      BY <2>1, <2>2, <2>3, <2>7, <3>1 DEF FamiliesTyped
    <3>5. Joined' /\ Apart'
      BY <2>3, <3>1, <3>3 DEF Joined, Apart
    <3>6. QED
      BY <2>8, <3>2, <3>4, <3>5 DEF FamiliesInv
  <2>11. QED
    BY <2>9, <2>10
<1>2. ASSUME UNCHANGED <<shingled, occurrences, candidates, parents, accepted>>, Ended' PROVE FamiliesInv'
  <2>1. /\ Families!Candidates' = Families!Candidates
        /\ \A q : Like(q)' = Like(q) /\ Rated(q)' = Rated(q)
    BY <1>2, FamiliesStay
  <2>2. \A f : Families!Root(f)' = Families!Root(f)
    BY <1>2 DEF Families!Root
  <2>3. FamiliesTyped' /\ Accepts'
    BY <1>2, <2>1 DEF FamiliesInv, FamiliesTyped, Accepts
  <2>4. Joined' /\ Apart'
    BY <1>2, <2>2 DEF FamiliesInv, Joined, Apart
  <2>5. QED
    BY <1>2, <2>3, <2>4 DEF FamiliesInv
<1>3. ASSUME UNCHANGED <<shingled, occurrences, candidates, parents, accepted>>
      PROVE  Families!Maximal(Families!AllGroups)' = Families!Maximal(Families!AllGroups)
  <2>1. \A f : Families!Root(f)' = Families!Root(f) /\ Families!Length(f)' = Families!Length(f)
    BY <1>3 DEF Families!Root, Families!Length
  <2>2. Families!Eligible' = Families!Eligible
    BY <1>3 DEF Families!Eligible
  <2>3. \A f : Families!Members(f)' = Families!Members(f)
    BY <2>1, <2>2 DEF Families!Members
  <2>4. \A f : Families!Group(f)' = Families!Group(f)
    BY <1>3, <2>1, <2>3 DEF Families!Group
  <2>5. Families!AllGroups' = Families!AllGroups
    BY <2>3, <2>4 DEF Families!AllGroups
  <2>6. \A g, h : Families!Contained(g, h)' = Families!Contained(g, h)
    BY <1>3, <2>1 DEF Families!Contained
  <2>7. QED
    BY <2>5, <2>6 DEF Families!Maximal
<1>4. CASE Families!FunctionGroups
  <2>1. Ended'
    BY <1>3, <1>4 DEF Families!FunctionGroups, Ended
  <2>2. QED
    BY <1>2, <1>4, <2>1 DEF Families!FunctionGroups
<1>5. CASE Families!ExceedBudget
  BY <1>2, <1>5 DEF Families!ExceedBudget, Ended
<1>6. CASE UNCHANGED Families!vars
  <2>1. Ended'
    BY <1>3, <1>6 DEF Families!vars, Ended, FamiliesInv
  <2>2. QED
    BY <1>2, <1>6, <2>1 DEF Families!vars
<1>7. QED
  BY <1>1, <1>4, <1>5, <1>6 DEF Families!Next

-----------------------------------------------------------------------------
(* Clone groups: the classes at the end are the families. *)

Closed == Families!ClosedSets(Families!Similar)
FamilyOf(f) == Families!Family(f, Closed)
FamilyRecord(c) ==
  [members |-> c, similarity |-> Families!Min({a.similarity : a \in {b \in Families!Similar : b.pair[1] \in c}})]

LEMMA SimilarAre ==
  /\ \A a : a \in Families!Similar <=>
        \E f, g \in Families!Eligible : f # g /\ Like(<<f, g>>) /\ a = Rated(<<f, g>>)
  /\ FamiliesTyped => \A f, g \in Families!Eligible :
        /\ Rated(<<f, g>>) \in Families!Similar <=> Rated(<<g, f>>) \in Families!Similar
        /\ Rated(<<f, g>>).pair = <<f, g>> /\ Rated(<<f, g>>).similarity = Rated(<<g, f>>).similarity
<1>1. \A a : a \in Families!Similar <=>
        \E f, g \in Families!Eligible : f # g /\ Like(<<f, g>>) /\ a = Rated(<<f, g>>)
  BY DEF Families!Similar, Like, Rated
<1>2. ASSUME FamiliesTyped, NEW f \in Families!Eligible, NEW g \in Families!Eligible
      PROVE  /\ Rated(<<f, g>>) \in Families!Similar <=> Rated(<<g, f>>) \in Families!Similar
             /\ Rated(<<f, g>>).pair = <<f, g>> /\ Rated(<<f, g>>).similarity = Rated(<<g, f>>).similarity
  <2>1. Families!Dice(f, g) = Families!Dice(g, f)
    BY <1>2, DiceIsMutual DEF Families!Eligible
  <2>2. /\ Rated(<<f, g>>).pair = <<f, g>> /\ Rated(<<g, f>>).pair = <<g, f>>
        /\ Rated(<<f, g>>).similarity = Rated(<<g, f>>).similarity
        /\ \A x, y : Rated(<<x, y>>).pair = <<x, y>>
    BY <2>1 DEF Rated
  <2>3. Like(<<f, g>>) <=> Like(<<g, f>>)
    BY <2>1 DEF Like
  <2>4. ASSUME NEW u \in Families!Eligible, NEW v \in Families!Eligible
        PROVE  Rated(<<u, v>>) \in Families!Similar <=> u # v /\ Like(<<u, v>>)
    <3>1. \A x, y : Rated(<<u, v>>) = Rated(<<x, y>>) => u = x /\ v = y
      <4>1. TAKE x, y
      <4>2. HAVE Rated(<<u, v>>) = Rated(<<x, y>>)
      <4>3. <<u, v>> = <<x, y>>
        BY <2>2, <4>2
      <4>4. QED
        BY <4>3
    <3>2. ASSUME Rated(<<u, v>>) \in Families!Similar PROVE u # v /\ Like(<<u, v>>)
      <4>1. PICK x, y \in Families!Eligible : x # y /\ Like(<<x, y>>) /\ Rated(<<u, v>>) = Rated(<<x, y>>)
        BY <1>1, <3>2
      <4>2. QED
        BY <3>1, <4>1
    <3>3. ASSUME u # v, Like(<<u, v>>) PROVE Rated(<<u, v>>) \in Families!Similar
      BY <1>1, <2>4, <3>3
    <3>4. QED
      BY <3>2, <3>3
  <2>5. QED
    BY <2>2, <2>3, <2>4
<1>3. QED
  BY <1>1, <1>2

LEMMA AcceptedAreSimilar ==
  ASSUME FamiliesTyped, Accepts
  PROVE  \A a \in accepted : \E f, g \in Families!Eligible :
             /\ f # g /\ a = Rated(<<f, g>>) /\ a.pair = <<f, g>>
             /\ a \in Families!Similar /\ Rated(<<g, f>>) \in Families!Similar
<1>1. TAKE a \in accepted
<1>2. PICK q \in Families!Candidates : Like(q) /\ a = Rated(q)
  BY DEF Accepts
<1>3. q = <<q[1], q[2]>> /\ q[1] \in Families!Eligible /\ q[2] \in Families!Eligible /\ q[1] # q[2]
  BY CandidatesAre
<1>4. a \in Families!Similar
  BY <1>2, <1>3, SimilarAre
<1>5. Rated(<<q[2], q[1]>>) \in Families!Similar /\ a.pair = <<q[1], q[2]>>
  BY <1>2, <1>3, <1>4, SimilarAre
<1>6. QED
  BY <1>2, <1>3, <1>4, <1>5

(* A class is inside the family of each of its members, *)
LEMMA ClassesAreUnmixed ==
  ASSUME FamiliesTyped, Accepts, Apart, NEW f \in Families!Eligible
  PROVE  Families!Members(Families!Root(f)) \subseteq FamilyOf(f)
<1>1. SUFFICES ASSUME NEW g \in Families!Members(Families!Root(f)), NEW S \in Closed, f \in S PROVE g \in S
  BY DEF FamilyOf, Families!Family, Families!Members
<1>2. /\ S \in SUBSET Families!Eligible
      /\ \A a \in Families!Similar : a.pair[1] \in S => a.pair[2] \in S
  BY DEF Closed, Families!ClosedSets
<1>3. S \in SUBSET Families!Function
  BY <1>2 DEF Families!Eligible
<1>4. \A a \in accepted : a.pair[1] \in S <=> a.pair[2] \in S
  <2>1. TAKE a \in accepted
  <2>2. PICK x, y \in Families!Eligible :
          /\ a.pair = <<x, y>> /\ a \in Families!Similar /\ Rated(<<y, x>>) \in Families!Similar
    BY AcceptedAreSimilar
  <2>3. Rated(<<y, x>>).pair = <<y, x>>
    BY SimilarAre
  <2>4. QED
    BY <1>2, <2>2, <2>3
<1>5. \A x \in Families!Function : x \in S <=> Families!Root(x) \in S
  BY <1>3, <1>4 DEF Apart
<1>6. f \in Families!Function /\ g \in Families!Function /\ Families!Root(g) = Families!Root(f)
  BY DEF Families!Members, Families!Eligible
<1>7. QED
  BY <1>1, <1>5, <1>6

(* and who is not alone in it is similar to another.                       *)
LEMMA NotAlone ==
  ASSUME FamiliesTyped, Accepts, Apart, NEW r, Families!Cardinality(Families!Members(r)) > 1,
         NEW f \in Families!Members(r)
  PROVE  \E a \in Families!Similar : a.pair[1] = f
<1>1. SUFFICES ASSUME \A a \in Families!Similar : a.pair[1] # f PROVE FALSE
  OBVIOUS
<1>2. f \in Families!Eligible /\ f \in Families!Function /\ Families!Root(f) = r
  BY DEF Families!Members, Families!Eligible
<1>3. PICK g \in Families!Members(r) : g # f
  <2>1. ASSUME \A g \in Families!Members(r) : g = f PROVE FALSE
    <3>1. Families!Members(r) = {f}
      BY <2>1
    <3>2. Cardinality({f}) = 1
      BY FS_Singleton
    <3>3. QED
      BY <3>1, <3>2, SameSize
  <2>2. QED
    BY <2>1
<1>4. \A a \in accepted : a.pair[1] \in {f} <=> a.pair[2] \in {f}
  <2>1. TAKE a \in accepted
  <2>2. PICK x, y \in Families!Eligible :
          /\ a.pair = <<x, y>> /\ a \in Families!Similar /\ Rated(<<y, x>>) \in Families!Similar
    BY AcceptedAreSimilar
  <2>3. Rated(<<y, x>>).pair = <<y, x>>
    BY SimilarAre
  <2>4. QED
    BY <1>1, <2>2, <2>3
<1>5. {f} \in SUBSET Families!Function
  BY <1>2
<1>6. \A x \in Families!Function : x \in {f} <=> Families!Root(x) \in {f}
  BY <1>4, <1>5 DEF Apart
<1>7. g \in Families!Function /\ Families!Root(g) = r
  BY DEF Families!Members, Families!Eligible
<1>8. QED
  BY <1>2, <1>3, <1>6, <1>7

(* With no full bucket, who is similar meets in one and is accepted.       *)
LEMMA NothingIsMissed ==
  ASSUME FamiliesTyped, Accepts, candidates = {}, occurrences >= FunctionCount,
         NEW f \in Families!Eligible, NEW g \in Families!Eligible, f < g, Like(<<f, g>>)
  PROVE  Rated(<<f, g>>) \in accepted
<1>1. FunctionCount \in Nat /\ Families!Function = 1..FunctionCount /\ occurrences \in Nat
  BY FamiliesAssumption DEF Families!Function, FamiliesTyped
<1>2. f \in 1..FunctionCount /\ g \in 1..FunctionCount
  BY <1>1 DEF Families!Eligible
<1>3. PICK s : s \in Families!Range(Shingles(f)) /\ s \in Families!Range(Shingles(g))
  BY <1>1, <1>2, SimilarShare DEF Like
<1> DEFINE All == {x \in Families!Eligible : s \in Families!Range(shingled[x].shingles)}
<1>4. f \in All /\ g \in All /\ All \subseteq 1..FunctionCount
  BY <1>1, <1>3 DEF Shingles, Families!Eligible
<1>5. \A x \in All : Families!Cardinality({y \in All : y < x}) < occurrences
  <2>1. TAKE x \in All
  <2>2. x \in 1..FunctionCount /\ x \in Nat /\ x - 1 \in Nat
    BY <1>1, <1>4
  <2>3. {y \in All : y < x} \subseteq 1..(x - 1)
    BY <1>1, <1>4, <2>2
  <2>4. IsFiniteSet(1..(x - 1)) /\ Cardinality(1..(x - 1)) = x - 1
    BY <2>2, FS_Interval, IntervalIs
  <2>5. /\ Cardinality({y \in All : y < x}) \in Nat
        /\ Cardinality({y \in All : y < x}) <= x - 1
    BY <2>3, <2>4, FS_Subset, FS_CardinalityType
  <2>6. QED
    BY <1>1, <2>2, <2>5, SameSize
<1>6. {f, g} \subseteq Families!Bucket(s)
  BY <1>4, <1>5 DEF Families!Bucket
<1>7. Families!CanReach(Families!Min({Families!Length(f), Families!Length(g)}), Families!Length(f) + Families!Length(g))
  BY <1>1, <1>2, SimilarShare DEF Like
<1>8. <<f, g>> \in Families!Candidates
  BY <1>3, <1>6, <1>7 DEF Families!Candidates, Shingles
<1>9. QED
  BY <1>8 DEF Accepts

LEMMA ClassesAreFamilies ==
  ASSUME FamiliesTyped, Accepts, Joined, Apart, candidates = {}, occurrences >= FunctionCount,
         NEW f \in Families!Eligible
  PROVE  /\ FamilyOf(f) = Families!Members(Families!Root(f))
         /\ \A a \in Families!Similar : Families!Root(a.pair[1]) = Families!Root(a.pair[2])
<1>1. FunctionCount \in Nat /\ Families!Eligible \subseteq Nat
  BY FamiliesAssumption DEF Families!Function, Families!Eligible
<1>2. \A a \in Families!Similar : Families!Root(a.pair[1]) = Families!Root(a.pair[2]) /\ a.pair[2] \in Families!Eligible
  <2>1. TAKE a \in Families!Similar
  <2>2. PICK x, y \in Families!Eligible : x # y /\ Like(<<x, y>>) /\ a = Rated(<<x, y>>)
    BY SimilarAre
  <2>3. /\ a.pair = <<x, y>> /\ Rated(<<y, x>>).pair = <<y, x>>
        /\ Rated(<<x, y>>) \in Families!Similar <=> Rated(<<y, x>>) \in Families!Similar
    BY <2>2, SimilarAre
  <2>4. x < y \/ y < x
    BY <1>1, <2>2
  <2>5. CASE x < y
    <3>1. a \in accepted
      BY <2>2, <2>5, NothingIsMissed
    <3>2. QED
      BY <2>3, <3>1 DEF Joined
  <2>6. CASE y < x
    <3>1. PICK b : b = Rated(<<y, x>>)
      OBVIOUS
    <3>2. Like(<<y, x>>)
      <4>1. Families!Dice(x, y) = Families!Dice(y, x)
        BY DiceIsMutual DEF Families!Eligible
      <4>2. QED
        BY <2>2, <4>1 DEF Like
    <3>3. b \in accepted
      BY <2>6, <3>1, <3>2, NothingIsMissed
    <3>4. b.pair[1] = y /\ b.pair[2] = x
      BY <2>3, <3>1
    <3>5. QED
      BY <2>3, <3>3, <3>4 DEF Joined
  <2>7. QED
    BY <2>4, <2>5, <2>6
<1>3. PICK r : r = Families!Root(f)
  OBVIOUS
<1>4. Families!Members(r) \in Closed
  BY <1>2 DEF Closed, Families!ClosedSets, Families!Members
<1>5. f \in Families!Members(r)
  BY <1>3 DEF Families!Members
<1>6. FamilyOf(f) \subseteq Families!Members(r)
  BY <1>4, <1>5 DEF FamilyOf, Families!Family
<1>7. QED
  BY <1>2, <1>3, <1>6, ClassesAreUnmixed

LEMMA SimilaritiesAgree ==
  ASSUME FamiliesTyped, Accepts, Joined, Apart, candidates = {}, occurrences >= FunctionCount, NEW r
  PROVE  {a.similarity : a \in {b \in accepted : Families!Root(b.pair[1]) = r}}
           = {a.similarity : a \in {b \in Families!Similar : b.pair[1] \in Families!Members(r)}}
<1>1. FunctionCount \in Nat /\ Families!Eligible \subseteq Nat
  BY FamiliesAssumption DEF Families!Function, Families!Eligible
<1>2. ASSUME NEW a \in accepted, Families!Root(a.pair[1]) = r
      PROVE  a \in Families!Similar /\ a.pair[1] \in Families!Members(r)
  <2>1. PICK x, y \in Families!Eligible : a.pair = <<x, y>> /\ a \in Families!Similar
    BY AcceptedAreSimilar
  <2>2. QED
    BY <1>2, <2>1 DEF Families!Members
<1>3. ASSUME NEW a \in Families!Similar, a.pair[1] \in Families!Members(r)
      PROVE  \E b \in accepted : Families!Root(b.pair[1]) = r /\ b.similarity = a.similarity
  <2>1. PICK x, y \in Families!Eligible : x # y /\ Like(<<x, y>>) /\ a = Rated(<<x, y>>)
    BY SimilarAre
  <2>2. /\ a.pair = <<x, y>> /\ Rated(<<y, x>>).pair = <<y, x>>
        /\ Rated(<<x, y>>).similarity = Rated(<<y, x>>).similarity
    BY <2>1, SimilarAre
  <2>3. Families!Root(x) = r /\ Families!Root(y) = r
    <3>1. Families!Root(a.pair[1]) = Families!Root(a.pair[2])
      BY <2>1, ClassesAreFamilies
    <3>2. QED
      BY <1>3, <2>2, <3>1 DEF Families!Members
  <2>4. x < y \/ y < x
    BY <1>1, <2>1
  <2>5. CASE x < y
    <3>1. a \in accepted
      BY <2>1, <2>5, NothingIsMissed
    <3>2. QED
      BY <2>2, <2>3, <3>1
  <2>6. CASE y < x
    <3>1. PICK b : b = Rated(<<y, x>>)
      OBVIOUS
    <3>2. Like(<<y, x>>)
      <4>1. Families!Dice(x, y) = Families!Dice(y, x)
        BY DiceIsMutual DEF Families!Eligible
      <4>2. QED
        BY <2>1, <4>1 DEF Like
    <3>3. b \in accepted
      BY <2>6, <3>1, <3>2, NothingIsMissed
    <3>4. b.pair[1] = y /\ b.similarity = a.similarity
      BY <2>1, <2>2, <3>1
    <3>5. QED
      BY <2>3, <3>3, <3>4
  <2>7. QED
    BY <2>4, <2>5, <2>6
<1>4. QED
  BY <1>2, <1>3

LEMMA LengthsAreNumbers ==
  ASSUME FamiliesTyped, NEW r, Families!Members(r) # {}
  PROVE  Families!Group(r).length \in Nat
<1> DEFINE L == {Families!Length(f) : f \in Families!Members(r)}
<1>1. L \in SUBSET Nat
  BY SharedIs DEF Families!Members, Families!Eligible
<1>2. L # {}
  OBVIOUS
<1>3. PICK m \in L : \A n \in L : m <= n
  BY <1>1, <1>2, LeastIsThere
<1>4. Families!Min(L) \in L
  BY <1>3 DEF Families!Min
<1>5. QED
  BY <1>1, <1>4 DEF Families!Group

LEMMA FamiliesAreGrouped ==
  ASSUME FamiliesInv PROVE GroupsAreFamilies
<1> SUFFICES ASSUME outcome = "groups" PROVE Families!GroupsAreFamilies
  BY DEF GroupsAreFamilies, Families!GroupsAreFamilies
<1>1. FamiliesTyped /\ Accepts /\ Joined /\ Apart
  BY DEF FamiliesInv
<1>2. candidates = {} /\ clusters = Families!Maximal(Families!AllGroups)
  BY DEF FamiliesInv, Ended
<1>3. PICK families : families = Families!Families(Families!Similar)
  OBVIOUS
<1>4. families = {FamilyRecord(c) : c \in {FamilyOf(a.pair[1]) : a \in Families!Similar}}
  BY <1>3 DEF Families!Families, FamilyRecord, FamilyOf, Closed
<1>5. \A r : /\ Families!Group(r).members = Families!Members(r)
             /\ FamilyRecord(r).members = r
  BY DEF Families!Group, FamilyRecord
<1>6. \A h \in Families!AllGroups : \E r \in Families!Function :
          h = Families!Group(r) /\ Families!Cardinality(Families!Members(r)) > 1
  BY DEF Families!AllGroups
<1>7. \A r : Families!Cardinality(Families!Members(r)) > 1 => Families!Members(r) # {}
  BY FS_EmptySet, SameSize
<1>8. \A h \in Families!AllGroups : \E a \in Families!Similar :
          a.pair[1] \in h.members /\ h.members \subseteq FamilyOf(a.pair[1])
  <2>1. TAKE h \in Families!AllGroups
  <2>2. PICK r \in Families!Function : h = Families!Group(r) /\ Families!Cardinality(Families!Members(r)) > 1
    BY <1>6
  <2>3. PICK f : f \in Families!Members(r)
    BY <1>7, <2>2
  <2>4. f \in Families!Eligible /\ Families!Root(f) = r
    BY <2>3 DEF Families!Members
  <2>5. PICK a \in Families!Similar : a.pair[1] = f
    BY <1>1, <2>2, <2>3, NotAlone
  <2>6. Families!Members(r) \subseteq FamilyOf(f)
    BY <1>1, <2>4, ClassesAreUnmixed
  <2>7. QED
    BY <1>5, <2>2, <2>3, <2>5, <2>6
<1>9. \A g \in clusters : \E fam \in families : g.members \subseteq fam.members
  <2>1. TAKE g \in clusters
  <2>2. g \in Families!AllGroups
    BY <1>2 DEF Families!Maximal
  <2>3. PICK a \in Families!Similar : g.members \subseteq FamilyOf(a.pair[1])
    BY <1>8, <2>2
  <2>4. FamilyRecord(FamilyOf(a.pair[1])) \in families /\ FamilyRecord(FamilyOf(a.pair[1])).members = FamilyOf(a.pair[1])
    BY <1>4, <1>5
  <2>5. QED
    BY <2>3, <2>4
<1>10. ASSUME occurrences >= FunctionCount, NEW fam \in families
       PROVE  Families!Reported(fam) \/ Families!Shadowed(fam, families)
  <2>1. PICK a \in Families!Similar : fam = FamilyRecord(FamilyOf(a.pair[1]))
    BY <1>4
  <2>2. PICK f, g \in Families!Eligible : f # g /\ a = Rated(<<f, g>>)
    BY SimilarAre
  <2>3. a.pair[1] = f /\ a.pair[2] = g
    <3>1. a.pair = <<f, g>>
      BY <1>1, <2>2, SimilarAre
    <3>2. QED
      BY <3>1
  <2>4. PICK r : r = Families!Root(f)
    OBVIOUS
  <2>5. FamilyOf(f) = Families!Members(r) /\ Families!Root(g) = r
    BY <1>1, <1>2, <1>10, <2>2, <2>3, <2>4, ClassesAreFamilies
  <2>6. f \in Families!Members(r) /\ g \in Families!Members(r)
    BY <2>4, <2>5 DEF Families!Members
  <2>7. r \in Families!Function
    BY <1>1, <2>4, RootIsUp, UpsAre DEF FamiliesTyped, LeadDown, Families!Eligible
  <2>8. Families!Cardinality(Families!Members(r)) > 1
    <3>1. IsFiniteSet(Families!Function)
      BY FamiliesAssumption, FS_Interval DEF Families!Function
    <3>2. Families!Members(r) \subseteq Families!Function
      BY DEF Families!Members, Families!Eligible
    <3>3. IsFiniteSet(Families!Members(r)) /\ {f, g} \subseteq Families!Members(r)
      BY <2>6, <3>1, <3>2, FS_Subset
    <3>4. Cardinality({f, g}) = 2
      <4>1. IsFiniteSet({f}) /\ Cardinality({f}) = 1
        BY FS_Singleton
      <4>2. Cardinality({f} \cup {g}) = 1 + 1
        BY <2>2, <4>1, FS_AddElement
      <4>3. {f, g} = {f} \cup {g}
        OBVIOUS
      <4>4. QED
        BY <4>2, <4>3
    <3>5. /\ Cardinality({f, g}) <= Cardinality(Families!Members(r))
          /\ Cardinality(Families!Members(r)) \in Nat
      BY <3>3, FS_Subset, FS_CardinalityType
    <3>6. QED
      BY <3>4, <3>5, SameSize
  <2>9. PICK grp : grp = Families!Group(r)
    OBVIOUS
  <2>10. grp \in Families!AllGroups
    BY <2>7, <2>8, <2>9 DEF Families!AllGroups
  <2>11. grp.members = fam.members /\ fam.members = Families!Members(r)
    BY <1>5, <2>1, <2>3, <2>5, <2>9
  <2>12. grp.similarity = fam.similarity
    <3>1. {x.similarity : x \in {b \in accepted : Families!Root(b.pair[1]) = r}}
            = {x.similarity : x \in {b \in Families!Similar : b.pair[1] \in Families!Members(r)}}
      BY <1>1, <1>2, <1>10, SimilaritiesAgree
    <3>2. fam = FamilyRecord(Families!Members(r))
      BY <2>1, <2>3, <2>5
    <3>3. QED
      BY <2>9, <3>1, <3>2 DEF Families!Group, FamilyRecord
  <2>13. CASE grp \in clusters
    BY <2>11, <2>12, <2>13 DEF Families!Reported
  <2>14. CASE grp \notin clusters
    <3>1. PICK h \in Families!AllGroups : Families!Contained(grp, h)
      BY <1>2, <2>10, <2>14 DEF Families!Maximal
    <3>2. PICK q \in Families!Function : h = Families!Group(q) /\ Families!Cardinality(Families!Members(q)) > 1
      BY <1>6
    <3>3. PICK e : e \in Families!Members(q)
      BY <1>7, <3>2
    <3>4. e \in Families!Eligible /\ Families!Root(e) = q
      BY <3>3 DEF Families!Members
    <3>5. PICK b \in Families!Similar : b.pair[1] = e
      BY <1>1, <3>2, <3>3, NotAlone
    <3>6. FamilyOf(e) = Families!Members(q)
      BY <1>1, <1>2, <1>10, <3>4, ClassesAreFamilies
    <3>7. PICK other : other = FamilyRecord(Families!Members(q))
      OBVIOUS
    <3>8. other \in families /\ other.members = h.members
      BY <1>4, <1>5, <3>2, <3>5, <3>6, <3>7
    <3>9. other # fam
      <4>1. SUFFICES ASSUME Families!Members(q) = Families!Members(r) PROVE FALSE
        BY <1>5, <2>11, <3>7
      <4>2. h.length = grp.length
        BY <2>9, <3>2, <4>1 DEF Families!Group
      <4>3. grp.length \in Nat
        BY <1>1, <1>7, <2>8, <2>9, LengthsAreNumbers
      <4>4. grp.length < h.length
        BY <3>1 DEF Families!Contained
      <4>5. QED
        BY <4>2, <4>3, <4>4
    <3>10. \A x \in grp.members : \E y \in h.members : shingled[x].file = shingled[y].file
      BY <3>1 DEF Families!Contained
    <3>11. QED
      BY <2>11, <3>8, <3>9, <3>10 DEF Families!Shadowed
  <2>15. QED
    BY <2>13, <2>14
<1>11. QED
  BY <1>3, <1>9, <1>10 DEF Families!GroupsAreFamilies

(* For any functions, threshold and limits: a group is part of one family, *)
(* and with no full bucket every family is a group with its least          *)
(* similarity, or shares its files with another (find_function_duplicates, *)
(* accept_function_pairs, function_groups).                                *)
THEOREM GroupsStayFamilies == Families!Spec => []GroupsAreFamilies
<1>1. FamiliesInv /\ [Families!Next]_Families!vars => FamiliesInv'
  BY FamiliesGo
<1>2. FamiliesInv => GroupsAreFamilies
  BY FamiliesAreGrouped
<1>3. QED
  BY FamiliesStart, <1>1, <1>2, PTL DEF Families!Spec

-----------------------------------------------------------------------------
(* Identities: the lexicographic order of keys is a strict total order.    *)

Numbers == Seq(Nat)

LEMMA NumbersAre ==
  ASSUME NEW s \in Numbers
  PROVE  Len(s) \in Nat /\ DOMAIN s = 1..Len(s) /\ \A k \in Nat \ {0} : k <= Len(s) => s[k] \in Nat
<1>1. s \in Seq(Nat)
  BY DEF Numbers
<1>2. Len(s) \in Nat /\ DOMAIN s = 1..Len(s) /\ s \in [1..Len(s) -> Nat]
  BY <1>1, LenProperties
<1>3. QED
  BY <1>2

(* Two sequences part where the first is shorter or has the lesser number. *)
Parts(s, t, n) ==
  /\ n \in Nat \ {0} /\ n <= Len(t)
  /\ \A m \in Nat \ {0} : m < n => m <= Len(s) /\ s[m] = t[m]
  /\ n > Len(s) \/ s[n] < t[n]

LEMMA BeforeIs ==
  ASSUME NEW s \in Numbers, NEW t \in Numbers
  PROVE  Identities!Before(s, t) <=> \E n : Parts(s, t, n)
<1>1. Len(s) \in Nat /\ Len(t) \in Nat
  BY NumbersAre
<1>2. ASSUME Identities!Before(s, t) PROVE \E n : Parts(s, t, n)
  <2>1. PICK n \in 1..Len(t) :
          (\A m \in 1..(n - 1) : m <= Len(s) /\ s[m] = t[m]) /\ (n > Len(s) \/ s[n] < t[n])
    BY <1>2 DEF Identities!Before
  <2>2. n \in Nat \ {0} /\ n <= Len(t) /\ \A m \in Nat \ {0} : m < n => m \in 1..(n - 1)
    BY <1>1
  <2>3. Parts(s, t, n)
    BY <2>1, <2>2 DEF Parts
  <2>4. QED
    BY <2>3
<1>3. ASSUME NEW n, Parts(s, t, n) PROVE Identities!Before(s, t)
  <2>1. n \in 1..Len(t) /\ \A m \in 1..(n - 1) : m \in Nat \ {0} /\ m < n
    BY <1>1, <1>3 DEF Parts
  <2>2. QED
    BY <1>3, <2>1 DEF Parts, Identities!Before
<1>4. QED
  BY <1>2, <1>3

LEMMA BeforeOrder ==
  /\ \A s \in Numbers : ~Identities!Before(s, s)
  /\ \A s, t \in Numbers : s # t => Identities!Before(s, t) \/ Identities!Before(t, s)
  /\ \A s, t, u \in Numbers :
       Identities!Before(s, t) /\ Identities!Before(t, u) => Identities!Before(s, u)
<1>1. ASSUME NEW s \in Numbers, Identities!Before(s, s) PROVE FALSE
  <2>1. PICK n : Parts(s, s, n)
    BY <1>1, BeforeIs
  <2>2. Len(s) \in Nat /\ n \in Nat \ {0} /\ n <= Len(s) /\ s[n] \in Nat
    BY <2>1, NumbersAre DEF Parts
  <2>3. QED
    BY <2>1, <2>2 DEF Parts
<1>2. ASSUME NEW s \in Numbers, NEW t \in Numbers, s # t
      PROVE  Identities!Before(s, t) \/ Identities!Before(t, s)
  <2> DEFINE D == {n \in Nat \ {0} : n > Len(s) \/ n > Len(t) \/ s[n] # t[n]}
  <2>1. Len(s) \in Nat /\ Len(t) \in Nat
    BY NumbersAre
  <2>2. Len(s) + 1 \in D /\ D \in SUBSET Nat
    BY <2>1
  <2>3. PICK n \in D : \A m \in D : n <= m
    BY <2>2, LeastIsThere
  <2>4. n \in Nat \ {0} /\ \A m \in Nat \ {0} : m < n => m <= Len(s) /\ m <= Len(t) /\ s[m] = t[m]
    BY <2>1, <2>3
  <2>5. CASE n > Len(s) /\ n > Len(t)
    <3>1. Len(s) = Len(t)
      <4>1. \A a, b \in Nat : n > a /\ n > b /\ (\A m \in Nat \ {0} : m < n => m <= a /\ m <= b) => a = b
        <5>1. SUFFICES ASSUME NEW a \in Nat, NEW b \in Nat, n > a, n > b,
                              \A m \in Nat \ {0} : m < n => m <= a /\ m <= b
                       PROVE  a = b
          OBVIOUS
        <5>2. CASE n = 1
          BY <5>1, <5>2
        <5>3. CASE n # 1
          <6>1. n - 1 \in Nat \ {0} /\ n - 1 < n
            BY <2>4, <5>3
          <6>2. n - 1 <= a /\ n - 1 <= b
            BY <5>1, <6>1
          <6>3. QED
            BY <2>4, <5>1, <6>2
        <5>4. QED
          BY <5>2, <5>3
      <4>2. QED
        BY <2>1, <2>4, <2>5, <4>1
    <3>2. \A i \in 1..Len(s) : s[i] = t[i]
      BY <2>1, <2>4, <2>5
    <3>3. s \in Seq(Nat) /\ t \in Seq(Nat)
      BY DEF Numbers
    <3>4. QED
      BY <1>2, <3>1, <3>2, <3>3, SeqEqual
  <2>6. CASE n > Len(s) /\ n <= Len(t)
    <3>1. Parts(s, t, n)
      BY <2>4, <2>6 DEF Parts
    <3>2. QED
      BY <3>1, BeforeIs
  <2>7. CASE n <= Len(s) /\ n > Len(t)
    <3>1. Parts(t, s, n)
      BY <2>4, <2>7 DEF Parts
    <3>2. QED
      BY <3>1, BeforeIs
  <2>8. CASE n <= Len(s) /\ n <= Len(t)
    <3>1. s[n] \in Nat /\ t[n] \in Nat /\ s[n] # t[n]
      BY <2>1, <2>3, <2>4, <2>8, NumbersAre
    <3>2. CASE s[n] < t[n]
      <4>1. Parts(s, t, n)
        BY <2>4, <2>8, <3>2 DEF Parts
      <4>2. QED
        BY <4>1, BeforeIs
    <3>3. CASE t[n] < s[n]
      <4>1. Parts(t, s, n)
        BY <2>4, <2>8, <3>3 DEF Parts
      <4>2. QED
        BY <4>1, BeforeIs
    <3>4. QED
      BY <3>1, <3>2, <3>3
  <2>9. QED
    BY <2>1, <2>4, <2>5, <2>6, <2>7, <2>8
<1>3. ASSUME NEW s \in Numbers, NEW t \in Numbers, NEW u \in Numbers,
             Identities!Before(s, t), Identities!Before(t, u)
      PROVE  Identities!Before(s, u)
  <2>1. PICK n : Parts(s, t, n)
    BY <1>3, BeforeIs
  <2>2. PICK m : Parts(t, u, m)
    BY <1>3, BeforeIs
  <2>3. Len(s) \in Nat /\ Len(t) \in Nat /\ Len(u) \in Nat
    BY NumbersAre
  <2>4. n \in Nat \ {0} /\ m \in Nat \ {0}
    BY <2>1, <2>2 DEF Parts
  <2>5. CASE n < m
    <3>1. n <= Len(t) /\ t[n] = u[n] /\ n <= Len(u)
      BY <2>2, <2>3, <2>4, <2>5 DEF Parts
    <3>2. Parts(s, u, n)
      BY <2>1, <2>2, <2>3, <2>4, <2>5, <3>1 DEF Parts
    <3>3. QED
      BY <3>2, BeforeIs
  <2>6. CASE m < n
    <3>1. m <= Len(s) /\ s[m] = t[m] /\ m <= Len(t)
      BY <2>1, <2>3, <2>4, <2>6 DEF Parts
    <3>2. Parts(s, u, m)
      BY <2>1, <2>2, <2>3, <2>4, <2>6, <3>1 DEF Parts
    <3>3. QED
      BY <3>2, BeforeIs
  <2>7. CASE n = m
    <3>1. n <= Len(t) /\ n <= Len(u) /\ t[n] \in Nat /\ u[n] \in Nat /\ t[n] < u[n]
      BY <2>1, <2>2, <2>3, <2>4, <2>7, NumbersAre DEF Parts
    <3>2. n > Len(s) \/ s[n] < u[n]
      <4>1. CASE n > Len(s)
        BY <4>1
      <4>2. CASE ~(n > Len(s))
        <5>1. s[n] \in Nat /\ s[n] < t[n]
          BY <2>1, <2>3, <2>4, <4>2, NumbersAre DEF Parts
        <5>2. QED
          BY <3>1, <5>1
      <4>3. QED
        BY <4>1, <4>2
    <3>3. Parts(s, u, n)
      BY <2>1, <2>2, <2>4, <2>7, <3>1, <3>2 DEF Parts
    <3>4. QED
      BY <3>3, BeforeIs
  <2>8. QED
    BY <2>4, <2>5, <2>6, <2>7
<1>4. QED
  BY <1>1, <1>2, <1>3

-----------------------------------------------------------------------------
(* Identities: entries come in the order of their ranks.                   *)

Entries(E) ==
  /\ IsFiniteSet(E)
  /\ \A e \in E : e.key \in Numbers /\ e.at \in Nat
  /\ \A d, e \in E : d.at = e.at => d = e

LEMMA SoonerOrder ==
  ASSUME NEW E, Entries(E)
  PROVE  /\ \A e \in E : ~Identities!Sooner(e, e)
         /\ \A d, e \in E : d # e => Identities!Sooner(d, e) \/ Identities!Sooner(e, d)
         /\ \A c, d, e \in E : Identities!Sooner(c, d) /\ Identities!Sooner(d, e) => Identities!Sooner(c, e)
<1>1. ASSUME NEW e \in E PROVE ~Identities!Sooner(e, e)
  <2>1. e.key \in Numbers /\ e.at \in Nat
    BY DEF Entries
  <2>2. ~Identities!Before(e.key, e.key) /\ ~(e.at < e.at)
    BY <2>1, BeforeOrder
  <2>3. QED
    BY <2>2 DEF Identities!Sooner
<1>2. ASSUME NEW d \in E, NEW e \in E, d # e PROVE Identities!Sooner(d, e) \/ Identities!Sooner(e, d)
  <2>1. d.key \in Numbers /\ e.key \in Numbers /\ d.at \in Nat /\ e.at \in Nat /\ d.at # e.at
    BY <1>2 DEF Entries
  <2>2. d.at < e.at \/ e.at < d.at
    BY <2>1
  <2>3. d.key # e.key => Identities!Before(d.key, e.key) \/ Identities!Before(e.key, d.key)
    BY <2>1, BeforeOrder
  <2>4. QED
    BY <2>2, <2>3 DEF Identities!Sooner
<1>3. ASSUME NEW c \in E, NEW d \in E, NEW e \in E, Identities!Sooner(c, d), Identities!Sooner(d, e)
      PROVE  Identities!Sooner(c, e)
  <2>1. /\ c.key \in Numbers /\ d.key \in Numbers /\ e.key \in Numbers
        /\ c.at \in Nat /\ d.at \in Nat /\ e.at \in Nat
    BY DEF Entries
  <2>2. c.at < d.at /\ d.at < e.at => c.at < e.at
    BY <2>1
  <2>3. Identities!Before(c.key, d.key) /\ Identities!Before(d.key, e.key) => Identities!Before(c.key, e.key)
    BY <2>1, BeforeOrder
  <2>4. QED
    BY <1>3, <2>2, <2>3 DEF Identities!Sooner
<1>4. QED
  BY <1>1, <1>2, <1>3

RankIn(e, E) == Cardinality(Identities!Preceding(e, E)) + 1
Ranking(E) == [e \in E |-> RankIn(e, E)]

LEMMA RanksAre ==
  ASSUME NEW E, Entries(E)
  PROVE  /\ Cardinality(E) \in Nat
         /\ Ranking(E) \in Bijection(E, 1..Cardinality(E))
<1>1. IsFiniteSet(E) /\ Cardinality(E) \in Nat
  BY FS_CardinalityType DEF Entries
<1>2. ASSUME NEW e \in E
      PROVE  /\ IsFiniteSet(Identities!Preceding(e, E)) /\ Cardinality(Identities!Preceding(e, E)) \in Nat
             /\ Cardinality(Identities!Preceding(e, E)) < Cardinality(E)
  <2>1. e \notin Identities!Preceding(e, E) /\ Identities!Preceding(e, E) \in SUBSET E
    BY SoonerOrder DEF Identities!Preceding
  <2>2. IsFiniteSet(Identities!Preceding(e, E)) /\ Cardinality(Identities!Preceding(e, E)) <= Cardinality(E)
        /\ (Cardinality(E) = Cardinality(Identities!Preceding(e, E)) => E = Identities!Preceding(e, E))
    BY <1>1, <2>1, FS_Subset
  <2>3. Cardinality(Identities!Preceding(e, E)) \in Nat
    BY <2>2, FS_CardinalityType
  <2>4. QED
    BY <1>1, <2>1, <2>2, <2>3
<1>3. ASSUME NEW d \in E, NEW e \in E, Identities!Sooner(d, e)
      PROVE  Cardinality(Identities!Preceding(d, E)) < Cardinality(Identities!Preceding(e, E))
  <2>1. Identities!Preceding(d, E) \in SUBSET Identities!Preceding(e, E)
    BY <1>3, SoonerOrder DEF Identities!Preceding
  <2>2. d \in Identities!Preceding(e, E) /\ d \notin Identities!Preceding(d, E)
    BY <1>3, SoonerOrder DEF Identities!Preceding
  <2>3. IsFiniteSet(Identities!Preceding(e, E)) /\ Cardinality(Identities!Preceding(e, E)) \in Nat
        /\ Cardinality(Identities!Preceding(d, E)) \in Nat
    BY <1>2
  <2>4. /\ Cardinality(Identities!Preceding(d, E)) <= Cardinality(Identities!Preceding(e, E))
        /\ Cardinality(Identities!Preceding(e, E)) = Cardinality(Identities!Preceding(d, E))
              => Identities!Preceding(e, E) = Identities!Preceding(d, E)
    BY <2>1, <2>3, FS_Subset
  <2>5. QED
    BY <2>2, <2>3, <2>4
<1>4. Ranking(E) \in [E -> 1..Cardinality(E)]
  <2>1. \A e \in E : RankIn(e, E) \in 1..Cardinality(E)
    BY <1>1, <1>2 DEF RankIn
  <2>2. QED
    BY <2>1 DEF Ranking
<1>5. \A d, e \in E : Ranking(E)[d] = Ranking(E)[e] => d = e
  <2>1. SUFFICES ASSUME NEW d \in E, NEW e \in E, d # e PROVE RankIn(d, E) # RankIn(e, E)
    BY DEF Ranking
  <2>2. Identities!Sooner(d, e) \/ Identities!Sooner(e, d)
    BY <2>1, SoonerOrder
  <2>3. Cardinality(Identities!Preceding(d, E)) \in Nat /\ Cardinality(Identities!Preceding(e, E)) \in Nat
    BY <1>2
  <2>4. Cardinality(Identities!Preceding(d, E)) # Cardinality(Identities!Preceding(e, E))
    BY <1>3, <2>2, <2>3
  <2>5. QED
    BY <2>3, <2>4 DEF RankIn
<1>6. Ranking(E) \in Injection(E, 1..Cardinality(E))
  BY <1>4, <1>5 DEF Injection, IsInjective
<1>7. IsFiniteSet(1..Cardinality(E)) /\ Cardinality(1..Cardinality(E)) = Cardinality(E)
  BY <1>1, IntervalIs
<1>8. Ranking(E) \in Surjection(E, 1..Cardinality(E))
  BY <1>6, <1>7, FS_Injection
<1>9. QED
  BY <1>1, <1>6, <1>8 DEF Bijection

LEMMA SameNumber == \A S : Identities!Cardinality(S) = Cardinality(S)
  BY DEF Identities!Cardinality, Cardinality

(* The n-th is the one that has the n-th rank.                             *)
LEMMA InOrderIs ==
  ASSUME NEW E, Entries(E)
  PROVE  /\ Identities!InOrder(E) = [n \in 1..Cardinality(E) |-> Identities!InOrder(E)[n]]
         /\ \A n \in 1..Cardinality(E) : \E e \in E : RankIn(e, E) = n
         /\ \A e \in E : RankIn(e, E) \in 1..Cardinality(E) /\ Identities!InOrder(E)[RankIn(e, E)] = e.mutation
<1> DEFINE ranked == {[rank |-> Identities!Cardinality(Identities!Preceding(e, E)) + 1, entry |-> e] : e \in E}
           order == [n \in 1..Identities!Cardinality(E) |-> (CHOOSE r \in ranked : r.rank = n).entry.mutation]
<1>1. Identities!InOrder(E) = order
  BY DEF Identities!InOrder
<1>a. Identities!Cardinality(E) = Cardinality(E)
  BY SameNumber
<1>b. \A e : [rank |-> Identities!Cardinality(Identities!Preceding(e, E)) + 1, entry |-> e]
             = [rank |-> RankIn(e, E), entry |-> e]
  BY SameNumber DEF RankIn
<1>2. /\ \A e \in E : RankIn(e, E) \in 1..Cardinality(E)
      /\ \A d, e \in E : RankIn(d, E) = RankIn(e, E) => d = e
      /\ \A n \in 1..Cardinality(E) : \E e \in E : RankIn(e, E) = n
  <2>1. Ranking(E) \in Injection(E, 1..Cardinality(E)) /\ Ranking(E) \in Surjection(E, 1..Cardinality(E))
    BY RanksAre DEF Bijection
  <2>2. QED
    BY <2>1 DEF Injection, IsInjective, Surjection, Ranking
<1>3. ASSUME NEW e \in E PROVE order[RankIn(e, E)] = e.mutation
  <2>1. \A d \in E : [rank |-> RankIn(d, E), entry |-> d] \in ranked
    BY <1>b
  <2>2. \A x \in ranked : x.entry \in E /\ x.rank = RankIn(x.entry, E)
    <3>1. TAKE x \in ranked
    <3>2. PICK d \in E : x = [rank |-> RankIn(d, E), entry |-> d]
      BY <1>b
    <3>3. QED
      BY <3>2
  <2> DEFINE r == CHOOSE x \in ranked : x.rank = RankIn(e, E)
  <2>3. r \in ranked /\ r.rank = RankIn(e, E)
    <3> HIDE DEF ranked
    <3>1. \E x \in ranked : x.rank = RankIn(e, E)
      <4>1. [rank |-> RankIn(e, E), entry |-> e].rank = RankIn(e, E)
        OBVIOUS
      <4>2. QED
        BY <2>1, <4>1
    <3>2. QED
      BY <3>1
  <2>4. r.entry = e
    <3> HIDE DEF r
    <3>1. r.entry \in E /\ RankIn(r.entry, E) = RankIn(e, E)
      BY <2>2, <2>3
    <3>2. QED
      BY <1>2, <3>1
  <2>5. QED
    BY <1>2, <1>a, <2>4
<1>4. QED
  BY <1>1, <1>2, <1>3, <1>a

LEMMA SameOrder ==
  ASSUME NEW E, NEW F, Entries(E), Entries(F),
         NEW f \in [E -> F], \A y \in F : \E x \in E : f[x] = y,
         \A d, e \in E : Identities!Sooner(d, e) => Identities!Sooner(f[d], f[e]),
         \A e \in E : f[e].mutation = e.mutation
  PROVE  Identities!InOrder(E) = Identities!InOrder(F)
<1>1. \A d, e \in E : d # e => f[d] # f[e]
  BY SoonerOrder
<1>2. \A d, e \in E : Identities!Sooner(f[d], f[e]) => Identities!Sooner(d, e)
  BY SoonerOrder
<1>3. IsFiniteSet(E) /\ IsFiniteSet(F)
  BY DEF Entries
<1>4. Cardinality(E) = Cardinality(F)
  <2>1. f \in Bijection(E, F)
    BY <1>1 DEF Bijection, Injection, IsInjective, Surjection
  <2>2. ExistsBijection(E, F)
    BY <2>1 DEF ExistsBijection
  <2>3. QED
    BY <1>3, <2>2, FS_Bijection
<1>5. ASSUME NEW e \in E PROVE RankIn(f[e], F) = RankIn(e, E)
  <2> DEFINE S == Identities!Preceding(e, E)
             T == Identities!Preceding(f[e], F)
             g == [d \in S |-> f[d]]
  <2>1. S \in SUBSET E /\ T \in SUBSET F
    BY DEF Identities!Preceding
  <2>2. g \in [S -> T]
    BY <2>1 DEF Identities!Preceding
  <2>3. \A y \in T : \E x \in S : g[x] = y
    BY <1>2, <2>1 DEF Identities!Preceding
  <2>4. g \in Bijection(S, T)
    BY <1>1, <2>1, <2>2, <2>3 DEF Bijection, Injection, IsInjective, Surjection
  <2>5. ExistsBijection(S, T) /\ IsFiniteSet(S)
    BY <1>3, <2>1, <2>4, FS_Subset DEF ExistsBijection
  <2>6. Cardinality(T) = Cardinality(S)
    BY <2>5, FS_Bijection
  <2>7. QED
    BY <2>6 DEF RankIn
<1>6. ASSUME NEW n \in 1..Cardinality(E) PROVE Identities!InOrder(E)[n] = Identities!InOrder(F)[n]
  <2>1. PICK e \in E : RankIn(e, E) = n
    BY InOrderIs
  <2>2. Identities!InOrder(E)[n] = e.mutation
    BY <2>1, InOrderIs
  <2>3. Identities!InOrder(F)[RankIn(f[e], F)] = f[e].mutation
    BY InOrderIs
  <2>4. QED
    BY <1>5, <2>1, <2>2, <2>3
<1>7. /\ Identities!InOrder(E) = [n \in 1..Cardinality(E) |-> Identities!InOrder(E)[n]]
      /\ Identities!InOrder(F) = [n \in 1..Cardinality(F) |-> Identities!InOrder(F)[n]]
  BY InOrderIs
<1>8. QED
  BY <1>4, <1>6, <1>7

(* What is listed one after another with a key each.                       *)
Listing(K, M, n) == {Identities!Entry(K[i], i, M[i]) : i \in 1..n}

LEMMA EntryIs ==
  \A k, i, m : LET e == Identities!Entry(k, i, m) IN e.key = k /\ e.at = i /\ e.mutation = m
  BY DEF Identities!Entry

LEMMA ListingIs ==
  ASSUME NEW n \in Nat, NEW K, \A i \in 1..n : K[i] \in Numbers, NEW M
  PROVE  Entries(Listing(K, M, n)) /\ Cardinality(Listing(K, M, n)) = n
<1> DEFINE f == [i \in 1..n |-> Identities!Entry(K[i], i, M[i])]
<1>1. IsFiniteSet(1..n) /\ Cardinality(1..n) = n
  BY IntervalIs
<1>2. f \in Bijection(1..n, Listing(K, M, n))
  <2>1. f \in [1..n -> Listing(K, M, n)] /\ \A y \in Listing(K, M, n) : \E i \in 1..n : f[i] = y
    BY DEF Listing
  <2>2. \A i, j \in 1..n : f[i] = f[j] => i = j
    BY EntryIs
  <2>3. QED
    BY <2>1, <2>2 DEF Bijection, Injection, IsInjective, Surjection
<1>3. ExistsBijection(1..n, Listing(K, M, n))
  BY <1>2 DEF ExistsBijection
<1>4. IsFiniteSet(Listing(K, M, n)) /\ Cardinality(Listing(K, M, n)) = n
  BY <1>1, <1>3, FS_Bijection
<1>5. \A e \in Listing(K, M, n) : e.key \in Numbers /\ e.at \in Nat
  <2>1. TAKE e \in Listing(K, M, n)
  <2>2. PICK i \in 1..n : e = Identities!Entry(K[i], i, M[i])
    BY DEF Listing
  <2>3. QED
    BY <2>2, EntryIs
<1>6. \A d, e \in Listing(K, M, n) : d.at = e.at => d = e
  <2>1. TAKE d, e \in Listing(K, M, n)
  <2>2. PICK i \in 1..n, j \in 1..n : d = Identities!Entry(K[i], i, M[i]) /\ e = Identities!Entry(K[j], j, M[j])
    BY DEF Listing
  <2>3. QED
    BY <2>2, EntryIs
<1>7. QED
  BY <1>4, <1>5, <1>6 DEF Entries

(* A sequence that has what is listed, each at one place.                  *)
Arranges(s, M, n) ==
  /\ s = [k \in 1..n |-> s[k]]
  /\ \E p \in [1..n -> 1..n] :
       /\ \A i, j \in 1..n : i # j => p[i] # p[j]
       /\ \A k \in 1..n : \E i \in 1..n : p[i] = k
       /\ \A i \in 1..n : s[p[i]] = M[i]

LEMMA ListingIsArranged ==
  ASSUME NEW n \in Nat, NEW K, \A i \in 1..n : K[i] \in Numbers, NEW M
  PROVE  Arranges(Identities!InOrder(Listing(K, M, n)), M, n)
<1> DEFINE E == Listing(K, M, n)
           f == [i \in 1..n |-> Identities!Entry(K[i], i, M[i])]
           p == [i \in 1..n |-> RankIn(f[i], E)]
<1>1. Entries(E) /\ Cardinality(E) = n
  BY ListingIs
<1>2. \A i \in 1..n : f[i] \in E /\ f[i].at = i /\ f[i].mutation = M[i]
  BY EntryIs DEF Listing
<1>3. \A e \in E : \E i \in 1..n : f[i] = e
  BY DEF Listing
<1> HIDE DEF E, f
<1>4. Ranking(E) \in Injection(E, 1..n)
  BY <1>1, RanksAre DEF Bijection
<1>5. \A d, e \in E : RankIn(d, E) = RankIn(e, E) => d = e
  BY <1>4 DEF Injection, IsInjective, Ranking
<1>6. /\ Identities!InOrder(E) = [k \in 1..n |-> Identities!InOrder(E)[k]]
      /\ \A k \in 1..n : \E e \in E : RankIn(e, E) = k
      /\ \A e \in E : RankIn(e, E) \in 1..n /\ Identities!InOrder(E)[RankIn(e, E)] = e.mutation
  BY <1>1, InOrderIs
<1>7. p \in [1..n -> 1..n]
  BY <1>2, <1>6
<1>8. \A i, j \in 1..n : i # j => p[i] # p[j]
  BY <1>2, <1>5
<1>9. \A k \in 1..n : \E i \in 1..n : p[i] = k
  BY <1>3, <1>6
<1>10. \A i \in 1..n : Identities!InOrder(E)[p[i]] = M[i]
  BY <1>2, <1>6
<1>11. QED
  <2> HIDE DEF p
  <2>1. Arranges(Identities!InOrder(E), M, n)
    BY <1>6, <1>7, <1>8, <1>9, <1>10 DEF Arranges
  <2>2. QED
    BY <2>1 DEF E

(* It does not matter which of two neighbours comes first, unless they have the
   same key and are not the same.                                          *)
Turned(i, k) == IF i = k THEN k + 1 ELSE IF i = k + 1 THEN k ELSE i

LEMMA TurningIs ==
  ASSUME NEW n \in Nat, NEW k \in 1..(n - 1)
  PROVE  /\ \A i \in 1..n : Turned(i, k) \in 1..n /\ Turned(Turned(i, k), k) = i
         /\ \A i, j \in 1..n : i < j => Turned(i, k) < Turned(j, k) \/ (i = k /\ j = k + 1)
<1>1. k \in Nat \ {0} /\ k + 1 \in 1..n /\ k \in 1..n
  OBVIOUS
<1>2. QED
  BY <1>1 DEF Turned

Exchanged(n, k, K, M, L, N) ==
  /\ n \in Nat /\ k \in 1..(n - 1)
  /\ \A i \in 1..n : K[i] \in Numbers
  /\ K[k] = K[k + 1] => M[k] = M[k + 1]
  /\ \A i \in 1..n : L[i] = K[Turned(i, k)] /\ N[i] = M[Turned(i, k)]

LEMMA SwapKeeps ==
  ASSUME NEW n, NEW k, NEW K, NEW M, NEW L, NEW N, Exchanged(n, k, K, M, L, N)
  PROVE  Identities!InOrder(Listing(L, N, n)) = Identities!InOrder(Listing(K, M, n))
<1> n \in Nat /\ k \in 1..(n - 1)
  BY DEF Exchanged
<1>a. /\ \A i \in 1..n : K[i] \in Numbers
      /\ K[k] = K[k + 1] => M[k] = M[k + 1]
      /\ \A i \in 1..n : L[i] = K[Turned(i, k)] /\ N[i] = M[Turned(i, k)]
  BY DEF Exchanged
<1>1. CASE K[k] = K[k + 1]
  <2>1. \A i \in 1..n : L[i] = K[i] /\ N[i] = M[i]
    BY <1>1, <1>a DEF Turned
  <2>2. Listing(L, N, n) = Listing(K, M, n)
    BY <2>1 DEF Listing
  <2>3. QED
    BY <2>2
<1>2. CASE K[k] # K[k + 1]
  <2> DEFINE E == Listing(K, M, n)
             F == Listing(L, N, n)
             f == [e \in E |-> Identities!Entry(e.key, Turned(e.at, k), e.mutation)]
  <2>1. \A i \in 1..n : Turned(i, k) \in 1..n /\ Turned(Turned(i, k), k) = i
    BY TurningIs
  <2>2. \A i \in 1..n : L[i] \in Numbers
    BY <1>a, <2>1
  <2>3. Entries(E) /\ Entries(F)
    BY <1>a, <2>2, ListingIs
  <2>4. \A i \in 1..n : /\ Identities!Entry(K[i], i, M[i]) \in E
                        /\ f[Identities!Entry(K[i], i, M[i])] = Identities!Entry(K[i], Turned(i, k), M[i])
                        /\ Identities!Entry(K[i], Turned(i, k), M[i]) \in F
    <3>1. TAKE i \in 1..n
    <3>2. Identities!Entry(K[i], i, M[i]) \in E
      BY DEF Listing
    <3>3. f[Identities!Entry(K[i], i, M[i])] = Identities!Entry(K[i], Turned(i, k), M[i])
      BY <3>2, EntryIs
    <3>4. L[Turned(i, k)] = K[i] /\ N[Turned(i, k)] = M[i] /\ Turned(i, k) \in 1..n
      BY <1>a, <2>1
    <3>5. Identities!Entry(K[i], Turned(i, k), M[i]) \in F
      BY <3>4 DEF Listing
    <3>6. QED
      BY <3>2, <3>3, <3>5
  <2>5. \A e \in E : \E i \in 1..n : e = Identities!Entry(K[i], i, M[i])
    BY DEF Listing
  <2>6. f \in [E -> F]
    <3>1. ASSUME NEW e \in E PROVE f[e] \in F
      <4>1. PICK i \in 1..n : e = Identities!Entry(K[i], i, M[i])
        BY <2>5
      <4>2. QED
        BY <2>4, <4>1
    <3>2. QED
      BY <3>1
  <2>7. ASSUME NEW y \in F PROVE \E x \in E : f[x] = y
    <3>1. PICK j \in 1..n : y = Identities!Entry(L[j], j, N[j])
      BY DEF Listing
    <3>2. PICK i \in 1..n : i = Turned(j, k)
      BY <2>1
    <3>3. Turned(i, k) = j /\ L[j] = K[i] /\ N[j] = M[i]
      BY <1>a, <2>1, <3>2
    <3>4. QED
      BY <2>4, <3>1, <3>3
  <2>8. ASSUME NEW d \in E, NEW e \in E, Identities!Sooner(d, e) PROVE Identities!Sooner(f[d], f[e])
    <3>1. PICK i \in 1..n, j \in 1..n : d = Identities!Entry(K[i], i, M[i]) /\ e = Identities!Entry(K[j], j, M[j])
      BY <2>5
    <3>2. /\ d.key = K[i] /\ d.at = i /\ e.key = K[j] /\ e.at = j
          /\ f[d].key = K[i] /\ f[d].at = Turned(i, k) /\ f[e].key = K[j] /\ f[e].at = Turned(j, k)
      <4> HIDE DEF f, E, F
      <4>1. QED
        BY <2>4, <3>1, EntryIs
    <3>3. CASE Identities!Before(K[i], K[j])
      <4> HIDE DEF f, E, F
      <4>1. QED
        BY <3>2, <3>3 DEF Identities!Sooner
    <3>4. CASE K[i] = K[j] /\ i < j
      <4> HIDE DEF f, E, F
      <4>1. Turned(i, k) < Turned(j, k)
        BY <1>2, <3>4, TurningIs
      <4>2. QED
        BY <3>2, <3>4, <4>1 DEF Identities!Sooner
    <3>5. QED
      <4> HIDE DEF f, E, F
      <4>1. QED
        BY <2>8, <3>2, <3>3, <3>4 DEF Identities!Sooner
  <2>9. \A e \in E : f[e].mutation = e.mutation
    BY EntryIs
  <2>10. QED
    <3> HIDE DEF f, E, F
    <3>1. Identities!InOrder(E) = Identities!InOrder(F)
      BY <2>3, <2>6, <2>7, <2>8, <2>9, SameOrder
    <3>2. QED
      BY <3>1 DEF E, F
<1>3. QED
  BY <1>1, <1>2

-----------------------------------------------------------------------------
(* Identities: structural identities are typed, and locations tell mutations
   apart.                                                                  *)

Edit ==
  [file : EditNames, symbol : EditNames, operator : EditNames, original : EditNames,
   replacement : EditNames, line : Nat, column : Nat, fingerprint : Seq(Nat)]

LEMMA JoinedAre ==
  ASSUME NEW a \in Numbers, NEW s \in Numbers
  PROVE  /\ a \o s \in Numbers
         /\ Len(a \o s) = Len(a) + Len(s)
         /\ \A i \in 1..(Len(a) + Len(s)) : (a \o s)[i] = IF i <= Len(a) THEN a[i] ELSE s[i - Len(a)]
<1>1. a \in Seq(Nat) /\ s \in Seq(Nat)
  BY DEF Numbers
<1>2. QED
  BY <1>1, ConcatProperties DEF Numbers

LEMMA JoinedApart ==
  ASSUME NEW a \in Numbers, NEW b \in Numbers, NEW s \in Numbers, NEW t \in Numbers,
         Len(a) = Len(b), a \o s = b \o t
  PROVE  a = b /\ s = t
<1>1. Len(a) \in Nat /\ Len(b) \in Nat /\ Len(s) \in Nat /\ Len(t) \in Nat
  BY NumbersAre
<1>2. Len(s) = Len(t)
  <2>1. Len(a \o s) = Len(a) + Len(s)
    BY JoinedAre
  <2>2. Len(b \o t) = Len(b) + Len(t)
    BY JoinedAre
  <2>3. Len(a \o s) = Len(b \o t)
    BY Zenon
  <2>4. QED
    BY <1>1, <2>1, <2>2, <2>3
<1>3. \A i \in 1..Len(a) : a[i] = b[i]
  <2>1. TAKE i \in 1..Len(a)
  <2>2. i \in 1..(Len(a) + Len(s)) /\ i \in 1..(Len(b) + Len(t)) /\ i <= Len(a) /\ i <= Len(b)
    BY <1>1, <1>2
  <2>3. (a \o s)[i] = a[i] /\ (b \o t)[i] = b[i]
    BY <2>2, JoinedAre
  <2>4. QED
    BY <2>3
<1>4. \A i \in 1..Len(s) : s[i] = t[i]
  <2>1. TAKE i \in 1..Len(s)
  <2>2. PICK j \in 1..(Len(a) + Len(s)) : j = Len(a) + i
    BY <1>1
  <2>3. j \in 1..(Len(b) + Len(t)) /\ ~(j <= Len(a)) /\ ~(j <= Len(b)) /\ j - Len(a) = i /\ j - Len(b) = i
    BY <1>1, <1>2, <2>2
  <2>4. (a \o s)[j] = IF j <= Len(a) THEN a[j] ELSE s[j - Len(a)]
    BY JoinedAre
  <2>5. (b \o t)[j] = IF j <= Len(b) THEN b[j] ELSE t[j - Len(b)]
    BY <2>3, JoinedAre
  <2>6. (a \o s)[j] = s[i] /\ (b \o t)[j] = t[i]
    BY <2>3, <2>4, <2>5, Zenon
  <2>7. QED
    BY <2>6, Zenon
<1>5. a \in Seq(Nat) /\ b \in Seq(Nat) /\ s \in Seq(Nat) /\ t \in Seq(Nat)
  BY DEF Numbers
<1>6. a = b
  BY <1>3, <1>5, SeqEqual
<1>7. s = t
  BY <1>2, <1>4, <1>5, SeqEqual
<1>8. QED
  BY <1>6, <1>7

Triples == {<<a, b, c>> : a \in Nat, b \in Nat, c \in Nat}

LEMMA TriplesAre ==
  ASSUME NEW x \in Triples, NEW y \in Triples
  PROVE  /\ x \in Numbers /\ Len(x) = 3 /\ x[1] \in Nat /\ x[2] \in Nat /\ x[3] \in Nat
         /\ x[1] = y[1] /\ x[2] = y[2] /\ x[3] = y[3] => x = y
         /\ x[1] < y[1] => Identities!Before(x, y)
         /\ x[1] = y[1] /\ x[2] < y[2] => Identities!Before(x, y)
         /\ x[1] = y[1] /\ x[2] = y[2] /\ x[3] < y[3] => Identities!Before(x, y)
<1>1. PICK a \in Nat, b \in Nat, c \in Nat : x = <<a, b, c>>
  BY DEF Triples
<1>2. PICK d \in Nat, e \in Nat, f \in Nat : y = <<d, e, f>>
  BY DEF Triples
<1>3. Len(x) = 3 /\ x[1] = a /\ x[2] = b /\ x[3] = c /\ Len(y) = 3 /\ y[1] = d /\ y[2] = e /\ y[3] = f
  BY <1>1, <1>2
<1>4. x \in Numbers /\ y \in Numbers
  BY <1>1, <1>2 DEF Numbers
<1>5. ASSUME x[1] < y[1] PROVE Identities!Before(x, y)
  <2>1. Parts(x, y, 1)
    BY <1>3, <1>5 DEF Parts
  <2>2. QED
    BY <1>4, <2>1, BeforeIs
<1>6. ASSUME x[1] = y[1], x[2] < y[2] PROVE Identities!Before(x, y)
  <2>1. Parts(x, y, 2)
    BY <1>3, <1>6 DEF Parts
  <2>2. QED
    BY <1>4, <2>1, BeforeIs
<1>7. ASSUME x[1] = y[1], x[2] = y[2], x[3] < y[3] PROVE Identities!Before(x, y)
  <2>1. \A m \in Nat \ {0} : m < 3 => m = 1 \/ m = 2
    OBVIOUS
  <2>2. Parts(x, y, 3)
    BY <1>3, <1>7, <2>1 DEF Parts
  <2>3. QED
    BY <1>4, <2>2, BeforeIs
<1>8. QED
  BY <1>1, <1>2, <1>3, <1>4, <1>5, <1>6, <1>7

LEMMA LeastTriple ==
  ASSUME NEW S \in SUBSET Triples, S # {}
  PROVE  \E x \in S : \A y \in S : x = y \/ Identities!Before(x, y)
<1>1. \A x \in S : x \in Triples /\ x[1] \in Nat /\ x[2] \in Nat /\ x[3] \in Nat
  BY TriplesAre
<1>2. PICK x1 \in S : \A y \in S : x1[1] <= y[1]
  <2> DEFINE A == {x[1] : x \in S}
  <2>1. A \in SUBSET Nat /\ A # {}
    BY <1>1
  <2>2. PICK a \in A : \A b \in A : a <= b
    BY <2>1, LeastIsThere
  <2>3. QED
    BY <2>2
<1>3. PICK x2 \in S : x2[1] = x1[1] /\ \A y \in S : y[1] = x1[1] => x2[2] <= y[2]
  <2> DEFINE A == {x[2] : x \in {z \in S : z[1] = x1[1]}}
  <2>1. A \in SUBSET Nat /\ A # {}
    BY <1>1
  <2>2. PICK a \in A : \A b \in A : a <= b
    BY <2>1, LeastIsThere
  <2>3. QED
    BY <2>2
<1>4. PICK x3 \in S : /\ x3[1] = x1[1] /\ x3[2] = x2[2]
                      /\ \A y \in S : y[1] = x1[1] /\ y[2] = x2[2] => x3[3] <= y[3]
  <2> DEFINE A == {x[3] : x \in {z \in S : z[1] = x1[1] /\ z[2] = x2[2]}}
  <2>1. A \in SUBSET Nat /\ A # {}
    BY <1>1, <1>3
  <2>2. PICK a \in A : \A b \in A : a <= b
    BY <2>1, LeastIsThere
  <2>3. QED
    BY <2>2
<1>5. ASSUME NEW y \in S PROVE x3 = y \/ Identities!Before(x3, y)
  <2>1. /\ x3[1] \in Nat /\ x3[2] \in Nat /\ x3[3] \in Nat /\ y[1] \in Nat /\ y[2] \in Nat /\ y[3] \in Nat
        /\ x3 \in Triples /\ y \in Triples
    BY <1>1
  <2>2. x3[1] <= y[1]
    BY <1>2, <1>4
  <2>3. CASE x3[1] < y[1]
    BY <2>1, <2>3, TriplesAre
  <2>4. CASE x3[1] = y[1]
    <3>1. x3[2] <= y[2]
      BY <1>3, <1>4, <2>4
    <3>2. CASE x3[2] < y[2]
      BY <2>1, <2>4, <3>2, TriplesAre
    <3>3. CASE x3[2] = y[2]
      <4>1. x3[3] <= y[3]
        BY <1>4, <2>4, <3>3
      <4>2. CASE x3[3] < y[3]
        BY <2>1, <2>4, <3>3, <4>2, TriplesAre
      <4>3. CASE x3[3] = y[3]
        BY <2>1, <2>4, <3>3, <4>3, TriplesAre
      <4>4. QED
        BY <2>1, <4>1, <4>2, <4>3
    <3>4. QED
      BY <2>1, <3>1, <3>2, <3>3
  <2>5. QED
    BY <2>1, <2>2, <2>3, <2>4
<1>6. QED
  BY <1>5

LEMMA NamesAre ==
  /\ \A x \in EditNames : /\ x \in Nat /\ NormalPath(x) \in EditNames
                          /\ ModuleSymbol(x) \in EditNames /\ OperatorName(x) \in EditNames
  /\ \A f \in EditedFunctions : /\ f.file \in EditNames /\ f.start \in Nat /\ f.end \in Nat
                                /\ f.symbol \in EditNames /\ f.name \in EditNames
  BY IdentitiesAssumption

LEMMA SymbolTyped ==
  ASSUME NEW m \in Edit
  PROVE  Identities!SymbolOf(m) \in EditNames
<1>1. m.file \in EditNames /\ m.line \in Nat
  BY DEF Edit
<1>2. CASE Identities!Containing(m) = {}
  BY <1>1, <1>2, NamesAre DEF Identities!SymbolOf
<1>3. CASE Identities!Containing(m) # {}
  <2> DEFINE T == {<<f.end - f.start, f.symbol, f.name>> : f \in Identities!Containing(m)}
  <2>1. ASSUME NEW f \in Identities!Containing(m)
        PROVE  /\ <<f.end - f.start, f.symbol, f.name>> \in Triples
               /\ f.symbol \in EditNames /\ f.name \in EditNames
    <3>1. /\ f.start \in Nat /\ f.end \in Nat /\ f.start <= m.line /\ m.line <= f.end
          /\ f.symbol \in EditNames /\ f.name \in EditNames
      BY NamesAre DEF Identities!Containing
    <3>2. f.end - f.start \in Nat
      BY <1>1, <3>1
    <3>3. f.symbol \in Nat /\ f.name \in Nat
      BY <3>1, NamesAre
    <3>4. QED
      BY <3>1, <3>2, <3>3 DEF Triples
  <2>2. T \in SUBSET Triples /\ T # {}
    BY <1>3, <2>1
  <2>3. \E x \in T : \A y \in T : x = y \/ Identities!Before(x, y)
    <3> HIDE DEF T
    <3>1. QED
      BY <2>2, LeastTriple
  <2>4. Identities!Innermost(m) = CHOOSE x \in T : \A y \in T : x = y \/ Identities!Before(x, y)
    BY DEF Identities!Innermost
  <2>5. Identities!Innermost(m) \in T
    <3> HIDE DEF T
    <3>1. QED
      BY <2>3, <2>4
  <2>6. PICK f \in Identities!Containing(m) : Identities!Innermost(m) = <<f.end - f.start, f.symbol, f.name>>
    BY <2>5
  <2>7. Identities!Innermost(m)[2] = f.symbol /\ Identities!Innermost(m)[3] = f.name
    BY <2>6
  <2>8. QED
    BY <1>3, <2>1, <2>7 DEF Identities!SymbolOf
<1>4. QED
  BY <1>2, <1>3

LEMMA FilledTyped ==
  ASSUME NEW c \in Edit
  PROVE  Identities!Filled(c) \in Edit /\ Identities!Filled(c).fingerprint = c.fingerprint
<1> DEFINE m == [c EXCEPT !.file = NormalPath(@)]
<1>1. c.file \in EditNames /\ NormalPath(c.file) \in EditNames
  BY NamesAre DEF Edit
<1>2. m \in Edit /\ m.fingerprint = c.fingerprint
  BY <1>1 DEF Edit
<1>3. Identities!SymbolOf(m) \in EditNames /\ OperatorName(m.original) \in EditNames
  <2>1. m.original \in EditNames
    BY <1>2 DEF Edit
  <2>2. QED
    BY <1>2, <2>1, SymbolTyped, NamesAre
<1>4. Identities!Filled(c) = [m EXCEPT !.symbol = IF @ = Identities!Empty THEN Identities!SymbolOf(m) ELSE @,
                                      !.operator = IF @ = Identities!Empty THEN OperatorName(m.original) ELSE @]
  BY DEF Identities!Filled
<1>5. QED
  <2> HIDE DEF m
  <2>1. QED
    BY <1>2, <1>3, <1>4 DEF Edit

LEMMA LocationApart ==
  /\ \A m \in Edit : Identities!Location(m) \in Numbers
  /\ \A m, d \in Edit : Identities!Location(m) = Identities!Location(d) => m = d
<1> DEFINE Front(m) == <<m.file, m.symbol, m.operator, m.original, m.replacement, m.line, m.column>>
<1>1. ASSUME NEW m \in Edit
      PROVE  /\ Front(m) \in Numbers /\ Len(Front(m)) = 7 /\ m.fingerprint \in Numbers
             /\ Identities!Location(m) = Front(m) \o m.fingerprint
  <2>1. /\ m.file \in Nat /\ m.symbol \in Nat /\ m.operator \in Nat /\ m.original \in Nat
        /\ m.replacement \in Nat /\ m.line \in Nat /\ m.column \in Nat /\ m.fingerprint \in Seq(Nat)
    BY NamesAre DEF Edit
  <2>2. QED
    BY <2>1 DEF Numbers, Identities!Location
<1>2. \A m \in Edit : Identities!Location(m) \in Numbers
  <2> HIDE DEF Front
  <2>1. QED
    BY <1>1, JoinedAre
<1>3. ASSUME NEW m \in Edit, NEW d \in Edit, Identities!Location(m) = Identities!Location(d) PROVE m = d
  <2>1. Front(m) = Front(d) /\ m.fingerprint = d.fingerprint
    <3> HIDE DEF Front
    <3>1. /\ Front(m) \in Numbers /\ Front(d) \in Numbers /\ Len(Front(m)) = Len(Front(d))
          /\ m.fingerprint \in Numbers /\ d.fingerprint \in Numbers
          /\ Front(m) \o m.fingerprint = Front(d) \o d.fingerprint
      BY <1>1, <1>3, Zenon
    <3>2. QED
      BY <3>1, JoinedApart
  <2>2. /\ m.file = d.file /\ m.symbol = d.symbol /\ m.operator = d.operator /\ m.original = d.original
        /\ m.replacement = d.replacement /\ m.line = d.line /\ m.column = d.column
    BY <2>1
  <2>3. QED
    BY <2>1, <2>2 DEF Edit
<1>4. QED
  BY <1>2, <1>3

-----------------------------------------------------------------------------
(* Identities: the first free attempt at a fingerprint is there.           *)

LEMMA GeneratedTyped ==
  ASSUME NEW m \in Edit, NEW ordinal \in Nat
  PROVE  Identities!Generated(m, ordinal) \in Numbers /\ Identities!Generated(m, ordinal) # <<>>
<1>1. /\ m.file \in Nat /\ m.symbol \in Nat /\ m.operator \in Nat /\ m.original \in Nat
      /\ m.replacement \in Nat
  BY NamesAre DEF Edit
<1>2. QED
  BY <1>1 DEF Numbers, Identities!Generated

LEMMA AttemptsApart ==
  ASSUME NEW m \in Edit, NEW proposed \in Numbers
  PROVE  /\ \A n \in Nat : /\ Identities!Attempt(m, proposed, n) \in Numbers
                          /\ Identities!Attempt(m, proposed, n) # <<>>
         /\ \A n, k \in Nat :
              Identities!Attempt(m, proposed, n) = Identities!Attempt(m, proposed, k) => n = k
<1> DEFINE Front(n) == <<m.file, m.symbol, 1, n>>
<1>1. ASSUME NEW n \in Nat
      PROVE  /\ Front(n) \in Numbers /\ Len(Front(n)) = 4 /\ Front(n)[4] = n
             /\ Identities!Attempt(m, proposed, n) = Front(n) \o proposed
  <2>1. m.file \in Nat /\ m.symbol \in Nat
    BY NamesAre DEF Edit
  <2>2. QED
    BY <2>1 DEF Numbers, Identities!Attempt
<1> HIDE DEF Front
<1>2. ASSUME NEW n \in Nat
      PROVE  Identities!Attempt(m, proposed, n) \in Numbers /\ Identities!Attempt(m, proposed, n) # <<>>
  <2>1. PICK z : z = Identities!Attempt(m, proposed, n)
    OBVIOUS
  <2>2. Front(n) \o proposed \in Numbers /\ Len(Front(n) \o proposed) = Len(Front(n)) + Len(proposed)
    BY <1>1, JoinedAre
  <2>3. z = Front(n) \o proposed
    BY <1>1, <2>1, Zenon
  <2>4. z \in Numbers /\ Len(z) = Len(Front(n)) + Len(proposed)
    BY <2>2, <2>3, Zenon
  <2>5. Len(proposed) \in Nat /\ Len(Front(n)) = 4
    BY <1>1, NumbersAre
  <2>6. Len(z) # 0
    BY <2>4, <2>5
  <2>7. z # <<>>
    BY <2>6
  <2>8. QED
    BY <2>1, <2>4, <2>7, Zenon
<1>3. ASSUME NEW n \in Nat, NEW k \in Nat,
             Identities!Attempt(m, proposed, n) = Identities!Attempt(m, proposed, k)
      PROVE  n = k
  <2>1. /\ Front(n) \in Numbers /\ Front(k) \in Numbers /\ Len(Front(n)) = Len(Front(k))
        /\ Front(n) \o proposed = Front(k) \o proposed
    BY <1>1, <1>3, Zenon
  <2>2. Front(n) = Front(k)
    BY <2>1, JoinedApart
  <2>3. QED
    BY <1>1, <2>2, Zenon
<1>4. QED
  BY <1>2, <1>3

LEMMA FreeIsThere ==
  ASSUME NEW m \in Edit, NEW proposed \in Numbers, NEW taken, IsFiniteSet(taken), NEW from \in Nat
  PROVE  /\ Identities!Disambiguated(m, proposed, taken, from) \in Nat
         /\ Identities!Attempt(m, proposed, Identities!Disambiguated(m, proposed, taken, from)) \notin taken
<1> DEFINE c == Cardinality(taken)
           D == from..(from + c)
           S == {n \in D : Identities!Attempt(m, proposed, n) \notin taken}
           Free(n) == /\ Identities!Attempt(m, proposed, n) \notin taken
                      /\ \A k \in from..(n - 1) : Identities!Attempt(m, proposed, k) \in taken
<1>1. c \in Nat
  BY FS_CardinalityType
<1>2. IsFiniteSet(D) /\ Cardinality(D) = c + 1
  <2>1. from \in Int /\ from + c \in Int /\ ~(from > from + c) /\ (from + c) - from + 1 = c + 1
    BY <1>1
  <2>2. IsFiniteSet(D) /\ Cardinality(D) = IF from > from + c THEN 0 ELSE (from + c) - from + 1
    BY <2>1, FS_Interval
  <2>3. QED
    BY <2>1, <2>2
<1>3. D \in SUBSET Nat
  BY <1>1
<1>4. S # {}
  <2>1. SUFFICES ASSUME S = {} PROVE FALSE
    OBVIOUS
  <2> DEFINE f == [n \in D |-> Identities!Attempt(m, proposed, n)]
  <2>2. f \in [D -> taken]
    BY <2>1
  <2>3. Cardinality(taken) < Cardinality(D)
    BY <1>1, <1>2
  <2>4. PICK x \in D, y \in D : x # y /\ f[x] = f[y]
    <3> HIDE DEF D, f
    <3>1. QED
      BY <1>2, <2>2, <2>3, FS_PigeonHole
  <2>5. x \in Nat /\ y \in Nat /\ Identities!Attempt(m, proposed, x) = Identities!Attempt(m, proposed, y)
    BY <1>3, <2>4
  <2>6. QED
    BY <2>4, <2>5, AttemptsApart
<1>5. PICK n \in S : \A k \in S : n <= k
  BY <1>3, <1>4, LeastIsThere
<1>6. Free(n)
  <2>1. ASSUME NEW k \in from..(n - 1) PROVE Identities!Attempt(m, proposed, k) \in taken
    <3>1. k \in D /\ ~(n <= k)
      BY <1>1, <1>3, <1>5, <2>1
    <3>2. QED
      BY <1>5, <3>1
  <2>2. QED
    BY <1>5, <2>1
<1>7. Identities!Disambiguated(m, proposed, taken, from) = CHOOSE x \in D : Free(x)
  <2>1. Identities!Disambiguated(m, proposed, taken, from)
          = CHOOSE x \in from..(from + Identities!Cardinality(taken)) : Free(x)
    BY DEF Identities!Disambiguated
  <2>2. QED
    BY <2>1, SameNumber
<1>8. (CHOOSE x \in D : Free(x)) \in D /\ Free(CHOOSE x \in D : Free(x))
  <2>1. n \in D
    BY <1>5
  <2> HIDE DEF D, Free
  <2>2. QED
    BY <1>6, <2>1
<1>9. QED
  BY <1>3, <1>7, <1>8

-----------------------------------------------------------------------------
(* Identities: fingerprints are given out one after another.               *)

Blank == [used |-> {}, collisions |-> <<>>, named |-> <<>>]
Namings(ms, k, g) == g = [n \in 0..k |-> IF n = 0 THEN Blank ELSE Identities!Fingerprint(ms, n, g[n - 1])]

LEMMA NamingsAre ==
  ASSUME NEW ms, NEW k \in Nat
  PROVE  \E g : Namings(ms, k, g)
<1> DEFINE Bad == {n \in Nat : ~\E g : Namings(ms, n, g)}
<1>1. SUFFICES ASSUME k \in Bad PROVE FALSE
  OBVIOUS
<1>2. PICK n \in Bad : \A m \in Bad : n <= m
  BY <1>1, LeastIsThere
<1>3. CASE n = 0
  <2> DEFINE g == [x \in 0..0 |-> Blank]
  <2>1. Namings(ms, 0, g)
    BY DEF Namings
  <2>2. QED
    BY <1>3, <2>1
<1>4. CASE n # 0
  <2>1. n - 1 \in Nat /\ n - 1 \notin Bad
    BY <1>2, <1>4
  <2>2. PICK g : Namings(ms, n - 1, g)
    BY <2>1
  <2> DEFINE h == [x \in 0..n |-> IF x = n THEN Identities!Fingerprint(ms, n, g[n - 1]) ELSE g[x]]
  <2>3. \A x \in 0..(n - 1) : g[x] = IF x = 0 THEN Blank ELSE Identities!Fingerprint(ms, x, g[x - 1])
    BY <2>2 DEF Namings
  <2>4. \A x \in 0..n : h[x] = IF x = 0 THEN Blank ELSE Identities!Fingerprint(ms, x, h[x - 1])
    BY <1>4, <2>1, <2>3
  <2>5. Namings(ms, n, h)
    BY <2>4 DEF Namings
  <2>6. QED
    BY <2>5
<1>5. QED
  BY <1>3, <1>4

LEMMA FingerprintedIs ==
  ASSUME NEW ms \in Seq(Edit)
  PROVE  \E g : Namings(ms, Len(ms), g) /\ Identities!Fingerprinted(ms) = g[Len(ms)].named
<1> DEFINE g == CHOOSE x : Namings(ms, Len(ms), x)
<1>1. Len(ms) \in Nat
  OBVIOUS
<1>2. Namings(ms, Len(ms), g)
  BY <1>1, NamingsAre
<1>3. Identities!Fingerprinted(ms) = g[Len(ms)].named
  BY DEF Identities!Fingerprinted, Namings, Blank
<1>4. QED
  BY <1>2, <1>3

(* What holds of the first n.                                              *)
NamedSoFar(ms, n, acc) ==
  /\ acc.named \in Seq(Edit) /\ Len(acc.named) = n
  /\ \A i \in 1..n : acc.named[i] = [ms[i] EXCEPT !.fingerprint = acc.named[i].fingerprint]
  /\ acc.used = {acc.named[i].fingerprint : i \in 1..n}
  /\ \A i \in 1..n : acc.named[i].fingerprint # <<>>
  /\ \A i, j \in 1..n : i # j => acc.named[i].fingerprint # acc.named[j].fingerprint
  /\ \A i \in 1..n :
       acc.named[i].fingerprint \in Identities!Reserved(ms) => acc.named[i].fingerprint = ms[i].fingerprint
  /\ \A i \in 1..n : ms[i].fingerprint # <<>> =>
       \E j \in 1..n : ms[j].fingerprint = ms[i].fingerprint /\ acc.named[j].fingerprint = ms[i].fingerprint
  /\ \A x \in DOMAIN acc.collisions : acc.collisions[x] \in Nat

(* A name for the next one.                                                *)
Names(ms, i, acc, new, name) ==
  /\ new.named = Append(acc.named, [ms[i] EXCEPT !.fingerprint = name])
  /\ new.used = acc.used \cup {name}
  /\ \A x \in DOMAIN new.collisions : new.collisions[x] \in Nat
  /\ name \in Seq(Nat) /\ name # <<>> /\ name \notin acc.used
  /\ name \in Identities!Reserved(ms) => name = ms[i].fingerprint
  /\ ms[i].fingerprint # <<>> => name = ms[i].fingerprint \/ ms[i].fingerprint \in acc.used

LEMMA NextName ==
  ASSUME NEW ms \in Seq(Edit), NEW i \in 1..Len(ms), NEW acc,
         IsFiniteSet(acc.used), \A x \in DOMAIN acc.collisions : acc.collisions[x] \in Nat
  PROVE  \E name : Names(ms, i, acc, Identities!Fingerprint(ms, i, acc), name)
<1> DEFINE m == ms[i]
           ordinal == Identities!Cardinality({j \in 1..(i - 1) : Identities!Structure(ms[j]) = Identities!Structure(m)})
           provided == m.fingerprint # Identities!Missing
           proposed == IF provided THEN m.fingerprint ELSE Identities!Generated(m, ordinal)
           taken == acc.used \cup Identities!Reserved(ms)
           conflicts == proposed \in acc.used \/ (~provided /\ proposed \in Identities!Reserved(ms))
           from == IF proposed \in DOMAIN acc.collisions THEN acc.collisions[proposed] ELSE 1
           collision == Identities!Disambiguated(m, proposed, taken, from)
           name == IF conflicts THEN Identities!Attempt(m, proposed, collision) ELSE proposed
           marks == IF conflicts
                    THEN [x \in DOMAIN acc.collisions \cup {proposed} |->
                            IF x = proposed THEN collision + 1 ELSE acc.collisions[x]]
                    ELSE acc.collisions
<1>1. Identities!Fingerprint(ms, i, acc)
        = [used |-> acc.used \cup {name}, collisions |-> marks,
           named |-> Append(acc.named, [m EXCEPT !.fingerprint = name])]
  BY DEF Identities!Fingerprint
<1>2. Len(ms) \in Nat /\ i \in Nat /\ DOMAIN ms = 1..Len(ms) /\ m \in Edit /\ m.fingerprint \in Numbers
  <2>1. ms[i] \in Edit /\ Len(ms) \in Nat /\ DOMAIN ms = 1..Len(ms) /\ i \in Nat
    BY ElementOfSeq, LenProperties
  <2>2. ms[i].fingerprint \in Numbers
    BY <2>1 DEF Edit, Numbers
  <2>3. QED
    BY <2>1, <2>2
<1>3. ordinal \in Nat
  <2>1. IsFiniteSet(1..Len(ms))
    BY <1>2, IntervalIs
  <2>2. {j \in 1..(i - 1) : Identities!Structure(ms[j]) = Identities!Structure(m)} \in SUBSET (1..Len(ms))
    BY <1>2
  <2>3. IsFiniteSet({j \in 1..(i - 1) : Identities!Structure(ms[j]) = Identities!Structure(m)})
    BY <2>1, <2>2, FS_Subset
  <2>4. QED
    BY <2>3, FS_CardinalityType, SameNumber
<1>4. proposed \in Numbers /\ proposed # <<>>
  <2> HIDE DEF ordinal, m
  <2>1. QED
    BY <1>2, <1>3, GeneratedTyped DEF Identities!Missing
<1>5. IsFiniteSet(taken)
  <2> DEFINE f == [j \in 1..Len(ms) |-> ms[j].fingerprint]
  <2>1. IsFiniteSet(DOMAIN f)
    BY <1>2, IntervalIs
  <2>2. IsFiniteSet({f[x] : x \in DOMAIN f})
    <3> HIDE DEF f
    <3>1. QED
      BY <2>1, ImageIsFinite
  <2>3. Identities!Reserved(ms) \in SUBSET {f[x] : x \in DOMAIN f}
    BY <1>2 DEF Identities!Reserved
  <2>4. IsFiniteSet(Identities!Reserved(ms))
    BY <2>2, <2>3, FS_Subset
  <2>5. QED
    BY <2>4, FS_Union
<1>6. from \in Nat
  OBVIOUS
<1> HIDE DEF ordinal, m, proposed, taken, from, provided
<1>7. collision \in Nat /\ Identities!Attempt(m, proposed, collision) \notin taken
  BY <1>2, <1>4, <1>5, <1>6, FreeIsThere
<1>8. Identities!Attempt(m, proposed, collision) \in Numbers /\ Identities!Attempt(m, proposed, collision) # <<>>
  BY <1>2, <1>4, <1>7, AttemptsApart
<1> HIDE DEF collision
<1>9. name \in Seq(Nat) /\ name # <<>> /\ name \notin acc.used
  BY <1>4, <1>7, <1>8 DEF Numbers, taken
<1>10. name \in Identities!Reserved(ms) => name = m.fingerprint
  BY <1>7 DEF taken, proposed
<1>11. m.fingerprint # <<>> => name = m.fingerprint \/ m.fingerprint \in acc.used
  BY DEF proposed, provided, Identities!Missing
<1>12. \A x \in DOMAIN marks : marks[x] \in Nat
  <2>1. CASE conflicts
    BY <1>7, <2>1
  <2>2. CASE ~conflicts
    BY <2>2
  <2>3. QED
    BY <2>1, <2>2
<1> HIDE DEF name, marks
<1>13. Names(ms, i, acc, Identities!Fingerprint(ms, i, acc), name)
  BY <1>1, <1>9, <1>10, <1>11, <1>12 DEF Names, m
<1>14. QED
  BY <1>13

LEMMA NextIsNamed ==
  ASSUME NEW ms \in Seq(Edit), NEW n \in Nat, n < Len(ms), NEW acc, NamedSoFar(ms, n, acc),
         NEW new, NEW name, Names(ms, n + 1, acc, new, name)
  PROVE  NamedSoFar(ms, n + 1, new)
<1> DEFINE m == [ms[n + 1] EXCEPT !.fingerprint = name]
<1>1. /\ n + 1 \in 1..Len(ms) /\ n + 1 \in 1..(n + 1)
      /\ \A i \in 1..(n + 1) : i \in 1..n \/ i = n + 1
      /\ \A i \in 1..n : i \in 1..(n + 1) /\ i # n + 1
  OBVIOUS
<1>2. m \in Edit /\ m.fingerprint = name
  <2>1. ms[n + 1] \in Edit
    BY <1>1, ElementOfSeq
  <2>2. name \in Seq(Nat)
    BY DEF Names
  <2>3. QED
    BY <2>1, <2>2 DEF Edit
<1>3. /\ new.named \in Seq(Edit) /\ Len(new.named) = n + 1
      /\ \A i \in 1..n : new.named[i] = acc.named[i]
      /\ new.named[n + 1] = m
  <2>1. new.named = Append(acc.named, m) /\ acc.named \in Seq(Edit) /\ Len(acc.named) = n
    BY DEF Names, NamedSoFar
  <2> HIDE DEF m
  <2>2. QED
    BY <1>2, <2>1, AppendProperties
<1>4. new.used = {new.named[i].fingerprint : i \in 1..(n + 1)}
  <2>1. new.used = acc.used \cup {name} /\ acc.used = {acc.named[i].fingerprint : i \in 1..n}
    BY DEF Names, NamedSoFar
  <2> HIDE DEF m
  <2>2. ASSUME NEW x \in new.used PROVE x \in {new.named[i].fingerprint : i \in 1..(n + 1)}
    BY <1>1, <1>2, <1>3, <2>1
  <2>3. ASSUME NEW i \in 1..(n + 1) PROVE new.named[i].fingerprint \in new.used
    <3>1. CASE i \in 1..n
      BY <1>3, <2>1, <3>1
    <3>2. CASE i = n + 1
      BY <1>2, <1>3, <2>1, <3>2
    <3>3. QED
      BY <1>1, <3>1, <3>2
  <2>4. QED
    BY <2>2, <2>3
<1>5. \A i \in 1..(n + 1) : new.named[i] = [ms[i] EXCEPT !.fingerprint = new.named[i].fingerprint]
  <2>1. TAKE i \in 1..(n + 1)
  <2>2. CASE i \in 1..n
    BY <1>3, <2>2 DEF NamedSoFar
  <2>3. CASE i = n + 1
    BY <1>2, <1>3, <2>3
  <2>4. QED
    BY <1>1, <2>2, <2>3
<1> HIDE DEF m
<1>6. \A i \in 1..n : acc.named[i].fingerprint # name
  BY DEF Names, NamedSoFar
<1>7. \A i \in 1..(n + 1) : new.named[i].fingerprint # <<>>
  BY <1>1, <1>2, <1>3 DEF Names, NamedSoFar
<1>8. ASSUME NEW i \in 1..(n + 1), NEW j \in 1..(n + 1), i # j
      PROVE  new.named[i].fingerprint # new.named[j].fingerprint
  <2>1. CASE i \in 1..n /\ j \in 1..n
    BY <1>3, <1>8, <2>1 DEF NamedSoFar
  <2>2. CASE i \in 1..n /\ j = n + 1
    BY <1>2, <1>3, <1>6, <2>2
  <2>3. CASE i = n + 1 /\ j \in 1..n
    BY <1>2, <1>3, <1>6, <2>3
  <2>4. QED
    BY <1>1, <1>8, <2>1, <2>2, <2>3
<1>9. \A i \in 1..(n + 1) :
        new.named[i].fingerprint \in Identities!Reserved(ms) => new.named[i].fingerprint = ms[i].fingerprint
  BY <1>1, <1>2, <1>3 DEF Names, NamedSoFar
<1>10. ASSUME NEW i \in 1..(n + 1), ms[i].fingerprint # <<>>
       PROVE  \E j \in 1..(n + 1) : /\ ms[j].fingerprint = ms[i].fingerprint
                                    /\ new.named[j].fingerprint = ms[i].fingerprint
  <2>1. CASE i \in 1..n
    <3>1. PICK j \in 1..n : ms[j].fingerprint = ms[i].fingerprint /\ acc.named[j].fingerprint = ms[i].fingerprint
      BY <1>10, <2>1 DEF NamedSoFar
    <3>2. QED
      BY <1>1, <1>3, <3>1
  <2>2. CASE i = n + 1 /\ name = ms[i].fingerprint
    BY <1>1, <1>2, <1>3, <2>2
  <2>3. CASE i = n + 1 /\ name # ms[i].fingerprint
    <3>1. ms[i].fingerprint \in acc.used
      BY <1>10, <2>3 DEF Names
    <3>2. PICK j \in 1..n : acc.named[j].fingerprint = ms[i].fingerprint
      BY <3>1 DEF NamedSoFar
    <3>3. ms[i].fingerprint \in Identities!Reserved(ms)
      <4>1. i \in DOMAIN ms
        BY <1>1, <2>3
      <4>2. QED
        BY <1>10, <4>1 DEF Identities!Reserved, Identities!Missing
    <3>4. acc.named[j].fingerprint = ms[j].fingerprint
      BY <3>2, <3>3 DEF NamedSoFar
    <3>5. QED
      BY <1>1, <1>3, <3>2, <3>4
  <2>4. QED
    BY <1>1, <2>1, <2>2, <2>3
<1>11. \A x \in DOMAIN new.collisions : new.collisions[x] \in Nat
  BY DEF Names
<1>12. QED
  BY <1>3, <1>4, <1>5, <1>7, <1>8, <1>9, <1>10, <1>11 DEF NamedSoFar

LEMMA AllAreNamed ==
  ASSUME NEW ms \in Seq(Edit)
  PROVE  \E acc : NamedSoFar(ms, Len(ms), acc) /\ Identities!Fingerprinted(ms) = acc.named
<1>1. PICK g : Namings(ms, Len(ms), g) /\ Identities!Fingerprinted(ms) = g[Len(ms)].named
  BY FingerprintedIs
<1> DEFINE Bad == {n \in 0..Len(ms) : ~NamedSoFar(ms, n, g[n])}
<1>2. Len(ms) \in Nat /\ Len(ms) \in 0..Len(ms)
  OBVIOUS
<1>3. \A n \in 0..Len(ms) : g[n] = IF n = 0 THEN Blank ELSE Identities!Fingerprint(ms, n, g[n - 1])
  BY <1>1 DEF Namings
<1>4. Bad = {}
  <2>1. SUFFICES ASSUME Bad # {} PROVE FALSE
    OBVIOUS
  <2>2. Bad \in SUBSET Nat
    OBVIOUS
  <2>3. PICK n \in Bad : \A k \in Bad : n <= k
    BY <2>1, <2>2, LeastIsThere
  <2>4. n \in 0..Len(ms) /\ ~NamedSoFar(ms, n, g[n])
    BY <2>3
  <2>5. CASE n = 0
    <3>1. g[0] = Blank
      BY <1>2, <1>3
    <3>2. Blank.named = <<>> /\ Blank.used = {} /\ Blank.collisions = <<>>
      BY DEF Blank
    <3>3. 1..0 = {} /\ DOMAIN <<>> = {} /\ <<>> \in Seq(Edit) /\ Len(<<>>) = 0
      OBVIOUS
    <3>4. NamedSoFar(ms, 0, Blank)
      BY <3>2, <3>3 DEF NamedSoFar
    <3>5. QED
      BY <2>4, <2>5, <3>1, <3>4
  <2>6. CASE n # 0
    <3>1. PICK k \in Nat : k = n - 1
      BY <2>4, <2>6
    <3>2. n = k + 1 /\ k \in 0..Len(ms) /\ k < Len(ms) /\ k + 1 \in 1..Len(ms) /\ ~(n <= k)
      BY <2>4, <2>6, <3>1
    <3>3. k \notin Bad
      BY <2>3, <3>2
    <3>4. NamedSoFar(ms, k, g[k])
      BY <3>2, <3>3
    <3>5. g[n] = Identities!Fingerprint(ms, k + 1, g[k])
      BY <1>3, <2>4, <2>6, <3>1, <3>2
    <3>6. IsFiniteSet(g[k].used)
      <4> DEFINE f == [i \in 1..k |-> g[k].named[i].fingerprint]
      <4>1. IsFiniteSet(DOMAIN f)
        BY IntervalIs
      <4>2. IsFiniteSet({f[x] : x \in DOMAIN f})
        <5> HIDE DEF f
        <5>1. QED
          BY <4>1, ImageIsFinite
      <4>3. g[k].used = {f[x] : x \in DOMAIN f}
        BY <3>4 DEF NamedSoFar
      <4>4. QED
        BY <4>2, <4>3
    <3>7. \A x \in DOMAIN g[k].collisions : g[k].collisions[x] \in Nat
      BY <3>4 DEF NamedSoFar
    <3>8. PICK name : Names(ms, k + 1, g[k], g[n], name)
      BY <3>2, <3>5, <3>6, <3>7, NextName
    <3>9. NamedSoFar(ms, k + 1, g[n])
      BY <3>2, <3>4, <3>8, NextIsNamed
    <3>10. QED
      BY <2>4, <3>2, <3>9
  <2>7. QED
    BY <2>5, <2>6
<1>5. NamedSoFar(ms, Len(ms), g[Len(ms)])
  BY <1>2, <1>4
<1>6. QED
  BY <1>1, <1>5

-----------------------------------------------------------------------------
(* Identities: what is named has all names apart, and keeps those given.   *)

Onto(s, M, n) ==
  /\ \A k \in 1..n : \E i \in 1..n : s[k] = M[i]
  /\ \A i \in 1..n : \E k \in 1..n : s[k] = M[i]

LEMMA ArrangedOnto ==
  ASSUME NEW n, NEW M, NEW s, Arranges(s, M, n)
  PROVE  Onto(s, M, n)
<1>1. PICK p \in [1..n -> 1..n] :
        /\ \A i, j \in 1..n : i # j => p[i] # p[j]
        /\ \A k \in 1..n : \E i \in 1..n : p[i] = k
        /\ \A i \in 1..n : s[p[i]] = M[i]
  BY DEF Arranges
<1>2. ASSUME NEW k \in 1..n PROVE \E i \in 1..n : s[k] = M[i]
  <2>1. PICK i \in 1..n : p[i] = k
    BY <1>1
  <2>2. QED
    BY <1>1, <2>1
<1>3. ASSUME NEW i \in 1..n PROVE \E k \in 1..n : s[k] = M[i]
  <2>1. p[i] \in 1..n /\ s[p[i]] = M[i]
    BY <1>1
  <2>2. QED
    BY <2>1
<1>4. QED
  BY <1>2, <1>3 DEF Onto

LEMMA ArrangedTyped ==
  ASSUME NEW n \in Nat, NEW T, NEW M, \A i \in 1..n : M[i] \in T, NEW s, Arranges(s, M, n)
  PROVE  s \in Seq(T) /\ Len(s) = n
<1>a. Onto(s, M, n)
  BY ArrangedOnto
<1>1. s = [k \in 1..n |-> s[k]] /\ \A k \in 1..n : s[k] \in T
  BY <1>a DEF Arranges, Onto
<1>2. s \in [1..n -> T]
  BY <1>1, Zenon
<1>3. QED
  BY <1>2

Located(ms) ==
  Identities!InOrder({Identities!Entry(Identities!Location(Identities!Filled(ms[i])), i, Identities!Filled(ms[i])) :
                        i \in DOMAIN ms})
Locations(ms) == [i \in 1..Len(ms) |-> Identities!Location(Identities!Filled(ms[i]))]
Fillings(ms) == [i \in 1..Len(ms) |-> Identities!Filled(ms[i])]

LEMMA EditsAre ==
  ASSUME NEW ms \in Seq(Edit)
  PROVE  Len(ms) \in Nat /\ DOMAIN ms = 1..Len(ms) /\ \A i \in 1..Len(ms) : ms[i] \in Edit
  BY ElementOfSeq, LenProperties

LEMMA LocatedIs ==
  ASSUME NEW ms \in Seq(Edit)
  PROVE  /\ Located(ms) = Identities!InOrder(Listing(Locations(ms), Fillings(ms), Len(ms)))
         /\ \A i \in 1..Len(ms) : Locations(ms)[i] \in Numbers /\ Fillings(ms)[i] \in Edit
         /\ Arranges(Located(ms), Fillings(ms), Len(ms))
<1>1. Len(ms) \in Nat /\ DOMAIN ms = 1..Len(ms) /\ \A i \in 1..Len(ms) : ms[i] \in Edit
  BY EditsAre
<1>2. \A i \in 1..Len(ms) : Locations(ms)[i] \in Numbers /\ Fillings(ms)[i] \in Edit
  BY <1>1, FilledTyped, LocationApart DEF Locations, Fillings
<1>3. Listing(Locations(ms), Fillings(ms), Len(ms))
        = {Identities!Entry(Identities!Location(Identities!Filled(ms[i])), i, Identities!Filled(ms[i])) :
             i \in DOMAIN ms}
  BY <1>1 DEF Listing, Locations, Fillings
<1>4. Located(ms) = Identities!InOrder(Listing(Locations(ms), Fillings(ms), Len(ms)))
  BY <1>3 DEF Located
<1>5. QED
  BY <1>1, <1>2, <1>4, ListingIsArranged

LEMMA AssignedIs ==
  ASSUME NEW ms \in Seq(Edit)
  PROVE  \E named \in Seq(Edit) :
           /\ named = Identities!Fingerprinted(Located(ms)) /\ Len(named) = Len(ms)
           /\ Arranges(Identities!AssignMutationIds(ms), named, Len(ms))
<1>1. Len(ms) \in Nat
  BY EditsAre
<1>2. Located(ms) \in Seq(Edit) /\ Len(Located(ms)) = Len(ms)
  BY <1>1, LocatedIs, ArrangedTyped
<1>3. PICK named : named = Identities!Fingerprinted(Located(ms))
  OBVIOUS
<1>4. named \in Seq(Edit) /\ Len(named) = Len(ms)
  BY <1>2, <1>3, AllAreNamed DEF NamedSoFar
<1> DEFINE K == [i \in 1..Len(ms) |-> Identities!Identity(named[i])]
<1>5. DOMAIN named = 1..Len(ms) /\ \A i \in 1..Len(ms) : named[i] \in Edit
  BY <1>4, EditsAre
<1>6. \A i \in 1..Len(ms) : K[i] \in Numbers
  <2>1. SUFFICES ASSUME NEW m \in Edit PROVE Identities!Identity(m) \in Numbers
    BY <1>5
  <2>2. <<m.file, m.symbol>> \in Numbers /\ m.fingerprint \in Numbers
    BY NamesAre DEF Edit, Numbers
  <2>3. QED
    BY <2>2, JoinedAre DEF Identities!Identity
<1>7. Identities!AssignMutationIds(ms) = Identities!InOrder(Listing(K, named, Len(ms)))
  <2>1. Listing(K, named, Len(ms))
          = {Identities!Entry(Identities!Identity(named[i]), i, named[i]) : i \in DOMAIN named}
    BY <1>5 DEF Listing
  <2>2. QED
    BY <1>3, <2>1 DEF Identities!AssignMutationIds, Located
<1>8. Arranges(Identities!AssignMutationIds(ms), named, Len(ms))
  <2> HIDE DEF K
  <2>1. QED
    BY <1>1, <1>6, <1>7, ListingIsArranged
<1>9. QED
  BY <1>3, <1>4, <1>8

(* Names are apart, and a name that was given stays with one of those that it
   was given to.                                                           *)
WellNamed(ms, r) ==
  /\ r \in Seq(Edit) /\ Len(r) = Len(ms)
  /\ \A i \in 1..Len(r) : r[i].fingerprint # <<>>
  /\ \A i, j \in 1..Len(r) : i # j => r[i].fingerprint # r[j].fingerprint
  /\ \A i \in 1..Len(ms) : ms[i].fingerprint # <<>> =>
       \E j \in 1..Len(ms), k \in 1..Len(r) :
          ms[j].fingerprint = ms[i].fingerprint /\ Identities!Filled(ms[j]) = r[k]

LEMMA AssignedAreNamed ==
  ASSUME NEW ms \in Seq(Edit)
  PROVE  WellNamed(ms, Identities!AssignMutationIds(ms))
<1>1. Len(ms) \in Nat /\ \A i \in 1..Len(ms) : ms[i] \in Edit
  BY EditsAre
<1>2. PICK n \in Nat : n = Len(ms)
  BY <1>1
<1>3. PICK l : l = Located(ms)
  OBVIOUS
<1>4. l \in Seq(Edit) /\ Len(l) = n
  BY <1>2, <1>3, LocatedIs, ArrangedTyped
<1>5. /\ \A k \in 1..n : \E i \in 1..n : l[k] = Identities!Filled(ms[i])
      /\ \A i \in 1..n : \E k \in 1..n : l[k] = Identities!Filled(ms[i])
  <2>1. Arranges(l, Fillings(ms), n) /\ \A i \in 1..n : Fillings(ms)[i] \in Edit
    BY <1>2, <1>3, LocatedIs
  <2>2. \A i \in 1..n : Fillings(ms)[i] = Identities!Filled(ms[i])
    BY <1>2 DEF Fillings
  <2>3. Onto(l, Fillings(ms), n)
    BY <2>1, ArrangedOnto
  <2>4. QED
    BY <2>2, <2>3 DEF Onto
<1>6. PICK acc : NamedSoFar(l, n, acc) /\ Identities!Fingerprinted(l) = acc.named
  BY <1>4, AllAreNamed
<1>7. PICK named : named = acc.named
  OBVIOUS
<1>8. /\ named \in Seq(Edit) /\ Len(named) = n
      /\ \A i \in 1..n : named[i] = [l[i] EXCEPT !.fingerprint = named[i].fingerprint]
      /\ \A i \in 1..n : named[i].fingerprint # <<>>
      /\ \A i, j \in 1..n : i # j => named[i].fingerprint # named[j].fingerprint
      /\ \A i \in 1..n : l[i].fingerprint # <<>> =>
           \E j \in 1..n : l[j].fingerprint = l[i].fingerprint /\ named[j].fingerprint = l[i].fingerprint
  BY <1>6, <1>7 DEF NamedSoFar
<1>9. PICK r : r = Identities!AssignMutationIds(ms)
  OBVIOUS
<1>10. Arranges(r, named, n)
  BY <1>2, <1>3, <1>6, <1>7, <1>9, AssignedIs
<1>11. \A i \in 1..n : named[i] \in Edit /\ l[i] \in Edit
  BY <1>4, <1>8, EditsAre
<1>12. r \in Seq(Edit) /\ Len(r) = n
  BY <1>10, <1>11, ArrangedTyped
<1>13. PICK p \in [1..n -> 1..n] :
        /\ \A i, j \in 1..n : i # j => p[i] # p[j]
        /\ \A k \in 1..n : \E i \in 1..n : p[i] = k
        /\ \A i \in 1..n : r[p[i]] = named[i]
  BY <1>10 DEF Arranges
<1>14. ASSUME NEW k \in 1..n PROVE r[k].fingerprint # <<>>
  <2>1. PICK i \in 1..n : p[i] = k
    BY <1>13
  <2>2. QED
    BY <1>8, <1>13, <2>1
<1>15. ASSUME NEW i \in 1..n, NEW j \in 1..n, i # j PROVE r[i].fingerprint # r[j].fingerprint
  <2>1. PICK a \in 1..n : p[a] = i
    BY <1>13
  <2>2. PICK b \in 1..n : p[b] = j
    BY <1>13
  <2>3. a # b
    BY <1>15, <2>1, <2>2
  <2>4. r[p[a]] = named[a] /\ r[p[b]] = named[b]
    BY <1>13
  <2>5. named[a].fingerprint # named[b].fingerprint
    BY <1>8, <2>3
  <2>6. QED
    BY <2>1, <2>2, <2>4, <2>5
<1>16. ASSUME NEW i \in 1..n, ms[i].fingerprint # <<>>
       PROVE  \E j \in 1..n, k \in 1..n :
                 ms[j].fingerprint = ms[i].fingerprint /\ Identities!Filled(ms[j]) = r[k]
  <2>1. PICK a \in 1..n : l[a] = Identities!Filled(ms[i])
    BY <1>5
  <2>2. l[a].fingerprint = ms[i].fingerprint
    BY <1>1, <1>2, <2>1, FilledTyped
  <2>3. PICK b \in 1..n : l[b].fingerprint = l[a].fingerprint /\ named[b].fingerprint = l[a].fingerprint
    BY <1>8, <1>16, <2>2
  <2>4. named[b] = l[b]
    <3>1. named[b] = [l[b] EXCEPT !.fingerprint = l[b].fingerprint] /\ l[b] \in Edit
      BY <1>8, <1>11, <2>3
    <3>2. QED
      BY <3>1 DEF Edit
  <2>5. PICK j \in 1..n : l[b] = Identities!Filled(ms[j])
    BY <1>5
  <2>6. ms[j].fingerprint = ms[i].fingerprint
    BY <1>1, <1>2, <2>2, <2>3, <2>5, FilledTyped
  <2>7. p[b] \in 1..n /\ r[p[b]] = Identities!Filled(ms[j])
    BY <1>13, <2>4, <2>5
  <2>8. QED
    BY <2>6, <2>7
<1>17. WellNamed(ms, r)
  BY <1>2, <1>12, <1>14, <1>15, <1>16 DEF WellNamed
<1>18. QED
  BY <1>9, <1>17

(* It does not matter which of two neighbours was found first.             *)
LEMMA SwappedIs ==
  ASSUME NEW ms \in Seq(Edit), NEW k \in 1..(Len(ms) - 1)
  PROVE  /\ Identities!Swapped(ms, k) \in Seq(Edit) /\ Len(Identities!Swapped(ms, k)) = Len(ms)
         /\ \A i \in 1..Len(ms) : Identities!Swapped(ms, k)[i] = ms[Turned(i, k)]
<1>1. Len(ms) \in Nat /\ DOMAIN ms = 1..Len(ms) /\ ms \in [1..Len(ms) -> Edit]
  BY LenProperties
<1>2. k \in 1..Len(ms) /\ k + 1 \in 1..Len(ms) /\ k # k + 1
  BY <1>1
<1>3. Identities!Swapped(ms, k) \in [1..Len(ms) -> Edit]
      /\ \A i \in 1..Len(ms) : Identities!Swapped(ms, k)[i] = ms[Turned(i, k)]
  BY <1>1, <1>2 DEF Identities!Swapped, Turned
<1>4. QED
  BY <1>1, <1>3

LEMMA AssignedAlike ==
  ASSUME NEW ms \in Seq(Edit), NEW k \in 1..(Len(ms) - 1)
  PROVE  Identities!AssignMutationIds(Identities!Swapped(ms, k)) = Identities!AssignMutationIds(ms)
<1>1. PICK q : q = Identities!Swapped(ms, k)
  OBVIOUS
<1>2. q \in Seq(Edit) /\ Len(q) = Len(ms) /\ \A i \in 1..Len(ms) : q[i] = ms[Turned(i, k)]
  BY <1>1, SwappedIs
<1>3. Len(ms) \in Nat /\ \A i \in 1..Len(ms) : ms[i] \in Edit /\ Turned(i, k) \in 1..Len(ms)
  BY EditsAre, TurningIs
<1>4. \A i \in 1..Len(ms) : /\ Locations(q)[i] = Locations(ms)[Turned(i, k)]
                            /\ Fillings(q)[i] = Fillings(ms)[Turned(i, k)]
  BY <1>2, <1>3 DEF Locations, Fillings
<1>5. \A i \in 1..Len(ms) : Locations(ms)[i] \in Numbers
  BY LocatedIs
<1>6. Locations(ms)[k] = Locations(ms)[k + 1] => Fillings(ms)[k] = Fillings(ms)[k + 1]
  <2>1. k \in 1..Len(ms) /\ k + 1 \in 1..Len(ms)
    BY <1>3
  <2>2. Identities!Filled(ms[k]) \in Edit /\ Identities!Filled(ms[k + 1]) \in Edit
    BY <1>3, <2>1, FilledTyped
  <2>3. QED
    BY <2>1, <2>2, LocationApart DEF Locations, Fillings
<1>7. Identities!InOrder(Listing(Locations(q), Fillings(q), Len(ms)))
        = Identities!InOrder(Listing(Locations(ms), Fillings(ms), Len(ms)))
  <2>1. PICK n, K, M, L, N : /\ n = Len(ms) /\ K = Locations(ms) /\ M = Fillings(ms)
                             /\ L = Locations(q) /\ N = Fillings(q)
    OBVIOUS
  <2>2. Exchanged(n, k, K, M, L, N)
    BY <1>3, <1>4, <1>5, <1>6, <2>1 DEF Exchanged
  <2>3. Identities!InOrder(Listing(L, N, n)) = Identities!InOrder(Listing(K, M, n))
    BY <2>2, SwapKeeps
  <2>4. QED
    BY <2>1, <2>3
<1>8. Located(q) = Located(ms)
  BY <1>2, <1>7, LocatedIs
<1>9. Identities!AssignMutationIds(q) = Identities!AssignMutationIds(ms)
  BY <1>8 DEF Identities!AssignMutationIds, Located
<1>10. QED
  BY <1>1, <1>9

-----------------------------------------------------------------------------
(* Identities: the merged snapshot, and the selection.                     *)

LEMMA MergedIdentities ==
  ASSUME NEW ms \in Seq(Edit)
  PROVE  /\ Identities!Merged(ms) \in Seq(Edit) /\ Len(Identities!Merged(ms)) = Len(ms)
         /\ \A k \in 1..Len(ms) : \E i \in 1..Len(ms) : Identities!Merged(ms)[k] = ms[i]
         /\ \A i \in 1..Len(ms) : \E k \in 1..Len(ms) : Identities!Merged(ms)[k] = ms[i]
<1>1. Len(ms) \in Nat /\ DOMAIN ms = 1..Len(ms) /\ \A i \in 1..Len(ms) : ms[i] \in Edit
  BY EditsAre
<1> DEFINE K == [i \in 1..Len(ms) |-> <<ms[i].file, ms[i].line, ms[i].column, ms[i].replacement>>]
<1>2. \A i \in 1..Len(ms) : K[i] \in Numbers
  <2>1. \A m \in Edit : <<m.file, m.line, m.column, m.replacement>> \in Numbers
    BY NamesAre DEF Edit, Numbers
  <2>2. QED
    BY <1>1, <2>1
<1>3. Listing(K, ms, Len(ms))
        = {Identities!Entry(<<ms[i].file, ms[i].line, ms[i].column, ms[i].replacement>>, i, ms[i]) : i \in DOMAIN ms}
  BY <1>1 DEF Listing
<1>4. Identities!Merged(ms) = Identities!InOrder(Listing(K, ms, Len(ms)))
  BY <1>3 DEF Identities!Merged
<1>5. Arranges(Identities!Merged(ms), ms, Len(ms))
  <2> HIDE DEF K
  <2>1. QED
    BY <1>1, <1>2, <1>4, ListingIsArranged
<1>6. QED
  <2> HIDE DEF K
  <2>1. PICK r, M, n : r = Identities!Merged(ms) /\ M = ms /\ n = Len(ms)
    OBVIOUS
  <2>2. n \in Nat /\ Arranges(r, M, n) /\ \A i \in 1..n : M[i] \in Edit
    BY <1>1, <1>5, <2>1
  <2>3. r \in Seq(Edit) /\ Len(r) = n
    BY <2>2, ArrangedTyped
  <2>4. Onto(r, M, n)
    BY <2>2, ArrangedOnto
  <2>5. QED
    BY <2>1, <2>3, <2>4 DEF Onto

(* What the merged snapshot is made of.                                    *)
Gathered(rust, others) == Identities!Merged(Identities!AssignMutationIds(rust)) \o others

LEMMA GatheredIs ==
  ASSUME NEW rust \in Seq(Edit), NEW others \in Seq(Edit)
  PROVE  /\ Gathered(rust, others) \in Seq(Edit)
         /\ Len(Gathered(rust, others)) = Len(rust) + Len(others)
         /\ \A i \in 1..(Len(rust) + Len(others)) :
              Gathered(rust, others)[i]
                = IF i <= Len(rust) THEN Identities!Merged(Identities!AssignMutationIds(rust))[i]
                  ELSE others[i - Len(rust)]
         /\ \A g : g \in Identities!ToSet(Identities!AssignMutationIds(rust)) \cup Identities!ToSet(others)
                 <=> \E i \in 1..Len(Gathered(rust, others)) : g = Gathered(rust, others)[i]
         /\ Identities!Analyzed(rust, others) = Identities!AssignMutationIds(Gathered(rust, others))
<1>1. PICK a : a = Identities!AssignMutationIds(rust)
  OBVIOUS
<1>2. PICK b : b = Identities!Merged(a)
  OBVIOUS
<1>3. a \in Seq(Edit) /\ Len(a) = Len(rust)
  BY <1>1, AssignedAreNamed DEF WellNamed
<1>4. /\ b \in Seq(Edit) /\ Len(b) = Len(rust)
      /\ \A k \in 1..Len(rust) : \E i \in 1..Len(rust) : b[k] = a[i]
      /\ \A i \in 1..Len(rust) : \E k \in 1..Len(rust) : b[k] = a[i]
  <2>1. /\ Identities!Merged(a) \in Seq(Edit) /\ Len(Identities!Merged(a)) = Len(a)
        /\ \A k \in 1..Len(a) : \E i \in 1..Len(a) : Identities!Merged(a)[k] = a[i]
        /\ \A i \in 1..Len(a) : \E k \in 1..Len(a) : Identities!Merged(a)[k] = a[i]
    BY <1>3, MergedIdentities
  <2>2. QED
    BY <1>2, <1>3, <2>1
<1>5. Len(rust) \in Nat /\ Len(others) \in Nat /\ DOMAIN others = 1..Len(others) /\ DOMAIN a = 1..Len(rust)
  BY <1>3, EditsAre
<1>6. PICK s : s = Gathered(rust, others)
  OBVIOUS
<1>7. /\ s \in Seq(Edit) /\ Len(s) = Len(rust) + Len(others)
      /\ \A i \in 1..(Len(rust) + Len(others)) : s[i] = IF i <= Len(rust) THEN b[i] ELSE others[i - Len(rust)]
  <2>1. s = b \o others
    BY <1>1, <1>2, <1>6 DEF Gathered
  <2>2. /\ b \o others \in Seq(Edit) /\ Len(b \o others) = Len(b) + Len(others)
        /\ \A i \in 1..(Len(b) + Len(others)) :
             (b \o others)[i] = IF i <= Len(b) THEN b[i] ELSE others[i - Len(b)]
    BY <1>4, ConcatProperties
  <2>3. /\ s \in Seq(Edit) /\ Len(s) = Len(b) + Len(others)
        /\ \A i \in 1..(Len(b) + Len(others)) : s[i] = IF i <= Len(b) THEN b[i] ELSE others[i - Len(b)]
    BY <2>1, <2>2, Zenon
  <2>4. QED
    BY <1>4, <2>3
<1>8. ASSUME NEW i \in 1..(Len(rust) + Len(others))
      PROVE  s[i] \in Identities!ToSet(a) \cup Identities!ToSet(others)
  <2>1. CASE i <= Len(rust)
    <3>1. i \in 1..Len(rust) /\ s[i] = b[i]
      BY <1>5, <1>7, <2>1
    <3>2. PICK j \in 1..Len(rust) : b[i] = a[j]
      BY <1>4, <3>1
    <3>3. QED
      BY <1>5, <3>1, <3>2 DEF Identities!ToSet
  <2>2. CASE ~(i <= Len(rust))
    <3>1. i - Len(rust) \in 1..Len(others) /\ s[i] = others[i - Len(rust)]
      BY <1>5, <1>7, <2>2
    <3>2. QED
      BY <1>5, <3>1 DEF Identities!ToSet
  <2>3. QED
    BY <2>1, <2>2
<1>9. ASSUME NEW g \in Identities!ToSet(a) \cup Identities!ToSet(others)
      PROVE  \E i \in 1..(Len(rust) + Len(others)) : g = s[i]
  <2>1. CASE g \in Identities!ToSet(a)
    <3>1. PICK j \in 1..Len(rust) : g = a[j]
      BY <1>5, <2>1 DEF Identities!ToSet
    <3>2. PICK i \in 1..Len(rust) : b[i] = a[j]
      BY <1>4
    <3>3. i \in 1..(Len(rust) + Len(others)) /\ i <= Len(rust)
      BY <1>5
    <3>4. QED
      BY <1>7, <3>1, <3>2, <3>3
  <2>2. CASE g \in Identities!ToSet(others)
    <3>1. PICK j \in 1..Len(others) : g = others[j]
      BY <1>5, <2>2 DEF Identities!ToSet
    <3>2. PICK i \in 1..(Len(rust) + Len(others)) : i = Len(rust) + j
      BY <1>5
    <3>3. ~(i <= Len(rust)) /\ i - Len(rust) = j
      BY <1>5, <3>2
    <3>4. QED
      BY <1>7, <3>1, <3>3
  <2>3. QED
    BY <2>1, <2>2
<1>10. Identities!Analyzed(rust, others) = Identities!AssignMutationIds(s)
  BY <1>6 DEF Identities!Analyzed, Gathered
<1>11. \A g : g \in Identities!ToSet(a) \cup Identities!ToSet(others) <=> \E i \in 1..Len(s) : g = s[i]
  BY <1>7, <1>8, <1>9
<1>12. QED
  BY <1>1, <1>2, <1>6, <1>7, <1>10, <1>11

LEMMA AnalyzedAlike ==
  ASSUME NEW rust \in Seq(Edit), NEW others \in Seq(Edit)
  PROVE  /\ \A k \in 1..(Len(rust) - 1) :
              Identities!Analyzed(Identities!Swapped(rust, k), others) = Identities!Analyzed(rust, others)
         /\ \A k \in 1..(Len(others) - 1) :
              Identities!Analyzed(rust, Identities!Swapped(others, k)) = Identities!Analyzed(rust, others)
<1>1. ASSUME NEW k \in 1..(Len(rust) - 1)
      PROVE  Identities!Analyzed(Identities!Swapped(rust, k), others) = Identities!Analyzed(rust, others)
  BY AssignedAlike DEF Identities!Analyzed
<1>2. ASSUME NEW k \in 1..(Len(others) - 1)
      PROVE  Identities!Analyzed(rust, Identities!Swapped(others, k)) = Identities!Analyzed(rust, others)
  <2>1. PICK q : q = Identities!Swapped(others, k)
    OBVIOUS
  <2>2. q \in Seq(Edit) /\ Len(q) = Len(others) /\ \A i \in 1..Len(others) : q[i] = others[Turned(i, k)]
    BY <2>1, SwappedIs
  <2>3. PICK s, t : s = Gathered(rust, others) /\ t = Gathered(rust, q)
    OBVIOUS
  <2>4. PICK b : b = Identities!Merged(Identities!AssignMutationIds(rust))
    OBVIOUS
  <2>5. PICK m, n : m = Len(rust) /\ n = Len(others)
    OBVIOUS
  <2>6. /\ m \in Nat /\ n \in Nat
        /\ s \in Seq(Edit) /\ Len(s) = m + n
        /\ \A i \in 1..(m + n) : s[i] = IF i <= m THEN b[i] ELSE others[i - m]
    BY <2>3, <2>4, <2>5, GatheredIs, EditsAre
  <2>7. /\ t \in Seq(Edit) /\ Len(t) = m + n
        /\ \A i \in 1..(m + n) : t[i] = IF i <= m THEN b[i] ELSE q[i - m]
    <3>1. /\ Gathered(rust, q) \in Seq(Edit)
          /\ Len(Gathered(rust, q)) = Len(rust) + Len(q)
          /\ \A i \in 1..(Len(rust) + Len(q)) :
               Gathered(rust, q)[i] = IF i <= Len(rust)
                                      THEN Identities!Merged(Identities!AssignMutationIds(rust))[i]
                                      ELSE q[i - Len(rust)]
      BY <2>2, GatheredIs
    <3>2. Len(rust) = m /\ Len(q) = n
      BY <2>2, <2>5
    <3>3. QED
      BY <3>1, <3>2, <2>3, <2>4
  <2>8. PICK j \in 1..(Len(s) - 1) : j = m + k
    BY <2>5, <2>6
  <2>9. /\ Identities!Swapped(s, j) \in Seq(Edit) /\ Len(Identities!Swapped(s, j)) = m + n
        /\ \A i \in 1..(m + n) : Identities!Swapped(s, j)[i] = s[Turned(i, j)]
    BY <2>6, SwappedIs
  <2>10. ASSUME NEW i \in 1..(m + n) PROVE t[i] = s[Turned(i, j)]
    <3>1. CASE i <= m
      <4>1. Turned(i, j) = i
        BY <2>6, <2>8, <3>1 DEF Turned
      <4>2. QED
        BY <2>6, <2>7, <3>1, <4>1
    <3>2. CASE ~(i <= m)
      <4>1. PICK x \in 1..n : x = i - m /\ i = m + x
        BY <2>6, <3>2
      <4>2. k \in 1..(n - 1) /\ Turned(x, k) \in 1..n
        BY <2>5, <2>6, TurningIs
      <4>3. Turned(i, j) = m + Turned(x, k)
        BY <2>6, <2>8, <4>1, <4>2 DEF Turned
      <4>4. Turned(i, j) \in 1..(m + n) /\ ~(Turned(i, j) <= m) /\ Turned(i, j) - m = Turned(x, k)
        BY <2>6, <4>2, <4>3
      <4>5. s[Turned(i, j)] = others[Turned(x, k)]
        BY <2>6, <4>4
      <4>6. t[i] = q[x]
        BY <2>7, <3>2, <4>1
      <4>7. QED
        BY <2>2, <2>5, <4>1, <4>5, <4>6
    <3>3. QED
      BY <3>1, <3>2
  <2>11. t = Identities!Swapped(s, j)
    BY <2>7, <2>9, <2>10, SeqEqual
  <2>12. Identities!AssignMutationIds(t) = Identities!AssignMutationIds(s)
    BY <2>6, <2>11, AssignedAlike
  <2>13. Identities!Analyzed(rust, q) = Identities!AssignMutationIds(t)
    BY <2>2, <2>3, GatheredIs
  <2>14. Identities!Analyzed(rust, others) = Identities!AssignMutationIds(s)
    BY <2>3, GatheredIs
  <2>15. QED
    BY <2>1, <2>12, <2>13, <2>14
<1>3. QED
  BY <1>1, <1>2

LEMMA SelectedAre ==
  ASSUME NEW ms \in Seq(Edit),
         \A i \in 1..Len(ms) : ms[i].fingerprint # <<>>,
         \A i, j \in 1..Len(ms) : i # j => ms[i].fingerprint # ms[j].fingerprint,
         NEW seed, allowedKinds # {}
  PROVE  Identities!ToSet(Identities!SelectCandidates(ms, seed))
           = {m \in Identities!ToSet(ms) : m.operator \in allowedKinds}
<1>1. Len(ms) \in Nat /\ DOMAIN ms = 1..Len(ms) /\ \A i \in 1..Len(ms) : ms[i] \in Edit
  BY EditsAre
<1> DEFINE chosen == {i \in DOMAIN ms : ms[i].operator \in allowedKinds}
           names == {ms[i].fingerprint : i \in chosen}
           E == {Identities!Entry(Identities!SeededKey(seed, ms[i]), i, ms[i]) : i \in chosen}
<1>2. Identities!Missing \notin names
  BY <1>1 DEF Identities!Missing
<1>3. ~(Identities!Cardinality(names) < Identities!Cardinality(chosen))
  <2> DEFINE f == [i \in chosen |-> ms[i].fingerprint]
  <2>1. chosen \in SUBSET (1..Len(ms)) /\ IsFiniteSet(1..Len(ms))
    BY <1>1, IntervalIs
  <2>2. IsFiniteSet(chosen)
    BY <2>1, FS_Subset
  <2>3. f \in Bijection(chosen, names)
    BY <1>1 DEF Bijection, Injection, IsInjective, Surjection
  <2>4. ExistsBijection(chosen, names)
    BY <2>3 DEF ExistsBijection
  <2>5. Cardinality(names) = Cardinality(chosen) /\ Cardinality(chosen) \in Nat
    BY <2>2, <2>4, FS_Bijection, FS_CardinalityType
  <2>6. QED
    BY <2>5, SameNumber
<1>4. Identities!SelectCandidates(ms, seed) = Identities!InOrder(E)
  <2>1. Identities!SelectCandidates(ms, seed)
          = IF allowedKinds = {} \/ Identities!Missing \in names
               \/ Identities!Cardinality(names) < Identities!Cardinality(chosen)
            THEN Identities!Refused ELSE Identities!InOrder(E)
    BY DEF Identities!SelectCandidates
  <2>2. QED
    BY <1>2, <1>3, <2>1
<1>5. \A i \in 1..Len(ms) : Identities!SeededKey(seed, ms[i]) \in Numbers
  <2>1. SUFFICES ASSUME NEW m \in Edit PROVE Identities!SeededKey(seed, m) \in Numbers
    BY <1>1
  <2>2. PICK x \in Nat : x = IF m.fingerprint \in seed THEN 0 ELSE 1
    OBVIOUS
  <2>3. <<x, m.file, m.symbol>> \in Numbers /\ m.fingerprint \in Numbers
    BY NamesAre DEF Edit, Numbers
  <2>4. Identities!SeededKey(seed, m) = <<x, m.file, m.symbol>> \o m.fingerprint
    BY <2>2 DEF Identities!SeededKey
  <2>5. QED
    BY <2>3, <2>4, JoinedAre
<1>6. Entries(E)
  <2> DEFINE K == [i \in 1..Len(ms) |-> Identities!SeededKey(seed, ms[i])]
  <2>1. Entries(Listing(K, ms, Len(ms)))
    <3>1. \A i \in 1..Len(ms) : K[i] \in Numbers
      BY <1>5
    <3> HIDE DEF K
    <3>2. QED
      BY <1>1, <3>1, ListingIs
  <2>2. E \in SUBSET Listing(K, ms, Len(ms))
    BY <1>1 DEF Listing
  <2> HIDE DEF E
  <2>3. IsFiniteSet(E)
    BY <2>1, <2>2, FS_Subset DEF Entries
  <2>4. QED
    BY <2>1, <2>2, <2>3 DEF Entries
<1>7. PICK s : s = Identities!InOrder(E)
  OBVIOUS
<1>8. /\ s = [n \in 1..Cardinality(E) |-> s[n]]
      /\ \A n \in 1..Cardinality(E) : \E e \in E : RankIn(e, E) = n
      /\ \A e \in E : RankIn(e, E) \in 1..Cardinality(E) /\ s[RankIn(e, E)] = e.mutation
  <2> HIDE DEF E
  <2>1. QED
    BY <1>6, <1>7, InOrderIs
<1>9. ASSUME NEW m PROVE m \in Identities!ToSet(s) <=> \E e \in E : m = e.mutation
  <2> HIDE DEF E
  <2>1. DOMAIN s = 1..Cardinality(E)
    BY <1>8, Zenon
  <2>2. ASSUME m \in Identities!ToSet(s) PROVE \E e \in E : m = e.mutation
    <3>1. PICK n \in 1..Cardinality(E) : m = s[n]
      BY <2>1, <2>2 DEF Identities!ToSet
    <3>2. PICK e \in E : RankIn(e, E) = n
      BY <1>8
    <3>3. s[RankIn(e, E)] = e.mutation
      BY <1>8
    <3>4. QED
      BY <3>1, <3>2, <3>3
  <2>3. ASSUME NEW e \in E, m = e.mutation PROVE m \in Identities!ToSet(s)
    <3>1. RankIn(e, E) \in DOMAIN s /\ s[RankIn(e, E)] = m
      BY <1>8, <2>1, <2>3
    <3>2. QED
      BY <3>1 DEF Identities!ToSet
  <2>4. QED
    BY <2>2, <2>3
<1>10. ASSUME NEW m PROVE (\E e \in E : m = e.mutation) <=> \E i \in chosen : m = ms[i]
  <2> HIDE DEF chosen
  <2>1. \A i : Identities!Entry(Identities!SeededKey(seed, ms[i]), i, ms[i]).mutation = ms[i]
    BY EntryIs
  <2>2. ASSUME NEW e \in E, m = e.mutation PROVE \E i \in chosen : m = ms[i]
    <3>1. PICK i \in chosen : e = Identities!Entry(Identities!SeededKey(seed, ms[i]), i, ms[i])
      OBVIOUS
    <3>2. QED
      BY <2>1, <2>2, <3>1
  <2>3. ASSUME NEW i \in chosen, m = ms[i] PROVE \E e \in E : m = e.mutation
    <3>1. Identities!Entry(Identities!SeededKey(seed, ms[i]), i, ms[i]) \in E
      OBVIOUS
    <3>2. QED
      BY <2>1, <2>3, <3>1
  <2>4. QED
    BY <2>2, <2>3
<1>11. \A m : (\E i \in chosen : m = ms[i]) <=> m \in Identities!ToSet(ms) /\ m.operator \in allowedKinds
  BY DEF Identities!ToSet
<1>12. QED
  <2> HIDE DEF E, chosen
  <2>1. QED
    BY <1>4, <1>7, <1>9, <1>10, <1>11

-----------------------------------------------------------------------------
(* Identities: what is named stays so, and what is selected is of it.      *)

IdentitiesInv ==
  /\ nativeEdits \in Seq(Edit) /\ foundEdits \in Seq(Edit)
  /\ naming \in {"named", "selected"} => namedEdits = Identities!Analyzed(nativeEdits, foundEdits)
  /\ naming = "selected" => \E seed : chosenEdits = Identities!SelectCandidates(namedEdits, seed)

LEMMA IdentitiesBegin == Identities!Init => IdentitiesInv
  BY DEF Identities!Init, IdentitiesInv

LEMMA IdentitiesStep == IdentitiesInv /\ [Identities!Next]_(Identities!vars) => IdentitiesInv'
<1> SUFFICES ASSUME IdentitiesInv, [Identities!Next]_(Identities!vars) PROVE IdentitiesInv'
  OBVIOUS
<1>1. ASSUME NEW c \in RustEdits \cup OtherEdits, Identities!Discover(c) PROVE IdentitiesInv'
  <2>1. c \in Edit
    BY IdentitiesAssumption DEF Edit
  <2>2. nativeEdits' \in Seq(Edit) /\ foundEdits' \in Seq(Edit)
    <3>1. nativeEdits \in Seq(Edit) /\ foundEdits \in Seq(Edit)
      BY DEF IdentitiesInv
    <3>2. Append(nativeEdits, c) \in Seq(Edit) /\ Append(foundEdits, c) \in Seq(Edit)
      BY <2>1, <3>1, AppendProperties
    <3>3. CASE c \in RustEdits
      BY <1>1, <3>1, <3>2, <3>3 DEF Identities!Discover
    <3>4. CASE c \notin RustEdits
      BY <1>1, <3>1, <3>2, <3>4 DEF Identities!Discover
    <3>5. QED
      BY <3>3, <3>4
  <2>3. naming' = "discovery"
    BY <1>1 DEF Identities!Discover
  <2>4. QED
    BY <2>2, <2>3 DEF IdentitiesInv
<1>2. CASE Identities!Analyze
  <2>1. /\ nativeEdits' = nativeEdits /\ foundEdits' = foundEdits /\ naming' = "named"
        /\ namedEdits' = Identities!Analyzed(nativeEdits, foundEdits)
    BY <1>2 DEF Identities!Analyze
  <2>2. QED
    BY <2>1 DEF IdentitiesInv
<1>3. ASSUME NEW seed \in EditSeeds, Identities!Select(seed) PROVE IdentitiesInv'
  <2>1. /\ nativeEdits' = nativeEdits /\ foundEdits' = foundEdits /\ namedEdits' = namedEdits
        /\ naming = "named" /\ naming' = "selected" /\ allowedKinds' = allowedKinds
        /\ chosenEdits' = Identities!SelectCandidates(namedEdits, seed)
    BY <1>3 DEF Identities!Select
  <2>2. chosenEdits' = Identities!SelectCandidates(namedEdits, seed)'
    BY <2>1 DEF Identities!SelectCandidates
  <2>3. QED
    BY <2>1, <2>2 DEF IdentitiesInv
<1>4. CASE UNCHANGED Identities!vars
  <2>1. UNCHANGED <<nativeEdits, foundEdits, namedEdits, allowedKinds, chosenEdits, naming>>
    BY <1>4 DEF Identities!vars
  <2>2. QED
    BY <2>1 DEF IdentitiesInv, Identities!SelectCandidates
<1>5. QED
  BY <1>1, <1>2, <1>3, <1>4 DEF Identities!Next

LEMMA NamedAreStable == IdentitiesInv => Identities!IdentitiesAreStable
<1> SUFFICES ASSUME IdentitiesInv PROVE Identities!IdentitiesAreStable
  OBVIOUS
<1>1. nativeEdits \in Seq(Edit) /\ foundEdits \in Seq(Edit)
  BY DEF IdentitiesInv
<1>2. PICK s : s = Gathered(nativeEdits, foundEdits)
  OBVIOUS
<1>3. PICK ms : ms = Identities!AssignMutationIds(s)
  OBVIOUS
<1>4. s \in Seq(Edit) /\ Identities!Analyzed(nativeEdits, foundEdits) = ms
      /\ \A g : g \in Identities!Given <=> \E i \in 1..Len(s) : g = s[i]
  <2>1. PICK rust, others : rust = nativeEdits /\ others = foundEdits
    OBVIOUS
  <2>2. rust \in Seq(Edit) /\ others \in Seq(Edit) /\ s = Gathered(rust, others)
    BY <1>1, <1>2, <2>1
  <2>3. /\ Gathered(rust, others) \in Seq(Edit)
        /\ \A g : g \in Identities!ToSet(Identities!AssignMutationIds(rust)) \cup Identities!ToSet(others)
                <=> \E i \in 1..Len(Gathered(rust, others)) : g = Gathered(rust, others)[i]
        /\ Identities!Analyzed(rust, others) = Identities!AssignMutationIds(Gathered(rust, others))
    BY <2>2, GatheredIs
  <2>4. Identities!Given = Identities!ToSet(Identities!AssignMutationIds(rust)) \cup Identities!ToSet(others)
    BY <2>1 DEF Identities!Given
  <2>5. QED
    BY <1>3, <2>1, <2>2, <2>3, <2>4
<1>5. WellNamed(s, ms)
  BY <1>3, <1>4, AssignedAreNamed
<1>6. /\ ms \in Seq(Edit) /\ DOMAIN ms = 1..Len(ms)
      /\ \A i \in 1..Len(ms) : ms[i].fingerprint # <<>>
      /\ \A i, j \in 1..Len(ms) : i # j => ms[i].fingerprint # ms[j].fingerprint
  BY <1>5, EditsAre DEF WellNamed
<1>7. ASSUME naming = "named"
      PROVE  /\ \A i, j \in DOMAIN namedEdits :
                  i # j => namedEdits[i].fingerprint # namedEdits[j].fingerprint
             /\ \A i \in DOMAIN foundEdits \ {Len(foundEdits)} :
                  Identities!Analyzed(nativeEdits, Identities!Swapped(foundEdits, i)) = namedEdits
             /\ \A i \in DOMAIN nativeEdits \ {Len(nativeEdits)} :
                  Identities!Analyzed(Identities!Swapped(nativeEdits, i), foundEdits) = namedEdits
             /\ \A c \in Identities!Given : c.fingerprint # <<>> =>
                  \E g \in Identities!Given : /\ g.fingerprint = c.fingerprint
                                             /\ Identities!Filled(g) \in Identities!ToSet(namedEdits)
  <2>1. namedEdits = ms
    BY <1>4, <1>7 DEF IdentitiesInv
  <2>2. \A q \in Seq(Edit) : DOMAIN q \ {Len(q)} = 1..(Len(q) - 1)
    <3>1. TAKE q \in Seq(Edit)
    <3>2. Len(q) \in Nat /\ DOMAIN q = 1..Len(q)
      BY EditsAre
    <3>3. QED
      BY <3>2
  <2>3. ASSUME NEW c \in Identities!Given, c.fingerprint # <<>>
        PROVE  \E g \in Identities!Given : g.fingerprint = c.fingerprint /\ Identities!Filled(g) \in Identities!ToSet(ms)
    <3>1. PICK i \in 1..Len(s) : c = s[i]
      BY <1>4
    <3>2. PICK j \in 1..Len(s), k \in 1..Len(ms) :
            s[j].fingerprint = s[i].fingerprint /\ Identities!Filled(s[j]) = ms[k]
      BY <1>5, <2>3, <3>1 DEF WellNamed
    <3>3. s[j] \in Identities!Given
      BY <1>4
    <3>4. Identities!Filled(s[j]) \in Identities!ToSet(ms)
      BY <1>6, <3>2 DEF Identities!ToSet
    <3>5. QED
      BY <3>1, <3>2, <3>3, <3>4
  <2>4. /\ \A i \in DOMAIN foundEdits \ {Len(foundEdits)} :
              Identities!Analyzed(nativeEdits, Identities!Swapped(foundEdits, i)) = ms
        /\ \A i \in DOMAIN nativeEdits \ {Len(nativeEdits)} :
              Identities!Analyzed(Identities!Swapped(nativeEdits, i), foundEdits) = ms
    BY <1>1, <1>4, <2>2, AnalyzedAlike
  <2>5. QED
    BY <1>6, <2>1, <2>3, <2>4
<1>8. ASSUME naming = "selected"
      PROVE  IF allowedKinds = {} THEN chosenEdits = Identities!Refused
             ELSE Identities!ToSet(chosenEdits)
                    = {m \in Identities!ToSet(namedEdits) : m.operator \in allowedKinds}
  <2>1. namedEdits = ms
    BY <1>4, <1>8 DEF IdentitiesInv
  <2>2. PICK seed : chosenEdits = Identities!SelectCandidates(ms, seed)
    BY <1>8, <2>1 DEF IdentitiesInv
  <2>3. CASE allowedKinds = {}
    BY <2>2, <2>3 DEF Identities!SelectCandidates
  <2>4. CASE allowedKinds # {}
    BY <1>6, <2>1, <2>2, <2>4, SelectedAre
  <2>5. QED
    BY <2>3, <2>4
<1>9. QED
  BY <1>7, <1>8 DEF Identities!IdentitiesAreStable, Identities!Missing

(* Every mutation has a fingerprint of its own, and the same one whichever
   was discovered first; a fingerprint that was given stays with one of those
   it was given to, and a selection holds all that is allowed.             *)
THEOREM IdentitiesStayStable == Identities!Spec => []IdentitiesAreStable
<1>1. IdentitiesInv => IdentitiesAreStable
  BY NamedAreStable DEF IdentitiesAreStable
<1>2. QED
  BY IdentitiesBegin, IdentitiesStep, <1>1, PTL DEF Identities!Spec
=============================================================================
