-------------------------- MODULE RunLock_proofs --------------------------
(***************************************************************************)
(* The run lock, for any number of processes and threads: the table of a   *)
(* process counts exactly the guards its threads own, the lock excludes,   *)
(* and RunLock implements SharedExclusiveLock.                             *)
(*                                                                         *)
(* Mutual exclusion alone follows from the file lock.  That nobody is held *)
(* up without a conflicting session needs the table to be exact, hence the *)
(* inductive invariant IInv of RunLock; its proof counts sets of threads.  *)
(***************************************************************************)
EXTENDS RunLock, FiniteSetTheorems, TLAPS

\* The guards of a process are finitely many threads.
LEMMA GuardsFinite ==
    ASSUME NEW p \in Process, NEW m \in LockMode
    PROVE  /\ IsFiniteSet(Guards(p, m))
           /\ Cardinality(Guards(p, m)) \in Nat
           /\ Cardinality(Guards(p, m)) = 0 <=> Guards(p, m) = {}
<1>1. Guards(p, m) \subseteq Thread
  BY DEF Guards
<1>2. IsFiniteSet(Guards(p, m))
  BY <1>1, ThreadAssumption, FS_Subset
<1>3. QED
  BY <1>2, FS_CardinalityType, FS_EmptySet

\* An exact table stays exact in a step that moves no guard.
LEMMA NoGuardMoves ==
    ASSUME TableMatchesGuards,
           UNCHANGED table,
           \A q \in Process, m \in LockMode : Guards(q, m)' = Guards(q, m)
    PROVE  TableMatchesGuards'
BY DEF TableMatchesGuards, LockMode

\* An exact table stays exact when a thread takes a place that is acquirable.
LEMMA GuardAdded ==
    ASSUME TypeOK, TableMatchesGuards,
           NEW t \in Thread, mode[t] \in LockMode, pc[t] \notin Guarded,
           Acquirable(table[ProcessOf[t]], mode[t]),
           table' = [table EXCEPT ![ProcessOf[t]] = Acquired(@, mode[t])],
           \A q \in Process, m \in LockMode :
              Guards(q, m)' = IF q = ProcessOf[t] /\ m = mode[t]
                              THEN Guards(q, m) \cup {t} ELSE Guards(q, m)
    PROVE  TableMatchesGuards'
<1> DEFINE p == ProcessOf[t]
<1>1. p \in Process
  BY ProcessAssumption
<1> HIDE DEF p
<1>2. t \notin Guards(p, mode[t])
  BY DEF Guards
<1>3. SUFFICES ASSUME NEW q \in Process
               PROVE  /\ table'[q].readers = Cardinality(Guards(q, "shared")')
                      /\ table'[q].writer <=> Guards(q, "execution")' # {}
                      /\ table'[q].writer => table'[q].readers = 0
                      /\ \A a, b \in Guards(q, "execution")' : a = b
  BY DEF TableMatchesGuards
<1>4. CASE q # p
  <2>1. table'[q] = table[q]
    BY <1>4 DEF TypeOK, p
  <2>2. \A m \in LockMode : Guards(q, m)' = Guards(q, m)
    BY <1>4 DEF p
  <2>3. QED
    BY <2>1, <2>2 DEF TableMatchesGuards, LockMode
<1>5. CASE q = p /\ mode[t] = "execution"
  <2>1. table'[p] = [table[p] EXCEPT !.writer = TRUE]
    BY <1>1, <1>5 DEF TypeOK, p, Acquired
  <2>2. Guards(p, "execution")' = Guards(p, "execution") \cup {t}
    BY <1>1, <1>5 DEF p, LockMode
  <2>3. Guards(p, "shared")' = Guards(p, "shared")
    BY <1>1, <1>5 DEF p, LockMode
  <2>4. Guards(p, "execution") = {} /\ table[p].readers = 0
    BY <1>1, <1>5 DEF TableMatchesGuards, Acquirable, p
  <2>5. table'[p].writer /\ table'[p].readers = table[p].readers
    BY <1>1, <2>1 DEF TypeOK, ProcessLockState
  <2>6. QED
    BY <1>1, <1>5, <2>2, <2>3, <2>4, <2>5 DEF TableMatchesGuards
<1>6. CASE q = p /\ mode[t] = "shared"
  <2>1. table'[p] = [table[p] EXCEPT !.readers = @ + 1]
    BY <1>1, <1>6 DEF TypeOK, p, Acquired
  <2>2. Guards(p, "shared")' = Guards(p, "shared") \cup {t}
    BY <1>1, <1>6 DEF p, LockMode
  <2>3. Guards(p, "execution")' = Guards(p, "execution")
    BY <1>1, <1>6 DEF p, LockMode
  <2>4. ~table[p].writer
    BY DEF Acquirable, p
  <2>5. table'[p].writer = table[p].writer /\ table'[p].readers = table[p].readers + 1
    BY <1>1, <2>1 DEF TypeOK, ProcessLockState
  <2>6. Cardinality(Guards(p, "shared") \cup {t}) = Cardinality(Guards(p, "shared")) + 1
    BY <1>1, <1>2, <1>6, GuardsFinite, FS_AddElement DEF LockMode
  <2>7. QED
    BY <1>1, <1>6, <2>2, <2>3, <2>4, <2>5, <2>6 DEF TableMatchesGuards
<1>7. QED
  BY <1>4, <1>5, <1>6 DEF LockMode

\* An exact table stays exact when a guard is dropped.
LEMMA GuardDropped ==
    ASSUME TypeOK, TableMatchesGuards,
           NEW t \in Thread, mode[t] \in LockMode, pc[t] \in Guarded,
           DropProcessGuard(t),
           \A q \in Process, m \in LockMode :
              Guards(q, m)' = IF q = ProcessOf[t] /\ m = mode[t]
                              THEN Guards(q, m) \ {t} ELSE Guards(q, m)
    PROVE  TableMatchesGuards'
<1> DEFINE p == ProcessOf[t]
<1>1. p \in Process
  BY ProcessAssumption
<1>a. table' = [table EXCEPT ![p] = Dropped(@, mode[t])]
  BY DEF DropProcessGuard, p
<1>2. t \in Guards(p, mode[t])
  BY DEF Guards, p
<1> HIDE DEF p
<1>3. SUFFICES ASSUME NEW q \in Process
               PROVE  /\ table'[q].readers = Cardinality(Guards(q, "shared")')
                      /\ table'[q].writer <=> Guards(q, "execution")' # {}
                      /\ table'[q].writer => table'[q].readers = 0
                      /\ \A a, b \in Guards(q, "execution")' : a = b
  BY DEF TableMatchesGuards
<1>4. CASE q # p
  <2>1. table'[q] = table[q]
    BY <1>4, <1>a DEF TypeOK
  <2>2. \A m \in LockMode : Guards(q, m)' = Guards(q, m)
    BY <1>4 DEF p
  <2>3. QED
    BY <2>1, <2>2 DEF TableMatchesGuards, LockMode
<1>5. CASE q = p /\ mode[t] = "execution"
  <2>1. table'[p] = [table[p] EXCEPT !.writer = FALSE]
    BY <1>1, <1>5, <1>a DEF TypeOK, Dropped
  <2>2. Guards(p, "execution")' = Guards(p, "execution") \ {t}
    BY <1>1, <1>5 DEF p, LockMode
  <2>3. Guards(p, "shared")' = Guards(p, "shared")
    BY <1>1, <1>5 DEF p, LockMode
  <2>4. Guards(p, "execution") \ {t} = {}
    BY <1>1, <1>2, <1>5 DEF TableMatchesGuards
  <2>5. ~table'[p].writer /\ table'[p].readers = table[p].readers
    BY <1>1, <2>1 DEF TypeOK, ProcessLockState
  <2>6. QED
    BY <1>1, <1>5, <2>2, <2>3, <2>4, <2>5 DEF TableMatchesGuards
<1>6. CASE q = p /\ mode[t] = "shared"
  <2>1. table'[p] = [table[p] EXCEPT !.readers = IF @ = 0 THEN 0 ELSE @ - 1]
    BY <1>1, <1>6, <1>a DEF TypeOK, Dropped
  <2>2. Guards(p, "shared")' = Guards(p, "shared") \ {t}
    BY <1>1, <1>6 DEF p, LockMode
  <2>3. Guards(p, "execution")' = Guards(p, "execution")
    BY <1>1, <1>6 DEF p, LockMode
  <2>4. table[p].readers = Cardinality(Guards(p, "shared")) /\ table[p].readers \in Nat
    BY <1>1 DEF TableMatchesGuards, TypeOK, ProcessLockState
  <2>5. table[p].readers # 0
    BY <1>1, <1>2, <1>6, <2>4, GuardsFinite DEF LockMode
  <2>6. table'[p].writer = table[p].writer /\ table'[p].readers = table[p].readers - 1
    BY <1>1, <2>1, <2>5 DEF TypeOK, ProcessLockState
  <2>7. Cardinality(Guards(p, "shared") \ {t}) = Cardinality(Guards(p, "shared")) - 1
    BY <1>1, <1>2, <1>6, GuardsFinite, FS_RemoveElement DEF LockMode
  <2>8. ~table[p].writer
    BY <1>1, <2>5 DEF TableMatchesGuards
  <2>9. Guards(p, "execution") = {}
    BY <1>1, <2>8 DEF TableMatchesGuards
  <2>10. table'[p].readers = Cardinality(Guards(p, "shared")')
    BY <2>2, <2>4, <2>6, <2>7
  <2>11. QED
    BY <1>6, <2>3, <2>6, <2>8, <2>9, <2>10
<1>7. QED
  BY <1>4, <1>5, <1>6 DEF LockMode

----------------------------------------------------------------------------

\* Guards that a step of thread t leaves alone, takes or drops.
LEMMA GuardsMove ==
    ASSUME TypeOK, NEW t \in Thread, NEW place \in Place, Goto(t, place),
           \A u \in Thread \ {t} : mode'[u] = mode[u],
           \/ mode'[t] = mode[t]
           \/ place \notin Guarded /\ pc[t] \notin Guarded
           \/ place \notin Guarded /\ mode[t] \in LockMode
    PROVE  \A q \in Process, m \in LockMode :
              Guards(q, m)' =
                 IF q = ProcessOf[t] /\ m = mode[t] /\ place \in Guarded
                 THEN Guards(q, m) \cup {t}
                 ELSE IF q = ProcessOf[t] /\ m = mode[t]
                 THEN Guards(q, m) \ {t}
                 ELSE Guards(q, m)
<1>1. \A u \in Thread : pc'[u] = IF u = t THEN place ELSE pc[u]
  BY DEF TypeOK, Goto
<1>2. TAKE q \in Process, m \in LockMode
<1>3. Guards(q, m)' = {u \in Thread : ProcessOf[u] = q /\ pc'[u] \in Guarded /\ mode'[u] = m}
  BY DEF Guards
<1>4. QED
  BY <1>1, <1>3 DEF Guards

\* The types, and the parts of the invariant that speak of one thread.
LEMMA TypesStep ==
    ASSUME TypeOK, ModesOfSessions, FileMatchesHolders, [Next]_vars
    PROVE  TypeOK' /\ ModesOfSessions' /\ FileMatchesHolders'
<1> USE DEF TypeOK, ModesOfSessions, FileMatchesHolders, Goto
<1>1. ASSUME NEW t \in Thread, NEW m \in LockMode, Begin(t, m)
      PROVE  TypeOK' /\ ModesOfSessions' /\ FileMatchesHolders'
  BY <1>1, ProcessAssumption DEF Begin, Place, LockMode
<1>2. ASSUME NEW s \in ProcessLockState, NEW m \in LockMode
      PROVE  Acquired(s, m) \in ProcessLockState /\ Dropped(s, m) \in ProcessLockState
  <2>1. s.readers \in Nat /\ s.writer \in BOOLEAN
    BY DEF ProcessLockState
  <2>2. CASE m = "execution"
    BY <2>2 DEF Acquired, Dropped, ProcessLockState
  <2>3. CASE m = "shared"
    <3>1. Acquired(s, m) = [s EXCEPT !.readers = s.readers + 1]
      BY <2>3 DEF Acquired
    <3>2. Dropped(s, m) = [s EXCEPT !.readers = IF s.readers = 0 THEN 0 ELSE s.readers - 1]
      BY <2>3 DEF Dropped
    <3>3. s.readers + 1 \in Nat /\ (IF s.readers = 0 THEN 0 ELSE s.readers - 1) \in Nat
      BY <2>1
    <3>4. QED
      BY <3>1, <3>2, <3>3 DEF ProcessLockState
  <2>4. QED
    BY <2>2, <2>3 DEF LockMode
<1>3. ASSUME NEW t \in Thread, TryProcess(t)
      PROVE  TypeOK' /\ ModesOfSessions' /\ FileMatchesHolders'
  <2>1. mode[t] \in LockMode /\ ProcessOf[t] \in Process
    BY <1>3, ProcessAssumption DEF TryProcess
  <2>2. table' \in [Process -> ProcessLockState]
    <3>1. Acquired(table[ProcessOf[t]], mode[t]) \in ProcessLockState
      BY <1>2, <2>1
    <3>2. \/ UNCHANGED table
          \/ table' = [table EXCEPT ![ProcessOf[t]] = Acquired(table[ProcessOf[t]], mode[t])]
      BY <1>3 DEF TryProcess
    <3>3. QED
      BY <2>1, <3>1, <3>2
  <2>3. pc' = [pc EXCEPT ![t] = "tryFile"] \/ pc' = [pc EXCEPT ![t] = "decide"]
    BY <1>3 DEF TryProcess
  <2>4. UNCHANGED <<mode, expired, flock>> /\ pc[t] = "tryProcess"
    BY <1>3 DEF TryProcess
  <2>5. TypeOK'
    <3>1. pc' \in [Thread -> Place]
      BY <2>3 DEF Place
    <3>2. QED
      BY <2>2, <2>4, <3>1
  <2>6. ModesOfSessions' /\ FileMatchesHolders'
    <3>1. CASE pc' = [pc EXCEPT ![t] = "tryFile"]
      BY <2>4, <3>1
    <3>2. CASE pc' = [pc EXCEPT ![t] = "decide"]
      BY <2>4, <3>2
    <3>3. QED
      BY <2>3, <3>1, <3>2
  <2>7. QED
    BY <2>5, <2>6
<1>4. ASSUME NEW t \in Thread, pc[t] # "idle", DropProcessGuard(t)
      PROVE  table' \in [Process -> ProcessLockState]
  <2>1. mode[t] \in LockMode /\ ProcessOf[t] \in Process
    BY <1>4, ProcessAssumption
  <2>2. QED
    BY <1>2, <1>4, <2>1 DEF DropProcessGuard
<1>5. ASSUME NEW t \in Thread, TryFile(t)
      PROVE  TypeOK' /\ ModesOfSessions' /\ FileMatchesHolders'
  BY <1>5 DEF TryFile, Place
<1>6. ASSUME NEW t \in Thread, FileLockError(t)
      PROVE  TypeOK' /\ ModesOfSessions' /\ FileMatchesHolders'
  BY <1>6 DEF FileLockError, Place
<1>7. ASSUME NEW t \in Thread, GiveBack(t)
      PROVE  TypeOK' /\ ModesOfSessions' /\ FileMatchesHolders'
  BY <1>4, <1>7 DEF GiveBack, Place
<1>8. ASSUME NEW t \in Thread, Retry(t)
      PROVE  TypeOK' /\ ModesOfSessions' /\ FileMatchesHolders'
  BY <1>8 DEF Retry, Place
<1>9. ASSUME NEW t \in Thread, Refuse(t)
      PROVE  TypeOK' /\ ModesOfSessions' /\ FileMatchesHolders'
  BY <1>9 DEF Refuse, End, Place
<1>10. ASSUME NEW t \in Thread, DropGuard(t)
       PROVE  TypeOK' /\ ModesOfSessions' /\ FileMatchesHolders'
  BY <1>4, <1>10 DEF DropGuard, End, Place
<1>11. ASSUME NEW t \in Thread, Expire(t)
       PROVE  TypeOK' /\ ModesOfSessions' /\ FileMatchesHolders'
  BY <1>11 DEF Expire
<1>12. ASSUME NEW t \in Thread, UnlockFile(t)
       PROVE  TypeOK' /\ ModesOfSessions' /\ FileMatchesHolders'
  BY <1>12 DEF UnlockFile, Place
<1>13. ASSUME NEW p \in Process, CrashProcess(p)
       PROVE  TypeOK' /\ ModesOfSessions' /\ FileMatchesHolders'
  BY <1>13 DEF CrashProcess, Place, Default, ProcessLockState
<1>14. CASE UNCHANGED vars
  BY <1>14 DEF vars
<1>15. QED
  BY <1>1, <1>3, <1>5, <1>6, <1>7, <1>8, <1>9, <1>10, <1>11, <1>12, <1>13, <1>14
     DEF Next, Attempt

\* Who holds the file is alone with it, or among readers only.
LEMMA ExclusionStep ==
    ASSUME TypeOK, ModesOfSessions, FileMatchesHolders, MutualExclusion, [Next]_vars
    PROVE  MutualExclusion'
<1>1. ASSUME NEW t \in Thread, TryFile(t)
      PROVE  MutualExclusion'
  <2>1. CASE FileLockable(t)
    <3>1. pc' = [pc EXCEPT ![t] = "held"] /\ mode' = mode
      BY <1>1, <2>1 DEF TryFile, Goto
    <3>2. \A u \in Thread \ {t} : pc[u] = "held" => mode[u] = "shared" /\ mode[t] = "shared"
      BY <2>1 DEF FileLockable, FileMatchesHolders, ModesOfSessions
    <3>3. QED
      BY <3>1, <3>2 DEF MutualExclusion, TypeOK
  <2>2. CASE ~FileLockable(t)
    BY <1>1, <2>2 DEF TryFile, Goto, MutualExclusion, TypeOK
  <2>3. QED
    BY <2>1, <2>2
<1>2. ASSUME \A t \in Thread : pc'[t] = "held" => pc[t] = "held" /\ mode'[t] = mode[t]
      PROVE  MutualExclusion'
  BY <1>2 DEF MutualExclusion
<1>3. ASSUME NEW t \in Thread, NEW m \in LockMode, Begin(t, m)
      PROVE  MutualExclusion'
  BY <1>2, <1>3 DEF Begin, Goto, TypeOK
<1>4. ASSUME NEW t \in Thread,
             TryProcess(t) \/ FileLockError(t) \/ GiveBack(t) \/ Retry(t) \/ Refuse(t)
             \/ DropGuard(t) \/ UnlockFile(t)
      PROVE  MutualExclusion'
  BY <1>2, <1>4 DEF TryProcess, FileLockError, GiveBack, Retry, Refuse, DropGuard, UnlockFile,
                    End, Goto, TypeOK
<1>5. ASSUME NEW t \in Thread, Expire(t)
      PROVE  MutualExclusion'
  BY <1>2, <1>5 DEF Expire
<1>6. ASSUME NEW p \in Process, CrashProcess(p)
      PROVE  MutualExclusion'
  BY <1>2, <1>6 DEF CrashProcess
<1>7. CASE UNCHANGED vars
  BY <1>2, <1>7 DEF vars
<1>8. QED
  BY <1>1, <1>3, <1>4, <1>5, <1>6, <1>7 DEF Next, Attempt

\* No step makes the table differ from the guards.
LEMMA TableStep ==
    ASSUME TypeOK, ModesOfSessions, TableMatchesGuards, [Next]_vars
    PROVE  TableMatchesGuards'
<1>1. ASSUME NEW t \in Thread, NEW place \in Place, Goto(t, place), UNCHANGED table,
             \A u \in Thread \ {t} : mode'[u] = mode[u],
             place \in Guarded <=> pc[t] \in Guarded,
             mode'[t] = mode[t] \/ pc[t] \notin Guarded
      PROVE  TableMatchesGuards'
  <2>1. \A q \in Process, m \in LockMode : Guards(q, m)' = Guards(q, m)
    BY <1>1, GuardsMove DEF Guards
  <2>2. QED
    BY <1>1, <2>1, NoGuardMoves
<1>2. ASSUME NEW t \in Thread, NEW m \in LockMode, Begin(t, m)
      PROVE  TableMatchesGuards'
  BY <1>1, <1>2 DEF Begin, Place, Guarded, TypeOK
<1>3. ASSUME NEW t \in Thread, TryProcess(t)
      PROVE  TableMatchesGuards'
  <2>1. mode[t] \in LockMode /\ pc[t] \notin Guarded /\ mode' = mode
    BY <1>3 DEF TryProcess, ModesOfSessions, TypeOK, Guarded
  <2>2. CASE Acquirable(table[ProcessOf[t]], mode[t])
    <3>1. /\ Goto(t, "tryFile")
          /\ table' = [table EXCEPT ![ProcessOf[t]] = Acquired(@, mode[t])]
      BY <1>3, <2>2 DEF TryProcess
    <3>2. \A q \in Process, m \in LockMode :
             Guards(q, m)' = IF q = ProcessOf[t] /\ m = mode[t]
                             THEN Guards(q, m) \cup {t} ELSE Guards(q, m)
      BY <2>1, <3>1, GuardsMove DEF Place, Guarded
    <3>3. QED
      BY <2>1, <2>2, <3>1, <3>2, GuardAdded
  <2>3. CASE ~Acquirable(table[ProcessOf[t]], mode[t])
    BY <1>1, <1>3, <2>1, <2>3 DEF TryProcess, Place, Guarded
  <2>4. QED
    BY <2>2, <2>3
<1>4. ASSUME NEW t \in Thread, TryFile(t) \/ FileLockError(t) \/ Retry(t) \/ Refuse(t) \/ UnlockFile(t)
      PROVE  TableMatchesGuards'
  BY <1>1, <1>4 DEF TryFile, FileLockError, Retry, Refuse, UnlockFile, End, Goto, Place, Guarded, TypeOK
<1>5. ASSUME NEW t \in Thread, GiveBack(t) \/ DropGuard(t)
      PROVE  TableMatchesGuards'
  <2>1. mode[t] \in LockMode /\ pc[t] \in Guarded /\ DropProcessGuard(t)
    BY <1>5 DEF GiveBack, DropGuard, ModesOfSessions, TypeOK, Guarded
  <2>2. PICK place \in Place : place \notin Guarded /\ Goto(t, place)
    BY <1>5 DEF GiveBack, DropGuard, End, Place, Guarded
  <2>3. \A u \in Thread \ {t} : mode'[u] = mode[u]
    BY <1>5 DEF GiveBack, DropGuard, End, TypeOK
  <2>4. \A q \in Process, m \in LockMode :
           Guards(q, m)' = IF q = ProcessOf[t] /\ m = mode[t]
                           THEN Guards(q, m) \ {t} ELSE Guards(q, m)
    BY <2>1, <2>2, <2>3, GuardsMove
  <2>5. QED
    BY <2>1, <2>4, GuardDropped
<1>6. ASSUME NEW t \in Thread, Expire(t)
      PROVE  TableMatchesGuards'
  BY <1>6, NoGuardMoves DEF Expire, Guards
<1>7. ASSUME NEW p \in Process, CrashProcess(p)
      PROVE  TableMatchesGuards'
  <2>1. \A m \in LockMode : Guards(p, m)' = {}
    BY <1>7 DEF CrashProcess, Guards, Guarded
  <2>2. \A q \in Process \ {p}, m \in LockMode : Guards(q, m)' = Guards(q, m)
    BY <1>7 DEF CrashProcess, Guards
  <2>3. /\ table'[p].readers = 0
        /\ ~table'[p].writer
        /\ \A q \in Process \ {p} : table'[q] = table[q]
    BY <1>7 DEF CrashProcess, Default, TypeOK
  <2>4. Cardinality({}) = 0
    BY FS_EmptySet
  <2>5. QED
    BY <2>1, <2>2, <2>3, <2>4 DEF TableMatchesGuards, LockMode
<1>8. CASE UNCHANGED vars
  BY <1>8, NoGuardMoves DEF vars, Guards
<1>9. QED
  BY <1>2, <1>3, <1>4, <1>5, <1>6, <1>7, <1>8 DEF Next, Attempt

----------------------------------------------------------------------------

\* The inductive invariant of the run lock: the table counts the guards, the
\* file is locked by the holders, and the holders exclude each other.
THEOREM LockInvariant == Spec => []IInv
<1>1. Init => IInv
  <2> SUFFICES ASSUME Init PROVE IInv
    OBVIOUS
  <2>1. \A p \in Process, m \in LockMode : Guards(p, m) = {}
    BY DEF Init, Guards, Guarded
  <2>2. TypeOK /\ ModesOfSessions /\ FileMatchesHolders /\ MutualExclusion
    BY DEF Init, TypeOK, ModesOfSessions, FileMatchesHolders, MutualExclusion, Place,
           Default, ProcessLockState
  <2>3. TableMatchesGuards
    BY <2>1, FS_EmptySet DEF Init, TableMatchesGuards, Default, LockMode
  <2>4. QED
    BY <2>2, <2>3 DEF IInv
<1>2. IInv /\ [Next]_vars => IInv'
  BY TypesStep, ExclusionStep, TableStep DEF IInv
<1>3. QED
  BY <1>1, <1>2, PTL DEF Spec

\* An execution holds the run lock alone, among all processes and threads.
THEOREM LockExcludes == Spec => []MutualExclusion
<1>1. IInv => MutualExclusion
  BY DEF IInv
<1>2. QED
  BY <1>1, LockInvariant, PTL

\* No interleaving of attempts, failures, releases and deaths leaks a place in
\* the table of a process, or frees one twice.
THEOREM TableIsExact == Spec => []TableMatchesGuards
<1>1. IInv => TableMatchesGuards
  BY DEF IInv
<1>2. QED
  BY <1>1, LockInvariant, PTL

----------------------------------------------------------------------------
(* RunLock implements SharedExclusiveLock. *)

ModeOf(t) == IF mode[t] = "execution" THEN "exclusive" ELSE mode[t]

Phases == [t \in Thread |-> PhaseOf(t)]

Modes == [t \in Thread |-> ModeOf(t)]

\* A step that only changes the place of t moves t from phase to phase.
LEMMA PhaseMoves ==
    ASSUME TypeOK, NEW t \in Thread, NEW place \in Place, Goto(t, place), UNCHANGED mode
    PROVE  /\ \A u \in Thread \ {t} : PhaseOf(u)' = PhaseOf(u)
           /\ \A u \in Thread : ModeOf(u)' = ModeOf(u)
           /\ Phases' = [Phases EXCEPT ![t] = PhaseOf(t)']
           /\ Modes' = Modes
<1>1. \A u \in Thread \ {t} : PhaseOf(u)' = PhaseOf(u)
  BY DEF TypeOK, Goto, PhaseOf
<1>2. \A u \in Thread : ModeOf(u)' = ModeOf(u)
  BY DEF ModeOf
<1>3. QED
  BY <1>1, <1>2 DEF Phases, Modes

\* An attempt that does not get its place in the table, or the file lock, meets
\* a conflicting session of its process, or of any process.
LEMMA BlockedByOpposition ==
    ASSUME IInv, NEW t \in Thread,
           \/ pc[t] = "tryProcess" /\ ~Acquirable(table[ProcessOf[t]], mode[t])
           \/ pc[t] = "tryFile" /\ ~FileLockable(t)
    PROVE  \E u \in Thread \ {t} :
              PhaseOf(u) # "out" /\ Lock!Conflict(ModeOf(t), ModeOf(u))
<1>1. mode[t] \in LockMode /\ ProcessOf[t] \in Process
  BY ProcessAssumption DEF IInv, TypeOK, ModesOfSessions
<1>2. ASSUME NEW u \in Thread, u # t, pc[u] # "idle", mode[t] = "execution" \/ mode[u] = "execution"
      PROVE  PhaseOf(u) # "out" /\ Lock!Conflict(ModeOf(t), ModeOf(u))
  <2>1. pc[u] \in Place
    BY DEF IInv, TypeOK
  <2>2. PhaseOf(u) # "out"
    BY <1>2, <2>1 DEF PhaseOf, Place
  <2>3. QED
    BY <1>2, <2>2 DEF ModeOf, Lock!Conflict
<1>3. CASE pc[t] = "tryProcess" /\ ~Acquirable(table[ProcessOf[t]], mode[t])
  <2>1. \A m \in LockMode : \A u \in Guards(ProcessOf[t], m) :
           u \in Thread /\ u # t /\ pc[u] # "idle" /\ mode[u] = m
    BY <1>3 DEF Guards, Guarded
  <2>2. CASE table[ProcessOf[t]].writer
    <3>1. PICK u \in Guards(ProcessOf[t], "execution") : TRUE
      BY <1>1, <2>2 DEF IInv, TableMatchesGuards
    <3>2. QED
      BY <1>2, <2>1, <3>1 DEF LockMode
  <2>3. CASE ~table[ProcessOf[t]].writer
    <3>1. mode[t] = "execution" /\ table[ProcessOf[t]].readers # 0
      BY <1>3, <2>3 DEF Acquirable
    <3>2. Guards(ProcessOf[t], "shared") # {}
      BY <1>1, <3>1, FS_EmptySet DEF IInv, TableMatchesGuards
    <3>3. QED
      BY <1>2, <2>1, <3>1, <3>2 DEF LockMode
  <2>4. QED
    BY <2>2, <2>3
<1>4. CASE pc[t] = "tryFile" /\ ~FileLockable(t)
  <2>1. PICK u \in Thread \ {t} :
           flock[u] # NoMode /\ ~(flock[u] = "shared" /\ mode[t] = "shared")
    BY <1>4 DEF FileLockable
  <2>2. pc[u] = "held" /\ flock[u] = mode[u] /\ mode[u] \in LockMode
    BY <2>1 DEF IInv, FileMatchesHolders, ModesOfSessions, TypeOK
  <2>3. mode[t] = "execution" \/ mode[u] = "execution"
    BY <1>1, <2>1, <2>2 DEF LockMode
  <2>4. QED
    BY <1>2, <2>2, <2>3
<1>5. QED
  BY <1>3, <1>4

\* Every step of the run lock is a step of the promised lock, or none at all.
LEMMA LockStep ==
    ASSUME IInv, IInv', [Next]_vars
    PROVE  [Lock!Next]_(Lock!vars)
<1> USE DEF Phases, Modes, ModeOf
<1>0. TypeOK /\ TypeOK' /\ NoMode \notin LockMode
  BY ProcessAssumption DEF IInv, LockMode
<1>1. ASSUME NEW t \in Thread, NEW m \in LockMode, Begin(t, m)
      PROVE  Lock!Ask(t)
  <2>1. Phases[t] = "out" /\ PhaseOf(t)' = "asking"
    BY <1>0, <1>1 DEF Begin, Goto, PhaseOf, TypeOK, Place
  <2>2. \A u \in Thread \ {t} : PhaseOf(u)' = PhaseOf(u) /\ ModeOf(u)' = ModeOf(u)
    BY <1>0, <1>1 DEF Begin, Goto, PhaseOf, TypeOK
  <2>3. ModeOf(t)' \in Lock!Mode
    BY <1>0, <1>1 DEF Begin, TypeOK, LockMode, Lock!Mode
  <2>4. Phases' = [Phases EXCEPT ![t] = "asking"] /\ Modes' = [Modes EXCEPT ![t] = ModeOf(t)']
    BY <2>1, <2>2
  <2>5. QED
    BY <2>1, <2>3, <2>4 DEF Lock!Ask
<1>2. ASSUME NEW t \in Thread, NEW place \in Place, Goto(t, place), UNCHANGED mode,
             NEW from, PhaseOf(t) = from, NEW to, PhaseOf(t)' = to
      PROVE  Lock!Move(t, {from}, to)
  BY <1>0, <1>2, PhaseMoves DEF Lock!Move
<1>3. ASSUME NEW t \in Thread, TryProcess(t)
      PROVE  Lock!Block(t) \/ UNCHANGED Lock!vars
  <2>1. CASE Acquirable(table[ProcessOf[t]], mode[t])
    <3>1. Goto(t, "tryFile") /\ UNCHANGED mode /\ PhaseOf(t)' = PhaseOf(t)
      BY <1>0, <1>3, <2>1 DEF TryProcess, Goto, PhaseOf, TypeOK
    <3>2. QED
      BY <1>0, <3>1, PhaseMoves DEF Lock!vars, Place
  <2>2. CASE ~Acquirable(table[ProcessOf[t]], mode[t])
    <3>1. Goto(t, "decide") /\ UNCHANGED mode /\ PhaseOf(t) = "asking" /\ PhaseOf(t)' = "blocked"
      BY <1>0, <1>3, <2>2 DEF TryProcess, Goto, PhaseOf, TypeOK
    <3>2. Lock!Move(t, {"asking"}, "blocked")
      BY <1>2, <3>1 DEF Place
    <3>3. Lock!Opposed(t)
      BY <1>3, <2>2, BlockedByOpposition DEF TryProcess, Lock!Opposed
    <3>4. QED
      BY <3>2, <3>3 DEF Lock!Block
  <2>3. QED
    BY <2>1, <2>2
<1>4. ASSUME NEW t \in Thread, TryFile(t)
      PROVE  Lock!Block(t) \/ Lock!Grant(t)
  <2>1. CASE FileLockable(t)
    <3>1. Goto(t, "held") /\ UNCHANGED mode /\ PhaseOf(t) = "asking" /\ PhaseOf(t)' = "in"
      BY <1>0, <1>4, <2>1 DEF TryFile, Goto, PhaseOf, TypeOK
    <3>2. Lock!Move(t, {"asking"}, "in")
      BY <1>2, <3>1 DEF Place
    <3>3. ASSUME NEW u \in Thread \ {t}, PhaseOf(u) = "in"
          PROVE  ~Lock!Conflict(ModeOf(t), ModeOf(u))
      <4>1. pc[u] = "held"
        BY <1>0, <3>3 DEF PhaseOf, TypeOK, Place
      <4>2. flock[u] = mode[u] /\ mode[u] # NoMode
        BY <4>1 DEF IInv, FileMatchesHolders, ModesOfSessions
      <4>3. mode[t] = "shared" /\ mode[u] = "shared"
        BY <2>1, <4>2 DEF FileLockable
      <4>4. QED
        BY <4>3 DEF Lock!Conflict
    <3>4. QED
      BY <3>2, <3>3 DEF Lock!Grant
  <2>2. CASE ~FileLockable(t)
    <3>1. Goto(t, "giveBack") /\ UNCHANGED mode /\ PhaseOf(t) = "asking" /\ PhaseOf(t)' = "blocked"
      BY <1>0, <1>4, <2>2 DEF TryFile, Goto, PhaseOf, TypeOK
    <3>2. Lock!Move(t, {"asking"}, "blocked")
      BY <1>2, <3>1 DEF Place
    <3>3. Lock!Opposed(t)
      BY <1>4, <2>2, BlockedByOpposition DEF TryFile, Lock!Opposed
    <3>4. QED
      BY <3>2, <3>3 DEF Lock!Block
  <2>3. QED
    BY <2>1, <2>2
<1>5. ASSUME NEW t \in Thread, FileLockError(t) \/ UnlockFile(t)
      PROVE  Lock!StartLeaving(t)
  <2>1. PICK place \in {"fail", "unlocked"} :
           /\ Goto(t, place)
           /\ UNCHANGED mode
           /\ PhaseOf(t) \in {"asking", "in"}
    BY <1>0, <1>5 DEF FileLockError, UnlockFile, PhaseOf
  <2>2. PhaseOf(t)' = "leaving"
    BY <1>0, <2>1 DEF Goto, PhaseOf, TypeOK
  <2>3. QED
    BY <1>2, <2>1, <2>2 DEF Lock!StartLeaving, Lock!Move, Place
<1>6. ASSUME NEW t \in Thread, GiveBack(t)
      PROVE  UNCHANGED Lock!vars
  <2>1. Goto(t, "decide") /\ UNCHANGED mode /\ PhaseOf(t)' = PhaseOf(t)
    BY <1>0, <1>6 DEF GiveBack, Goto, PhaseOf, TypeOK
  <2>2. QED
    BY <1>0, <2>1, PhaseMoves DEF Lock!vars, Place
<1>7. ASSUME NEW t \in Thread, Retry(t)
      PROVE  Lock!Retry(t)
  <2>1. Goto(t, "tryProcess") /\ UNCHANGED mode /\ PhaseOf(t) = "blocked" /\ PhaseOf(t)' = "asking"
    BY <1>0, <1>7 DEF Retry, Goto, PhaseOf, TypeOK
  <2>2. QED
    BY <1>2, <2>1 DEF Lock!Retry, Place
<1>8. ASSUME NEW T \in SUBSET Thread, T # {}, \A t \in T : pc[t] # "idle",
             \A t \in T : pc'[t] = "idle" /\ mode'[t] = NoMode,
             \A t \in Thread \ T : pc'[t] = pc[t] /\ mode'[t] = mode[t]
      PROVE  Lock!Leave(T)
  <2>1. \A t \in T : PhaseOf(t) # "out" /\ PhaseOf(t)' = "out" /\ ModeOf(t)' = NoMode
    BY <1>0, <1>8, ProcessAssumption DEF PhaseOf, TypeOK, Place
  <2>2. \A t \in Thread \ T : PhaseOf(t)' = PhaseOf(t) /\ ModeOf(t)' = ModeOf(t)
    BY <1>8 DEF PhaseOf
  <2>3. QED
    BY <1>8, <2>1, <2>2 DEF Lock!Leave
<1>9. ASSUME NEW t \in Thread, Refuse(t) \/ DropGuard(t)
      PROVE  Lock!Leave({t})
  BY <1>0, <1>8, <1>9 DEF Refuse, DropGuard, End, Goto, TypeOK
<1>10. ASSUME NEW t \in Thread, Expire(t)
       PROVE  UNCHANGED Lock!vars
  BY <1>10 DEF Expire, Lock!vars, PhaseOf
<1>11. ASSUME NEW p \in Process, CrashProcess(p)
       PROVE  \E T \in SUBSET Thread : Lock!Leave(T)
  <2>1. PICK T \in SUBSET Thread : \A t \in Thread : t \in T <=> ProcessOf[t] = p /\ pc[t] # "idle"
    <3>1. {t \in Thread : ProcessOf[t] = p /\ pc[t] # "idle"} \in SUBSET Thread
      OBVIOUS
    <3>2. QED
      BY <3>1
  <2>2. T # {} /\ \A t \in T : pc[t] # "idle" /\ pc'[t] = "idle" /\ mode'[t] = NoMode
    BY <1>11, <2>1 DEF CrashProcess
  <2>3. \A t \in Thread \ T : pc'[t] = pc[t] /\ mode'[t] = mode[t]
    BY <1>11, <2>1 DEF CrashProcess, IInv, ModesOfSessions
  <2>4. Lock!Leave(T)
    BY <1>8, <2>2, <2>3
  <2>5. QED
    BY <2>4
<1>12. CASE UNCHANGED vars
  BY <1>12 DEF vars, Lock!vars, PhaseOf
<1>13. CASE Next
  <2>1. CASE \E t \in Thread :
                \/ \E m \in LockMode : Begin(t, m)
                \/ TryProcess(t) \/ TryFile(t) \/ FileLockError(t) \/ UnlockFile(t) \/ GiveBack(t)
                \/ Retry(t) \/ Expire(t)
    BY <1>1, <1>3, <1>4, <1>5, <1>6, <1>7, <1>10, <2>1 DEF Lock!Next
  <2>2. CASE \E t \in Thread : Refuse(t) \/ DropGuard(t)
    BY <1>9, <2>2 DEF Lock!Next
  <2>3. CASE \E p \in Process : CrashProcess(p)
    BY <1>11, <2>3 DEF Lock!Next
  <2>4. QED
    BY <1>13, <2>1, <2>2, <2>3 DEF Next, Attempt
<1>14. QED
  BY <1>12, <1>13

\* The two locks together are one shared-exclusive lock: compatible sessions
\* share it, and an attempt is held up only by a conflicting session.
THEOREM KeepsLockPromise == Spec => ImplementsLock
<1>1. Init => Lock!Init
  BY ProcessAssumption DEF Init, Lock!Init, PhaseOf, Phases, Modes
<1>2. IInv /\ IInv' /\ [Next]_vars => [Lock!Next]_(Lock!vars)
  BY LockStep
<1>3. QED
  BY <1>1, <1>2, LockInvariant, PTL DEF Spec, ImplementsLock, Lock!Spec
=============================================================================
