------------------------ MODULE SharedExclusiveLock ------------------------
(***************************************************************************)
(* What the run lock of analysis-mutate promises its sessions: analyses    *)
(* (shared) may hold it together, an execution (exclusive) holds it alone, *)
(* and an attempt is held up only by a conflicting session that is around  *)
(* at that very moment.  How sessions find out is RunLock's business.      *)
(***************************************************************************)

CONSTANTS
    Thread,       \* those who may want the lock
    NoMode        \* the mode of a thread that wants nothing

VARIABLES
    phase,        \* [Thread -> Phase]
    mode          \* [Thread -> Mode \cup {NoMode}]: what the thread asked for

vars == <<phase, mode>>

Mode == {"shared", "exclusive"}

\* "in" is the only phase in which the lock protects its thread; a thread that
\* is "leaving" has given up the protection and may still be in the way.
Phase == {"out", "asking", "blocked", "in", "leaving"}

TypeOK ==
    /\ phase \in [Thread -> Phase]
    /\ mode \in [Thread -> Mode \cup {NoMode}]

Conflict(m, n) == m = "exclusive" \/ n = "exclusive"

\* A conflicting session other than t is around, whatever it is doing.
Opposed(t) == \E u \in Thread \ {t} : phase[u] # "out" /\ Conflict(mode[t], mode[u])

----------------------------------------------------------------------------

Init ==
    /\ phase = [t \in Thread |-> "out"]
    /\ mode = [t \in Thread |-> NoMode]

Move(t, from, to) ==
    /\ phase[t] \in from
    /\ phase' = [phase EXCEPT ![t] = to]
    /\ UNCHANGED mode

Ask(t) ==
    /\ phase[t] = "out"
    /\ phase' = [phase EXCEPT ![t] = "asking"]
    /\ \E m \in Mode : mode' = [mode EXCEPT ![t] = m]

\* The lock is granted only beside sessions it is compatible with.
Grant(t) ==
    /\ \A u \in Thread \ {t} : phase[u] = "in" => ~Conflict(mode[t], mode[u])
    /\ Move(t, {"asking"}, "in")

Block(t) == Opposed(t) /\ Move(t, {"asking"}, "blocked")

\* An execution retries for a while; a refused attempt has met opposition.
Retry(t) == Move(t, {"blocked"}, "asking")

StartLeaving(t) == Move(t, {"asking", "in"}, "leaving")

\* Threads go out: refused, failed, released, or dead with their process.
Leave(T) ==
    /\ T # {}
    /\ \A t \in T : phase[t] # "out"
    /\ phase' = [t \in Thread |-> IF t \in T THEN "out" ELSE phase[t]]
    /\ mode' = [t \in Thread |-> IF t \in T THEN NoMode ELSE mode[t]]

Next ==
    \/ \E t \in Thread :
          Ask(t) \/ Grant(t) \/ Block(t) \/ Retry(t) \/ StartLeaving(t)
    \/ \E T \in SUBSET Thread : Leave(T)

Spec == Init /\ [][Next]_vars

\* Sessions that are protected at the same time are compatible.
MutualExclusion ==
    \A t, u \in Thread :
        t # u /\ phase[t] = "in" /\ phase[u] = "in" => ~Conflict(mode[t], mode[u])
=============================================================================
