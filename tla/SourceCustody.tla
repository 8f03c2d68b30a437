---------------------------- MODULE SourceCustody ----------------------------
(***************************************************************************)
(* What the mutation subsystem promises about a project's source files.    *)
(*                                                                         *)
(* A human owns every file.  The tool may put a mutant of the human's      *)
(* content in the place of one file at a time, never while an analysis     *)
(* reads the tree, and what it puts back afterwards is the human's latest  *)
(* content.  A power failure may bring a mutant back, but only a mutant of *)
(* the content the human last saved.  Nothing else ever writes a source.   *)
(***************************************************************************)
CONSTANTS Proc,      \* the processes of the tool
          File,      \* the source files
          Content,   \* what a file may contain
          Missing,   \* a file the human deleted
          Mutants    \* Mutants[c]: the mutants of content c

VARIABLES human,     \* human[f]: what the human last saved in f
          src,       \* src[f]: what a reader of f sees
          readers    \* the processes that are analysing the tree

vars == <<human, src, readers>>

Saved == Content \cup {Missing}

MutantsOf(c) == IF c = Missing THEN {} ELSE Mutants[c]

Untouched(f) == src[f] = human[f]

Init == /\ human \in [File -> Content]
        /\ src = human
        /\ readers = {}

(* The human saves or deletes a file; that replaces a mutant, too. *)
Edit(f, c) == /\ human' = [human EXCEPT ![f] = c]
              /\ src' = [src EXCEPT ![f] = c]
              /\ UNCHANGED readers

Mutate(f, m) == /\ readers = {}
                /\ \A g \in File : Untouched(g)
                /\ m \in MutantsOf(human[f])
                /\ src' = [src EXCEPT ![f] = m]
                /\ UNCHANGED <<human, readers>>

Restore(f) == /\ readers = {}
              /\ src' = [src EXCEPT ![f] = human[f]]
              /\ UNCHANGED <<human, readers>>

BeginRead(p) == /\ \A f \in File : Untouched(f)
                /\ readers' = readers \cup {p}
                /\ UNCHANGED <<human, src>>

EndRead(p) == /\ readers' = readers \ {p}
              /\ UNCHANGED <<human, src>>

PowerFailure == /\ readers' = {}
                /\ \/ src' = human
                   \/ \E f \in File, m \in Content :
                        /\ m \in MutantsOf(human[f])
                        /\ src' = [human EXCEPT ![f] = m]
                /\ UNCHANGED human

Next == \/ \E f \in File :
              \/ \E c \in Saved : Edit(f, c)
              \/ \E m \in Content : Mutate(f, m)
              \/ Restore(f)
        \/ \E p \in Proc : BeginRead(p) \/ EndRead(p)
        \/ PowerFailure

Spec == Init /\ [][Next]_vars
==============================================================================
