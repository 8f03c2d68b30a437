------------------------- MODULE MCMutationRecovery -------------------------
(***************************************************************************)
(* Small instances of MutationRecovery: a workspace root, a package nested *)
(* in it, and an unrelated root.  The boolean literal of a file is flipped *)
(* by its one mutant, so a mutant of a mutant is the original again, and a *)
(* third content has no candidate.                                         *)
(***************************************************************************)
EXTENDS MutationRecovery, TLC

CONSTANTS p, q, workspace, package, elsewhere, a, b, yes, no, other

NestedRoots == workspace :> {a, b} @@ package :> {a}
ThreeRoots == workspace :> {a} @@ package :> {a} @@ elsewhere :> {b}
FlipLiteral == yes :> {no} @@ no :> {yes} @@ other :> {}
FlipTwo == yes :> {no} @@ no :> {yes}

(* The processes are interchangeable. *)
ProcSymmetry == Permutations(Proc)
=============================================================================
