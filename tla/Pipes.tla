-------------------------------- MODULE Pipes --------------------------------
(* The two pipes of a command whose output is captured.                     *)
EXTENDS Naturals

CONSTANT MaxWritten     \* how much may be written to a pipe

ASSUME WrittenAssumption == MaxWritten \in Nat

Stream == {"stdout", "stderr"}
=============================================================================
