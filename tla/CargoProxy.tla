----------------------------- MODULE CargoProxy -----------------------------
(***************************************************************************)
(* The Cargo proxy of adapter-rust: a private directory with a program     *)
(* that rustc compiles, handed to the caller and removed when the caller   *)
(* drops it, or at the first error on the way.  The removal may fail, as   *)
(* files may be in use, and is tried CLEANUP_ATTEMPTS times.               *)
(*                                                                         *)
(* rustc runs as a bounded command that nobody cancels.                    *)
(***************************************************************************)
EXTENDS Naturals

CONSTANT CleanupAttempts     \* at least one

VARIABLES
    token,              \* never set: nobody cancels the build
    alive, result,      \* rustc, as BoundedCommand has it
    directory,          \* the private directory exists
    executable,         \* and holds a complete proxy
    pc,                 \* "create", "write", "rustc", "canonicalize", "held", "removing", "done"
    attempt,            \* of remove_proxy_directory
    refused             \* ghost: removals that failed although the directory was there

rustc == <<token, alive, result>>
vars == <<rustc, directory, executable, pc, attempt, refused>>

Rustc == INSTANCE BoundedCommand

TypeOK ==
    /\ Rustc!TypeOK
    /\ directory \in BOOLEAN /\ executable \in BOOLEAN
    /\ pc \in {"create", "write", "rustc", "canonicalize", "held", "removing", "done"}
    /\ attempt \in 0..CleanupAttempts /\ refused \in 0..CleanupAttempts

Go(place) == pc' = place /\ UNCHANGED <<attempt, refused>>

\* create_dir_all may fail with a part of the path created.
Create ==
    /\ pc = "create"
    /\ \/ directory' = TRUE /\ Go("write")
       \/ directory' \in BOOLEAN /\ Go("removing")
    /\ UNCHANGED <<rustc, executable>>

WriteSource ==
    /\ pc = "write"
    /\ Go("rustc") \/ Go("removing")
    /\ UNCHANGED <<rustc, directory, executable>>

\* rustc starts, writes its output, and dies.
RustcRuns ==
    /\ pc = "rustc"
    /\ Rustc!Start \/ Rustc!Die \/ Rustc!Answer
    /\ executable' \in (IF alive /\ result = "running" THEN {executable, TRUE} ELSE {executable})
    /\ result' = "success" => executable'
    /\ UNCHANGED <<directory, pc, attempt, refused>>

\* A rustc that could not be cleaned up may die later.
LateDeath ==
    /\ pc # "rustc"
    /\ Rustc!Die
    /\ UNCHANGED <<directory, executable, pc, attempt, refused>>

\* Wrong: a status is an answer, and only an error is cleaned up after.
FinishRustcLightly ==
    /\ pc = "rustc"
    /\ \/ result \in Rustc!Outcome /\ Go("canonicalize")
       \/ result \in Rustc!Error /\ Go("removing")
    /\ UNCHANGED <<rustc, directory, executable>>

\* Any error, and any status but success, ends the build.
FinishRustc ==
    /\ pc = "rustc"
    /\ \/ result = "success" /\ Go("canonicalize")
       \/ result \in (Rustc!Outcome \cup Rustc!Error) \ {"success"} /\ Go("removing")
    /\ UNCHANGED <<rustc, directory, executable>>

Canonicalize ==
    /\ pc = "canonicalize"
    /\ Go("held") \/ Go("removing")
    /\ UNCHANGED <<rustc, directory, executable>>

Drop ==
    /\ pc = "held"
    /\ Go("removing")
    /\ UNCHANGED <<rustc, directory, executable>>

\* remove_dir_all: done, nothing to do, or refused, possibly with a part of the
\* files gone; cleanup_finished after the last attempt.
Remove ==
    /\ pc = "removing"
    /\ executable' \in {FALSE, executable}
    /\ \/ /\ directory' = FALSE /\ executable' = FALSE
          /\ Go("done")
       \/ /\ directory
          /\ refused' = refused + 1
          /\ attempt' = attempt + 1
          /\ pc' = IF attempt + 1 = CleanupAttempts THEN "done" ELSE "removing"
          /\ UNCHANGED directory
    /\ UNCHANGED rustc

Init ==
    /\ Rustc!Init
    /\ directory = FALSE /\ executable = FALSE
    /\ pc = "create" /\ attempt = 0 /\ refused = 0

Build == Create \/ WriteSource \/ RustcRuns \/ FinishRustc \/ Canonicalize \/ Remove

Next == Build \/ LateDeath \/ Drop

Spec == Init /\ [][Next]_vars

----------------------------------------------------------------------------

\* The directory is there as long as the proxy is in use, with a whole program
\* in it; and when the build has failed, or the proxy was dropped, it is gone,
\* unless every attempt to remove it was refused.
ProxyIsWholeOrGone ==
    /\ pc = "held" => directory /\ executable
    /\ pc = "done" => ~directory \/ refused = CleanupAttempts
=============================================================================
