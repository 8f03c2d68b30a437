------------------------- MODULE TerminationSignals -------------------------
(***************************************************************************)
(* signals.rs: the process-wide handler of SIGINT and SIGTERM.  The crate  *)
(* ctrlc runs it in a thread of its own, one signal after the other, while *)
(* the main thread enters and leaves cooperative scopes.  The handler      *)
(* loads the flag of the scope first and acts upon it later.               *)
(***************************************************************************)
EXTENDS Naturals

CONSTANT MaxSignals       \* how many signals are sent

VARIABLES
    active,       \* COOPERATIVE_CANCELLATION_ACTIVE
    token,        \* PROCESS_CANCELLATION is cancelled
    handler,      \* "idle", or what the handler has loaded: "active", "inactive"
    sent,         \* the signals so far
    pending,      \* those the handler has still to look at
    exited        \* std::process::exit(130) was called

vars == <<active, token, handler, sent, pending, exited>>

TypeOK ==
    /\ active \in BOOLEAN /\ token \in BOOLEAN /\ exited \in BOOLEAN
    /\ handler \in {"idle", "active", "inactive"}
    /\ sent \in 0..MaxSignals /\ pending \in 0..sent

Init ==
    /\ active = FALSE /\ token = FALSE /\ exited = FALSE
    /\ handler = "idle"
    /\ sent = 0 /\ pending = 0

\* The user presses Ctrl-C, or a supervisor sends SIGTERM.
Signal ==
    /\ ~exited
    /\ sent < MaxSignals
    /\ sent' = sent + 1
    /\ pending' = pending + 1
    /\ UNCHANGED <<active, token, handler, exited>>

\* handle_termination_signal loads the flag ...
LoadActive ==
    /\ ~exited
    /\ handler = "idle" /\ pending > 0
    /\ pending' = pending - 1
    /\ handler' = IF active THEN "active" ELSE "inactive"
    /\ UNCHANGED <<active, token, sent, exited>>

\* ... and signal_disposition the token.
Dispose ==
    /\ ~exited
    /\ handler # "idle"
    /\ handler' = "idle"
    /\ IF handler = "active" /\ ~token
       THEN token' = TRUE /\ UNCHANGED exited
       ELSE exited' = TRUE /\ UNCHANGED token
    /\ UNCHANGED <<active, sent, pending>>

Handler == LoadActive \/ Dispose

\* cooperative_cancellation_scope, and the drop of its guard.
EnterScope == active' = TRUE /\ UNCHANGED <<token, handler, sent, pending, exited>>

LeaveScope == active' = FALSE /\ UNCHANGED <<token, handler, sent, pending, exited>>
=============================================================================
