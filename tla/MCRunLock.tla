----------------------------- MODULE MCRunLock -----------------------------
(* Two processes with two threads each. *)
EXTENDS RunLock, TLC

CONSTANTS p1, p2, t1, t2, t3, t4

MCProcess == {p1, p2}
MCThread == {t1, t2, t3, t4}
MCProcessOf == t1 :> p1 @@ t2 :> p1 @@ t3 :> p2 @@ t4 :> p2
=============================================================================
