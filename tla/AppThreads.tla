----------------------------- MODULE AppThreads -----------------------------
(***************************************************************************)
(* What WasiPthreadExt promises the rest of the library about the guest    *)
(* threads of one instance, without handles, locks and shared pointers: a  *)
(* thread lives once, and once the instance is closed for threads none is  *)
(* alive and none can start, so that the instance may be freed.            *)
(***************************************************************************)

CONSTANT Threads

VARIABLES
    status,  \* per thread: "unborn", "alive" or "gone"
    closed   \* has CleanupAppThreadInfo done its work?

vars == <<status, closed>>

Init ==
    /\ status = [t \in Threads |-> "unborn"]
    /\ closed = FALSE

Start(t) ==
    /\ ~closed
    /\ status[t] = "unborn"
    /\ status' = [status EXCEPT ![t] = "alive"]
    /\ UNCHANGED closed

End(t) ==
    /\ status[t] = "alive"
    /\ status' = [status EXCEPT ![t] = "gone"]
    /\ UNCHANGED closed

Close ==
    /\ \A t \in Threads : status[t] # "alive"
    /\ closed' = TRUE
    /\ UNCHANGED status

Next == Close \/ \E t \in Threads : Start(t) \/ End(t)

Spec == Init /\ [][Next]_vars

=============================================================================
