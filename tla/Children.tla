------------------------------ MODULE Children ------------------------------
(***************************************************************************)
(* What WasiProcessExt promises a guest about its child processes, without *)
(* pipes, descriptors and maps: a child can be waited for once the guest   *)
(* has its process id, it is reported after it has exited, once and to one *)
(* call, and its process id is another child's only after that.            *)
(***************************************************************************)

CONSTANTS
    Threads,  \* of the guest
    PIDs,     \* process ids a child may get
    None

VARIABLES
    state,  \* per process id: "none", "running" or "zombie"
    known,  \* the children whose process ids the guest has been given
    told    \* per thread: the child its call reports, None if there is none

vars == <<state, known, told>>

Init ==
    /\ state = [p \in PIDs |-> "none"]
    /\ known = {}
    /\ told = [t \in Threads |-> None]

Start(p) ==
    /\ state[p] = "none"
    /\ state' = [state EXCEPT ![p] = "running"]
    /\ UNCHANGED <<known, told>>

\* ProcessSpawn gives the guest the process id.
Name(p) ==
    /\ state[p] # "none" /\ p \notin known
    /\ known' = known \cup {p}
    /\ UNCHANGED <<state, told>>

Exit(p) ==
    /\ state[p] = "running"
    /\ state' = [state EXCEPT ![p] = "zombie"]
    /\ UNCHANGED <<known, told>>

\* ProcessWaitPID has found the child.
Report(t, p) ==
    /\ p \in known /\ state[p] = "zombie" /\ told[t] = None
    /\ state' = [state EXCEPT ![p] = "none"]
    /\ known' = known \ {p}
    /\ told' = [told EXCEPT ![t] = p]

\* And returns.
Take(t) ==
    /\ told[t] # None
    /\ told' = [told EXCEPT ![t] = None]
    /\ UNCHANGED <<state, known>>

Next ==
    \/ \E p \in PIDs : Start(p) \/ Name(p) \/ Exit(p) \/ \E t \in Threads : Report(t, p)
    \/ \E t \in Threads : Take(t)

Spec == Init /\ [][Next]_vars

=============================================================================
