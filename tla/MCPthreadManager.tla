------------------------- MODULE MCPthreadManager -------------------------
(* PthreadManager on small sets of threads.  Threads are interchangeable:  *)
(* no definition tells one from another, so a run of safety properties     *)
(* alone (PthreadHeapExhausted) takes one state of every orbit of their    *)
(* permutations.  The run with a liveness property takes them all.         *)
EXTENDS PthreadManager, TLC

Symmetry == Permutations(Threads)

===========================================================================
