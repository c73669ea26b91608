------------------------ MODULE MCInstanceLifecycle ------------------------
(* InstanceLifecycle with few instances and embedder threads, each of which *)
(* is like any other.                                                      *)
EXTENDS InstanceLifecycle

Symmetry == Permutations(Instances) \cup Permutations(Clients)

=============================================================================
