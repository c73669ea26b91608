---------------------------- MODULE MCProcManager ----------------------------
(* ProcManager with few threads, descriptors and process ids.  Descriptors    *)
(* are alike and so are process ids; threads differ by what they may call.    *)
EXTENDS ProcManager, TLC

Symmetry == Permutations(FDs) \cup Permutations(PIDs)

=============================================================================
