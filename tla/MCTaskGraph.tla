---------------------------- MODULE MCTaskGraph ----------------------------
(* A task graph, validated and under its executors.                        *)
EXTENDS TaskGraph, TLC

Symmetry == Permutations(Node) \cup Permutations(Executor)

=============================================================================
