------------------------------ MODULE MCShimTask ------------------------------
(* Small instances of ShimTask for TLC. *)
EXTENDS ShimTask, FiniteSets, TLC

\* RPCs and instances are interchangeable.
Symmetry == Permutations(Reqs) \cup Permutations(Insts)
=============================================================================
