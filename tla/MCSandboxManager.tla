--------------------------- MODULE MCSandboxManager ---------------------------
(* Small instances of SandboxManager for TLC. *)
EXTENDS SandboxManager, TLC

\* Requests, instances and directories are interchangeable.
Symmetry == Permutations(Reqs) \cup Permutations(Insts) \cup Permutations(Dirs)
=============================================================================
