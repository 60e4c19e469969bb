--------------------------- MODULE MCSandboxSlots ---------------------------
(***************************************************************************)
(* SandboxSlots on small sets of runs.  Runs of one priority that use the  *)
(* coordinate lock alike are interchangeable.                              *)
(***************************************************************************)
EXTENDS SandboxSlots, TLC

CONSTANTS n1, n2, l1, l2

Interchangeable == Permutations({n1, n2}) \cup Permutations({l1, l2})
=============================================================================
