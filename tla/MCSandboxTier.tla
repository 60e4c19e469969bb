--------------------------- MODULE MCSandboxTier ----------------------------
(***************************************************************************)
(* SandboxTier on two coordinates, two or three handlers and runs.         *)
(***************************************************************************)
EXTENDS SandboxTier, TLC

CONSTANTS a, b, h, k, loop, r, l, m

Interchangeable ==
  Permutations({a, b}) \cup Permutations({h, k}) \cup Permutations({l, m})
=============================================================================
