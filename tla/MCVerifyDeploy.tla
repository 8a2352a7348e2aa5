--------------------------- MODULE MCVerifyDeploy ---------------------------
(* Small instances of VerifyDeploy for TLC. *)
EXTENDS VerifyDeploy, TLC

\* Everything is shown, or the result of one check.
ShownIds ==
  {{"D1-D6", "D7", "R1-R7", "R1", "R2", "R3", "R4", "R7", "S2", "V4", "E1"}, {"R2"}}

\* Chains and runs are interchangeable.
Symmetry == Permutations(Chains) \cup Permutations(Builds)
=============================================================================
