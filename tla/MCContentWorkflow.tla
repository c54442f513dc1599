------------------------- MODULE MCContentWorkflow -------------------------
(* Symmetry for TLC. *)
EXTENDS ContentWorkflow, TLC

ClientSymmetry == Permutations(Clients)

=============================================================================
