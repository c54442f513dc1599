------------------------ MODULE MCDurablePublishing ------------------------
(***************************************************************************)
(* DurablePublishing for TLC.  The constants are given by the .cfg files;  *)
(* worker identities, and handoffs, are interchangeable.                   *)
(***************************************************************************)
EXTENDS DurablePublishing, TLC

\* The target answers every request it accepts.
CleanOutcomes == {"created", "rejected", "refused", "unauthorized"}

Symmetry == Permutations(Workers) \cup Permutations(Handoffs)

=============================================================================
