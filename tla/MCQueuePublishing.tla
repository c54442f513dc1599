------------------------- MODULE MCQueuePublishing -------------------------
(***************************************************************************)
(* QueuePublishing for TLC.  Slots are interchangeable.                    *)
(***************************************************************************)
EXTENDS QueuePublishing, TLC

CONSTANTS j1, j2, j3, j4, g1, g2, a1, a2

\* Every job has the slug g1, built from the asset a1.
OneSlug == [j \in Jobs |-> g1]
OneAsset == [j \in Jobs |-> a1]

\* j3 has a slug of its own.
TwoSlugs == [j \in Jobs |-> IF j = j3 THEN g2 ELSE g1]

AssetPerSlug == [j \in Jobs |-> IF j = j3 THEN a2 ELSE a1]

Symmetry == Permutations(Slots)

=============================================================================
