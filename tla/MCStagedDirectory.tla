------------------------- MODULE MCStagedDirectory -------------------------
(* Three invocations of build-image on one output directory.                *)
EXTENDS StagedDirectory, TLC

CONSTANTS a, b, c

MCPublishers == {a, b, c}
Symmetry == Permutations(MCPublishers)
============================================================================
