-------------------------- MODULE MCGuidedOperations -------------------------
EXTENDS GuidedOperations, TLC

RequestSymmetry == Permutations(Requests)
=============================================================================
