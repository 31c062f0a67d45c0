---------------------------- MODULE MCOperations ----------------------------
EXTENDS Operations, TLC

ClientSymmetry == Permutations(Clients)
=============================================================================
