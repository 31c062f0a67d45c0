---------------------------- MODULE MCDomainAccess ---------------------------
EXTENDS DomainAccess, TLC

Symmetry == Permutations(Requests) \cup Permutations(Ids) \cup Permutations(Addresses)
=============================================================================
