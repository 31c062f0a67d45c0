--------------------------- MODULE MCAgentRegistry --------------------------
EXTENDS AgentRegistry, TLC

HostSymmetry == Permutations(Hosts)
=============================================================================
