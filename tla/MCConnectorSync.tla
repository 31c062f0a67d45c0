--------------------------- MODULE MCConnectorSync --------------------------
EXTENDS ConnectorSync, TLC

AgentSymmetry == Permutations(Agents)
=============================================================================
