----------------------------- MODULE MCRouteSync ----------------------------
EXTENDS RouteSync, TLC

AgentSymmetry == Permutations(Agents)
=============================================================================
