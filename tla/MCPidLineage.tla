----------------------------- MODULE MCPidLineage -----------------------------
EXTENDS PidLineage, TLC

CONSTANTS p1, p2, p3

MCPids == {p1, p2, p3}
PidSymmetry == Permutations(MCPids)
==============================================================================
