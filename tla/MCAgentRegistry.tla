--------------------------- MODULE MCAgentRegistry ---------------------------
EXTENDS AgentRegistry, TLC

CONSTANTS c1, c2, a1, a2, p1, n1, n2

TwoCalls == {c1, c2}
TwoAgents == {a1, a2}
OnePath == {p1}
TwoNames == {n1, n2}

CallSymmetry == Permutations(TwoCalls) \cup Permutations(TwoAgents) \cup Permutations(TwoNames)
=============================================================================
