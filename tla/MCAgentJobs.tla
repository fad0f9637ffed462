----------------------------- MODULE MCAgentJobs -----------------------------
EXTENDS AgentJobs

CONSTANTS i1, i2, i3

TwoItems == {i1, i2}
ThreeItems == {i1, i2, i3}
=============================================================================
