-------------------------- MODULE MCNetworkApproval --------------------------
EXTENDS NetworkApproval, TLC

CONSTANTS r1, r2, h1

TwoRequests == {r1, r2}
OneHost == {h1}
NoCalls == {}
=============================================================================
