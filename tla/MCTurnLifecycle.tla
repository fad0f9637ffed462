--------------------------- MODULE MCTurnLifecycle ---------------------------
EXTENDS TurnLifecycle, TLC

CONSTANTS t1, t2, u1, u2, u3, a1

OneTurn == {t1}
TwoTurns == {t1, t2}
TwoUserInputs == {u1, u2}
ThreeUserInputs == {u1, u2, u3}
OneUserInput == {u1}
OneAgentInput == {a1}
NoInputs == {}

TurnSymmetry == Permutations(TwoTurns)
TurnAndInputSymmetry == TurnSymmetry \cup Permutations(TwoUserInputs)
InputSymmetry == Permutations(ThreeUserInputs)
=============================================================================
