SPECIFICATION FairSpec
CONSTANTS
    t1 = t1
    t2 = t2
    u1 = u1
    u2 = u2
    u3 = u3
    a1 = a1
    NoTurn = NoTurn
    Marker = Marker
    Turns <- OneTurn
    UserInputs <- ThreeUserInputs
    AgentInputs <- OneAgentInput
    OtherKinds = {"undo"}
    MaxFollowUps = 1
    MaxInterrupts = 1
INVARIANTS
    SteeredInputInOrder
PROPERTIES
    TakenTurnIsAborted
    PendingInputConsumed
