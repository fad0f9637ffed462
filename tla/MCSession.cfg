SPECIFICATION SessionSpec
CONSTANTS
    t1 = t1
    t2 = t2
    u1 = u1
    u2 = u2
    u3 = u3
    a1 = a1
    w1 = w1
    NoTurn = NoTurn
    Marker = Marker
    NoCall = NoCall
    NoId = NoId
    Turns <- TwoTurns
    UserInputs <- TwoUserInputs
    AgentInputs <- OneAgentInput
    OtherKinds = {"compact"}
    MaxFollowUps = 0
    MaxInterrupts = 1
    Calls <- TwoTurns
    Writers <- OneWriter
    ProcessIds = {1, 2}
    MaxProcesses = 1
    RecentlyUsed = 0
    MaxCleanups = 1
SYMMETRY TurnAndInputSymmetry
INVARIANTS
    OneUncancelledTask
    QueuedInputHasTurnComing
    RecordedOnce
    ApprovalOutlivesTask
    EndReportedOnce
    OneProcessPerId
    NothingLeftBehind
    EndIsComing
PROPERTIES
    TurnsTakeTheSlotInTurn
