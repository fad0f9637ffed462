SPECIFICATION RunsSpec
CONSTANTS
    c1 = c1
    c2 = c2
    i1 = i1
    i2 = i2
    i3 = i3
    NoCall = NoCall
    Calls <- TwoCalls
    Custom <- None
    Search <- Second
    Shell <- First
    Parallel <- Second
    Mutating <- First
    MaxTurns = 2
    MaxRequests = 2
    MaxRetries = 1
    Items <- ThreeItems
    Concurrency = 2
    SpawnOutcomes = {"ok", "full", "error"}
INVARIANTS
    PromptIsPaired
    OutputsInCallOrder
    ExclusiveRunsAlone
    NoToolLeftBehind
    JobLeavesNothing
PROPERTIES
    PromptsOnlyGrow
    CallsAreAnswered
    FinalItemsStay
    ItemsSettle
