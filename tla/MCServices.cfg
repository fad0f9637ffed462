SPECIFICATION ServicesSpec
CONSTANTS
    c1 = c1
    c2 = c2
    a1 = a1
    a2 = a2
    p1 = p1
    n1 = n1
    n2 = n2
    idle = idle
    RootThread = RootThread
    RootPath = RootPath
    Vacant = Vacant
    Reserved = Reserved
    NoPath = NoPath
    NoName = NoName
    NoThread = NoThread
    Calls <- TwoCalls
    SubAgents <- TwoAgents
    Paths <- OnePath
    Names <- TwoNames
    MaxThreads = 2
    MaxResets = 1
    Requests <- TwoAgents
    Impatient <- TwoAgents
    Hosts <- TwoHosts
    Attempts <- TwoCalls
    NoRequest = NoRequest
    NoAttempt = NoAttempt
SYMMETRY ActorSymmetry
INVARIANTS
    CountCoversSlots
    ReservedPathHasOneHolder
    NicknamesAreDistinct
    OnePromptPerHost
    CachesDisagreeNowhere
    AllowedByAnswer
    DenialReachesCall
PROPERTIES
    PathIsKept
