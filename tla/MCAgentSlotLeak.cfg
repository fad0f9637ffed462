SPECIFICATION Spec
CONSTANTS
    c1 = c1
    c2 = c2
    a1 = a1
    a2 = a2
    p1 = p1
    n1 = n1
    n2 = n2
    RootThread = RootThread
    RootPath = RootPath
    Vacant = Vacant
    Reserved = Reserved
    NoPath = NoPath
    NoName = NoName
    NoThread = NoThread
    Calls <- TwoCalls
    SubAgents <- TwoAgents
    Paths <- OnePath
    Names <- TwoNames
    MaxThreads = 2
    MaxResets = 0
SYMMETRY CallSymmetry
INVARIANTS
    SlotsAreReturned
