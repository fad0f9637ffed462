SPECIFICATION WaitingSpec
CONSTANTS
    s1 = s1
    s2 = s2
    w1 = w1
    w2 = w2
    r1 = r1
    r2 = r2
    r3 = r3
    h1 = h1
    NoTask = NoTask
    NoRequest = NoRequest
    NoAttempt = NoAttempt
    NoCall = NoCall
    NoId = NoId
    c1 = c1
    k1 = k1
    k2 = k2
    NoOne = NoOne
    Subscribers <- MCSubscribers
    Waiters <- MCWaiters
    Connections <- MCConnections
    Requests <- MCRequests
INVARIANTS
    GateOpensOnlyByMark
    PendingIsHeard
    PromptWillClose
    FlagIsHonest
PROPERTIES
    EarlyReceiverReleased
    RequestDecided
    EndReported
    RequestSettles
