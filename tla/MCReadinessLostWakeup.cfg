SPECIFICATION FairSpec
CONSTANTS
    s1 = s1
    s2 = s2
    w1 = w1
    w2 = w2
    NoTask = NoTask
    Subscribers <- MCSubscribers
    Waiters <- MCWaiters
PROPERTIES
    ReadyReleasesWaiters
