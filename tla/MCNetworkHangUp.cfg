SPECIFICATION NetworkFairSpec
CONSTANTS
    r1 = r1
    r2 = r2
    h1 = h1
    NoRequest = NoRequest
    NoAttempt = NoAttempt
    Requests <- TwoRequests
    Impatient <- TwoRequests
    Hosts <- OneHost
    Attempts <- NoCalls
PROPERTIES
    WaiterCompletes
