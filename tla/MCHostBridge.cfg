SPECIFICATION FairSpec
CONSTANTS
    c1 = c1
    c2 = c2
    h1 = h1
    h2 = h2
    Calls <- MCCalls
    Hosts <- MCHosts
    MaxRetries <- MCMaxRetries
    NoOne = NoOne
INVARIANTS
    TypeOK
    AnswersAreGenuine
    ReportLeavesNoneWaiting
PROPERTIES
    RunIsReported
    ImplementsModelCalls
CHECK_DEADLOCK FALSE
