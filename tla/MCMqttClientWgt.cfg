\* Attempts fail for errors the user has to repair only (see MCMqttClientMgrStall.cfg).
CONSTANTS
    AppFrames <- MCAppFrames
    Bursts <- MCNoBursts
    MaxUnsent = 2
    MaxInbox = 1
    TopicOrder <- MCOneInbox
    Qos <- MCOneQos
    AttemptErrors <- MCPermanentErrors
    Accounts <- MCAccounts
    UnfitAccounts <- MCUnfit
    KeepAlives <- MCKeepAlives
SPECIFICATION WindowFairSpec
INVARIANTS
    WindowTypeOK
    ShownAsItIs
PROPERTIES
    AnotherAttemptFollows
    ConnectedAtLast
    ShownInTheEnd
