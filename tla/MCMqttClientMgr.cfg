CONSTANTS
    AppFrames <- MCAppFrames
    Bursts <- MCNoBursts
    MaxUnsent = 3
    MaxInbox = 1
    TopicOrder <- MCTwoTopics
    Qos <- MCQos
    AttemptErrors <- MCAttemptErrors
SPECIFICATION MgrSpec
INVARIANTS
    MgrTypeOK
    ReconnectTimerOnlyWhenWanted
    BackoffFollowsTheTable
    SubscriptionsReachBroker
PROPERTY NoUnwantedReconnect
