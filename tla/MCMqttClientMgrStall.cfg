\* The run expected to fail: an attempt may end in an ordinary error.
CONSTANTS
    AppFrames <- MCAppFrames
    Bursts <- MCNoBursts
    MaxUnsent = 2
    MaxInbox = 1
    TopicOrder <- MCTopicOrder
    Qos <- MCOneQos
    AttemptErrors <- MCTemporaryErrors
SPECIFICATION MgrFairSpec
PROPERTY RetriesContinue
