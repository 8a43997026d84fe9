CONSTANTS
    Messages <- MCMessages
    Qos <- MCTwoQos2
    Topics <- MCTopics
    Inbound <- MCBoth
    InQos <- MCBothQos
    CleanSessions <- MCKept
    MaxId = 2
    None = "none"
SPECIFICATION Spec
INVARIANT PublishedWasTaken
