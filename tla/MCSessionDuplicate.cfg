CONSTANTS
    Messages <- MCMessages
    Qos <- MCQos
    Topics <- MCTopics
    Inbound <- MCBoth
    InQos <- MCBothQos
    CleanSessions <- MCKept
    MaxId = 2
    None = "none"
SPECIFICATION OneClientSpec
INVARIANT ReceivedOnce
