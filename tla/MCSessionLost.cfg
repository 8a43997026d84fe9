CONSTANTS
    Messages <- MCMessages
    Qos <- MCQos
    Topics <- MCTopics
    Inbound <- MCBoth
    InQos <- MCBothQos
    CleanSessions <- MCClean
    MaxId = 2
    None = "none"
SPECIFICATION OneClientSpec
PROPERTY DeliveredAtLeastOnce
