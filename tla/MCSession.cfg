CONSTANTS
    Messages <- MCMessages
    Qos <- MCQos
    Topics <- MCTopics
    Inbound <- MCInbound
    InQos <- MCInQos
    CleanSessions <- MCClean
    MaxId = 2
    None = "none"
SPECIFICATION FairSpec
INVARIANTS
    TypeOK
    OnePacketPerExchange
    AcksNameTheirRequest
PROPERTIES
    ImplementsDelivery
    ExchangesComplete
