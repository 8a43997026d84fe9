CONSTANTS
    AppFrames <- MCAppFrames
    Bursts <- MCBursts
    MaxUnsent = 3
    MaxInbox = 2
SPECIFICATION FairSpec
INVARIANTS
    TypeOK
    SessionHasConnection
    PingTimeoutStrikesItsConnection
    ReconnectTimerOnlyOffline
    WireOrder
PROPERTIES
    ImplementsLink
    CloseCompletes
