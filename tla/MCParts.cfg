SPECIFICATION PartsSpec
CONSTANTS
    Ids = {1, 2}
    Routes <- MCRoutes
    Names <- MCNames
    ValueSymbols <- MCValueSymbols
    Topics <- MCTopics
    OwnFilters <- MCOwnFilters
    CleanSessions = {TRUE, FALSE}
    MaxUnsent = 2
    Handles = {h1, h2, h3}
    Cells = {c1, c2, c3}
    Args <- MCArgs
    Given <- MCGiven
    None = None
    Values <- MCValues
    Empty <- MCEmpty
    Generated <- MCGenerated
    Forms <- MCForms
    ProxyForms <- MCProxyForms
    UnfitHosts <- MCUnfitHosts
    MoreTopics <- MCMoreTopics
    NoClient = NoClient
    NoProxy = NoProxy
    NotAsked = NotAsked
    Hosts = {a1}
    HostNames = {n1, n2}
    Ports = {1884}
    Intervals = {10, 20}
    NoHost = NoHost
    NoName = NoName
    Kinds <- MCKinds
    SelfSigned <- MCSelfSigned
    OtherErrors <- MCOtherErrors
INVARIANTS
    PartsTypeOK
    RoutesAreSubscribed
    NothingLeftSubscribed
    MatchingMessagesAreRouted
    ConnectSaysSettings
    AcceptedIsInForce
PROPERTIES
    SelfSignedIsAccepted
    ImplementsValues
    DialsWhatWasAsked
    TrustedWhenTold
    RefusedChangesNothing
