CONSTANTS
    Base = 2
    MaxString = 2
    Messages <- MCMessages
    MaxWritten = 2
SPECIFICATION FairSpec
INVARIANTS
    TypeOK
    FramesAsWritten
    OverlongIsReported
PROPERTY FramesArrive
