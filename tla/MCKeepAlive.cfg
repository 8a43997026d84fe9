CONSTANTS
    KeepAlives <- MCKeepAlives
    MaxRtt = 3
SPECIFICATION Spec
INVARIANTS
    TypeOK
    SilenceIsNoticed
    NoFalseAlarm
CHECK_DEADLOCK FALSE
