\* The run expected to fail: a keep-alive interval of at most ten seconds.
CONSTANTS
    KeepAlives <- MCShortKeepAlives
    MaxRtt = 3
SPECIFICATION Spec
INVARIANT SilenceIsNoticed
CHECK_DEADLOCK FALSE
