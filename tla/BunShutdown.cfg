CONSTANTS
    Visit = {v1, v2, v3}
    Closer = {k1, k2}
    NoCloser = NoCloser
SPECIFICATION BunSpec
INVARIANT SignalsDrain
CHECK_DEADLOCK FALSE
