CONSTANTS
    FileUser = {f1, f2}
    NoFile = NoFile
    Garbled = Garbled
SPECIFICATION FileSpec
INVARIANT FlushClears
CHECK_DEADLOCK FALSE
