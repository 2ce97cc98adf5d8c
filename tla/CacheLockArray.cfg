CONSTANTS
    Client = {c1, c2, c3}
    None = None
    AtomicAdd = FALSE
    Expires = TRUE
    Faults = {}
SPECIFICATION LockSpec
INVARIANT Exclusive
