CONSTANTS
    t1 = t1
    t2 = t2
    Client = {c1, c2, c3}
    None = None
    Error = Error
    AtomicAdd = FALSE
    Expires = TRUE
    Faults = {"crash", "refuse", "overrun", "stall", "flush"}
    Repository = {r1}
    Home <- OneRepository
    TaggedKey = {k1, k2}
    Tag = {t1, t2}
    TagChoice <- BothTags
    TagUser = {u1, u2}
    FileUser = {f1, f2, f3}
    NoFile = NoFile
    Garbled = Garbled
    Transactor = {x1, x2, x3}
    PlainWriter = {y1}
    NoOwner = NoOwner
    Request = {q1, q2, q3}
    Nester = {q1}
    PoolClient = {p1, p2}
    NoClient = NoClient
    FileCount = 3
    Repeatable = {1, 3}
    Runner = {m1, m2}
    Writer = {s1, s2, s3}
    Reader = {g1, g2}
    MaxDestroys = 1
    NoRow = NoRow
    Visit = {v1, v2, v3}
    Limit = 2
    NoWindow = NoWindow
    Entry = {i1, i2}
    Clearing = Clearing
    maxEntries = 1
    Empty = Empty
    Torn = Torn
SPECIFICATION StoresSpec
INVARIANTS NoStampede StoredInv TransactionsInv MigratorInv ThrottleInv
PROPERTIES AlwaysFreed TransactionsEnd SessionsAreKept WatcherCatchesUp
CHECK_DEADLOCK FALSE
