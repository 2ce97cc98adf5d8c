CONSTANTS
    q1 = q1
    q2 = q2
    w1 = w1
    w2 = w2
    j1 = j1
    j2 = j2
    j3 = j3
    c1 = c1
    c2 = c2
    c3 = c3
    r1 = r1
    r2 = r2
    Job = {q1, q2}
    Dispatches <- JobAndChain
    App = App
    Worker = {w1, w2}
    MaxAttempts = 2
    RetryAfter = 90
    MaxFailures = 4
    QueueFaults = {"crash", "redis", "signal"}
    Nothing = Nothing
    BatchJob = {j1, j2, j3}
    BatchWorker = {w1, w2}
    NoBatch = NoBatch
    BatchAttempts = 1
    Setups <- EverySetup
    BatchFaults = {"crash", "cache", "queue", "cancel"}
    Client = {c1, c2, c3}
    None = None
    Error = Error
    AtomicAdd = TRUE
    Expires = TRUE
    Repository = {r1, r2}
    Home <- HomeOfTwo
    Faults = {"crash", "refuse", "overrun"}
SPECIFICATION KeptSpec
INVARIANTS
    PlacesInv DeliveryInv BatchInv LocksInv
    NoStampede
PROPERTIES
    HandledJobsDoNotRunAgain ImplementsLossyQueue CancelledIsFinal SuccessFinishes ImplementsMutex
    EveryCallReturns
CHECK_DEADLOCK FALSE
