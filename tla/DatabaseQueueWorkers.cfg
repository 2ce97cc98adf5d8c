CONSTANTS
    j1 = j1
    j2 = j2
    j3 = j3
    w1 = w1
    w2 = w2
    o1 = o1
    default = default
    None = None
    Unlimited = Unlimited
    Job = {j1, j2, j3}
    Queue = {default}
    Dispatches <- OneChain
    Worker = {w1, w2}
    Serves <- OnDefault
    Operator = {}
    MaxAttempts = 2
    RetryAfter = 90
    MaxJobs = Unlimited
    TracksFailures = TRUE
    MaxRetries = 0
    Faults = {"signal"}
SPECIFICATION FairCalmSpec
INVARIANTS ReservedRowsAreHeld ChainsRunInOrder
PROPERTY EveryChainSettles
