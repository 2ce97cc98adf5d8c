CONSTANTS
    j1 = j1
    j2 = j2
    j3 = j3
    w1 = w1
    w2 = w2
    o1 = o1
    default = default
    None = None
    Unlimited = Unlimited
    Job = {j1, j2, j3}
    Queue = {default}
    Dispatches <- ChainAndJob
    Worker = {w1, w2}
    Serves <- OnDefault
    Operator = {o1}
    MaxAttempts = 2
    RetryAfter = 90
    MaxJobs = 1
    TracksFailures = TRUE
    MaxRetries = 1
    Faults = {"crash", "database", "hook", "signal"}
SPECIFICATION MCSpec
INVARIANTS
    TypeOK NoJobLost GivenUpOnlyAfterMaxAttempts
    AloneRunsAtMostMaxAttempts
PROPERTIES OrphansStay HandledJobsDoNotRunAgain ImplementsQueue
SYMMETRY WorkerSymmetry
