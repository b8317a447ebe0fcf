SPECIFICATION FairSpec
CONSTANTS
    Workers = {w1, w2}
    Jobs <- MCJobs
    Notify <- MCNotify
    MaxAttempts = 2
    MaxTroubles = 1
    MaxOverruns = 1
    None = None
INVARIANTS TypeOK LeaseProtects DoneHasEffect NotifiedOnce
PROPERTIES EventuallySettled
