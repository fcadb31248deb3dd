\* Two calls with every fault of the model at once, and a fair worker.
SPECIFICATION FairSpec
CONSTANTS
    Calls = {c1, c2}
    NumLessons = 1
    MaxRuns = 2
    MaxJobs = 2
    Faults = {"broker", "job_error", "handler", "timeout", "restart", "expiry", "delete"}
INVARIANT TypeOK
INVARIANT BusyHasOwner
INVARIANT OverviewComplete
INVARIANT CompletedTaskIsStored
PROPERTY ImplementsStatusLock
PROPERTY BusyEnds
