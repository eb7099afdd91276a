\* Garbage collection of a job, and a crash.
CONSTANTS
    Workers = {w1, w2}
    Fingerprints = {"f"}
    JobRequests <- MCRequests
    NumSplits = 1
    Repetitions = 2
    MaxJobs = 1
    MaxClients = 2
    MaxCrashes = 1
    MaxWriteFailures = 0
SPECIFICATION Spec
INVARIANT ExactState
CHECK_DEADLOCK FALSE
