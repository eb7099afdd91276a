\* Two workers, one job of one client, two repetitions of one split; one crash
\* and one failed write to the journal, which keeps its record or not.  A
\* second GetOrCreateJob finds the job when the first failed to acquire it.
CONSTANTS
    Workers = {w1, w2}
    Fingerprints = {"f"}
    JobRequests <- MCRequests
    NumSplits = 1
    Repetitions = 2
    MaxJobs = 1
    MaxClients = 1
    MaxCrashes = 1
    MaxWriteFailures = 1
SPECIFICATION Spec
SYMMETRY Symmetry
INVARIANTS
    Recoverable
    SplitsOnce
    TasksCover
    NoTaskDropped
CHECK_DEADLOCK FALSE
