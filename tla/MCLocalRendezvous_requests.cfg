\* One key, so that everything meets in one queue; synchronous requests with
\* and without a manager; no symmetry, for liveness.
CONSTANTS
    Keys = {k1}
    Sends = {s1, s2}
    Recvs = {r1, r2}
    Managers = {c1}
    NoCM = NoCM
    Modes = {"timed"}
SPECIFICATION FairSpec
INVARIANTS
    QueueOK
    DoneOnce
    RefCounted
PROPERTIES
    ImplementsChannel
    RequestsEnd
CHECK_DEADLOCK FALSE
