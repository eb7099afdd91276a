\* A parent and a child, no callbacks: the constructor against StartCancel.
CONSTANTS
    Managers = {m1, m2}
    MaxToken = 0
    MaxRoots = 1
    Null = Null
SPECIFICATION Spec
INVARIANT CancelReachesEveryChild
CHECK_DEADLOCK FALSE
