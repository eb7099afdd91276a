\* A parent and a child, one callback each; no symmetry, for liveness.
CONSTANTS
    Managers = {m1, m2}
    MaxToken = 1
    MaxRoots = 1
    Null = Null
SPECIFICATION FairSpec
PROPERTY CallsReturn
CHECK_DEADLOCK FALSE
