\* A tree of three managers: a parent with two children, or a chain.
CONSTANTS
    Managers = {m1, m2, m3}
    MaxToken = 1
    MaxRoots = 1
    Null = Null
SPECIFICATION Spec
SYMMETRY Symmetry
INVARIANTS
    NoUseAfterFree
    ChildListOK
    DeregisterContract
    NoCallbackLost
    CancelReachesChildren
PROPERTY CallbackFinal
CHECK_DEADLOCK FALSE
