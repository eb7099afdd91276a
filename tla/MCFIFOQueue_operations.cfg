SPECIFICATION Spec
CONSTANTS
    o1 = o1 o2 = o2 o3 = o3
    m1 = m1 m2 = m2 NoCM = NoCM NoThread = NoThread
    Ops = {o1, o2, o3}
    Managers = {m1, m2}
    Stopped = {m1, m2}
    Reused = {m2}
    Components = 1
    Capacity = 1
    Calls <- MCCalls
INVARIANTS
    DoneOnce NoMissedWakeup ElementsConserved AllOrNothing
PROPERTIES
    ImplementsChannel
CHECK_DEADLOCK FALSE
