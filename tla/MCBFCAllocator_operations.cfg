SPECIFICATION Spec
CONSTANTS
    Options <- MCOptions
    kNumBins = 3
    SizeBits = 14
    SpaceUnits = 5
    Addresses = {0, 2, 3}
    Granularity = 256
    Requests = {200, 512, 700}
    MaxCount = 2
INVARIANTS
    HeapConsistent Accounting TimestampSafe
PROPERTIES
    FailsOnlyWhenFull ImplementsAllocator
