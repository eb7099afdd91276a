SPECIFICATION Spec
CONSTANTS
    Graphs <- MCGraphs
    Trips <- MCTrips
INVARIANT NoUseAfterFree
INVARIANT Accounting
INVARIANT RunsTheProgram
