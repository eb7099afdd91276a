\* Kernels that race, fail, wait for ever or defer work; deadlock is checked.
SPECIFICATION FairSpec
CONSTANTS
    n1 = n1
    n2 = n2
    n3 = n3
    n4 = n4
    Nodes <- MCNodes
    Graphs <- MCGraphs
    Args <- MCAllArgs
INVARIANTS
    DependenciesFirst
    Accounting
    NoUseAfterDelete
    OutcomeCorrect
PROPERTY
    StepEnds
