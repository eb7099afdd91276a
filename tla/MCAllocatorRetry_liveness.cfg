SPECIFICATION FairSpec
CONSTANT t1 = t1
CONSTANT t2 = t2
CONSTANT t3 = t3
CONSTANT Threads = {t1, t2, t3}
CONSTANT Units = 2
CONSTANT Need <- MCNeed
CONSTANT MaxRounds = 2
PROPERTY AllocateReturns
