SPECIFICATION FairSpec
CONSTANTS
    t1 = t1  t2 = t2  a = a  b = b  None = None
    Threads <- MCThreads
    Keys <- MCKeys
    Stripes <- MCStripes
    Stripe <- OwnStripes
    BinSize = 2
    MaxSize = 3
    Lengths = {1, 2}
    Encrypted = TRUE
    MaxOps = 3
    MaxRestarts = 1
INVARIANTS TypeOK CellsPartitioned BudgetKept HitsGenuine DirtyCovers
CHECK_DEADLOCK FALSE
PROPERTIES OperationsFinish ImplementsDiskCache
