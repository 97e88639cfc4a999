SPECIFICATION FairSpec
CONSTANTS
    t1 = t1  t2 = t2  a = a  b = b  None = None
    Threads <- MCThreads
    Keys <- MCKeys
    Stripes <- MCStripes
    Stripe <- SharedStripe
    BinSize = 2
    MaxSize = 3
    Lengths = {1, 2}
    Encrypted = TRUE
    MaxOps = 3
    MaxRestarts = 0
CHECK_DEADLOCK FALSE
PROPERTY OperationsFinish
