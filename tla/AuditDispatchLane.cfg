SPECIFICATION FairSpec
CONSTANTS
    Callers = {c1, c2, c3}
    Capacity = 2
    MaxEvents = 4
INVARIANTS SlotsConserved CreditIsAPlace EventsAccounted
PROPERTIES ShutdownEndsWriter
CHECK_DEADLOCK FALSE
