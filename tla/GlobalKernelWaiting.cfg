CONSTANTS
    Threads = {t1, t2}
    Free = Free
    Calls <- WaitingCalls
    CollectionBound = 1
SPECIFICATION FairSpec
PROPERTY
    CallsReturn
CHECK_DEADLOCK FALSE
