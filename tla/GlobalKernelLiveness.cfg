CONSTANTS
    Threads = {t1, t2}
    Free = Free
    Calls <- CollectCalls
    CollectionBound = 2
SPECIFICATION FairSpec
PROPERTIES
    CallsReturnOrHalt StoppedThreadsResume
CHECK_DEADLOCK FALSE
