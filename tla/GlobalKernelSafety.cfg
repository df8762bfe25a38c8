CONSTANTS
    Free = Free
    Threads = {t1, t2, t3}
    Calls <- RuledCalls
    CollectionBound = 2
SYMMETRY ThreadSymmetry
SPECIFICATION Spec
INVARIANTS
    TypeOK
    WorldStopped
    
    NeverStuck
    GateProtectsAllocators
    BothMutexesExcludeCollection
    DestroyAfterResume
PROPERTIES
    StopsTheWorld
\* A halted kernel does not go on: see NeverStuck.
CHECK_DEADLOCK FALSE
