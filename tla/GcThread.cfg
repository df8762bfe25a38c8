SPECIFICATION FairSpec
CHECK_DEADLOCK FALSE
INVARIANTS TypeOK NoWakeupLost
PROPERTIES PhasesInOrder CollectorReturns FinalizationFinishes
