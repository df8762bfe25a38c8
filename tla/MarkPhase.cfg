SPECIFICATION FairSpec
CONSTANTS
    s1 = s1
    s2 = s2
    b = b
    a = a
    d = d
    f = f
    Nowhere = Nowhere
    Objects <- MCObjects
    Sparse <- MCSparse
    Atomic <- MCAtomic
    Dead <- MCDead
    Heaps <- MCHeaps
    RootSets <- MCRootSets
    OldMarks <- MCOldMarks
    SparseDepth = 0
    BitmapDepth = 1
CHECK_DEADLOCK FALSE
INVARIANTS TypeOK MarksExactlyReachable NothingForgotten RecursionBounded
PROPERTIES MarkingEnds
