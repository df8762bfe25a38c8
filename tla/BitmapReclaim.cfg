SPECIFICATION Spec
CONSTANTS
    o1 = o1
    o2 = o2
    o3 = o3
    Objects = {o1, o2, o3}
    Blocks <- TwoBlocks
    Typed <- OneTyped
INVARIANTS TypeOK HeldIntact
PROPERTIES SweptIsZero AbortsInstead ImplementsObjectLife
\* std::terminate ends the program
CHECK_DEADLOCK FALSE
