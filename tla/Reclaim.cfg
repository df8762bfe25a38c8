SPECIFICATION Spec
CONSTANTS
    Objects = {o1, o2}
SYMMETRY Slots
INVARIANTS TypeOK HeldSurvive
PROPERTIES UncollectableKept ImplementsObjectLife
CHECK_DEADLOCK FALSE
