SPECIFICATION Spec
CONSTANTS
    Objects = {o1, o2}
INVARIANT HeldInUse
CHECK_DEADLOCK FALSE
