SPECIFICATION Spec
CONSTANTS
    Objects = {o1, o2}
INVARIANT RootedSurvive
CHECK_DEADLOCK FALSE
