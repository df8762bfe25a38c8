SPECIFICATION Spec
CONSTANTS
    Threads = {t1, t2}
    Variables = {v1}
    Handles = {h1, h2}
    Objects = {o1, o2}
    Null = Null
    Unset = Unset
    MaxWords = 1
SYMMETRY Symmetry
INVARIANTS TypeOK StacksCovered
PROPERTIES StackedIsKept
