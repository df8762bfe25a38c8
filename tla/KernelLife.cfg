SPECIFICATION Spec
CONSTANTS
    Threads = {t1, t2, t3}
    Kernels = {k1, k2, k3}
    Null = Null
    Orderly = TRUE
SYMMETRY Symmetry
CHECK_DEADLOCK FALSE
INVARIANTS TypeOK KernelUsable GcThreadInItsKernel InternalMemoryHome JoinedOnce DetailsFreedOnce MembersHaveGcThread
