---------------------------- MODULE MCKernelLife ----------------------------
(* Checks KernelLife with model values for the threads and the kernels, which *)
(* the specification only compares.                                          *)
EXTENDS KernelLife, TLC
Symmetry == Permutations(Threads) \cup Permutations(Kernels)
=============================================================================
