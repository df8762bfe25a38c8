----------------------------- MODULE MCRootScan -----------------------------
(* Checks RootScan with model values, which the specification only compares.  *)
EXTENDS RootScan, TLC
Symmetry == Permutations(Threads) \cup Permutations(Variables) \cup Permutations(Handles)
            \cup Permutations(Objects)
=============================================================================
