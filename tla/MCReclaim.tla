----------------------------- MODULE MCReclaim -----------------------------
(* Instances of Reclaim for TLC. *)
EXTENDS Reclaim, TLC

Slots == Permutations(Objects)
============================================================================
