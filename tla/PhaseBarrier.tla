---------------------------- MODULE PhaseBarrier ----------------------------
(***************************************************************************)
(* What the gc thread promises force_collect: after a reset it clears,     *)
(* marks and sweeps, each phase begun by the collector and ended by the gc *)
(* thread, then finalizes, and is idle again before the next reset.        *)
(***************************************************************************)
VARIABLE phase

Order == [idle |-> "reset", reset |-> "clear", clear |-> "cleared", cleared |-> "mark",
          mark |-> "marked", marked |-> "sweep", sweep |-> "swept", swept |-> "finalize",
          finalize |-> "idle"]

Init == phase = "idle"
Next == phase' = Order[phase]
Spec == Init /\ [][Next]_phase
=============================================================================
