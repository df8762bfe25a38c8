--------------------------- MODULE MCGlobalKernel ---------------------------
(* Small instances of GlobalKernel for TLC. *)
EXTENDS GlobalKernelInv, TLC

ThreadSymmetry == Permutations(Threads)

NoCalls == [s \in TlksStates |-> {}]

(* Everything the API offers, as a program that keeps its one rule calls    *)
(* it: a thread that has unregistered does nothing more than wait.          *)
RuledCalls ==
    [NoCalls EXCEPT
        !["none"] = {"register", "wait_collect", "wait_finalization", "force_collect"},
        !["live"] = {"unregister", "force_collect", "collect", "wait_collect",
                     "wait_finalization", "allocate", "enable", "disable"},
        !["stale"] = {"wait_collect", "wait_finalization"}]

(* Collections of threads that register and stay: no call repeats forever   *)
(* except enable and disable.                                               *)
CollectCalls ==
    [NoCalls EXCEPT
        !["none"] = {"register", "wait_collect"},
        !["live"] = {"force_collect", "wait_collect", "enable", "disable"}]

(* Registered threads also wait for the collection, or add roots. *)
WaitingCalls ==
    [NoCalls EXCEPT !["none"] = {"register"}, !["live"] = {"force_collect", "wait_collect"}]
=============================================================================
