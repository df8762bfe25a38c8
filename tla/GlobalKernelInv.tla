--------------------------- MODULE GlobalKernelInv ---------------------------
(***************************************************************************)
(* The inductive invariant behind the safety properties of GlobalKernel.   *)
(***************************************************************************)
EXTENDS GlobalKernel

Wc2Pcs == {"wc2_lock", "wc2_second", "wc2_check"}
WfPcs  == {"wf_unlock", "wf_wait", "wf_take", "wf_add"}

(* Where a thread holds m_mutex, and where it holds m_thread_mutex. *)
MutexPcs ==
    {"wc2_second", "wc2_check", "registering", "unregistering", "wf_unlock", "wc_check"}
        \cup (CollectPCs \ {"fc_lock", "fc_count", "fc_relock"})
ThreadMutexPcs ==
    {"wc2_check", "registering", "unregistering", "wf_unlock", "wf_wait", "wf_take", "wf_add",
     "fc_settle", "fc_yield", "fc_reset", "fc_unavailable", "fc_suspend", "fc_count",
     "fc_relock", "fc_stopped", "fc_start_lock", "fc_finish", "fc_start_unlock",
     "fc_collect_off", "fc_unlock"}

(* Between FcReset and ResumeThreads, and the part of it in which every     *)
(* other thread is known to stand still.                                    *)
StoppedPcs == {"fc_relock", "fc_stopped", "fc_open", "fc_setup", "fc_clear", "fc_clearing",
               "fc_marking", "fc_sweeping", "fc_thread_lock", "fc_start_lock", "fc_finish"}
WindowPcs  == {"fc_unavailable", "fc_suspend", "fc_count"} \cup StoppedPcs

Active(t)  == hpc[t] # "none" \/ t \in pending
Paused     == {t \in Threads : hpc[t] \in {"paused", "gate", "locked", "waiting", "woken"}}

LocksHeld ==
    \A t \in Threads :
        /\ owner["mutex"] = t <=> pc[t] \in MutexPcs
        /\ owner["thread_mutex"] = t <=> pc[t] \in ThreadMutexPcs
        /\ owner["start_world"] = t <=>
               pc[t] \in {"fc_settle", "fc_finish", "fc_start_unlock"}
                   \/ hpc[t] \in {"locked", "leaving"}

OneCollector ==
    /\ \A t \in Threads : Claimed(t) => m_collect
    /\ \A t, u \in Threads : Claimed(t) /\ Claimed(u) => t = u

Registration ==
    /\ \A t \in Threads : tlks[t] = "live" <=> t \in m_threads
    /\ \A t \in Threads : Claimed(t) \/ pc[t] = "fc_unlock" => t \in m_threads
    /\ \A t \in Threads : pc[t] \in Wc2Pcs /\ cont[t] = "register" => t \notin m_threads
    /\ \A t \in Threads : pc[t] = "registering" => t \notin m_threads

Window ==
    /\ ~m_collect_finished <=> \E t \in Threads : pc[t] \in WindowPcs
    /\ ~m_collect_finished => m_num_resumed_threads = 0

(* Who may be in the handler, and when nobody is. *)
Handlers ==
    /\ \A t, u \in Threads : pc[t] \in WindowPcs /\ Active(u) => u \in m_threads \ {t}
    /\ \A t, u \in Threads :
           pc[t] \in {"fc_reset", "fc_unavailable", "fc_suspend"} => ~Active(u)
    /\ \A t, u \in Threads : pc[t] \in StoppedPcs /\ u \in m_threads \ {t} =>
           hpc[u] \in {"paused", "gate", "locked", "waiting"}
    /\ m_collect_finished => pending = {} /\ \A u \in Threads : hpc[u] # "entered"
    /\ ~m_collect_finished => \A u \in Threads : hpc[u] \notin {"woken", "leaving"}
    /\ m_collect_finished /\ m_num_collections = 0 => \A u \in Threads : ~Active(u)
    /\ \A u \in pending : hpc[u] = "none"
    /\ \A t \in Threads : Claimed(t) => ~Active(t)

(* The counters count: before the first collection they hold anything. *)
Counted ==
    /\ m_num_collections > 0 \/ ~m_collect_finished =>
           m_num_paused_threads = m_num_resumed_threads + Cardinality(Paused)
    /\ \A t \in Threads : pc[t] \in {"fc_thread_lock", "fc_start_lock", "fc_finish"} =>
           m_num_collections > 0

GcPhase ==
    /\ gc \in {"reset", "clear", "cleared", "mark", "marked", "sweep", "swept"} =>
           \E t \in Threads : pc[t] \in {"fc_clear", "fc_clearing", "fc_marking", "fc_sweeping"}
    /\ \A t \in Threads :
           \/ pc[t] \in {"wf_take", "wf_add"} /\ cont[t] = "collect"
           \/ pc[t] \in {"fc_lock", "fc_rest", "fc_settle", "fc_yield", "fc_reset",
                         "fc_unavailable", "fc_suspend", "fc_count", "fc_relock",
                         "fc_stopped", "fc_open", "fc_setup"}
           => gc = "idle"

Stacks ==
    /\ \A u \in Threads : hpc[u] # "none" => u \in stack_ptr
    /\ \A t \in Threads : pc[t] \in StoppedPcs \ {"fc_relock", "fc_stopped"} => t \in stack_ptr

(* The inductive invariant: which locks a program point holds, that one     *)
(* thread at a time may collect, who can be in the handler at each point of *)
(* a collection, and what the counters it waits on count.  The suspension,  *)
(* marking and registration code relies on every part of it.                *)
IInv ==
    /\ TypeOK
    /\ LocksHeld
    /\ OneCollector
    /\ Registration
    /\ Window
    /\ Handlers
    /\ Counted
    /\ GcPhase
    /\ Stacks
-----------------------------------------------------------------------------
(* Where a thread holds the locks of the allocators, and where it keeps the *)
(* threads it has stopped from their condition wait.                        *)
HeapPcs ==
    {"al_heap", "fc_settle", "fc_yield", "fc_reset", "fc_unavailable", "fc_suspend", "fc_count",
     "fc_relock", "fc_stopped"}
InternalPcs    == {"al_internal"} \cup (HeapPcs \ {"al_heap", "fc_yield"})
UnavailablePcs == {"fc_suspend", "fc_count", "fc_relock", "fc_stopped", "fc_open"}

AllocatorLocks ==
    \A t \in Threads :
        /\ owner["heap"] = t <=> pc[t] \in HeapPcs
        /\ owner["internal"] = t <=> pc[t] \in InternalPcs
        /\ owner["unavailable"] = t <=> pc[t] \in UnavailablePcs

(* The points of a call that take a lock away from a collection, but for    *)
(* the two that have m_mutex and nothing else.                              *)
MutexOnlyPcs == {"wc2_second", "wc_check"}
UnsafePcs    == (MutexPcs \ MutexOnlyPcs) \cup ThreadMutexPcs \cup HeapPcs \cup InternalPcs

(* A signal finds its thread at another point of its call than those, and   *)
(* leaves it there.                                                         *)
StoppedAtSafePoint == \A t \in Threads : hpc[t] # "none" => pc[t] \notin UnsafePcs

(* Nobody gets past m_allocators_unavailable_mutex while it is taken. *)
GateClosed ==
    \A c, t \in Threads : pc[c] \in {"fc_unavailable"} \cup UnavailablePcs =>
        hpc[t] \notin {"gate", "locked", "waiting"}

(* The invariant behind the properties of stopped threads. *)
LockInv == AllocatorLocks /\ StoppedAtSafePoint /\ GateClosed
-----------------------------------------------------------------------------
(* Who can take a step, without ENABLED: the locks a program point takes,   *)
(* and what else it waits for.                                              *)
Needs(p) ==
    CASE p \in {"wc2_lock", "wc_lock", "wf_take", "wf_add", "fc_lock", "fc_relock"} -> {"mutex"}
      [] p = "fc_yield" -> {"internal", "start_world"}
      [] p = "fc_unavailable" -> {"unavailable"}
      [] p = "fc_thread_lock" -> {"thread_mutex"}
      [] p = "fc_start_lock" -> {"start_world"}
      [] OTHER -> {}

MayStep(t) ==
    /\ pc[t] \notin {"idle", "wc_wait"} /\ hpc[t] = "none"
    /\ \A l \in Needs(pc[t]) : IsFree(l)
    /\ pc[t] = "wf_wait" => FinalizationFinished
    /\ pc[t] = "fc_spin" => ~m_collect
    /\ pc[t] = "fc_count" => AllPaused
    /\ pc[t] = "fc_clear" => gc = "reset"
    /\ pc[t] = "fc_clearing" => gc = "cleared"
    /\ pc[t] = "fc_marking" => gc = "marked"
    /\ pc[t] = "fc_sweeping" => gc = "swept"

MayHandle(t) ==
    \/ t \in pending /\ hpc[t] = "none"
    \/ hpc[t] \in {"entered", "locked", "leaving"}
    \/ hpc[t] = "paused" /\ AllocatorsAvailable
    \/ hpc[t] \in {"gate", "woken"} /\ IsFree("start_world")

GcMayStep ==
    \/ gc \in {"clear", "sweep"}
    \/ gc = "mark" /\ IsFree("thread_mutex")
    \/ gc \in {"add_freed", "add_special"} /\ IsFree("mutex")
    \/ gc = "destroy" /\ IsFree("heap")

Busy(t) == pc[t] # "idle" \/ Active(t)

(* The gc thread is idle, and who is in the kernel spins on m_collect. *)
OnlySpinners == gc = "idle" /\ \A t \in Threads : Busy(t) => pc[t] = "fc_spin"

(* As long as anything is under way, somebody can take a step of it: the    *)
(* order of locks in force_collect is there "to prevent deadlocks".  It     *)
(* fails in two cases only, in which everyone waits for someone else: a     *)
(* stopped thread has m_mutex; or m_collect is abandoned, and then all else *)
(* has come to its end.                                                     *)
NeverStuck ==
    \/ gc = "idle" /\ \A t \in Threads : ~Busy(t)
    \/ GcMayStep \/ \E t \in Threads : MayStep(t) \/ MayHandle(t)
    \/ HeldBehindHandler
    \/ Abandoned /\ OnlySpinners

(* What that needs beyond the two invariants above. *)

(* Whoever the collector counts on has been signalled. *)
Signalled ==
    \A t \in Threads : pc[t] = "fc_count" => \A u \in m_threads \ {t} : Active(u)

(* The collector and the gc thread are in the same phase. *)
InPhase ==
    \A t \in Threads :
        /\ pc[t] = "fc_clear" => gc = "reset"
        /\ pc[t] = "fc_clearing" => gc \in {"clear", "cleared"}
        /\ pc[t] = "fc_marking" => gc \in {"mark", "marked"}
        /\ pc[t] = "fc_sweeping" => gc \in {"sweep", "swept"}

(* Nobody waits for a finalization, with m_thread_mutex, while the world is *)
(* stopped.                                                                 *)
NoneFinalizes ==
    \A t, u \in Threads : pc[t] \in WindowPcs => pc[u] \notin {"wf_wait", "wf_take", "wf_add"}

(* No resume is lost: nobody waits for the end of a collection that is over. *)
NoneForgotten ==
    m_collect_finished => \A u \in Threads : hpc[u] # "waiting" /\ pc[u] # "wc_wait"

ProgressInv == Signalled /\ InPhase /\ NoneFinalizes /\ NoneForgotten
=============================================================================
