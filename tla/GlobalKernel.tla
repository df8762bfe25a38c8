---------------------------- MODULE GlobalKernel ----------------------------
(***************************************************************************)
(* The stop-the-world protocol of the collector: global_kernel_state_t and *)
(* the SIGUSR1 handler every registered thread runs.                       *)
(*                                                                         *)
(* A thread calls into the kernel (pc), may have a signal pending, and may *)
(* be inside the signal handler (hpc).  The gc thread is seen here only    *)
(* through the phase it is in (gc); GcThread.tla opens it up.              *)
(*                                                                         *)
(* Lock names: "mutex" m_mutex, "thread_mutex" m_thread_mutex,             *)
(* "start_world" m_start_world_condition_mutex, "unavailable"              *)
(* m_allocators_unavailable_mutex, "heap" the bitmap and gc allocator      *)
(* mutexes, "internal" the cgc and slab allocator mutexes: each pair is    *)
(* always taken and released together by this code.                        *)
(***************************************************************************)
EXTENDS Naturals, FiniteSets

CONSTANTS
    Threads,          \* the threads of the program (the gc thread is not one)
    Calls,            \* Calls[s]: what a thread whose t_tlks is s may call
    CollectionBound,  \* bound: no call starts a collection after this many
    Free              \* the holder of a lock nobody holds

TlksStates == {"none", "live", "stale"}
CallNames  == {"register", "unregister", "force_collect", "collect", "wait_collect",
               "wait_finalization", "allocate", "enable", "disable"}
Locks      == {"mutex", "thread_mutex", "start_world", "unavailable", "heap", "internal"}

ASSUME ThreadsAssumption == IsFiniteSet(Threads)
ASSUME BoundAssumption == CollectionBound \in Nat
ASSUME CallsAssumption == Calls \in [TlksStates -> SUBSET CallNames]
ASSUME FreeAssumption  == Free \notin Threads

VARIABLES
    pc,                 \* where a thread is in the kernel
    cont,               \* what wait_for_collection2 was called for
    hpc,                \* where a thread is in _collect_current_thread
    pending,            \* threads with an undelivered SIGUSR1
    m_threads,          \* the threads registered with the kernel
    tlks,               \* t_tlks: null, pointing to a live or to a deleted object
    owner,              \* lock -> its holder
    m_collect,
    m_collect_finished,
    m_num_paused_threads,
    m_num_resumed_threads,
    m_num_collections,
    m_enabled_count,
    stack_ptr,          \* threads whose recorded stack pointer is their current one
    gc                  \* the phase of the gc thread

flags   == <<m_collect, m_collect_finished>>
counts  == <<m_num_paused_threads, m_num_resumed_threads, m_num_collections>>
handler == <<hpc, pending, stack_ptr>>
members == <<m_threads, tlks>>
vars    == <<pc, cont, handler, members, owner, flags, counts, m_enabled_count, gc>>

(* Program points of force_collect that follow its wait_for_finalization. *)
CollectPCs == {"fc_lock", "fc_rest", "fc_settle", "fc_yield", "fc_reset", "fc_unavailable",
               "fc_suspend", "fc_count", "fc_relock", "fc_stopped", "fc_open", "fc_setup",
               "fc_clear", "fc_clearing", "fc_marking", "fc_sweeping", "fc_thread_lock",
               "fc_start_lock", "fc_finish", "fc_start_unlock", "fc_collect_off", "fc_unlock"}
PCs  == CollectPCs \cup {"idle", "fc_spin", "wc_lock", "wc_check", "wc_wait", "wc2_lock",
        "wc2_second", "wc2_check", "registering", "unregistering", "wf_unlock", "wf_wait",
        "wf_take", "wf_add", "al_heap", "al_internal"}
HPCs == {"none", "entered", "paused", "gate", "locked", "waiting", "woken", "leaving"}
Conts    == {"register", "unregister", "collect", "return"}
GcPhases == {"idle", "reset", "clear", "cleared", "mark", "marked", "sweep", "swept",
             "add_freed", "add_special", "destroy"}

Init ==
    /\ pc   = [t \in Threads |-> "idle"]
    /\ cont = [t \in Threads |-> "return"]
    /\ hpc  = [t \in Threads |-> "none"]
    /\ pending = {}
    /\ m_threads = {}
    /\ tlks  = [t \in Threads |-> "none"]
    /\ owner = [l \in Locks |-> Free]
    /\ m_collect = FALSE
    /\ m_collect_finished = TRUE
    \* The two counters have no initialiser: they start with whatever is there.
    /\ m_num_paused_threads \in {0, 1}
    /\ m_num_resumed_threads \in {0, 1}
    /\ m_num_collections = 0
    /\ m_enabled_count = 1
    /\ stack_ptr = {}
    /\ gc = "idle"

-----------------------------------------------------------------------------
(* Steps and locks. *)

(* A thread moves in the kernel only while it is not in the handler. *)
Step(t, from, to) ==
    /\ pc[t] = from
    /\ hpc[t] = "none"
    /\ pc' = [pc EXCEPT ![t] = to]

HandlerStep(t, from, to) ==
    /\ hpc[t] = from
    /\ hpc' = [hpc EXCEPT ![t] = to]

IsFree(l) == owner[l] = Free

Lock(S, t) ==
    /\ \A l \in S : IsFree(l)
    /\ owner' = [l \in Locks |-> IF l \in S THEN t ELSE owner[l]]

Unlock(S) == owner' = [l \in Locks |-> IF l \in S THEN Free ELSE owner[l]]

MayCall(t, call) == call \in Calls[tlks[t]]

-----------------------------------------------------------------------------
(* wait_for_collection2: take m_mutex and m_thread_mutex, then make sure no *)
(* collection is under way.  Everything that must not overlap a collection  *)
(* goes through it, and cont says what comes next.                          *)
(*                                                                          *)
(* The double lock takes the mutexes one after the other.  When the second  *)
(* is not free the first is given back, as ::std::lock does.  A signal can  *)
(* arrive in between: then the thread stops with m_mutex in its hands.      *)

BothMutexes == {"mutex", "thread_mutex"}

Wc2Lock(t) ==
    /\ Step(t, "wc2_lock", "wc2_second")
    /\ Lock({"mutex"}, t)
    /\ UNCHANGED <<cont, handler, members, flags, counts, m_enabled_count, gc>>

Wc2Second(t) ==
    /\ Step(t, "wc2_second", "wc2_check")
    /\ Lock({"thread_mutex"}, t)
    /\ UNCHANGED <<cont, handler, members, flags, counts, m_enabled_count, gc>>

Wc2BackOff(t) ==
    /\ ~IsFree("thread_mutex")
    /\ Step(t, "wc2_second", "wc2_lock")
    /\ Unlock({"mutex"})
    /\ UNCHANGED <<cont, handler, members, flags, counts, m_enabled_count, gc>>

CollectionUnderWay == ~m_collect_finished /\ m_collect

AfterWc2 == [register |-> "registering", unregister |-> "unregistering",
             collect |-> "wf_unlock", return |-> "wf_unlock"]

Wc2Check(t) ==
    /\ Step(t, "wc2_check", IF CollectionUnderWay THEN "wc2_lock" ELSE AfterWc2[cont[t]])
    /\ IF CollectionUnderWay THEN Unlock(BothMutexes) ELSE UNCHANGED owner
    /\ UNCHANGED <<cont, handler, members, flags, counts, m_enabled_count, gc>>

-----------------------------------------------------------------------------
(* Registration. *)

(* Calling it twice terminates the program, so only a null t_tlks goes on. *)
CallRegister(t) ==
    /\ MayCall(t, "register")
    /\ tlks[t] = "none"
    /\ Step(t, "idle", "wc2_lock")
    /\ cont' = [cont EXCEPT ![t] = "register"]
    /\ UNCHANGED <<handler, members, owner, flags, counts, m_enabled_count, gc>>

InitializeCurrentThread(t) ==
    /\ Step(t, "registering", "idle")
    /\ tlks' = [tlks EXCEPT ![t] = "live"]
    /\ m_threads' = m_threads \cup {t}
    /\ Unlock(BothMutexes)
    /\ UNCHANGED <<cont, handler, flags, counts, m_enabled_count, gc>>

CallUnregister(t) ==
    /\ MayCall(t, "unregister")
    /\ t \in m_threads
    /\ Step(t, "idle", "wc2_lock")
    /\ cont' = [cont EXCEPT ![t] = "unregister"]
    /\ UNCHANGED <<handler, members, owner, flags, counts, m_enabled_count, gc>>

(* The thread state is deleted; t_tlks keeps pointing to it. *)
DestroyCurrentThread(t) ==
    /\ Step(t, "unregistering", "idle")
    /\ tlks' = [tlks EXCEPT ![t] = "stale"]
    /\ m_threads' = m_threads \ {t}
    /\ Unlock(BothMutexes)
    /\ UNCHANGED <<cont, handler, flags, counts, m_enabled_count, gc>>

-----------------------------------------------------------------------------
(* wait_for_finalization and local_thread_finalization. *)

CallWaitFinalization(t) ==
    /\ MayCall(t, "wait_finalization")
    /\ Step(t, "idle", "wc2_lock")
    /\ cont' = [cont EXCEPT ![t] = "return"]
    /\ UNCHANGED <<handler, members, owner, flags, counts, m_enabled_count, gc>>

WfUnlock(t) ==
    /\ Step(t, "wf_unlock", "wf_wait")
    /\ Unlock({"mutex"})
    /\ UNCHANGED <<cont, handler, members, flags, counts, m_enabled_count, gc>>

FinalizationFinished == gc = "idle"

AfterWf(t) == IF cont[t] = "collect" THEN "fc_lock" ELSE "idle"

(* m_thread_mutex stays held while waiting for the gc thread. *)
WfWait(t) ==
    /\ FinalizationFinished
    /\ Step(t, "wf_wait", "wf_take")
    /\ UNCHANGED <<cont, handler, members, owner, flags, counts, m_enabled_count, gc>>

(* The caller asked for no local finalization. *)
WfWaitOnly(t) ==
    /\ FinalizationFinished
    /\ cont[t] = "return"
    /\ Step(t, "wf_wait", "idle")
    /\ Unlock({"thread_mutex"})
    /\ UNCHANGED <<cont, handler, members, flags, counts, m_enabled_count, gc>>

(* Takes the objects to finalize: m_mutex is locked for the time of the move. *)
WfTake(t) ==
    /\ IsFree("mutex")
    /\ Step(t, "wf_take", "wf_add")
    /\ UNCHANGED <<cont, handler, members, owner, flags, counts, m_enabled_count, gc>>

(* The finalizers have run: their objects are recorded under m_mutex. *)
WfAdd(t) ==
    /\ IsFree("mutex")
    /\ Step(t, "wf_add", AfterWf(t))
    /\ Unlock({"thread_mutex"})
    /\ UNCHANGED <<cont, handler, members, flags, counts, m_enabled_count, gc>>

(* A restricted finalizer throws: nothing catches it, and it ends the call. *)
(* The guard of m_thread_mutex unlocks it, but a call of force_collect has  *)
(* set m_collect, which nobody clears any more.  There is nothing to        *)
(* finalize before the first collection.                                    *)
WfThrow(t) ==
    /\ m_num_collections > 0
    /\ Step(t, "wf_add", "idle")
    /\ Unlock({"thread_mutex"})
    /\ UNCHANGED <<cont, handler, members, flags, counts, m_enabled_count, gc>>

-----------------------------------------------------------------------------
(* wait_for_collection, as cgc_wait_collect and every root operation use it. *)

CallWaitCollect(t) ==
    /\ MayCall(t, "wait_collect")
    /\ Step(t, "idle", "wc_lock")
    /\ UNCHANGED <<cont, handler, members, owner, flags, counts, m_enabled_count, gc>>

WcLock(t) ==
    /\ Step(t, "wc_lock", "wc_check")
    /\ Lock({"mutex"}, t)
    /\ UNCHANGED <<cont, handler, members, flags, counts, m_enabled_count, gc>>

(* Either way the mutex is released: by the caller, or by the condition wait. *)
WcCheck(t) ==
    /\ Step(t, "wc_check", IF m_collect_finished THEN "idle" ELSE "wc_wait")
    /\ Unlock({"mutex"})
    /\ UNCHANGED <<cont, handler, members, flags, counts, m_enabled_count, gc>>

-----------------------------------------------------------------------------
(* Allocation and the enabled count. *)

(* The allocators are locked for a moment.  When they fail, the allocation  *)
(* policies call force_collect with no lock held, as any other caller does. *)
Allocate(t) ==
    /\ MayCall(t, "allocate")
    /\ tlks[t] # "none"
    /\ \/ Step(t, "idle", "al_heap")     /\ Lock({"heap"}, t)
       \/ Step(t, "idle", "al_internal") /\ Lock({"internal"}, t)
    /\ UNCHANGED <<cont, handler, members, flags, counts, m_enabled_count, gc>>

Allocated(t) ==
    /\ \/ Step(t, "al_heap", "idle")     /\ Unlock({"heap"})
       \/ Step(t, "al_internal", "idle") /\ Unlock({"internal"})
    /\ UNCHANGED <<cont, handler, members, flags, counts, m_enabled_count, gc>>

(* Bound: the count stays between 0 and 1. *)
Enable(t) ==
    /\ MayCall(t, "enable")
    /\ m_enabled_count < 1
    /\ Step(t, "idle", "idle")
    /\ m_enabled_count' = m_enabled_count + 1
    /\ UNCHANGED <<cont, handler, members, owner, flags, counts, gc>>

Disable(t) ==
    /\ MayCall(t, "disable")
    /\ m_enabled_count > 0
    /\ Step(t, "idle", "idle")
    /\ m_enabled_count' = m_enabled_count - 1
    /\ UNCHANGED <<cont, handler, members, owner, flags, counts, gc>>

-----------------------------------------------------------------------------
(* force_collect.  cgc_collect is the same behind a check that the gc       *)
(* thread has finished finalizing, made under m_thread_mutex.               *)

WithinBound == m_num_collections < CollectionBound

MayCollect(t) ==
    /\ tlks[t] # "none"             \* otherwise the program is terminated
    /\ m_enabled_count > 0          \* otherwise the call returns at once

(* The compare-exchange on m_collect: the loser waits for the winner. *)
ClaimCollection(t) ==
    /\ Step(t, "idle", IF m_collect THEN "fc_spin" ELSE "wc2_lock")
    /\ m_collect' = TRUE
    /\ cont' = IF m_collect THEN cont ELSE [cont EXCEPT ![t] = "collect"]
    /\ UNCHANGED <<handler, members, owner, m_collect_finished, counts, m_enabled_count, gc>>

CallForceCollect(t) ==
    /\ MayCall(t, "force_collect")
    /\ MayCollect(t)
    /\ WithinBound
    /\ ClaimCollection(t)

CallCollect(t) ==
    /\ MayCall(t, "collect")
    /\ IsFree("thread_mutex")
    /\ FinalizationFinished
    /\ MayCollect(t)
    /\ WithinBound
    /\ ClaimCollection(t)

FcSpin(t) ==
    /\ ~m_collect
    /\ Step(t, "fc_spin", "idle")
    /\ UNCHANGED <<cont, handler, members, owner, flags, counts, m_enabled_count, gc>>

(* Slip: the allocators are not locked before the world is stopped. *)
AllLocksBug == {"mutex", "internal", "thread_mutex", "start_world"}

AllLocks == {"mutex", "heap", "internal", "thread_mutex", "start_world"}

(* As in the double lock: the first, then the others or back to the start.  *)
FcLock(t) ==
    /\ Step(t, "fc_lock", "fc_rest")
    /\ Lock({"mutex"}, t)
    /\ UNCHANGED <<cont, handler, members, flags, counts, m_enabled_count, gc>>

FcRest(t) ==
    /\ Step(t, "fc_rest", "fc_settle")
    /\ Lock(AllLocks \ {"mutex"}, t)
    /\ UNCHANGED <<cont, handler, members, flags, counts, m_enabled_count, gc>>

FcBackOff(t) ==
    /\ \E l \in AllLocks \ {"mutex"} : ~IsFree(l)
    /\ Step(t, "fc_rest", "fc_lock")
    /\ Unlock({"mutex"})
    /\ UNCHANGED <<cont, handler, members, flags, counts, m_enabled_count, gc>>

(* Threads of the collection before may still be on their way out of the    *)
(* handler: the locks they need are released until all have left.           *)
Settled == m_num_collections = 0 \/ m_num_paused_threads = m_num_resumed_threads

FcSettle(t) ==
    /\ \/ Settled  /\ Step(t, "fc_settle", "fc_reset") /\ Unlock({"start_world"})
       \/ ~Settled /\ Step(t, "fc_settle", "fc_yield") /\ Unlock({"internal", "start_world"})
    /\ UNCHANGED <<cont, handler, members, flags, counts, m_enabled_count, gc>>

FcYield(t) ==
    /\ Step(t, "fc_yield", "fc_settle")
    /\ Lock({"internal", "start_world"}, t)
    /\ UNCHANGED <<cont, handler, members, flags, counts, m_enabled_count, gc>>

(* Slip: the count of paused threads is not reset. *)
FcResetBug(t) ==
    /\ Step(t, "fc_reset", "fc_unavailable")
    /\ m_collect_finished' = FALSE
    /\ m_num_resumed_threads' = 0
    /\ UNCHANGED <<cont, handler, members, owner, m_collect, m_num_paused_threads,
                   m_num_collections, m_enabled_count, gc>>

FcReset(t) ==
    /\ Step(t, "fc_reset", "fc_unavailable")
    /\ m_collect_finished' = FALSE
    /\ m_num_paused_threads' = 0
    /\ m_num_resumed_threads' = 0
    /\ UNCHANGED <<cont, handler, members, owner, m_collect, m_num_collections,
                   m_enabled_count, gc>>

FcUnavailable(t) ==
    /\ Step(t, "fc_unavailable", "fc_suspend")
    /\ Lock({"unavailable"}, t)
    /\ UNCHANGED <<cont, handler, members, flags, counts, m_enabled_count, gc>>

-----------------------------------------------------------------------------
(* _u_suspend_threads and _u_setup_gc_threads. *)

(* Every other registered thread is signalled, then m_mutex is released. *)
SuspendThreads(t) ==
    /\ Step(t, "fc_suspend", "fc_count")
    /\ pending' = pending \cup (m_threads \ {t})
    /\ Unlock({"mutex"})
    /\ UNCHANGED <<cont, hpc, stack_ptr, members, flags, counts, m_enabled_count, gc>>

(* Slip: the wait for the last thread is cut short by one. *)
AllPausedBug == m_num_paused_threads + 2 >= Cardinality(m_threads)

AllPaused == m_num_paused_threads = Cardinality(m_threads) - 1

FcCount(t) ==
    /\ AllPaused
    /\ Step(t, "fc_count", "fc_relock")
    /\ UNCHANGED <<cont, handler, members, owner, flags, counts, m_enabled_count, gc>>

(* Slip: m_mutex is not taken back after the suspension. *)
FcRelockBug(t) ==
    /\ Step(t, "fc_relock", "fc_stopped")
    /\ UNCHANGED <<cont, handler, members, owner, flags, counts, m_enabled_count, gc>>

FcRelock(t) ==
    /\ Step(t, "fc_relock", "fc_stopped")
    /\ Lock({"mutex"}, t)
    /\ UNCHANGED <<cont, handler, members, flags, counts, m_enabled_count, gc>>

(* m_thread_mutex is released, the collector records its own stack pointer, *)
(* and the allocators are unlocked before "unavailable" is.                 *)
FcStopped(t) ==
    /\ Step(t, "fc_stopped", "fc_open")
    /\ Unlock({"thread_mutex", "heap", "internal"})
    /\ stack_ptr' = stack_ptr \cup {t}
    /\ UNCHANGED <<cont, hpc, pending, members, flags, counts, m_enabled_count, gc>>

FcOpen(t) ==
    /\ Step(t, "fc_open", "fc_setup")
    /\ Unlock({"unavailable"})
    /\ UNCHANGED <<cont, handler, members, flags, counts, m_enabled_count, gc>>

FcSetup(t) ==
    /\ Step(t, "fc_setup", "fc_clear")
    /\ gc' = "reset"
    /\ UNCHANGED <<cont, handler, members, owner, flags, counts, m_enabled_count>>

-----------------------------------------------------------------------------
(* The phases, the resume and the return. *)

(* The collector starts a phase of the gc thread once the one before it is  *)
(* over.  Notifying that all threads have resumed starts the finalization.  *)
StartPhase(t, from, to, done, phase) ==
    /\ Step(t, from, to)
    /\ gc = done
    /\ gc' = phase
    /\ UNCHANGED <<cont, handler, members, owner, flags, m_enabled_count>>

StartClear(t) ==
    StartPhase(t, "fc_clear", "fc_clearing", "reset", "clear") /\ UNCHANGED counts

StartMark(t) ==
    StartPhase(t, "fc_clearing", "fc_marking", "cleared", "mark") /\ UNCHANGED counts

StartSweep(t) ==
    StartPhase(t, "fc_marking", "fc_sweeping", "marked", "sweep") /\ UNCHANGED counts

NotifyAllThreadsResumed(t) ==
    /\ StartPhase(t, "fc_sweeping", "fc_thread_lock", "swept", "add_freed")
    /\ m_num_collections' = m_num_collections + 1
    /\ UNCHANGED <<m_num_paused_threads, m_num_resumed_threads>>

FcThreadLock(t) ==
    /\ Step(t, "fc_thread_lock", "fc_start_lock")
    /\ Lock({"thread_mutex"}, t)
    /\ UNCHANGED <<cont, handler, members, flags, counts, m_enabled_count, gc>>

FcStartLock(t) ==
    /\ Step(t, "fc_start_lock", "fc_finish")
    /\ Lock({"start_world"}, t)
    /\ UNCHANGED <<cont, handler, members, flags, counts, m_enabled_count, gc>>

(* Slip: the flag is set and nobody is notified. *)
ResumeThreadsBug(t) ==
    /\ Step(t, "fc_finish", "fc_start_unlock")
    /\ m_collect_finished' = TRUE
    /\ UNCHANGED <<cont, handler, members, owner, m_collect, counts, m_enabled_count, gc>>

(* m_collect_finished is set and everyone waiting for it is notified: the   *)
(* threads stopped in the handler and those inside wait_for_collection.     *)
ResumeThreads(t) ==
    /\ pc[t] = "fc_finish"
    /\ hpc[t] = "none"
    /\ m_collect_finished' = TRUE
    /\ hpc' = [u \in Threads |-> IF hpc[u] = "waiting" THEN "woken" ELSE hpc[u]]
    /\ pc'  = [u \in Threads |-> IF u = t THEN "fc_start_unlock"
                                 ELSE IF pc[u] = "wc_wait" THEN "wc_lock" ELSE pc[u]]
    /\ UNCHANGED <<cont, pending, stack_ptr, members, owner, m_collect, counts,
                   m_enabled_count, gc>>

FcStartUnlock(t) ==
    /\ Step(t, "fc_start_unlock", "fc_collect_off")
    /\ Unlock({"start_world"})
    /\ UNCHANGED <<cont, handler, members, flags, counts, m_enabled_count, gc>>

FcCollectOff(t) ==
    /\ Step(t, "fc_collect_off", "fc_unlock")
    /\ m_collect' = FALSE
    /\ UNCHANGED <<cont, handler, members, owner, m_collect_finished, counts,
                   m_enabled_count, gc>>

(* Slip: m_thread_mutex is not unlocked. *)
FcUnlockBug(t) ==
    /\ \/ Step(t, "fc_unlock", "idle")
       \/ Step(t, "fc_unlock", "wc2_lock")
    /\ cont' = [cont EXCEPT ![t] = "return"]
    /\ Unlock({"mutex"})
    /\ stack_ptr' = stack_ptr \ {t}
    /\ UNCHANGED <<hpc, pending, members, flags, counts, m_enabled_count, gc>>

(* do_local_finalization decides whether the call ends with one more wait.  *)
FcUnlock(t) ==
    /\ \/ Step(t, "fc_unlock", "idle")
       \/ Step(t, "fc_unlock", "wc2_lock")
    /\ cont' = [cont EXCEPT ![t] = "return"]
    /\ Unlock(BothMutexes)
    /\ stack_ptr' = stack_ptr \ {t}
    /\ UNCHANGED <<hpc, pending, members, flags, counts, m_enabled_count, gc>>

-----------------------------------------------------------------------------
(* _collect_current_thread: the signal handler.  SIGUSR1 stays blocked in it. *)

DeliverSignal(t) ==
    /\ t \in pending
    /\ HandlerStep(t, "none", "entered")
    /\ pending' = pending \ {t}
    /\ stack_ptr' = stack_ptr \cup {t}
    /\ UNCHANGED <<pc, cont, members, owner, flags, counts, m_enabled_count, gc>>

(* Slip: the thread counts itself out instead of in. *)
HandlerCountBug(t) ==
    /\ HandlerStep(t, "entered", "paused")
    /\ m_num_paused_threads' = m_num_paused_threads - 1
    /\ UNCHANGED <<pc, cont, pending, stack_ptr, members, owner, flags,
                   m_num_resumed_threads, m_num_collections, m_enabled_count, gc>>

HandlerCount(t) ==
    /\ HandlerStep(t, "entered", "paused")
    /\ m_num_paused_threads' = m_num_paused_threads + 1
    /\ UNCHANGED <<pc, cont, pending, stack_ptr, members, owner, flags,
                   m_num_resumed_threads, m_num_collections, m_enabled_count, gc>>

(* Slip: the handler does not look whether the allocators are available. *)
AllocatorsAvailableBug == TRUE

(* m_allocators_unavailable_mutex is locked and unlocked at once. *)
AllocatorsAvailable == IsFree("unavailable")

HandlerGate(t) ==
    /\ AllocatorsAvailable
    /\ HandlerStep(t, "paused", "gate")
    /\ UNCHANGED <<pc, cont, pending, stack_ptr, members, owner, flags, counts,
                   m_enabled_count, gc>>

HandlerLock(t) ==
    /\ \/ HandlerStep(t, "gate", "locked")
       \/ HandlerStep(t, "woken", "locked")
    /\ Lock({"start_world"}, t)
    /\ UNCHANGED <<pc, cont, pending, stack_ptr, members, flags, counts, m_enabled_count, gc>>

HandlerWait(t) ==
    /\ ~m_collect_finished
    /\ HandlerStep(t, "locked", "waiting")
    /\ Unlock({"start_world"})
    /\ UNCHANGED <<pc, cont, pending, stack_ptr, members, flags, counts, m_enabled_count, gc>>

HandlerResume(t) ==
    /\ m_collect_finished
    /\ HandlerStep(t, "locked", "leaving")
    /\ m_num_resumed_threads' = m_num_resumed_threads + 1
    /\ UNCHANGED <<pc, cont, pending, stack_ptr, members, owner, flags,
                   m_num_paused_threads, m_num_collections, m_enabled_count, gc>>

HandlerReturn(t) ==
    /\ HandlerStep(t, "leaving", "none")
    /\ Unlock({"start_world"})
    /\ stack_ptr' = stack_ptr \ {t}
    /\ UNCHANGED <<pc, cont, pending, members, flags, counts, m_enabled_count, gc>>

-----------------------------------------------------------------------------
(* The gc thread, one step per phase.  Marking looks the watched threads up *)
(* under m_thread_mutex; finalizing records what it freed under m_mutex and *)
(* returns the memory under the allocator's lock.                           *)

GcStep(from, to) ==
    /\ gc = from
    /\ gc' = to
    /\ UNCHANGED <<pc, cont, handler, members, owner, flags, counts, m_enabled_count>>

GcClear      == GcStep("clear", "cleared")
GcMark       == IsFree("thread_mutex") /\ GcStep("mark", "marked")
GcSweep      == GcStep("sweep", "swept")

(* Slip: the list of what was freed is filled without m_mutex. *)
GcAddFreedBug == GcStep("add_freed", "add_special")

GcAddFreed   == IsFree("mutex") /\ GcStep("add_freed", "add_special")
GcAddSpecial == IsFree("mutex") /\ GcStep("add_special", "destroy")
GcDestroy    == IsFree("heap") /\ GcStep("destroy", "idle")

GcNext == GcClear \/ GcMark \/ GcSweep \/ GcAddFreed \/ GcAddSpecial \/ GcDestroy

-----------------------------------------------------------------------------
CallNext(t) ==
    \/ CallRegister(t) \/ CallUnregister(t) \/ CallWaitFinalization(t) \/ CallWaitCollect(t)
    \/ Allocate(t) \/ Enable(t) \/ Disable(t) \/ CallForceCollect(t) \/ CallCollect(t)

KernelNext(t) ==
    \/ Wc2Lock(t) \/ Wc2Second(t) \/ Wc2BackOff(t) \/ Wc2Check(t)
    \/ InitializeCurrentThread(t) \/ DestroyCurrentThread(t)
    \/ WfUnlock(t) \/ WfWait(t) \/ WfWaitOnly(t) \/ WfTake(t) \/ WfAdd(t) \/ WfThrow(t)
    \/ WcLock(t) \/ WcCheck(t) \/ Allocated(t)
    \/ FcSpin(t) \/ FcLock(t) \/ FcRest(t) \/ FcBackOff(t) \/ FcSettle(t) \/ FcYield(t)
    \/ FcReset(t) \/ FcUnavailable(t) \/ SuspendThreads(t) \/ FcCount(t) \/ FcRelock(t)
    \/ FcStopped(t) \/ FcOpen(t) \/ FcSetup(t) \/ StartClear(t) \/ StartMark(t) \/ StartSweep(t)
    \/ NotifyAllThreadsResumed(t) \/ FcThreadLock(t) \/ FcStartLock(t)
    \/ ResumeThreads(t) \/ FcStartUnlock(t) \/ FcCollectOff(t) \/ FcUnlock(t)

HandlerNext(t) ==
    \/ DeliverSignal(t) \/ HandlerCount(t) \/ HandlerGate(t) \/ HandlerLock(t)
    \/ HandlerWait(t) \/ HandlerResume(t) \/ HandlerReturn(t)

Next == GcNext \/ \E t \in Threads : CallNext(t) \/ KernelNext(t) \/ HandlerNext(t)

Spec == Init /\ [][Next]_vars

(* Every thread that is not between calls keeps running, signals arrive,    *)
(* and a thread that keeps finding a lock free in the end gets it, also as  *)
(* the second of a double lock: the scheduler and the mutexes are fair.     *)
(* Whether to make a call is not.                                           *)
Fairness ==
    /\ SF_vars(GcNext)
    /\ \A t \in Threads :
        /\ SF_vars(KernelNext(t))
        /\ SF_vars(Wc2Second(t) \/ FcRest(t))
        /\ WF_vars(HandlerNext(t))
        /\ SF_vars(HandlerLock(t))

FairSpec == Spec /\ Fairness

-----------------------------------------------------------------------------
(* Properties. *)

TypeOK ==
    /\ pc   \in [Threads -> PCs]
    /\ cont \in [Threads -> Conts]
    /\ hpc  \in [Threads -> HPCs]
    /\ pending \subseteq Threads
    /\ m_threads \subseteq Threads
    /\ tlks  \in [Threads -> TlksStates]
    /\ owner \in [Locks -> Threads \cup {Free}]
    /\ m_collect \in BOOLEAN
    /\ m_collect_finished \in BOOLEAN
    /\ m_num_paused_threads \in Nat
    /\ m_num_resumed_threads \in Nat
    /\ m_num_collections \in Nat
    /\ m_enabled_count \in 0..1
    /\ stack_ptr \subseteq Threads
    /\ gc \in GcPhases

Collecting(t) == pc[t] \in CollectPCs
InHandler(t)  == hpc[t] # "none"

(* The handler has been entered and the order to leave it has not come. *)
Halted(t) == hpc[t] \in {"paused", "gate", "locked", "waiting"} /\ ~m_collect_finished

(* While the gc thread clears, marks or sweeps, every registered thread but *)
(* the collector stands still in its signal handler: the promise            *)
(* force_collect makes to gc_thread_t, which reads the heap without a lock. *)
WorldStopped ==
    gc \in {"clear", "mark", "sweep"} =>
        \E c \in m_threads : Collecting(c) /\ \A t \in m_threads \ {c} : Halted(t)

(* Marking scans each registered thread from the stack pointer it recorded: *)
(* none of them is one recorded for an earlier collection.                  *)
StacksRecorded == gc = "mark" => m_threads \subseteq stack_ptr

(* A thread that is stopped holds neither m_thread_mutex nor the mutex of   *)
(* an allocator, and m_mutex in two places only: between the two locks of   *)
(* wait_for_collection2, and where wait_for_collection tests the end of the *)
(* collection (the order of locks and unlocks in force_collect is there "to *)
(* prevent deadlocks", and leaves those two).                               *)
SuspendedHoldsAtMostMutex ==
    \A t \in Threads : InHandler(t) =>
        /\ \A l \in {"thread_mutex", "heap", "internal"} : owner[l] # t
        /\ owner["mutex"] = t => pc[t] \in {"wc2_second", "wc_check"}

(* The condition variable a stopped thread waits on may allocate: no thread *)
(* gets past m_allocators_unavailable_mutex before the collector has given  *)
(* the allocator locks back.                                                *)
GateProtectsAllocators ==
    \A t, c \in Threads :
        /\ hpc[t] \in {"gate", "locked", "waiting"}
        /\ ~m_collect_finished
        /\ Collecting(c)
        => owner["heap"] # c /\ owner["internal"] # c

(* wait_for_collection2 and its callers: whoever holds m_mutex and          *)
(* m_thread_mutex outside force_collect runs beside no collection, so the   *)
(* retry loop of wait_for_collection2 has nothing to wait for.              *)
BothMutexesExcludeCollection ==
    \A t \in Threads :
        /\ owner["mutex"] = t
        /\ owner["thread_mutex"] = t
        /\ ~Collecting(t)
        => m_collect_finished /\ gc \notin {"reset", "clear", "cleared", "mark", "marked",
                                            "sweep", "swept"}

(* _u_setup_gc_threads resets the gc thread's flags and lists: it never     *)
(* does so before the finalization of the collection before is over.        *)
ResetOnlyWhenIdle == \A t \in Threads : pc[t] = "fc_setup" => gc = "idle"

(* The count the suspension waits on starts from nothing: when it is reset, *)
(* no thread stopped by an earlier collection is still in its handler.      *)
SettledBeforeReset ==
    \A t \in Threads : pc[t] = "fc_reset" =>
        \A u \in Threads : ~InHandler(u) /\ u \notin pending

(* The caller that collects is registered: it counts itself out of the      *)
(* threads it waits for ("Attempted to gc with no thread state").           *)
CollectorIsRegistered == \A t \in Threads : Collecting(t) => t \in m_threads

(* notify_all_threads_resumed lets the gc thread finalize before the world  *)
(* is resumed; still nothing it has freed is recorded or given back to the  *)
(* allocator until the world has been told to run again.                    *)
DestroyAfterResume == gc \in {"add_special", "destroy"} => m_collect_finished

(* The thread owns the right to collect: it won the exchange on m_collect. *)
Claimed(t) ==
    \/ pc[t] \in CollectPCs \ {"fc_unlock"}
    \/ /\ pc[t] \in {"wc2_lock", "wc2_second", "wc2_check", "wf_unlock", "wf_wait", "wf_take",
                     "wf_add"}
       /\ cont[t] = "collect"

(* The two ways in which this code comes to a halt.  An exception has left  *)
(* m_collect set, and it belongs to nobody; or a thread has stopped with    *)
(* m_mutex, which _u_suspend_threads waits for at its end.                  *)
Abandoned == m_collect /\ \A t \in Threads : ~Claimed(t)
HeldBehindHandler == \E t \in Threads : InHandler(t) /\ owner["mutex"] = t

(* Every call returns: every collection that starts ends, and so does every *)
(* wait for another thread's collection.                                    *)
CallsReturn == \A t \in Threads : pc[t] # "idle" ~> pc[t] = "idle"

(* What is left of it: every call returns, unless the kernel has come to a  *)
(* halt in one of the two ways, and in no other.                            *)
CallsReturnOrHalt ==
    \A t \in Threads : pc[t] # "idle" ~> pc[t] = "idle" \/ Abandoned \/ HeldBehindHandler

(* Every stopped thread leaves its handler, so no resume is lost, unless a  *)
(* stopped thread has m_mutex.  An abandoned m_collect keeps nobody stopped.*)
StoppedThreadsResume ==
    \A t \in Threads : InHandler(t) ~> ~InHandler(t) \/ HeldBehindHandler

-----------------------------------------------------------------------------
(* What the protocol promises, StopTheWorld, and how its state is read off  *)
(* this one: the collector is the thread between FcReset and ResumeThreads. *)

Collector == IF m_collect_finished THEN Free ELSE CHOOSE c \in Threads : Collecting(c)

WorldPhase ==
    IF m_collect_finished THEN "none"
    ELSE CASE pc[Collector] = "fc_clearing" -> "clear"
           [] pc[Collector] = "fc_marking"  -> "mark"
           [] pc[Collector] = "fc_sweeping" -> "sweep"
           [] pc[Collector] \in {"fc_thread_lock", "fc_start_lock", "fc_finish"} -> "done"
           [] OTHER -> "stopping"

STW == INSTANCE StopTheWorld WITH
           None <- Free, members <- m_threads, collector <- Collector, phase <- WorldPhase,
           halted <- {t \in Threads : hpc[t] \in
                        {"paused", "gate", "locked", "waiting", "woken"}}

(* Every behaviour of the kernel is one of StopTheWorld: threads join and   *)
(* leave between collections only, each phase begins with every other       *)
(* member halted, and a collection begins when all have resumed.            *)
StopsTheWorld == STW!Spec
=============================================================================
