--------------------------- MODULE GlobalKernelProofs ---------------------------
(***************************************************************************)
(* The safety properties of GlobalKernel, for any finite set of threads    *)
(* and any number of collections: IInv is inductive, and each property     *)
(* follows from it.                                                        *)
(***************************************************************************)
EXTENDS GlobalKernelInv, FiniteSetTheorems, TLAPS

(* The program keeps one rule: a thread that has unregistered, whose t_tlks *)
(* dangles, does not ask for a collection.                                  *)
CallersKnown ==
    \A call \in {"force_collect", "collect"} : call \notin Calls["stale"]

(* One more thread makes one more. *)
LEMMA CountUp ==
    ASSUME NEW S, IsFiniteSet(S), NEW x, x \notin S
    PROVE  Cardinality(S \cup {x}) = Cardinality(S) + 1
BY FS_AddElement

USE FreeAssumption
USE DEF IInv, TypeOK, LocksHeld, OneCollector, Registration, Window, Handlers, Counted,
        GcPhase, Stacks, handler, members, flags, counts, Step, HandlerStep, IsFree,
        Lock, Unlock, BothMutexes, Locks, CollectPCs, PCs, HPCs, Conts, GcPhases, TlksStates,
        Wc2Pcs, WfPcs, MutexPcs, ThreadMutexPcs, StoppedPcs, WindowPcs, Claimed, Active, Paused

-----------------------------------------------------------------------------
(* The threads counted as paused are finitely many, and the count is zero   *)
(* exactly when there is none (_collect_current_thread's counter).          *)
LEMMA PausedFinite == IsFiniteSet(Paused) /\ (Cardinality(Paused) = 0 <=> Paused = {})
<1>1. IsFiniteSet(Paused)
  BY ThreadsAssumption, FS_Subset, Paused \subseteq Threads
<1>. QED  BY <1>1, FS_EmptySet

(* The settle loop of force_collect: when it ends, no thread is still in a  *)
(* handler of the collection before.                                        *)
LEMMA SettledMeansQuiet ==
    ASSUME IInv, NEW t \in Threads, pc[t] = "fc_settle", Settled
    PROVE  m_collect_finished /\ \A u \in Threads : ~Active(u)
<1>1. m_collect_finished
  OBVIOUS
<1>2. CASE m_num_collections = 0
  BY <1>1, <1>2
<1>3. CASE m_num_collections # 0
  <2>1. Cardinality(Paused) = 0
    <3>1. m_num_paused_threads = m_num_resumed_threads + Cardinality(Paused)
      BY <1>3
    <3>2. m_num_paused_threads = m_num_resumed_threads
      BY <1>3 DEF Settled
    <3>3. Cardinality(Paused) \in Nat
      BY PausedFinite, FS_CardinalityType
    <3>. QED  BY <3>1, <3>2, <3>3
  <2>2. Paused = {}
    BY <2>1, PausedFinite
  <2>. QED  BY <1>1, <2>2
<1>. QED  BY <1>2, <1>3

(* _u_suspend_threads: when the count is complete, every other registered   *)
(* thread has been counted.                                                 *)
LEMMA AllPausedMeansAll ==
    ASSUME IInv, NEW t \in Threads, pc[t] = "fc_count", AllPaused
    PROVE  Paused = m_threads \ {t}
<1>1. ~m_collect_finished /\ m_num_resumed_threads = 0 /\ t \in m_threads
  OBVIOUS
<1>2. Paused \subseteq m_threads \ {t}
  OBVIOUS
<1>3. IsFiniteSet(m_threads) /\ IsFiniteSet(m_threads \ {t})
  BY ThreadsAssumption, FS_Subset
<1>4. Cardinality(m_threads \ {t}) = Cardinality(m_threads) - 1
  BY <1>1, <1>3, FS_RemoveElement
<1>5. Cardinality(Paused) = Cardinality(m_threads) - 1
  <2>1. Cardinality(Paused) \in Nat
    BY PausedFinite, FS_CardinalityType
  <2>. QED  BY <1>1, <2>1 DEF AllPaused
<1>. HIDE DEF Paused
<1>. QED  BY <1>2, <1>3, <1>4, <1>5, FS_Subset

-----------------------------------------------------------------------------
(* The calls a thread can make preserve the invariant. *)
LEMMA CallPreserves ==
    ASSUME CallersKnown, IInv, NEW t \in Threads, CallNext(t)
    PROVE  IInv'
<1>1. CASE CallRegister(t)
  BY <1>1, SMTT(60) DEF CallRegister
<1>2. CASE CallUnregister(t)
  BY <1>2, SMTT(60) DEF CallUnregister
<1>3. CASE CallWaitFinalization(t)
  BY <1>3, SMTT(60) DEF CallWaitFinalization
<1>4. CASE CallWaitCollect(t)
  BY <1>4, SMTT(60) DEF CallWaitCollect
<1>5. CASE Allocate(t)
  BY <1>5, SMTT(60) DEF Allocate
<1>6. CASE Enable(t)
  BY <1>6, SMTT(60) DEF Enable
<1>7. CASE Disable(t)
  BY <1>7, SMTT(60) DEF Disable
<1>8. CASE CallForceCollect(t)
  BY <1>8, CallersKnown, CallsAssumption, SMTT(60)
  DEF CallForceCollect, MayCall, MayCollect, ClaimCollection, CallersKnown
<1>9. CASE CallCollect(t)
  BY <1>9, CallersKnown, CallsAssumption, SMTT(60)
  DEF CallCollect, MayCall, MayCollect, ClaimCollection, CallersKnown
<1>. QED
  BY <1>1, <1>2, <1>3, <1>4, <1>5, <1>6, <1>7, <1>8, <1>9 DEF CallNext

-----------------------------------------------------------------------------
(* The steps inside the kernel preserve the invariant. *)
LEMMA KernelPreserves ==
    ASSUME IInv, NEW t \in Threads, KernelNext(t)
    PROVE  IInv'
<1>1. CASE Wc2Lock(t)
  BY <1>1, SMTT(60) DEF Wc2Lock
<1>2. CASE Wc2Second(t)
  BY <1>2, SMTT(60) DEF Wc2Second
<1>3. CASE Wc2BackOff(t)
  BY <1>3, SMTT(60) DEF Wc2BackOff
<1>4. CASE Wc2Check(t)
  BY <1>4, SMTT(60) DEF Wc2Check, CollectionUnderWay, AfterWc2
<1>5. CASE InitializeCurrentThread(t)
  BY <1>5, SMTT(60) DEF InitializeCurrentThread
<1>6. CASE DestroyCurrentThread(t)
  BY <1>6, SMTT(60) DEF DestroyCurrentThread
<1>7. CASE WfUnlock(t)
  BY <1>7, SMTT(60) DEF WfUnlock
<1>8. CASE WfWait(t)
  BY <1>8, SMTT(60) DEF WfWait, FinalizationFinished
<1>9. CASE WfWaitOnly(t)
  BY <1>9, SMTT(60) DEF WfWaitOnly, FinalizationFinished
<1>10. CASE WfTake(t)
  BY <1>10, SMTT(60) DEF WfTake
<1>11. CASE WfAdd(t)
  BY <1>11, SMTT(60) DEF WfAdd, AfterWf
<1>12. CASE WcLock(t)
  BY <1>12, SMTT(60) DEF WcLock
<1>13. CASE WcCheck(t)
  BY <1>13, SMTT(60) DEF WcCheck
<1>14. CASE Allocated(t)
  BY <1>14, SMTT(60) DEF Allocated
<1>15. CASE FcSpin(t)
  BY <1>15, SMTT(60) DEF FcSpin
<1>16. CASE FcLock(t)
  BY <1>16, SMTT(60) DEF FcLock
<1>17. CASE FcRest(t)
  <2>1. /\ \A l \in {"thread_mutex", "start_world"} : owner[l] = Free /\ owner'[l] = t
        /\ owner' \in [Locks -> Threads \cup {Free}] /\ owner'["mutex"] = owner["mutex"]
    BY <1>17 DEF FcRest, AllLocks
  <2>2. /\ pc[t] = "fc_rest" /\ pc' = [pc EXCEPT ![t] = "fc_settle"]
        /\ UNCHANGED <<cont, handler, members, flags, counts, m_enabled_count, gc>>
    BY <1>17 DEF FcRest
  <2>3. TypeOK'
    BY <2>1, <2>2, SMTT(60)
  <2>4. LocksHeld'
    BY <2>1, <2>2, SMTT(60)
  <2>5. OneCollector' /\ Registration' /\ Window' /\ Handlers'
    BY <2>2, SMTT(60)
  <2>6. Counted'
    <3>1. Paused' = Paused
      BY <2>2
    <3>2. \A u \in Threads : pc'[u] \in {"fc_thread_lock", "fc_start_lock", "fc_finish"} =>
              pc[u] = pc'[u]
      BY <2>2
    <3>. QED  BY <2>2, <3>1, <3>2
  <2>7. GcPhase' /\ Stacks'
    BY <2>2, SMTT(60)
  <2>. QED  BY <2>3, <2>4, <2>5, <2>6, <2>7
<1>18. CASE FcBackOff(t)
  <2>1. /\ owner' \in [Locks -> Threads \cup {Free}] /\ owner'["mutex"] = Free
        /\ \A l \in {"thread_mutex", "start_world"} : owner'[l] = owner[l]
    BY <1>18 DEF FcBackOff
  <2>2. /\ pc[t] = "fc_rest" /\ pc' = [pc EXCEPT ![t] = "fc_lock"]
        /\ UNCHANGED <<cont, handler, members, flags, counts, m_enabled_count, gc>>
    BY <1>18 DEF FcBackOff
  <2>3. TypeOK'
    BY <2>1, <2>2, SMTT(60)
  <2>4. LocksHeld'
    BY <2>1, <2>2, SMTT(60)
  <2>5. OneCollector' /\ Registration' /\ Window' /\ Handlers'
    BY <2>2, SMTT(60)
  <2>6. Counted'
    <3>1. Paused' = Paused
      BY <2>2
    <3>2. \A u \in Threads : pc'[u] \in {"fc_thread_lock", "fc_start_lock", "fc_finish"} =>
              pc[u] = pc'[u]
      BY <2>2
    <3>. QED  BY <2>2, <3>1, <3>2
  <2>7. GcPhase' /\ Stacks'
    BY <2>2, SMTT(60)
  <2>. QED  BY <2>3, <2>4, <2>5, <2>6, <2>7
<1>19. CASE WfThrow(t)
  BY <1>19, SMTT(60) DEF WfThrow
<1>20. CASE FcYield(t)
  BY <1>20, SMTT(60) DEF FcYield
<1>21. CASE FcUnavailable(t)
  BY <1>21, SMTT(60) DEF FcUnavailable
<1>22. CASE SuspendThreads(t)
  BY <1>22, SMTT(60) DEF SuspendThreads
<1>23. CASE FcRelock(t)
  BY <1>23, SMTT(60) DEF FcRelock
<1>24. CASE FcStopped(t)
  BY <1>24, SMTT(60) DEF FcStopped
<1>25. CASE FcOpen(t)
  BY <1>25, SMTT(60) DEF FcOpen
<1>26. CASE FcSetup(t)
  BY <1>26, SMTT(60) DEF FcSetup
<1>27. CASE StartClear(t)
  BY <1>27, SMTT(60) DEF StartClear, StartPhase
<1>28. CASE StartMark(t)
  BY <1>28, SMTT(60) DEF StartMark, StartPhase
<1>29. CASE StartSweep(t)
  BY <1>29, SMTT(60) DEF StartSweep, StartPhase
<1>30. CASE NotifyAllThreadsResumed(t)
  BY <1>30, SMTT(60) DEF NotifyAllThreadsResumed, StartPhase
<1>31. CASE FcThreadLock(t)
  BY <1>31, SMTT(60) DEF FcThreadLock
<1>32. CASE FcStartLock(t)
  BY <1>32, SMTT(60) DEF FcStartLock
<1>33. CASE FcStartUnlock(t)
  BY <1>33, SMTT(60) DEF FcStartUnlock
<1>34. CASE FcUnlock(t)
  BY <1>34, SMTT(60) DEF FcUnlock
<1>35. CASE FcSettle(t)
  <2>1. CASE pc'[t] = "fc_reset"
    <3>1. Settled /\ pc[t] = "fc_settle"
      BY <1>35, <2>1 DEF FcSettle
    <3>2. m_collect_finished /\ \A u \in Threads : ~Active(u)
      BY <3>1, SettledMeansQuiet
    <3>. QED  BY <1>35, <2>1, <3>1, <3>2, SMTT(60) DEF FcSettle
  <2>2. CASE pc'[t] # "fc_reset"
    BY <1>35, <2>2, SMTT(60) DEF FcSettle
  <2>. QED  BY <2>1, <2>2
<1>36. CASE FcReset(t)
  <2>1. \A u \in Threads : hpc[u] = "none"
    BY <1>36 DEF FcReset
  <2>2. Paused' = {}
    BY <1>36, <2>1 DEF FcReset
  <2>3. Counted'
    <3>1. Cardinality(Paused') = 0
      <4>. HIDE DEF Paused
      <4>. QED  BY <2>2, FS_EmptySet
    <3>. QED  BY <1>36, <3>1 DEF FcReset
  <2>4. TypeOK'
    <3>1. m_collect_finished' \in BOOLEAN
      BY <1>36, Zenon DEF FcReset
    <3>. QED  BY <1>36, <3>1, SMTT(60) DEF FcReset
  <2>5. LocksHeld' /\ OneCollector' /\ Registration' /\ Window' /\ GcPhase' /\ Stacks'
    BY <1>36, SMTT(60) DEF FcReset
  <2>6. Handlers'
    BY <1>36, SMTT(60) DEF FcReset
  <2>. QED  BY <2>3, <2>4, <2>5, <2>6
<1>37. CASE FcCount(t)
  <2>1. Paused = m_threads \ {t}
    BY <1>37, AllPausedMeansAll DEF FcCount
  <2>2. \A u \in m_threads \ {t} : hpc[u] \in {"paused", "gate", "locked", "waiting"}
    BY <1>37, <2>1 DEF FcCount
  <2>3. Handlers'
    BY <1>37, <2>2, SMTT(60) DEF FcCount
  <2>4. TypeOK' /\ LocksHeld' /\ OneCollector' /\ Registration' /\ Window' /\ Counted'
          /\ GcPhase' /\ Stacks'
    BY <1>37, SMTT(60) DEF FcCount
  <2>. QED  BY <2>3, <2>4
<1>38. CASE ResumeThreads(t)
  <2>1. \A u \in Threads : Active(u) => hpc[u] \in {"paused", "gate", "locked", "waiting"}
    BY <1>38 DEF ResumeThreads
  <2>2. pending = {}
    BY <1>38, <2>1 DEF ResumeThreads
  <2>3. \A u \in Threads : Claimed(u)' => Claimed(u)
    BY <1>38 DEF ResumeThreads
  <2>4. m_collect_finished' /\ pending' = {} /\ \A u \in Threads : pc'[u] \notin WindowPcs
    BY <1>38, <2>2 DEF ResumeThreads
  <2>5. Handlers'
    <3>1. \A u \in Threads : hpc'[u] # "entered" /\ (Active(u)' => Active(u))
      BY <1>38, <2>1, <2>2 DEF ResumeThreads
    <3>2. \A u \in Threads : pc'[u] \notin {"fc_reset", "fc_unavailable", "fc_suspend"}
      BY <1>38 DEF ResumeThreads
    <3>3. m_num_collections' = 0 => \A u \in Threads : ~Active(u)'
      BY <1>38 DEF ResumeThreads
    <3>4. \A u \in Threads : Claimed(u)' => ~Active(u)'
      BY <2>3, <3>1
    <3>. QED  BY <2>4, <3>1, <3>2, <3>3, <3>4
  <2>6. TypeOK'
    BY <1>38, SMTT(60) DEF ResumeThreads
  <2>7. LocksHeld' /\ OneCollector' /\ Registration'
    BY <1>38, SMTT(60) DEF ResumeThreads
  <2>8. Window' /\ GcPhase' /\ Stacks'
    BY <1>38, SMTT(60) DEF ResumeThreads
  <2>9. Counted'
    BY <1>38, SMTT(60) DEF ResumeThreads
  <2>. QED  BY <2>5, <2>6, <2>7, <2>8, <2>9
<1>39. CASE FcCollectOff(t)
  <2>1. m_collect' \in BOOLEAN
    BY <1>39, Zenon DEF FcCollectOff
  <2>2. TypeOK'
    BY <1>39, <2>1, SMTT(60) DEF FcCollectOff
  <2>3. LocksHeld' /\ OneCollector' /\ Registration' /\ Window' /\ Handlers' /\ Counted'
          /\ GcPhase' /\ Stacks'
    BY <1>39, SMTT(60) DEF FcCollectOff
  <2>. QED  BY <2>2, <2>3
<1>. QED
  BY <1>1, <1>2, <1>3, <1>4, <1>5, <1>6, <1>7, <1>8, <1>9, <1>10, <1>11, <1>12,
     <1>13, <1>14, <1>15, <1>16, <1>17, <1>18, <1>19, <1>20, <1>21, <1>22, <1>23, <1>24,
     <1>25, <1>26, <1>27, <1>28, <1>29, <1>30, <1>31, <1>32, <1>33, <1>34, <1>35, <1>36,
     <1>37, <1>38, <1>39
  DEF KernelNext

-----------------------------------------------------------------------------
(* The signal handler preserves the invariant. *)
LEMMA HandlerPreserves ==
    ASSUME IInv, NEW t \in Threads, HandlerNext(t)
    PROVE  IInv'
<1>1. CASE DeliverSignal(t)
  <2>1. Paused' = Paused
    BY <1>1 DEF DeliverSignal
  <2>2. Counted'
    BY <1>1, <2>1 DEF DeliverSignal
  <2>3. TypeOK' /\ LocksHeld' /\ OneCollector' /\ Registration' /\ Window' /\ Handlers'
          /\ GcPhase' /\ Stacks'
    BY <1>1, SMTT(60) DEF DeliverSignal
  <2>. QED  BY <2>2, <2>3
<1>2. CASE HandlerCount(t)
  <2>1. Paused' = Paused \cup {t} /\ t \notin Paused
    BY <1>2 DEF HandlerCount
  <2>2. Cardinality(Paused') = Cardinality(Paused) + 1
    <3>. HIDE DEF Paused
    <3>1. IsFiniteSet(Paused) /\ t \notin Paused
      BY <2>1, PausedFinite
    <3>2. Cardinality(Paused \cup {t}) = Cardinality(Paused) + 1
      BY <3>1, CountUp
    <3>. QED  BY <2>1, <3>2
  <2>3. ~m_collect_finished /\ m_num_resumed_threads = 0
    BY <1>2 DEF HandlerCount
  <2>4. Cardinality(Paused) \in Nat
    BY PausedFinite, FS_CardinalityType
  <2>5. Counted'
    BY <1>2, <2>2, <2>3, <2>4 DEF HandlerCount
  <2>6. TypeOK' /\ LocksHeld' /\ OneCollector' /\ Registration' /\ Window' /\ Handlers'
          /\ GcPhase' /\ Stacks'
    BY <1>2, SMTT(60) DEF HandlerCount
  <2>. QED  BY <2>5, <2>6
<1>3. CASE HandlerGate(t)
  <2>1. Paused' = Paused
    BY <1>3 DEF HandlerGate
  <2>2. Counted'
    BY <1>3, <2>1 DEF HandlerGate
  <2>3. TypeOK' /\ LocksHeld' /\ OneCollector' /\ Registration' /\ Window' /\ Handlers'
          /\ GcPhase' /\ Stacks'
    BY <1>3, SMTT(60) DEF HandlerGate
  <2>. QED  BY <2>2, <2>3
<1>4. CASE HandlerLock(t)
  <2>1. Paused' = Paused
    BY <1>4 DEF HandlerLock
  <2>2. Counted'
    BY <1>4, <2>1 DEF HandlerLock
  <2>3. TypeOK' /\ LocksHeld' /\ OneCollector' /\ Registration' /\ Window' /\ Handlers'
          /\ GcPhase' /\ Stacks'
    BY <1>4, SMTT(60) DEF HandlerLock
  <2>. QED  BY <2>2, <2>3
<1>5. CASE HandlerWait(t)
  <2>1. Paused' = Paused
    BY <1>5 DEF HandlerWait
  <2>2. Counted'
    BY <1>5, <2>1 DEF HandlerWait
  <2>3. TypeOK' /\ LocksHeld' /\ OneCollector' /\ Registration' /\ Window' /\ Handlers'
          /\ GcPhase' /\ Stacks'
    BY <1>5, SMTT(60) DEF HandlerWait
  <2>. QED  BY <2>2, <2>3
<1>6. CASE HandlerResume(t)
  <2>1. Paused' = Paused \ {t} /\ t \in Paused
    BY <1>6 DEF HandlerResume
  <2>2. Cardinality(Paused') = Cardinality(Paused) - 1
    <3>. HIDE DEF Paused
    <3>. QED  BY <2>1, PausedFinite, FS_RemoveElement
  <2>3. Cardinality(Paused) \in Nat
    BY PausedFinite, FS_CardinalityType
  <2>4. Counted'
    BY <1>6, <2>2, <2>3 DEF HandlerResume
  <2>5. TypeOK' /\ LocksHeld' /\ OneCollector' /\ Registration' /\ Window' /\ Handlers'
          /\ GcPhase' /\ Stacks'
    BY <1>6, SMTT(60) DEF HandlerResume
  <2>. QED  BY <2>4, <2>5
<1>7. CASE HandlerReturn(t)
  <2>1. Paused' = Paused
    BY <1>7 DEF HandlerReturn
  <2>2. Counted'
    BY <1>7, <2>1 DEF HandlerReturn
  <2>3. TypeOK' /\ LocksHeld' /\ OneCollector' /\ Registration' /\ Window' /\ Handlers'
          /\ GcPhase' /\ Stacks'
    BY <1>7, SMTT(60) DEF HandlerReturn
  <2>. QED  BY <2>2, <2>3
<1>. QED
  BY <1>1, <1>2, <1>3, <1>4, <1>5, <1>6, <1>7 DEF HandlerNext

(* So do the steps of the gc thread. *)
LEMMA GcPreserves ==
    ASSUME IInv, GcNext
    PROVE  IInv'
<1>1. CASE GcClear
  BY <1>1, SMTT(60) DEF GcClear, GcStep
<1>2. CASE GcMark
  BY <1>2, SMTT(60) DEF GcMark, GcStep
<1>3. CASE GcSweep
  BY <1>3, SMTT(60) DEF GcSweep, GcStep
<1>4. CASE GcAddFreed
  BY <1>4, SMTT(60) DEF GcAddFreed, GcStep
<1>5. CASE GcAddSpecial
  BY <1>5, SMTT(60) DEF GcAddSpecial, GcStep
<1>6. CASE GcDestroy
  BY <1>6, SMTT(60) DEF GcDestroy, GcStep
<1>. QED
  BY <1>1, <1>2, <1>3, <1>4, <1>5, <1>6 DEF GcNext

-----------------------------------------------------------------------------
(* IInv holds in every reachable state: the facts the suspension and        *)
(* registration code relies on, for every number of threads.                *)
THEOREM Inductive == CallersKnown => (Spec => []IInv)
<1>. SUFFICES ASSUME CallersKnown PROVE Spec => []IInv
  OBVIOUS
<1>1. Init => IInv
  <2>. SUFFICES ASSUME Init PROVE IInv
    OBVIOUS
  <2>1. TypeOK
    <3>1. m_collect \in BOOLEAN /\ m_collect_finished \in BOOLEAN
      BY Zenon DEF Init
    <3>. QED  BY <3>1 DEF Init
  <2>2. LocksHeld /\ OneCollector /\ Registration /\ Window
    BY DEF Init
  <2>3. Handlers
    BY DEF Init
  <2>4. Counted
    <3>1. m_num_collections = 0
      BY DEF Init
    <3>2. m_collect_finished
      BY DEF Init
    <3>3. \A u \in Threads : pc[u] = "idle"
      BY DEF Init
    <3>. QED  BY <3>1, <3>2, <3>3
  <2>5. GcPhase /\ Stacks
    BY DEF Init
  <2>. QED  BY <2>1, <2>2, <2>3, <2>4, <2>5
<1>2. IInv /\ [Next]_vars => IInv'
  <2>. SUFFICES ASSUME IInv, [Next]_vars PROVE IInv'
    OBVIOUS
  <2>1. CASE GcNext
    BY <2>1, GcPreserves
  <2>2. ASSUME NEW t \in Threads, CallNext(t) PROVE IInv'
    BY <2>2, CallPreserves
  <2>3. ASSUME NEW t \in Threads, KernelNext(t) PROVE IInv'
    BY <2>3, KernelPreserves
  <2>4. ASSUME NEW t \in Threads, HandlerNext(t) PROVE IInv'
    BY <2>4, HandlerPreserves
  <2>5. CASE UNCHANGED vars
    BY <2>5, SMTT(60) DEF vars
  <2>. QED  BY <2>1, <2>2, <2>3, <2>4, <2>5 DEF Next
<1>. QED  BY <1>1, <1>2, PTL DEF Spec

(* TypeOK holds of every run of the kernel's code. *)
THEOREM TypeCorrect == CallersKnown => (Spec => []TypeOK)
<1>1. IInv => TypeOK
  OBVIOUS
<1>. HIDE DEF IInv, TypeOK
<1>. QED  BY <1>1, Inductive, PTL

(* Stopping the world works: while the gc thread clears, marks or sweeps,   *)
(* every registered thread but the collector stands still in its handler.   *)
THEOREM WorldIsStopped == CallersKnown => (Spec => []WorldStopped)
<1>1. IInv => WorldStopped
  BY SMTT(60) DEF WorldStopped, Collecting, Halted
<1>. QED  BY <1>1, Inductive, PTL

(* Marking never scans a stack from a stale stack pointer. *)
THEOREM StacksAreRecorded == CallersKnown => (Spec => []StacksRecorded)
<1>1. IInv => StacksRecorded
  BY SMTT(60) DEF StacksRecorded
<1>. QED  BY <1>1, Inductive, PTL

(* wait_for_collection2 does what it is for: registration, unregistration   *)
(* and finalization never find a collection under way behind both mutexes.  *)
THEOREM MutexesExcludeCollection ==
    CallersKnown => (Spec => []BothMutexesExcludeCollection)
<1>1. IInv => BothMutexesExcludeCollection
  BY SMTT(60) DEF BothMutexesExcludeCollection, Collecting
<1>. QED  BY <1>1, Inductive, PTL

(* The gc thread is reset only after its finalization is over. *)
THEOREM ResetIsSafe == CallersKnown => (Spec => []ResetOnlyWhenIdle)
<1>1. IInv => ResetOnlyWhenIdle
  BY DEF ResetOnlyWhenIdle
<1>. QED  BY <1>1, Inductive, PTL

(* The settle loop does its work: the counters are reset only when no       *)
(* thread of an earlier collection is left in the handler.                  *)
THEOREM ResetIsSettled == CallersKnown => (Spec => []SettledBeforeReset)
<1>1. IInv => SettledBeforeReset
  BY DEF SettledBeforeReset, InHandler
<1>. QED  BY <1>1, Inductive, PTL

(* Only a registered thread collects. *)
THEOREM OnlyMembersCollect == CallersKnown => (Spec => []CollectorIsRegistered)
<1>1. IInv => CollectorIsRegistered
  BY DEF CollectorIsRegistered, Collecting
<1>. QED  BY <1>1, Inductive, PTL
=============================================================================
