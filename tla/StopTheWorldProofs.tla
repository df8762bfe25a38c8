------------------------- MODULE StopTheWorldProofs -------------------------
(***************************************************************************)
(* What the kernel promises when it stops the world, for any finite set of *)
(* threads and any number of collections: it implements StopTheWorld (ten  *)
(* actions map to an action of the abstract protocol, all others to a      *)
(* stutter), it takes the gc thread through the phases of PhaseBarrier,    *)
(* and the threads it stops keep no lock that the collection needs.        *)
(***************************************************************************)
EXTENDS GlobalKernelProofs

(* The phase of the protocol at each program point of the collector. *)
PhaseAt(p) ==
    CASE p = "fc_clearing" -> "clear"
      [] p = "fc_marking"  -> "mark"
      [] p = "fc_sweeping" -> "sweep"
      [] p \in {"fc_thread_lock", "fc_start_lock", "fc_finish"} -> "done"
      [] OTHER -> "stopping"

USE FreeAssumption
USE DEF handler, members, flags, counts, Step, HandlerStep

(* While a collection is under way the collector is the one thread at a     *)
(* program point of the window; otherwise there is none.                    *)
LEMMA CollectorIsUnique ==
    IInv => /\ m_collect_finished => Collector = Free /\ WorldPhase = "none"
            /\ ~m_collect_finished => \E t \in Threads : pc[t] \in WindowPcs
            /\ \A t \in Threads : pc[t] \in WindowPcs =>
                   /\ ~m_collect_finished
                   /\ Collector = t
                   /\ WorldPhase = PhaseAt(pc[t])
<1>. SUFFICES ASSUME IInv
     PROVE  /\ m_collect_finished => Collector = Free /\ WorldPhase = "none"
            /\ ~m_collect_finished => \E t \in Threads : pc[t] \in WindowPcs
            /\ \A t \in Threads : pc[t] \in WindowPcs =>
                   /\ ~m_collect_finished
                   /\ Collector = t
                   /\ WorldPhase = PhaseAt(pc[t])
  OBVIOUS
<1>1. m_collect_finished => Collector = Free /\ WorldPhase = "none"
  BY DEF Collector, WorldPhase
<1>2. ~m_collect_finished <=> \E t \in Threads : pc[t] \in WindowPcs
  BY DEF IInv, Window
<1>3. ASSUME NEW t \in Threads, pc[t] \in WindowPcs
      PROVE  Collector = t /\ WorldPhase = PhaseAt(pc[t])
  <2>1. \A u \in Threads : Collecting(u) => u = t
    <3>. SUFFICES ASSUME NEW u \in Threads, Collecting(u), u # t PROVE FALSE
      OBVIOUS
    <3>1. Claimed(t) /\ (pc[u] # "fc_unlock" => Claimed(u))
      BY <1>3 DEF Claimed, Collecting, CollectPCs, WindowPcs, StoppedPcs
    <3>2. pc[u] = "fc_unlock"
      BY <3>1 DEF IInv, OneCollector
    <3>3. owner["mutex"] = u /\ owner["thread_mutex"] = u
      BY <3>2 DEF IInv, LocksHeld, MutexPcs, ThreadMutexPcs, CollectPCs
    <3>4. owner["mutex"] = t \/ owner["thread_mutex"] = t
      BY <1>3 DEF IInv, LocksHeld, MutexPcs, ThreadMutexPcs, CollectPCs, WindowPcs, StoppedPcs
    <3>. QED  BY <3>3, <3>4
  <2>2. Collecting(t)
    BY <1>3 DEF Collecting, CollectPCs, WindowPcs, StoppedPcs
  <2>3. Collector = t
    BY <1>2, <1>3, <2>1, <2>2 DEF Collector
  <2>. QED  BY <1>2, <1>3, <2>3 DEF WorldPhase, PhaseAt
<1>. QED  BY <1>1, <1>2, <1>3

(* The same of the state after a step. *)
LEMMA CollectorIsUniqueNext ==
    IInv' => /\ m_collect_finished' => Collector' = Free /\ WorldPhase' = "none"
             /\ ~m_collect_finished' => \E t \in Threads : pc'[t] \in WindowPcs
             /\ \A t \in Threads : pc'[t] \in WindowPcs =>
                    /\ ~m_collect_finished'
                    /\ Collector' = t
                    /\ WorldPhase' = PhaseAt(pc'[t])
<1>1. (IInv => /\ m_collect_finished => Collector = Free /\ WorldPhase = "none"
               /\ ~m_collect_finished => \E t \in Threads : pc[t] \in WindowPcs
               /\ \A t \in Threads : pc[t] \in WindowPcs =>
                      /\ ~m_collect_finished
                      /\ Collector = t
                      /\ WorldPhase = PhaseAt(pc[t]))'
  BY CollectorIsUnique, PTL
<1>. QED  BY <1>1 DEF WindowPcs, StoppedPcs, PhaseAt

(* In the part of the window where everybody else stands still, the         *)
(* protocol sees all members but the collector halted.                      *)
LEMMA OthersHalted ==
    ASSUME IInv, NEW t \in Threads, pc[t] \in StoppedPcs
    PROVE  Paused = m_threads \ {t} /\ t \in m_threads
<1>1. \A u \in m_threads \ {t} : u \in Threads /\ u \in Paused
  BY DEF IInv, TypeOK, Handlers, Paused
<1>2. \A u \in Paused : u \in m_threads \ {t}
  BY DEF IInv, Handlers, Active, Paused, WindowPcs
<1>3. Claimed(t)
  BY DEF Claimed, StoppedPcs, CollectPCs
<1>4. t \in m_threads
  BY <1>3 DEF IInv, Registration
<1>. QED  BY <1>1, <1>2, <1>4

(* A step that keeps the members, the halted threads and the phase of the   *)
(* collector is a stutter of the protocol.                                  *)
LEMMA Stutter ==
    ASSUME IInv, IInv', m_threads' = m_threads, m_collect_finished' = m_collect_finished,
           Paused' = Paused,
           \A c \in Threads : pc[c] \in WindowPcs =>
               pc'[c] \in WindowPcs /\ PhaseAt(pc'[c]) = PhaseAt(pc[c])
    PROVE  UNCHANGED STW!vars
<1>1. Collector' = Collector /\ WorldPhase' = WorldPhase
  <2>1. CASE m_collect_finished
    BY <2>1, CollectorIsUnique, CollectorIsUniqueNext
  <2>2. CASE ~m_collect_finished
    <3>1. PICK c \in Threads : pc[c] \in WindowPcs
      BY <2>2, CollectorIsUnique
    <3>. QED  BY <3>1, CollectorIsUnique, CollectorIsUniqueNext
  <2>. QED  BY <2>1, <2>2
<1>. QED  BY <1>1 DEF STW!vars, Paused

-----------------------------------------------------------------------------
(* The steps that are steps of the protocol. *)

(* With both mutexes in hand nobody collects. *)
LEMMA BothMutexesMeanNone ==
    ASSUME IInv, NEW t \in Threads, pc[t] \in {"registering", "unregistering", "fc_reset"}
    PROVE  m_collect_finished
<1>. SUFFICES ASSUME NEW c \in Threads, pc[c] \in WindowPcs PROVE FALSE
  BY DEF IInv, Window
<1>1. owner["mutex"] = t /\ owner["thread_mutex"] = t
  BY DEF IInv, LocksHeld, MutexPcs, ThreadMutexPcs, CollectPCs
<1>2. owner["mutex"] = c \/ owner["thread_mutex"] = c
  BY DEF IInv, LocksHeld, MutexPcs, ThreadMutexPcs, CollectPCs, WindowPcs, StoppedPcs
<1>. QED  BY <1>1, <1>2 DEF WindowPcs, StoppedPcs

(* Registration and its undoing are Join and Leave. *)
LEMMA MembersChange ==
    ASSUME IInv, IInv', NEW t \in Threads,
           InitializeCurrentThread(t) \/ DestroyCurrentThread(t)
    PROVE  STW!Next
<1>1. m_collect_finished /\ m_collect_finished' = m_collect_finished
  BY BothMutexesMeanNone DEF InitializeCurrentThread, DestroyCurrentThread
<1>2. Collector = Free /\ UNCHANGED <<Collector, WorldPhase>>
  BY <1>1, CollectorIsUnique, CollectorIsUniqueNext
<1>3. Paused' = Paused /\ t \notin Paused
  BY DEF InitializeCurrentThread, DestroyCurrentThread, Paused
<1>4. STW!Join(t) \/ STW!Leave(t)
  BY <1>2, <1>3 DEF InitializeCurrentThread, DestroyCurrentThread, STW!Join, STW!Leave, Paused
<1>. QED  BY <1>4 DEF STW!Next

(* The reset of the counters is where a collection begins. *)
LEMMA ResetBegins ==
    ASSUME IInv, IInv', NEW t \in Threads, FcReset(t)
    PROVE  STW!Next
<1>1. m_collect_finished /\ pc[t] = "fc_reset"
  BY BothMutexesMeanNone DEF FcReset
<1>2. Paused = {} /\ Paused' = {}
  BY <1>1 DEF FcReset, IInv, Handlers, Active, Paused
<1>3. pc'[t] = "fc_unavailable"
  BY DEF FcReset, IInv, TypeOK
<1>4. Collector = Free /\ Collector' = t /\ WorldPhase' = "stopping"
  BY <1>1, <1>3, CollectorIsUnique, CollectorIsUniqueNext DEF WindowPcs, PhaseAt
<1>5. t \in m_threads
  BY <1>1 DEF IInv, Registration, Claimed, CollectPCs
<1>6. STW!Begin(t)
  BY <1>2, <1>4, <1>5 DEF FcReset, STW!Begin, Paused
<1>. QED  BY <1>6 DEF STW!Next

(* A phase begins with every other member halted. *)
LEMMA PhasesStart ==
    ASSUME IInv, IInv', NEW t \in Threads,
           \/ StartClear(t) \/ StartMark(t) \/ StartSweep(t) \/ NotifyAllThreadsResumed(t)
    PROVE  STW!Next
<1>. USE DEF StartClear, StartMark, StartSweep, NotifyAllThreadsResumed, StartPhase
<1>1. pc[t] \in StoppedPcs /\ pc'[t] \in StoppedPcs
  BY DEF IInv, TypeOK, StoppedPcs
<1>2. /\ Collector = t /\ Collector' = t
      /\ WorldPhase = PhaseAt(pc[t]) /\ WorldPhase' = PhaseAt(pc'[t])
  BY <1>1, CollectorIsUnique, CollectorIsUniqueNext DEF WindowPcs
<1>3. Paused = m_threads \ {t} /\ Paused' = Paused /\ m_threads' = m_threads
  BY <1>1, OthersHalted DEF Paused
<1>4. \/ STW!Phase("stopping", "clear") \/ STW!Phase("clear", "mark")
      \/ STW!Phase("mark", "sweep") \/ STW!Phase("sweep", "done")
  <2>1. \/ PhaseAt(pc[t]) = "stopping" /\ PhaseAt(pc'[t]) = "clear"
        \/ PhaseAt(pc[t]) = "clear" /\ PhaseAt(pc'[t]) = "mark"
        \/ PhaseAt(pc[t]) = "mark" /\ PhaseAt(pc'[t]) = "sweep"
        \/ PhaseAt(pc[t]) = "sweep" /\ PhaseAt(pc'[t]) = "done"
    BY DEF PhaseAt, IInv, TypeOK
  <2>. QED  BY <1>2, <1>3, <2>1 DEF STW!Phase, STW!AllHalted, Paused
<1>. QED  BY <1>4 DEF STW!Next

(* Setting m_collect_finished ends the collection with everybody halted. *)
LEMMA ResumeEnds ==
    ASSUME IInv, IInv', NEW t \in Threads, ResumeThreads(t)
    PROVE  STW!Next
<1>1. Collector = t /\ WorldPhase = "done"
  BY CollectorIsUnique DEF ResumeThreads, WindowPcs, StoppedPcs, PhaseAt
<1>2. Collector' = Free /\ WorldPhase' = "none"
  BY CollectorIsUniqueNext DEF ResumeThreads
<1>3. Paused' = Paused /\ m_threads' = m_threads
  BY DEF ResumeThreads, Paused, IInv, TypeOK, HPCs
<1>4. STW!End
  BY <1>1, <1>2, <1>3 DEF STW!End, Paused
<1>. QED  BY <1>4 DEF STW!Next

(* The handler's count halts its thread, and no later than that. *)
LEMMA CountHalts ==
    ASSUME IInv, IInv', NEW t \in Threads, HandlerCount(t)
    PROVE  STW!Next
<1>1. hpc[t] = "entered" /\ ~m_collect_finished
  BY DEF HandlerCount, IInv, Handlers
<1>2. PICK c \in Threads : pc[c] \in WindowPcs
  BY <1>1, CollectorIsUnique
<1>3. t \in m_threads \ {c} /\ t \notin Paused
  BY <1>1, <1>2 DEF IInv, Handlers, Active, Paused
<1>4. pc[c] \in {"fc_unavailable", "fc_suspend", "fc_count"}
  BY <1>1, <1>2, <1>3 DEF IInv, Handlers, WindowPcs
<1>5. pc' = pc /\ m_threads' = m_threads /\ Paused' = Paused \cup {t}
  BY <1>1 DEF HandlerCount, Paused, IInv, TypeOK
<1>6. Collector = c /\ Collector' = c /\ WorldPhase = "stopping" /\ WorldPhase' = "stopping"
  BY <1>2, <1>4, <1>5, CollectorIsUnique, CollectorIsUniqueNext DEF PhaseAt
<1>7. STW!Halt(t)
  BY <1>3, <1>5, <1>6 DEF STW!Halt, Paused
<1>. QED  BY <1>7 DEF STW!Next

(* A thread resumes once the collection is over. *)
LEMMA HandlerResumes ==
    ASSUME IInv, IInv', NEW t \in Threads, HandlerResume(t)
    PROVE  STW!Next
<1>1. m_collect_finished /\ m_collect_finished' = m_collect_finished
  BY DEF HandlerResume
<1>2. Collector = Free /\ UNCHANGED <<Collector, WorldPhase>>
  BY <1>1, CollectorIsUnique, CollectorIsUniqueNext
<1>3. t \in Paused /\ Paused' = Paused \ {t} /\ m_threads' = m_threads
  BY DEF HandlerResume, Paused, IInv, TypeOK
<1>4. STW!Resume(t)
  BY <1>2, <1>3 DEF STW!Resume, Paused
<1>. QED  BY <1>4 DEF STW!Next

-----------------------------------------------------------------------------
(* All other steps are stutters: a call begins outside the window and       *)
(* changes nothing the protocol sees.                                       *)
LEMMA CallStutters ==
    ASSUME IInv, IInv', NEW t \in Threads, CallNext(t)
    PROVE  UNCHANGED STW!vars
<1>1. /\ m_threads' = m_threads /\ m_collect_finished' = m_collect_finished /\ hpc' = hpc
      /\ \A c \in Threads : pc[c] \in WindowPcs => pc'[c] = pc[c]
  BY DEF CallNext, CallRegister, CallUnregister, CallWaitFinalization, CallWaitCollect,
         Allocate, Enable, Disable, CallForceCollect, CallCollect, ClaimCollection,
         WindowPcs, StoppedPcs, IInv, TypeOK
<1>. QED  BY <1>1, Stutter DEF Paused

(* The steps of the kernel but for those above. *)
LEMMA KernelStutters ==
    ASSUME IInv, IInv', NEW t \in Threads, KernelNext(t),
           ~(InitializeCurrentThread(t) \/ DestroyCurrentThread(t)), ~FcReset(t),
           ~(StartClear(t) \/ StartMark(t) \/ StartSweep(t) \/ NotifyAllThreadsResumed(t)),
           ~ResumeThreads(t)
    PROVE  UNCHANGED STW!vars
<1>. USE DEF IInv, TypeOK, WindowPcs, StoppedPcs
<1>1. CASE \/ Wc2Lock(t) \/ Wc2Second(t) \/ Wc2BackOff(t) \/ Wc2Check(t) \/ WfUnlock(t)
           \/ WfWait(t) \/ WfWaitOnly(t) \/ WfTake(t) \/ WfAdd(t) \/ WfThrow(t) \/ WcLock(t)
           \/ WcCheck(t) \/ Allocated(t) \/ FcSpin(t) \/ FcLock(t) \/ FcRest(t) \/ FcBackOff(t)
           \/ FcSettle(t) \/ FcYield(t) \/ FcStartUnlock(t) \/ FcCollectOff(t) \/ FcUnlock(t)
  <2>1. /\ m_threads' = m_threads /\ m_collect_finished' = m_collect_finished /\ hpc' = hpc
        /\ \A c \in Threads : pc[c] \in WindowPcs => pc'[c] = pc[c]
    BY <1>1 DEF Wc2Lock, Wc2Second, Wc2BackOff, Wc2Check, WfUnlock, WfWait, WfWaitOnly, WfTake,
         WfAdd, WfThrow, WcLock, WcCheck, Allocated, FcSpin, FcLock, FcRest, FcBackOff,
         FcSettle, FcYield, FcStartUnlock, FcCollectOff, FcUnlock
  <2>. QED  BY <2>1, Stutter DEF Paused
<1>2. CASE \/ FcUnavailable(t) \/ SuspendThreads(t) \/ FcCount(t) \/ FcRelock(t)
           \/ FcStopped(t) \/ FcOpen(t) \/ FcSetup(t) \/ FcThreadLock(t) \/ FcStartLock(t)
  <2>1. /\ m_threads' = m_threads /\ m_collect_finished' = m_collect_finished /\ hpc' = hpc
        /\ \A c \in Threads \ {t} : pc'[c] = pc[c]
        /\ pc[t] \in WindowPcs /\ pc'[t] \in WindowPcs
        /\ PhaseAt(pc'[t]) = PhaseAt(pc[t])
    BY <1>2 DEF FcUnavailable, SuspendThreads, FcCount, FcRelock, FcStopped, FcOpen, FcSetup,
         FcThreadLock, FcStartLock, PhaseAt
  <2>2. \A c \in Threads : pc[c] \in WindowPcs =>
            pc'[c] \in WindowPcs /\ PhaseAt(pc'[c]) = PhaseAt(pc[c])
    BY <2>1
  <2>3. Paused' = Paused
    BY <2>1 DEF Paused
  <2>. QED  BY <2>1, <2>2, <2>3, Stutter
<1>. QED  BY <1>1, <1>2 DEF KernelNext

(* The steps of the handler but for the count and the resume. *)
LEMMA HandlerStutters ==
    ASSUME IInv, IInv', NEW t \in Threads, HandlerNext(t), ~HandlerCount(t), ~HandlerResume(t)
    PROVE  UNCHANGED STW!vars
<1>1. m_threads' = m_threads /\ m_collect_finished' = m_collect_finished /\ pc' = pc
  BY DEF HandlerNext, DeliverSignal, HandlerGate, HandlerLock, HandlerWait, HandlerReturn
<1>2. Paused' = Paused
  BY DEF HandlerNext, DeliverSignal, HandlerGate, HandlerLock, HandlerWait, HandlerReturn,
       Paused, IInv, TypeOK
<1>. QED  BY <1>1, <1>2, Stutter

(* The gc thread changes nothing the protocol sees. *)
LEMMA GcStutters ==
    ASSUME IInv, IInv', GcNext
    PROVE  UNCHANGED STW!vars
<1>1. /\ m_threads' = m_threads /\ m_collect_finished' = m_collect_finished
      /\ pc' = pc /\ hpc' = hpc
  BY DEF GcNext, GcClear, GcMark, GcSweep, GcAddFreed, GcAddSpecial, GcDestroy, GcStep
<1>. QED  BY <1>1, Stutter DEF Paused

(* Stopping the world is what StopTheWorld says (force_collect,             *)
(* _u_suspend_threads and the handler, for any number of threads): members  *)
(* come and go between collections, a phase begins with all others halted,  *)
(* and a collection begins when all have resumed.                           *)
THEOREM KernelStopsTheWorld == CallersKnown => (Spec => StopsTheWorld)
<1>1. Init => STW!Init
  BY CollectorIsUnique DEF Init, STW!Init, Collector, WorldPhase
<1>2. IInv /\ IInv' /\ [Next]_vars => [STW!Next]_(STW!vars)
  <2>. SUFFICES ASSUME IInv, IInv', [Next]_vars PROVE [STW!Next]_(STW!vars)
    OBVIOUS
  <2>1. CASE GcNext
    BY <2>1, GcStutters
  <2>2. ASSUME NEW t \in Threads, CallNext(t) PROVE UNCHANGED STW!vars
    BY <2>2, CallStutters
  <2>3. ASSUME NEW t \in Threads, KernelNext(t) PROVE [STW!Next]_(STW!vars)
    BY <2>3, KernelStutters, MembersChange, ResetBegins, PhasesStart, ResumeEnds
  <2>4. ASSUME NEW t \in Threads, HandlerNext(t) PROVE [STW!Next]_(STW!vars)
    BY <2>4, HandlerStutters, CountHalts, HandlerResumes
  <2>5. CASE UNCHANGED vars
    <3>1. m_threads' = m_threads /\ m_collect_finished' = m_collect_finished /\ pc' = pc
            /\ hpc' = hpc
      BY <2>5 DEF vars
    <3>. QED  BY <3>1, Stutter DEF Paused
  <2>. QED  BY <2>1, <2>2, <2>3, <2>4, <2>5 DEF Next
<1>. QED  BY <1>1, <1>2, Inductive, PTL DEF Spec, StopsTheWorld, STW!Spec

(* The list of registered threads never changes during a collection ("in    *)
(* particular we can't add threads during collection cycle").               *)
ThreadsFrozen == [][~m_collect_finished => m_threads' = m_threads]_vars

(* It is a consequence: the protocol lets nobody join or leave while there  *)
(* is a collector.                                                          *)
THEOREM MembersStay == CallersKnown => (Spec => ThreadsFrozen)
<1>1. ASSUME IInv, IInv', [STW!Next]_(STW!vars)
      PROVE  [~m_collect_finished => m_threads' = m_threads]_vars
  <2>. SUFFICES ASSUME ~m_collect_finished, m_threads' # m_threads PROVE FALSE
    OBVIOUS
  <2>1. PICK t \in Threads : STW!Join(t) \/ STW!Leave(t)
    BY <1>1 DEF STW!Next, STW!vars, STW!Begin, STW!Halt, STW!Resume, STW!Phase, STW!End
  <2>2. Collector = Free
    BY <2>1 DEF STW!Join, STW!Leave
  <2>3. PICK c \in Threads : pc[c] \in WindowPcs
    BY <1>1, CollectorIsUnique
  <2>. QED  BY <1>1, <2>2, <2>3, CollectorIsUnique
<1>. QED
  BY <1>1, Inductive, KernelStopsTheWorld, PTL DEF StopsTheWorld, STW!Spec, ThreadsFrozen

-----------------------------------------------------------------------------
(* The phases of the gc thread.  GcThread shows that the loop of the gc     *)
(* thread implements PhaseBarrier; the kernel, which sees a phase and no    *)
(* flags, does so too, with the three steps of the finalization as one.     *)

Barrier == INSTANCE PhaseBarrier WITH
    phase <- IF gc \in {"add_freed", "add_special", "destroy"} THEN "finalize" ELSE gc

(* Who moves the gc thread on: itself, or the collector, which resets it    *)
(* and orders a phase.                                                      *)
LEMMA PhaseMoves ==
    ASSUME IInv, Next
    PROVE  \/ gc' = gc
           \/ <<gc, gc'>> \in
                {<<"idle", "reset">>, <<"reset", "clear">>, <<"clear", "cleared">>,
                 <<"cleared", "mark">>, <<"mark", "marked">>, <<"marked", "sweep">>,
                 <<"sweep", "swept">>, <<"swept", "add_freed">>, <<"add_freed", "add_special">>,
                 <<"add_special", "destroy">>, <<"destroy", "idle">>}
<1>1. CASE GcNext
  BY <1>1 DEF GcNext, GcClear, GcMark, GcSweep, GcAddFreed, GcAddSpecial, GcDestroy, GcStep
<1>2. ASSUME NEW t \in Threads, CallNext(t) PROVE gc' = gc
  BY <1>2 DEF CallNext, CallRegister, CallUnregister, CallWaitFinalization, CallWaitCollect,
              Allocate, Enable, Disable, CallForceCollect, CallCollect, ClaimCollection
<1>3. ASSUME NEW t \in Threads, HandlerNext(t) PROVE gc' = gc
  BY <1>3 DEF HandlerNext, DeliverSignal, HandlerCount, HandlerGate, HandlerLock,
              HandlerWait, HandlerResume, HandlerReturn
<1>4. ASSUME NEW t \in Threads, FcSetup(t) PROVE gc = "idle" /\ gc' = "reset"
  BY <1>4 DEF FcSetup, IInv, GcPhase
<1>5. ASSUME NEW t \in Threads,
             StartClear(t) \/ StartMark(t) \/ StartSweep(t) \/ NotifyAllThreadsResumed(t)
      PROVE  <<gc, gc'>> \in {<<"reset", "clear">>, <<"cleared", "mark">>,
                              <<"marked", "sweep">>, <<"swept", "add_freed">>}
  BY <1>5 DEF StartClear, StartMark, StartSweep, NotifyAllThreadsResumed, StartPhase
<1>6. ASSUME NEW t \in Threads, KernelNext(t), ~FcSetup(t),
             ~(StartClear(t) \/ StartMark(t) \/ StartSweep(t) \/ NotifyAllThreadsResumed(t))
      PROVE  gc' = gc
  BY <1>6 DEF KernelNext, Wc2Lock, Wc2Second, Wc2BackOff, Wc2Check, InitializeCurrentThread,
       DestroyCurrentThread, WfUnlock, WfWait, WfWaitOnly, WfTake, WfAdd, WfThrow, WcLock,
       WcCheck, Allocated, FcSpin, FcLock, FcRest, FcBackOff, FcSettle, FcYield, FcReset,
       FcUnavailable, SuspendThreads, FcCount, FcRelock, FcStopped, FcOpen, FcThreadLock,
       FcStartLock, ResumeThreads, FcStartUnlock, FcCollectOff, FcUnlock
<1>. QED  BY <1>1, <1>2, <1>3, <1>4, <1>5, <1>6 DEF Next

(* force_collect and the gc thread go through the phases in the order that  *)
(* GcThread implements with flags and condition variables: the two modules  *)
(* meet in PhaseBarrier.                                                    *)
THEOREM KernelKeepsPhaseOrder == CallersKnown => (Spec => Barrier!Spec)
<1>1. Init => Barrier!Init
  BY DEF Init, Barrier!Init
<1>2. ASSUME IInv, [Next]_vars
      PROVE  [Barrier!Next]_(IF gc \in {"add_freed", "add_special", "destroy"}
                             THEN "finalize" ELSE gc)
  <2>1. CASE Next
    BY <1>2, <2>1, PhaseMoves DEF Barrier!Next, Barrier!Order
  <2>2. CASE UNCHANGED vars
    BY <2>2 DEF vars
  <2>. QED  BY <1>2, <2>1, <2>2
<1>. QED  BY <1>1, <1>2, Inductive, PTL DEF Spec, Barrier!Spec

(* The gc thread may finalize before the world is resumed, but what it has  *)
(* freed is recorded and given back only once it is: the collector has      *)
(* m_mutex until then.                                                      *)
THEOREM FreedAfterResume == CallersKnown => (Spec => []DestroyAfterResume)
<1>. USE DEF DestroyAfterResume
<1>1. Init => DestroyAfterResume
  BY DEF Init
<1>2. ASSUME IInv, DestroyAfterResume, [Next]_vars PROVE DestroyAfterResume'
  <2>1. CASE m_collect_finished' = m_collect_finished /\ gc' = gc
    BY <1>2, <2>1
  <2>2. CASE GcNext
    <3>1. m_collect_finished' = m_collect_finished
      BY <2>2 DEF GcNext, GcClear, GcMark, GcSweep, GcAddFreed, GcAddSpecial, GcDestroy, GcStep
    <3>2. CASE GcAddFreed
      <4>. SUFFICES ASSUME NEW c \in Threads, pc[c] \in WindowPcs PROVE FALSE
        BY <1>2, <3>1 DEF IInv, Window
      <4>1. gc # "idle" /\ owner["mutex"] = Free
        BY <3>2 DEF GcAddFreed, GcStep, IsFree
      <4>2. pc[c] \in {"fc_count", "fc_relock"}
        BY <1>2, <4>1 DEF IInv, LocksHeld, MutexPcs, CollectPCs, WindowPcs, StoppedPcs
      <4>. QED  BY <1>2, <4>1, <4>2 DEF IInv, GcPhase
    <3>. QED
      BY <1>2, <2>2, <3>1, <3>2 DEF GcNext, GcClear, GcMark, GcSweep, GcAddSpecial, GcDestroy,
                                    GcStep
  <2>3. ASSUME NEW t \in Threads, FcReset(t) PROVE gc' = "idle"
    BY <1>2, <2>3 DEF FcReset, IInv, GcPhase
  <2>4. ASSUME NEW t \in Threads,
               \/ FcSetup(t) \/ StartClear(t) \/ StartMark(t) \/ StartSweep(t)
               \/ NotifyAllThreadsResumed(t)
        PROVE  gc' \notin {"add_special", "destroy"}
    BY <2>4 DEF FcSetup, StartClear, StartMark, StartSweep, NotifyAllThreadsResumed, StartPhase
  <2>5. ASSUME NEW t \in Threads, ResumeThreads(t) PROVE m_collect_finished'
    BY <2>5 DEF ResumeThreads
  <2>6. ASSUME NEW t \in Threads, KernelNext(t), ~FcReset(t), ~FcSetup(t), ~ResumeThreads(t),
               ~(StartClear(t) \/ StartMark(t) \/ StartSweep(t) \/ NotifyAllThreadsResumed(t))
        PROVE  m_collect_finished' = m_collect_finished /\ gc' = gc
    BY <2>6 DEF KernelNext, Wc2Lock, Wc2Second, Wc2BackOff, Wc2Check, InitializeCurrentThread,
         DestroyCurrentThread, WfUnlock, WfWait, WfWaitOnly, WfTake, WfAdd, WfThrow, WcLock,
         WcCheck, Allocated, FcSpin, FcLock, FcRest, FcBackOff, FcSettle, FcYield,
         FcUnavailable, SuspendThreads, FcCount, FcRelock, FcStopped, FcOpen, FcThreadLock,
         FcStartLock, FcStartUnlock, FcCollectOff, FcUnlock
  <2>7. ASSUME NEW t \in Threads, CallNext(t) \/ HandlerNext(t)
        PROVE  m_collect_finished' = m_collect_finished /\ gc' = gc
    BY <2>7 DEF CallNext, CallRegister, CallUnregister, CallWaitFinalization, CallWaitCollect,
        Allocate, Enable, Disable, CallForceCollect, CallCollect, ClaimCollection,
        HandlerNext, DeliverSignal, HandlerCount, HandlerGate, HandlerLock, HandlerWait,
        HandlerResume, HandlerReturn
  <2>8. CASE UNCHANGED vars
    BY <2>1, <2>8 DEF vars
  <2>. QED  BY <1>2, <2>1, <2>2, <2>3, <2>4, <2>5, <2>6, <2>7, <2>8 DEF Next
<1>. QED  BY <1>1, <1>2, Inductive, PTL DEF Spec

-----------------------------------------------------------------------------
(* What holds of the threads that the collector stops: they keep no lock    *)
(* that the collection needs, and none of them gets to its condition wait   *)
(* while the allocators are locked.                                         *)

USE FreeAssumption
USE DEF LockInv, AllocatorLocks, StoppedAtSafePoint, UnsafePcs, MutexOnlyPcs, GateClosed,
        HeapPcs, InternalPcs, UnavailablePcs,
        handler, members, flags, counts, Step, HandlerStep, IsFree,
        Lock, Unlock, BothMutexes, Locks, CollectPCs, WindowPcs, MutexPcs, ThreadMutexPcs

(* What the steps below need of IInv: types, the two mutexes, and that the  *)
(* collector and the registered threads are who IInv says.                  *)
LEMMA Known ==
    ASSUME IInv
    PROVE  /\ pc \in [Threads -> PCs] /\ hpc \in [Threads -> HPCs]
           /\ cont \in [Threads -> Conts] /\ tlks \in [Threads -> TlksStates]
           /\ owner \in [Locks -> Threads \cup {Free}]
           /\ pending \subseteq Threads /\ m_threads \subseteq Threads
           /\ LocksHeld
           /\ \A t \in Threads : tlks[t] = "live" <=> t \in m_threads
BY DEF IInv, TypeOK, Registration

-----------------------------------------------------------------------------
(* Calls preserve the invariant: who makes one is not in the handler.       *)
LEMMA CallKeepsLocks ==
    ASSUME IInv, LockInv, NEW t \in Threads, CallNext(t)
    PROVE  LockInv'
<1>. USE Known DEF PCs, HPCs
<1>1. CASE CallRegister(t)
  BY <1>1, SMTT(60) DEF CallRegister
<1>2. CASE CallUnregister(t)
  BY <1>2, SMTT(60) DEF CallUnregister
<1>3. CASE CallWaitFinalization(t)
  BY <1>3, SMTT(60) DEF CallWaitFinalization
<1>4. CASE CallWaitCollect(t)
  BY <1>4, SMTT(60) DEF CallWaitCollect
<1>5. CASE Allocate(t)
  BY <1>5, SMTT(60) DEF Allocate
<1>6. CASE Enable(t)
  BY <1>6, SMTT(60) DEF Enable
<1>7. CASE Disable(t)
  BY <1>7, SMTT(60) DEF Disable
<1>8. CASE CallForceCollect(t)
  BY <1>8, SMTT(60) DEF CallForceCollect, ClaimCollection
<1>9. CASE CallCollect(t)
  BY <1>9, SMTT(60) DEF CallCollect, ClaimCollection
<1>. QED
  BY <1>1, <1>2, <1>3, <1>4, <1>5, <1>6, <1>7, <1>8, <1>9 DEF CallNext

(* So do the steps inside the kernel. *)
LEMMA KernelKeepsLocks ==
    ASSUME IInv, LockInv, NEW t \in Threads, KernelNext(t)
    PROVE  LockInv'
<1>. USE Known DEF PCs, HPCs
<1>1. CASE Wc2Lock(t)
  BY <1>1, SMTT(60) DEF Wc2Lock
<1>2. CASE Wc2Second(t)
  BY <1>2, SMTT(60) DEF Wc2Second
<1>3. CASE Wc2BackOff(t)
  BY <1>3, SMTT(60) DEF Wc2BackOff
<1>4. CASE Wc2Check(t)
  BY <1>4, SMTT(60) DEF Wc2Check, CollectionUnderWay, AfterWc2, Conts
<1>5. CASE InitializeCurrentThread(t)
  BY <1>5, SMTT(60) DEF InitializeCurrentThread
<1>6. CASE DestroyCurrentThread(t)
  BY <1>6, SMTT(60) DEF DestroyCurrentThread
<1>7. CASE WfUnlock(t)
  BY <1>7, SMTT(60) DEF WfUnlock
<1>8. CASE WfWait(t)
  BY <1>8, SMTT(60) DEF WfWait
<1>9. CASE WfWaitOnly(t)
  BY <1>9, SMTT(60) DEF WfWaitOnly
<1>10. CASE WfTake(t)
  BY <1>10, SMTT(60) DEF WfTake
<1>11. CASE WfAdd(t)
  BY <1>11, SMTT(60) DEF WfAdd, AfterWf
<1>12. CASE WcLock(t)
  BY <1>12, SMTT(60) DEF WcLock
<1>13. CASE WcCheck(t)
  BY <1>13, SMTT(60) DEF WcCheck
<1>14. CASE Allocated(t)
  BY <1>14, SMTT(60) DEF Allocated
<1>15. CASE FcSpin(t)
  BY <1>15, SMTT(60) DEF FcSpin
<1>16. CASE FcLock(t)
  BY <1>16, SMTT(60) DEF FcLock
<1>37. CASE FcRest(t)
  BY <1>37, SMTT(60) DEF FcRest, AllLocks
<1>38. CASE FcBackOff(t)
  BY <1>38, SMTT(60) DEF FcBackOff
<1>39. CASE WfThrow(t)
  BY <1>39, SMTT(60) DEF WfThrow
<1>17. CASE FcYield(t)
  BY <1>17, SMTT(60) DEF FcYield
<1>18. CASE FcUnavailable(t)
  BY <1>18, SMTT(60) DEF FcUnavailable
<1>19. CASE SuspendThreads(t)
  BY <1>19, SMTT(60) DEF SuspendThreads
<1>20. CASE FcRelock(t)
  BY <1>20, SMTT(60) DEF FcRelock
<1>21. CASE FcStopped(t)
  BY <1>21, SMTT(60) DEF FcStopped
<1>22. CASE FcOpen(t)
  BY <1>22, SMTT(60) DEF FcOpen
<1>23. CASE FcSetup(t)
  BY <1>23, SMTT(60) DEF FcSetup
<1>24. CASE StartClear(t)
  BY <1>24, SMTT(60) DEF StartClear, StartPhase
<1>25. CASE StartMark(t)
  BY <1>25, SMTT(60) DEF StartMark, StartPhase
<1>26. CASE StartSweep(t)
  BY <1>26, SMTT(60) DEF StartSweep, StartPhase
<1>27. CASE NotifyAllThreadsResumed(t)
  BY <1>27, SMTT(60) DEF NotifyAllThreadsResumed, StartPhase
<1>28. CASE FcThreadLock(t)
  BY <1>28, SMTT(60) DEF FcThreadLock
<1>29. CASE FcStartLock(t)
  BY <1>29, SMTT(60) DEF FcStartLock
<1>30. CASE FcStartUnlock(t)
  BY <1>30, SMTT(60) DEF FcStartUnlock
<1>31. CASE FcUnlock(t)
  BY <1>31, SMTT(60) DEF FcUnlock
<1>32. CASE FcSettle(t)
  BY <1>32, SMTT(60) DEF FcSettle
<1>33. CASE FcReset(t)
  <2>1. \A u \in Threads : hpc[u] = "none"
    BY <1>33 DEF FcReset, IInv, Handlers, Active
  <2>. QED  BY <1>33, <2>1, SMTT(60) DEF FcReset
<1>34. CASE FcCount(t)
  BY <1>34, SMTT(60) DEF FcCount
<1>35. CASE ResumeThreads(t)
  BY <1>35, SMTT(60) DEF ResumeThreads
<1>36. CASE FcCollectOff(t)
  BY <1>36, SMTT(60) DEF FcCollectOff
<1>. QED
  BY <1>1, <1>2, <1>3, <1>4, <1>5, <1>6, <1>7, <1>8, <1>9, <1>10, <1>11, <1>12,
     <1>13, <1>14, <1>15, <1>16, <1>17, <1>18, <1>19, <1>20, <1>21, <1>22, <1>23, <1>24,
     <1>25, <1>26, <1>27, <1>28, <1>29, <1>30, <1>31, <1>32, <1>33, <1>34, <1>35, <1>36,
     <1>37, <1>38, <1>39
  DEF KernelNext

(* A signal arrives while the collector waits for the count, m_mutex being  *)
(* the only lock it has given back: its thread holds none of the others.    *)
LEMMA SignalFindsSafePoint ==
    ASSUME IInv, LockInv, NEW t \in Threads, DeliverSignal(t)
    PROVE  pc[t] \notin UnsafePcs
<1>1. t \in pending /\ ~m_collect_finished /\ hpc[t] = "none"
  BY DEF DeliverSignal, IInv, Handlers
<1>2. PICK c \in Threads : pc[c] \in WindowPcs
  BY <1>1 DEF IInv, Window
<1>3. t \in m_threads \ {c}
  BY <1>1, <1>2 DEF IInv, Handlers, Active
<1>4. pc[c] = "fc_count"
  BY <1>1, <1>2, <1>3 DEF IInv, Handlers, Active, StoppedPcs
<1>5. owner["thread_mutex"] = c /\ owner["heap"] = c /\ owner["internal"] = c
  BY <1>4, Known DEF LocksHeld
<1>6. pc[t] \notin ThreadMutexPcs \cup HeapPcs \cup InternalPcs
  BY <1>3, <1>5, Known DEF LocksHeld
<1>7. pc[t] \notin CollectPCs
  <2>1. pc[t] \notin CollectPCs \ {"fc_unlock"}
    BY <1>2, <1>3, <1>4 DEF IInv, OneCollector, Claimed
  <2>. QED  BY <1>6, <2>1
<1>. QED  BY <1>6, <1>7

(* The steps of the signal handler preserve the invariant. *)
LEMMA HandlerKeepsLocks ==
    ASSUME IInv, LockInv, NEW t \in Threads, HandlerNext(t)
    PROVE  LockInv'
<1>. USE Known DEF PCs, HPCs
<1>1. CASE DeliverSignal(t)
  <2>1. pc[t] \notin UnsafePcs
    BY <1>1, SignalFindsSafePoint
  <2>2. StoppedAtSafePoint'
    BY <1>1, <2>1 DEF DeliverSignal
  <2>. QED  BY <1>1, <2>2, SMTT(60) DEF DeliverSignal
<1>2. CASE HandlerCount(t)
  BY <1>2, SMTT(60) DEF HandlerCount
<1>3. CASE HandlerGate(t)
  <2>1. \A c \in Threads : pc[c] \notin UnavailablePcs
    BY <1>3 DEF HandlerGate, AllocatorsAvailable
  <2>2. \A c \in Threads : pc[c] # "fc_unavailable"
    BY <1>3 DEF HandlerGate, IInv, Handlers, Active
  <2>. QED  BY <1>3, <2>1, <2>2, SMTT(60) DEF HandlerGate
<1>4. CASE HandlerLock(t)
  <2>1. \A c \in Threads : pc[c] \notin {"fc_unavailable"} \cup UnavailablePcs
    BY <1>4 DEF HandlerLock, IInv, Handlers, Window, StoppedPcs
  <2>. QED  BY <1>4, <2>1, SMTT(60) DEF HandlerLock
<1>5. CASE HandlerWait(t)
  BY <1>5, SMTT(60) DEF HandlerWait
<1>6. CASE HandlerResume(t)
  BY <1>6, SMTT(60) DEF HandlerResume
<1>7. CASE HandlerReturn(t)
  BY <1>7, SMTT(60) DEF HandlerReturn
<1>. QED
  BY <1>1, <1>2, <1>3, <1>4, <1>5, <1>6, <1>7 DEF HandlerNext

(* LockInv holds in every reachable state, though double_lock and lock take *)
(* one mutex after the other and a signal may arrive in between.            *)
THEOREM LocksInductive == CallersKnown => (Spec => []LockInv)
<1>. SUFFICES ASSUME CallersKnown PROVE Spec => []LockInv
  OBVIOUS
<1>1. Init => LockInv
  BY DEF Init
<1>2. IInv /\ LockInv /\ [Next]_vars => LockInv'
  <2>. SUFFICES ASSUME IInv, LockInv, [Next]_vars PROVE LockInv'
    OBVIOUS
  <2>1. CASE GcNext
    BY <2>1 DEF GcNext, GcClear, GcMark, GcSweep, GcAddFreed, GcAddSpecial, GcDestroy, GcStep
  <2>2. ASSUME NEW t \in Threads, CallNext(t) PROVE LockInv'
    BY <2>2, CallKeepsLocks
  <2>3. ASSUME NEW t \in Threads, KernelNext(t) PROVE LockInv'
    BY <2>3, KernelKeepsLocks
  <2>4. ASSUME NEW t \in Threads, HandlerNext(t) PROVE LockInv'
    BY <2>4, HandlerKeepsLocks
  <2>5. CASE UNCHANGED vars
    BY <2>5 DEF vars
  <2>. QED  BY <2>1, <2>2, <2>3, <2>4, <2>5 DEF Next
<1>. HIDE DEF LockInv
<1>. QED  BY <1>1, <1>2, Inductive, PTL DEF Spec

-----------------------------------------------------------------------------
(* A stopped thread holds neither m_thread_mutex nor an allocator's mutex,  *)
(* and m_mutex at two program points only (force_collect: the order is      *)
(* there "to prevent deadlocks").                                           *)
THEOREM StoppedHoldAtMostMutex ==
    CallersKnown => (Spec => []SuspendedHoldsAtMostMutex)
<1>1. IInv /\ LockInv => SuspendedHoldsAtMostMutex
  <2>. SUFFICES ASSUME IInv, LockInv PROVE SuspendedHoldsAtMostMutex
    OBVIOUS
  <2>. QED  BY Known DEF SuspendedHoldsAtMostMutex, InHandler, LocksHeld
<1>. QED  BY <1>1, Inductive, LocksInductive, PTL

(* No stopped thread reaches its condition wait, which may allocate, while  *)
(* the collector holds the allocators.                                      *)
THEOREM GateHolds == CallersKnown => (Spec => []GateProtectsAllocators)
<1>1. IInv /\ LockInv => GateProtectsAllocators
  <2>. SUFFICES ASSUME IInv, LockInv, NEW t \in Threads, NEW c \in Threads,
                       hpc[t] \in {"gate", "locked", "waiting"}, ~m_collect_finished,
                       Collecting(c)
                PROVE  owner["heap"] # c /\ owner["internal"] # c
    BY DEF GateProtectsAllocators
  <2>1. PICK d \in Threads : pc[d] \in WindowPcs
    BY DEF IInv, Window
  <2>2. CASE c = d
    BY <2>1, <2>2, Known DEF StoppedPcs
  <2>3. CASE c # d
    <3>1. pc[c] = "fc_unlock"
      BY <2>1, <2>3 DEF IInv, OneCollector, Claimed, Collecting, StoppedPcs
    <3>. QED  BY <3>1, Known
  <2>. QED  BY <2>2, <2>3
<1>. QED  BY <1>1, Inductive, LocksInductive, PTL

-----------------------------------------------------------------------------
(* Everyone in the kernel waits for someone else in two cases only.         *)
(* ProgressInv is shown part by part.                                       *)

(* During a collection no other thread collects or holds both mutexes. *)
LEMMA Alone ==
    ASSUME IInv, NEW c \in Threads, pc[c] \in WindowPcs, NEW u \in Threads, u # c
    PROVE  pc[u] \notin CollectPCs \cup {"wc2_check", "registering", "unregistering",
                                         "wf_unlock"}
<1>1. owner["mutex"] = c \/ owner["thread_mutex"] = c
  BY Known DEF LocksHeld, StoppedPcs
<1>2. pc[u] \notin MutexPcs \cap ThreadMutexPcs
  BY <1>1, Known DEF LocksHeld
<1>3. pc[u] \notin CollectPCs \ {"fc_unlock"}
  BY DEF IInv, OneCollector, Claimed, StoppedPcs
<1>. QED  BY <1>2, <1>3

(* Nobody goes to sleep on a collection that is over, and its end wakes all *)
(* who sleep on it.                                                         *)
LEMMA NoneForgottenKept == ASSUME IInv, NoneForgotten, [Next]_vars PROVE NoneForgotten'
<1>. USE DEF NoneForgotten
<1>0. pc \in [Threads -> PCs] /\ hpc \in [Threads -> HPCs]
  BY Known
<1>1. ASSUME NEW t \in Threads, CallNext(t) PROVE NoneForgotten'
  BY <1>0, <1>1 DEF CallNext, CallRegister, CallUnregister, CallWaitFinalization,
       CallWaitCollect, Allocate, Enable, Disable, CallForceCollect, CallCollect,
       ClaimCollection
<1>2. ASSUME NEW t \in Threads, KernelNext(t) PROVE NoneForgotten'
  <2>1. CASE ResumeThreads(t)
    BY <1>0, <2>1 DEF ResumeThreads
  <2>2. CASE FcReset(t)
    BY <2>2 DEF FcReset
  <2>3. CASE WcCheck(t)
    BY <1>0, <2>3 DEF WcCheck
  <2>4. CASE ~ResumeThreads(t) /\ ~FcReset(t) /\ ~WcCheck(t)
    <3>1. /\ hpc' = hpc /\ m_collect_finished' = m_collect_finished
          /\ pc'[t] # "wc_wait" /\ \A u \in Threads \ {t} : pc'[u] = pc[u]
      BY <1>0, <1>2, <2>4 DEF KernelNext, Wc2Lock, Wc2Second, Wc2BackOff, Wc2Check, AfterWc2,
           Conts, InitializeCurrentThread, DestroyCurrentThread, WfUnlock, WfWait, WfWaitOnly,
           WfTake, WfAdd, WfThrow, AfterWf, WcLock, Allocated, FcSpin, FcLock, FcRest,
           FcBackOff, FcSettle, FcYield, FcUnavailable, SuspendThreads, FcCount, FcRelock,
           FcStopped, FcOpen, FcSetup, StartClear, StartMark, StartSweep,
           NotifyAllThreadsResumed, StartPhase, FcThreadLock, FcStartLock, FcStartUnlock,
           FcCollectOff, FcUnlock, IInv, TypeOK
    <3>. QED  BY <3>1
  <2>. QED  BY <2>1, <2>2, <2>3, <2>4
<1>3. ASSUME NEW t \in Threads, HandlerNext(t) PROVE NoneForgotten'
  BY <1>0, <1>3 DEF HandlerNext, DeliverSignal, HandlerCount, HandlerGate, HandlerLock,
                    HandlerWait, HandlerResume, HandlerReturn
<1>4. CASE GcNext
  BY <1>4 DEF GcNext, GcClear, GcMark, GcSweep, GcAddFreed, GcAddSpecial, GcDestroy, GcStep
<1>5. CASE UNCHANGED vars
  BY <1>5 DEF vars
<1>. QED  BY <1>1, <1>2, <1>3, <1>4, <1>5 DEF Next

(* Nobody begins to wait for a finalization while the world is stopped:     *)
(* that takes both mutexes.                                                 *)
LEMMA NoneFinalizesKept == ASSUME IInv, NoneFinalizes, [Next]_vars PROVE NoneFinalizes'
<1>. DEFINE Waits == {"wf_wait", "wf_take", "wf_add"}
<1>0. pc \in [Threads -> PCs] /\ LocksHeld
  BY Known
<1>1. ASSUME \A u \in Threads : pc'[u] \in WindowPcs \/ pc'[u] \in Waits => pc'[u] = pc[u]
      PROVE  NoneFinalizes'
  BY <1>1 DEF NoneFinalizes, StoppedPcs
<1>2. ASSUME NEW t \in Threads, FcReset(t) PROVE NoneFinalizes'
  <2>1. owner["thread_mutex"] = t /\ \A u \in Threads \ {t} : pc'[u] = pc[u]
    BY <1>0, <1>2 DEF FcReset, LocksHeld
  <2>2. \A u \in Threads : pc'[u] \notin Waits
    BY <1>0, <1>2, <2>1 DEF FcReset, LocksHeld
  <2>. QED  BY <2>2 DEF NoneFinalizes
<1>3. ASSUME NEW t \in Threads, WfUnlock(t) PROVE NoneFinalizes'
  <2>1. pc[t] = "wf_unlock" /\ \A u \in Threads \ {t} : pc'[u] = pc[u]
    BY <1>0, <1>3 DEF WfUnlock
  <2>2. \A u \in Threads : pc[u] \notin WindowPcs
    BY <2>1, Alone DEF StoppedPcs
  <2>3. pc'[t] \notin WindowPcs
    BY <1>0, <1>3 DEF WfUnlock, StoppedPcs
  <2>. QED  BY <2>1, <2>2, <2>3 DEF NoneFinalizes
<1>4. ASSUME NEW t \in Threads, WfWait(t) \/ WfTake(t) PROVE NoneFinalizes'
  <2>1. pc[t] \in Waits /\ pc'[t] \in Waits /\ \A u \in Threads \ {t} : pc'[u] = pc[u]
    BY <1>0, <1>4 DEF WfWait, WfTake
  <2>. HIDE DEF Waits
  <2>2. \A u \in Threads : pc[u] \notin WindowPcs
    BY <2>1 DEF NoneFinalizes, Waits
  <2>3. pc'[t] \notin WindowPcs
    BY <2>1 DEF Waits, StoppedPcs
  <2>. QED  BY <2>1, <2>2, <2>3 DEF NoneFinalizes
<1>5. ASSUME NEW t \in Threads, pc[t] \in WindowPcs, pc'[t] \notin Waits,
             \A u \in Threads \ {t} : pc'[u] = pc[u]
      PROVE  NoneFinalizes'
  <2>1. \A u \in Threads : pc[u] \notin Waits
    BY <1>5 DEF NoneFinalizes
  <2>2. \A u \in Threads : pc'[u] \notin Waits
    BY <1>5, <2>1
  <2>. QED  BY <2>2 DEF NoneFinalizes
<1>6. ASSUME NEW t \in Threads, CallNext(t) PROVE NoneFinalizes'
  BY <1>0, <1>1, <1>6 DEF CallNext, CallRegister, CallUnregister, CallWaitFinalization,
        CallWaitCollect, Allocate, Enable, Disable, CallForceCollect, CallCollect,
        ClaimCollection, StoppedPcs
<1>7. ASSUME NEW t \in Threads,
             \/ Wc2Lock(t) \/ Wc2Second(t) \/ Wc2BackOff(t) \/ Wc2Check(t)
             \/ InitializeCurrentThread(t) \/ DestroyCurrentThread(t) \/ WfWaitOnly(t)
             \/ WfAdd(t) \/ WfThrow(t) \/ WcLock(t) \/ WcCheck(t) \/ Allocated(t) \/ FcSpin(t)
             \/ FcLock(t) \/ FcRest(t) \/ FcBackOff(t) \/ FcSettle(t) \/ FcYield(t)
             \/ ResumeThreads(t) \/ FcStartUnlock(t) \/ FcCollectOff(t) \/ FcUnlock(t)
      PROVE  NoneFinalizes'
  <2>1. \A u \in Threads : pc'[u] \in WindowPcs \/ pc'[u] \in Waits => pc'[u] = pc[u]
    BY <1>0, <1>7 DEF Wc2Lock, Wc2Second, Wc2BackOff, Wc2Check, AfterWc2, Conts,
         InitializeCurrentThread, DestroyCurrentThread, WfWaitOnly, WfAdd, WfThrow, AfterWf,
         WcLock, WcCheck, Allocated, FcSpin, FcLock, FcRest, FcBackOff, FcSettle, FcYield,
         ResumeThreads, FcStartUnlock, FcCollectOff, FcUnlock, StoppedPcs, IInv, TypeOK
  <2>. QED  BY <1>1, <2>1
<1>8. ASSUME NEW t \in Threads,
             \/ FcUnavailable(t) \/ SuspendThreads(t) \/ FcCount(t) \/ FcRelock(t)
             \/ FcStopped(t) \/ FcOpen(t) \/ FcSetup(t) \/ StartClear(t) \/ StartMark(t)
             \/ StartSweep(t) \/ NotifyAllThreadsResumed(t) \/ FcThreadLock(t) \/ FcStartLock(t)
      PROVE  NoneFinalizes'
  <2>1. /\ pc[t] \in WindowPcs /\ pc'[t] \notin Waits
        /\ \A u \in Threads \ {t} : pc'[u] = pc[u]
    BY <1>0, <1>8 DEF FcUnavailable, SuspendThreads, FcCount, FcRelock, FcStopped, FcOpen,
         FcSetup, StartClear, StartMark, StartSweep, NotifyAllThreadsResumed, StartPhase,
         FcThreadLock, FcStartLock, StoppedPcs
  <2>. QED  BY <1>5, <2>1
<1>9. ASSUME pc' = pc PROVE NoneFinalizes'
  BY <1>1, <1>9
<1>10. ASSUME NEW t \in Threads, HandlerNext(t) PROVE pc' = pc
  BY <1>10 DEF HandlerNext, DeliverSignal, HandlerCount, HandlerGate, HandlerLock,
               HandlerWait, HandlerResume, HandlerReturn
<1>11. CASE GcNext
  BY <1>9, <1>11 DEF GcNext, GcClear, GcMark, GcSweep, GcAddFreed, GcAddSpecial, GcDestroy,
       GcStep
<1>12. CASE UNCHANGED vars
  BY <1>9, <1>12 DEF vars
<1>. QED
  BY <1>2, <1>3, <1>4, <1>6, <1>7, <1>8, <1>9, <1>10, <1>11, <1>12 DEF Next, KernelNext

(* The collector orders each phase when the one before it is done, and      *)
(* nobody else moves the gc thread meanwhile.                               *)
LEMMA InPhaseKept == ASSUME IInv, InPhase, [Next]_vars PROVE InPhase'
<1>. DEFINE Phased == {"fc_clear", "fc_clearing", "fc_marking", "fc_sweeping"}
<1>0. pc \in [Threads -> PCs]
  BY Known
<1>1. ASSUME gc' = gc, \A u \in Threads : pc'[u] \in Phased => pc'[u] = pc[u]
      PROVE  InPhase'
  BY <1>1 DEF InPhase
<1>2. CASE GcNext
  BY <1>2 DEF GcNext, GcClear, GcMark, GcSweep, GcAddFreed, GcAddSpecial, GcDestroy, GcStep,
       InPhase
<1>3. ASSUME NEW t \in Threads,
             \/ FcSetup(t) \/ StartClear(t) \/ StartMark(t) \/ StartSweep(t)
             \/ NotifyAllThreadsResumed(t)
      PROVE  InPhase'
  <2>1. /\ pc[t] \in WindowPcs /\ \A u \in Threads \ {t} : pc'[u] = pc[u]
        /\ pc'[t] = "fc_clear" => gc' = "reset"
        /\ pc'[t] = "fc_clearing" => gc' = "clear"
        /\ pc'[t] = "fc_marking" => gc' = "mark"
        /\ pc'[t] = "fc_sweeping" => gc' = "sweep"
    BY <1>0, <1>3 DEF FcSetup, StartClear, StartMark, StartSweep, NotifyAllThreadsResumed,
         StartPhase, StoppedPcs
  <2>2. \A u \in Threads \ {t} : pc'[u] \notin Phased
    BY <2>1, Alone
  <2>. QED  BY <2>1, <2>2 DEF InPhase
<1>4. ASSUME NEW t \in Threads, CallNext(t) PROVE InPhase'
  BY <1>0, <1>1, <1>4 DEF CallNext, CallRegister, CallUnregister, CallWaitFinalization,
       CallWaitCollect, Allocate, Enable, Disable, CallForceCollect, CallCollect,
       ClaimCollection
<1>5. ASSUME NEW t \in Threads, KernelNext(t), ~FcSetup(t),
             ~(StartClear(t) \/ StartMark(t) \/ StartSweep(t) \/ NotifyAllThreadsResumed(t))
      PROVE  InPhase'
  <2>1. gc' = gc /\ \A u \in Threads : pc'[u] \in Phased => pc'[u] = pc[u]
    BY <1>0, <1>5 DEF KernelNext, Wc2Lock, Wc2Second, Wc2BackOff, Wc2Check, AfterWc2, Conts,
         InitializeCurrentThread, DestroyCurrentThread, WfUnlock, WfWait, WfWaitOnly, WfTake,
         WfAdd, WfThrow, AfterWf, WcLock, WcCheck, Allocated, FcSpin, FcLock, FcRest, FcBackOff,
         FcSettle, FcYield, FcReset, FcUnavailable, SuspendThreads, FcCount, FcRelock,
         FcStopped, FcOpen, FcThreadLock, FcStartLock, ResumeThreads, FcStartUnlock,
         FcCollectOff, FcUnlock, IInv, TypeOK
  <2>. QED  BY <1>1, <2>1
<1>6. ASSUME NEW t \in Threads, HandlerNext(t) PROVE pc' = pc /\ gc' = gc
  BY <1>6 DEF HandlerNext, DeliverSignal, HandlerCount, HandlerGate, HandlerLock,
              HandlerWait, HandlerResume, HandlerReturn
<1>7. CASE UNCHANGED vars
  BY <1>1, <1>7 DEF vars
<1>. QED  BY <1>1, <1>2, <1>3, <1>4, <1>5, <1>6, <1>7 DEF Next

(* A signal once sent keeps its thread active until it is resumed. *)
LEMMA SignalledKept == ASSUME IInv, Signalled, [Next]_vars PROVE Signalled'
<1>0. pc \in [Threads -> PCs] /\ hpc \in [Threads -> HPCs] /\ pending \subseteq Threads
        /\ m_threads \subseteq Threads
  BY Known
<1>1. ASSUME \A u \in Threads : pc'[u] = "fc_count" => pc[u] = "fc_count",
             \A u \in Threads : Active(u) => Active(u)', m_threads' = m_threads
      PROVE  Signalled'
  BY <1>0, <1>1 DEF Signalled
<1>2. ASSUME NEW t \in Threads, SuspendThreads(t) PROVE Signalled'
  <2>1. pending' = pending \cup (m_threads \ {t}) /\ m_threads' = m_threads
        /\ pc[t] \in WindowPcs /\ \A u \in Threads \ {t} : pc'[u] = pc[u]
    BY <1>0, <1>2 DEF SuspendThreads
  <2>2. \A u \in Threads \ {t} : pc'[u] # "fc_count"
    BY <2>1, Alone
  <2>. QED  BY <2>1, <2>2 DEF Signalled, Active
<1>3. ASSUME NEW t \in Threads, InitializeCurrentThread(t) \/ DestroyCurrentThread(t)
      PROVE  Signalled'
  <2>1. pc[t] \in {"registering", "unregistering"} /\ pc'[t] = "idle"
        /\ \A u \in Threads \ {t} : pc'[u] = pc[u]
    BY <1>0, <1>3 DEF InitializeCurrentThread, DestroyCurrentThread
  <2>2. \A u \in Threads : pc'[u] # "fc_count"
    BY <2>1, Alone
  <2>. QED  BY <2>2 DEF Signalled
<1>4. ASSUME NEW t \in Threads, CallNext(t) PROVE Signalled'
  BY <1>0, <1>1, <1>4 DEF CallNext, CallRegister, CallUnregister, CallWaitFinalization,
        CallWaitCollect, Allocate, Enable, Disable, CallForceCollect, CallCollect,
        ClaimCollection, Active
<1>5. ASSUME NEW t \in Threads, KernelNext(t), ~SuspendThreads(t),
             ~(InitializeCurrentThread(t) \/ DestroyCurrentThread(t))
      PROVE  Signalled'
  <2>1. /\ \A u \in Threads : pc'[u] = "fc_count" => pc[u] = "fc_count"
        /\ m_threads' = m_threads /\ pending' = pending
        /\ \A u \in Threads : hpc[u] # "none" => hpc'[u] # "none"
    BY <1>0, <1>5 DEF KernelNext, Wc2Lock, Wc2Second, Wc2BackOff, Wc2Check, AfterWc2, Conts,
         WfUnlock, WfWait, WfWaitOnly, WfTake, WfAdd, WfThrow, AfterWf, WcLock, WcCheck,
         Allocated, FcSpin, FcLock, FcRest, FcBackOff, FcSettle, FcYield, FcReset,
         FcUnavailable, FcCount, FcRelock, FcStopped, FcOpen, FcSetup, StartClear, StartMark,
         StartSweep, NotifyAllThreadsResumed, StartPhase, FcThreadLock, FcStartLock,
         ResumeThreads, FcStartUnlock, FcCollectOff, FcUnlock, IInv, TypeOK
  <2>. QED  BY <1>1, <2>1 DEF Active
<1>6. ASSUME NEW t \in Threads, HandlerNext(t) PROVE Signalled'
  <2>1. CASE HandlerReturn(t)
    <3>1. m_collect_finished /\ pc' = pc
      BY <2>1 DEF HandlerReturn, IInv, Handlers
    <3>. QED  BY <3>1 DEF IInv, Window, StoppedPcs, Signalled
  <2>2. CASE ~HandlerReturn(t)
    <3>1. pc' = pc /\ m_threads' = m_threads /\ \A u \in Threads : Active(u) => Active(u)'
      BY <1>0, <1>6, <2>2 DEF HandlerNext, DeliverSignal, HandlerCount, HandlerGate,
           HandlerLock, HandlerWait, HandlerResume, Active
    <3>. QED  BY <1>1, <3>1
  <2>. QED  BY <2>1, <2>2
<1>7. CASE GcNext
  BY <1>1, <1>7 DEF GcNext, GcClear, GcMark, GcSweep, GcAddFreed, GcAddSpecial, GcDestroy,
       GcStep, Active
<1>8. CASE UNCHANGED vars
  BY <1>1, <1>8 DEF vars, Active
<1>. QED  BY <1>2, <1>3, <1>4, <1>5, <1>6, <1>7, <1>8 DEF Next

(* ProgressInv holds in every reachable state.  Among its parts: nobody     *)
(* waits for the end of a collection that is over, and the collector counts *)
(* on threads only that it has signalled.                                   *)
THEOREM ProgressInductive == CallersKnown => (Spec => []ProgressInv)
<1>1. Init => ProgressInv
  BY DEF Init, ProgressInv, Signalled, InPhase, NoneFinalizes, NoneForgotten, StoppedPcs
<1>2. IInv /\ ProgressInv /\ [Next]_vars => ProgressInv'
  BY SignalledKept, InPhaseKept, NoneFinalizesKept, NoneForgottenKept DEF ProgressInv
<1>. QED  BY <1>1, <1>2, Inductive, PTL DEF Spec

Stuck ==
    /\ ~GcMayStep
    /\ \A t \in Threads : ~MayStep(t) /\ ~MayHandle(t)
    /\ ~HeldBehindHandler

(* Who holds one of these locks is not in the handler, unless m_mutex is    *)
(* held behind it; who holds m_start_world_condition_mutex can always go on.*)
LEMMA HoldersRun ==
    ASSUME IInv, LockInv, Stuck
    PROVE  /\ \A u \in Threads :
                  pc[u] \in MutexPcs \cup ThreadMutexPcs \cup HeapPcs \cup InternalPcs
                      \cup WindowPcs => hpc[u] = "none"
           /\ IsFree("start_world")
<1>1. \A u \in Threads :
          pc[u] \in MutexPcs \cup ThreadMutexPcs \cup HeapPcs \cup InternalPcs =>
              hpc[u] = "none"
  BY Known DEF Stuck, HeldBehindHandler, InHandler, LocksHeld, LockInv, StoppedAtSafePoint,
     UnsafePcs
<1>2. \A u \in Threads : pc[u] \in WindowPcs => hpc[u] = "none"
  BY DEF IInv, Handlers, Claimed, Active, StoppedPcs
<1>3. IsFree("start_world")
  <2>. SUFFICES ASSUME ~IsFree("start_world") PROVE FALSE
    OBVIOUS
  <2>1. owner["start_world"] \in Threads
    BY Known
  <2>2. PICK u \in Threads : owner["start_world"] = u
    BY <2>1
  <2>3. CASE hpc[u] \in {"locked", "leaving"}
    BY <2>3 DEF Stuck, MayHandle
  <2>4. CASE pc[u] \in {"fc_settle", "fc_finish", "fc_start_unlock"}
    <3>1. hpc[u] = "none"
      BY <1>1, <1>2, <2>4 DEF StoppedPcs
    <3>. QED  BY <2>4, <3>1 DEF Stuck, MayStep, Needs
  <2>. QED  BY <2>2, <2>3, <2>4, Known DEF LocksHeld
<1>. QED  BY <1>1, <1>2, <1>3

(* While the collector counts, either all have been counted or a thread     *)
(* that was signalled can take its next step to the count.                  *)
LEMMA CountComes ==
    ASSUME IInv, Signalled, NEW c \in Threads, pc[c] = "fc_count",
           \A u \in Threads : ~MayHandle(u)
    PROVE  AllPaused
<1>1. /\ ~m_collect_finished /\ m_num_resumed_threads = 0 /\ c \in m_threads
      /\ m_threads \subseteq Threads
  BY DEF IInv, TypeOK, Window, Registration, Claimed
<1>2. Paused \subseteq m_threads \ {c}
  BY DEF IInv, Handlers, Active, Paused
<1>3. ASSUME NEW u \in m_threads \ {c} PROVE u \in Paused
  <2>1. u \in Threads /\ Active(u)
    BY <1>1 DEF Signalled
  <2>2. hpc[u] \notin {"woken", "leaving"} /\ hpc[u] \in HPCs
    BY <1>1, <2>1, Known DEF IInv, Handlers
  <2>. QED  BY <2>1, <2>2 DEF Active, MayHandle, Paused, HPCs
<1>4. Paused = m_threads \ {c}
  BY <1>2, <1>3
<1>5. IsFiniteSet(m_threads)
  BY <1>1, ThreadsAssumption, FS_Subset
<1>6. Cardinality(m_threads \ {c}) = Cardinality(m_threads) - 1
  BY <1>1, <1>5, FS_RemoveElement
<1>7. m_num_paused_threads = m_num_resumed_threads + Cardinality(Paused)
  BY <1>1 DEF IInv, Counted
<1>8. Cardinality(Paused) \in Nat
  BY PausedFinite, FS_CardinalityType
<1>. QED  BY <1>1, <1>4, <1>6, <1>7, <1>8 DEF AllPaused

(* During a collection the collector, the gc thread or a thread it waits    *)
(* for can take a step.                                                     *)
LEMMA WindowMoves ==
    ASSUME IInv, LockInv, ProgressInv, NEW c \in Threads, pc[c] \in WindowPcs
    PROVE  ~Stuck
<1>. SUFFICES ASSUME Stuck PROVE FALSE
  OBVIOUS
<1>1. hpc[c] = "none" /\ IsFree("start_world") /\ owner \in [Locks -> Threads \cup {Free}]
  BY HoldersRun, Known
<1>2. \A u \in Threads \ {c} :
          pc[u] \notin CollectPCs \cup
              {"wc2_check", "registering", "unregistering", "wf_unlock", "wf_wait", "wf_take",
               "wf_add"}
  BY Alone DEF ProgressInv, NoneFinalizes
<1>3. ~MayStep(c)
  BY DEF Stuck
<1>4. CASE pc[c] = "fc_unavailable"
  <2>1. IsFree("unavailable")
    BY <1>1, <1>2, <1>4
  <2>. QED  BY <1>1, <1>3, <1>4, <2>1 DEF MayStep, Needs
<1>5. CASE pc[c] = "fc_count"
  <2>1. AllPaused
    BY <1>5, CountComes DEF ProgressInv, Stuck
  <2>. QED  BY <1>1, <1>3, <1>5, <2>1 DEF MayStep, Needs
<1>6. CASE pc[c] = "fc_relock"
  <2>1. ASSUME NEW u \in Threads, pc[u] \in {"wc2_second", "wc_check"} PROVE FALSE
    <3>1. hpc[u] = "none"
      BY <2>1, HoldersRun
    <3>. QED  BY <2>1, <3>1 DEF Stuck, MayStep, Needs
  <2>2. IsFree("mutex")
    BY <1>1, <1>2, <1>6, <2>1, Known DEF LocksHeld
  <2>. QED  BY <1>1, <1>3, <1>6, <2>2 DEF MayStep, Needs
<1>7. pc[c] \notin ThreadMutexPcs => IsFree("thread_mutex")
  BY <1>1, <1>2, Known DEF LocksHeld
<1>8. CASE pc[c] \in {"fc_clear", "fc_clearing", "fc_marking", "fc_sweeping"}
  BY <1>1, <1>3, <1>7, <1>8 DEF ProgressInv, InPhase, Stuck, GcMayStep, MayStep, Needs
<1>9. CASE pc[c] \in {"fc_thread_lock", "fc_start_lock"}
  BY <1>1, <1>3, <1>7, <1>9 DEF MayStep, Needs
<1>10. CASE pc[c] \in {"fc_suspend", "fc_stopped", "fc_open", "fc_setup", "fc_finish"}
  BY <1>1, <1>3, <1>10 DEF MayStep, Needs
<1>. QED  BY <1>4, <1>5, <1>6, <1>8, <1>9, <1>10 DEF StoppedPcs

(* Between collections nobody is kept in the handler, every lock comes      *)
(* free, and the finalization ends: who is left spins on an m_collect that  *)
(* nobody will clear.                                                       *)
LEMMA OpenMoves ==
    ASSUME IInv, LockInv, ProgressInv, m_collect_finished, Stuck
    PROVE  \/ gc = "idle" /\ \A t \in Threads : ~Busy(t)
           \/ Abandoned /\ OnlySpinners
<1>1. IsFree("start_world") /\ owner \in [Locks -> Threads \cup {Free}]
  BY HoldersRun, Known
<1>2. \A u \in Threads : pc[u] \notin WindowPcs /\ pc[u] # "wc_wait" /\ pc[u] \in PCs
  BY Known DEF IInv, Window, ProgressInv, NoneForgotten
<1>3. IsFree("unavailable")
  BY <1>1, <1>2 DEF StoppedPcs
<1>4. \A u \in Threads : ~Active(u)
  <2>. SUFFICES ASSUME NEW u \in Threads PROVE ~Active(u)
    OBVIOUS
  <2>1. hpc[u] \in HPCs /\ hpc[u] \notin {"entered", "waiting"} /\ u \notin pending
    BY Known DEF IInv, Handlers, ProgressInv, NoneForgotten
  <2>. QED  BY <1>1, <1>3, <2>1 DEF Stuck, MayHandle, AllocatorsAvailable, Active, HPCs
<1>5. \A u \in Threads : ~MayStep(u) /\ hpc[u] = "none"
  BY <1>4 DEF Stuck, Active
<1>6. \A u \in Threads :
          pc[u] \notin {"al_heap", "al_internal", "wc2_second", "wc2_check", "registering",
                       "unregistering", "wf_unlock", "fc_rest", "wc_check", "fc_settle",
                       "fc_reset", "fc_start_unlock", "fc_collect_off", "fc_unlock"}
  BY <1>5 DEF MayStep, Needs
<1>7. IsFree("internal")
  BY <1>1, <1>2, <1>6 DEF StoppedPcs
<1>8. \A u \in Threads : pc[u] # "fc_yield"
  BY <1>1, <1>5, <1>7 DEF MayStep, Needs
<1>9. IsFree("heap") /\ IsFree("mutex")
  BY <1>1, <1>2, <1>6, <1>8, Known DEF StoppedPcs, LocksHeld
<1>10. gc = "idle"
  <2>1. gc \notin {"reset", "clear", "cleared", "mark", "marked", "sweep", "swept"}
    BY <1>2 DEF IInv, GcPhase, StoppedPcs
  <2>. QED  BY <1>9, <2>1 DEF Stuck, GcMayStep, IInv, TypeOK, GcPhases
<1>11. \A u \in Threads : pc[u] \notin {"wf_wait", "wf_take", "wf_add"}
  BY <1>5, <1>9, <1>10 DEF MayStep, Needs, FinalizationFinished
<1>12. IsFree("thread_mutex")
  BY <1>1, <1>2, <1>6, <1>8, <1>11, Known DEF StoppedPcs, LocksHeld
<1>13. \A u \in Threads : pc[u] \in {"idle", "fc_spin"}
  <2>1. \A u \in Threads : pc[u] \notin {"wc2_lock", "wc_lock", "fc_lock"}
    BY <1>1, <1>5, <1>7, <1>9, <1>12 DEF MayStep, Needs
  <2>. QED  BY <1>2, <1>6, <1>8, <1>11, <2>1 DEF PCs, StoppedPcs
<1>14. OnlySpinners
  BY <1>4, <1>10, <1>13 DEF OnlySpinners, Busy
<1>15. CASE m_collect
  <2>1. \A u \in Threads : ~Claimed(u)
    BY <1>13 DEF Claimed
  <2>. QED  BY <1>14, <1>15, <2>1 DEF Abandoned
<1>16. CASE ~m_collect
  <2>1. \A u \in Threads : pc[u] # "fc_spin"
    BY <1>5, <1>16 DEF MayStep, Needs
  <2>. QED  BY <1>4, <1>10, <1>13, <2>1 DEF Busy
<1>. QED  BY <1>15, <1>16

(* As long as a call, a signal handler or a phase of the gc thread is under *)
(* way, somebody can take a step of it, whatever registered threads call:   *)
(* two things only bring force_collect, the handlers, registration,         *)
(* allocation and finalization to a halt, a thread stopped with m_mutex and *)
(* an m_collect left behind by a finalizer that threw.                      *)
THEOREM KernelHaltsInTwoWays == CallersKnown => (Spec => []NeverStuck)
<1>1. IInv /\ LockInv /\ ProgressInv => NeverStuck
  <2>. SUFFICES ASSUME IInv, LockInv, ProgressInv, Stuck
                PROVE  \/ gc = "idle" /\ \A t \in Threads : ~Busy(t)
                       \/ Abandoned /\ OnlySpinners
    BY DEF NeverStuck, Stuck
  <2>1. m_collect_finished
    BY WindowMoves DEF IInv, Window
  <2>. QED  BY <2>1, OpenMoves
<1>. HIDE DEF LockInv
<1>. QED  BY <1>1, Inductive, LocksInductive, ProgressInductive, PTL
=============================================================================
