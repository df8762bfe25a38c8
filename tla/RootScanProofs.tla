--------------------------- MODULE RootScanProofs ---------------------------
(***************************************************************************)
(* That what the stacks of registered threads point to is kept, for any    *)
(* threads, variables, handles and objects, and any number of collections. *)
(***************************************************************************)
EXTENDS RootScan, SequenceTheorems, TLAPS

(* A handle's call has a handle. *)
CallsOK == \A t \in Threads : op[t].kind = "construct" => op[t].handle \in Handles

(* When there is a collection, whose it is, and who holds m_mutex for it. *)
Phased ==
    /\ phase = "none" => collector = Null /\ stopped = {} /\ m_collect_finished
    /\ phase # "none" => collector \in m_threads /\ ~m_collect_finished
    /\ phase \in {"stopped", "marking"} => m_mutex # Null

(* Who has been stopped, and has a record of its stack as it is. *)
Stopped ==
    /\ stopped \subseteq m_threads \ {collector}
    /\ \A t \in stopped : m_stack_ptr[t] = Len(stack[t])
    /\ phase \in {"stopped", "marking"} =>
        /\ stopped = m_threads \ {collector}
        /\ m_stack_ptr[collector] = Len(stack[collector])

(* The stacks that have been scanned. *)
Scanned ==
    phase = "marking" =>
        /\ m_watched_threads \subseteq m_threads
        /\ \A t \in m_threads \ m_watched_threads : WordsOf(t) \subseteq marked

ScanInv == TypeOK /\ CallsOK /\ Phased /\ Stopped /\ Scanned

-----------------------------------------------------------------------------
(* The program. *)

(* Push and Pop leave a stack of pointers to objects. *)
LEMMA StackSteps ==
    ASSUME TypeOK, NEW t \in Threads
    PROVE  /\ \A w \in Objects : Push(t, w) =>
                /\ stack' \in [Threads -> Seq(Objects)]
                /\ \A u \in Threads : Len(stack'[u]) <= MaxWords
           /\ stack[t] # <<>> /\ stack' = [stack EXCEPT ![t] = SubSeq(@, 1, Len(@) - 1)] =>
                /\ stack' \in [Threads -> Seq(Objects)]
                /\ \A u \in Threads : Len(stack'[u]) <= MaxWords
           /\ WordsOf(t) \subseteq Objects
  <1> DEFINE s == stack[t]
  <1>1. s \in Seq(Objects) /\ Len(s) \in Nat /\ Len(s) <= MaxWords /\ MaxWords \in Nat
    BY LenProperties, MaxWordsAssumption DEF TypeOK
  <1>2. ASSUME NEW w \in Objects, Push(t, w)
        PROVE  /\ stack' \in [Threads -> Seq(Objects)]
               /\ \A u \in Threads : Len(stack'[u]) <= MaxWords
    <2>1. Append(s, w) \in Seq(Objects) /\ Len(Append(s, w)) = Len(s) + 1
      BY <1>1, AppendProperties
    <2>2. Len(Append(s, w)) <= MaxWords
      BY <1>1, <1>2, <2>1 DEF Push
    <2>3. stack' = [stack EXCEPT ![t] = Append(s, w)]
      BY <1>2 DEF Push
    <2>. HIDE DEF s
    <2>. QED  BY <2>1, <2>2, <2>3 DEF TypeOK
  <1>3. ASSUME s # <<>>, stack' = [stack EXCEPT ![t] = SubSeq(@, 1, Len(@) - 1)]
        PROVE  /\ stack' \in [Threads -> Seq(Objects)]
               /\ \A u \in Threads : Len(stack'[u]) <= MaxWords
    <2> DEFINE n == Len(s) - 1
    <2>1. n \in Nat /\ n <= Len(s) /\ Len(s) \in Nat \ {0}
      BY <1>1, <1>3, EmptySeq
    <2>2. \A i \in 1..n : s[i] \in Objects
      BY <1>1, <2>1, ElementOfSeq
    <2>3. stack' = [stack EXCEPT ![t] = SubSeq(s, 1, n)]
      BY <1>3
    <2>4. 1 \in Int /\ n \in Int /\ n - 1 + 1 = n
      BY <2>1
    <2>. HIDE DEF n, s
    <2>5. /\ SubSeq(s, 1, n) \in Seq(Objects)
          /\ Len(SubSeq(s, 1, n)) = IF 1 <= n THEN n - 1 + 1 ELSE 0
      BY <2>2, <2>4, SubSeqProperties
    <2>6. Len(SubSeq(s, 1, n)) <= MaxWords
      BY <1>1, <2>1, <2>4, <2>5
    <2>. QED  BY <2>3, <2>5, <2>6 DEF TypeOK
  <1>4. WordsOf(t) \subseteq Objects
    BY <1>1, ElementOfSeq DEF WordsOf
  <1>. QED  BY <1>2, <1>3, <1>4

(* A thread that works on its stack is not one that has been stopped, and   *)
(* while the gc thread reads no registered thread works.                    *)
LEMMA StackFree ==
    ASSUME ScanInv, NEW t \in Threads, MayUse(t)
    PROVE  /\ phase \notin {"stopped", "marking"}
           /\ t \in m_threads \ (stopped \cup {collector})
  BY DEF ScanInv, Stopped, MayUse, MayCall, Running

(* Steps on a stack preserve the invariant. *)
LEMMA StackPreserves ==
    ASSUME ScanInv, NEW t \in Threads,
           Allocate(t) \/ Pop(t) \/ \E v \in Variables : Load(t, v)
    PROVE  ScanInv'
  <1>1. /\ phase \notin {"stopped", "marking"} /\ t \in m_threads \ (stopped \cup {collector})
        /\ StackOnly
    BY StackFree DEF Allocate, Pop, Load
  <1>2. /\ allocated' \subseteq Objects
        /\ \/ \E w \in Objects : Push(t, w)
           \/ stack[t] # <<>> /\ stack' = [stack EXCEPT ![t] = SubSeq(@, 1, Len(@) - 1)]
    BY DEF Allocate, Pop, Load, ScanInv, TypeOK
  <1>3. /\ stack' \in [Threads -> Seq(Objects)]
        /\ \A u \in Threads : Len(stack'[u]) <= MaxWords
    BY <1>2, StackSteps DEF ScanInv
  <1>4. \A u \in Threads \ {t} : stack'[u] = stack[u]
    BY <1>2 DEF Push, ScanInv, TypeOK
  <1>5. TypeOK' /\ CallsOK'
    BY <1>1, <1>2, <1>3 DEF StackOnly, ScanInv, TypeOK, CallsOK, collecting, variables, handles
  <1>6. Phased'
    BY <1>1 DEF StackOnly, ScanInv, Phased, collecting
  <1>7. Stopped'
    BY <1>1, <1>4 DEF StackOnly, ScanInv, TypeOK, Stopped, collecting
  <1>8. Scanned'
    BY <1>1 DEF StackOnly, Scanned, collecting
  <1>. QED  BY <1>5, <1>6, <1>7, <1>8 DEF ScanInv

(* What is left alone keeps the invariant. *)
LEMMA ProgramPreserves ==
    ASSUME ScanInv, ProgramOnly
    PROVE  Phased' /\ Stopped' /\ Scanned'
  BY DEF ProgramOnly, ScanInv, Phased, Stopped, Scanned, WordsOf, collecting, heap

(* Steps on variables and handles preserve the invariant. *)
LEMMA HandlePreserves ==
    ASSUME ScanInv, NEW t \in Threads,
           HandleNext(t) \/ \E v \in Variables : Store(t, v) \/ Declare(t, v) \/ Leave(t, v)
    PROVE  ScanInv'
  <1>. USE DEF ScanInv, TypeOK, CallsOK, ProgramOnly, Words, HandleOps, RangeOps, NoOp, Op
  <1>. USE DEF collecting, heap, variables, handles
  <1>0. WordsOf(t) \subseteq Objects
    BY StackSteps
  <1>a. ASSUME NEW k \in HandleOps \cup RangeOps, NEW h \in Handles \cup {Null},
               NEW v \in Variables \cup {Null}, k = "construct" => h \in Handles,
               op' = [op EXCEPT ![t] = Op(k, h, v)]
        PROVE  /\ op' \in [Threads -> [kind : {"none"} \cup HandleOps \cup RangeOps,
                                      handle : Handles \cup {Null},
                                      var : Variables \cup {Null}]]
               /\ CallsOK'
    BY <1>a
  <1>1. ASSUME NEW v \in Variables, Store(t, v) \/ Declare(t, v) \/ Leave(t, v)
        PROVE  ProgramOnly /\ TypeOK' /\ CallsOK'
    <2>1. PICK w \in Words : holds' = holds \/ holds' = [holds EXCEPT ![v] = w]
      BY <1>0, <1>1 DEF Store, Declare, Leave
    <2>2. ProgramOnly /\ alive' \subseteq Variables /\ UNCHANGED <<handles, op>>
      BY <1>1 DEF Store, Declare, Leave
    <2>. QED  BY <2>1, <2>2
  <1>2. ASSUME NEW h \in Handles, NEW v \in Variables,
               Construct(t, h, v) \/ ConstructPointer(t, h, v)
        PROVE  ProgramOnly /\ TypeOK' /\ CallsOK'
    <2>1. PICK w \in Words : holds' = holds \/ holds' = [holds EXCEPT ![v] = w]
      BY <1>0, <1>2 DEF Construct, ConstructPointer
    <2>2. /\ ProgramOnly /\ alive' \subseteq Variables /\ made' = made
          /\ m_root' = [m_root EXCEPT ![h] = v]
          /\ op' = [op EXCEPT ![t] = Op("construct", h, v)]
      BY <1>2 DEF Construct, ConstructPointer, Begin
    <2>. QED  BY <2>1, <2>2
  <1>3. ASSUME NEW h \in Handles, Clear(t, h) \/ Destroy(t, h) \/ DestroyPointer(t, h)
        PROVE  ProgramOnly /\ TypeOK' /\ CallsOK'
    <2>1. /\ ProgramOnly /\ UNCHANGED <<alive, holds, m_root>> /\ made' \subseteq Handles
          /\ \/ op' = op
             \/ \E k \in HandleOps \ {"construct"} : op' = [op EXCEPT ![t] = Op(k, h, m_root[h])]
      BY <1>3 DEF Clear, Destroy, DestroyPointer, Begin
    <2>2. m_root[h] \in Variables \cup {Null}
      OBVIOUS
    <2>3. CASE op' = op
      BY <2>1, <2>3
    <2>4. ASSUME NEW k \in HandleOps \ {"construct"}, op' = [op EXCEPT ![t] = Op(k, h, m_root[h])]
          PROVE  ProgramOnly /\ TypeOK' /\ CallsOK'
      <3>1. op' \in [Threads -> [kind : {"none"} \cup HandleOps \cup RangeOps,
                                handle : Handles \cup {Null}, var : Variables \cup {Null}]]
            /\ CallsOK'
        BY <1>a, <2>2, <2>4
      <3>. QED  BY <2>1, <3>1
    <2>. QED  BY <2>1, <2>3, <2>4
  <1>4. ASSUME NEW g \in Handles, NEW h \in Handles, Move(t, g, h)
        PROVE  ProgramOnly /\ TypeOK' /\ CallsOK'
    BY <1>4 DEF Move
  <1>5. ASSUME NEW v \in Variables, AddRange(t, v) \/ RemoveRange(t, v)
        PROVE  ProgramOnly /\ TypeOK' /\ CallsOK'
    <2>1. ProgramOnly /\ UNCHANGED <<alive, holds, made, m_root>>
      BY <1>5 DEF AddRange, RemoveRange, Begin
    <2>2. PICK k \in RangeOps : op' = [op EXCEPT ![t] = Op(k, Null, v)]
      BY <1>5 DEF AddRange, RemoveRange, Begin
    <2>3. op' \in [Threads -> [kind : {"none"} \cup HandleOps \cup RangeOps,
                              handle : Handles \cup {Null}, var : Variables \cup {Null}]]
          /\ CallsOK'
      BY <1>a, <2>2
    <2>. QED  BY <2>1, <2>3
  <1>6. CASE AddRootReturns(t) \/ RemoveRootReturns(t) \/ RangeReturns(t)
    <2>1. ProgramOnly /\ op' = [op EXCEPT ![t] = NoOp]
      BY <1>6 DEF AddRootReturns, RemoveRootReturns, RangeReturns, Returns
    <2>2. UNCHANGED holds /\ alive' \subseteq Variables /\ made' \subseteq Handles
            /\ m_root' \in [Handles -> Variables \cup {Null}]
      BY <1>6 DEF AddRootReturns, RemoveRootReturns, RangeReturns, Returns
    <2>. QED  BY <2>1, <2>2, ProgramPreserves
  <1>. QED
    BY <1>1, <1>2, <1>3, <1>4, <1>5, <1>6, ProgramPreserves DEF HandleNext

(* Threads come and go between collections. *)
LEMMA MemberPreserves ==
    ASSUME ScanInv, NEW t \in Threads, Register(t) \/ Unregister(t)
    PROVE  ScanInv'
  <1>. USE DEF ScanInv, Register, Unregister, CollectionLock
  <1>. USE DEF collecting, heap, variables, handles
  <1>1. phase = "none" /\ phase' = "none"
    BY DEF Phased
  <1>2. TypeOK' /\ CallsOK'
    BY DEF TypeOK, CallsOK
  <1>. QED  BY <1>1, <1>2 DEF Phased, Stopped, Scanned

-----------------------------------------------------------------------------
(* A collection preserves the invariant. *)
LEMMA CollectPreserves ==
    ASSUME ScanInv, CollectNext
    PROVE  ScanInv'
  <1>. USE DEF CollectorOnly
  <1>. USE DEF collecting, heap, variables, handles
  <1>1. \A t \in Threads : Len(stack[t]) \in 0 .. MaxWords /\ WordsOf(t) \subseteq Objects
    BY StackSteps, LenProperties, MaxWordsAssumption DEF ScanInv, TypeOK
  <1>2. CallsOK'
    BY DEF CollectNext, ForceCollect, Stop, HandleThread, AllStopped, SetupGcThreads, Finish,
           ScanInv, CallsOK
  <1>3. ASSUME NEW t \in Threads, ForceCollect(t) PROVE ScanInv'
    <2>1. TypeOK'
      BY <1>3 DEF ForceCollect, ScanInv, TypeOK, Phases
    <2>. QED
      BY <1>2, <1>3, <2>1 DEF ForceCollect, MayUse, ScanInv, Phased, Stopped, Scanned
  <1>4. ASSUME NEW t \in Threads, Stop(t) PROVE ScanInv'
    <2>1. TypeOK'
      BY <1>1, <1>4 DEF Stop, Record, ScanInv, TypeOK
    <2>. QED
      BY <1>2, <1>4, <2>1
      DEF Stop, Record, ScanInv, TypeOK, Phased, Stopped, Scanned
  <1>5. CASE AllStopped
    <2>1. collector \in m_threads /\ collector \in Threads /\ collector # Null
      BY <1>5, NullAssumption DEF AllStopped, ScanInv, TypeOK, Phased
    <2>2. TypeOK'
      BY <1>1, <1>5, <2>1 DEF AllStopped, Record, ScanInv, TypeOK, Phases
    <2>. QED
      BY <1>2, <1>5, <2>1, <2>2
      DEF AllStopped, Record, ScanInv, TypeOK, Phased, Stopped, Scanned
  <1>6. CASE SetupGcThreads
    <2>1. TypeOK'
      BY <1>6 DEF SetupGcThreads, ScanInv, TypeOK, Phases
    <2>. QED
      BY <1>2, <1>6, <2>1 DEF SetupGcThreads, ScanInv, Phased, Stopped, Scanned
  <1>7. ASSUME NEW t \in Threads, HandleThread(t) PROVE ScanInv'
    <2> DEFINE read == {stack[t][i] : i \in 1 .. m_stack_ptr[t]}
    <2>1. m_stack_ptr[t] = Len(stack[t])
      BY <1>7 DEF HandleThread, ScanInv, Stopped, Scanned
    <2>2. read = WordsOf(t)
      BY <2>1 DEF WordsOf
    <2>. HIDE DEF read
    <2>3. TypeOK'
      BY <1>1, <1>7, <2>2 DEF HandleThread, ScanInv, TypeOK, read
    <2>4. \A u : WordsOf(u)' = WordsOf(u)
      BY <1>7 DEF HandleThread, WordsOf
    <2>5. Scanned'
      BY <1>7, <2>2, <2>4 DEF HandleThread, ScanInv, Scanned, read
    <2>. QED
      BY <1>2, <1>7, <2>3, <2>5 DEF HandleThread, ScanInv, Phased, Stopped
  <1>8. CASE Finish
    <2>1. TypeOK'
      BY <1>8 DEF Finish, ScanInv, TypeOK, Phases
    <2>. QED
      BY <1>2, <1>8, <2>1 DEF Finish, ScanInv, Phased, Stopped, Scanned
  <1>. QED  BY <1>3, <1>4, <1>5, <1>6, <1>7, <1>8 DEF CollectNext

-----------------------------------------------------------------------------
(* The invariant holds in every reachable state, for any set of threads:    *)
(* who is stopped during a collection, and which stacks have been scanned.  *)
THEOREM ScanInvariant == Spec => []ScanInv
  <1>1. Init => ScanInv
    BY EmptySeq, MaxWordsAssumption
    DEF Init, ScanInv, TypeOK, CallsOK, Phased, Stopped, Scanned, Phases, Words, NoOp
  <1>2. ScanInv /\ [Next]_vars => ScanInv'
    <2>. SUFFICES ASSUME ScanInv, [Next]_vars PROVE ScanInv'
      OBVIOUS
    <2>1. CASE CollectNext
      BY <2>1, CollectPreserves
    <2>2. ASSUME NEW t \in Threads, UseNext(t) PROVE ScanInv'
      BY <2>2, StackPreserves, HandlePreserves, MemberPreserves DEF UseNext
    <2>3. ASSUME NEW t \in Threads, HandleNext(t) PROVE ScanInv'
      BY <2>3, HandlePreserves
    <2>4. CASE UNCHANGED vars
      BY <2>4 DEF vars, collecting, heap, variables, handles, ScanInv, TypeOK, CallsOK, Phased,
                  Stopped, Scanned, WordsOf
    <2>. QED  BY <2>1, <2>2, <2>3, <2>4 DEF Next
  <1>. QED  BY <1>1, <1>2, PTL DEF Spec

(* The state of threads, handles and stacks stays well typed. *)
THEOREM TypeCorrect == Spec => []TypeOK
  <1>1. ScanInv => TypeOK
    BY DEF ScanInv
  <1>. QED  BY <1>1, ScanInvariant, PTL

(* While the gc thread reads stacks, each recorded stack pointer covers the *)
(* whole stack (set_stack_ptr in the handler and in _u_suspend_threads).    *)
THEOREM StacksAreCovered == Spec => []StacksCovered
  <1>1. ScanInv => StacksCovered
    BY DEF ScanInv, Stopped, StacksCovered
  <1>. QED  BY <1>1, ScanInvariant, PTL

(* No collection takes an object that the stack of a registered thread      *)
(* points to: scan_stack, the records of the signal handler and the locks   *)
(* of registration do their work together.                                  *)
THEOREM StackedObjectsAreKept == Spec => StackedIsKept
  <1> DEFINE Kept == \A t \in m_threads : WordsOf(t) \cap allocated \subseteq allocated'
  <1>1. ScanInv /\ [Next]_vars => [Kept]_vars
    <2>. SUFFICES ASSUME ScanInv, Next PROVE Kept
      OBVIOUS
    <2>1. CASE Finish
      <3>1. \A t \in m_threads : WordsOf(t) \subseteq marked
        BY <2>1 DEF Finish, ScanInv, Scanned
      <3>. QED  BY <2>1, <3>1 DEF Finish
    <2>2. CASE ~Finish
      <3>1. ASSUME CollectNext PROVE allocated \subseteq allocated'
        BY <2>2, <3>1 DEF CollectNext, ForceCollect, Stop, HandleThread, AllStopped,
                          SetupGcThreads, heap
      <3>2. ASSUME NEW t \in Threads, UseNext(t) PROVE allocated \subseteq allocated'
        <4>1. ASSUME Register(t) \/ Unregister(t) PROVE allocated' = allocated
          BY <4>1 DEF Register, Unregister, heap
        <4>2. ASSUME Allocate(t) \/ Pop(t) PROVE allocated \subseteq allocated'
          BY <4>2 DEF Allocate, Pop
        <4>3. ASSUME NEW v \in Variables,
                     Load(t, v) \/ Store(t, v) \/ Declare(t, v) \/ Leave(t, v)
              PROVE  allocated' = allocated
          BY <4>3 DEF Load, Store, Declare, Leave, ProgramOnly, heap
        <4>. QED  BY <3>2, <4>1, <4>2, <4>3 DEF UseNext
      <3>3. ASSUME NEW t \in Threads, HandleNext(t) PROVE allocated' = allocated
        <4>1. ASSUME NEW h \in Handles, NEW v \in Variables,
                     Construct(t, h, v) \/ ConstructPointer(t, h, v)
              PROVE  allocated' = allocated
          BY <4>1 DEF Construct, ConstructPointer, Begin, ProgramOnly, heap
        <4>2. ASSUME NEW h \in Handles, Clear(t, h) \/ Destroy(t, h) \/ DestroyPointer(t, h)
              PROVE  allocated' = allocated
          BY <4>2 DEF Clear, Destroy, DestroyPointer, Begin, ProgramOnly, heap
        <4>3. ASSUME NEW g \in Handles, NEW h \in Handles, Move(t, g, h)
              PROVE  allocated' = allocated
          BY <4>3 DEF Move, ProgramOnly, heap
        <4>4. ASSUME NEW v \in Variables, AddRange(t, v) \/ RemoveRange(t, v)
              PROVE  allocated' = allocated
          BY <4>4 DEF AddRange, RemoveRange, Begin, ProgramOnly, heap
        <4>5. ASSUME AddRootReturns(t) \/ RemoveRootReturns(t) \/ RangeReturns(t)
              PROVE  allocated' = allocated
          BY <4>5 DEF AddRootReturns, RemoveRootReturns, RangeReturns, Returns, ProgramOnly,
                      heap
        <4>. QED  BY <3>3, <4>1, <4>2, <4>3, <4>4, <4>5 DEF HandleNext
      <3>4. allocated \subseteq allocated'
        BY <3>1, <3>2, <3>3 DEF Next
      <3>. QED  BY <3>4
    <2>. QED  BY <2>1, <2>2
  <1>. QED  BY <1>1, ScanInvariant, PTL DEF Spec, StackedIsKept
=============================================================================
