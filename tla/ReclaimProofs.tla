--------------------------- MODULE ReclaimProofs ---------------------------
(***************************************************************************)
(* For any set of slots: nothing but a slot that was reused too early is   *)
(* ever reclaimed while the program holds it, and whatever was neither     *)
(* reused so nor on a list given up to an exception keeps the promise of   *)
(* ObjectLife.                                                             *)
(***************************************************************************)
EXTENDS Reclaim, TLAPS

----------------------------------------------------------------------------
(* The initial state has nothing in use. *)
LEMMA InitIInv == Init => IInv
BY DEF Init, IInv, TypeOK, Records, Default, Pending

(* No operation of the program disturbs the invariant. *)
LEMMA ProgramKeepsIInv ==
    ASSUME IInv, Program
    PROVE  IInv'
<1> USE DEF IInv, programVars, gcVars, finVars, kernelLists, heapVars, past, Pending
<1>1. PICK o \in Objects :
          \/ Allocate(o) \/ Drop(o) \/ Free(o) \/ AddRoot(o) \/ RemoveRoot(o)
          \/ \E b \in BOOLEAN : RegisterFinalizer(o, b) \/ SetUncollectable(o, b)
  BY DEF Program
<1>2. CASE Allocate(o)
  <2>1. TypeOK'
    BY <1>2 DEF Allocate, TypeOK, Default, Records
  <2>2. o \notin m_to_be_freed
    BY <1>2 DEF Allocate
  <2>3. \A p \in m_to_be_freed' : ~user_data'[p].m_uncollectable
    BY <1>2, <2>2 DEF Allocate, TypeOK
  <2>4. QED
    BY <1>2, <2>1, <2>2, <2>3 DEF Allocate
<1>3. CASE Drop(o)
  BY <1>3 DEF Drop, TypeOK
<1>4. CASE Free(o)
  BY <1>4 DEF Free, TypeOK
<1>5. CASE AddRoot(o)
  BY <1>5 DEF AddRoot, TypeOK
<1>6. CASE RemoveRoot(o)
  BY <1>6 DEF RemoveRoot, TypeOK
<1>7. ASSUME NEW b \in BOOLEAN, RegisterFinalizer(o, b)
      PROVE  IInv'
  <2>1. user_data' \in [Objects -> Records]
    <3>1. user_data[o] \in Records
      BY DEF TypeOK
    <3>2. OwnRecord(o) \in Records
      BY <3>1 DEF OwnRecord, Records
    <3> DEFINE arb == IF user_data[o].is_default THEN b ELSE OwnRecord(o).arbitrary
               new == [OwnRecord(o) EXCEPT !.m_finalizer = TRUE, !.arbitrary = arb]
    <3>3. arb \in BOOLEAN
      BY <3>2 DEF Records
    <3>4. new \in Records
      BY <3>2, <3>3 DEF Records
    <3>5. user_data' = [user_data EXCEPT ![o] = new]
      BY <1>7 DEF RegisterFinalizer
    <3> HIDE DEF new
    <3>6. QED
      BY <3>4, <3>5 DEF TypeOK
  <2>2. \A p \in Objects : user_data'[p].is_default => user_data'[p] = Default
    BY <1>7 DEF RegisterFinalizer, OwnRecord, TypeOK, Records
  <2>3. \A p \in m_to_be_freed : user_data'[p] = user_data[p]
    BY <1>7 DEF RegisterFinalizer, TypeOK
  <2>4. QED
    BY <1>7, <2>1, <2>2, <2>3 DEF RegisterFinalizer, TypeOK
<1>8. ASSUME NEW b \in BOOLEAN, SetUncollectable(o, b)
      PROVE  IInv'
  <2>1. user_data' \in [Objects -> Records]
    <3>1. user_data[o] \in Records
      BY DEF TypeOK
    <3>2. OwnRecord(o) \in Records
      BY <3>1 DEF OwnRecord, Records
    <3> DEFINE new == [OwnRecord(o) EXCEPT !.m_uncollectable = b]
    <3>3. new \in Records
      BY <3>2 DEF Records
    <3>4. user_data' = [user_data EXCEPT ![o] = new]
      BY <1>8 DEF SetUncollectable
    <3> HIDE DEF new
    <3>5. QED
      BY <3>3, <3>4 DEF TypeOK
  <2>2. \A p \in Objects : user_data'[p].is_default => user_data'[p] = Default
    BY <1>8 DEF SetUncollectable, OwnRecord, TypeOK, Records
  <2>3. \A p \in m_to_be_freed : user_data'[p] = user_data[p]
    BY <1>8 DEF SetUncollectable, TypeOK
  <2>4. QED
    BY <1>8, <2>1, <2>2, <2>3 DEF SetUncollectable, TypeOK
<1>9. QED
  BY <1>1, <1>2, <1>3, <1>4, <1>5, <1>6, <1>7, <1>8

(* A collection takes only what is not held. *)
LEMMA CollectKeepsIInv ==
    ASSUME IInv, Collect
    PROVE  IInv'
<1> USE DEF IInv, programVars, finVars, past, Pending
<1>1. m_to_be_freed = {}
  BY DEF Collect, TypeOK
<1>2. m_to_be_freed' = ToBeFreed /\ rest' = ToBeFreed
  BY <1>1 DEF Collect
<1>3. TypeOK'
  BY <1>1, <1>2 DEF Collect, TypeOK, ToBeFreed, Unmarked
<1>4. /\ held' \ reused' \subseteq in_use'
      /\ m_to_be_freed' \subseteq in_use'
      /\ held' \cap m_to_be_freed' = {}
  BY <1>2 DEF Collect, ToBeFreed, QuasiFreed, Unmarked, Marked
<1>5. \A o \in m_to_be_freed' : ~user_data'[o].m_uncollectable
  BY <1>2 DEF Collect, ToBeFreed
<1>6. /\ held' \cap Pending' \subseteq reused'
      /\ Pending' \cap in_use' \subseteq m_to_be_freed' \cup reused'
      /\ abandoned' \cap (in_use' \cup Pending' \cup reused') = {}
  BY <1>1 DEF Collect
<1>7. QED
  BY <1>3, <1>4, <1>5, <1>6 DEF Collect

(* Deleting a record makes it the shared one, which is collectable. *)
LEMMA DeletedRecord ==
    ASSUME TypeOK, NEW o \in Objects, DeleteRecord(o)
    PROVE  /\ user_data' \in [Objects -> Records]
           /\ \A p \in Objects : user_data'[p].is_default => user_data'[p] = Default
           /\ \A p \in Objects : user_data'[p].m_uncollectable => user_data[p].m_uncollectable
BY DEF DeleteRecord, TypeOK, Records, Default

(* The gc thread destroys what the sweep gave it and nothing else. *)
LEMMA GcThreadKeepsIInv ==
    ASSUME IInv, GcThread
    PROVE  IInv'
<1> USE DEF IInv, programVars, finVars, kernelLists, heapVars, past, Pending
<1>1. CASE Finalize
  <2>1. PICK o \in rest :
            /\ rest' = rest \ {o}
            /\ FinalizeHere(o) \/ LeaveToUserThread(o)
    BY <1>1 DEF Finalize
  <2>2. o \in Objects /\ o \in m_to_be_freed
    BY <2>1 DEF TypeOK
  <2>3. CASE FinalizeHere(o)
    <3>1. /\ user_data' \in [Objects -> Records]
          /\ \A p \in Objects : user_data'[p].is_default => user_data'[p] = Default
          /\ \A p \in Objects : user_data'[p].m_uncollectable => user_data[p].m_uncollectable
      BY <2>2, <2>3, DeletedRecord DEF FinalizeHere
    <3>2. TypeOK'
      BY <1>1, <2>1, <2>2, <2>3, <3>1 DEF Finalize, FinalizeHere, TypeOK
    <3>3. QED
      BY <1>1, <2>3, <3>1, <3>2 DEF Finalize, FinalizeHere, TypeOK
  <2>4. CASE LeaveToUserThread(o)
    <3>1. TypeOK'
      BY <1>1, <2>1, <2>2, <2>4 DEF Finalize, LeaveToUserThread, TypeOK
    <3>2. QED
      BY <1>1, <2>2, <2>4, <3>1 DEF Finalize, LeaveToUserThread
  <2>5. QED
    BY <2>1, <2>3, <2>4
<1>2. CASE AddFreed
  BY <1>2 DEF AddFreed, TypeOK
<1>3. CASE AddNeedSpecial
  <2>1. TypeOK'
    BY <1>3 DEF AddNeedSpecial, TypeOK
  <2>2. Pending' = Pending
    BY <1>3 DEF AddNeedSpecial
  <2>3. QED
    BY <1>3, <2>1, <2>2 DEF AddNeedSpecial
<1>4. CASE BulkDestroy
  <2>1. TypeOK'
    BY <1>4 DEF BulkDestroy, TypeOK
  <2>2. Pending' \subseteq Pending
    BY <1>4 DEF BulkDestroy
  <2>3. QED
    BY <1>4, <2>1, <2>2 DEF BulkDestroy
<1>5. CASE Terminate
  BY <1>5 DEF Terminate, TypeOK
<1>6. QED
  BY <1>1, <1>2, <1>3, <1>4, <1>5 DEF GcThread

(* A user thread destroys only slots that are destroyed already, or reused. *)
LEMMA UserThreadKeepsIInv ==
    ASSUME IInv, UserThread
    PROVE  IInv'
<1> USE DEF IInv, programVars, gcVars, kernelLists, heapVars, past, Pending
<1>1. CASE TakeSpecial
  <2>1. TypeOK'
    BY <1>1 DEF TakeSpecial, TypeOK
  <2>2. Pending' \subseteq Pending
    BY <1>1 DEF TakeSpecial
  <2>3. QED
    BY <1>1, <2>1, <2>2 DEF TakeSpecial
<1>2. CASE LocalFinalize
  <2>1. PICK o \in vec_rest :
            /\ vec_rest' = vec_rest \ {o}
            /\ finalized' = IF user_data[o].m_finalizer THEN finalized \cup {o} ELSE finalized
            /\ DeleteRecord(o)
            /\ fin_freed' = fin_freed \cup {o}
    BY <1>2 DEF LocalFinalize
  <2>2. o \in Objects
    BY <2>1 DEF TypeOK
  <2>3. /\ user_data' \in [Objects -> Records]
        /\ \A p \in Objects : user_data'[p].is_default => user_data'[p] = Default
        /\ \A p \in Objects : user_data'[p].m_uncollectable => user_data[p].m_uncollectable
    BY <2>1, <2>2, DeletedRecord
  <2>4. TypeOK'
    BY <1>2, <2>1, <2>2, <2>3 DEF LocalFinalize, TypeOK
  <2>5. QED
    BY <1>2, <2>3, <2>4 DEF LocalFinalize, TypeOK
<1>3. CASE LocalDestroy
  <2>1. m_to_be_freed = {}
    BY <1>3 DEF LocalDestroy, TypeOK
  <2>2. TypeOK'
    BY <1>3 DEF LocalDestroy, TypeOK
  <2>3. held \cap vec \subseteq reused
    OBVIOUS
  <2>4. QED
    BY <1>3, <2>1, <2>2, <2>3 DEF LocalDestroy
<1>4. CASE LocalAddFreed
  BY <1>4 DEF LocalAddFreed, TypeOK
<1>5. CASE LocalThrow
  <2>1. TypeOK'
    BY <1>5 DEF LocalThrow, TypeOK
  <2>2. Pending' \subseteq Pending /\ special = {} /\ m_need_special_finalizing_collection = {}
    BY <1>5 DEF LocalThrow, TypeOK
  <2>3. m_to_be_freed = {}
    BY <1>5 DEF LocalThrow, TypeOK
  <2>4. abandoned' \cap (in_use' \cup Pending' \cup reused') = {}
    BY <1>5, <2>2, <2>3 DEF LocalThrow
  <2>5. QED
    BY <1>5, <2>1, <2>2, <2>4 DEF LocalThrow
<1>6. QED
  BY <1>1, <1>2, <1>3, <1>4, <1>5 DEF UserThread

(* The invariant holds in every behaviour. *)
THEOREM Inductive == Spec => []IInv
<1>1. Init => IInv
  BY InitIInv
<1>2. IInv /\ [Next]_vars => IInv'
  <2>1. ASSUME IInv, UNCHANGED vars
        PROVE  IInv'
    BY <2>1 DEF IInv, TypeOK, Pending, vars, programVars, gcVars, finVars, kernelLists, heapVars, past
  <2>2. QED
    BY <2>1, ProgramKeepsIInv, CollectKeepsIInv, GcThreadKeepsIInv, UserThreadKeepsIInv DEF Next
<1>3. QED
  BY <1>1, <1>2, PTL DEF Spec

(* Every list holds objects, and only while its owner is at work. *)
THEOREM TypeCorrect == Spec => []TypeOK
<1>1. IInv => TypeOK
  BY DEF IInv
<1>2. QED
  BY <1>1, Inductive, PTL

(* What the program holds is never reclaimed, but in a slot that was        *)
(* reused too early.                                                        *)
THEOREM HeldObjectsSurvive == Spec => []HeldSurvive
<1>1. IInv => HeldSurvive
  BY DEF IInv, HeldSurvive
<1>2. QED
  BY <1>1, Inductive, PTL

(* No step but the program's own cgc_free takes an uncollectable object. *)
LEMMA UncollectableStep ==
    ASSUME IInv, Next, NEW o \in in_use \ reused, user_data[o].m_uncollectable,
           o \notin in_use'
    PROVE  o \in held
<1> USE DEF IInv, TypeOK, heapVars, past, Pending
<1>1. CASE Program
  BY <1>1 DEF Program, Allocate, Drop, Free, AddRoot, RemoveRoot, RegisterFinalizer,
              SetUncollectable
<1>2. CASE Collect
  <2>1. o \in QuasiFreed
    BY <1>2 DEF Collect
  <2>2. user_data[o] = Default
    BY <2>1 DEF QuasiFreed, Unmarked
  <2>3. QED
    BY <2>2 DEF Default
<1>3. CASE GcThread
  BY <1>3 DEF GcThread, Finalize, Terminate, AddFreed, AddNeedSpecial, BulkDestroy
<1>4. CASE UserThread
  BY <1>4 DEF UserThread, TakeSpecial, LocalFinalize, LocalThrow, LocalDestroy,
                    LocalAddFreed
<1>5. QED
  BY <1>1, <1>2, <1>3, <1>4 DEF Next

(* An uncollectable object leaves the heap only by the program's hand, or   *)
(* because its slot was reused too early.                                   *)
THEOREM UncollectableIsKept == Spec => UncollectableKept
<1> DEFINE Kept == \A o \in in_use \ reused :
                       user_data[o].m_uncollectable /\ o \notin in_use' => o \in held
<1>1. IInv /\ [Next]_vars => [Kept]_vars
  BY UncollectableStep
<1>2. QED
  BY <1>1, Inductive, PTL DEF Spec, UncollectableKept

----------------------------------------------------------------------------
(* Refinement.  What one object's own record does not concern. *)
LEMMA OthersKeepRecord ==
    ASSUME TypeOK, NEW o \in Objects, DeleteRecord(o)
    PROVE  /\ ~user_data'[o].m_finalizer
           /\ \A p \in Objects \ {o} : user_data'[p] = user_data[p]
BY DEF DeleteRecord, TypeOK, Default

(* The record an operation of the program leaves. *)
LEMMA ProgramRecords ==
    ASSUME TypeOK, NEW o \in Objects, NEW b \in BOOLEAN
    PROVE  /\ RegisterFinalizer(o, b) =>
                  /\ user_data'[o].m_finalizer
                  /\ \A p \in Objects \ {o} : user_data'[p] = user_data[p]
           /\ SetUncollectable(o, b) =>
                  \A p \in Objects : user_data'[p].m_finalizer = user_data[p].m_finalizer
<1> USE DEF TypeOK, Records, OwnRecord
<1>1. OwnRecord(o) \in Records /\ OwnRecord(o).m_finalizer = user_data[o].m_finalizer
  OBVIOUS
<1>2. ASSUME RegisterFinalizer(o, b)
      PROVE  /\ user_data'[o].m_finalizer
             /\ \A p \in Objects \ {o} : user_data'[p] = user_data[p]
  BY <1>2 DEF RegisterFinalizer
<1>3. ASSUME SetUncollectable(o, b)
      PROVE  \A p \in Objects : user_data'[p].m_finalizer = user_data[p].m_finalizer
  BY <1>3 DEF SetUncollectable
<1>4. QED
  BY <1>2, <1>3

(* The part of the invariant about finalizers is kept by every step. *)
LEMMA NextKeepsLifeInv ==
    ASSUME IInv, LifeInv, Next
    PROVE  LifeInv'
<1> USE DEF IInv, LifeInv, TypeOK, programVars, gcVars, finVars, kernelLists, heapVars, past, Pending
<1>1. ASSUME NEW o \in Objects, Allocate(o)
      PROVE  LifeInv'
  <2>1. /\ ~user_data'[o].m_finalizer
        /\ \A p \in Objects \ {o} : user_data'[p] = user_data[p]
    BY <1>1 DEF Allocate, Default
  <2>2. /\ o \notin m_to_be_freed /\ (o \in Pending => o \in reused') /\ o \notin finalized'
        /\ reused \subseteq reused'
    BY <1>1 DEF Allocate
  <2>3. \A p \in in_use' \ reused' : p \in finalized' => p \in m_to_be_freed'
    BY <1>1, <2>2 DEF Allocate
  <2>4. /\ \A p \in m_to_be_freed' : user_data'[p].m_finalizer => p \in rest' \cup special'
        /\ \A p \in vec' \ reused' : user_data'[p].m_finalizer => p \in vec_rest'
    BY <1>1, <2>1, <2>2 DEF Allocate
  <2>5. \A p \in (in_use' \cup Pending') \ reused' :
            user_data'[p].m_finalizer => p \notin finalized'
    BY <1>1, <2>1, <2>2 DEF Allocate
  <2>6. gc' = "destroy" => special' \subseteq m_need_special_finalizing_collection'
    BY <1>1 DEF Allocate
  <2>. HIDE DEF IInv, TypeOK, Pending
  <2>7. QED
    BY <2>3, <2>4, <2>5, <2>6
<1>2. ASSUME NEW o \in Objects, Drop(o) \/ Free(o) \/ AddRoot(o) \/ RemoveRoot(o)
      PROVE  LifeInv'
  BY <1>2 DEF Drop, Free, AddRoot, RemoveRoot
<1>3. ASSUME NEW o \in Objects, NEW b \in BOOLEAN, RegisterFinalizer(o, b)
      PROVE  LifeInv'
  <2>1. \A p \in Objects \ {o} : user_data'[p] = user_data[p]
    BY <1>3, ProgramRecords
  <2>2. o \notin m_to_be_freed /\ (o \in reused \/ o \in in_use \ Pending)
    BY <1>3 DEF RegisterFinalizer
  <2>3. \A p \in in_use' \ reused' : p \in finalized' => p \in m_to_be_freed'
    BY <1>3 DEF RegisterFinalizer
  <2>4. /\ \A p \in m_to_be_freed' : user_data'[p].m_finalizer => p \in rest' \cup special'
        /\ \A p \in vec' \ reused' : user_data'[p].m_finalizer => p \in vec_rest'
    BY <1>3, <2>1, <2>2 DEF RegisterFinalizer
  <2>5. \A p \in (in_use' \cup Pending') \ reused' :
            user_data'[p].m_finalizer => p \notin finalized'
    BY <1>3, <2>1, <2>2 DEF RegisterFinalizer
  <2>6. gc' = "destroy" => special' \subseteq m_need_special_finalizing_collection'
    BY <1>3 DEF RegisterFinalizer
  <2>. HIDE DEF IInv, TypeOK, Pending
  <2>7. QED
    BY <2>3, <2>4, <2>5, <2>6
<1>4. ASSUME NEW o \in Objects, NEW b \in BOOLEAN, SetUncollectable(o, b)
      PROVE  LifeInv'
  <2>1. \A p \in Objects : user_data'[p].m_finalizer = user_data[p].m_finalizer
    BY <1>4, ProgramRecords
  <2>2. QED
    BY <1>4, <2>1 DEF SetUncollectable
<1>5. CASE Collect
  BY <1>5 DEF Collect
<1>6. CASE Finalize
  <2>1. PICK o \in rest :
            /\ rest' = rest \ {o}
            /\ FinalizeHere(o) \/ LeaveToUserThread(o)
    BY <1>6 DEF Finalize
  <2>2. o \in Objects /\ o \in m_to_be_freed
    BY <2>1
  <2>3. CASE FinalizeHere(o)
    <3>1. /\ ~user_data'[o].m_finalizer
          /\ \A p \in Objects \ {o} : user_data'[p] = user_data[p]
      BY <2>2, <2>3, OthersKeepRecord DEF FinalizeHere
    <3>2. QED
      BY <1>6, <2>1, <2>2, <2>3, <3>1 DEF Finalize, FinalizeHere
  <2>4. CASE LeaveToUserThread(o)
    BY <1>6, <2>1, <2>2, <2>4 DEF Finalize, LeaveToUserThread
  <2>5. QED
    BY <2>1, <2>3, <2>4
<1>7. CASE AddFreed \/ AddNeedSpecial \/ Terminate
  BY <1>7 DEF AddFreed, AddNeedSpecial, Terminate
<1>8. CASE BulkDestroy
  BY <1>8 DEF BulkDestroy
<1>9. CASE TakeSpecial
  BY <1>9 DEF TakeSpecial
<1>10. CASE LocalFinalize
  <2>1. PICK o \in vec_rest :
            /\ vec_rest' = vec_rest \ {o}
            /\ finalized' = IF user_data[o].m_finalizer THEN finalized \cup {o} ELSE finalized
            /\ DeleteRecord(o)
    BY <1>10 DEF LocalFinalize
  <2>2. o \in Objects /\ o \notin in_use \ reused
    BY <1>10, <2>1 DEF LocalFinalize
  <2>3. /\ ~user_data'[o].m_finalizer
        /\ \A p \in Objects \ {o} : user_data'[p] = user_data[p]
    BY <2>1, <2>2, OthersKeepRecord
  <2>4. QED
    BY <1>10, <2>1, <2>2, <2>3 DEF LocalFinalize
<1>11. CASE LocalDestroy \/ LocalAddFreed \/ LocalThrow
  BY <1>11 DEF LocalDestroy, LocalAddFreed, LocalThrow
<1>12. QED
  BY <1>1, <1>2, <1>3, <1>4, <1>5, <1>6, <1>7, <1>8, <1>9, <1>10, <1>11
     DEF Next, Program, GcThread, UserThread

(* The stage of an object, and whether its finalizer is wanted, read off    *)
(* the lists.                                                              *)
Doomed == m_to_be_freed \cup Pending

Reach == held \ reused

Wanting == {o \in (in_use \cup Pending) \ reused : user_data[o].m_finalizer}

StageOf == [o \in Objects |-> LifeOf(o)]

(* Neither reused too early nor given up. *)
Sound == Objects \ (reused \cup abandoned)

(* The stage of an object by the lists it is on. *)
LEMMA StageCases ==
    ASSUME NEW o \in Sound
    PROVE  /\ o \in Doomed /\ o \in finalized => StageOf[o] = "finalized"
           /\ o \in Doomed /\ o \notin finalized => StageOf[o] = "condemned"
           /\ o \notin Doomed /\ o \in in_use => StageOf[o] = "live"
           /\ o \notin Doomed /\ o \notin in_use => StageOf[o] = "free"
BY DEF StageOf, LifeOf, Doomed, Sound

(* A step leaves the stage of o alone. *)
StageKept(o) ==
    /\ o \in reused' <=> o \in reused
    /\ o \in abandoned' <=> o \in abandoned
    /\ o \in Sound =>
        /\ o \in Doomed' <=> o \in Doomed
        /\ o \in Doomed \/ (o \in in_use' <=> o \in in_use)
        /\ o \in Doomed => (o \in finalized' <=> o \in finalized)

(* An operation that leaves the lists, the slots and what has run alone     *)
(* leaves every stage alone.                                               *)
LEMMA SameStages ==
    ASSUME \A o \in Objects : StageKept(o)
    PROVE  StageOf' = StageOf
BY DEF StageOf, LifeOf, Doomed, Sound, StageKept

(* The same for all objects but one. *)
LEMMA OneStage ==
    ASSUME NEW x \in Objects, NEW s, LifeOf(x)' = s,
           \A o \in Objects \ {x} : StageKept(o)
    PROVE  StageOf' = [o \in Objects |-> IF o \in {x} THEN s ELSE StageOf[o]]
BY DEF StageOf, LifeOf, Doomed, Sound, StageKept

(* A step of ObjectLife that frees S. *)
LEMMA ReclaimStep ==
    ASSUME NEW S, S \subseteq {o \in Objects : StageOf[o] \in {"condemned", "finalized"}} \ Wanting,
           StageOf' = [o \in Objects |-> IF o \in S THEN "free" ELSE StageOf[o]],
           Wanting' = Wanting, Reach' = Reach
    PROVE  Life!Reclaim
<1>1. S \in SUBSET ((Life!In("condemned") \cup Life!In("finalized")) \ Wanting)
  BY DEF Life!In, StageOf
<1>2. Life!Become(S, "free")
  BY DEF Life!Become, StageOf
<1>3. QED
  BY <1>1, <1>2 DEF Life!Reclaim, Wanting, Reach

(* A step of ObjectLife that condemns S and frees F at once. *)
LEMMA CollectStep ==
    ASSUME NEW S, S \subseteq {o \in Objects : StageOf[o] = "live"} \ Reach,
           NEW F, F \subseteq S \ Wanting,
           StageOf' = [o \in Objects |-> IF o \in F THEN "free"
                                         ELSE IF o \in S THEN "condemned" ELSE StageOf[o]],
           Wanting' = Wanting, Reach' = Reach
    PROVE  Life!Collect
<1>1. S \in SUBSET (Life!In("live") \ Reach)
  BY DEF Life!In, StageOf
<1>2. F \in SUBSET (S \ Wanting)
  OBVIOUS
<1>3. [o \in Objects |-> LifeOf(o)]' =
          [o \in Objects |-> IF o \in F THEN "free" ELSE IF o \in S THEN "condemned"
                             ELSE [p \in Objects |-> LifeOf(p)][o]]
  BY DEF StageOf
<1>4. QED
  BY <1>1, <1>2, <1>3 DEF Life!Collect, Wanting, Reach

(* The initial states agree. *)
LEMMA InitMaps == Init => Life!Init
BY DEF Init, Life!Init, LifeOf, Pending, Default

(* What happens to a slot that was reused too early does not show. *)
LEMMA ReusedIsHidden ==
    ASSUME IInv, NEW o \in reused, NEW b \in BOOLEAN,
           Allocate(o) \/ Free(o) \/ RegisterFinalizer(o, b)
    PROVE  UNCHANGED Life!vars
<1> USE DEF IInv, TypeOK, programVars, gcVars, finVars, kernelLists, heapVars, past, Pending, Doomed
<1>0. o \in Objects /\ o \notin abandoned
  OBVIOUS
<1>1. \A p \in Objects : StageKept(p)
  BY <1>0 DEF Allocate, Free, RegisterFinalizer, StageKept, Sound
<1>2. StageOf' = StageOf
  BY <1>1, SameStages
<1>3. \A p \in Objects \ {o} : user_data'[p] = user_data[p]
  BY <1>0 DEF Allocate, Free, RegisterFinalizer
<1>4. Wanting' = Wanting
  BY <1>3 DEF Allocate, Free, RegisterFinalizer, Wanting
<1>5. Reach' = Reach
  BY DEF Allocate, Free, RegisterFinalizer, Reach
<1>6. QED
  BY <1>2, <1>4, <1>5 DEF Life!vars, StageOf, Wanting, Reach

(* Every operation of the program is one of ObjectLife, or a stutter. *)
LEMMA ProgramMaps ==
    ASSUME IInv, LifeInv, Program
    PROVE  [Life!SparseNext]_(Life!vars)
<1> USE DEF IInv, TypeOK, programVars, gcVars, finVars, kernelLists, heapVars, past, Pending, Doomed
<1>0. StageOf = [o \in Objects |-> LifeOf(o)] /\ StageOf' = [o \in Objects |-> LifeOf(o)']
  BY DEF StageOf
<1>1. ASSUME NEW o \in Objects \ reused, o \notin Pending, Allocate(o)
      PROVE  Life!Allocate(o)
  <2>1. StageOf[o] \in {"free", "abandoned"}
    BY <1>1 DEF Allocate, StageOf, LifeOf
  <2>2. LifeOf(o)' = "live"
    BY <1>1 DEF Allocate, LifeOf
  <2>3. \A p \in Objects \ {o} : StageKept(p)
    BY <1>1 DEF Allocate, StageKept, Sound
  <2>4. StageOf' = [p \in Objects |-> IF p \in {o} THEN "live" ELSE StageOf[p]]
    BY <2>2, <2>3, OneStage
  <2>5. ~user_data'[o].m_finalizer /\ \A p \in Objects \ {o} : user_data'[p] = user_data[p]
    BY <1>1 DEF Allocate, Default
  <2>6. Wanting' = Wanting /\ Reach' = Reach \cup {o}
    BY <1>1, <2>5 DEF Allocate, Wanting, Reach
  <2>7. QED
    BY <1>0, <2>1, <2>4, <2>6 DEF Life!Allocate, Life!Become, Wanting, Reach
<1>2. ASSUME NEW o \in Objects \ reused, o \in Pending, Allocate(o)
      PROVE  Life!Reuse(o)
  <2>1. StageOf[o] \in {"condemned", "finalized"}
    BY <1>2 DEF Allocate, StageOf, LifeOf
  <2>2. LifeOf(o)' = "reused"
    BY <1>2 DEF Allocate, LifeOf
  <2>3. \A p \in Objects \ {o} : StageKept(p)
    BY <1>2 DEF Allocate, StageKept, Sound
  <2>4. StageOf' = [p \in Objects |-> IF p \in {o} THEN "reused" ELSE StageOf[p]]
    BY <2>2, <2>3, OneStage
  <2>5. \A p \in Objects \ {o} : user_data'[p] = user_data[p]
    BY <1>2 DEF Allocate
  <2>6. Wanting' = Wanting \ {o} /\ Reach' = Reach
    BY <1>2, <2>5 DEF Allocate, Wanting, Reach
  <2>7. QED
    BY <1>0, <2>1, <2>4, <2>6 DEF Life!Reuse, Life!Become, Wanting, Reach
<1>3. ASSUME NEW o \in Objects, Drop(o)
      PROVE  Life!Lose(o)
  <2>1. \A p \in Objects : StageKept(p)
    BY <1>3 DEF Drop, StageKept
  <2>2. StageOf' = StageOf /\ Wanting' = Wanting /\ Reach' = Reach \ {o}
    BY <1>3, <2>1, SameStages DEF Drop, Wanting, Reach
  <2>3. QED
    BY <1>0, <2>2 DEF Life!Lose, Wanting, Reach
<1>4. ASSUME NEW o \in Objects \ reused, Free(o)
      PROVE  Life!Release(o)
  <2>1. LifeOf(o)' = "free"
    BY <1>4 DEF Free, LifeOf
  <2>2. \A p \in Objects \ {o} : StageKept(p)
    BY <1>4 DEF Free, StageKept, Sound
  <2>3. StageOf' = [p \in Objects |-> IF p \in {o} THEN "free" ELSE StageOf[p]]
    BY <2>1, <2>2, OneStage
  <2>4. Wanting' = Wanting \ {o} /\ Reach' = Reach \ {o} /\ o \in Reach
    BY <1>4 DEF Free, Wanting, Reach
  <2>5. QED
    BY <1>0, <2>3, <2>4 DEF Life!Release, Life!Become, Wanting, Reach
<1>5. ASSUME NEW o \in Objects, NEW b \in BOOLEAN,
             AddRoot(o) \/ RemoveRoot(o) \/ SetUncollectable(o, b)
      PROVE  UNCHANGED Life!vars
  <2>1. \A p \in Objects : user_data'[p].m_finalizer = user_data[p].m_finalizer
    BY <1>5, ProgramRecords DEF AddRoot, RemoveRoot
  <2>2. \A p \in Objects : StageKept(p)
    BY <1>5 DEF AddRoot, RemoveRoot, SetUncollectable, StageKept
  <2>3. StageOf' = StageOf /\ Wanting' = Wanting /\ Reach' = Reach
    BY <1>5, <2>1, <2>2, SameStages DEF AddRoot, RemoveRoot, SetUncollectable, Wanting, Reach
  <2>4. QED
    BY <1>0, <2>3 DEF Life!vars, Wanting, Reach
<1>6. ASSUME NEW o \in Objects \ reused, NEW b \in BOOLEAN, RegisterFinalizer(o, b)
      PROVE  Life!Want(o)
  <2>1. user_data'[o].m_finalizer /\ \A p \in Objects \ {o} : user_data'[p] = user_data[p]
    BY <1>6, ProgramRecords
  <2>2. \A p \in Objects : StageKept(p)
    BY <1>6 DEF RegisterFinalizer, StageKept
  <2>3. StageOf' = StageOf /\ Reach' = Reach /\ o \in Reach
    BY <1>6, <2>2, SameStages DEF RegisterFinalizer, Reach
  <2>4. Wanting' = Wanting \cup {o}
    BY <1>6, <2>1 DEF RegisterFinalizer, Wanting
  <2>5. QED
    BY <1>0, <2>3, <2>4 DEF Life!Want, Wanting, Reach
<1>7. QED
  BY <1>1, <1>2, <1>3, <1>4, <1>5, <1>6, ReusedIsHidden
     DEF Program, Life!SparseNext, Life!Next

(* A collection condemns what is lost, and frees at once what has no        *)
(* finalizer.                                                              *)
LEMMA CollectMaps ==
    ASSUME IInv, LifeInv, Collect
    PROVE  Life!Collect
<1> USE DEF IInv, TypeOK, programVars, finVars, past, Pending, Doomed
<1>0. StageOf = [o \in Objects |-> LifeOf(o)] /\ StageOf' = [o \in Objects |-> LifeOf(o)']
  BY DEF StageOf
<1>1. m_to_be_freed = {} /\ m_to_be_freed' = ToBeFreed /\ special = {}
  BY DEF Collect
<1>2. \A o \in Unmarked : o \notin abandoned /\ o \notin Reach /\ (o \in Doomed => o \in reused)
  BY <1>1 DEF Unmarked, Marked, Reach
<1> DEFINE F == QuasiFreed \ reused
           T == ToBeFreed \ reused
           S == F \cup T
<1>3. S \subseteq Unmarked \ reused /\ F \cap T = {}
  BY DEF QuasiFreed, ToBeFreed
<1>4. S \subseteq {o \in Objects : StageOf[o] = "live"} \ Reach
  BY <1>2, <1>3, StageCases DEF Unmarked, Sound
<1>5. F \subseteq S \ Wanting
  BY DEF QuasiFreed, Wanting, Unmarked, Default
<1>6. \A o \in Objects : o \in Doomed' <=> o \in Doomed \/ o \in ToBeFreed
  BY <1>1 DEF Collect
<1>7. \A o \in F : LifeOf(o)' = "free"
  BY <1>1, <1>2, <1>3, <1>6 DEF Collect, LifeOf
<1>8. \A o \in T : LifeOf(o)' = "condemned"
  BY <1>1, <1>2, <1>3 DEF Collect, LifeOf, LifeInv, Unmarked
<1>9. \A o \in Objects \ S : LifeOf(o)' = LifeOf(o)
  BY <1>1 DEF Collect, LifeOf
<1>10. StageOf' = [o \in Objects |-> IF o \in F THEN "free"
                                     ELSE IF o \in S THEN "condemned" ELSE StageOf[o]]
  BY <1>0, <1>3, <1>7, <1>8, <1>9
<1>11. Wanting' = Wanting
  <2>1. \A o \in QuasiFreed : ~user_data[o].m_finalizer
    BY DEF QuasiFreed, Unmarked, Default
  <2>2. QED
    BY <1>1, <2>1 DEF Collect, Wanting
<1>12. Reach' = Reach
  BY DEF Collect, Reach
<1>13. QED
  <2> HIDE DEF S, F, T, IInv, TypeOK, Pending, Doomed
  <2>1. QED
    BY <1>4, <1>5, <1>10, <1>11, <1>12, CollectStep

(* A turn of a finalization loop: the finalizer of o, if it has one, runs   *)
(* and its record goes.                                                     *)
LEMMA FinalizeMaps ==
    ASSUME TypeOK, IInv, LifeInv, NEW o \in Doomed, DeleteRecord(o),
           finalized' = IF user_data[o].m_finalizer THEN finalized \cup {o} ELSE finalized,
           Doomed' = Doomed, Pending' = Pending,
           UNCHANGED <<in_use, held, reused, abandoned>>
    PROVE  [Life!SparseNext]_(Life!vars)
<1> USE DEF IInv, TypeOK
<1>0. StageOf = [p \in Objects |-> LifeOf(p)] /\ StageOf' = [p \in Objects |-> LifeOf(p)']
  BY DEF StageOf
<1>1. o \in Objects
  BY DEF Doomed, Pending
<1>2. ~user_data'[o].m_finalizer /\ \A p \in Objects \ {o} : user_data'[p] = user_data[p]
  BY <1>1, OthersKeepRecord
<1>3. Reach' = Reach
  BY DEF Reach
<1>4. CASE user_data[o].m_finalizer /\ o \notin reused
  <2>1. o \in Wanting /\ o \notin finalized
    BY <1>4 DEF Wanting, LifeInv, Doomed
  <2>2. StageOf[o] = "condemned"
    BY <1>1, <1>4, <2>1, StageCases DEF Sound, Doomed
  <2>3. LifeOf(o)' = "finalized"
    BY <1>4 DEF LifeOf, Doomed
  <2>4. \A p \in Objects \ {o} : StageKept(p)
    BY <1>4 DEF StageKept
  <2>5. StageOf' = [p \in Objects |-> IF p \in {o} THEN "finalized" ELSE StageOf[p]]
    BY <1>1, <2>3, <2>4, OneStage
  <2>6. Wanting' = Wanting \ {o}
    BY <1>2 DEF Wanting, Pending
  <2>7. Life!Finalize(o)
    BY <1>0, <1>3, <2>1, <2>2, <2>5, <2>6 DEF Life!Finalize, Life!Become, Wanting, Reach
  <2>8. QED
    BY <1>1, <2>7 DEF Life!SparseNext, Life!Next
<1>5. CASE ~user_data[o].m_finalizer \/ o \in reused
  <2>1. \A p \in Objects : StageKept(p)
    BY <1>5 DEF StageKept, Sound
  <2>2. StageOf' = StageOf
    BY <2>1, SameStages
  <2>3. Wanting' = Wanting
    BY <1>2, <1>5 DEF Wanting, Pending
  <2>4. QED
    BY <1>0, <1>3, <2>2, <2>3 DEF Life!vars, Wanting, Reach
<1>6. QED
  BY <1>4, <1>5

(* A step that has to do with no object's stage, record or hold. *)
LEMMA Hidden ==
    ASSUME UNCHANGED <<heapVars, held>>, Doomed' = Doomed, Pending' = Pending
    PROVE  UNCHANGED Life!vars
<1> USE DEF heapVars, past
<1>1. StageOf' = StageOf
  BY SameStages DEF StageKept
<1>2. Wanting' = Wanting /\ Reach' = Reach
  BY DEF Wanting, Reach
<1>3. QED
  BY <1>1, <1>2 DEF Life!vars, StageOf, Wanting, Reach

(* The gc thread finalizes what is condemned, and gives back what has no   *)
(* finalizer any more.                                                     *)
LEMMA GcThreadMaps ==
    ASSUME IInv, LifeInv, GcThread
    PROVE  [Life!SparseNext]_(Life!vars)
<1> USE DEF IInv, TypeOK, programVars, finVars, kernelLists, heapVars, past, Pending, Doomed
<1>0. StageOf = [o \in Objects |-> LifeOf(o)] /\ StageOf' = [o \in Objects |-> LifeOf(o)']
  BY DEF StageOf
<1>1. CASE Finalize
  <2>1. PICK o \in rest :
            /\ rest' = rest \ {o}
            /\ FinalizeHere(o) \/ LeaveToUserThread(o)
    BY <1>1 DEF Finalize
  <2>2. o \in m_to_be_freed /\ o \in in_use
    BY <2>1
  <2>3. CASE FinalizeHere(o)
    <3>1. /\ finalized' = IF user_data[o].m_finalizer THEN finalized \cup {o} ELSE finalized
          /\ DeleteRecord(o)
      BY <2>3 DEF FinalizeHere, RunsHere, Restricted
    <3>2. Doomed' = Doomed /\ Pending' = Pending /\ UNCHANGED <<in_use, held, reused, abandoned>>
      BY <1>1, <2>3 DEF Finalize, FinalizeHere
    <3>3. QED
      BY <2>2, <3>1, <3>2, FinalizeMaps
  <2>4. CASE LeaveToUserThread(o)
    <3>1. \A p \in Objects : StageKept(p)
      BY <1>1, <2>2, <2>4 DEF Finalize, LeaveToUserThread, StageKept
    <3>2. StageOf' = StageOf /\ Wanting' = Wanting /\ Reach' = Reach
      BY <1>1, <2>2, <2>4, <3>1, SameStages DEF Finalize, LeaveToUserThread, Wanting, Reach
    <3>3. QED
      BY <1>0, <3>2 DEF Life!vars, Wanting, Reach
  <2>5. QED
    BY <2>1, <2>3, <2>4
<1>2. CASE AddFreed \/ AddNeedSpecial \/ Terminate
  <2>1. Doomed' = Doomed /\ Pending' = Pending /\ UNCHANGED <<heapVars, held>>
    BY <1>2 DEF AddFreed, AddNeedSpecial, Terminate
  <2>2. QED
    BY <2>1, Hidden
<1>3. CASE BulkDestroy
  <2> DEFINE S == m_to_be_freed \ (Pending \cup reused)
  <2>1. Pending' = Pending /\ S \subseteq Sound
    BY <1>3 DEF BulkDestroy, LifeInv, Sound
  <2>2. \A o \in S : ~user_data[o].m_finalizer
    BY <1>3 DEF BulkDestroy, LifeInv
  <2>3. S \subseteq {o \in Objects : StageOf[o] \in {"condemned", "finalized"}} \ Wanting
    BY <2>1, <2>2, StageCases DEF Wanting
  <2>4. \A o \in S : LifeOf(o)' = "free"
    BY <1>3, <2>1 DEF BulkDestroy, LifeOf
  <2>5. \A o \in Objects \ S : LifeOf(o)' = LifeOf(o)
    BY <1>3, <2>1 DEF BulkDestroy, LifeOf
  <2>6. StageOf' = [o \in Objects |-> IF o \in S THEN "free" ELSE StageOf[o]]
    BY <1>0, <2>4, <2>5
  <2>7. Wanting' = Wanting
    BY <1>3, <2>1, <2>2 DEF BulkDestroy, Wanting
  <2>8. Life!Reclaim
    <3>1. Reach' = Reach
      BY <1>3 DEF BulkDestroy, Reach
    <3> HIDE DEF S
    <3>2. QED
      BY <2>3, <2>6, <2>7, <3>1, ReclaimStep
  <2>9. QED
    BY <2>8 DEF Life!SparseNext, Life!Next
<1>4. QED
  BY <1>1, <1>2, <1>3 DEF GcThread

(* So does a user thread with what was left to it, unless it gives up. *)
LEMMA UserThreadMaps ==
    ASSUME IInv, LifeInv, UserThread
    PROVE  [Life!SparseNext]_(Life!vars)
<1> USE DEF IInv, TypeOK, programVars, gcVars, kernelLists, heapVars, past, Pending, Doomed
<1>0. StageOf = [o \in Objects |-> LifeOf(o)] /\ StageOf' = [o \in Objects |-> LifeOf(o)']
  BY DEF StageOf
<1>1. CASE TakeSpecial \/ LocalAddFreed
  <2>1. Doomed' = Doomed /\ Pending' = Pending /\ UNCHANGED <<heapVars, held>>
    BY <1>1 DEF TakeSpecial, LocalAddFreed
  <2>2. QED
    BY <2>1, Hidden
<1>2. CASE LocalFinalize
  <2>1. PICK o \in vec_rest :
            /\ vec_rest' = vec_rest \ {o}
            /\ finalized' = IF user_data[o].m_finalizer THEN finalized \cup {o} ELSE finalized
            /\ DeleteRecord(o)
    BY <1>2 DEF LocalFinalize
  <2>2. o \in Doomed
    BY <2>1
  <2>3. Doomed' = Doomed /\ Pending' = Pending /\ UNCHANGED <<in_use, held, reused, abandoned>>
    BY <1>2 DEF LocalFinalize
  <2>4. QED
    BY <2>1, <2>2, <2>3, FinalizeMaps
<1>3. CASE LocalDestroy
  <2> DEFINE S == vec \ (Pending' \cup reused)
  <2>1. /\ m_to_be_freed = {} /\ m_to_be_freed' = {} /\ S \subseteq Sound
        /\ \A o \in vec : o \notin in_use \ reused
    BY <1>3 DEF LocalDestroy, Sound
  <2>2. \A o \in vec \ reused : ~user_data[o].m_finalizer
    BY <1>3 DEF LocalDestroy, LifeInv
  <2>3. S \subseteq {o \in Objects : StageOf[o] \in {"condemned", "finalized"}} \ Wanting
    BY <2>1, <2>2, StageCases DEF Wanting
  <2>4. \A o \in S : LifeOf(o)' = "free"
    BY <1>3, <2>1 DEF LocalDestroy, LifeOf
  <2>5. \A o \in Objects \ S : LifeOf(o)' = LifeOf(o)
    BY <1>3, <2>1 DEF LocalDestroy, LifeOf
  <2>6. StageOf' = [o \in Objects |-> IF o \in S THEN "free" ELSE StageOf[o]]
    BY <1>0, <2>4, <2>5
  <2>7. Wanting' = Wanting
    BY <1>3, <2>1, <2>2 DEF LocalDestroy, Wanting
  <2>8. Life!Reclaim
    <3>1. Reach' = Reach
      BY <1>3 DEF LocalDestroy, Reach
    <3> HIDE DEF S
    <3>2. QED
      BY <2>3, <2>6, <2>7, <3>1, ReclaimStep
  <2>9. QED
    BY <2>8 DEF Life!SparseNext, Life!Next
<1>4. CASE LocalThrow
  <2> DEFINE S == vec \ reused
  <2>1. /\ m_to_be_freed = {} /\ special = {} /\ m_need_special_finalizing_collection = {}
        /\ Pending' = {} /\ Doomed' = {} /\ S \subseteq Sound /\ S \subseteq Doomed
        /\ Doomed = vec
    BY <1>4 DEF LocalThrow, Sound
  <2>2. \A o \in S : o \in Objects /\ StageOf[o] \in {"condemned", "finalized"}
    BY <2>1, StageCases DEF Sound
  <2>3. \A o \in S : LifeOf(o)' = "abandoned"
    BY <1>4 DEF LocalThrow, LifeOf
  <2>4. \A o \in Objects \ S : LifeOf(o)' = LifeOf(o)
    BY <1>4, <2>1 DEF LocalThrow, LifeOf
  <2>5. StageOf' = [o \in Objects |-> IF o \in S THEN "abandoned" ELSE StageOf[o]]
    BY <1>0, <2>3, <2>4
  <2>6. Wanting' = Wanting \ S /\ Reach' = Reach
    BY <1>4, <2>1 DEF LocalThrow, Wanting, Reach
  <2>7. S \in SUBSET (Life!In("condemned") \cup Life!In("finalized"))
    BY <1>0, <2>2 DEF Life!In
  <2> HIDE DEF S
  <2>8. Life!Become(S, "abandoned")
    BY <1>0, <2>5 DEF Life!Become
  <2>9. Life!Abandon
    BY <2>6, <2>7, <2>8 DEF Life!Abandon, Wanting, Reach
  <2>10. QED
    BY <2>9 DEF Life!SparseNext
<1>5. QED
  BY <1>1, <1>2, <1>3, <1>4 DEF UserThread

(* LifeInv, the reason why finalizers run once, holds in every reachable    *)
(* state.                                                                   *)
LEMMA LifeInductive == Spec => []LifeInv
<1>1. Init => LifeInv
  BY DEF Init, LifeInv, Pending, Default
<1>2. IInv /\ LifeInv /\ [Next]_vars => LifeInv'
  <2>1. ASSUME LifeInv, UNCHANGED vars
        PROVE  LifeInv'
    BY <2>1 DEF LifeInv, Pending, vars, programVars, gcVars, finVars, kernelLists, heapVars, past
  <2>2. QED
    BY <2>1, NextKeepsLifeInv
<1>. QED  BY <1>1, <1>2, Inductive, PTL DEF Spec

(* Sweep, finalization and destruction implement ObjectLife with its two    *)
(* exceptions: a finalizer runs once, after the object is lost and before   *)
(* its slot is used again, unless the slot is reused too early or the list  *)
(* it is on is given up.                                                    *)
THEOREM ReclaimImplementsObjectLife == Spec => ImplementsObjectLife
<1>1. Spec => [](IInv /\ LifeInv)
  BY Inductive, LifeInductive, PTL
<1>2. IInv /\ LifeInv /\ [Next]_vars => [Life!SparseNext]_(Life!vars)
  <2>1. ASSUME UNCHANGED vars
        PROVE  UNCHANGED Life!vars
    BY <2>1 DEF Life!vars, LifeOf, Pending, vars, programVars, gcVars, finVars, kernelLists,
                heapVars, past
  <2>2. Collect /\ IInv /\ LifeInv => Life!SparseNext
    BY CollectMaps DEF Life!SparseNext, Life!Next
  <2>3. QED
    BY <2>1, <2>2, ProgramMaps, GcThreadMaps, UserThreadMaps DEF Next
<1>3. QED
  BY <1>1, <1>2, InitMaps, PTL DEF Spec, ImplementsObjectLife, Life!SparseSpec

(* Slots reused too early apart, what the program holds is live, and an     *)
(* object whose finalizer is on record is live or waits for that finalizer: *)
(* the memory of none has been given back, and none is finalized twice.     *)
THEOREM PromiseIsKept == Spec => []Life!Kept
<1>1. IInv /\ LifeInv => Life!Kept
  <2>. SUFFICES ASSUME IInv, LifeInv PROVE Life!Kept
    OBVIOUS
  <2>1. ASSUME NEW o \in held \ reused PROVE o \in Objects /\ LifeOf(o) = "live"
    BY <2>1 DEF IInv, TypeOK, LifeOf
  <2>2. ASSUME NEW o \in (in_use \cup Pending) \ reused, user_data[o].m_finalizer
        PROVE  o \in Objects /\ LifeOf(o) \in {"live", "condemned"}
    BY <2>2 DEF IInv, LifeInv, TypeOK, Pending, LifeOf
  <2>. HIDE DEF LifeOf
  <2>. QED  BY <2>1, <2>2 DEF Life!Kept, Life!In
<1>. QED  BY <1>1, Inductive, LifeInductive, PTL
=============================================================================
