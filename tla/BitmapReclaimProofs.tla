------------------------ MODULE BitmapReclaimProofs ------------------------
(***************************************************************************)
(* For any division of any set of slots into blocks: what the program      *)
(* holds is neither wiped nor freed, what the collector frees is zero, and *)
(* the bitmap allocator's objects live as ObjectLife promises.             *)
(***************************************************************************)
EXTENDS BitmapReclaim, TLAPS

----------------------------------------------------------------------------
(* The initial state has nothing in use. *)
LEMMA InitIInv == Init => IInv
BY DEF Init, IInv, TypeOK, HeldIntact, Doomed

(* No operation of the program disturbs the invariant. *)
LEMMA ProgramKeepsIInv ==
    ASSUME IInv, Program
    PROVE  IInv'
<1> USE DEF IInv, TypeOK, HeldIntact, Doomed, Running, localVars, userData
<1>1. PICK o \in Objects :
          Allocate(o) \/ Drop(o) \/ Free(o) \/ RegisterFinalizer(o) \/ SetAbortOnCollect(o)
  BY DEF Program
<1>2. at = "running" /\ at' = "running" /\ todo = {} /\ todo' = {}
  BY <1>1 DEF Allocate, Drop, Free, RegisterFinalizer, SetAbortOnCollect
<1>3. CASE Allocate(o)
  BY <1>2, <1>3 DEF Allocate
<1>4. CASE Drop(o)
  BY <1>2, <1>4 DEF Drop
<1>5. CASE Free(o)
  BY <1>2, <1>5 DEF Free
<1>6. CASE RegisterFinalizer(o)
  BY <1>2, <1>6 DEF RegisterFinalizer, HasUserData
<1>7. CASE SetAbortOnCollect(o)
  BY <1>2, <1>7 DEF SetAbortOnCollect, HasUserData
<1>8. QED
  BY <1>1, <1>3, <1>4, <1>5, <1>6, <1>7

(* The collector wipes and frees only unmarked objects, and frees none     *)
(* whose finalizer has not run.                                            *)
LEMMA CollectorKeepsIInv ==
    ASSUME IInv, Collector
    PROVE  IInv'
<1> USE DEF IInv, TypeOK, HeldIntact, Doomed, ToBeFreed, localVars, userData
<1>1. CASE Collect
  BY <1>1, BitmapAssumption DEF Collect
<1>2. CASE TakeBlock
  BY <1>2 DEF TakeBlock
<1>3. CASE Abort
  BY <1>3 DEF Abort
<1>4. CASE Finalize
  BY <1>4 DEF Finalize, CallFinalizer
<1>5. CASE Throw
  BY <1>5 DEF Throw, CallFinalizer
<1>6. CASE ZeroRest
  BY <1>6 DEF ZeroRest, WithoutFinalizer
<1>7. CASE FreeUnmarked
  BY <1>7 DEF FreeUnmarked
<1>8. QED
  BY <1>1, <1>2, <1>3, <1>4, <1>5, <1>6, <1>7 DEF Collector

(* The inductive invariant, which every theorem below rests on. *)
THEOREM Inductive == Spec => []IInv
<1>1. IInv /\ [Next]_vars => IInv'
  <2>1. ASSUME IInv, UNCHANGED vars
        PROVE  IInv'
    BY <2>1 DEF IInv, TypeOK, HeldIntact, Doomed, ToBeFreed, vars, localVars, userData
  <2>2. QED
    BY <2>1, ProgramKeepsIInv, CollectorKeepsIInv DEF Next
<1>2. QED
  BY InitIInv, <1>1, PTL DEF Spec

(* The state stays well typed, the local bitmaps of the block included. *)
THEOREM TypeCorrect == Spec => []TypeOK
<1>1. IInv => TypeOK
  BY DEF IInv
<1>2. QED
  BY Inductive, <1>1, PTL

(* What the program reaches is neither freed nor zeroed. *)
THEOREM HeldObjectsIntact == Spec => []HeldIntact
<1>1. IInv => HeldIntact
  BY DEF IInv
<1>2. QED
  BY Inductive, <1>1, PTL

(* Whatever the collector frees is zero, whether it had a finalizer, an    *)
(* outlived bit or neither.                                                *)
THEOREM FreedIsZero == Spec => SweptIsZero
<1> DEFINE Clean == \A o \in in_use : o \notin in_use' => o \in held \/ o \notin contents
<1>1. IInv /\ [Next]_vars => [Clean]_vars
  <2>1. ASSUME IInv, Program
        PROVE  Clean
    BY <2>1 DEF Program, Allocate, Drop, Free, RegisterFinalizer, SetAbortOnCollect
  <2>2. ASSUME IInv, FreeUnmarked
        PROVE  Clean
    BY <2>2 DEF FreeUnmarked, IInv, TypeOK, ToBeFreed
  <2>3. ASSUME Collector, ~FreeUnmarked
        PROVE  Clean
    BY <2>3 DEF Collector, Collect, TakeBlock, Abort, Finalize, CallFinalizer, Throw, ZeroRest
  <2>4. QED
    BY <2>1, <2>2, <2>3 DEF Next
<1>2. QED
  BY Inductive, <1>1, PTL DEF Spec, SweptIsZero

(* An object with a finalizer that must not be collected is neither        *)
(* finalized nor freed: the program ends first.                            *)
THEOREM AbortIsHonoured == Spec => AbortsInstead
<1> DEFINE Kept == \A o \in in_use \cap abort_on_collect \cap finalizeable :
                       o \notin in_use' \/ o \in finalized' => o \in held
<1>1. IInv /\ [Next]_vars => [Kept]_vars
  <2>1. ASSUME IInv, Program
        PROVE  Kept
    BY <2>1 DEF Program, Allocate, Drop, Free, RegisterFinalizer, SetAbortOnCollect, IInv
  <2>2. ASSUME IInv, FreeUnmarked
        PROVE  Kept
    BY <2>2 DEF FreeUnmarked, IInv, TypeOK, ToBeFreed
  <2>3. ASSUME IInv, Finalize \/ Throw
        PROVE  Kept
    BY <2>3 DEF Finalize, Throw, CallFinalizer, MayFinalize, IInv
  <2>4. ASSUME IInv, Collect \/ TakeBlock \/ Abort \/ ZeroRest
        PROVE  Kept
    BY <2>4 DEF Collect, TakeBlock, Abort, ZeroRest, IInv
  <2>5. QED
    BY <2>1, <2>2, <2>3, <2>4 DEF Next, Collector
<1>2. QED
  BY Inductive, <1>1, PTL DEF Spec, AbortsInstead

----------------------------------------------------------------------------
(* The refinement of ObjectLife. *)

Stage == [o \in Objects |-> LifeOf(o)]

Wanting == m_finalizer \cap in_use

(* Nothing is doomed while the program runs. *)
LEMMA NothingDoomed == IInv /\ at = "running" => Doomed = {}
BY DEF IInv, TypeOK, Doomed

(* The initial states agree. *)
LEMMA InitMaps == Init => Life!Init
BY DEF Init, Life!Init, LifeOf

(* Every operation of the program is one of ObjectLife, or a stutter. *)
LEMMA ProgramMaps ==
    ASSUME IInv, Program
    PROVE  [Life!Next]_(Life!vars)
<1> USE DEF Running, localVars, userData
<1>1. PICK o \in Objects :
          Allocate(o) \/ Drop(o) \/ Free(o) \/ RegisterFinalizer(o) \/ SetAbortOnCollect(o)
  BY DEF Program
<1>2. Doomed = {} /\ Doomed' = {}
  BY <1>1, NothingDoomed
     DEF Allocate, Drop, Free, RegisterFinalizer, SetAbortOnCollect, Doomed, IInv, TypeOK
<1>3. /\ \A p \in Objects : LifeOf(p) = IF p \in in_use THEN "live" ELSE "free"
      /\ \A p \in Objects : LifeOf(p)' = IF p \in in_use' THEN "live" ELSE "free"
  BY <1>2 DEF LifeOf
<1>4. CASE Allocate(o)
  <2>1. Life!Allocate(o)
    BY <1>3, <1>4 DEF Allocate, Life!Allocate, Life!Become
  <2>2. QED
    BY <2>1 DEF Life!Next
<1>5. CASE Drop(o)
  <2>1. Life!Lose(o)
    BY <1>3, <1>5 DEF Drop, Life!Lose
  <2>2. QED
    BY <2>1 DEF Life!Next
<1>6. CASE Free(o)
  <2>1. Life!Release(o)
    BY <1>3, <1>6 DEF Free, Life!Release, Life!Become
  <2>2. QED
    BY <2>1 DEF Life!Next
<1>7. CASE RegisterFinalizer(o)
  <2>1. Life!Want(o)
    BY <1>3, <1>7 DEF RegisterFinalizer, Life!Want, IInv, HeldIntact
  <2>2. QED
    BY <2>1 DEF Life!Next
<1>8. CASE SetAbortOnCollect(o)
  BY <1>3, <1>8 DEF SetAbortOnCollect, Life!vars
<1>9. QED
  BY <1>1, <1>4, <1>5, <1>6, <1>7, <1>8

(* A collection condemns the unmarked objects, all of them live before. *)
LEMMA CollectMaps ==
    ASSUME IInv, Collect
    PROVE  Life!Collect
<1> DEFINE S == in_use \ marked'
<1>1. Doomed = {} /\ Doomed' = S
  BY NothingDoomed, BitmapAssumption DEF Collect, Doomed, IInv, TypeOK
<1>2. S \in SUBSET (Life!In("live") \ held)
  BY <1>1 DEF Collect, Life!In, LifeOf, IInv, TypeOK
<1>3. {} \in SUBSET (S \ Wanting)
  OBVIOUS
<1>4. \A o \in Objects : LifeOf(o)' = IF o \in S THEN "condemned" ELSE LifeOf(o)
  BY <1>1 DEF Collect, LifeOf, IInv
<1>5. [o \in Objects |-> LifeOf(o)]' =
          [o \in Objects |-> IF o \in {} THEN "free" ELSE IF o \in S THEN "condemned"
                             ELSE [p \in Objects |-> LifeOf(p)][o]]
  BY <1>4
<1>6. UNCHANGED <<held, Wanting>>
  BY DEF Collect, userData, Wanting
<1> HIDE DEF S
<1>7. QED
  BY <1>2, <1>3, <1>5, <1>6 DEF Life!Collect, Wanting

(* So is what the collector does to a block. *)
LEMMA CollectorMaps ==
    ASSUME IInv, TakeBlock \/ Abort \/ Finalize \/ Throw \/ ZeroRest \/ FreeUnmarked
    PROVE  [Life!Next]_(Life!vars)
<1> USE DEF localVars, userData
<1>1. CASE TakeBlock \/ Abort
  BY <1>1 DEF TakeBlock, Abort, Life!vars, LifeOf, Doomed
<1>2. ASSUME NEW o \in rest, at = "loop", CallFinalizer(o)
      PROVE  [Life!Next]_(Life!vars)
  <2>1. o \in Doomed /\ o \in Objects /\ Doomed' = Doomed
    BY <1>2 DEF CallFinalizer, Doomed, IInv, TypeOK, ToBeFreed
  <2>2. CASE o \in m_finalizer
    <3>1. LifeOf(o) = "condemned" /\ LifeOf(o)' = "finalized"
      BY <1>2, <2>1, <2>2 DEF CallFinalizer, LifeOf, Doomed, IInv
    <3>2. \A p \in Objects \ {o} : LifeOf(p)' = LifeOf(p)
      BY <1>2, <2>1 DEF CallFinalizer, LifeOf
    <3>3. o \in Wanting /\ Wanting' = Wanting \ {o} /\ held' = held
      BY <1>2, <2>1, <2>2 DEF CallFinalizer, Wanting, Doomed
    <3>4. Life!Finalize(o)
      BY <2>1, <3>1, <3>2, <3>3 DEF Life!Finalize, Life!Become, Wanting
    <3>5. QED
      BY <2>1, <3>4 DEF Life!Next
  <2>3. CASE o \notin m_finalizer
    BY <1>2, <2>1, <2>3 DEF CallFinalizer, Life!vars, LifeOf
  <2>4. QED
    BY <2>2, <2>3
<1>3. CASE ZeroRest
  <2>1. m_finalizer' \cap in_use' = m_finalizer \cap in_use
    BY <1>3 DEF ZeroRest, WithoutFinalizer, IInv
  <2>2. \A o \in Objects : LifeOf(o)' = LifeOf(o)
    BY <1>3 DEF ZeroRest, LifeOf, Doomed
  <2>3. QED
    BY <1>3, <2>1, <2>2 DEF ZeroRest, Life!vars
<1>4. CASE FreeUnmarked
  <2> DEFINE S == to_be_freed
  <2>1. S = (block \cap in_use) \ marked /\ block \in todo /\ S \cap Wanting = {}
    BY <1>4 DEF FreeUnmarked, IInv, TypeOK, ToBeFreed, Wanting
  <2>2. S \subseteq Doomed /\ Doomed' = Doomed \ S /\ in_use' = in_use \ S
    BY <1>4, <2>1 DEF FreeUnmarked, Doomed
  <2>3. S \in SUBSET ((Life!In("condemned") \cup Life!In("finalized")) \ Wanting)
    BY <2>1, <2>2 DEF Life!In, LifeOf, Doomed, IInv, TypeOK
  <2>4. \A o \in Objects : LifeOf(o)' = IF o \in S THEN "free" ELSE LifeOf(o)
    BY <1>4, <2>2 DEF FreeUnmarked, LifeOf
  <2>5. Life!Become(S, "free")
    BY <2>4 DEF Life!Become
  <2>6. UNCHANGED <<held, Wanting>>
    BY <1>4, <2>1, <2>2 DEF FreeUnmarked, Wanting
  <2> HIDE DEF S
  <2>7. Life!Reclaim
    BY <2>3, <2>5, <2>6 DEF Life!Reclaim, Wanting
  <2>8. QED
    BY <2>7 DEF Life!Next
<1>5. QED
  BY <1>1, <1>2, <1>3, <1>4 DEF Finalize, Throw

(* A finalizer runs once, for the object it was registered for, after the  *)
(* object is lost and before its slot is used again.                       *)
THEOREM BitmapImplementsObjectLife == Spec => ImplementsObjectLife
<1>1. IInv /\ [Next]_vars => [Life!Next]_(Life!vars)
  <2>1. ASSUME UNCHANGED vars
        PROVE  UNCHANGED Life!vars
    BY <2>1 DEF vars, localVars, userData, Life!vars, LifeOf, Doomed
  <2>2. IInv /\ Collect => Life!Next
    BY CollectMaps DEF Life!Next
  <2>3. QED
    BY <2>1, <2>2, ProgramMaps, CollectorMaps DEF Next, Collector
<1>2. QED
  BY Inductive, InitMaps, <1>1, PTL DEF Spec, ImplementsObjectLife, Life!Spec
(* What the program holds is live in every block, and no object is freed or *)
(* finalized again with its finalizer still on record.                      *)
THEOREM PromiseIsKept == Spec => []Life!Kept
<1>1. IInv => Life!Kept
  <2>. SUFFICES ASSUME IInv PROVE Life!Kept
    OBVIOUS
  <2>1. ASSUME NEW o \in held PROVE o \in Objects /\ LifeOf(o) = "live"
    BY <2>1 DEF IInv, TypeOK, HeldIntact, LifeOf, Doomed
  <2>2. ASSUME NEW o \in m_finalizer \cap in_use
        PROVE  o \in Objects /\ LifeOf(o) \in {"live", "condemned"}
    BY <2>2 DEF IInv, TypeOK, LifeOf
  <2>. HIDE DEF LifeOf
  <2>. QED  BY <2>1, <2>2 DEF Life!Kept, Life!In
<1>. QED  BY <1>1, Inductive, PTL
=============================================================================
