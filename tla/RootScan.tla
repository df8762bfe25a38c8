------------------------------ MODULE RootScan ------------------------------
(***************************************************************************)
(* What a collection starts from: the stacks of the registered threads.    *)
(* Threads, registered or not, make, move, clear and destroy the handles   *)
(* of variables (cgc_root_t, cgc_root_pointer_t) and ranges beside the     *)
(* collector; a thread that is registered is stopped wherever the signal   *)
(* finds it, inside such a call too, and its stack is scanned from the     *)
(* pointer it records then.  Pointers between objects are MarkPhase's:     *)
(* here every object is reached from a stack.                              *)
(*                                                                         *)
(* root_collection() of the kernel returns a copy of the collection of     *)
(* roots.  Each call on it makes a copy, waits for the collection lock,    *)
(* changes the copy and destroys it: the kernel's own collection stays     *)
(* empty, and the gc thread is given no root and no range to read.         *)
(***************************************************************************)
EXTENDS Naturals, Sequences

CONSTANTS
    Threads,    \* threads of the program
    Variables,  \* variables of the program that may become roots
    Handles,    \* objects of class cgc_root_t, on their own or in a cgc_root_pointer_t
    Objects,    \* objects of the collected heap
    Null,       \* nullptr
    Unset,      \* a word never initialized
    MaxWords    \* bound: pointers on one stack

ASSUME NullAssumption ==
    /\ Null \notin Threads \cup Variables \cup Handles \cup Objects
    /\ Unset \notin Objects \cup {Null}
ASSUME MaxWordsAssumption == MaxWords \in Nat

VARIABLES
    m_mutex, m_collect_finished,
    m_threads, stopped,         \* registered threads, and those in the signal handler
    stack, m_stack_ptr,         \* pointers on each stack, and how many its record covers
    phase, collector,           \* the collection under way, and its thread
    m_watched_threads,          \* whose stacks the gc thread has still to scan
    marked, allocated,
    alive, holds,               \* the variables and their words
    made, m_root,               \* the handles there are, and the variable of each
    op                          \* the call on a copy of the collection each thread is in

collecting == <<phase, collector, m_collect_finished, stopped>>
heap       == <<marked, allocated>>
variables  == <<alive, holds>>
handles    == <<made, m_root>>
vars == <<m_mutex, m_threads, stack, m_stack_ptr, collecting, m_watched_threads, heap,
          variables, handles, op>>

Words  == Objects \cup {Null, Unset}
Phases == {"none", "stopping", "stopped", "marking"}

NoOp       == [kind |-> "none", handle |-> Null, var |-> Null]
HandleOps  == {"construct", "clear", "destroy", "destroy pointer"}
RangeOps   == {"add range", "remove range"}
Op(k, h, v) == [kind |-> k, handle |-> h, var |-> v]

Init ==
    /\ m_mutex = Null /\ m_collect_finished = TRUE
    /\ m_threads = {} /\ stopped = {}
    /\ stack = [t \in Threads |-> <<>>] /\ m_stack_ptr = [t \in Threads |-> 0]
    /\ phase = "none" /\ collector = Null
    /\ m_watched_threads = {}
    /\ marked = {} /\ allocated = {}
    /\ alive = {} /\ holds = [v \in Variables |-> Unset]
    /\ made = {} /\ m_root = [h \in Handles |-> Null]
    /\ op = [t \in Threads |-> NoOp]

-----------------------------------------------------------------------------
(* The program. *)

Running(t) == t \notin stopped /\ t # collector
MayCall(t) == Running(t) /\ op[t] = NoOp

(* wait_for_collection returns with m_mutex, and not during a collection. *)
CollectionLock == m_mutex = Null /\ m_collect_finished

Register(t) ==
    /\ MayCall(t) /\ t \notin m_threads /\ CollectionLock
    /\ m_threads' = m_threads \cup {t}
    /\ UNCHANGED <<m_mutex, stack, m_stack_ptr, collecting, m_watched_threads, heap, variables,
                   handles, op>>

Unregister(t) ==
    /\ MayCall(t) /\ t \in m_threads /\ CollectionLock
    /\ m_threads' = m_threads \ {t}
    /\ UNCHANGED <<m_mutex, stack, m_stack_ptr, collecting, m_watched_threads, heap, variables,
                   handles, op>>

WordsOf(t) == {stack[t][i] : i \in 1 .. Len(stack[t])}

(* Pointers are handled by registered threads; others leave theirs alone. *)
MayUse(t) == MayCall(t) /\ t \in m_threads

(* What a step on the thread's own stack leaves as it is. *)
StackOnly == UNCHANGED <<m_mutex, m_threads, m_stack_ptr, collecting, m_watched_threads, marked,
                         variables, handles, op>>

Push(t, w) == Len(stack[t]) < MaxWords /\ stack' = [stack EXCEPT ![t] = Append(@, w)]

Allocate(t) ==
    /\ MayUse(t)
    /\ \E o \in Objects \ allocated : allocated' = allocated \cup {o} /\ Push(t, o)
    /\ StackOnly

(* A pointer is fetched from a variable.  The object may be gone: a handle  *)
(* on the variable has not kept it.                                         *)
Load(t, v) ==
    /\ MayUse(t) /\ v \in alive
    /\ holds[v] \in Objects
    /\ Push(t, holds[v])
    /\ UNCHANGED allocated /\ StackOnly

Pop(t) ==
    /\ MayUse(t) /\ stack[t] # <<>>
    /\ stack' = [stack EXCEPT ![t] = SubSeq(@, 1, Len(@) - 1)]
    /\ UNCHANGED allocated /\ StackOnly

(* What a step on a variable or a handle leaves as it is. *)
ProgramOnly == UNCHANGED <<m_mutex, m_threads, stack, m_stack_ptr, collecting,
                           m_watched_threads, heap>>

(* operator= of cgc_root_pointer_t: from a pointer, or nullptr. *)
Store(t, v) ==
    /\ MayUse(t) /\ v \in alive
    /\ \E w \in {Null} \cup WordsOf(t) : holds' = [holds EXCEPT ![v] = w]
    /\ UNCHANGED <<alive, handles, op>> /\ ProgramOnly

(* A variable comes into being, with or without a first value, or goes. *)
Declare(t, v) ==
    /\ MayCall(t) /\ v \notin alive
    /\ alive' = alive \cup {v}
    /\ UNCHANGED <<holds, handles, op>> /\ ProgramOnly

Leave(t, v) ==
    /\ MayCall(t) /\ v \in alive
    /\ alive' = alive \ {v}
    /\ holds' = [holds EXCEPT ![v] = Unset]
    /\ UNCHANGED <<handles, op>> /\ ProgramOnly

-----------------------------------------------------------------------------
(* Handles.  Two may name the same variable, and one may be moved onto      *)
(* another that still has its own.                                          *)

Begin(t, k, h, v) ==
    /\ MayCall(t)
    /\ op' = [op EXCEPT ![t] = Op(k, h, v)]
    /\ ProgramOnly

Idle(h) == \A t \in Threads : op[t].handle # h

(* cgc_root_t(ptr) on a variable. *)
Construct(t, h, v) ==
    /\ h \notin made /\ Idle(h)
    /\ v \in alive
    /\ Begin(t, "construct", h, v)
    /\ m_root' = [m_root EXCEPT ![h] = v]
    /\ UNCHANGED <<variables, made>>

(* cgc_root_pointer_t(ptr), its move constructor, which has fetched the     *)
(* word from another variable, and its default constructor, which           *)
(* initializes nothing.                                                     *)
ConstructPointer(t, h, v) ==
    /\ h \notin made /\ Idle(h)
    /\ v \notin alive
    /\ Begin(t, "construct", h, v)
    /\ alive' = alive \cup {v}
    /\ \E w \in {Unset} \cup WordsOf(t) : holds' = [holds EXCEPT ![v] = w]
    /\ m_root' = [m_root EXCEPT ![h] = v]
    /\ UNCHANGED made

Clear(t, h) ==
    /\ h \in made /\ Idle(h)
    /\ Begin(t, "clear", h, m_root[h])
    /\ UNCHANGED <<variables, handles>>

(* The destructor of a handle without a variable has nothing to do. *)
Destroy(t, h) ==
    /\ h \in made /\ Idle(h)
    /\ \/ m_root[h] # Null /\ Begin(t, "destroy", h, m_root[h]) /\ UNCHANGED made
       \/ /\ MayCall(t) /\ m_root[h] = Null
          /\ made' = made \ {h}
          /\ UNCHANGED op /\ ProgramOnly
    /\ UNCHANGED <<variables, m_root>>

(* Of a cgc_root_pointer_t the handle is destroyed before the variable. *)
DestroyPointer(t, h) ==
    /\ h \in made /\ Idle(h) /\ m_root[h] # Null
    /\ Begin(t, "destroy pointer", h, m_root[h])
    /\ UNCHANGED <<variables, handles>>

(* Move construction, and move assignment, which forgets the root it had. *)
Move(t, g, h) ==
    /\ MayCall(t)
    /\ g \in made /\ Idle(g) /\ Idle(h) /\ g # h
    /\ made' = made \cup {h}
    /\ m_root' = [m_root EXCEPT ![h] = m_root[g], ![g] = Null]
    /\ UNCHANGED <<variables, op>> /\ ProgramOnly

AddRange(t, v) ==
    /\ v \in alive
    /\ Begin(t, "add range", Null, v)
    /\ UNCHANGED <<variables, handles>>

RemoveRange(t, v) ==
    /\ Begin(t, "remove range", Null, v)
    /\ UNCHANGED <<variables, handles>>

(* The call ends: it has had the collection lock, and its copy is gone. *)
Returns(t, kinds) ==
    /\ op[t].kind \in kinds
    /\ Running(t) /\ CollectionLock
    /\ op' = [op EXCEPT ![t] = NoOp]
    /\ ProgramOnly

AddRootReturns(t) ==
    /\ Returns(t, {"construct"})
    /\ made' = made \cup {op[t].handle}
    /\ UNCHANGED <<variables, m_root>>

(* What ends with the call: the handle's hold on its variable, the handle   *)
(* itself, or the handle and the variable.                                  *)
RemoveRootReturns(t) ==
    LET h == op[t].handle IN
    /\ Returns(t, {"clear", "destroy", "destroy pointer"})
    /\ m_root' = [m_root EXCEPT ![h] = Null]
    /\ made' = IF op[t].kind = "clear" THEN made ELSE made \ {h}
    /\ alive' = IF op[t].kind = "destroy pointer" THEN alive \ {op[t].var} ELSE alive
    /\ UNCHANGED holds

RangeReturns(t) ==
    /\ Returns(t, RangeOps)
    /\ UNCHANGED <<variables, handles>>

-----------------------------------------------------------------------------
(* The collection. *)

(* What a step of it leaves to the program. *)
CollectorOnly == UNCHANGED <<m_threads, stack, variables, handles, op>>

ForceCollect(t) ==
    /\ MayUse(t) /\ phase = "none" /\ m_mutex = Null
    /\ phase' = "stopping" /\ collector' = t /\ m_collect_finished' = FALSE
    /\ UNCHANGED <<m_mutex, m_stack_ptr, stopped, m_watched_threads, heap>> /\ CollectorOnly

(* Slip: one word too many. *)
RecordBug(t) == m_stack_ptr' = [m_stack_ptr EXCEPT ![t] = Len(stack[t]) + 1]

(* set_stack_ptr *)
Record(t) == m_stack_ptr' = [m_stack_ptr EXCEPT ![t] = Len(stack[t])]

(* The signal arrives, also in a thread that waits for the collection lock. *)
Stop(t) ==
    /\ phase = "stopping" /\ t \in m_threads \ (stopped \cup {collector})
    /\ stopped' = stopped \cup {t}
    /\ Record(t)
    /\ UNCHANGED <<m_mutex, phase, collector, m_collect_finished, m_watched_threads, heap>>
    /\ CollectorOnly

(* Slip: the collector does not record its own stack. *)
AllStoppedBug ==
    /\ phase = "stopping" /\ stopped = m_threads \ {collector} /\ m_mutex = Null
    /\ phase' = "stopped" /\ m_mutex' = collector
    /\ UNCHANGED <<m_stack_ptr, collector, m_collect_finished, stopped, m_watched_threads,
                   heap>>
    /\ CollectorOnly

(* m_mutex was released to let threads stop; it is held to the end of the   *)
(* collection from here on.                                                 *)
AllStopped ==
    /\ phase = "stopping" /\ stopped = m_threads \ {collector} /\ m_mutex = Null
    /\ phase' = "stopped" /\ m_mutex' = collector
    /\ Record(collector)
    /\ UNCHANGED <<collector, m_collect_finished, stopped, m_watched_threads, heap>>
    /\ CollectorOnly

(* Slip: the collector is not among the threads to scan. *)
SetupGcThreadsBug ==
    /\ phase = "stopped"
    /\ phase' = "marking"
    /\ m_watched_threads' = stopped
    /\ marked' = {}
    /\ UNCHANGED <<m_mutex, m_stack_ptr, collector, m_collect_finished, stopped, allocated>>
    /\ CollectorOnly

(* The gc thread is told what to read, and the marks are cleared.  Of the   *)
(* kernel's roots and ranges there are none.                                *)
SetupGcThreads ==
    /\ phase = "stopped"
    /\ phase' = "marking"
    /\ m_watched_threads' = m_threads
    /\ marked' = {}
    /\ UNCHANGED <<m_mutex, m_stack_ptr, collector, m_collect_finished, stopped, allocated>>
    /\ CollectorOnly

(* scan_stack, and marking what it found. *)
HandleThread(t) ==
    /\ phase = "marking" /\ t \in m_watched_threads
    /\ m_watched_threads' = m_watched_threads \ {t}
    /\ marked' = marked \cup {stack[t][i] : i \in 1 .. m_stack_ptr[t]}
    /\ UNCHANGED <<m_mutex, m_stack_ptr, collecting, allocated>> /\ CollectorOnly

(* The sweep, and the end of force_collect. *)
Finish ==
    /\ phase = "marking" /\ m_watched_threads = {}
    /\ phase' = "none" /\ collector' = Null /\ m_collect_finished' = TRUE /\ stopped' = {}
    /\ m_mutex' = Null
    /\ allocated' = allocated \cap marked
    /\ UNCHANGED <<m_stack_ptr, m_watched_threads, marked>> /\ CollectorOnly

-----------------------------------------------------------------------------

UseNext(t) ==
    \/ Register(t) \/ Unregister(t) \/ Allocate(t) \/ Pop(t)
    \/ \E v \in Variables : Load(t, v) \/ Store(t, v) \/ Declare(t, v) \/ Leave(t, v)

HandleNext(t) ==
    \/ \E h \in Handles : \E v \in Variables : Construct(t, h, v) \/ ConstructPointer(t, h, v)
    \/ \E h \in Handles : Clear(t, h) \/ Destroy(t, h) \/ DestroyPointer(t, h)
    \/ \E g, h \in Handles : Move(t, g, h)
    \/ \E v \in Variables : AddRange(t, v) \/ RemoveRange(t, v)
    \/ AddRootReturns(t) \/ RemoveRootReturns(t) \/ RangeReturns(t)

CollectNext ==
    \/ \E t \in Threads : ForceCollect(t) \/ Stop(t) \/ HandleThread(t)
    \/ AllStopped \/ SetupGcThreads \/ Finish

Next == CollectNext \/ \E t \in Threads : UseNext(t) \/ HandleNext(t)

Spec == Init /\ [][Next]_vars

-----------------------------------------------------------------------------
(* Properties. *)

TypeOK ==
    /\ m_mutex \in Threads \cup {Null} /\ m_collect_finished \in BOOLEAN
    /\ m_threads \subseteq Threads /\ stopped \subseteq Threads
    /\ stack \in [Threads -> Seq(Objects)] /\ m_stack_ptr \in [Threads -> 0 .. MaxWords]
    /\ \A t \in Threads : Len(stack[t]) <= MaxWords
    /\ phase \in Phases /\ collector \in Threads \cup {Null}
    /\ m_watched_threads \subseteq Threads
    /\ marked \subseteq Objects /\ allocated \subseteq Objects
    /\ alive \subseteq Variables /\ holds \in [Variables -> Words]
    /\ made \subseteq Handles /\ m_root \in [Handles -> Variables \cup {Null}]
    /\ op \in [Threads -> [kind : {"none"} \cup HandleOps \cup RangeOps,
                           handle : Handles \cup {Null}, var : Variables \cup {Null}]]

(* Each stack is scanned from where it is to its top, also that of a thread *)
(* stopped while it waits for the collection lock: a record of an earlier   *)
(* stop would miss or overrun frames.                                       *)
StacksCovered ==
    phase \in {"stopped", "marking"} =>
        \A t \in m_threads : m_stack_ptr[t] = Len(stack[t])

(* An object that the stack of a registered thread points to is taken by no *)
(* collection, whatever the thread was doing when it was stopped, and       *)
(* whatever threads have joined, left or collected before.  A pointer that  *)
(* was fetched too late, to an object already taken, is no such pointer     *)
(* until its place has been allocated again.                                *)
StackedIsKept ==
    [][\A t \in m_threads : WordsOf(t) \cap allocated \subseteq allocated']_vars
=============================================================================
