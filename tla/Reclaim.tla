------------------------------ MODULE Reclaim ------------------------------
(***************************************************************************)
(* What happens to the objects of the sparse allocator: the program        *)
(* allocates, registers finalizers, drops and frees; a collection sweeps   *)
(* (gc_thread.cpp, _sweep), the gc thread finalizes and destroys beside    *)
(* the running program (_finalize), and a thread that waits for the        *)
(* finalization runs the finalizers that are restricted to user threads    *)
(* (sparse_finalization.hpp).                                              *)
(*                                                                         *)
(* Marking and sweeping are one step here: GlobalKernel shows that the     *)
(* world stands still for both, and MarkPhase that exactly the reachable   *)
(* objects are marked.  An object is the slot of memory it occupies, so a  *)
(* reused slot is the same object allocated again.  The allocator belongs  *)
(* to mcppalloc: bulk_destroy_memory is taken to make the slots            *)
(* allocatable and to leave the vector it is given empty, since nothing    *)
(* in this repository ever clears m_to_be_freed.                           *)
(*                                                                         *)
(* A finalizer may throw, and nothing catches it: in the gc thread that    *)
(* ends the program, in a user thread it leaves local_thread_finalization  *)
(* and with it the list the thread has taken.                              *)
(***************************************************************************)
EXTENDS FiniteSets

CONSTANT Objects    \* the slots of the sparse allocator

ASSUME ReclaimAssumption == IsFiniteSet(Objects)

VARIABLES
    in_use,         \* the allocated slots
    user_data,      \* the record of each slot
    held,           \* the objects the program reaches from its stacks
    rooted,         \* the objects in the variables the program has made roots
    m_roots,        \* the objects in the roots the kernel scans
    m_to_be_freed,  \* what the sweep hands to the finalization
    m_freed_in_last_collection,
    m_need_special_finalizing_collection,
    gc,             \* where the gc thread is in _finalize
    rest,           \* the objects its loop has still to look at
    to_be_freed,    \* its local list of finalized objects
    special,        \* its local list of objects for the user threads
    fin,            \* where the thread in local_thread_finalization is
    vec,            \* the objects that thread has taken
    vec_rest,       \* those its loop has still to look at
    fin_freed,      \* those it has finalized
    \* What has happened to the objects, in no code:
    finalized,      \* those whose finalizer has run
    reused,         \* the slots allocated again with a finalizer still to run
    abandoned       \* the slots on a list that was given up

programVars == <<held, rooted, m_roots>>
gcVars == <<m_to_be_freed, gc, rest, to_be_freed, special>>
finVars == <<fin, vec, vec_rest, fin_freed>>
kernelLists == <<m_freed_in_last_collection, m_need_special_finalizing_collection>>
heapVars == <<in_use, user_data, finalized, reused, abandoned>>
past == <<reused, abandoned>>
vars == <<heapVars, programVars, gcVars, finVars, kernelLists>>

Records == [is_default : BOOLEAN, m_finalizer : BOOLEAN, arbitrary : BOOLEAN,
            m_uncollectable : BOOLEAN]

(* The record all objects of a block share. *)
Default == [is_default |-> TRUE, m_finalizer |-> FALSE, arbitrary |-> FALSE,
            m_uncollectable |-> FALSE]

Init ==
    /\ in_use = {}
    /\ user_data = [o \in Objects |-> Default]
    /\ held = {} /\ rooted = {} /\ m_roots = {}
    /\ m_to_be_freed = {}
    /\ m_freed_in_last_collection = {}
    /\ m_need_special_finalizing_collection = {}
    /\ gc = "finished" /\ rest = {} /\ to_be_freed = {} /\ special = {}
    /\ fin = "none" /\ vec = {} /\ vec_rest = {} /\ fin_freed = {}
    /\ finalized = {} /\ reused = {} /\ abandoned = {}

----------------------------------------------------------------------------
(* The program.  It may only name objects it still holds. *)

(* It runs until a finalizer in the gc thread ends it. *)
Running == gc # "terminated"

(* The objects some user thread has still to finalize. *)
Pending == special \cup m_need_special_finalizing_collection \cup vec

(* Allocation gives the slot the record of its block.  Nothing keeps a      *)
(* slot back whose finalizer is still to run: its state object stays on     *)
(* the list, and what is done there is done to the new object too.          *)
Allocate(o) ==
    /\ Running /\ o \notin in_use
    /\ in_use' = in_use \cup {o}
    /\ user_data' = [user_data EXCEPT ![o] = Default]
    /\ finalized' = finalized \ {o}
    /\ reused' = IF o \in Pending THEN reused \cup {o} ELSE reused
    /\ abandoned' = abandoned \ {o}
    /\ held' = held \cup {o}
    /\ UNCHANGED <<rooted, m_roots, gcVars, finVars, kernelLists>>

(* The last pointer on a stack goes away. *)
Drop(o) ==
    /\ Running /\ o \in held
    /\ held' = held \ {o}
    /\ UNCHANGED <<rooted, m_roots, heapVars, gcVars, finVars, kernelLists>>

(* cgc_free. *)
Free(o) ==
    /\ Running /\ o \in held \ rooted
    /\ in_use' = in_use \ {o}
    /\ held' = held \ {o}
    /\ UNCHANGED <<user_data, finalized, past, rooted, m_roots, gcVars, finVars, kernelLists>>

(* The record of an object of its own: made of the default one when needed. *)
OwnRecord(o) == [user_data[o] EXCEPT !.is_default = FALSE]

(* cgc_register_finalizer: the flag counts only when the record is new. *)
RegisterFinalizer(o, allow_arbitrary_finalizer_thread) ==
    /\ Running /\ o \in held
    /\ user_data' = [user_data EXCEPT ![o] =
           [OwnRecord(o) EXCEPT
               !.m_finalizer = TRUE,
               !.arbitrary = IF user_data[o].is_default
                             THEN allow_arbitrary_finalizer_thread ELSE @]]
    /\ UNCHANGED <<in_use, finalized, past, programVars, gcVars, finVars, kernelLists>>

SetUncollectable(o, is_uncollectable) ==
    /\ Running /\ o \in held
    /\ user_data' = [user_data EXCEPT ![o] =
           [OwnRecord(o) EXCEPT !.m_uncollectable = is_uncollectable]]
    /\ UNCHANGED <<in_use, finalized, past, programVars, gcVars, finVars, kernelLists>>

(* cgc_add_root: root_collection() returns a copy of m_roots, and add_root  *)
(* works on that copy.                                                     *)
AddRoot(o) ==
    /\ Running /\ o \in held
    /\ rooted' = rooted \cup {o}
    /\ UNCHANGED <<m_roots, held, heapVars, gcVars, finVars, kernelLists>>

RemoveRoot(o) ==
    /\ Running /\ o \in rooted
    /\ rooted' = rooted \ {o}
    /\ UNCHANGED <<m_roots, held, heapVars, gcVars, finVars, kernelLists>>

Program ==
    \E o \in Objects :
        \/ Allocate(o) \/ Drop(o) \/ Free(o) \/ AddRoot(o) \/ RemoveRoot(o)
        \/ \E b \in BOOLEAN : RegisterFinalizer(o, b) \/ SetUncollectable(o, b)

----------------------------------------------------------------------------
(* The collection: marking and _sweep. *)

Marked == held \cup m_roots

Unmarked == in_use \ Marked

QuasiFreed == {o \in Unmarked : user_data[o].is_default}

(* Slip: uncollectable objects are swept like the others. *)
ToBeFreedBug == {o \in Unmarked : ~user_data[o].is_default}

ToBeFreed == {o \in Unmarked : ~user_data[o].is_default /\ ~user_data[o].m_uncollectable}

(* force_collect waits for the gc thread and, with m_thread_mutex, for a    *)
(* thread in local_thread_finalization.                                    *)
Collect ==
    /\ gc = "finished"
    /\ fin = "none"
    /\ in_use' = in_use \ QuasiFreed
    /\ m_to_be_freed' = m_to_be_freed \cup ToBeFreed
    /\ rest' = m_to_be_freed'
    /\ m_freed_in_last_collection' = {}
    /\ gc' = "finalize"
    /\ UNCHANGED <<user_data, finalized, past, programVars, to_be_freed, special, finVars,
                   m_need_special_finalizing_collection>>

----------------------------------------------------------------------------
(* The gc thread: _finalize. *)

(* A finalizer that may run in any thread runs here. *)
RunsHere(o) == user_data[o].m_finalizer /\ user_data[o].arbitrary

(* Slip: a restricted finalizer is not looked for. *)
RestrictedBug(o) == FALSE

Restricted(o) == user_data[o].m_finalizer /\ ~user_data[o].arbitrary

(* Deleting the record leaves the slot with none of its own. *)
DeleteRecord(o) == user_data' = [user_data EXCEPT ![o] = Default]

(* One turn of the loop for an object that is not left to a user thread:   *)
(* finalizer, record, memory.                                              *)
FinalizeHere(o) ==
    /\ ~Restricted(o)
    /\ finalized' = IF RunsHere(o) THEN finalized \cup {o} ELSE finalized
    /\ DeleteRecord(o)
    /\ to_be_freed' = to_be_freed \cup {o}
    /\ UNCHANGED special

(* The early continue: neither the record nor the memory is touched. *)
LeaveToUserThread(o) ==
    /\ Restricted(o)
    /\ special' = special \cup {o}
    /\ UNCHANGED <<finalized, user_data, to_be_freed>>

Finalize ==
    /\ gc = "finalize"
    /\ \E o \in rest :
           /\ rest' = rest \ {o}
           /\ FinalizeHere(o) \/ LeaveToUserThread(o)
    /\ UNCHANGED <<in_use, past, programVars, m_to_be_freed, gc, finVars, kernelLists>>

(* An exception of a finalizer reaches the end of the thread's function:    *)
(* std::terminate.                                                          *)
Terminate ==
    /\ gc = "finalize"
    /\ \E o \in rest : RunsHere(o)
    /\ gc' = "terminated"
    /\ UNCHANGED <<heapVars, programVars, m_to_be_freed, rest, to_be_freed, special, finVars,
                   kernelLists>>

(* Slip: the loop is left early. *)
AddFreedBug ==
    /\ gc = "finalize"
    /\ m_freed_in_last_collection' = m_freed_in_last_collection \cup to_be_freed
    /\ gc' = "special"
    /\ UNCHANGED <<heapVars, programVars, m_to_be_freed, rest, to_be_freed, special, finVars,
                   m_need_special_finalizing_collection>>

AddFreed ==
    /\ gc = "finalize"
    /\ rest = {}
    /\ m_freed_in_last_collection' = m_freed_in_last_collection \cup to_be_freed
    /\ gc' = "special"
    /\ UNCHANGED <<heapVars, programVars, m_to_be_freed, rest, to_be_freed, special, finVars,
                   m_need_special_finalizing_collection>>

AddNeedSpecial ==
    /\ gc = "special"
    /\ m_need_special_finalizing_collection' =
           m_need_special_finalizing_collection \cup special
    /\ gc' = "destroy"
    /\ UNCHANGED <<heapVars, programVars, m_to_be_freed, rest, to_be_freed, special, finVars,
                   m_freed_in_last_collection>>

(* Slip: the objects stay on m_to_be_freed. *)
BulkDestroyBug ==
    /\ gc = "destroy"
    /\ in_use' = in_use \ m_to_be_freed
    /\ to_be_freed' = {} /\ special' = {}
    /\ gc' = "finished"
    /\ UNCHANGED <<user_data, finalized, past, programVars, m_to_be_freed, rest, finVars,
                   kernelLists>>

(* bulk_destroy_memory gets the whole of m_to_be_freed, the objects left to *)
(* the user threads included.                                              *)
BulkDestroy ==
    /\ gc = "destroy"
    /\ in_use' = in_use \ m_to_be_freed
    /\ m_to_be_freed' = {}
    /\ to_be_freed' = {} /\ special' = {}
    /\ gc' = "finished"
    /\ UNCHANGED <<user_data, finalized, past, programVars, rest, finVars, kernelLists>>

GcThread == Finalize \/ Terminate \/ AddFreed \/ AddNeedSpecial \/ BulkDestroy

----------------------------------------------------------------------------
(* A user thread in local_thread_finalization, with m_thread_mutex held    *)
(* after wait_until_finalization_finished.                                 *)

TakeSpecial ==
    /\ fin = "none"
    /\ gc = "finished"
    /\ vec' = m_need_special_finalizing_collection
    /\ vec_rest' = vec'
    /\ m_need_special_finalizing_collection' = {}
    /\ fin' = "finalize"
    /\ UNCHANGED <<heapVars, programVars, gcVars, fin_freed, m_freed_in_last_collection>>

LocalFinalize ==
    /\ fin = "finalize"
    /\ \E o \in vec_rest :
           /\ vec_rest' = vec_rest \ {o}
           /\ finalized' = IF user_data[o].m_finalizer THEN finalized \cup {o} ELSE finalized
           /\ DeleteRecord(o)
           /\ fin_freed' = fin_freed \cup {o}
    /\ UNCHANGED <<in_use, past, programVars, gcVars, fin, vec, kernelLists>>

(* An exception of a finalizer leaves the loop, and the lists are           *)
(* destroyed.  What was still on them is never finalized, and the records   *)
(* are leaked; the slots are free, but for those allocated again.           *)
LocalThrow ==
    /\ fin = "finalize"
    /\ \E o \in vec_rest : user_data[o].m_finalizer
    /\ vec' = {} /\ vec_rest' = {} /\ fin_freed' = {}
    /\ fin' = "none"
    /\ abandoned' = abandoned \cup (vec \ reused)
    /\ UNCHANGED <<in_use, user_data, finalized, reused, programVars, gcVars, kernelLists>>

LocalDestroy ==
    /\ fin = "finalize"
    /\ vec_rest = {}
    /\ in_use' = in_use \ vec
    /\ vec' = {}
    /\ fin' = "freed"
    /\ UNCHANGED <<user_data, finalized, past, programVars, gcVars, vec_rest, fin_freed,
                   kernelLists>>

LocalAddFreed ==
    /\ fin = "freed"
    /\ m_freed_in_last_collection' = m_freed_in_last_collection \cup fin_freed
    /\ fin_freed' = {}
    /\ fin' = "none"
    /\ UNCHANGED <<heapVars, programVars, gcVars, vec, vec_rest,
                   m_need_special_finalizing_collection>>

UserThread == TakeSpecial \/ LocalFinalize \/ LocalThrow \/ LocalDestroy \/ LocalAddFreed

----------------------------------------------------------------------------
Next == Program \/ Collect \/ GcThread \/ UserThread

Spec == Init /\ [][Next]_vars

----------------------------------------------------------------------------
(* Every list holds objects, and holds them only while the thread that     *)
(* owns the list is at work.                                               *)
TypeOK ==
    /\ in_use \subseteq Objects
    /\ user_data \in [Objects -> Records]
    /\ \A o \in Objects : user_data[o].is_default => user_data[o] = Default
    /\ held \cup rooted \cup m_roots \cup finalized \cup reused \cup abandoned \subseteq Objects
    /\ m_freed_in_last_collection \subseteq Objects
    /\ m_need_special_finalizing_collection \subseteq Objects
    /\ gc \in {"finished", "finalize", "special", "destroy", "terminated"}
    /\ rest \cup to_be_freed \cup special \subseteq m_to_be_freed
    /\ m_to_be_freed \subseteq Objects
    /\ gc = "finished" => m_to_be_freed = {}
    /\ gc \notin {"finalize", "terminated"} => rest = {}
    /\ fin \in {"none", "finalize", "freed"}
    /\ vec_rest \subseteq vec /\ vec \cup fin_freed \subseteq Objects
    /\ fin # "finalize" => vec = {}
    /\ fin = "none" => fin_freed = {}

(* What the program reaches from its stacks stays allocated, whatever the  *)
(* gc thread and the user threads destroy behind its back (gc_thread.cpp   *)
(* 443, sparse_finalization.hpp 24).  HeldInUse says it of every object;   *)
(* HeldSurvive but for the slots that were allocated again while a user    *)
(* thread had still to finalize the object before.                         *)
HeldInUse == held \subseteq in_use

(* The slots reused too early are the only ones that are ever destroyed    *)
(* under an object the program holds (sparse_finalization.hpp 24).         *)
HeldSurvive == held \ reused \subseteq in_use

(* An object in a variable the program has made a root stays allocated:    *)
(* cgc1.hpp calls cgc_add_root "Add a root to scan."                       *)
RootedSurvive == rooted \subseteq in_use

(* An object marked uncollectable leaves the heap only when the program,   *)
(* which still holds it, frees it: neither the sweep (gc_thread.cpp 388)   *)
(* nor a list made before it was marked takes it, unless its slot was      *)
(* reused too early.                                                       *)
UncollectableKept ==
    [][\A o \in in_use \ reused :
           user_data[o].m_uncollectable /\ o \notin in_use' => o \in held]_vars

(* Why held objects survive: what a thread is about to destroy has been    *)
(* lost by the program and, once it is destroyed, is in use only if it has *)
(* been reused.                                                            *)
IInv ==
    /\ TypeOK
    /\ held \ reused \subseteq in_use
    /\ m_to_be_freed \subseteq in_use
    /\ held \cap m_to_be_freed = {}
    /\ held \cap Pending \subseteq reused
    /\ Pending \cap in_use \subseteq m_to_be_freed \cup reused
    /\ \A o \in m_to_be_freed : ~user_data[o].m_uncollectable
    /\ fin # "none" => gc = "finished" /\ m_need_special_finalizing_collection = {}
    /\ abandoned \cap (in_use \cup Pending \cup reused) = {}

(* Why finalizers run once: a finalizer that is still on record has not    *)
(* run, and whoever is done with an object has left none on its record.    *)
LifeInv ==
    /\ \A o \in in_use \ reused : o \in finalized => o \in m_to_be_freed
    /\ \A o \in (in_use \cup Pending) \ reused : user_data[o].m_finalizer => o \notin finalized
    /\ \A o \in m_to_be_freed : user_data[o].m_finalizer => o \in rest \cup special
    /\ \A o \in vec \ reused : user_data[o].m_finalizer => o \in vec_rest
    /\ gc = "destroy" => special \subseteq m_need_special_finalizing_collection

(* The stage of each object as the program sees it. *)
LifeOf(o) ==
    IF o \in reused THEN "reused"
    ELSE IF o \in abandoned THEN "abandoned"
    ELSE IF o \in m_to_be_freed \cup Pending
    THEN IF o \in finalized THEN "finalized" ELSE "condemned"
    ELSE IF o \in in_use THEN "live" ELSE "free"

Life == INSTANCE ObjectLife WITH
    life <- [o \in Objects |-> LifeOf(o)],
    reach <- held \ reused,
    wanting <- {o \in (in_use \cup Pending) \ reused : user_data[o].m_finalizer}

(* Sweep, finalization and destruction keep the promise of ObjectLife, in  *)
(* the form that names its two exceptions: finalizers run once, after the  *)
(* object is lost and before its slot is used again, but for what is       *)
(* reused too early and what is on a list given up to an exception.        *)
ImplementsObjectLife == Life!SparseSpec

============================================================================
