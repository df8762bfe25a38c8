--------------------------- MODULE BitmapReclaim ---------------------------
(***************************************************************************)
(* What happens to the objects of the bitmap allocator, which serves the   *)
(* small sizes.  A block holds slots of one size and type, with one bit    *)
(* per slot for "free", "marked" and "finalizeable".  force_collect takes  *)
(* the blocks one by one (bitmap_finalization.cpp, finalize): it runs the  *)
(* finalizers of the unmarked objects itself, zeroes the objects and frees *)
(* them, all while the world stands still.                                 *)
(*                                                                         *)
(* Marking is one step: MarkPhase shows that it marks exactly the          *)
(* reachable objects.  Blocks, bits and slots belong to mcppalloc; what    *)
(* deallocation does to a slot's memory and user bits is left open.        *)
(* Finalizers touch nothing but their own object.  The bit and the flag    *)
(* for arbitrary threads are written and never read: not modelled.         *)
(***************************************************************************)
EXTENDS FiniteSets

CONSTANTS
    Objects,    \* the slots of the bitmap allocator
    Blocks,     \* the blocks, each the set of its slots
    Typed       \* the blocks of type 2, whose objects carry user data

ASSUME BitmapAssumption ==
    /\ UNION Blocks = Objects
    /\ \A b, c \in Blocks : b = c \/ b \cap c = {}
    /\ Typed \subseteq Blocks

VARIABLES
    in_use,             \* the allocated slots
    contents,           \* the slots whose memory is not zero
    m_finalizer,        \* the slots whose user data hold a finalizer
    abort_on_collect,   \* those whose user data ask to abort
    finalizeable,       \* the user bit
    held,               \* the objects the program reaches
    marked,             \* the mark bits
    at,                 \* where the collector is in the finalization
    todo,               \* the blocks it has still to take
    block,              \* the block it is in
    to_be_freed, free_with_finalizer,   \* its local bitmaps
    rest,               \* the objects its loop has still to look at
    finalized           \* the objects whose finalizer has run (in no code)

userData == <<m_finalizer, abort_on_collect>>
localVars == <<block, to_be_freed, free_with_finalizer>>
vars == <<in_use, contents, userData, finalizeable, held, marked, at, todo, localVars, rest,
          finalized>>

(* bitmap_allocator_user_data is null for every other object. *)
HasUserData(o) == o \in UNION Typed

Init ==
    /\ in_use = {} /\ contents = {} /\ held = {} /\ marked = {} /\ finalized = {}
    /\ m_finalizer = {} /\ abort_on_collect = {} /\ finalizeable = {}
    /\ at = "running" /\ todo = {} /\ block = {}
    /\ to_be_freed = {} /\ free_with_finalizer = {} /\ rest = {}

----------------------------------------------------------------------------
(* The program.  It runs while no collection has stopped the world.        *)

Running ==
    /\ at = "running"
    /\ UNCHANGED <<marked, at, todo, localVars, rest>>

(* Slip: the user data of the occupant before are kept. *)
AllocateBug(o) ==
    /\ Running
    /\ o \notin in_use
    /\ in_use' = in_use \cup {o}
    /\ held' = held \cup {o}
    /\ contents' = contents \cup {o}
    /\ finalized' = finalized \ {o}
    /\ UNCHANGED <<userData, finalizeable>>

(* allocate, allocate_raw and allocate_atomic; the program fills the memory. *)
(* Only the user data are reset, the user bits are not.                      *)
Allocate(o) ==
    /\ Running
    /\ o \notin in_use
    /\ in_use' = in_use \cup {o}
    /\ held' = held \cup {o}
    /\ contents' = contents \cup {o}
    /\ m_finalizer' = m_finalizer \ {o}
    /\ abort_on_collect' = abort_on_collect \ {o}
    /\ finalized' = finalized \ {o}
    /\ UNCHANGED finalizeable

Drop(o) ==
    /\ Running
    /\ o \in held
    /\ held' = held \ {o}
    /\ UNCHANGED <<in_use, contents, userData, finalizeable, finalized>>

(* cgc_free. *)
Free(o) ==
    /\ Running
    /\ o \in held
    /\ held' = held \ {o}
    /\ in_use' = in_use \ {o}
    /\ contents' \in {contents, contents \ {o}}
    /\ finalizeable' \in {finalizeable, finalizeable \ {o}}
    /\ UNCHANGED <<userData, finalized>>

(* Slip: the type of the block is not looked at. *)
RegisterFinalizerBug(o) ==
    /\ Running
    /\ o \in held
    /\ finalizeable' = finalizeable \cup {o}
    /\ m_finalizer' = m_finalizer \cup {o}
    /\ UNCHANGED <<in_use, contents, abort_on_collect, held, finalized>>

(* cgc_register_finalizer; without user data it throws or does nothing. *)
RegisterFinalizer(o) ==
    /\ Running
    /\ o \in held
    /\ HasUserData(o)
    /\ finalizeable' = finalizeable \cup {o}
    /\ m_finalizer' = m_finalizer \cup {o}
    /\ UNCHANGED <<in_use, contents, abort_on_collect, held, finalized>>

(* cgc_set_abort_on_collect; without user data it throws. *)
SetAbortOnCollect(o) ==
    /\ Running
    /\ o \in held
    /\ HasUserData(o)
    /\ abort_on_collect' \in {abort_on_collect \cup {o}, abort_on_collect \ {o}}
    /\ UNCHANGED <<in_use, contents, m_finalizer, finalizeable, held, finalized>>

Program ==
    \E o \in Objects :
        Allocate(o) \/ Drop(o) \/ Free(o) \/ RegisterFinalizer(o) \/ SetAbortOnCollect(o)

----------------------------------------------------------------------------
(* The collector. *)

(* The mark bits are cleared and set anew.  Marking does not ask whether a *)
(* slot is in use: a stale word marks a free one.                          *)
Collect ==
    /\ at = "running"
    /\ \E stale \in SUBSET (Objects \ in_use) : marked' = held \cup stale
    /\ todo' = Blocks
    /\ at' = "blocks"
    /\ UNCHANGED <<in_use, contents, userData, finalizeable, held, localVars, rest, finalized>>

(* Slip: the marks are not looked at. *)
ToBeFreedBug(b) == b \cap in_use

(* or_with_to_be_freed. *)
ToBeFreed(b) == (b \cap in_use) \ marked

(* The two local bitmaps of a block. *)
TakeBlock ==
    /\ at = "blocks"
    /\ \E b \in todo :
           /\ block' = b
           /\ to_be_freed' = ToBeFreed(b)
           /\ free_with_finalizer' = ToBeFreed(b) \cap finalizeable
    /\ rest' = free_with_finalizer'
    /\ at' = "loop"
    /\ UNCHANGED <<in_use, contents, userData, finalizeable, held, marked, todo, finalized>>

(* Slip: the flag is not looked at. *)
MayFinalizeBug(o) == TRUE

MayFinalize(o) == o \notin abort_on_collect

(* The program is terminated: by an object that must not be collected. *)
Abort ==
    /\ at = "loop"
    /\ \E o \in rest : ~MayFinalize(o)
    /\ at' = "terminated"
    /\ UNCHANGED <<in_use, contents, userData, finalizeable, held, marked, todo, localVars,
                   rest, finalized>>

(* Taking the finalizer out of the user data and calling it.  A bit that   *)
(* outlived its object finds no finalizer: std::bad_function_call, caught  *)
(* like every std::exception.                                              *)
CallFinalizer(o) ==
    /\ MayFinalize(o)
    /\ finalizeable' = finalizeable \ {o}
    /\ finalized' = IF o \in m_finalizer THEN finalized \cup {o} ELSE finalized
    /\ m_finalizer' = m_finalizer \ {o}
    /\ UNCHANGED <<in_use, abort_on_collect, held, marked, todo, localVars>>

(* One turn of the loop.  Zeroing the object zeroes its user data. *)
Finalize ==
    /\ at = "loop"
    /\ \E o \in rest :
           /\ CallFinalizer(o)
           /\ rest' = rest \ {o}
           /\ contents' = contents \ {o}
    /\ UNCHANGED at

(* An exception that is no std::exception terminates the program. *)
Throw ==
    /\ at = "loop"
    /\ \E o \in rest \cap m_finalizer : CallFinalizer(o)
    /\ at' = "terminated"
    /\ UNCHANGED <<rest, contents>>

(* Slip: the complement is forgotten. *)
WithoutFinalizerBug == to_be_freed \cap free_with_finalizer

WithoutFinalizer == to_be_freed \ free_with_finalizer

(* The objects without a finalizer, user data included. *)
ZeroRest ==
    /\ at = "loop"
    /\ rest = {}
    /\ contents' = contents \ WithoutFinalizer
    /\ m_finalizer' = m_finalizer \ WithoutFinalizer
    /\ abort_on_collect' = abort_on_collect \ WithoutFinalizer
    /\ at' = "free"
    /\ UNCHANGED <<in_use, finalizeable, held, marked, todo, localVars, rest, finalized>>

(* free_unmarked, and on to the next block. *)
FreeUnmarked ==
    /\ at = "free"
    /\ in_use' = in_use \ (block \ marked)
    /\ todo' = todo \ {block}
    /\ at' = IF todo' = {} THEN "running" ELSE "blocks"
    /\ UNCHANGED <<contents, userData, finalizeable, held, marked, localVars, rest, finalized>>

Collector ==
    Collect \/ TakeBlock \/ Abort \/ Finalize \/ Throw \/ ZeroRest \/ FreeUnmarked

Next == Program \/ Collector

Spec == Init /\ [][Next]_vars

----------------------------------------------------------------------------
(* Only objects with user data are finalizeable, and the local bitmaps     *)
(* belong to the block at hand.                                            *)
TypeOK ==
    /\ in_use \cup contents \cup held \cup marked \cup finalized \subseteq Objects
    /\ m_finalizer \cup abort_on_collect \cup finalizeable \subseteq UNION Typed
    /\ at \in {"running", "blocks", "loop", "free", "terminated"}
    /\ todo \subseteq Blocks
    /\ at = "running" => todo = {}
    /\ at \in {"loop", "free"} =>
           /\ block \in todo
           /\ to_be_freed = ToBeFreed(block)
           /\ rest \subseteq free_with_finalizer
           /\ free_with_finalizer \subseteq to_be_freed

(* What the program reaches is neither freed nor zeroed by the collection  *)
(* (bitmap_finalization.cpp 48-56 wipe and free in bulk).                  *)
HeldIntact == held \subseteq in_use \cap contents

(* The collector frees no slot before its memory is zero: the thread       *)
(* policy of this allocator does not zero on allocation (gc_allocator.hpp  *)
(* 29), so what the sweep leaves behind is what the next occupant, and the *)
(* next conservative marking, would read.                                  *)
SweptIsZero == [][\A o \in in_use : o \notin in_use' => o \in held \/ o \notin contents]_vars

(* An object with a finalizer that must not be collected is not: the       *)
(* program is terminated before any step takes it from the heap            *)
(* (bitmap_finalization.cpp 32).                                           *)
AbortsInstead ==
    [][\A o \in in_use \cap abort_on_collect \cap finalizeable :
           o \notin in_use' \/ o \in finalized' => o \in held]_vars

(* The objects the collection under way has found dead and not yet freed. *)
Doomed == {o \in in_use \ marked : \E b \in todo : o \in b}

(* Why nothing held is lost and no finalizer is: only unmarked objects are *)
(* wiped, everything held is marked, a finalizer has its bit set, and a    *)
(* bit that is set belongs to an object the loop has still to take.        *)
IInv ==
    /\ TypeOK
    /\ HeldIntact
    /\ at # "running" => held \subseteq marked
    /\ m_finalizer \cap in_use \subseteq finalizeable
    /\ finalizeable \cap in_use \cap finalized = {}
    /\ finalized \cap in_use \subseteq Doomed
    /\ at = "loop" => /\ finalizeable \cap to_be_freed \subseteq rest
                      /\ contents \cap free_with_finalizer \subseteq rest
    /\ at = "free" => to_be_freed \cap (finalizeable \cup contents) = {}

LifeOf(o) ==
    IF o \notin in_use THEN "free"
    ELSE IF o \notin Doomed THEN "live"
    ELSE IF o \in finalized THEN "finalized" ELSE "condemned"

Life == INSTANCE ObjectLife WITH
    life <- [o \in Objects |-> LifeOf(o)],
    reach <- held,
    wanting <- m_finalizer \cap in_use

(* The bitmap allocator's objects keep the promise of ObjectLife as those  *)
(* of the sparse one do: a finalizer runs once, for the object it was      *)
(* registered for and not a later one in its slot, after the object is     *)
(* lost and before its slot is used again.                                 *)
ImplementsObjectLife == Life!Spec
=============================================================================
