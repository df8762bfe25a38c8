----------------------------- MODULE MarkPhase -----------------------------
(***************************************************************************)
(* How gc_thread_t clears the marks and marks what is reachable, while the *)
(* world is stopped and the heap does not change.  _mark_addrs recurses    *)
(* into an object's words; past a depth that differs for the two           *)
(* allocators an address goes to m_addresses_to_mark instead, and that set *)
(* is worked off at the end.                                               *)
(*                                                                         *)
(* The recursion is the sequence stack: a frame is an object being scanned *)
(* and the words of it not looked at yet, in any order.  An address stands *)
(* for the object it points into, as the conservative lookup finds it, and *)
(* Nowhere for every word that is no address of the two heaps.             *)
(***************************************************************************)
EXTENDS Naturals, Sequences

CONSTANTS
    Objects,        \* the addresses of objects
    Sparse,         \* those of the sparse allocator; the others are bitmap's
    Atomic,         \* flagged atomic, or of a bitmap type that is not scanned
    Dead,           \* addresses at which no object is in use: free slots, stale words
    Nowhere,
    Heaps,          \* what the words of each object may hold
    RootSets,       \* what the words of the stacks and the roots may hold
    OldMarks,       \* the marks the collection before may have left
    SparseDepth, BitmapDepth

Words == Objects \cup {Nowhere}

ASSUME ObjectsAssumption == Sparse \subseteq Objects /\ Nowhere \notin Objects
ASSUME HeapsAssumption == Heaps \subseteq [Objects -> SUBSET Words]
ASSUME RootsAssumption == RootSets \subseteq SUBSET Words
ASSUME MarksAssumption == OldMarks \subseteq SUBSET Objects
ASSUME DepthAssumption == SparseDepth \in Nat /\ BitmapDepth \in Nat

VARIABLES
    points,     \* the words of each object
    given,      \* the words of the stacks and the roots
    mpc,        \* where the collection is
    cleared,    \* who has cleared its marks: the gc thread, the collector
    marked,
    roots,      \* root words not looked at yet
    to_mark,    \* m_addresses_to_mark
    stack

heap == <<points, given>>
vars == <<heap, mpc, cleared, marked, roots, to_mark, stack>>

(* Whether an object is in use is asked of the sparse ones only: a free     *)
(* slot of the bitmap allocator is marked, and what it still holds scanned. *)
Markable == Objects \ (Sparse \cap Dead)

Init ==
    /\ points \in Heaps
    /\ given \in RootSets
    /\ mpc = "clear"
    /\ cleared = {}
    /\ marked \in OldMarks
    /\ roots = given
    /\ to_mark = {}
    /\ stack = <<>>

-----------------------------------------------------------------------------
(* Clearing: the gc thread walks the blocks of the sparse allocator while   *)
(* the collector clears the mark bits of the bitmap allocator.              *)

Clear(who, keep) ==
    /\ mpc = "clear"
    /\ who \notin cleared
    /\ cleared' = cleared \cup {who}
    /\ marked' = marked \cap keep
    /\ UNCHANGED <<heap, mpc, roots, to_mark, stack>>

ClearMarks    == Clear("gc thread", Objects \ Sparse)
ClearMarkBits == Clear("collector", Sparse)

StartMark ==
    /\ mpc = "clear"
    /\ cleared = {"gc thread", "collector"}
    /\ mpc' = "roots"
    /\ UNCHANGED <<heap, cleared, marked, roots, to_mark, stack>>

-----------------------------------------------------------------------------
(* _mark_addrs(a, depth), with the frames s below it and tm deferred. *)

(* Slip: a word is put off before anyone looks whether it is an address. *)
DefersBug(a, depth) == a \notin marked /\ depth > SparseDepth

(* The sparse allocator looks at the depth last, the bitmap one first. *)
Defers(a, depth) ==
    \/ a \in Objects \ Sparse /\ depth > BitmapDepth
    \/ a \in (Sparse \cap Markable) \ (marked \cup Atomic) /\ depth > SparseDepth

Skip(a, depth, s, tm) ==
    /\ ~Defers(a, depth)
    /\ a \notin Markable \/ a \in marked
    /\ stack' = s
    /\ to_mark' = tm
    /\ UNCHANGED marked

(* Slip: an object that is deferred is marked already. *)
DeferBug(a, depth, s, tm) ==
    /\ Defers(a, depth)
    /\ stack' = s
    /\ to_mark' = tm \cup {a}
    /\ marked' = marked \cup {a}

Defer(a, depth, s, tm) ==
    /\ Defers(a, depth)
    /\ stack' = s
    /\ to_mark' = tm \cup {a}
    /\ UNCHANGED marked

(* Slip: atomic objects are scanned. *)
MarkBug(a, depth, s, tm) ==
    /\ ~Defers(a, depth)
    /\ a \in Markable \ marked
    /\ marked' = marked \cup {a}
    /\ stack' = Append(s, [object |-> a, words |-> points[a]])
    /\ to_mark' = tm

Mark(a, depth, s, tm) ==
    /\ ~Defers(a, depth)
    /\ a \in Markable \ marked
    /\ marked' = marked \cup {a}
    /\ stack' = IF a \in Atomic THEN s
                ELSE Append(s, [object |-> a, words |-> points[a]])
    /\ to_mark' = tm

MarkAddr(a, depth, s, tm) ==
    Skip(a, depth, s, tm) \/ Defer(a, depth, s, tm) \/ Mark(a, depth, s, tm)

-----------------------------------------------------------------------------
(* _mark: every root word, then what was deferred. *)

MarkRoot ==
    /\ mpc = "roots"
    /\ stack = <<>>
    /\ \E a \in roots :
        /\ roots' = roots \ {a}
        /\ MarkAddr(a, 0, <<>>, to_mark)
    /\ UNCHANGED <<heap, mpc, cleared>>

Top == stack[Len(stack)]
Below == SubSeq(stack, 1, Len(stack) - 1)

(* The frames once word a of the uppermost one has been taken. *)
Rest(a) == Append(Below, [Top EXCEPT !.words = @ \ {a}])

(* Slip: the depth is not passed on. *)
ChildDepthBug == 0

ChildDepth == Len(stack)

MarkWord ==
    /\ stack # <<>>
    /\ \E a \in Top.words : MarkAddr(a, ChildDepth, Rest(a), to_mark)
    /\ UNCHANGED <<heap, mpc, cleared, roots>>

Return ==
    /\ stack # <<>>
    /\ Top.words = {}
    /\ stack' = Below
    /\ UNCHANGED <<heap, mpc, cleared, marked, roots, to_mark>>

StartVector ==
    /\ mpc = "roots"
    /\ stack = <<>> /\ roots = {}
    /\ mpc' = "vector"
    /\ UNCHANGED <<heap, cleared, marked, roots, to_mark, stack>>

(* Slip: the address stays in the set. *)
MarkDeferredBug ==
    /\ mpc = "vector"
    /\ stack = <<>>
    /\ \E a \in to_mark : MarkAddr(a, 0, <<>>, to_mark)
    /\ UNCHANGED <<heap, mpc, cleared, roots>>

(* One address is taken from the set; marking it may add others. *)
MarkDeferred ==
    /\ mpc = "vector"
    /\ stack = <<>>
    /\ \E a \in to_mark : MarkAddr(a, 0, <<>>, to_mark \ {a})
    /\ UNCHANGED <<heap, mpc, cleared, roots>>

Finish ==
    /\ mpc = "vector"
    /\ stack = <<>> /\ to_mark = {}
    /\ mpc' = "done"
    /\ UNCHANGED <<heap, cleared, marked, roots, to_mark, stack>>

Next ==
    \/ ClearMarks \/ ClearMarkBits \/ StartMark
    \/ MarkRoot \/ MarkWord \/ Return \/ StartVector \/ MarkDeferred \/ Finish

Spec == Init /\ [][Next]_vars

FairSpec == Spec /\ WF_vars(Next)

-----------------------------------------------------------------------------
(* Properties. *)

Frame == [object : Objects, words : SUBSET Words]

TypeOK ==
    /\ points \in Heaps
    /\ given \in RootSets
    /\ mpc \in {"clear", "roots", "vector", "done"}
    /\ cleared \subseteq {"gc thread", "collector"}
    /\ marked \subseteq Objects
    /\ roots \subseteq Words
    /\ to_mark \subseteq Objects
    /\ stack \in Seq(Frame)

(* S holds the roots that can be marked and what the objects in it point to.*)
Closed(S) ==
    /\ given \cap Markable \subseteq S
    /\ \A o \in S \ Atomic : points[o] \cap Markable \subseteq S

Reachable == {o \in Markable : \A S \in SUBSET Markable : Closed(S) => o \in S}

(* Marking ends with exactly the objects that can be reached from the       *)
(* stacks and the roots without passing through an atomic object: what      *)
(* _sweep frees is garbage.  A stale address of a free bitmap slot counts   *)
(* as a way to what the slot holds, one of a freed sparse object does not.  *)
MarksExactlyReachable == mpc = "done" => marked = Reachable

(* Words of frames that scan o and have not been looked at. *)
Unseen(o) ==
    {w \in Words : \E i \in DOMAIN stack : stack[i].object = o /\ w \in stack[i].words}

(* At every moment of the marking, what a marked object points to is marked *)
(* itself, deferred, or a word its scan has yet to come to: an address put  *)
(* off for its depth is never forgotten.                                    *)
NothingForgotten ==
    mpc \in {"roots", "vector"} =>
        /\ given \cap Markable \subseteq marked \cup to_mark \cup roots
        /\ \A o \in marked \ Atomic :
                points[o] \cap Markable \subseteq marked \cup to_mark \cup Unseen(o)

(* _mark_mark_vector "is how infinite recursion is prevented": the          *)
(* recursion never gets deeper than one frame past the larger limit.        *)
RecursionBounded == Len(stack) <= SparseDepth + 1 \/ Len(stack) <= BitmapDepth + 1

(* Marking ends, whatever cycles the heap has. *)
MarkingEnds == <>(mpc = "done")
=============================================================================
