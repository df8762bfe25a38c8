----------------------------- MODULE ObjectLife -----------------------------
(***************************************************************************)
(* What the collector promises about each object: it is condemned only     *)
(* when the program has lost it, its finalizer runs once and only then,    *)
(* and its memory is free again only after that.                           *)
(***************************************************************************)
CONSTANT Objects

VARIABLES
    life,       \* the stage each object is in
    reach,      \* the objects the program can reach
    wanting     \* the objects with a finalizer that has still to run

vars == <<life, reach, wanting>>

Stages == {"free", "live", "condemned", "finalized", "reused", "abandoned"}

Init ==
    /\ life = [o \in Objects |-> "free"]
    /\ reach = {}
    /\ wanting = {}

In(stage) == {o \in Objects : life[o] = stage}

Become(S, stage) == life' = [o \in Objects |-> IF o \in S THEN stage ELSE life[o]]

Allocate(o) ==
    /\ life[o] \in {"free", "abandoned"}
    /\ Become({o}, "live")
    /\ reach' = reach \cup {o}
    /\ UNCHANGED wanting

Lose(o) ==
    /\ reach' = reach \ {o}
    /\ UNCHANGED <<life, wanting>>

Want(o) ==
    /\ o \in reach
    /\ wanting' = wanting \cup {o}
    /\ UNCHANGED <<life, reach>>

(* The program gives back an object itself: no finalizer runs. *)
Release(o) ==
    /\ o \in reach
    /\ Become({o}, "free")
    /\ reach' = reach \ {o}
    /\ wanting' = wanting \ {o}

(* A collection takes some of the lost objects; what nobody wants to       *)
(* finalize may be free at once.                                           *)
Collect ==
    \E S \in SUBSET (In("live") \ reach) : \E now \in SUBSET (S \ wanting) :
        /\ life' = [o \in Objects |-> IF o \in now THEN "free"
                                      ELSE IF o \in S THEN "condemned" ELSE life[o]]
        /\ UNCHANGED <<reach, wanting>>

Finalize(o) ==
    /\ life[o] = "condemned"
    /\ o \in wanting
    /\ Become({o}, "finalized")
    /\ wanting' = wanting \ {o}
    /\ UNCHANGED reach

Reclaim ==
    \E S \in SUBSET ((In("condemned") \cup In("finalized")) \ wanting) :
        /\ Become(S, "free")
        /\ UNCHANGED <<reach, wanting>>

Next ==
    \/ \E o \in Objects : Allocate(o) \/ Lose(o) \/ Want(o) \/ Release(o) \/ Finalize(o)
    \/ Collect
    \/ Reclaim

Spec == Init /\ [][Next]_vars

(* The two ways the sparse allocator fails the promise.  A slot is          *)
(* allocated again while a thread has it on a list; nothing more is said    *)
(* of it.                                                                   *)
Reuse(o) ==
    /\ life[o] \in {"condemned", "finalized"}
    /\ Become({o}, "reused")
    /\ wanting' = wanting \ {o}
    /\ UNCHANGED reach

(* An exception ends a thread's work on some objects for good: what was     *)
(* still to be finalized never is, and the memory is free.                  *)
Abandon ==
    \E S \in SUBSET (In("condemned") \cup In("finalized")) :
        /\ Become(S, "abandoned")
        /\ wanting' = wanting \ S
        /\ UNCHANGED reach

SparseNext == Next \/ Abandon \/ \E o \in Objects : Reuse(o)

SparseSpec == Init /\ [][SparseNext]_vars

(* What the promise comes to in each state: what the program can reach is   *)
(* alive, and no finalizer is still to run for an object that has been      *)
(* finalized or whose memory has been given back.                           *)
Kept ==
    /\ reach \subseteq In("live")
    /\ wanting \subseteq In("live") \cup In("condemned")
=============================================================================
