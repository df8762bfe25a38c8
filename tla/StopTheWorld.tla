---------------------------- MODULE StopTheWorld ----------------------------
(***************************************************************************)
(* What the suspension of threads promises to the collection: a collector  *)
(* that has begun halts every other member one by one, goes through its    *)
(* phases only while all of them are halted, then lets them resume.        *)
(***************************************************************************)
CONSTANTS Threads, None

VARIABLES
    members,    \* the registered threads
    collector,  \* the member that collects, or None
    halted,     \* the members that stand still
    phase       \* what the collection is doing

vars == <<members, collector, halted, phase>>

Init ==
    /\ members = {}
    /\ collector = None
    /\ halted = {}
    /\ phase = "none"

Join(t) ==
    /\ collector = None
    /\ members' = members \cup {t}
    /\ UNCHANGED <<collector, halted, phase>>

Leave(t) ==
    /\ collector = None
    /\ t \notin halted
    /\ members' = members \ {t}
    /\ UNCHANGED <<collector, halted, phase>>

(* A collection begins when nobody is halted any more. *)
Begin(t) ==
    /\ collector = None
    /\ t \in members
    /\ halted = {}
    /\ collector' = t
    /\ phase' = "stopping"
    /\ UNCHANGED <<members, halted>>

Halt(t) ==
    /\ phase = "stopping"
    /\ t \in members \ (halted \cup {collector})
    /\ halted' = halted \cup {t}
    /\ UNCHANGED <<members, collector, phase>>

AllHalted == halted = members \ {collector}

Phase(from, to) ==
    /\ phase = from
    /\ AllHalted
    /\ phase' = to
    /\ UNCHANGED <<members, collector, halted>>

End ==
    /\ phase = "done"
    /\ phase' = "none"
    /\ collector' = None
    /\ UNCHANGED <<members, halted>>

Resume(t) ==
    /\ collector = None
    /\ t \in halted
    /\ halted' = halted \ {t}
    /\ UNCHANGED <<members, collector, phase>>

Next ==
    \/ \E t \in Threads : Join(t) \/ Leave(t) \/ Begin(t) \/ Halt(t) \/ Resume(t)
    \/ Phase("stopping", "clear") \/ Phase("clear", "mark") \/ Phase("mark", "sweep")
    \/ Phase("sweep", "done") \/ End

Spec == Init /\ [][Next]_vars
=============================================================================
