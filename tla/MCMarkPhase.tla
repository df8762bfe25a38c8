---------------------------- MODULE MCMarkPhase ----------------------------
(* MarkPhase on every small heap of two sparse objects, a bitmap object, an *)
(* atomic one, a freed sparse one and a free bitmap slot.                   *)
EXTENDS MarkPhase, FiniteSetsExt

CONSTANTS s1, s2, b, a, d, f

MCObjects  == {s1, s2, b, a, d, f}
MCSparse   == {s1, s2, a, d}
MCAtomic   == {a}
MCDead     == {d, f}

(* At most n words that are addresses, and one that is none. *)
UpTo(n) == {S \cup {Nowhere} : S \in UNION {kSubset(k, MCObjects) : k \in 0..n}}

(* What an atomic or a freed sparse object holds must not matter; a free    *)
(* bitmap slot still holds the last address its object had.                 *)
MCHeaps == {[o \in MCObjects |-> CASE o = s1 -> h1 [] o = s2 -> h2 [] o = b -> hb
                                   [] o = f -> {s2, Nowhere} [] OTHER -> {s1, b}]
              : h1 \in UpTo(2), h2 \in UpTo(1), hb \in UpTo(1)}

MCRootSets == {{s1, Nowhere}, {b}, {a, d, s2}}
MCOldMarks == {{}, MCObjects}
=============================================================================
