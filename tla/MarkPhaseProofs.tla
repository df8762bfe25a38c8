-------------------------- MODULE MarkPhaseProofs --------------------------
(***************************************************************************)
(* That marking finds exactly what is reachable, for every heap, every set *)
(* of roots and every pair of depth limits.                                *)
(***************************************************************************)
EXTENDS MarkPhase, SequenceTheorems, TLAPS

(* What is to be marked yet holds only while the phases last. *)
Phases ==
    /\ mpc = "clear" =>
        /\ stack = <<>> /\ to_mark = {} /\ roots = given
        /\ "gc thread" \in cleared => marked \subseteq Objects \ Sparse
        /\ "collector" \in cleared => marked \subseteq Sparse
    /\ mpc \in {"vector", "done"} => roots = {}
    /\ mpc = "done" => stack = <<>> /\ to_mark = {}

(* NothingForgotten, to the very end. *)
Complete ==
    mpc # "clear" =>
        /\ given \cap Markable \subseteq marked \cup to_mark \cup roots
        /\ \A o \in marked \ Atomic :
                points[o] \cap Markable \subseteq marked \cup to_mark \cup Unseen(o)

(* Whatever is marked or may come to be marked is in every closed set. *)
Sound ==
    mpc # "clear" =>
        /\ marked \subseteq Markable
        /\ \A S \in SUBSET Markable : Closed(S) =>
                /\ marked \cup (to_mark \cap Markable) \cup (roots \cap Markable) \subseteq S
                /\ \A i \in 1..Len(stack) : stack[i].words \cap Markable \subseteq S

MarkInv == TypeOK /\ Phases /\ Complete /\ Sound

-----------------------------------------------------------------------------
(* What one call of _mark_addrs does: the address is marked or deferred if  *)
(* it is live, the frames below stay, and a frame on top of them scans it.  *)
LEMMA Marking ==
    ASSUME TypeOK, NEW a \in Words, NEW STATE depth, depth \in Nat, NEW STATE s, s \in Seq(Frame),
           NEW STATE tm, tm \in SUBSET Objects, MarkAddr(a, depth, s, tm)
    PROVE  /\ stack' \in Seq(Frame)
           /\ marked \subseteq marked' /\ marked' \subseteq marked \cup ({a} \cap Markable)
           /\ tm \subseteq to_mark' /\ to_mark' \subseteq tm \cup ({a} \cap Objects)
           /\ a \in Markable => a \in marked' \cup to_mark'
           /\ Len(s) <= Len(stack')
           /\ \A i \in 1..Len(s) : stack'[i] = s[i]
           /\ \A i \in 1..Len(stack') :
                i \in 1..Len(s) \/ (a \in marked' \ Atomic /\ stack'[i].words = points[a])
           /\ a \in (marked' \ marked) \ Atomic =>
                \E i \in 1..Len(stack') : stack'[i].object = a /\ stack'[i].words = points[a]
  <1>1. points \in [Objects -> SUBSET Words] /\ marked \subseteq Objects
    BY HeapsAssumption DEF TypeOK
  <1>2. CASE Skip(a, depth, s, tm)
    BY <1>1, <1>2 DEF Skip, Markable
  <1>3. CASE Defer(a, depth, s, tm)
    BY <1>1, <1>3 DEF Defer, Defers, Markable
  <1>4. CASE Mark(a, depth, s, tm)
    <2> DEFINE f == [object |-> a, words |-> points[a]]
    <2>1. a \in Markable /\ a \in Objects /\ marked' = marked \cup {a} /\ to_mark' = tm
      BY <1>4 DEF Mark, Markable
    <2>2. f \in Frame
      BY <1>1, <2>1 DEF Frame
    <2>3. CASE a \in Atomic
      BY <1>4, <2>1, <2>3 DEF Mark
    <2>4. CASE a \notin Atomic
      <3>1. stack' = Append(s, f)
        BY <1>4, <2>4 DEF Mark
      <3>2. /\ stack' \in Seq(Frame)
            /\ Len(stack') = Len(s) + 1
            /\ \A i \in 1..Len(s) : stack'[i] = s[i]
            /\ stack'[Len(s) + 1] = f
        BY <2>2, <3>1, AppendProperties
      <3>3. Len(s) \in Nat /\ f.object = a /\ f.words = points[a]
        BY LenProperties
      <3>. HIDE DEF f
      <3>4. \A i \in 1..Len(stack') : i \in 1..Len(s) \/ i = Len(s) + 1
        BY <3>2, <3>3
      <3>5. Len(s) + 1 \in 1..Len(stack')
        BY <3>2, <3>3
      <3>. QED  BY <2>1, <2>4, <3>2, <3>3, <3>4, <3>5
    <2>. QED  BY <2>3, <2>4
  <1>. QED  BY <1>2, <1>3, <1>4 DEF MarkAddr

(* The frames under the uppermost one. *)
LEMMA Lower ==
    ASSUME TypeOK, stack # <<>>
    PROVE  /\ Len(stack) \in Nat \ {0}
           /\ Below \in Seq(Frame)
           /\ Len(Below) = Len(stack) - 1
           /\ \A i \in 1..(Len(stack) - 1) : Below[i] = stack[i]
  <1>1. stack \in Seq(Frame) /\ Len(stack) \in Nat \ {0}
    BY EmptySeq, LenProperties DEF TypeOK
  <1> DEFINE n == Len(stack) - 1
  <1>2. n \in Nat /\ 1 \in Int /\ \A i \in 1..n : stack[i] \in Frame
    BY <1>1, ElementOfSeq
  <1>3. n \in Int /\ n - 1 + 1 = n /\ \A i \in 1..n : 1 + i - 1 = i
    BY <1>2
  <1>4. Below = SubSeq(stack, 1, n)
    BY DEF Below
  <1>. HIDE DEF n
  <1>5. /\ SubSeq(stack, 1, n) \in Seq(Frame)
        /\ Len(SubSeq(stack, 1, n)) = IF 1 <= n THEN n - 1 + 1 ELSE 0
        /\ \A i \in 1..(n - 1 + 1) : SubSeq(stack, 1, n)[i] = stack[1 + i - 1]
    BY <1>2, <1>3, SubSeqProperties
  <1>6. Len(Below) = n /\ \A i \in 1..n : Below[i] = stack[i]
    BY <1>2, <1>3, <1>4, <1>5
  <1>. QED  BY <1>1, <1>4, <1>5, <1>6 DEF n

(* The frames while word a of the uppermost one is being marked. *)
LEMMA Scanning ==
    ASSUME TypeOK, stack # <<>>, NEW a \in Top.words
    PROVE  /\ Rest(a) \in Seq(Frame) /\ Len(Rest(a)) = Len(stack)
           /\ a \in Words /\ Len(stack) \in Nat \ {0} /\ a \in stack[Len(stack)].words
           /\ \A i \in 1..Len(stack) :
                /\ Rest(a)[i].object = stack[i].object
                /\ Rest(a)[i].words \subseteq stack[i].words
                /\ stack[i].words \subseteq Rest(a)[i].words \cup {a}
  <1>1. stack \in Seq(Frame) /\ Len(stack) \in Nat \ {0}
    BY EmptySeq, LenProperties DEF TypeOK
  <1>2. Top \in Frame /\ \A i \in 1..Len(stack) : stack[i] \in Frame
    BY <1>1, ElementOfSeq DEF Top
  <1>3. a \in Words
    BY <1>2 DEF Frame
  <1> DEFINE f == [Top EXCEPT !.words = @ \ {a}]
  <1>4. f \in Frame /\ f.object = Top.object /\ f.words = Top.words \ {a}
    BY <1>2 DEF Frame
  <1>5. Rest(a) = Append(Below, f)
    BY DEF Rest
  <1>. HIDE DEF f
  <1>6. /\ Below \in Seq(Frame)
        /\ Len(Below) = Len(stack) - 1
        /\ \A i \in 1..(Len(stack) - 1) : Below[i] = stack[i]
    BY Lower
  <1>7. /\ Rest(a) \in Seq(Frame) /\ Len(Rest(a)) = Len(stack)
        /\ \A i \in 1..(Len(stack) - 1) : Rest(a)[i] = stack[i]
        /\ Rest(a)[Len(stack)] = f
    BY <1>1, <1>4, <1>5, <1>6, AppendProperties
  <1>8. ASSUME NEW i \in 1..Len(stack)
        PROVE  /\ Rest(a)[i].object = stack[i].object
               /\ Rest(a)[i].words \subseteq stack[i].words
               /\ stack[i].words \subseteq Rest(a)[i].words \cup {a}
    <2>1. CASE i = Len(stack)
      BY <1>4, <1>7, <2>1 DEF Top
    <2>2. CASE i # Len(stack)
      BY <1>1, <1>7, <2>2
    <2>. QED  BY <2>1, <2>2
  <1>. QED  BY <1>1, <1>3, <1>7, <1>8 DEF Top

-----------------------------------------------------------------------------
(* What one call of _mark_addrs preserves, wherever it is made from: rs are *)
(* the root words left, s and tm what the caller leaves of the frames and   *)
(* of m_addresses_to_mark.                                                  *)
LEMMA MarkAddrComplete ==
    ASSUME TypeOK, Complete, mpc # "clear", NEW a \in Words,
           NEW STATE s, s \in Seq(Frame), NEW STATE tm, tm \in SUBSET Objects,
           UNCHANGED <<heap, mpc>>,
           stack' \in Seq(Frame),
           marked \subseteq marked', marked' \subseteq marked \cup ({a} \cap Markable),
           tm \subseteq to_mark',
           a \in Markable => a \in marked' \cup to_mark',
           Len(s) <= Len(stack'),
           \A i \in 1..Len(s) : stack'[i] = s[i],
           a \in (marked' \ marked) \ Atomic =>
                \E i \in 1..Len(stack') : stack'[i].object = a /\ stack'[i].words = points[a],
           roots \subseteq roots' \cup {a}, to_mark \subseteq tm \cup {a},
           Len(s) = Len(stack),
           \A i \in 1..Len(stack) :
                s[i].object = stack[i].object /\ stack[i].words \subseteq s[i].words \cup {a}
    PROVE  Complete'
  <1>1. /\ points \in [Objects -> SUBSET Words] /\ given \subseteq Words
        /\ DOMAIN stack = 1..Len(stack) /\ DOMAIN stack' = 1..Len(stack')
        /\ Len(stack) \in Nat /\ Len(stack') \in Nat /\ marked \subseteq Objects
    BY HeapsAssumption, RootsAssumption, LenProperties DEF TypeOK
  <1>2. given' \cap Markable \subseteq marked' \cup to_mark' \cup roots'
    BY DEF Complete, heap
  <1>3. ASSUME NEW o \in marked' \ Atomic, NEW p \in points[o] \cap Markable
        PROVE  p \in marked' \cup to_mark' \cup Unseen(o)'
    <2>0. o \in Objects /\ p \in Words
      BY <1>1, <1>3 DEF Markable
    <2>1. CASE o \in marked
      <3>1. p \in marked \cup to_mark \cup Unseen(o)
        BY <2>1, <1>3 DEF Complete
      <3>2. CASE p \in Unseen(o)
        <4>1. PICK i \in 1..Len(stack) : stack[i].object = o /\ p \in stack[i].words
          BY <1>1, <3>2 DEF Unseen
        <4>2. i \in 1..Len(stack') /\ stack'[i] = s[i] /\ s[i].object = o
          BY <1>1, <4>1
        <4>3. p \in s[i].words \/ p = a
          BY <4>1
        <4>4. p \in s[i].words => p \in Unseen(o)'
          BY <1>1, <2>0, <4>2 DEF Unseen
        <4>. QED  BY <4>3, <4>4
      <3>. QED  BY <3>1, <3>2
    <2>2. CASE o \notin marked
      <3>1. o = a /\ o \in (marked' \ marked) \ Atomic
        BY <2>2, <1>3
      <3>2. PICK i \in 1..Len(stack') : stack'[i].object = o /\ stack'[i].words = points[o]
        BY <3>1
      <3>. QED  BY <1>1, <2>0, <3>2 DEF Unseen
    <2>. QED  BY <2>1, <2>2
  <1>4. points' = points /\ Markable' = Markable
    BY DEF heap, Markable
  <1>. QED  BY <1>2, <1>3, <1>4 DEF Complete

LEMMA MarkAddrSound ==
    ASSUME TypeOK, Sound, mpc # "clear", NEW a \in Words,
           NEW STATE s, s \in Seq(Frame), NEW STATE tm, tm \in SUBSET Objects,
           UNCHANGED <<heap, mpc>>,
           stack' \in Seq(Frame),
           marked' \subseteq marked \cup ({a} \cap Markable),
           to_mark' \subseteq tm \cup ({a} \cap Objects),
           \A i \in 1..Len(stack') :
                \/ i \in 1..Len(s)
                \/ a \in marked' \ Atomic /\ stack'[i].words = points[a],
           \A i \in 1..Len(s) : stack'[i] = s[i],
           roots' \subseteq roots, tm \subseteq to_mark, Len(s) = Len(stack),
           \A i \in 1..Len(stack) : s[i].words \subseteq stack[i].words,
           \/ a \in roots \cup to_mark
           \/ \E i \in 1..Len(stack) : a \in stack[i].words
    PROVE  Sound'
  <1>1. marked' \subseteq Markable
    BY DEF Sound
  <1>2. ASSUME NEW S \in SUBSET Markable, Closed(S)
        PROVE  /\ marked' \cup (to_mark' \cap Markable) \cup (roots' \cap Markable) \subseteq S
               /\ \A i \in 1..Len(stack') : stack'[i].words \cap Markable \subseteq S
    <2>1. /\ marked \cup (to_mark \cap Markable) \cup (roots \cap Markable) \subseteq S
          /\ \A i \in 1..Len(stack) : stack[i].words \cap Markable \subseteq S
      BY <1>2 DEF Sound
    <2>2. a \in Markable => a \in S
      BY <2>1
    <2>3. marked' \cup (to_mark' \cap Markable) \cup (roots' \cap Markable) \subseteq S
      BY <2>1, <2>2
    <2>4. ASSUME NEW i \in 1..Len(stack')
          PROVE  stack'[i].words \cap Markable \subseteq S
      <3>1. CASE i \in 1..Len(s)
        BY <2>1, <3>1
      <3>2. CASE i \notin 1..Len(s)
        <4>1. a \in S \ Atomic /\ stack'[i].words = points[a]
          BY <2>3, <3>2
        <4>. QED  BY <1>2, <4>1 DEF Closed
      <3>. QED  BY <3>1, <3>2
    <2>. QED  BY <2>3, <2>4
  <1>3. Markable' = Markable /\ \A S : Closed(S)' = Closed(S)
    BY DEF heap, Markable, Closed
  <1>. QED  BY <1>1, <1>2, <1>3 DEF Sound

-----------------------------------------------------------------------------
(* The invariant holds at first, and every step preserves it. *)

LEMMA MarkInit == Init => MarkInv
  <1>. SUFFICES ASSUME Init PROVE MarkInv
    OBVIOUS
  <1>1. TypeOK
    BY RootsAssumption, MarksAssumption, EmptySeq DEF Init, TypeOK
  <1>. QED  BY <1>1 DEF Init, MarkInv, Phases, Complete, Sound

LEMMA ClearStep ==
    ASSUME MarkInv, ClearMarks \/ ClearMarkBits
    PROVE  MarkInv'
  <1>. USE DEF MarkInv
  <1>1. /\ mpc = "clear" /\ UNCHANGED <<heap, mpc, roots, to_mark, stack>>
        /\ \/ cleared' = cleared \cup {"gc thread"} /\ marked' = marked \cap (Objects \ Sparse)
           \/ cleared' = cleared \cup {"collector"} /\ marked' = marked \cap Sparse
    BY DEF ClearMarks, ClearMarkBits, Clear
  <1>2. TypeOK'
    BY <1>1 DEF TypeOK, heap
  <1>3. Phases'
    BY <1>1 DEF TypeOK, Phases, heap
  <1>. QED  BY <1>1, <1>2, <1>3 DEF Complete, Sound

LEMMA StartStep ==
    ASSUME MarkInv, StartMark
    PROVE  MarkInv'
  <1>. USE DEF MarkInv
  <1>1. /\ mpc' = "roots" /\ UNCHANGED <<heap, cleared, marked, roots, to_mark, stack>>
        /\ marked = {} /\ to_mark = {} /\ stack = <<>> /\ roots = given
    BY DEF StartMark, Phases, TypeOK
  <1>2. TypeOK' /\ Phases'
    BY <1>1 DEF TypeOK, Phases, heap
  <1>3. Complete'
    BY <1>1 DEF Complete, heap, Markable
  <1>4. Sound'
    <2>1. 1..Len(stack') = {}
      BY <1>1, EmptySeq
    <2>2. \A S : Closed(S)' = Closed(S)
      BY <1>1 DEF heap, Closed, Markable
    <2>. QED  BY <1>1, <2>1, <2>2 DEF Sound, Closed, Markable, heap
  <1>. QED  BY <1>2, <1>3, <1>4

LEMMA RootStep ==
    ASSUME MarkInv, MarkRoot
    PROVE  MarkInv'
  <1>. USE DEF MarkInv
  <1>1. PICK a \in roots : roots' = roots \ {a} /\ MarkAddr(a, 0, <<>>, to_mark)
    BY DEF MarkRoot
  <1>2. stack = <<>> /\ mpc = "roots" /\ UNCHANGED <<heap, mpc, cleared>> /\ a \in Words
    BY <1>1 DEF MarkRoot, TypeOK
  <1>3. <<>> \in Seq(Frame) /\ Len(stack) = 0 /\ Len(<<>>) = 0 /\ to_mark \in SUBSET Objects
    BY <1>2, EmptySeq DEF TypeOK
  <1>4. /\ stack' \in Seq(Frame)
        /\ marked \subseteq marked' /\ marked' \subseteq marked \cup ({a} \cap Markable)
        /\ to_mark \subseteq to_mark' /\ to_mark' \subseteq to_mark \cup ({a} \cap Objects)
        /\ a \in Markable => a \in marked' \cup to_mark'
        /\ Len(<<>>) <= Len(stack')
        /\ \A i \in 1..Len(<<>>) : stack'[i] = <<>>[i]
        /\ \A i \in 1..Len(stack') :
                i \in 1..Len(<<>>) \/ (a \in marked' \ Atomic /\ stack'[i].words = points[a])
        /\ a \in (marked' \ marked) \ Atomic =>
                \E i \in 1..Len(stack') : stack'[i].object = a /\ stack'[i].words = points[a]
    BY <1>1, <1>2, <1>3, Marking
  <1>5. TypeOK'
    BY <1>1, <1>2, <1>4 DEF TypeOK, heap, Markable
  <1>6. Phases'
    BY <1>2 DEF Phases
  <1>7. Complete'
    BY <1>1, <1>2, <1>3, <1>4, MarkAddrComplete
  <1>8. Sound'
    BY <1>1, <1>2, <1>3, <1>4, MarkAddrSound
  <1>. QED  BY <1>5, <1>6, <1>7, <1>8

LEMMA WordStep ==
    ASSUME MarkInv, MarkWord
    PROVE  MarkInv'
  <1>0. TypeOK /\ Phases /\ Complete /\ Sound
    BY DEF MarkInv
  <1>1. PICK a \in Top.words : MarkAddr(a, ChildDepth, Rest(a), to_mark)
    BY DEF MarkWord
  <1>2. stack # <<>> /\ UNCHANGED <<heap, mpc, cleared, roots>>
    BY DEF MarkWord
  <1>3. /\ Rest(a) \in Seq(Frame) /\ Len(Rest(a)) = Len(stack)
        /\ a \in Words /\ Len(stack) \in Nat \ {0} /\ a \in stack[Len(stack)].words
        /\ \A i \in 1..Len(stack) :
                /\ Rest(a)[i].object = stack[i].object
                /\ Rest(a)[i].words \subseteq stack[i].words
                /\ stack[i].words \subseteq Rest(a)[i].words \cup {a}
    BY <1>0, <1>2, Scanning
  <1>4. mpc \notin {"clear", "done"}
    BY <1>0, <1>2 DEF Phases
  <1>5. ChildDepth \in Nat /\ to_mark \in SUBSET Objects
    BY <1>0, <1>3 DEF ChildDepth, TypeOK
  <1>6. /\ stack' \in Seq(Frame)
        /\ marked \subseteq marked' /\ marked' \subseteq marked \cup ({a} \cap Markable)
        /\ to_mark \subseteq to_mark' /\ to_mark' \subseteq to_mark \cup ({a} \cap Objects)
        /\ a \in Markable => a \in marked' \cup to_mark'
        /\ Len(Rest(a)) <= Len(stack')
        /\ \A i \in 1..Len(Rest(a)) : stack'[i] = Rest(a)[i]
        /\ \A i \in 1..Len(stack') :
                i \in 1..Len(Rest(a)) \/ (a \in marked' \ Atomic /\ stack'[i].words = points[a])
        /\ a \in (marked' \ marked) \ Atomic =>
                \E i \in 1..Len(stack') : stack'[i].object = a /\ stack'[i].words = points[a]
    BY <1>0, <1>1, <1>3, <1>5, Marking
  <1>7. TypeOK'
    BY <1>0, <1>2, <1>6 DEF TypeOK, heap, Markable
  <1>8. Phases'
    BY <1>0, <1>2, <1>4 DEF Phases
  <1>9. Complete'
    BY <1>0, <1>2, <1>3, <1>4, <1>5, <1>6, MarkAddrComplete
  <1>10. \E i \in 1..Len(stack) : a \in stack[i].words
    BY <1>3
  <1>11. Sound'
    BY <1>0, <1>2, <1>3, <1>4, <1>5, <1>6, <1>10, MarkAddrSound
  <1>. QED  BY <1>7, <1>8, <1>9, <1>11 DEF MarkInv

LEMMA DeferredStep ==
    ASSUME MarkInv, MarkDeferred
    PROVE  MarkInv'
  <1>. USE DEF MarkInv
  <1>1. PICK a \in to_mark : MarkAddr(a, 0, <<>>, to_mark \ {a})
    BY DEF MarkDeferred
  <1>2. stack = <<>> /\ mpc = "vector" /\ UNCHANGED <<heap, mpc, cleared, roots>> /\ a \in Words
    BY <1>1 DEF MarkDeferred, TypeOK, Words
  <1> DEFINE tm == to_mark \ {a}
  <1>3. /\ <<>> \in Seq(Frame) /\ Len(stack) = 0 /\ Len(<<>>) = 0
        /\ tm \in SUBSET Objects /\ MarkAddr(a, 0, <<>>, tm)
        /\ to_mark \subseteq tm \cup {a} /\ tm \subseteq to_mark
    BY <1>1, <1>2, EmptySeq DEF TypeOK
  <1>. HIDE DEF tm
  <1>4. /\ stack' \in Seq(Frame)
        /\ marked \subseteq marked' /\ marked' \subseteq marked \cup ({a} \cap Markable)
        /\ tm \subseteq to_mark' /\ to_mark' \subseteq tm \cup ({a} \cap Objects)
        /\ a \in Markable => a \in marked' \cup to_mark'
        /\ Len(<<>>) <= Len(stack')
        /\ \A i \in 1..Len(<<>>) : stack'[i] = <<>>[i]
        /\ \A i \in 1..Len(stack') :
                i \in 1..Len(<<>>) \/ (a \in marked' \ Atomic /\ stack'[i].words = points[a])
        /\ a \in (marked' \ marked) \ Atomic =>
                \E i \in 1..Len(stack') : stack'[i].object = a /\ stack'[i].words = points[a]
    BY <1>2, <1>3, Marking
  <1>5. TypeOK'
    BY <1>2, <1>3, <1>4 DEF TypeOK, heap, Markable
  <1>6. Phases'
    BY <1>2 DEF Phases
  <1>7. Complete'
    BY <1>2, <1>3, <1>4, MarkAddrComplete
  <1>8. Sound'
    BY <1>1, <1>2, <1>3, <1>4, MarkAddrSound
  <1>. QED  BY <1>5, <1>6, <1>7, <1>8

(* The uppermost frame is left only when all its words have been seen. *)
LEMMA ReturnStep ==
    ASSUME MarkInv, Return
    PROVE  MarkInv'
  <1>. USE DEF MarkInv
  <1>1. /\ stack # <<>> /\ Top.words = {} /\ stack' = Below
        /\ UNCHANGED <<heap, mpc, cleared, marked, roots, to_mark>>
    BY DEF Return
  <1>2. /\ Len(stack) \in Nat \ {0} /\ stack' \in Seq(Frame) /\ Len(stack') = Len(stack) - 1
        /\ \A i \in 1..(Len(stack) - 1) : stack'[i] = stack[i]
        /\ stack[Len(stack)].words = {}
    BY <1>1, Lower DEF Top
  <1>3. TypeOK'
    BY <1>1, <1>2 DEF TypeOK, heap
  <1>4. Phases'
    BY <1>1 DEF Phases, heap
  <1>5. \A o : Unseen(o) \subseteq Unseen(o)'
    <2>1. DOMAIN stack = 1..Len(stack) /\ DOMAIN stack' = 1..Len(stack')
      BY <1>2, LenProperties DEF TypeOK
    <2>2. ASSUME NEW o, NEW w \in Unseen(o)
          PROVE  w \in Unseen(o)'
      <3>1. PICK i \in 1..Len(stack) : stack[i].object = o /\ w \in stack[i].words
        BY <2>1 DEF Unseen
      <3>2. i \in 1..Len(stack') /\ stack'[i] = stack[i]
        BY <1>2, <3>1
      <3>. QED  BY <2>1, <3>1, <3>2 DEF Unseen
    <2>. QED  BY <2>2
  <1>6. Complete'
    BY <1>1, <1>5 DEF Complete, heap, Markable
  <1>7. Sound'
    <2>1. Markable' = Markable /\ \A S : Closed(S)' = Closed(S)
      BY <1>1 DEF heap, Closed, Markable
    <2>2. \A i \in 1..Len(stack') : i \in 1..Len(stack) /\ stack'[i] = stack[i]
      BY <1>2
    <2>. QED  BY <1>1, <2>1, <2>2 DEF Sound
  <1>. QED  BY <1>3, <1>4, <1>6, <1>7

LEMMA PhaseStep ==
    ASSUME MarkInv, StartVector \/ Finish
    PROVE  MarkInv'
  <1>. USE DEF MarkInv
  <1>1. /\ mpc # "clear" /\ mpc' # "clear" /\ UNCHANGED <<heap, cleared, marked, roots, to_mark, stack>>
        /\ mpc' \in {"vector", "done"} /\ roots = {} /\ stack = <<>>
        /\ mpc' = "done" => to_mark = {}
    BY DEF StartVector, Finish, Phases
  <1>2. TypeOK' /\ Phases'
    BY <1>1 DEF TypeOK, Phases, heap
  <1>3. Complete'
    BY <1>1 DEF Complete, heap, Markable, Unseen
  <1>4. Sound'
    BY <1>1 DEF Sound, heap, Markable, Closed
  <1>. QED  BY <1>2, <1>3, <1>4

LEMMA StutterStep == ASSUME MarkInv, UNCHANGED vars PROVE MarkInv'
  <1>1. UNCHANGED <<points, given, mpc, cleared, marked, roots, to_mark, stack>>
    BY DEF vars, heap
  <1>2. TypeOK' /\ Phases'
    BY <1>1 DEF MarkInv, TypeOK, Phases
  <1>3. Complete'
    BY <1>1 DEF MarkInv, Complete, Markable, Unseen
  <1>4. Sound'
    BY <1>1 DEF MarkInv, Sound, Markable, Closed
  <1>. QED  BY <1>2, <1>3, <1>4 DEF MarkInv

(* The invariant holds in every reachable state of the marking. *)
THEOREM MarkingInvariant == Spec => []MarkInv
  <1>1. MarkInv /\ [Next]_vars => MarkInv'
    <2>. SUFFICES ASSUME MarkInv, [Next]_vars PROVE MarkInv'
      OBVIOUS
    <2>1. CASE ClearMarks \/ ClearMarkBits
      BY <2>1, ClearStep
    <2>2. CASE StartMark
      BY <2>2, StartStep
    <2>3. CASE MarkRoot
      BY <2>3, RootStep
    <2>4. CASE MarkWord
      BY <2>4, WordStep
    <2>5. CASE Return
      BY <2>5, ReturnStep
    <2>6. CASE MarkDeferred
      BY <2>6, DeferredStep
    <2>7. CASE StartVector \/ Finish
      BY <2>7, PhaseStep
    <2>8. CASE UNCHANGED vars
      BY <2>8, StutterStep
    <2>. QED  BY <2>1, <2>2, <2>3, <2>4, <2>5, <2>6, <2>7, <2>8 DEF Next
  <1>. QED  BY <1>1, MarkInit, PTL DEF Spec

(* No address that was put off for its depth, or not come to yet, is ever   *)
(* forgotten, for every heap and every pair of depth limits.                *)
THEOREM NothingIsForgotten == Spec => []NothingForgotten
  <1>1. MarkInv => NothingForgotten
    BY DEF MarkInv, Complete, NothingForgotten
  <1>. QED  BY <1>1, MarkingInvariant, PTL

(* Marking ends with exactly the reachable objects marked. *)
THEOREM MarkingIsExact == Spec => []MarksExactlyReachable
  <1>1. MarkInv => MarksExactlyReachable
    <2>. SUFFICES ASSUME MarkInv, mpc = "done" PROVE marked = Reachable
      BY DEF MarksExactlyReachable
    <2>1. roots = {} /\ to_mark = {} /\ stack = <<>> /\ marked \in SUBSET Markable
      BY DEF MarkInv, Phases, Sound
    <2>2. \A o : Unseen(o) = {}
      BY <2>1 DEF Unseen
    <2>3. Closed(marked)
      BY <2>1, <2>2 DEF MarkInv, Complete, Closed
    <2>4. \A S \in SUBSET Markable : Closed(S) => marked \subseteq S
      BY DEF MarkInv, Sound
    <2>5. marked \subseteq Reachable
      BY <2>1, <2>4 DEF Reachable
    <2>6. Reachable \subseteq marked
      BY <2>1, <2>3 DEF Reachable
    <2>. QED  BY <2>5, <2>6
  <1>. QED  BY <1>1, MarkingInvariant, PTL

(* The recursion of _mark_addrs never gets deeper than the larger limit     *)
(* allows, however long the chains of the heap are.                         *)
THEOREM RecursionIsBounded == Spec => []RecursionBounded
  <1>1. Init => RecursionBounded
    BY DepthAssumption, EmptySeq DEF Init, RecursionBounded
  <1>2. TypeOK /\ RecursionBounded /\ [Next]_vars => RecursionBounded'
    <2>. SUFFICES ASSUME TypeOK, RecursionBounded, [Next]_vars PROVE RecursionBounded'
      OBVIOUS
    <2>1. ASSUME NEW a \in Words, NEW STATE s, s \in Seq(Frame), NEW STATE tm,
                 MarkAddr(a, Len(s), s, tm), Len(s) <= SparseDepth + 1 \/ Len(s) <= BitmapDepth + 1
          PROVE  RecursionBounded'
      <3>1. CASE stack' = s
        BY <2>1, <3>1 DEF RecursionBounded
      <3>2. CASE stack' # s
        <4>1. /\ a \in Markable \ (marked \cup Atomic) /\ ~Defers(a, Len(s))
              /\ stack' = Append(s, [object |-> a, words |-> points[a]])
          BY <2>1, <3>2 DEF MarkAddr, Skip, Defer, Mark
        <4>2. [object |-> a, words |-> points[a]] \in Frame
          BY <4>1, HeapsAssumption DEF TypeOK, Frame, Markable
        <4>3. Len(stack') = Len(s) + 1 /\ Len(s) \in Nat
          BY <4>1, <4>2, AppendProperties, LenProperties
        <4>4. Len(s) <= SparseDepth \/ Len(s) <= BitmapDepth
          BY <4>1, <4>3, DepthAssumption DEF Defers, Markable
        <4>. QED  BY <4>3, <4>4, DepthAssumption DEF RecursionBounded
      <3>. QED  BY <3>1, <3>2
    <2>2. CASE MarkRoot \/ MarkDeferred
      <3>1. PICK a \in Words : MarkAddr(a, 0, <<>>, to_mark) \/ MarkAddr(a, 0, <<>>, to_mark \ {a})
        BY <2>2 DEF MarkRoot, MarkDeferred, TypeOK, Words
      <3>2. <<>> \in Seq(Frame) /\ Len(<<>>) = 0
        BY EmptySeq
      <3>3. Len(<<>>) <= SparseDepth + 1
        BY <3>2, DepthAssumption
      <3>4. \/ MarkAddr(a, Len(<<>>), <<>>, to_mark)
            \/ MarkAddr(a, Len(<<>>), <<>>, to_mark \ {a})
        BY <3>1, <3>2
      <3>. QED  BY <2>1, <3>2, <3>3, <3>4
    <2>3. CASE MarkWord
      <3>1. PICK a \in Top.words : MarkAddr(a, Len(stack), Rest(a), to_mark)
        BY <2>3 DEF MarkWord, ChildDepth
      <3>2. Rest(a) \in Seq(Frame) /\ a \in Words /\ Len(Rest(a)) = Len(stack)
        BY <2>3, Scanning DEF MarkWord
      <3>. QED  BY <2>1, <3>1, <3>2 DEF RecursionBounded
    <2>4. CASE Return
      <3>1. Len(stack') = Len(stack) - 1 /\ Len(stack) \in Nat
        BY <2>4, Lower DEF Return
      <3>. QED  BY <3>1, DepthAssumption DEF RecursionBounded
    <2>5. CASE UNCHANGED stack
      BY <2>5 DEF RecursionBounded
    <2>. QED  BY <2>2, <2>3, <2>4, <2>5
              DEF Next, vars, ClearMarks, ClearMarkBits, Clear, StartMark, StartVector, Finish
  <1>3. Spec => []TypeOK
    <2>1. MarkInv => TypeOK
      BY DEF MarkInv
    <2>. QED  BY <2>1, MarkingInvariant, PTL
  <1>. QED  BY <1>1, <1>2, <1>3, PTL DEF Spec

-----------------------------------------------------------------------------
(* The states the code can be in have the types the model gives them. *)
THEOREM TypeCorrect == Spec => []TypeOK
  <1>1. MarkInv => TypeOK
    BY DEF MarkInv
  <1>. QED  BY <1>1, MarkingInvariant, PTL

-----------------------------------------------------------------------------
(* Marking cannot go on for ever: every step brings it nearer to its end,   *)
(* in an order in which there is no infinite descent as long as objects and *)
(* words are finitely many.                                                 *)

(* The phases in order. *)
NextPhase == <<mpc, mpc'>> \in {<<"clear", "roots">>, <<"roots", "vector">>, <<"vector", "done">>}

(* The words that are still to be looked at, with the frame they are in. *)
Ahead == {<<0, w>> : w \in roots}
            \cup UNION {{<<i, w>> : w \in stack[i].words} : i \in 1..Len(stack)}

Within(S, T) == S \subseteq T /\ S # T

(* One more marked, or else one word less to look at, or else one address   *)
(* less put off, or else one frame less.                                    *)
Nearer ==
    \/ Within(marked, marked')
    \/ marked' = marked /\ Within(Ahead', Ahead)
    \/ marked' = marked /\ Ahead' = Ahead /\ Within(to_mark', to_mark)
    \/ marked' = marked /\ Ahead' = Ahead /\ to_mark' = to_mark /\ Len(stack') < Len(stack)

Progress ==
    \/ NextPhase
    \/ mpc' = mpc /\ IF mpc = "clear" THEN Within(cleared, cleared') ELSE Nearer

(* A call of _mark_addrs marks its address or leaves the frames as they     *)
(* are; the call that has no frame below it puts nothing off.               *)
LEMMA MarksOrNot ==
    ASSUME TypeOK, NEW a \in Words, NEW STATE depth, NEW STATE s, NEW STATE tm,
           MarkAddr(a, depth, s, tm)
    PROVE  \/ Within(marked, marked')
           \/ marked' = marked /\ stack' = s /\ (depth = 0 => to_mark' = tm)
  <1>1. depth = 0 => ~Defers(a, depth)
    BY DepthAssumption DEF Defers
  <1>2. CASE Skip(a, depth, s, tm)
    BY <1>2 DEF Skip
  <1>3. CASE Defer(a, depth, s, tm)
    BY <1>1, <1>3 DEF Defer
  <1>4. CASE Mark(a, depth, s, tm)
    BY <1>4 DEF Mark, Within
  <1>. QED  BY <1>2, <1>3, <1>4 DEF MarkAddr

(* A root word is looked at once. *)
LEMMA RootNearer == ASSUME TypeOK, MarkRoot PROVE Nearer
  <1>1. PICK a \in roots : roots' = roots \ {a} /\ MarkAddr(a, 0, <<>>, to_mark)
    BY DEF MarkRoot
  <1>2. CASE Within(marked, marked')
    BY <1>2 DEF Nearer
  <1>3. CASE marked' = marked /\ stack' = <<>>
    <2>1. Ahead' \subseteq Ahead /\ <<0, a>> \in Ahead
      BY <1>1, <1>3 DEF Ahead, MarkRoot
    <2>2. <<0, a>> \notin Ahead'
      BY <1>1, <1>3 DEF Ahead
    <2>. QED  BY <1>3, <2>1, <2>2 DEF Nearer, Within
  <1>. QED  BY <1>1, <1>2, <1>3, MarksOrNot DEF TypeOK

(* So is a word of an object. *)
LEMMA WordNearer == ASSUME TypeOK, MarkWord PROVE Nearer
  <1>1. PICK a \in Top.words : MarkAddr(a, ChildDepth, Rest(a), to_mark)
    BY DEF MarkWord
  <1>2. /\ Len(Rest(a)) = Len(stack) /\ a \in Words /\ Len(stack) \in Nat \ {0}
        /\ a \in stack[Len(stack)].words
        /\ \A i \in 1..Len(stack) : Rest(a)[i].words \subseteq stack[i].words
    BY <1>1, Scanning DEF MarkWord
  <1>3. CASE Within(marked, marked')
    BY <1>3 DEF Nearer
  <1>4. CASE marked' = marked /\ stack' = Rest(a)
    <2>1. roots' = roots
      BY DEF MarkWord
    <2>2. a \notin Rest(a)[Len(stack)].words
      <3>0. Len(stack) \in 1..Len(stack)
        BY <1>2
      <3>1. Below \in Seq(Frame) /\ Len(Below) = Len(stack) - 1 /\ Top \in Frame
        <4>1. stack[Len(stack)] \in Frame
          BY <3>0, ElementOfSeq DEF TypeOK
        <4>. QED  BY <4>1, Lower DEF MarkWord, Top
      <3>2. [Top EXCEPT !.words = @ \ {a}] \in Frame
        BY <3>1 DEF Frame
      <3>3. Rest(a)[Len(Below) + 1] = [Top EXCEPT !.words = @ \ {a}]
        BY <3>1, <3>2, AppendProperties DEF Rest
      <3>4. Len(Below) + 1 = Len(stack)
        BY <1>2, <3>1
      <3>5. [Top EXCEPT !.words = @ \ {a}].words = Top.words \ {a}
        BY <3>1 DEF Frame
      <3>. QED  BY <3>3, <3>4, <3>5
    <2>3. Ahead' \subseteq Ahead
      BY <1>2, <1>4, <2>1 DEF Ahead
    <2>4. <<Len(stack), a>> \in Ahead
      BY <1>2 DEF Ahead
    <2>5. <<Len(stack), a>> \notin Ahead'
      <3>. SUFFICES ASSUME <<Len(stack), a>> \in Ahead' PROVE FALSE
        OBVIOUS
      <3>1. <<Len(stack), a>> \notin {<<0, w>> : w \in roots'}
        BY <1>2
      <3>2. PICK i \in 1..Len(stack') : <<Len(stack), a>> \in {<<i, w>> : w \in stack'[i].words}
        BY <3>1 DEF Ahead
      <3>3. i = Len(stack) /\ a \in stack'[i].words
        BY <3>2
      <3>. QED  BY <1>4, <2>2, <3>3
    <2>. QED  BY <1>4, <2>3, <2>4, <2>5 DEF Nearer, Within
  <1>. QED  BY <1>1, <1>2, <1>3, <1>4, MarksOrNot

(* A frame that has been scanned goes. *)
LEMMA ReturnNearer == ASSUME TypeOK, Return PROVE Nearer
  <1>1. /\ Len(stack) \in Nat \ {0} /\ stack' = Below
        /\ Len(stack') = Len(stack) - 1
        /\ \A i \in 1..(Len(stack) - 1) : stack'[i] = stack[i]
    BY Lower DEF Return
  <1>2. stack[Len(stack)].words = {}
    BY DEF Return, Top
  <1>3. Ahead' = Ahead
    <2>1. UNION {{<<i, w>> : w \in stack'[i].words} : i \in 1..Len(stack')}
            = UNION {{<<i, w>> : w \in stack[i].words} : i \in 1..(Len(stack) - 1)}
      BY <1>1
    <2>2. UNION {{<<i, w>> : w \in stack[i].words} : i \in 1..Len(stack)}
            = UNION {{<<i, w>> : w \in stack[i].words} : i \in 1..(Len(stack) - 1)}
      BY <1>1, <1>2
    <2>. QED  BY <2>1, <2>2 DEF Ahead, Return
  <1>. QED  BY <1>1, <1>3 DEF Nearer, Return

(* What was put off is put off no second time. *)
LEMMA DeferredNearer == ASSUME TypeOK, MarkDeferred PROVE Nearer
  <1>1. PICK a \in to_mark : MarkAddr(a, 0, <<>>, to_mark \ {a})
    BY DEF MarkDeferred
  <1>2. CASE Within(marked, marked')
    BY <1>2 DEF Nearer
  <1>3. CASE marked' = marked /\ stack' = <<>> /\ to_mark' = to_mark \ {a}
    <2>1. Ahead' = Ahead
      BY <1>3 DEF Ahead, MarkDeferred
    <2>. QED  BY <1>1, <1>3, <2>1 DEF Nearer, Within
  <1>4. a \in Words
    BY <1>1 DEF TypeOK, Words
  <1>. QED  BY <1>1, <1>2, <1>3, <1>4, MarksOrNot

(* Every step of _mark and _mark_mark_vector is progress, whatever cycles   *)
(* the heap has and however often an address is put off: this is the safety *)
(* half of MarkingEnds.                                                     *)
THEOREM MarkingProgresses == Spec => [][Progress]_vars
  <1>1. ASSUME MarkInv, [Next]_vars PROVE [Progress]_vars
    <2>. SUFFICES ASSUME Next PROVE Progress
      BY <1>1
    <2>0. TypeOK /\ Phases
      BY <1>1 DEF MarkInv
    <2>1. CASE ClearMarks \/ ClearMarkBits
      BY <2>1 DEF ClearMarks, ClearMarkBits, Clear, Progress, Within
    <2>2. CASE StartMark \/ StartVector \/ Finish
      BY <2>2 DEF StartMark, StartVector, Finish, Progress, NextPhase
    <2>3. CASE MarkRoot
      BY <2>0, <2>3, RootNearer DEF Progress, MarkRoot
    <2>4. CASE MarkWord
      BY <2>0, <2>4, WordNearer DEF Progress, MarkWord, Phases
    <2>5. CASE Return
      BY <2>0, <2>5, ReturnNearer DEF Progress, Return, Phases
    <2>6. CASE MarkDeferred
      BY <2>0, <2>6, DeferredNearer DEF Progress, MarkDeferred
    <2>. QED  BY <2>1, <2>2, <2>3, <2>4, <2>5, <2>6 DEF Next
  <1>. QED  BY <1>1, MarkingInvariant, PTL DEF Spec
=============================================================================
