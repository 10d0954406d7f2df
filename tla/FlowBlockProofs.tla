--------------------------- MODULE FlowBlockProofs ---------------------------
(***************************************************************************)
(* The edge lists stay mirrored, for any number of blocks and edges.        *)
(*                                                                         *)
(* Every operation breaks an edge in two and then deletes or reuses the     *)
(* halves, so the lemmas are about graphs in which some halves have lost    *)
(* their mirror: MirroredBut(g, I, O) allows that for the in-slots in I and *)
(* the out-slots in O.                                                      *)
(***************************************************************************)
EXTENDS FlowBlock, SeqLemmas, SequenceTheorems, WellFoundedInduction, TLAPS

\* In-slot k of b has its mirror, outside O; and the same for an out-slot.
InSlotOK(g, O, b, k) ==
    /\ g.in[b][k].rev \in 1..Len(g.out[g.in[b][k].point])
    /\ <<g.in[b][k].point, g.in[b][k].rev>> \notin O
    /\ g.out[g.in[b][k].point][g.in[b][k].rev].point = b
    /\ g.out[g.in[b][k].point][g.in[b][k].rev].rev = k

OutSlotOK(g, I, b, k) ==
    /\ g.out[b][k].rev \in 1..Len(g.in[g.out[b][k].point])
    /\ <<g.out[b][k].point, g.out[b][k].rev>> \notin I
    /\ g.in[g.out[b][k].point][g.out[b][k].rev].point = b
    /\ g.in[g.out[b][k].point][g.out[b][k].rev].rev = k

MirroredBut(g, I, O) ==
    /\ \A b \in Block : \A k \in 1..Len(g.in[b]) : <<b, k>> \notin I => InSlotOK(g, O, b, k)
    /\ \A b \in Block : \A k \in 1..Len(g.out[b]) : <<b, k>> \notin O => OutSlotOK(g, I, b, k)

\* halfDeleteInEdge, slot by slot: h is g without in-slot k of b.
Deleted(g, h, b, k) ==
    /\ DOMAIN h.in = Block /\ DOMAIN h.out = Block
    /\ \A c \in Block \ {b} : h.in[c] = g.in[c]
    /\ h.in[b] \in Seq(Edge)
    /\ Len(h.in[b]) = Len(g.in[b]) - 1
    /\ \A i \in 1..(Len(g.in[b]) - 1) :
          h.in[b][i] = IF i < k THEN g.in[b][i] ELSE g.in[b][i + 1]
    /\ \A s \in Block :
          /\ Len(h.out[s]) = Len(g.out[s])
          /\ DOMAIN h.out[s] = 1..Len(g.out[s])
          /\ \A j \in 1..Len(g.out[s]) :
             /\ h.out[s][j] \in [label : SUBSET Label, point : Block, rev : Int]
             /\ h.out[s][j].point = g.out[s][j].point
             /\ h.out[s][j].rev =
                   IF \E m \in (k+1)..Len(g.in[b]) :
                         g.in[b][m].point = s /\ g.in[b][m].rev = j
                   THEN g.out[s][j].rev - 1 ELSE g.out[s][j].rev

LEMMA GraphFacts ==
    ASSUME NEW g \in Graph, NEW b \in Block
    PROVE  /\ g.in \in [Block -> Seq(Edge)] /\ g.out \in [Block -> Seq(Edge)]
           /\ g.in[b] \in Seq(Edge) /\ Len(g.in[b]) \in Nat
           /\ g.out[b] \in Seq(Edge) /\ Len(g.out[b]) \in Nat
           /\ \A i \in 1..Len(g.in[b]) : g.in[b][i] \in Edge /\
                 g.in[b][i].point \in Block /\ g.in[b][i].rev \in Nat
           /\ \A i \in 1..Len(g.out[b]) : g.out[b][i] \in Edge /\
                 g.out[b][i].point \in Block /\ g.out[b][i].rev \in Nat
<1>1. /\ g.in \in [Block -> Seq(Edge)] /\ g.out \in [Block -> Seq(Edge)]
      /\ g.in[b] \in Seq(Edge) /\ g.out[b] \in Seq(Edge)
  BY DEF Graph
<1>2. /\ Len(g.in[b]) \in Nat /\ Len(g.out[b]) \in Nat
      /\ \A i \in 1..Len(g.in[b]) : g.in[b][i] \in Edge
      /\ \A i \in 1..Len(g.out[b]) : g.out[b][i] \in Edge
  BY <1>1, LenProperties, ElementOfSeq
<1> QED BY <1>1, <1>2 DEF Edge

LEMMA HalfDeleteInShape ==
    ASSUME NEW g \in Graph, NEW b \in Block, NEW k \in 1..Len(g.in[b])
    PROVE  Deleted(g, HalfDeleteIn(g, b, k), b, k)
<1> DEFINE slid(s, j) == \E m \in (k+1)..Len(g.in[b]) :
                            g.in[b][m].point = s /\ g.in[b][m].rev = j
           h == HalfDeleteIn(g, b, k)
<1>1. h.in = [g.in EXCEPT ![b] = RemoveAt(g.in[b], k)]
  BY DEF HalfDeleteIn
<1>2. /\ DOMAIN h.out = Block
      /\ \A s \in Block : h.out[s] = [j \in 1..Len(g.out[s]) |->
             IF slid(s, j) THEN [g.out[s][j] EXCEPT !.rev = @ - 1] ELSE g.out[s][j]]
  BY DEF HalfDeleteIn
<1> HIDE DEF h
<1>3. /\ DOMAIN h.in = Block
      /\ h.in[b] = RemoveAt(g.in[b], k)
      /\ \A c \in Block \ {b} : h.in[c] = g.in[c]
  BY <1>1, GraphFacts
<1>4. g.in[b] \in Seq(Edge)
  BY GraphFacts
<1>5. /\ h.in[b] \in Seq(Edge)
      /\ Len(h.in[b]) = Len(g.in[b]) - 1
      /\ \A i \in 1..(Len(g.in[b]) - 1) :
            h.in[b][i] = IF i < k THEN g.in[b][i] ELSE g.in[b][i + 1]
  BY ZenonT(60), <1>3, <1>4, RemoveAtFacts
<1>6. ASSUME NEW s \in Block, NEW j \in 1..Len(g.out[s])
      PROVE  /\ h.out[s][j] \in [label : SUBSET Label, point : Block, rev : Int]
             /\ h.out[s][j].point = g.out[s][j].point
             /\ h.out[s][j].rev =
                      IF slid(s, j) THEN g.out[s][j].rev - 1 ELSE g.out[s][j].rev
  <2>1. h.out[s][j] =
             IF slid(s, j) THEN [g.out[s][j] EXCEPT !.rev = @ - 1] ELSE g.out[s][j]
    BY ZenonT(60), <1>2
  <2>2. g.out[s][j] \in Edge
    BY GraphFacts
  <2> HIDE DEF slid
  <2> QED BY SMTT(60), <2>1, <2>2 DEF Edge
<1>7. ASSUME NEW s \in Block
      PROVE  Len(h.out[s]) = Len(g.out[s]) /\ DOMAIN h.out[s] = 1..Len(g.out[s])
  <2>1. h.out[s] \in [1..Len(g.out[s]) -> [label : SUBSET Label, point : Block, rev : Int]]
    <3>1. DOMAIN h.out[s] = 1..Len(g.out[s])
          /\ h.out[s] = [j \in 1..Len(g.out[s]) |-> h.out[s][j]]
      BY <1>2
    <3> QED BY <1>6, <3>1
  <2>2. Len(g.out[s]) \in Nat
    BY GraphFacts
  <2> QED BY <2>1, <2>2, RebuildFacts
<1>8. Deleted(g, h, b, k)
  BY <1>2, <1>3, <1>5, <1>6, <1>7 DEF Deleted
<1> QED BY <1>8 DEF h

\* Deleting a half that has no mirror leaves every other half with its own.
LEMMA DeletedMirrored ==
    ASSUME NEW g \in Graph, NEW h, NEW b \in Block, NEW k \in 1..Len(g.in[b]), NEW O,
           MirroredBut(g, {<<b, k>>}, O), Deleted(g, h, b, k)
    PROVE  MirroredBut(h, {}, O)
<1> DEFINE slid(s, j) == \E m \in (k+1)..Len(g.in[b]) :
                            g.in[b][m].point = s /\ g.in[b][m].rev = j
<1>0. Len(g.in[b]) \in Nat /\ k \in Nat /\ k >= 1 /\ k <= Len(g.in[b])
  BY GraphFacts
<1>a. \A c \in Block : \A i \in 1..Len(g.in[c]) : <<c, i>> # <<b, k>> => InSlotOK(g, O, c, i)
  BY DEF MirroredBut
<1>b. \A s \in Block : \A j \in 1..Len(g.out[s]) :
        <<s, j>> \notin O => OutSlotOK(g, {<<b, k>>}, s, j)
  BY DEF MirroredBut
<1>c. /\ \A c \in Block \ {b} : h.in[c] = g.in[c]
      /\ Len(h.in[b]) = Len(g.in[b]) - 1
      /\ \A i \in 1..(Len(g.in[b]) - 1) :
            h.in[b][i] = IF i < k THEN g.in[b][i] ELSE g.in[b][i + 1]
  BY DEF Deleted
<1>d. \A s \in Block : /\ Len(h.out[s]) = Len(g.out[s])
                       /\ \A j \in 1..Len(g.out[s]) :
                            /\ h.out[s][j].point = g.out[s][j].point
                            /\ h.out[s][j].rev =
                                 IF slid(s, j) THEN g.out[s][j].rev - 1 ELSE g.out[s][j].rev
  BY DEF Deleted
\* The mirrors of the slots after k, and only those, are renumbered.
<1>1. ASSUME NEW s \in Block, NEW j \in 1..Len(g.out[s]), <<s, j>> \notin O
      PROVE  slid(s, j) <=> g.out[s][j].point = b /\ g.out[s][j].rev > k
  <2>1. ASSUME NEW m \in (k+1)..Len(g.in[b]), g.in[b][m].point = s, g.in[b][m].rev = j
        PROVE  g.out[s][j].point = b /\ g.out[s][j].rev > k
    <3>1. m \in 1..Len(g.in[b]) /\ m # k /\ m > k
      BY <1>0
    <3>2. InSlotOK(g, O, b, m)
      BY SMTT(60), <1>a, <3>1
    <3> QED BY <2>1, <3>1, <3>2 DEF InSlotOK
  <2>2. ASSUME g.out[s][j].point = b, g.out[s][j].rev > k
        PROVE  slid(s, j)
    <3>1. OutSlotOK(g, {<<b, k>>}, s, j)
      BY <1>1, <1>b
    <3>2. /\ g.out[s][j].rev \in 1..Len(g.in[b])
          /\ g.in[b][g.out[s][j].rev].point = s
          /\ g.in[b][g.out[s][j].rev].rev = j
      BY SMTT(60), <2>2, <3>1 DEF OutSlotOK
    <3>3. g.out[s][j].rev \in (k+1)..Len(g.in[b])
      BY SMTT(60), <1>0, <2>2, <3>2
    <3> QED BY <3>2, <3>3
  <2> QED BY <2>1, <2>2
<1> HIDE DEF slid
<1>2. ASSUME NEW c \in Block, NEW i \in 1..Len(h.in[c])
      PROVE  InSlotOK(h, O, c, i)
  <2>0. Len(g.in[c]) \in Nat /\ Len(h.in[c]) \in Int /\ i \in Int
    BY <1>0, <1>c, GraphFacts
  <2>1. PICK i0 \in 1..Len(g.in[c]) :
            /\ h.in[c][i] = g.in[c][i0] /\ <<c, i0>> # <<b, k>>
            /\ i0 = IF c = b /\ i >= k THEN i + 1 ELSE i
    <3>1. CASE c = b /\ i >= k
      BY SMTT(60), <1>0, <1>c, <2>0, <3>1
    <3>2. CASE c = b /\ i < k
      BY SMTT(60), <1>0, <1>c, <2>0, <3>2
    <3>3. CASE c # b
      BY <1>c, <2>0, <3>3
    <3> QED BY <1>0, <2>0, <3>1, <3>2, <3>3
  <2>2. PICK s \in Block, j \in Nat : s = g.in[c][i0].point /\ j = g.in[c][i0].rev
    BY GraphFacts
  <2>3. /\ j \in 1..Len(g.out[s]) /\ <<s, j>> \notin O
        /\ g.out[s][j].point = c /\ g.out[s][j].rev = i0
    <3>1. InSlotOK(g, O, c, i0)
      BY <1>a, <2>1
    <3> QED BY <2>2, <3>1 DEF InSlotOK
  <2>4. /\ Len(h.out[s]) = Len(g.out[s])
        /\ h.out[s][j].point = c
        /\ h.out[s][j].rev = IF slid(s, j) THEN i0 - 1 ELSE i0
    BY <1>d, <2>3
  <2>5. slid(s, j) <=> c = b /\ i0 > k
    BY <1>1, <2>3
  <2>6. h.out[s][j].rev = i
    BY <1>0, <2>0, <2>1, <2>4, <2>5
  <2> QED BY <2>1, <2>2, <2>3, <2>4, <2>6 DEF InSlotOK
<1>3. ASSUME NEW s \in Block, NEW j \in 1..Len(h.out[s]), <<s, j>> \notin O
      PROVE  OutSlotOK(h, {}, s, j)
  <2>1. j \in 1..Len(g.out[s])
    BY <1>d
  <2>2. PICK c \in Block, i \in Nat : c = g.out[s][j].point /\ i = g.out[s][j].rev
    BY <2>1, GraphFacts
  <2>3. /\ i \in 1..Len(g.in[c]) /\ <<c, i>> # <<b, k>>
        /\ g.in[c][i].point = s /\ g.in[c][i].rev = j
    <3>1. OutSlotOK(g, {<<b, k>>}, s, j)
      BY <1>3, <1>b, <2>1
    <3> QED BY <2>2, <3>1 DEF OutSlotOK
  <2>4. /\ h.out[s][j].point = c
        /\ h.out[s][j].rev = IF slid(s, j) THEN i - 1 ELSE i
    BY <1>d, <2>1, <2>2
  <2>5. slid(s, j) <=> c = b /\ i > k
    BY <1>1, <1>3, <2>1, <2>2
  <2>6. CASE c # b
    <3>1. h.in[c] = g.in[c] /\ h.out[s][j].rev = i
      BY <1>c, <2>2, <2>4, <2>5, <2>6
    <3> QED BY <2>3, <2>4, <3>1 DEF OutSlotOK
  <2>7. CASE c = b /\ i > k
    <3>0. h.out[s][j].rev = i - 1 /\ i \in 1..Len(g.in[b])
      BY <2>3, <2>4, <2>5, <2>7
    <3>1. h.out[s][j].rev = i - 1 /\ i - 1 \in 1..(Len(g.in[b]) - 1) /\ ~(i - 1 < k)
      BY SMTT(60), <1>0, <2>2, <2>7, <3>0
    <3>2. h.in[b][i - 1] = g.in[b][(i - 1) + 1]
      BY <1>c, <3>1
    <3>3. h.in[b][i - 1] = g.in[b][i]
      BY SMTT(60), <2>2, <3>2
    <3> QED BY <1>c, <2>3, <2>4, <2>7, <3>1, <3>3 DEF OutSlotOK
  <2>8. CASE c = b /\ i < k
    <3>1. h.out[s][j].rev = i /\ i \in 1..(Len(g.in[b]) - 1)
      BY SMTT(60), <1>0, <2>2, <2>3, <2>4, <2>5, <2>8
    <3>2. h.in[b][i] = g.in[b][i]
      BY <1>c, <2>8, <3>1
    <3> QED BY <1>c, <2>3, <2>4, <2>8, <3>1, <3>2 DEF OutSlotOK
  <2>9. c = b => i # k
    BY <2>3
  <2> QED BY <1>0, <2>2, <2>6, <2>7, <2>8, <2>9
<1> QED BY <1>2, <1>3 DEF MirroredBut

\* halfDeleteInEdge on a half without a mirror.
LEMMA HalfDeleteInOK ==
    ASSUME NEW g \in Graph, NEW b \in Block, NEW k \in 1..Len(g.in[b]), NEW O,
           MirroredBut(g, {<<b, k>>}, O)
    PROVE  /\ HalfDeleteIn(g, b, k) \in Graph
           /\ MirroredBut(HalfDeleteIn(g, b, k), {}, O)
           /\ Deleted(g, HalfDeleteIn(g, b, k), b, k)
<1> DEFINE h == HalfDeleteIn(g, b, k)
<1>1. Deleted(g, h, b, k)
  BY HalfDeleteInShape
<1>2. h = [in |-> h.in, out |-> h.out]
  BY DEF HalfDeleteIn
<1> HIDE DEF h
<1>3. MirroredBut(h, {}, O)
  BY <1>1, DeletedMirrored
<1>4. h.in \in [Block -> Seq(Edge)]
  <2>1. \A c \in Block : h.in[c] \in Seq(Edge)
    BY <1>1, GraphFacts DEF Deleted
  <2>2. h.in = [c \in Block |-> h.in[c]]
    BY DEF h, HalfDeleteIn, Graph
  <2> QED BY <2>1, <2>2
<1>5. h.out \in [Block -> Seq(Edge)]
  <2>1. ASSUME NEW s \in Block
        PROVE  h.out[s] \in Seq(Edge)
    <3>1. ASSUME NEW j \in 1..Len(g.out[s])
          PROVE  h.out[s][j] \in Edge
      <4>1. /\ h.out[s][j] \in [label : SUBSET Label, point : Block, rev : Int]
            /\ h.out[s][j].rev =
                   IF \E m \in (k+1)..Len(g.in[b]) :
                         g.in[b][m].point = s /\ g.in[b][m].rev = j
                   THEN g.out[s][j].rev - 1 ELSE g.out[s][j].rev
        BY <1>1 DEF Deleted
      <4>2. g.out[s][j].rev \in Nat /\ Len(g.in[b]) \in Nat
        BY GraphFacts
      <4>3. ASSUME NEW m \in (k+1)..Len(g.in[b]),
                   g.in[b][m].point = s, g.in[b][m].rev = j
            PROVE  g.out[s][j].rev - 1 \in Nat
        <5>1. m \in 1..Len(g.in[b]) /\ m # k
          BY <4>2
        <5>2. InSlotOK(g, O, b, m)
          BY <5>1 DEF MirroredBut
        <5>3. g.out[s][j].rev = m
          BY <4>3, <5>2 DEF InSlotOK
        <5> QED BY <5>1, <5>3
      <4>4. h.out[s][j].rev \in Nat
        BY <4>1, <4>2, <4>3
      <4> QED BY <4>1, <4>4 DEF Edge
    <3>2. DOMAIN h.out[s] = 1..Len(g.out[s])
      BY <1>1 DEF Deleted
    <3>3. h.out[s] = [j \in 1..Len(g.out[s]) |-> h.out[s][j]]
      BY <3>2 DEF h, HalfDeleteIn
    <3>4. h.out[s] \in [1..Len(g.out[s]) -> Edge]
      BY <3>1, <3>3
    <3> QED BY <3>4, GraphFacts, RebuildFacts
  <2>2. h.out = [c \in Block |-> h.out[c]]
    BY DEF h, HalfDeleteIn
  <2> QED BY <2>1, <2>2
<1>6. h \in Graph
  BY <1>2, <1>4, <1>5 DEF Graph
<1> QED BY <1>1, <1>3, <1>6 DEF h

\* The two directions of an edge are alike: what holds of in-lists holds of
\* out-lists in the graph with all its edges reversed.
Flip(g) == [in |-> g.out, out |-> g.in]

LEMMA FlipFacts ==
    ASSUME NEW g \in Graph, NEW I, NEW O
    PROVE  /\ Flip(g) \in Graph
           /\ Flip(g).in = g.out /\ Flip(g).out = g.in
           /\ Flip(Flip(g)) = g
           /\ MirroredBut(Flip(g), O, I) <=> MirroredBut(g, I, O)
<1>1. /\ Flip(g) \in Graph
      /\ Flip(g).in = g.out /\ Flip(g).out = g.in
      /\ Flip(Flip(g)) = g
  BY DEF Flip, Graph
<1>2. \A b \in Block : \A k : InSlotOK(Flip(g), I, b, k) <=> OutSlotOK(g, I, b, k)
  BY <1>1 DEF InSlotOK, OutSlotOK
<1>3. \A b \in Block : \A k : OutSlotOK(Flip(g), O, b, k) <=> InSlotOK(g, O, b, k)
  BY <1>1 DEF InSlotOK, OutSlotOK
<1>4. MirroredBut(Flip(g), O, I) <=> MirroredBut(g, I, O)
  BY <1>1, <1>2, <1>3 DEF MirroredBut
<1> QED BY <1>1, <1>4

LEMMA HalfDeleteOutFlip ==
    ASSUME NEW g \in Graph, NEW b \in Block, NEW k
    PROVE  HalfDeleteOut(g, b, k) = Flip(HalfDeleteIn(Flip(g), b, k))
  BY DEF HalfDeleteOut, HalfDeleteIn, Flip

\* halfDeleteOutEdge on a half without a mirror.
LEMMA HalfDeleteOutOK ==
    ASSUME NEW g \in Graph, NEW b \in Block, NEW k \in 1..Len(g.out[b]), NEW I,
           MirroredBut(g, I, {<<b, k>>})
    PROVE  /\ HalfDeleteOut(g, b, k) \in Graph
           /\ MirroredBut(HalfDeleteOut(g, b, k), I, {})
           /\ Deleted(Flip(g), Flip(HalfDeleteOut(g, b, k)), b, k)
<1> DEFINE f == Flip(g)
           h == HalfDeleteIn(f, b, k)
<1>1. f \in Graph /\ k \in 1..Len(f.in[b]) /\ MirroredBut(f, {<<b, k>>}, I)
  BY FlipFacts
<1>2. h \in Graph /\ MirroredBut(h, {}, I) /\ Deleted(f, h, b, k)
  <2> HIDE DEF f
  <2> QED BY SMTT(60), <1>1, HalfDeleteInOK
<1>3. HalfDeleteOut(g, b, k) = Flip(h)
  BY HalfDeleteOutFlip
<1> HIDE DEF f, h
<1>4. Flip(h) \in Graph /\ MirroredBut(Flip(h), I, {}) /\ Flip(Flip(h)) = h
  BY SMTT(60), <1>2, FlipFacts
<1> QED BY <1>2, <1>3, <1>4 DEF f

\* An intact edge, seen as two halves that are about to lose each other.
LEMMA BreakEdge ==
    ASSUME NEW g \in Graph, NEW b \in Block, NEW k \in 1..Len(g.in[b]),
           MirroredBut(g, {}, {})
    PROVE  /\ g.in[b][k].point \in Block
           /\ g.in[b][k].rev \in 1..Len(g.out[g.in[b][k].point])
           /\ g.out[g.in[b][k].point][g.in[b][k].rev].point = b
           /\ g.out[g.in[b][k].point][g.in[b][k].rev].rev = k
           /\ MirroredBut(g, {<<b, k>>}, {<<g.in[b][k].point, g.in[b][k].rev>>})
<1>1. PICK s \in Block, j \in Nat : s = g.in[b][k].point /\ j = g.in[b][k].rev
  BY SMTT(60), GraphFacts
<1>2. InSlotOK(g, {}, b, k)
  BY DEF MirroredBut
<1>3. /\ j \in 1..Len(g.out[s]) /\ g.out[s][j].point = b /\ g.out[s][j].rev = k
  BY SMTT(60), <1>1, <1>2 DEF InSlotOK
<1>4. ASSUME NEW c \in Block, NEW i \in 1..Len(g.in[c]), <<c, i>> \notin {<<b, k>>}
      PROVE  InSlotOK(g, {<<s, j>>}, c, i)
  <2>1. InSlotOK(g, {}, c, i)
    BY SMTT(60) DEF MirroredBut
  <2>2. <<g.in[c][i].point, g.in[c][i].rev>> # <<s, j>>
    BY <1>3, <1>4, <2>1 DEF InSlotOK
  <2> QED BY <2>1, <2>2 DEF InSlotOK
<1>5. ASSUME NEW c \in Block, NEW i \in 1..Len(g.out[c]), <<c, i>> \notin {<<s, j>>}
      PROVE  OutSlotOK(g, {<<b, k>>}, c, i)
  <2>1. OutSlotOK(g, {}, c, i)
    BY SMTT(60) DEF MirroredBut
  <2>2. <<g.out[c][i].point, g.out[c][i].rev>> # <<b, k>>
    BY <1>1, <1>5, <2>1 DEF OutSlotOK
  <2> QED BY <2>1, <2>2 DEF OutSlotOK
<1>6. MirroredBut(g, {<<b, k>>}, {<<s, j>>})
  BY <1>4, <1>5 DEF MirroredBut
<1> QED BY <1>1, <1>3, <1>6

\* r agrees with h except that in-slot k of b and out-slot n of src are one edge.
Linked(h, r, b, k, src, n) ==
    /\ \A c \in Block : \A i \in 1..Len(r.in[c]) : <<c, i>> # <<b, k>> =>
          i \in 1..Len(h.in[c]) /\ r.in[c][i] = h.in[c][i] /\ h.in[c][i].point \in Block
    /\ \A c \in Block : \A i \in 1..Len(r.out[c]) : <<c, i>> # <<src, n>> =>
          i \in 1..Len(h.out[c]) /\ r.out[c][i] = h.out[c][i] /\ h.out[c][i].point \in Block
    /\ \A c \in Block : \A i \in 1..Len(h.in[c]) : i \in 1..Len(r.in[c])
    /\ \A c \in Block : \A i \in 1..Len(h.out[c]) : i \in 1..Len(r.out[c])
    /\ k \in 1..Len(r.in[b]) /\ n \in 1..Len(r.out[src])
    /\ r.in[b][k].point = src /\ r.in[b][k].rev = n
    /\ r.out[src][n].point = b /\ r.out[src][n].rev = k

\* Two halves without mirrors made into one edge.
LEMMA LinkSlots ==
    ASSUME NEW h, NEW r, NEW b \in Block, NEW src \in Block, NEW k, NEW n, NEW I, NEW O,
           MirroredBut(h, I \cup {<<b, k>>}, O \cup {<<src, n>>}),
           <<b, k>> \notin I, <<src, n>> \notin O,
           Linked(h, r, b, k, src, n)
    PROVE  MirroredBut(r, I, O)
<1> USE DEF Linked
<1>1. ASSUME NEW c \in Block, NEW i \in 1..Len(r.in[c]), <<c, i>> \notin I
      PROVE  InSlotOK(r, O, c, i)
  <2>1. CASE <<c, i>> = <<b, k>>
    <3>1. c = b /\ i = k
      BY <2>1
    <3> QED BY <3>1 DEF InSlotOK
  <2>2. CASE <<c, i>> # <<b, k>>
    <3>1. /\ i \in 1..Len(h.in[c]) /\ r.in[c][i] = h.in[c][i]
          /\ h.in[c][i].point \in Block
      BY <2>2
    <3>2. InSlotOK(h, O \cup {<<src, n>>}, c, i)
      BY <1>1, <2>2, <3>1 DEF MirroredBut
    <3>3. PICK p \in Block, q \in {h.in[c][i].rev} : p = h.in[c][i].point /\ q = h.in[c][i].rev
      BY <3>1
    <3>4. /\ q \in 1..Len(h.out[p]) /\ <<p, q>> \notin O /\ <<p, q>> # <<src, n>>
          /\ h.out[p][q].point = c /\ h.out[p][q].rev = i
      BY <3>2, <3>3 DEF InSlotOK
    <3>5. q \in 1..Len(r.out[p]) /\ r.out[p][q] = h.out[p][q]
      BY SMTT(60), <3>4
    <3>6. r.in[c][i].point = p /\ r.in[c][i].rev = q
      BY <3>1, <3>3
    <3> QED BY SMTT(60), <3>4, <3>5, <3>6 DEF InSlotOK
  <2> QED BY SMTT(60), <2>1, <2>2
<1>2. ASSUME NEW c \in Block, NEW i \in 1..Len(r.out[c]), <<c, i>> \notin O
      PROVE  OutSlotOK(r, I, c, i)
  <2>1. CASE <<c, i>> = <<src, n>>
    <3>1. c = src /\ i = n
      BY <2>1
    <3>2. /\ r.out[c][i].point = b /\ r.out[c][i].rev = k
          /\ r.in[b][k].point = c /\ r.in[b][k].rev = i
      BY <3>1
    <3>3. k \in 1..Len(r.in[b]) /\ <<b, k>> \notin I
      OBVIOUS
    <3> QED BY ONLY <3>2, <3>3 DEF OutSlotOK
  <2>2. CASE <<c, i>> # <<src, n>>
    <3>1. /\ i \in 1..Len(h.out[c]) /\ r.out[c][i] = h.out[c][i]
          /\ h.out[c][i].point \in Block
      BY <2>2
    <3>2. OutSlotOK(h, I \cup {<<b, k>>}, c, i)
      BY <1>2, <2>2, <3>1 DEF MirroredBut
    <3>3. PICK p \in Block, q \in {h.out[c][i].rev} : p = h.out[c][i].point /\ q = h.out[c][i].rev
      BY SMTT(60), <3>1
    <3>4. /\ q \in 1..Len(h.in[p]) /\ <<p, q>> \notin I /\ <<p, q>> # <<b, k>>
          /\ h.in[p][q].point = c /\ h.in[p][q].rev = i
      BY <3>2, <3>3 DEF OutSlotOK
    <3>5. q \in 1..Len(r.in[p]) /\ r.in[p][q] = h.in[p][q]
      BY SMTT(60), <3>4
    <3>7. r.in[p][q].point = c /\ r.in[p][q].rev = i
      BY <3>4, <3>5
    <3>6. r.out[c][i].point = p /\ r.out[c][i].rev = q
      BY <3>1, <3>3
    <3> QED BY SMTT(60), <3>4, <3>5, <3>6, <3>7 DEF OutSlotOK
  <2> QED BY <2>1, <2>2
<1> QED BY <1>1, <1>2 DEF MirroredBut

\* A slot beyond the end of a list is nobody's mirror.
LEMMA FreeOutSlot ==
    ASSUME NEW h \in Graph, NEW src \in Block, NEW I, MirroredBut(h, I, {})
    PROVE  MirroredBut(h, I, {<<src, Len(h.out[src]) + 1>>})
<1>1. ASSUME NEW c \in Block, NEW i \in 1..Len(h.in[c]), <<c, i>> \notin I
      PROVE  InSlotOK(h, {<<src, Len(h.out[src]) + 1>>}, c, i)
  <2>1. InSlotOK(h, {}, c, i)
    BY <1>1 DEF MirroredBut
  <2> DEFINE p == h.in[c][i].point
             r == h.in[c][i].rev
  <2>2. Len(h.out[src]) \in Nat
    BY ZenonT(60), GraphFacts
  <2>3. r \in 1..Len(h.out[p])
    BY <2>1 DEF InSlotOK
  <2>4. p = src => r # Len(h.out[src]) + 1
    <3> HIDE DEF p, r
    <3>1. ASSUME p = src PROVE r \in 1..Len(h.out[src])
      BY ONLY <2>3, <3>1
    <3> QED BY ONLY <2>2, <3>1
  <2>5. <<p, r>> # <<src, Len(h.out[src]) + 1>>
    <3> HIDE DEF p, r
    <3> QED BY ONLY <2>4
  <2> QED BY <2>1, <2>5 DEF InSlotOK
<1> QED BY <1>1 DEF MirroredBut

LEMMA FreeInSlot ==
    ASSUME NEW h \in Graph, NEW b \in Block, NEW O, MirroredBut(h, {}, O)
    PROVE  MirroredBut(h, {<<b, Len(h.in[b]) + 1>>}, O)
<1>1. ASSUME NEW c \in Block, NEW i \in 1..Len(h.out[c]), <<c, i>> \notin O
      PROVE  OutSlotOK(h, {<<b, Len(h.in[b]) + 1>>}, c, i)
  <2>1. OutSlotOK(h, {}, c, i)
    BY <1>1 DEF MirroredBut
  <2> DEFINE p == h.out[c][i].point
             r == h.out[c][i].rev
  <2>2. Len(h.in[b]) \in Nat
    BY ZenonT(60), GraphFacts
  <2>3. r \in 1..Len(h.in[p])
    BY <2>1 DEF OutSlotOK
  <2>4. p = b => r # Len(h.in[b]) + 1
    <3> HIDE DEF p, r
    <3>1. ASSUME p = b PROVE r \in 1..Len(h.in[b])
      BY ONLY <2>3, <3>1
    <3> QED BY ONLY <2>2, <3>1
  <2>5. <<p, r>> # <<b, Len(h.in[b]) + 1>>
    <3> HIDE DEF p, r
    <3> QED BY ONLY <2>4
  <2> QED BY <2>1, <2>5 DEF OutSlotOK
<1> QED BY <1>1 DEF MirroredBut

-----------------------------------------------------------------------------
(***************************************************************************)
(* The operations.  Sound(g): a well-typed, fully mirrored graph.  Bare(g,c): *)
(* block c has no edges; no operation gives edges to a block it is not about. *)
(***************************************************************************)
Sound(g) == g \in Graph /\ MirroredBut(g, {}, {})
Bare(g, c) == Len(g.in[c]) = 0 /\ Len(g.out[c]) = 0
KeepsBare(g, h) == \A c \in Block : Bare(g, c) => Bare(h, c)

LEMMA FlipSound ==
    ASSUME NEW g \in Graph
    PROVE  /\ Sound(Flip(g)) <=> Sound(g)
           /\ \A c : Bare(Flip(g), c) <=> Bare(g, c)
  BY FlipFacts DEF Sound, Bare

LEMMA DeletedBare ==
    ASSUME NEW g \in Graph, NEW h, NEW b \in Block, NEW k \in 1..Len(g.in[b]),
           Deleted(g, h, b, k)
    PROVE  /\ KeepsBare(g, h)
           /\ \A c \in Block : Len(h.out[c]) = Len(g.out[c])
           /\ \A c \in Block \ {b} : h.in[c] = g.in[c]
<1>1. Len(g.in[b]) \in Nat
  BY GraphFacts
<1>2. /\ \A c \in Block : Len(h.out[c]) = Len(g.out[c])
      /\ \A c \in Block \ {b} : h.in[c] = g.in[c]
  BY DEF Deleted
<1>3. ~Bare(g, b)
  BY <1>1 DEF Bare
<1> QED BY <1>2, <1>3 DEF KeepsBare, Bare

LEMMA RemoveInEdgeOK ==
    ASSUME NEW g, Sound(g), NEW b \in Block, NEW k \in 1..Len(g.in[b])
    PROVE  Sound(RemoveInEdge(g, b, k)) /\ KeepsBare(g, RemoveInEdge(g, b, k))
<1>0. g \in Graph /\ MirroredBut(g, {}, {})
  BY SMTT(60) DEF Sound
<1> DEFINE s == g.in[b][k].point
           j == g.in[b][k].rev
           h == HalfDeleteOut(g, s, j)
           r == HalfDeleteIn(h, b, k)
<1>1. /\ s \in Block /\ j \in 1..Len(g.out[s])
      /\ MirroredBut(g, {<<b, k>>}, {<<s, j>>})
  BY <1>0, BreakEdge
<1> RemoveInEdge(g, b, k) = r
  BY DEF RemoveInEdge
<1> HIDE DEF s, j
<1>2. /\ h \in Graph /\ MirroredBut(h, {<<b, k>>}, {})
      /\ Deleted(Flip(g), Flip(h), s, j)
  BY <1>0, <1>1, HalfDeleteOutOK
<1> HIDE DEF h
<1>3. KeepsBare(g, h) /\ k \in 1..Len(h.in[b])
  <2>1. Flip(g) \in Graph /\ j \in 1..Len(Flip(g).in[s])
    BY <1>0, <1>1, FlipFacts
  <2>2. /\ KeepsBare(Flip(g), Flip(h))
        /\ \A c \in Block : Len(Flip(h).out[c]) = Len(Flip(g).out[c])
    BY <1>1, <1>2, <2>1, DeletedBare
  <2> QED BY <1>0, <1>2, <2>2, FlipFacts, FlipSound DEF KeepsBare
<1>4. r \in Graph /\ MirroredBut(r, {}, {}) /\ Deleted(h, r, b, k)
  BY <1>2, <1>3, HalfDeleteInOK
<1> HIDE DEF r
<1>5. KeepsBare(h, r)
  BY <1>2, <1>3, <1>4, DeletedBare
<1> QED BY <1>3, <1>4, <1>5 DEF Sound, KeepsBare

LEMMA RemoveOutEdgeOK ==
    ASSUME NEW g, Sound(g), NEW b \in Block, NEW k \in 1..Len(g.out[b])
    PROVE  Sound(RemoveOutEdge(g, b, k)) /\ KeepsBare(g, RemoveOutEdge(g, b, k))
<1> DEFINE f == Flip(g)
<1>0. g \in Graph
  BY DEF Sound
<1>1. Sound(f) /\ f \in Graph /\ f.in = g.out /\ f.out = g.in /\ Flip(f) = g
  BY <1>0, FlipFacts, FlipSound
<1> HIDE DEF f
<1>2. Sound(RemoveInEdge(f, b, k)) /\ KeepsBare(f, RemoveInEdge(f, b, k))
  BY <1>1, RemoveInEdgeOK
<1>3. RemoveOutEdge(g, b, k) = Flip(RemoveInEdge(f, b, k))
  <2> DEFINE s == f.in[b][k].point
             j == f.in[b][k].rev
             h == HalfDeleteOut(f, s, j)
  <2>1. s \in Block /\ j \in 1..Len(f.out[s]) /\ MirroredBut(f, {<<b, k>>}, {<<s, j>>})
    BY <1>1, BreakEdge DEF Sound
  <2>2. h = Flip(HalfDeleteIn(g, s, j))
    BY <1>1, <2>1, HalfDeleteOutFlip
  <2>3. RemoveInEdge(f, b, k) = HalfDeleteIn(h, b, k)
    BY DEF RemoveInEdge
  <2>4. h \in Graph
    <3> HIDE DEF s, j
    <3> QED BY <1>1, <2>1, HalfDeleteOutOK
  <2>5. HalfDeleteOut(Flip(h), b, k) = Flip(HalfDeleteIn(Flip(Flip(h)), b, k)) /\ Flip(Flip(h)) = h
    <3> HIDE DEF h
    <3>1. Flip(h) \in Graph /\ Flip(Flip(h)) = h
      BY <2>4, FlipFacts
    <3> QED BY <3>1, HalfDeleteOutFlip
  <2>6. HalfDeleteIn(g, s, j) = Flip(h)
    <3>1. Flip(Flip(HalfDeleteIn(g, s, j))) = HalfDeleteIn(g, s, j)
      <4>1. \A x, y : Flip(Flip([in |-> x, out |-> y])) = [in |-> x, out |-> y]
        BY DEF Flip
      <4> QED BY <4>1 DEF HalfDeleteIn
    <3> HIDE DEF h
    <3> QED BY SMTT(60), <2>2, <3>1
  <2>7. RemoveOutEdge(g, b, k) = HalfDeleteOut(HalfDeleteIn(g, s, j), b, k)
    BY <1>1 DEF RemoveOutEdge
  <2> HIDE DEF h, s, j
  <2> QED BY SMTT(60), <2>3, <2>5, <2>6, <2>7
<1> HIDE DEF f
<1>4. RemoveInEdge(f, b, k) \in Graph
  BY <1>2 DEF Sound
<1> QED BY <1>0, <1>1, <1>2, <1>3, <1>4, FlipSound DEF KeepsBare

\* A list with one element appended, or one slot rewritten, in a table of lists.
LEMMA TableAppend ==
    ASSUME NEW t \in [Block -> Seq(Edge)], NEW b \in Block, NEW x \in Edge
    PROVE  LET u == [t EXCEPT ![b] = Append(@, x)] IN
           /\ u \in [Block -> Seq(Edge)]
           /\ \A c \in Block : Len(u[c]) = IF c = b THEN Len(t[b]) + 1 ELSE Len(t[c])
           /\ \A c \in Block : \A i \in 1..Len(t[c]) : u[c][i] = t[c][i]
           /\ u[b][Len(t[b]) + 1] = x
<1> DEFINE u == [t EXCEPT ![b] = Append(@, x)]
<1>1. t[b] \in Seq(Edge) /\ Len(t[b]) \in Nat
  BY LenProperties
<1>2. /\ Append(t[b], x) \in Seq(Edge) /\ Len(Append(t[b], x)) = Len(t[b]) + 1
      /\ \A i \in 1..Len(t[b]) : Append(t[b], x)[i] = t[b][i]
      /\ Append(t[b], x)[Len(t[b]) + 1] = x
  BY <1>1, AppendProperties
<1>3. u[b] = Append(t[b], x) /\ \A c \in Block \ {b} : u[c] = t[c]
  OBVIOUS
<1>4. u \in [Block -> Seq(Edge)]
  BY <1>2
<1> HIDE DEF u
<1>5. \A c \in Block : Len(u[c]) = IF c = b THEN Len(t[b]) + 1 ELSE Len(t[c])
  BY <1>2, <1>3
<1>6. \A c \in Block : \A i \in 1..Len(t[c]) : u[c][i] = t[c][i]
  BY <1>2, <1>3
<1>7. u[b][Len(t[b]) + 1] = x
  BY <1>2, <1>3
<1> QED BY <1>4, <1>5, <1>6, <1>7 DEF u

LEMMA TableExcept ==
    ASSUME NEW t \in [Block -> Seq(Edge)], NEW b \in Block, NEW k \in 1..Len(t[b]),
           NEW x \in Edge
    PROVE  LET u == [t EXCEPT ![b][k] = x] IN
           /\ u \in [Block -> Seq(Edge)]
           /\ \A c \in Block : Len(u[c]) = Len(t[c])
           /\ \A c \in Block : \A i \in 1..Len(t[c]) : <<c, i>> # <<b, k>> => u[c][i] = t[c][i]
           /\ u[b][k] = x
<1> DEFINE u == [t EXCEPT ![b][k] = x]
<1>1. t[b] \in Seq(Edge)
  OBVIOUS
<1>2. /\ [t[b] EXCEPT ![k] = x] \in Seq(Edge) /\ Len([t[b] EXCEPT ![k] = x]) = Len(t[b])
      /\ \A i \in 1..Len(t[b]) : [t[b] EXCEPT ![k] = x][i] = IF i = k THEN x ELSE t[b][i]
  BY <1>1, ExceptSeq
<1>3. u[b] = [t[b] EXCEPT ![k] = x] /\ \A c \in Block \ {b} : u[c] = t[c]
  OBVIOUS
<1>4. u \in [Block -> Seq(Edge)]
  BY <1>2
<1> HIDE DEF u
<1>5. \A c \in Block : Len(u[c]) = Len(t[c])
  BY <1>2, <1>3
<1>6. \A c \in Block : \A i \in 1..Len(t[c]) : <<c, i>> # <<b, k>> => u[c][i] = t[c][i]
  BY <1>2, <1>3
<1>7. u[b][k] = x
  BY <1>2, <1>3
<1> QED BY <1>4, <1>5, <1>6, <1>7 DEF u

LEMMA AddInEdgeOK ==
    ASSUME NEW g, Sound(g), NEW b \in Block, NEW src \in Block, NEW lab \in SUBSET Label
    PROVE  /\ Sound(AddInEdge(g, b, src, lab))
           /\ \A c \in Block \ {b, src} : Bare(g, c) => Bare(AddInEdge(g, b, src, lab), c)
<1> DEFINE r == AddInEdge(g, b, src, lab)
           k == Len(g.in[b]) + 1
           n == Len(g.out[src]) + 1
           x == [label |-> lab, point |-> src, rev |-> n]
           y == [label |-> lab, point |-> b, rev |-> k]
<1>0. g \in Graph /\ MirroredBut(g, {}, {})
  BY DEF Sound
<1>1. /\ g.in \in [Block -> Seq(Edge)] /\ g.out \in [Block -> Seq(Edge)]
      /\ k \in Nat /\ n \in Nat /\ k >= 1 /\ n >= 1
  BY <1>0, GraphFacts
<1>2. x \in Edge /\ y \in Edge
  <2> HIDE DEF k, n
  <2> QED BY <1>1 DEF Edge
<1>3. r = [in |-> [g.in EXCEPT ![b] = Append(@, x)],
           out |-> [g.out EXCEPT ![src] = Append(@, y)]]
  BY DEF AddInEdge
<1>4. x.point = src /\ x.rev = n /\ y.point = b /\ y.rev = k
  OBVIOUS
<1> HIDE DEF r, x, y
<1>5. /\ r.in \in [Block -> Seq(Edge)]
      /\ \A c \in Block : Len(r.in[c]) = IF c = b THEN Len(g.in[b]) + 1 ELSE Len(g.in[c])
      /\ \A c \in Block : \A i \in 1..Len(g.in[c]) : r.in[c][i] = g.in[c][i]
      /\ r.in[b][k] = x
  BY SMTT(60), <1>1, <1>2, <1>3, TableAppend
<1>6. /\ r.out \in [Block -> Seq(Edge)]
      /\ \A c \in Block : Len(r.out[c]) = IF c = src THEN Len(g.out[src]) + 1 ELSE Len(g.out[c])
      /\ \A c \in Block : \A i \in 1..Len(g.out[c]) : r.out[c][i] = g.out[c][i]
      /\ r.out[src][n] = y
  BY SMTT(60), <1>1, <1>2, <1>3, TableAppend
<1>7. r \in Graph
  BY <1>3, <1>5, <1>6 DEF Graph
<1>8. MirroredBut(g, {} \cup {<<b, k>>}, {} \cup {<<src, n>>})
  <2>1. MirroredBut(g, {}, {<<src, n>>})
    BY <1>0, FreeOutSlot
  <2>2. MirroredBut(g, {<<b, k>>}, {<<src, n>>})
    <3> HIDE DEF n
    <3> QED BY <1>0, <2>1, FreeInSlot
  <2> QED BY <2>2
<1>9. \A c \in Block : Len(g.in[c]) \in Nat /\ Len(g.out[c]) \in Nat
  BY <1>0, GraphFacts
<1>10. \A c \in Block : \A i \in 1..Len(r.in[c]) : <<c, i>> # <<b, k>> =>
           i \in 1..Len(g.in[c]) /\ r.in[c][i] = g.in[c][i] /\ g.in[c][i].point \in Block
  <2> SUFFICES ASSUME NEW c \in Block, NEW i \in 1..Len(r.in[c]), <<c, i>> # <<b, k>>
               PROVE  i \in 1..Len(g.in[c])
    BY <1>0, <1>5, GraphFacts
  <2> QED BY SMTT(60), <1>5, <1>9
<1>11. \A c \in Block : \A i \in 1..Len(r.out[c]) : <<c, i>> # <<src, n>> =>
           i \in 1..Len(g.out[c]) /\ r.out[c][i] = g.out[c][i] /\ g.out[c][i].point \in Block
  <2> SUFFICES ASSUME NEW c \in Block, NEW i \in 1..Len(r.out[c]), <<c, i>> # <<src, n>>
               PROVE  i \in 1..Len(g.out[c])
    BY <1>0, <1>6, GraphFacts
  <2> QED BY <1>6, <1>9
<1>12. /\ \A c \in Block : \A i \in 1..Len(g.in[c]) : i \in 1..Len(r.in[c])
       /\ \A c \in Block : \A i \in 1..Len(g.out[c]) : i \in 1..Len(r.out[c])
       /\ k \in 1..Len(r.in[b]) /\ n \in 1..Len(r.out[src])
  <2>1. \A c \in Block : \A i \in 1..Len(g.in[c]) : i \in 1..Len(r.in[c])
    BY SMTT(60), <1>5, <1>9
  <2>2. \A c \in Block : \A i \in 1..Len(g.out[c]) : i \in 1..Len(r.out[c])
    BY <1>6, <1>9
  <2>3. Len(r.in[b]) = k /\ Len(r.out[src]) = n
    BY <1>5, <1>6
  <2> QED BY <1>1, <2>1, <2>2, <2>3
<1>13. /\ r.in[b][k].point = src /\ r.in[b][k].rev = n
       /\ r.out[src][n].point = b /\ r.out[src][n].rev = k
  BY <1>4, <1>5, <1>6
<1> HIDE DEF k, n
<1>14. MirroredBut(r, {}, {})
  <2>1. Linked(g, r, b, k, src, n)
    BY <1>10, <1>11, <1>12, <1>13 DEF Linked
  <2> QED BY <1>8, <2>1, LinkSlots
<1>15. \A c \in Block \ {b, src} : Bare(g, c) => Bare(r, c)
  BY SMTT(60), <1>5, <1>6 DEF Bare
<1> QED BY <1>7, <1>14, <1>15 DEF Sound, r

LEMMA ReplaceInEdgeOK ==
    ASSUME NEW g, Sound(g), NEW b \in Block, NEW k \in 1..Len(g.in[b]), NEW src \in Block
    PROVE  /\ Sound(ReplaceInEdge(g, b, k, src))
           /\ \A c \in Block \ {src} : Bare(g, c) => Bare(ReplaceInEdge(g, b, k, src), c)
<1>0. g \in Graph /\ MirroredBut(g, {}, {})
  BY DEF Sound
<1> DEFINE s == g.in[b][k].point
           j == g.in[b][k].rev
           h == HalfDeleteOut(g, s, j)
           n == Len(h.out[src]) + 1
           x == [label |-> g.in[b][k].label, point |-> src, rev |-> n]
           y == [label |-> g.in[b][k].label, point |-> b, rev |-> k]
           r == ReplaceInEdge(g, b, k, src)
<1>1. /\ s \in Block /\ j \in 1..Len(g.out[s])
      /\ MirroredBut(g, {<<b, k>>}, {<<s, j>>})
  BY <1>0, BreakEdge
<1>2. r = [in  |-> [h.in EXCEPT ![b][k] = x], out |-> [h.out EXCEPT ![src] = Append(@, y)]]
  BY DEF ReplaceInEdge
<1>3. g.in[b][k].label \in SUBSET Label /\ k \in Nat
  <2>1. g.in[b][k] \in Edge /\ Len(g.in[b]) \in Nat
    BY <1>0, GraphFacts
  <2> QED BY <2>1 DEF Edge
<1>4. x.point = src /\ x.rev = n /\ y.point = b /\ y.rev = k
  OBVIOUS
<1>5. n \in Nat => x \in Edge /\ y \in Edge
  <2> HIDE DEF n
  <2> QED BY <1>3 DEF Edge
<1> HIDE DEF s, j, x, y, r
<1>6. /\ h \in Graph /\ MirroredBut(h, {<<b, k>>}, {})
      /\ Deleted(Flip(g), Flip(h), s, j)
  BY <1>0, <1>1, HalfDeleteOutOK
<1> HIDE DEF h
<1>7. /\ \A c \in Block : Bare(g, c) => Bare(h, c)
      /\ \A c \in Block : Len(h.in[c]) = Len(g.in[c])
  <2>1. Flip(g) \in Graph /\ j \in 1..Len(Flip(g).in[s])
    BY <1>0, <1>1, FlipFacts
  <2>2. /\ KeepsBare(Flip(g), Flip(h))
        /\ \A c \in Block : Len(Flip(h).out[c]) = Len(Flip(g).out[c])
    BY <1>1, <1>6, <2>1, DeletedBare
  <2> QED BY <1>0, <1>6, <2>2, FlipFacts, FlipSound DEF KeepsBare
<1>8. /\ h.in \in [Block -> Seq(Edge)] /\ h.out \in [Block -> Seq(Edge)]
      /\ n \in Nat /\ n >= 1 /\ x \in Edge /\ y \in Edge /\ k \in 1..Len(h.in[b])
  <2>1. /\ h.in \in [Block -> Seq(Edge)] /\ h.out \in [Block -> Seq(Edge)]
        /\ n \in Nat /\ n >= 1
    BY <1>6, GraphFacts
  <2> QED BY <1>5, <1>7, <2>1
<1>9. /\ r.in \in [Block -> Seq(Edge)]
      /\ \A c \in Block : Len(r.in[c]) = Len(h.in[c])
      /\ \A c \in Block : \A i \in 1..Len(h.in[c]) : <<c, i>> # <<b, k>> => r.in[c][i] = h.in[c][i]
      /\ r.in[b][k] = x
  BY SMTT(60), <1>2, <1>8, TableExcept
<1>10. /\ r.out \in [Block -> Seq(Edge)]
       /\ \A c \in Block : Len(r.out[c]) = IF c = src THEN Len(h.out[src]) + 1 ELSE Len(h.out[c])
       /\ \A c \in Block : \A i \in 1..Len(h.out[c]) : r.out[c][i] = h.out[c][i]
       /\ r.out[src][n] = y
  BY SMTT(60), <1>2, <1>8, TableAppend
<1>11. r \in Graph
  BY <1>2, <1>9, <1>10 DEF Graph
<1>12. \A c \in Block : Len(h.in[c]) \in Nat /\ Len(h.out[c]) \in Nat
  BY <1>6, GraphFacts
<1>13. MirroredBut(h, {} \cup {<<b, k>>}, {} \cup {<<src, n>>})
  <2>1. MirroredBut(h, {<<b, k>>}, {<<src, n>>})
    BY <1>6, FreeOutSlot
  <2> QED BY <2>1
<1>14. Linked(h, r, b, k, src, n)
  <2>1. \A c \in Block : \A i \in 1..Len(r.in[c]) : <<c, i>> # <<b, k>> =>
           i \in 1..Len(h.in[c]) /\ r.in[c][i] = h.in[c][i] /\ h.in[c][i].point \in Block
    BY <1>6, <1>9, GraphFacts
  <2>2. \A c \in Block : \A i \in 1..Len(r.out[c]) : <<c, i>> # <<src, n>> =>
           i \in 1..Len(h.out[c]) /\ r.out[c][i] = h.out[c][i] /\ h.out[c][i].point \in Block
    <3> SUFFICES ASSUME NEW c \in Block, NEW i \in 1..Len(r.out[c]), <<c, i>> # <<src, n>>
                 PROVE  i \in 1..Len(h.out[c])
      BY <1>6, <1>10, GraphFacts
    <3> QED BY <1>10, <1>12
  <2>3. \A c \in Block : \A i \in 1..Len(h.in[c]) : i \in 1..Len(r.in[c])
    BY <1>9
  <2>4. \A c \in Block : \A i \in 1..Len(h.out[c]) : i \in 1..Len(r.out[c])
    BY SMTT(60), <1>10, <1>12
  <2>5. Len(r.out[src]) = n /\ k \in 1..Len(r.in[b])
    BY <1>8, <1>9, <1>10
  <2>6. n \in 1..Len(r.out[src])
    BY <1>8, <2>5
  <2> HIDE DEF n
  <2>7. /\ r.in[b][k].point = src /\ r.in[b][k].rev = n
        /\ r.out[src][n].point = b /\ r.out[src][n].rev = k
    BY <1>4, <1>9, <1>10
  <2> QED BY <2>1, <2>2, <2>3, <2>4, <2>5, <2>6, <2>7 DEF Linked
<1> HIDE DEF n
<1>15. MirroredBut(r, {}, {})
  BY <1>13, <1>14, LinkSlots
<1>16. \A c \in Block \ {src} : Bare(g, c) => Bare(r, c)
  BY <1>7, <1>9, <1>10 DEF Bare
<1> QED BY <1>11, <1>15, <1>16 DEF Sound, r

LEMMA ReplaceOutEdgeOK ==
    ASSUME NEW g, Sound(g), NEW b \in Block, NEW k \in 1..Len(g.out[b]), NEW tgt \in Block
    PROVE  /\ Sound(ReplaceOutEdge(g, b, k, tgt))
           /\ \A c \in Block \ {tgt} : Bare(g, c) => Bare(ReplaceOutEdge(g, b, k, tgt), c)
<1> DEFINE f == Flip(g)
<1>0. g \in Graph
  BY DEF Sound
<1>1. Sound(f) /\ f \in Graph /\ f.in = g.out /\ f.out = g.in /\ Flip(f) = g
  BY <1>0, FlipFacts, FlipSound
<1> HIDE DEF f
<1>2. /\ Sound(ReplaceInEdge(f, b, k, tgt))
      /\ \A c \in Block \ {tgt} : Bare(f, c) => Bare(ReplaceInEdge(f, b, k, tgt), c)
  BY <1>1, ReplaceInEdgeOK
<1>3. ReplaceOutEdge(g, b, k, tgt) = Flip(ReplaceInEdge(f, b, k, tgt))
  <2>1. f.in[b][k].point \in Block
    BY <1>1, GraphFacts
  <2>2. HalfDeleteOut(f, f.in[b][k].point, f.in[b][k].rev)
          = Flip(HalfDeleteIn(g, f.in[b][k].point, f.in[b][k].rev))
    BY <1>1, <2>1, HalfDeleteOutFlip
  <2>3. \A x : Flip(x).in = x.out /\ Flip(x).out = x.in
    BY DEF Flip
  <2>4. \A x, y : Flip([in |-> x, out |-> y]) = [out |-> x, in |-> y]
    BY DEF Flip
  <2> DEFINE e == g.out[b][k]
             h == HalfDeleteIn(g, e.point, e.rev)
             A == [h.out EXCEPT ![b][k] =
                     [label |-> e.label, point |-> tgt, rev |-> Len(h.in[tgt]) + 1]]
             B == [h.in EXCEPT ![tgt] = Append(@, [label |-> e.label, point |-> b, rev |-> k])]
  <2>5. ReplaceOutEdge(g, b, k, tgt) = [out |-> A, in |-> B]
    BY DEF ReplaceOutEdge
  <2>6. f.in[b][k] = e
    BY <1>1
  <2>7. HalfDeleteOut(f, e.point, e.rev) = Flip(h)
    BY <2>2, <2>6
  <2>8. ReplaceInEdge(f, b, k, tgt) =
          [in  |-> [Flip(h).in EXCEPT ![b][k] =
                     [label |-> e.label, point |-> tgt, rev |-> Len(Flip(h).out[tgt]) + 1]],
           out |-> [Flip(h).out EXCEPT ![tgt] =
                     Append(@, [label |-> e.label, point |-> b, rev |-> k])]]
    <3> HIDE DEF e, h
    <3> QED BY <2>6, <2>7, Zenon DEF ReplaceInEdge
  <2>9. ReplaceInEdge(f, b, k, tgt) = [in |-> A, out |-> B]
    <3>1. Flip(h).in = h.out /\ Flip(h).out = h.in
      BY <2>3
    <3> HIDE DEF e, h
    <3> QED BY <2>8, <3>1, Zenon
  <2> HIDE DEF A, B
  <2> QED BY <2>4, <2>5, <2>9
<1>4. ReplaceInEdge(f, b, k, tgt) \in Graph
  BY <1>2 DEF Sound
<1>5. \A c \in Block : (Bare(f, c) <=> Bare(g, c)) /\
         (Bare(ReplaceOutEdge(g, b, k, tgt), c) <=> Bare(ReplaceInEdge(f, b, k, tgt), c))
  BY SMTT(60), <1>0, <1>1, <1>3, <1>4, FlipSound DEF f
<1> QED BY <1>2, <1>3, <1>4, <1>5, FlipSound

\* A second intact edge may be broken as well.
LEMMA BreakAlso ==
    ASSUME NEW g \in Graph, NEW I, NEW O, MirroredBut(g, I, O),
           NEW b \in Block, NEW k \in 1..Len(g.out[b]), <<b, k>> \notin O
    PROVE  /\ g.out[b][k].point \in Block
           /\ g.out[b][k].rev \in 1..Len(g.in[g.out[b][k].point])
           /\ <<g.out[b][k].point, g.out[b][k].rev>> \notin I
           /\ g.in[g.out[b][k].point][g.out[b][k].rev].point = b
           /\ g.in[g.out[b][k].point][g.out[b][k].rev].rev = k
           /\ MirroredBut(g, I \cup {<<g.out[b][k].point, g.out[b][k].rev>>}, O \cup {<<b, k>>})
<1>1. PICK t \in Block, q \in Nat : t = g.out[b][k].point /\ q = g.out[b][k].rev
  BY SMTT(60), GraphFacts
<1>2. OutSlotOK(g, I, b, k)
  BY DEF MirroredBut
<1>3. q \in 1..Len(g.in[t]) /\ <<t, q>> \notin I /\ g.in[t][q].point = b /\ g.in[t][q].rev = k
  BY ZenonT(60), <1>1, <1>2 DEF OutSlotOK
<1>4. ASSUME NEW c \in Block, NEW i \in 1..Len(g.out[c]), <<c, i>> \notin O \cup {<<b, k>>}
      PROVE  OutSlotOK(g, I \cup {<<t, q>>}, c, i)
  <2>1. OutSlotOK(g, I, c, i)
    BY SMTT(60), <1>4 DEF MirroredBut
  <2>2. <<g.out[c][i].point, g.out[c][i].rev>> # <<t, q>>
    BY ZenonT(60), <1>3, <1>4, <2>1 DEF OutSlotOK
  <2> QED BY <2>1, <2>2 DEF OutSlotOK
<1>5. ASSUME NEW c \in Block, NEW i \in 1..Len(g.in[c]), <<c, i>> \notin I \cup {<<t, q>>}
      PROVE  InSlotOK(g, O \cup {<<b, k>>}, c, i)
  <2>1. InSlotOK(g, O, c, i)
    BY SMTT(60), <1>5 DEF MirroredBut
  <2>2. <<g.in[c][i].point, g.in[c][i].rev>> # <<b, k>>
    BY <1>1, <1>5, <2>1 DEF InSlotOK
  <2> QED BY <2>1, <2>2 DEF InSlotOK
<1>6. MirroredBut(g, I \cup {<<t, q>>}, O \cup {<<b, k>>})
  BY <1>4, <1>5 DEF MirroredBut
<1> QED BY <1>1, <1>3, <1>6

\* Two halves that have lost each other are deleted, the in-half first.
LEMMA DropBoth ==
    ASSUME NEW h \in Graph, NEW b \in Block, NEW i \in 1..Len(h.in[b]), NEW o \in 1..Len(h.out[b]),
           MirroredBut(h, {<<b, i>>}, {<<b, o>>})
    PROVE  LET r == HalfDeleteOut(HalfDeleteIn(h, b, i), b, o) IN
           /\ Sound(r) /\ KeepsBare(h, r)
           /\ Len(r.in[b]) = Len(h.in[b]) - 1
           /\ Len(r.out[b]) = Len(h.out[b]) - 1
<1> DEFINE m == HalfDeleteIn(h, b, i)
           r == HalfDeleteOut(m, b, o)
<1>1. /\ m \in Graph /\ MirroredBut(m, {}, {<<b, o>>}) /\ Deleted(h, m, b, i)
  BY HalfDeleteInOK
<1> HIDE DEF m
<1>2. /\ KeepsBare(h, m) /\ Len(m.out[b]) = Len(h.out[b])
      /\ Len(m.in[b]) = Len(h.in[b]) - 1
  <2>1. KeepsBare(h, m) /\ Len(m.out[b]) = Len(h.out[b])
    BY <1>1, DeletedBare
  <2> QED BY <1>1, <2>1 DEF Deleted
<1>3. /\ r \in Graph /\ MirroredBut(r, {}, {})
      /\ Deleted(Flip(m), Flip(r), b, o)
  BY <1>1, <1>2, HalfDeleteOutOK
<1> HIDE DEF r
<1>4. /\ KeepsBare(m, r) /\ Len(r.in[b]) = Len(m.in[b])
      /\ Len(r.out[b]) = Len(m.out[b]) - 1
  <2>1. /\ Flip(m) \in Graph /\ Flip(m).in = m.out /\ Flip(m).out = m.in
        /\ Flip(r).in = r.out /\ Flip(r).out = r.in
    BY <1>1, <1>3, FlipFacts
  <2>2. /\ KeepsBare(Flip(m), Flip(r)) /\ Len(Flip(r).out[b]) = Len(Flip(m).out[b])
    <3>1. o \in 1..Len(Flip(m).in[b])
      BY <1>2, <2>1
    <3> QED BY <1>3, <2>1, <3>1, DeletedBare
  <2>3. Len(Flip(r).in[b]) = Len(Flip(m).in[b]) - 1
    BY <1>3 DEF Deleted
  <2>4. KeepsBare(m, r)
    BY <1>1, <1>3, <2>2, FlipSound DEF KeepsBare
  <2> QED BY <2>1, <2>2, <2>3, <2>4
<1>5. KeepsBare(h, r)
  BY <1>2, <1>4 DEF KeepsBare
<1> QED BY <1>2, <1>3, <1>4, <1>5 DEF Sound, m, r

\* Changing labels alone moves no edge.
SameSlots(g, h) ==
    /\ \A c \in Block : Len(h.in[c]) = Len(g.in[c]) /\ Len(h.out[c]) = Len(g.out[c])
    /\ \A c \in Block : \A j \in 1..Len(g.in[c]) :
          h.in[c][j].point = g.in[c][j].point /\ h.in[c][j].rev = g.in[c][j].rev
    /\ \A c \in Block : \A j \in 1..Len(g.out[c]) :
          h.out[c][j].point = g.out[c][j].point /\ h.out[c][j].rev = g.out[c][j].rev

LEMMA SameSlotsMirrored ==
    ASSUME NEW g \in Graph, NEW h, SameSlots(g, h), NEW I, NEW O, MirroredBut(g, I, O)
    PROVE  MirroredBut(h, I, O)
<1>1. ASSUME NEW c \in Block, NEW j \in 1..Len(h.in[c]), <<c, j>> \notin I
      PROVE  InSlotOK(h, O, c, j)
  <2>1. j \in 1..Len(g.in[c]) /\ h.in[c][j].point = g.in[c][j].point
        /\ h.in[c][j].rev = g.in[c][j].rev
    BY DEF SameSlots
  <2>2. InSlotOK(g, O, c, j) /\ g.in[c][j].point \in Block
    BY <1>1, <2>1, GraphFacts DEF MirroredBut
  <2>3. PICK s \in Block, n \in {g.in[c][j].rev} : s = g.in[c][j].point /\ n = g.in[c][j].rev
    BY SMTT(60), <2>2
  <2>4. n \in 1..Len(g.out[s]) /\ <<s, n>> \notin O /\ g.out[s][n].point = c /\ g.out[s][n].rev = j
    BY <2>2, <2>3 DEF InSlotOK
  <2>5. n \in 1..Len(h.out[s]) /\ h.out[s][n].point = c /\ h.out[s][n].rev = j
    BY SMTT(60), <2>4 DEF SameSlots
  <2> QED BY <2>1, <2>3, <2>4, <2>5 DEF InSlotOK
<1>2. ASSUME NEW c \in Block, NEW j \in 1..Len(h.out[c]), <<c, j>> \notin O
      PROVE  OutSlotOK(h, I, c, j)
  <2>1. j \in 1..Len(g.out[c]) /\ h.out[c][j].point = g.out[c][j].point
        /\ h.out[c][j].rev = g.out[c][j].rev
    BY DEF SameSlots
  <2>2. OutSlotOK(g, I, c, j) /\ g.out[c][j].point \in Block
    BY <1>2, <2>1, GraphFacts DEF MirroredBut
  <2>3. PICK s \in Block, n \in {g.out[c][j].rev} : s = g.out[c][j].point /\ n = g.out[c][j].rev
    BY SMTT(60), <2>2
  <2>4. n \in 1..Len(g.in[s]) /\ <<s, n>> \notin I /\ g.in[s][n].point = c /\ g.in[s][n].rev = j
    BY <2>2, <2>3 DEF OutSlotOK
  <2>5. n \in 1..Len(h.in[s]) /\ h.in[s][n].point = c /\ h.in[s][n].rev = j
    BY <2>4 DEF SameSlots
  <2> QED BY <2>1, <2>3, <2>4, <2>5 DEF OutSlotOK
<1> QED BY SMTT(60), <1>1, <1>2 DEF MirroredBut

LEMMA SameSlotsSound ==
    ASSUME NEW g, Sound(g), NEW h \in Graph, SameSlots(g, h)
    PROVE  Sound(h) /\ KeepsBare(g, h)
<1>1. MirroredBut(h, {}, {})
  BY SameSlotsMirrored DEF Sound
<1> QED BY <1>1 DEF Sound, KeepsBare, Bare, SameSlots

\* u is t with slot k of list b rewritten to x.
SlotSet(u, t, b, k, x) ==
    /\ u \in [Block -> Seq(Edge)]
    /\ \A d \in Block : Len(u[d]) = Len(t[d])
    /\ \A d \in Block : \A i \in 1..Len(t[d]) : <<d, i>> # <<b, k>> => u[d][i] = t[d][i]
    /\ u[b][k] = x

LEMMA SetSlot ==
    ASSUME NEW t \in [Block -> Seq(Edge)], NEW b \in Block, NEW k \in 1..Len(t[b]), NEW x \in Edge
    PROVE  SlotSet([t EXCEPT ![b][k] = x], t, b, k, x)
<1> DEFINE u == [t EXCEPT ![b][k] = x]
<1>1. /\ u \in [Block -> Seq(Edge)]
      /\ \A d \in Block : Len(u[d]) = Len(t[d])
      /\ \A d \in Block : \A i \in 1..Len(t[d]) : <<d, i>> # <<b, k>> => u[d][i] = t[d][i]
      /\ u[b][k] = x
  BY TableExcept
<1> HIDE DEF u
<1>2. SlotSet(u, t, b, k, x)
  BY <1>1 DEF SlotSet
<1> QED BY <1>2 DEF u

\* replaceEdgesThru up to its two deletions: h is g with the outer halves of in-slot i
\* and out-slot o of b (out-slot r of p and in-slot q of t) joined.
Joined(g, b, i, o, p, r, t, q, h) ==
    /\ p = g.in[b][i].point /\ r = g.in[b][i].rev /\ r \in 1..Len(g.out[p])
    /\ t = g.out[b][o].point /\ q = g.out[b][o].rev /\ q \in 1..Len(g.in[t])
    /\ SlotSet(h.out, g.out, p, r, [label |-> g.out[p][r].label, point |-> t, rev |-> q])
    /\ SlotSet(h.in, g.in, t, q, [label |-> g.in[t][q].label, point |-> p, rev |-> r])
    /\ MirroredBut(h, {<<b, i>>}, {<<b, o>>})
    /\ ReplaceEdgesThru(g, b, i, o) = HalfDeleteOut(HalfDeleteIn(h, b, i), b, o)

LEMMA JoinOuter ==
    ASSUME NEW g, Sound(g), NEW b \in Block,
           NEW i \in 1..Len(g.in[b]), NEW o \in 1..Len(g.out[b])
    PROVE  \E p \in Block, r \in Nat, t \in Block, q \in Nat, h \in Graph :
              Joined(g, b, i, o, p, r, t, q, h)
<1> DEFINE p == g.in[b][i].point
           r == g.in[b][i].rev
           t == g.out[b][o].point
           q == g.out[b][o].rev
           x == [label |-> g.out[p][r].label, point |-> t, rev |-> q]
           y == [label |-> g.in[t][q].label, point |-> p, rev |-> r]
           h == [out |-> [g.out EXCEPT ![p][r] = x], in |-> [g.in EXCEPT ![t][q] = y]]
<1>0. g \in Graph /\ MirroredBut(g, {}, {})
  BY SMTT(60) DEF Sound
<1>a. /\ g.in[b][i].point \in Block
      /\ g.in[b][i].rev \in 1..Len(g.out[g.in[b][i].point])
      /\ g.out[g.in[b][i].point][g.in[b][i].rev].point = b
      /\ g.out[g.in[b][i].point][g.in[b][i].rev].rev = i
      /\ MirroredBut(g, {<<b, i>>}, {<<g.in[b][i].point, g.in[b][i].rev>>})
  <2> HIDE DEF p, r, t, q, x, y, h
  <2> QED BY ZenonT(60), <1>0, BreakEdge
<1>b. /\ g.out[b][o].point \in Block
      /\ g.out[b][o].rev \in 1..Len(g.in[g.out[b][o].point])
      /\ g.in[g.out[b][o].point][g.out[b][o].rev].point = b
      /\ g.in[g.out[b][o].point][g.out[b][o].rev].rev = o
  <2> HIDE DEF p, r, t, q, x, y, h
  <2>1. OutSlotOK(g, {}, b, o)
    BY <1>0 DEF MirroredBut
  <2>2. g.out[b][o].point \in Block
    BY <1>0, GraphFacts
  <2> QED BY <2>1, <2>2 DEF OutSlotOK
<1>1. /\ p \in Block /\ r \in 1..Len(g.out[p])
      /\ g.out[p][r].point = b /\ g.out[p][r].rev = i
      /\ MirroredBut(g, {<<b, i>>}, {<<p, r>>})
  BY <1>a, Zenon
<1>2. /\ t \in Block /\ q \in 1..Len(g.in[t])
      /\ g.in[t][q].point = b /\ g.in[t][q].rev = o
  BY <1>b, Zenon
<1>3. ReplaceEdgesThru(g, b, i, o) = HalfDeleteOut(HalfDeleteIn(h, b, i), b, o)
  BY DEF ReplaceEdgesThru
<1>4. /\ g.in \in [Block -> Seq(Edge)] /\ g.out \in [Block -> Seq(Edge)]
      /\ x \in Edge /\ y \in Edge
      /\ x.point = t /\ x.rev = q /\ y.point = p /\ y.rev = r
  <2>1. g.out[p][r] \in Edge /\ g.in[t][q] \in Edge /\ r \in Nat /\ q \in Nat
    BY ZenonT(60), <1>0, <1>1, <1>2, GraphFacts
  <2>2. g.out[p][r].label \in SUBSET Label /\ g.in[t][q].label \in SUBSET Label
    BY <2>1 DEF Edge
  <2>3. g.in \in [Block -> Seq(Edge)] /\ g.out \in [Block -> Seq(Edge)]
    BY SMTT(60), <1>0 DEF Graph
  <2> HIDE DEF p, r, t, q
  <2> QED BY <1>1, <1>2, <2>1, <2>2, <2>3 DEF Edge
<1> DEFINE hi == [g.in EXCEPT ![t][q] = y]
           ho == [g.out EXCEPT ![p][r] = x]
<1>5. h.in = hi /\ h.out = ho /\ h = [out |-> ho, in |-> hi]
  OBVIOUS
<1> HIDE DEF h, x, y, p, r, t, q
<1>6. /\ hi \in [Block -> Seq(Edge)]
      /\ \A c \in Block : Len(hi[c]) = Len(g.in[c])
      /\ \A c \in Block : \A j \in 1..Len(g.in[c]) : <<c, j>> # <<t, q>> => hi[c][j] = g.in[c][j]
      /\ hi[t][q] = y
  BY SMTT(60), <1>2, <1>4, TableExcept
<1>7. /\ ho \in [Block -> Seq(Edge)]
      /\ \A c \in Block : Len(ho[c]) = Len(g.out[c])
      /\ \A c \in Block : \A j \in 1..Len(g.out[c]) : <<c, j>> # <<p, r>> => ho[c][j] = g.out[c][j]
      /\ ho[p][r] = x
  BY SMTT(60), <1>1, <1>4, TableExcept
<1> HIDE DEF hi, ho
<1>8. h \in Graph
  BY <1>5, <1>6, <1>7 DEF Graph
<1>9. MirroredBut(h, {<<b, i>>}, {<<b, o>>})
  <2>1. CASE <<p, r>> = <<b, o>>
    <3>1. p = b /\ r = o /\ t = b /\ q = i
      BY <1>1, <2>1 DEF t, q
    <3>2. \A c \in Block : \A j \in 1..Len(g.in[c]) :
             h.in[c][j].point = g.in[c][j].point /\ h.in[c][j].rev = g.in[c][j].rev
      BY <1>2, <1>4, <1>5, <1>6, <3>1
    <3>3. \A c \in Block : \A j \in 1..Len(g.out[c]) :
             h.out[c][j].point = g.out[c][j].point /\ h.out[c][j].rev = g.out[c][j].rev
      BY <1>1, <1>4, <1>5, <1>7, <3>1
    <3>4. \A c \in Block : Len(h.in[c]) = Len(g.in[c]) /\ Len(h.out[c]) = Len(g.out[c])
      BY <1>5, <1>6, <1>7
    <3>5. MirroredBut(g, {<<b, i>>}, {<<b, o>>})
      BY <1>1, <3>1
    <3>6. SameSlots(g, h)
      BY <3>2, <3>3, <3>4 DEF SameSlots
    <3> QED BY <1>0, <3>5, <3>6, SameSlotsMirrored
  <2>2. CASE <<p, r>> # <<b, o>>
    <3>1. <<b, o>> \notin {<<p, r>>}
      BY <2>2
    <3>2. /\ <<t, q>> \notin {<<b, i>>}
          /\ MirroredBut(g, {<<b, i>>} \cup {<<t, q>>}, {<<p, r>>} \cup {<<b, o>>})
      <4>1. /\ <<g.out[b][o].point, g.out[b][o].rev>> \notin {<<b, i>>}
            /\ MirroredBut(g, {<<b, i>>} \cup {<<g.out[b][o].point, g.out[b][o].rev>>},
                                {<<p, r>>} \cup {<<b, o>>})
        <5> DEFINE I == {<<b, i>>}
                   O == {<<p, r>>}
        <5>1. <<b, o>> \notin O /\ MirroredBut(g, I, O)
          BY SMTT(60), <1>1, <3>1
        <5> HIDE DEF I, O
        <5>2. /\ <<g.out[b][o].point, g.out[b][o].rev>> \notin I
              /\ MirroredBut(g, I \cup {<<g.out[b][o].point, g.out[b][o].rev>>}, O \cup {<<b, o>>})
          BY <1>0, <5>1, BreakAlso
        <5> QED BY <5>2 DEF I, O
      <4> QED BY <4>1 DEF t, q
    <3>3. MirroredBut(g, {<<b, i>>} \cup {<<t, q>>}, {<<b, o>>} \cup {<<p, r>>})
      BY <3>2
    <3>4. \A c \in Block : \A j \in 1..Len(g.in[c]) : g.in[c][j].point \in Block
      BY <1>0, GraphFacts
    <3>5. \A c \in Block : \A j \in 1..Len(g.out[c]) : g.out[c][j].point \in Block
      BY <1>0, GraphFacts
    <3>6. Linked(g, h, t, q, p, r)
      <4>1. /\ \A c \in Block : \A j \in 1..Len(h.in[c]) : <<c, j>> # <<t, q>> =>
                 j \in 1..Len(g.in[c]) /\ h.in[c][j] = g.in[c][j] /\ g.in[c][j].point \in Block
            /\ \A c \in Block : \A j \in 1..Len(g.in[c]) : j \in 1..Len(h.in[c])
        BY <1>5, <1>6, <3>4
      <4>2. /\ \A c \in Block : \A j \in 1..Len(h.out[c]) : <<c, j>> # <<p, r>> =>
                 j \in 1..Len(g.out[c]) /\ h.out[c][j] = g.out[c][j] /\ g.out[c][j].point \in Block
            /\ \A c \in Block : \A j \in 1..Len(g.out[c]) : j \in 1..Len(h.out[c])
        BY <1>5, <1>7, <3>5
      <4>3. q \in 1..Len(h.in[t]) /\ r \in 1..Len(h.out[p])
        BY <1>1, <1>2, <1>5, <1>6, <1>7
      <4>4. /\ h.in[t][q].point = p /\ h.in[t][q].rev = r
            /\ h.out[p][r].point = t /\ h.out[p][r].rev = q
        BY <1>4, <1>5, <1>6, <1>7
      <4> QED BY <4>1, <4>2, <4>3, <4>4 DEF Linked
    <3> QED BY <1>1, <1>2, <3>1, <3>2, <3>3, <3>6, LinkSlots
  <2> QED BY <2>1, <2>2
<1>10. Joined(g, b, i, o, p, r, t, q, h)
  <2>1. /\ p = g.in[b][i].point /\ r = g.in[b][i].rev
        /\ t = g.out[b][o].point /\ q = g.out[b][o].rev
    BY DEF p, r, t, q
  <2>2. SlotSet(h.out, g.out, p, r, x) /\ SlotSet(h.in, g.in, t, q, y)
    BY <1>5, <1>6, <1>7 DEF SlotSet
  <2>3. /\ x = [label |-> g.out[p][r].label, point |-> t, rev |-> q]
        /\ y = [label |-> g.in[t][q].label, point |-> p, rev |-> r]
    BY DEF x, y
  <2> QED BY <1>1, <1>2, <1>3, <1>9, <2>1, <2>2, <2>3 DEF Joined
<1>11. p \in Block /\ r \in Nat /\ t \in Block /\ q \in Nat
  BY <1>1, <1>2, <1>0, GraphFacts DEF p, r, t, q
<1> QED BY <1>8, <1>10, <1>11

\* replaceEdgesThru: the outer halves of two edges of b are joined, the inner
\* ones deleted.  An edge from b to itself is both edges at once.
LEMMA ReplaceEdgesThruOK ==
    ASSUME NEW g, Sound(g), NEW b \in Block,
           NEW i \in 1..Len(g.in[b]), NEW o \in 1..Len(g.out[b])
    PROVE  LET r == ReplaceEdgesThru(g, b, i, o) IN
           /\ Sound(r) /\ KeepsBare(g, r)
           /\ Len(r.in[b]) = Len(g.in[b]) - 1
           /\ Len(r.out[b]) = Len(g.out[b]) - 1
<1>1. PICK p \in Block, r \in Nat, t \in Block, q \in Nat, h \in Graph :
         Joined(g, b, i, o, p, r, t, q, h)
  BY JoinOuter
<1>2. /\ \A c \in Block : Len(h.in[c]) = Len(g.in[c]) /\ Len(h.out[c]) = Len(g.out[c])
      /\ MirroredBut(h, {<<b, i>>}, {<<b, o>>})
  BY <1>1 DEF Joined, SlotSet
<1>3. i \in 1..Len(h.in[b]) /\ o \in 1..Len(h.out[b]) /\ KeepsBare(g, h)
  BY <1>2 DEF KeepsBare, Bare
<1> DEFINE z == HalfDeleteOut(HalfDeleteIn(h, b, i), b, o)
<1>4. /\ Sound(z) /\ KeepsBare(h, z)
      /\ Len(z.in[b]) = Len(h.in[b]) - 1 /\ Len(z.out[b]) = Len(h.out[b]) - 1
  BY <1>2, <1>3, DropBoth
<1>5. ReplaceEdgesThru(g, b, i, o) = z
  BY <1>1 DEF Joined
<1> HIDE DEF z
<1> QED BY <1>2, <1>3, <1>4, <1>5 DEF KeepsBare

\* SwapEdges: the two out-slots of b change places, and so do the slot numbers
\* their mirrors hold.
LEMMA SwapOutOK ==
    ASSUME NEW g, Sound(g), NEW b \in Block, Len(g.out[b]) = 2
    PROVE  Sound(SwapOut(g, b)) /\ KeepsBare(g, SwapOut(g, b))
<1> DEFINE e == g.out[b][1]
           f == g.out[b][2]
           r == SwapOut(g, b)
           x == [g.in[f.point][f.rev] EXCEPT !.rev = 1]
           y == [g.in[e.point][e.rev] EXCEPT !.rev = 2]
<1>0. g \in Graph /\ MirroredBut(g, {}, {})
  BY DEF Sound
<1>1. /\ g.in \in [Block -> Seq(Edge)] /\ g.out \in [Block -> Seq(Edge)]
      /\ 1 \in 1..Len(g.out[b]) /\ 2 \in 1..Len(g.out[b])
      /\ e \in Edge /\ f \in Edge /\ e.point \in Block /\ f.point \in Block
  BY <1>0, GraphFacts
<1>2. OutSlotOK(g, {}, b, 1) /\ OutSlotOK(g, {}, b, 2)
  BY SMTT(60), <1>0, <1>1 DEF MirroredBut
<1>3. /\ e.rev \in 1..Len(g.in[e.point])
      /\ g.in[e.point][e.rev].point = b /\ g.in[e.point][e.rev].rev = 1
      /\ f.rev \in 1..Len(g.in[f.point])
      /\ g.in[f.point][f.rev].point = b /\ g.in[f.point][f.rev].rev = 2
  BY <1>2 DEF OutSlotOK
<1> HIDE DEF e, f
<1>4. <<e.point, e.rev>> # <<f.point, f.rev>>
  <2> SUFFICES ASSUME e.point = f.point, e.rev = f.rev PROVE FALSE
    BY SMTT(60)
  <2> QED BY SMTT(60), <1>3
<1>5. /\ x \in Edge /\ x.point = b /\ x.rev = 1
      /\ y \in Edge /\ y.point = b /\ y.rev = 2
  <2>1. g.in[e.point][e.rev] \in Edge /\ g.in[f.point][f.rev] \in Edge
    BY SMTT(60), <1>0, <1>1, <1>3, GraphFacts
  <2> QED BY <1>3, <2>1 DEF Edge
<1> HIDE DEF x, y
<1> DEFINE o1 == [g.out EXCEPT ![b][1] = f]
           o2 == [o1 EXCEPT ![b][2] = e]
           i1 == [g.in EXCEPT ![f.point][f.rev] = x]
           i2 == [i1 EXCEPT ![e.point][e.rev] = y]
<1>6. r.out = o2
  BY DEF SwapOut, e, f
<1>7. r.in = i2 /\ r = [out |-> o2, in |-> i2]
  BY ZenonT(60), <1>1, <1>3, <1>4 DEF SwapOut, e, f, x, y
<1>8. /\ o1 \in [Block -> Seq(Edge)]
      /\ \A c \in Block : Len(o1[c]) = Len(g.out[c])
      /\ \A c \in Block : \A j \in 1..Len(g.out[c]) : <<c, j>> # <<b, 1>> => o1[c][j] = g.out[c][j]
      /\ o1[b][1] = f
  <2>1. PICK k \in 1..Len(g.out[b]) : k = 1
    BY <1>1
  <2> DEFINE t == g.out
             u == [t EXCEPT ![b][k] = f]
  <2>a. t \in [Block -> Seq(Edge)] /\ k \in 1..Len(t[b])
    BY <1>1
  <2>b. t = g.out
    OBVIOUS
  <2> HIDE DEF t
  <2>c. /\ u \in [Block -> Seq(Edge)]
        /\ \A c \in Block : Len(u[c]) = Len(t[c])
        /\ \A c \in Block : \A j \in 1..Len(t[c]) : <<c, j>> # <<b, k>> => u[c][j] = t[c][j]
        /\ u[b][k] = f
    BY <1>1, <2>a, TableExcept
  <2> HIDE DEF u
  <2>2. /\ u \in [Block -> Seq(Edge)]
        /\ \A c \in Block : Len(u[c]) = Len(g.out[c])
        /\ \A c \in Block : \A j \in 1..Len(g.out[c]) : <<c, j>> # <<b, k>> => u[c][j] = g.out[c][j]
        /\ u[b][k] = f
    BY <2>b, <2>c
  <2>3. u = o1
    BY <2>1, <2>b DEF u
  <2> HIDE DEF u, o1
  <2> QED BY <2>1, <2>2, <2>3
<1>9. /\ i1 \in [Block -> Seq(Edge)]
      /\ \A c \in Block : Len(i1[c]) = Len(g.in[c])
      /\ \A c \in Block : \A j \in 1..Len(g.in[c]) :
            <<c, j>> # <<f.point, f.rev>> => i1[c][j] = g.in[c][j]
      /\ i1[f.point][f.rev] = x
  BY SMTT(60), <1>1, <1>3, <1>5, TableExcept
<1> HIDE DEF o1, i1
<1>10. /\ o2 \in [Block -> Seq(Edge)]
       /\ \A c \in Block : Len(o2[c]) = Len(o1[c])
       /\ \A c \in Block : \A j \in 1..Len(o1[c]) : <<c, j>> # <<b, 2>> => o2[c][j] = o1[c][j]
       /\ o2[b][2] = e
  <2>1. 2 \in 1..Len(o1[b])
    BY <1>1, <1>8
  <2> QED BY <1>1, <1>8, <2>1, TableExcept
<1>11. /\ i2 \in [Block -> Seq(Edge)]
       /\ \A c \in Block : Len(i2[c]) = Len(i1[c])
       /\ \A c \in Block : \A j \in 1..Len(i1[c]) :
             <<c, j>> # <<e.point, e.rev>> => i2[c][j] = i1[c][j]
       /\ i2[e.point][e.rev] = y
  <2>1. e.rev \in 1..Len(i1[e.point])
    BY <1>1, <1>3, <1>9
  <2> QED BY <1>1, <1>5, <1>9, <2>1, TableExcept
<1> HIDE DEF o2, i2
<1>12. r \in Graph
  BY <1>7, <1>10, <1>11 DEF Graph
<1>13. \A c \in Block : Len(r.in[c]) = Len(g.in[c]) /\ Len(r.out[c]) = Len(g.out[c])
  BY <1>6, <1>7, <1>8, <1>9, <1>10, <1>11
<1>14. /\ r.out[b][1] = f /\ r.out[b][2] = e
       /\ r.in[f.point][f.rev] = x /\ r.in[e.point][e.rev] = y
  <2>1. <<b, 1>> # <<b, 2>> /\ 1 \in 1..Len(o1[b])
    BY <1>1, <1>8
  <2>2. o2[b][1] = f /\ o2[b][2] = e
    BY <1>8, <1>10, <2>1
  <2>3. f.rev \in 1..Len(i1[f.point])
    BY <1>1, <1>3, <1>9
  <2>4. i2[f.point][f.rev] = x /\ i2[e.point][e.rev] = y
    BY <1>1, <1>4, <1>9, <1>11, <2>3
  <2> QED BY <1>6, <1>7, <2>2, <2>4
<1>15. \A c \in Block : \A j \in 1..Len(g.out[c]) : c # b => r.out[c][j] = g.out[c][j]
  BY <1>6, <1>8, <1>10
<1>16. \A c \in Block : \A j \in 1..Len(g.in[c]) :
          <<c, j>> # <<f.point, f.rev>> /\ <<c, j>> # <<e.point, e.rev>> => r.in[c][j] = g.in[c][j]
  BY <1>7, <1>9, <1>11
<1> HIDE DEF r
<1>17. ASSUME NEW c \in Block, NEW j \in 1..Len(r.in[c])
       PROVE  InSlotOK(r, {}, c, j)
  <2>1. InSlotOK(g, {}, c, j) /\ g.in[c][j].point \in Block
    BY SMTT(60), <1>0, <1>13, GraphFacts DEF MirroredBut
  <2>2. CASE <<c, j>> = <<f.point, f.rev>>
    <3>1. c = f.point /\ j = f.rev /\ r.in[c][j] = x
      BY <1>14, <2>2
    <3> QED BY ZenonT(60), <1>1, <1>5, <1>13, <1>14, <3>1 DEF InSlotOK
  <2>3. CASE <<c, j>> = <<e.point, e.rev>>
    <3>1. c = e.point /\ j = e.rev /\ r.in[c][j] = y
      BY <1>14, <2>3
    <3> QED BY ZenonT(60), <1>1, <1>5, <1>13, <1>14, <3>1 DEF InSlotOK
  <2>4. CASE <<c, j>> # <<f.point, f.rev>> /\ <<c, j>> # <<e.point, e.rev>>
    <3>1. PICK s \in Block, n \in {g.in[c][j].rev} : s = g.in[c][j].point /\ n = g.in[c][j].rev
      BY <2>1
    <3>2. n \in 1..Len(g.out[s]) /\ g.out[s][n].point = c /\ g.out[s][n].rev = j
      BY <2>1, <3>1 DEF InSlotOK
    <3>3. r.in[c][j] = g.in[c][j]
      BY <1>13, <1>16, <2>4
    <3>4. s # b
      <4> SUFFICES ASSUME s = b PROVE FALSE
        OBVIOUS
      <4>1. n = 1 \/ n = 2
        BY <3>2
      <4> QED BY <2>4, <3>2, <4>1 DEF e, f
    <3> QED BY ZenonT(60), <1>13, <1>15, <3>1, <3>2, <3>3, <3>4 DEF InSlotOK
  <2> QED BY <2>2, <2>3, <2>4
<1>18. ASSUME NEW c \in Block, NEW j \in 1..Len(r.out[c])
       PROVE  OutSlotOK(r, {}, c, j)
  <2>1. OutSlotOK(g, {}, c, j) /\ g.out[c][j].point \in Block
    BY <1>0, <1>13, GraphFacts DEF MirroredBut
  <2>2. CASE c = b
    <3>0. Len(r.out[b]) = 2
      BY <1>13
    <3>1. j = 1 \/ j = 2
      BY SMTT(60), <2>2, <3>0
    <3>2. CASE j = 1
      BY ZenonT(60), <1>1, <1>3, <1>5, <1>13, <1>14, <2>2, <3>2 DEF OutSlotOK
    <3>3. CASE j = 2
      BY ZenonT(60), <1>1, <1>3, <1>5, <1>13, <1>14, <2>2, <3>3 DEF OutSlotOK
    <3> QED BY <3>1, <3>2, <3>3
  <2>3. CASE c # b
    <3>1. PICK s \in Block, n \in {g.out[c][j].rev} : s = g.out[c][j].point /\ n = g.out[c][j].rev
      BY SMTT(60), <2>1
    <3>2. n \in 1..Len(g.in[s]) /\ g.in[s][n].point = c /\ g.in[s][n].rev = j
      BY <2>1, <3>1 DEF OutSlotOK
    <3>3. r.out[c][j] = g.out[c][j] /\ r.in[s][n] = g.in[s][n]
      BY SMTT(60), <1>3, <1>13, <1>15, <1>16, <2>3, <3>2
    <3> QED BY ZenonT(60), <1>13, <3>1, <3>2, <3>3 DEF OutSlotOK
  <2> QED BY <2>2, <2>3
<1>19. MirroredBut(r, {}, {})
  BY <1>17, <1>18 DEF MirroredBut
<1>20. KeepsBare(g, r)
  BY <1>13 DEF KeepsBare, Bare
<1> QED BY <1>12, <1>19, <1>20 DEF Sound, r

\* Lists rewritten slot by slot.
LEMMA RewriteTable ==
    ASSUME NEW t \in [Block -> Seq(Edge)], NEW u,
           u = [c \in Block |-> u[c]],
           \A c \in Block : u[c] = [j \in DOMAIN t[c] |-> u[c][j]],
           \A c \in Block : \A j \in 1..Len(t[c]) : u[c][j] \in Edge
    PROVE  /\ u \in [Block -> Seq(Edge)]
           /\ \A c \in Block : Len(u[c]) = Len(t[c])
<1>1. ASSUME NEW c \in Block
      PROVE  u[c] \in Seq(Edge) /\ Len(u[c]) = Len(t[c])
  <2>1. DOMAIN t[c] = 1..Len(t[c]) /\ Len(t[c]) \in Nat
    BY LenProperties
  <2>2. u[c] \in [1..Len(t[c]) -> Edge]
    BY <2>1
  <2> QED BY <2>1, <2>2, RebuildFacts
<1> QED BY <1>1

\* SetOutEdgeFlag and ClearOutEdgeFlag move no edge.
LEMMA RelabelOK ==
    ASSUME NEW g, Sound(g), NEW drop, NEW add,
           \A p \in DOMAIN add : add[p] \in SUBSET Label
    PROVE  /\ Sound(Relabel(g, drop, add)) /\ KeepsBare(g, Relabel(g, drop, add))
           /\ SameSlots(g, Relabel(g, drop, add))
<1> DEFINE here(t, j) == {p \in (DOMAIN drop) \cup (DOMAIN add) :
                             g.out[p[1]][p[2]].point = t /\ g.out[p[1]][p[2]].rev = j}
           LO(c, k) == (g.out[c][k].label \ Labels(drop, {<<c, k>>})) \cup Labels(add, {<<c, k>>})
           LI(c, k) == (g.in[c][k].label \ Labels(drop, here(c, k))) \cup Labels(add, here(c, k))
           uo == [c \in Block |-> [j \in DOMAIN g.out[c] |-> [g.out[c][j] EXCEPT !.label = LO(c, j)]]]
           ui == [c \in Block |-> [j \in DOMAIN g.in[c] |-> [g.in[c][j] EXCEPT !.label = LI(c, j)]]]
           r == Relabel(g, drop, add)
<1>0. g \in Graph /\ g.in \in [Block -> Seq(Edge)] /\ g.out \in [Block -> Seq(Edge)]
  BY DEF Sound, Graph
<1>1. r = [out |-> uo, in |-> ui]
  BY DEF Relabel
<1>a. \A P : Labels(add, P) \in SUBSET Label
  BY DEF Labels
<1>2. \A c \in Block : \A j \in 1..Len(g.out[c]) : LO(c, j) \in SUBSET Label
  <2> SUFFICES ASSUME NEW c \in Block, NEW j \in 1..Len(g.out[c]) PROVE LO(c, j) \in SUBSET Label
    OBVIOUS
  <2>1. g.out[c][j].label \in SUBSET Label
    BY <1>0, GraphFacts DEF Edge
  <2> QED BY <1>a, <2>1
<1>3. \A c \in Block : \A j \in 1..Len(g.in[c]) : LI(c, j) \in SUBSET Label
  <2> SUFFICES ASSUME NEW c \in Block, NEW j \in 1..Len(g.in[c]) PROVE LI(c, j) \in SUBSET Label
    OBVIOUS
  <2>1. g.in[c][j].label \in SUBSET Label
    BY <1>0, GraphFacts DEF Edge
  <2> QED BY <1>a, <2>1
<1> HIDE DEF LO, LI, r
<1>4. /\ uo \in [Block -> Seq(Edge)]
      /\ \A c \in Block : Len(uo[c]) = Len(g.out[c])
      /\ \A c \in Block : \A j \in 1..Len(g.out[c]) :
            uo[c][j].point = g.out[c][j].point /\ uo[c][j].rev = g.out[c][j].rev
  <2>1. \A c \in Block : \A j \in 1..Len(g.out[c]) :
           g.out[c][j] \in Edge /\ DOMAIN g.out[c] = 1..Len(g.out[c])
    BY <1>0, LenProperties, ElementOfSeq
  <2>2. \A c \in Block : \A j \in 1..Len(g.out[c]) : uo[c][j] = [g.out[c][j] EXCEPT !.label = LO(c, j)]
    BY <2>1
  <2>3. uo = [c \in Block |-> uo[c]] /\ \A c \in Block : uo[c] = [j \in DOMAIN g.out[c] |-> uo[c][j]]
    BY Zenon
  <2> HIDE DEF uo
  <2>4. \A c \in Block : \A j \in 1..Len(g.out[c]) :
           uo[c][j] \in Edge /\ uo[c][j].point = g.out[c][j].point /\ uo[c][j].rev = g.out[c][j].rev
    <3> SUFFICES ASSUME NEW c \in Block, NEW j \in 1..Len(g.out[c])
                 PROVE  uo[c][j] \in Edge /\ uo[c][j].point = g.out[c][j].point
                        /\ uo[c][j].rev = g.out[c][j].rev
      OBVIOUS
    <3>1. g.out[c][j] \in Edge /\ LO(c, j) \in SUBSET Label /\ uo[c][j] = [g.out[c][j] EXCEPT !.label = LO(c, j)]
      BY <1>2, <2>1, <2>2
    <3> HIDE DEF LO, LI
    <3> QED BY <3>1 DEF Edge
  <2> QED BY ZenonT(60), <1>0, <2>3, <2>4, RewriteTable
<1>5. /\ ui \in [Block -> Seq(Edge)]
      /\ \A c \in Block : Len(ui[c]) = Len(g.in[c])
      /\ \A c \in Block : \A j \in 1..Len(g.in[c]) :
            ui[c][j].point = g.in[c][j].point /\ ui[c][j].rev = g.in[c][j].rev
  <2>1. \A c \in Block : \A j \in 1..Len(g.in[c]) :
           g.in[c][j] \in Edge /\ DOMAIN g.in[c] = 1..Len(g.in[c])
    BY <1>0, LenProperties, ElementOfSeq
  <2>2. \A c \in Block : \A j \in 1..Len(g.in[c]) : ui[c][j] = [g.in[c][j] EXCEPT !.label = LI(c, j)]
    BY <2>1
  <2>3. ui = [c \in Block |-> ui[c]] /\ \A c \in Block : ui[c] = [j \in DOMAIN g.in[c] |-> ui[c][j]]
    BY Zenon
  <2> HIDE DEF ui
  <2>4. \A c \in Block : \A j \in 1..Len(g.in[c]) :
           ui[c][j] \in Edge /\ ui[c][j].point = g.in[c][j].point /\ ui[c][j].rev = g.in[c][j].rev
    <3> SUFFICES ASSUME NEW c \in Block, NEW j \in 1..Len(g.in[c])
                 PROVE  ui[c][j] \in Edge /\ ui[c][j].point = g.in[c][j].point
                        /\ ui[c][j].rev = g.in[c][j].rev
      OBVIOUS
    <3>1. g.in[c][j] \in Edge /\ LI(c, j) \in SUBSET Label /\ ui[c][j] = [g.in[c][j] EXCEPT !.label = LI(c, j)]
      BY <1>3, <2>1, <2>2
    <3> HIDE DEF LO, LI
    <3> QED BY <3>1 DEF Edge
  <2> QED BY ZenonT(60), <1>0, <2>3, <2>4, RewriteTable
<1> HIDE DEF uo, ui
<1>6. r \in Graph /\ SameSlots(g, r)
  BY <1>1, <1>4, <1>5 DEF Graph, SameSlots
<1> QED BY <1>6, SameSlotsSound DEF r

-----------------------------------------------------------------------------
(***************************************************************************)
(* The inductive invariant.  Beside the three invariants it says that the   *)
(* blocks a loop is about to give edges to are still members of the graph.  *)
(***************************************************************************)
IndInv ==
    /\ TypeOK /\ Mirror /\ NoDangling
    /\ task.op = "bypassIn" => task.to \in blocks
    /\ task.op = "move" => task.bl \in blocks

LEMMA EmptyBySize ==
    ASSUME NEW es \in Seq(Edge)
    PROVE  es = <<>> <=> Len(es) = 0
  BY EmptySeq

LEMMA InvGraph ==
    ASSUME TypeOK
    PROVE  /\ Mirror <=> MirroredBut(graph, {}, {})
           /\ NoDangling <=> \A c \in Block \ blocks : Bare(graph, c)
<1>1. graph \in Graph /\ inEdges \in [Block -> Seq(Edge)] /\ outEdges \in [Block -> Seq(Edge)]
  BY DEF TypeOK, Graph, graph
<1>2. graph.in = inEdges /\ graph.out = outEdges
  BY DEF graph
<1>3. Mirror <=> MirroredBut(graph, {}, {})
  BY <1>2 DEF Mirror, MirrorIn, MirrorOut, MirroredBut, InSlotOK, OutSlotOK
<1>4. \A c \in Block : Bare(graph, c) <=> inEdges[c] = <<>> /\ outEdges[c] = <<>>
  BY <1>1, <1>2, EmptyBySize DEF Bare
<1> QED BY <1>3, <1>4 DEF NoDangling

\* What the invariant says of the graph, and what an action has to show of the
\* next one.
LEMMA GraphNow ==
    ASSUME IndInv
    PROVE  /\ Sound(graph) /\ graph.in = inEdges /\ graph.out = outEdges
           /\ \A c \in Block : Len(inEdges[c]) \in Nat /\ Len(outEdges[c]) \in Nat
           /\ \A c \in Block : DOMAIN inEdges[c] = 1..Len(inEdges[c])
           /\ \A c \in Block : DOMAIN outEdges[c] = 1..Len(outEdges[c])
           /\ \A c \in Block : inEdges[c] = <<>> <=> Len(inEdges[c]) = 0
           /\ \A c \in Block : outEdges[c] = <<>> <=> Len(outEdges[c]) = 0
           /\ \A c \in Block \ blocks : Bare(graph, c)
           /\ \A c \in Block : ~Bare(graph, c) => c \in blocks
           /\ \A c \in Block : \A k \in 1..Len(inEdges[c]) :
                 /\ inEdges[c][k].point \in Block
                 /\ inEdges[c][k].rev \in 1..Len(outEdges[inEdges[c][k].point])
           /\ \A c \in Block : \A k \in 1..Len(outEdges[c]) :
                 /\ outEdges[c][k].point \in Block
                 /\ outEdges[c][k].rev \in 1..Len(inEdges[outEdges[c][k].point])
<1>1. TypeOK /\ Mirror /\ NoDangling
  BY DEF IndInv
<1>2. graph \in Graph /\ graph.in = inEdges /\ graph.out = outEdges
  BY <1>1 DEF TypeOK, graph
<1>3. Sound(graph) /\ \A c \in Block \ blocks : Bare(graph, c)
  BY <1>1, <1>2, InvGraph DEF Sound
<1>4. ASSUME NEW c \in Block
      PROVE  /\ Len(inEdges[c]) \in Nat /\ Len(outEdges[c]) \in Nat
             /\ DOMAIN inEdges[c] = 1..Len(inEdges[c])
             /\ DOMAIN outEdges[c] = 1..Len(outEdges[c])
             /\ inEdges[c] = <<>> <=> Len(inEdges[c]) = 0
             /\ outEdges[c] = <<>> <=> Len(outEdges[c]) = 0
  <2>1. inEdges[c] \in Seq(Edge) /\ outEdges[c] \in Seq(Edge)
    BY <1>2, GraphFacts
  <2> QED BY <2>1, LenProperties, EmptyBySize
<1>5. ASSUME NEW c \in Block, NEW k \in 1..Len(inEdges[c])
      PROVE  /\ inEdges[c][k].point \in Block
             /\ inEdges[c][k].rev \in 1..Len(outEdges[inEdges[c][k].point])
  BY <1>1, <1>2, GraphFacts DEF Mirror, MirrorIn
<1>6. ASSUME NEW c \in Block, NEW k \in 1..Len(outEdges[c])
      PROVE  /\ outEdges[c][k].point \in Block
             /\ outEdges[c][k].rev \in 1..Len(inEdges[outEdges[c][k].point])
  BY <1>1, <1>2, GraphFacts DEF Mirror, MirrorOut
<1> QED BY <1>2, <1>3, <1>4, <1>5, <1>6

LEMMA GraphNext ==
    ASSUME NEW h, Sound(h), Becomes(h), \A c \in Block \ blocks' : Bare(h, c),
           blocks' \subseteq Block, flags' \in [Block -> SUBSET BlockFlag],
           task' \in {Idle} \cup Task
    PROVE  TypeOK' /\ Mirror' /\ NoDangling'
<1>1. graph' = h /\ graph' \in Graph
  BY DEF graph, Becomes, Sound, Graph
<1>2. TypeOK'
  BY <1>1 DEF TypeOK
<1>3. graph' \in Graph /\ inEdges' \in [Block -> Seq(Edge)] /\ outEdges' \in [Block -> Seq(Edge)]
  BY <1>1 DEF Graph, graph
<1>4. graph'.in = inEdges' /\ graph'.out = outEdges'
  BY DEF graph
<1>5. MirroredBut(graph', {}, {}) /\ \A c \in Block \ blocks' : Bare(graph', c)
  BY SMTT(60), <1>1 DEF Sound
<1>6. Mirror'
  BY <1>4, <1>5 DEF Mirror, MirrorIn, MirrorOut, MirroredBut, InSlotOK, OutSlotOK
<1>7. \A c \in Block : Bare(graph', c) => inEdges'[c] = <<>> /\ outEdges'[c] = <<>>
  BY <1>3, <1>4, EmptyBySize DEF Bare
<1> QED BY <1>2, <1>5, <1>6, <1>7 DEF NoDangling

LEMMA TaskNow ==
    ASSUME IndInv
    PROVE  /\ task = Idle => task.op = "idle"
           /\ task.op # "idle" => /\ task \in Task
                                  /\ task.bl \in Block /\ task.to \in Block
           /\ blocks \subseteq Block /\ flags \in [Block -> SUBSET BlockFlag]
           /\ task \in {Idle} \cup Task
  BY DEF IndInv, TypeOK, Idle, Task

LEMMA StartStep ==
    ASSUME IndInv,
           NEW by \in {"RemoveDoNothingBlock", "spliceBlockBasic", "removeFromFlowSplit", "RemoveBlock"},
           NEW op \in {"bypassOut", "move", "detach"}, NEW b \in Block, NEW to \in Block,
           Start(by, op, b, to)
    PROVE  task' \in Task /\ task'.op = op /\ task'.bl = b /\ task'.to = to
<1>1. graph \in Graph
  BY GraphNow DEF Sound
<1> QED BY <1>1 DEF Start, Task

\* An action that is one edge operation.
LEMMA EdgeOpStep ==
    ASSUME IndInv, NEW h, Sound(h), EdgeOp(h), \A c \in Block \ blocks : Bare(h, c),
           flags' \in [Block -> SUBSET BlockFlag]
    PROVE  IndInv'
<1>1. task = Idle /\ task' = task /\ blocks' = blocks /\ Becomes(h)
  BY DEF EdgeOp
<1>2. TypeOK' /\ Mirror' /\ NoDangling'
  BY <1>1, TaskNow, GraphNext
<1>3. task'.op = "idle"
  BY <1>1, TaskNow
<1> QED BY <1>2, <1>3 DEF IndInv

\* A step that leaves the edges as they are.
LEMMA SameEdgesStep ==
    ASSUME IndInv, UNCHANGED <<inEdges, outEdges>>, blocks \subseteq blocks', blocks' \subseteq Block,
           flags' \in [Block -> SUBSET BlockFlag], task' \in {Idle} \cup Task
    PROVE  TypeOK' /\ Mirror' /\ NoDangling'
<1>1. Sound(graph) /\ \A c \in Block \ blocks' : Bare(graph, c)
  BY GraphNow
<1>2. Becomes(graph)
  BY DEF Becomes, graph
<1> QED BY <1>1, <1>2, GraphNext

-----------------------------------------------------------------------------
\* One lemma per group of actions.

LEMMA NewBlockStep ==
    ASSUME IndInv, NEW b \in Block, NEW fl \in SUBSET CreateFlags, NewBlock(b, fl)
    PROVE  IndInv'
<1>1. flags' \in [Block -> SUBSET BlockFlag]
  BY TaskNow, FlowBlockAssumption DEF NewBlock, BlockFlag
<1>2. blocks \subseteq blocks' /\ blocks' \subseteq Block /\ task' = task /\ task.op = "idle"
  BY TaskNow DEF NewBlock
<1>3. TypeOK' /\ Mirror' /\ NoDangling'
  BY <1>1, <1>2, TaskNow, SameEdgesStep DEF NewBlock
<1> QED BY <1>2, <1>3 DEF IndInv

LEMMA AddEdgeStep ==
    ASSUME IndInv, NEW src \in Block, NEW b \in Block, AddEdge(src, b)
    PROVE  IndInv'
<1> DEFINE lab == {}
           h == AddInEdge(graph, b, src, lab)
<1>1. src \in blocks /\ b \in blocks /\ EdgeOp(h) /\ flags' = flags
  BY DEF AddEdge
<1>2. lab \in SUBSET Label
  OBVIOUS
<1> HIDE DEF lab
<1>3. Sound(h) /\ \A c \in Block \ {b, src} : Bare(graph, c) => Bare(h, c)
  BY <1>2, GraphNow, AddInEdgeOK
<1> HIDE DEF h
<1>4. \A c \in Block \ blocks : Bare(h, c)
  BY <1>1, <1>3, GraphNow
<1> QED BY <1>1, <1>3, <1>4, TaskNow, EdgeOpStep

\* GetInIndex finds a slot of b.
LEMMA FirstSlotIn ==
    ASSUME IndInv, NEW src \in Block, NEW b \in Block, SlotsIn(graph, b, src) # {}
    PROVE  Min(SlotsIn(graph, b, src)) \in 1..Len(graph.in[b])
<1> DEFINE S == SlotsIn(graph, b, src)
<1>1. S \in SUBSET (1..Len(graph.in[b])) /\ Len(graph.in[b]) \in Nat
  BY GraphNow DEF SlotsIn
<1>2. PICK n \in S : TRUE
  OBVIOUS
<1>3. \E m \in S : \A x \in S : m <= x
  <2>1. S \subseteq Nat /\ S # {}
    BY <1>1
  <2> HIDE DEF S
  <2> QED BY <2>1, LeastNumber
<1>4. Min(S) \in S
  <2> HIDE DEF S
  <2> QED BY <1>3 DEF Min
<1> QED BY <1>1, <1>4

LEMMA RemoveEdgeStep ==
    ASSUME IndInv, NEW src \in Block, NEW b \in Block, RemoveEdge(src, b)
    PROVE  IndInv'
<1> DEFINE S == SlotsIn(graph, b, src)
           k == Min(S)
           h == RemoveInEdge(graph, b, k)
<1>1. S # {} /\ EdgeOp(h) /\ flags' = flags
  BY DEF RemoveEdge
<1>2. k \in 1..Len(graph.in[b])
  BY <1>1, FirstSlotIn
<1> HIDE DEF k, S
<1>3. Sound(h) /\ KeepsBare(graph, h)
  BY <1>2, GraphNow, RemoveInEdgeOK
<1> HIDE DEF h
<1>4. \A c \in Block \ blocks : Bare(h, c)
  BY <1>3, GraphNow DEF KeepsBare
<1> QED BY <1>1, <1>3, <1>4, TaskNow, EdgeOpStep

LEMMA RetargetStep ==
    ASSUME IndInv, NEW b \in Block, NEW k \in DOMAIN outEdges[b], NEW new \in Block,
           MoveOutEdge(b, k, new) \/ RetargetOutEdge(b, k, new)
    PROVE  IndInv'
<1> DEFINE t == outEdges[b][k].point
           j == outEdges[b][k].rev
<1>1. k \in 1..Len(graph.out[b]) /\ t \in Block /\ j \in 1..Len(graph.in[t])
  BY GraphNow
<1>2. CASE MoveOutEdge(b, k, new)
  <2> DEFINE h == ReplaceInEdge(graph, t, j, new)
  <2>1. new \in blocks /\ EdgeOp(h) /\ flags' = flags
    BY <1>2 DEF MoveOutEdge
  <2> HIDE DEF t, j
  <2>2. Sound(h) /\ \A c \in Block \ {new} : Bare(graph, c) => Bare(h, c)
    BY <1>1, GraphNow, ReplaceInEdgeOK
  <2> HIDE DEF h
  <2>3. \A c \in Block \ blocks : Bare(h, c)
    BY <2>1, <2>2, GraphNow
  <2> QED BY <2>1, <2>2, <2>3, TaskNow, EdgeOpStep
<1>3. CASE RetargetOutEdge(b, k, new)
  <2> DEFINE h == ReplaceOutEdge(graph, b, k, new)
  <2>1. new \in blocks /\ EdgeOp(h) /\ flags' = flags
    BY <1>3 DEF RetargetOutEdge
  <2>2. Sound(h) /\ \A c \in Block \ {new} : Bare(graph, c) => Bare(h, c)
    BY <1>1, GraphNow, ReplaceOutEdgeOK
  <2> HIDE DEF h
  <2>3. \A c \in Block \ blocks : Bare(h, c)
    BY <2>1, <2>2, GraphNow
  <2> QED BY <2>1, <2>2, <2>3, TaskNow, EdgeOpStep
<1> QED BY <1>2, <1>3

LEMMA SwapEdgesStep ==
    ASSUME IndInv, NEW b \in Block, SwapEdges(b)
    PROVE  IndInv'
<1> DEFINE h == SwapOut(graph, b)
<1>1. Len(graph.out[b]) = 2 /\ EdgeOp(h)
  BY GraphNow DEF SwapEdges
<1>2. flags' \in [Block -> SUBSET BlockFlag]
  BY TaskNow DEF SwapEdges, BlockFlag
<1>3. Sound(h) /\ KeepsBare(graph, h)
  BY <1>1, GraphNow, SwapOutOK
<1> HIDE DEF h
<1>4. \A c \in Block \ blocks : Bare(h, c)
  BY <1>3, GraphNow DEF KeepsBare
<1> QED BY <1>1, <1>2, <1>3, <1>4, EdgeOpStep

LEMMA SetDefaultSwitchStep ==
    ASSUME IndInv, NEW b \in Block, NEW k \in DOMAIN outEdges[b], SetDefaultSwitch(b, k)
    PROVE  IndInv'
<1> DEFINE drop == [p \in DefaultOuts(b) |-> {DefaultSwitch}]
           add == [p \in {<<b, k>>} |-> {DefaultSwitch}]
           h == Relabel(graph, drop, add)
<1>1. EdgeOp(h) /\ flags' = flags
  BY DEF SetDefaultSwitch
<1>2. \A p \in DOMAIN add : add[p] \in SUBSET Label
  BY DEF Label
<1> HIDE DEF drop, add
<1>3. Sound(h) /\ KeepsBare(graph, h)
  BY <1>2, GraphNow, RelabelOK
<1> HIDE DEF h
<1>4. \A c \in Block \ blocks : Bare(h, c)
  BY <1>3, GraphNow DEF KeepsBare
<1> QED BY <1>1, <1>3, <1>4, TaskNow, EdgeOpStep

\* The operations that begin a loop without touching an edge.
LEMMA BeginStep ==
    ASSUME IndInv, NEW b \in Block, RemoveDoNothingBlock(b) \/ RemoveBlock(b)
    PROVE  IndInv'
<1>1. UNCHANGED <<inEdges, outEdges>> /\ blocks' = blocks /\ flags' = flags
  BY DEF RemoveDoNothingBlock, RemoveBlock
<1>2. task' \in Task /\ task'.op \in {"bypassOut", "detach"}
  <2>1. CASE RemoveBlock(b)
    BY <2>1, StartStep DEF RemoveBlock
  <2>2. CASE RemoveDoNothingBlock(b)
    <3>1. outEdges[b][1].point \in Block
      BY <2>2, GraphNow DEF RemoveDoNothingBlock
    <3> QED BY <2>2, <3>1, StartStep DEF RemoveDoNothingBlock
  <2> QED BY <2>1, <2>2
<1>3. TypeOK' /\ Mirror' /\ NoDangling'
  BY <1>1, <1>2, TaskNow, SameEdgesStep
<1> QED BY <1>2, <1>3 DEF IndInv

LEMMA BypassOutStep ==
    ASSUME IndInv, BypassOut
    PROVE  IndInv'
<1> DEFINE b == task.bl
           last == Len(outEdges[b])
<1>1. task \in Task /\ b \in Block /\ blocks' = blocks /\ flags' = flags
  BY TaskNow DEF BypassOut
<1>2. CASE last > 0
  <2> DEFINE h == RemoveOutEdge(graph, b, last)
             t == outEdges[b][last].point
  <2>1. last \in 1..Len(graph.out[b]) /\ t \in Block
        /\ outEdges[b][last].rev \in 1..Len(inEdges[t])
    <3>1. last \in 1..Len(outEdges[b])
      BY <1>1, <1>2, GraphNow
    <3> HIDE DEF last, b
    <3> QED BY <1>1, <3>1, GraphNow
  <2>2. Becomes(h) /\ task' = [task EXCEPT !.op = "bypassIn", !.to = t]
    BY <1>2 DEF BypassOut
  <2>3. t \in blocks
    <3>1. Len(inEdges[t]) \in Nat /\ Len(inEdges[t]) # 0
      BY <2>1, GraphNow
    <3>2. ~Bare(graph, t)
      BY <3>1, GraphNow DEF Bare
    <3> HIDE DEF t
    <3> QED BY <2>1, <3>2, GraphNow
  <2> HIDE DEF t
  <2>4. task' \in Task /\ task'.op = "bypassIn" /\ task'.to = t
    BY <1>1, <2>1, <2>2 DEF Task
  <2> HIDE DEF last, b
  <2>5. Sound(h) /\ KeepsBare(graph, h)
    BY <1>1, <2>1, GraphNow, RemoveOutEdgeOK
  <2> HIDE DEF h
  <2>6. \A c \in Block \ blocks' : Bare(h, c)
    BY <1>1, <2>5, GraphNow DEF KeepsBare
  <2>7. TypeOK' /\ Mirror' /\ NoDangling'
    BY <1>1, <2>2, <2>4, <2>5, <2>6, TaskNow, GraphNext
  <2> QED BY <1>1, <2>3, <2>4, <2>7 DEF IndInv
<1>3. CASE ~(last > 0)
  <2>1. UNCHANGED <<inEdges, outEdges>> /\ task' = [task EXCEPT !.op = "detach"]
    BY <1>3 DEF BypassOut, Goto
  <2>2. task' \in Task /\ task'.op = "detach"
    BY <1>1, <2>1 DEF Task
  <2>3. TypeOK' /\ Mirror' /\ NoDangling'
    BY <1>1, <2>1, <2>2, TaskNow, SameEdgesStep
  <2> QED BY <2>2, <2>3 DEF IndInv
<1> QED BY <1>2, <1>3

LEMMA BypassInStep ==
    ASSUME IndInv, BypassIn
    PROVE  IndInv'
<1> DEFINE b == task.bl
           p == inEdges[b][1].point
           r == inEdges[b][1].rev
           h == ReplaceOutEdge(graph, p, r, task.to)
<1>1. /\ task \in Task /\ b \in Block /\ blocks' = blocks /\ flags' = flags
      /\ task.op = "bypassIn" /\ task.to \in Block /\ task.to \in blocks
  BY TaskNow DEF BypassIn, IndInv
<1>2. CASE inEdges[b] # <<>>
  <2>1. p \in Block /\ r \in 1..Len(graph.out[p])
    <3>1. 1 \in 1..Len(inEdges[b])
      BY <1>1, <1>2, GraphNow
    <3> QED BY <1>1, <3>1, GraphNow
  <2>2. Becomes(h) /\ task' = task
    BY <1>2 DEF BypassIn
  <2> HIDE DEF p, r, b
  <2>3. Sound(h) /\ \A c \in Block \ {task.to} : Bare(graph, c) => Bare(h, c)
    BY <1>1, <2>1, GraphNow, ReplaceOutEdgeOK
  <2> HIDE DEF h
  <2>4. \A c \in Block \ blocks' : Bare(h, c)
    BY <1>1, <2>3, GraphNow
  <2>5. TypeOK' /\ Mirror' /\ NoDangling'
    BY <1>1, <2>2, <2>3, <2>4, TaskNow, GraphNext
  <2> QED BY <1>1, <2>2, <2>5 DEF IndInv
<1>3. CASE inEdges[b] = <<>>
  <2>1. UNCHANGED <<inEdges, outEdges>> /\ task' = [task EXCEPT !.op = "bypassOut"]
    BY <1>3 DEF BypassIn, Goto
  <2>2. task' \in Task /\ task'.op = "bypassOut"
    BY <1>1, <2>1 DEF Task
  <2>3. TypeOK' /\ Mirror' /\ NoDangling'
    BY <1>1, <2>1, <2>2, TaskNow, SameEdgesStep
  <2> QED BY <2>2, <2>3 DEF IndInv
<1> QED BY <1>2, <1>3

LEMMA SpliceBeginStep ==
    ASSUME IndInv, NEW b \in Block, SpliceBlockBasic(b)
    PROVE  IndInv'
<1> DEFINE o == outEdges[b][1].point
           h == RemoveOutEdge(graph, b, 1)
<1>1. 1 \in 1..Len(graph.out[b]) /\ o \in Block
  BY GraphNow DEF SpliceBlockBasic
<1>2. Becomes(h) /\ blocks' = blocks /\ Start("spliceBlockBasic", "move", b, o)
  BY DEF SpliceBlockBasic
<1>3. flags' \in [Block -> SUBSET BlockFlag]
  BY TaskNow DEF SpliceBlockBasic, BlockFlag
<1>4. b \in blocks
  <2>1. ~Bare(graph, b)
    BY GraphNow DEF Bare, SpliceBlockBasic
  <2> QED BY <2>1, GraphNow
<1> HIDE DEF o
<1>5. task' \in Task /\ task'.op = "move" /\ task'.bl = b
  BY <1>1, <1>2, StartStep
<1>6. Sound(h) /\ KeepsBare(graph, h)
  <2>1. PICK k \in 1..Len(graph.out[b]) : k = 1
    BY <1>1
  <2>2. Sound(RemoveOutEdge(graph, b, k)) /\ KeepsBare(graph, RemoveOutEdge(graph, b, k))
    BY GraphNow, RemoveOutEdgeOK
  <2> QED BY <2>1, <2>2
<1> HIDE DEF h
<1>7. \A c \in Block \ blocks' : Bare(h, c)
  BY <1>2, <1>6, GraphNow DEF KeepsBare
<1>8. TypeOK' /\ Mirror' /\ NoDangling'
  BY <1>2, <1>3, <1>5, <1>6, <1>7, TaskNow, GraphNext
<1> QED BY <1>2, <1>4, <1>5, <1>8 DEF IndInv

LEMMA SpliceMoveStep ==
    ASSUME IndInv, SpliceMove
    PROVE  IndInv'
<1> DEFINE o == task.to
           t == outEdges[o][1].point
           j == outEdges[o][1].rev
           h == ReplaceInEdge(graph, t, j, task.bl)
<1>1. /\ task \in Task /\ o \in Block /\ blocks' = blocks /\ flags' = flags
      /\ task.op = "move" /\ task.bl \in Block /\ task.bl \in blocks
  BY TaskNow DEF SpliceMove, IndInv
<1>2. CASE outEdges[o] # <<>> /\ o # task.bl
  <2>1. t \in Block /\ j \in 1..Len(graph.in[t])
    <3>1. 1 \in 1..Len(outEdges[o])
      BY <1>1, <1>2, GraphNow
    <3> QED BY <1>1, <3>1, GraphNow
  <2>2. Becomes(h) /\ task' = task
    BY <1>2 DEF SpliceMove
  <2> HIDE DEF t, j, o
  <2>3. Sound(h) /\ \A c \in Block \ {task.bl} : Bare(graph, c) => Bare(h, c)
    BY <1>1, <2>1, GraphNow, ReplaceInEdgeOK
  <2> HIDE DEF h
  <2>4. \A c \in Block \ blocks' : Bare(h, c)
    BY <1>1, <2>3, GraphNow
  <2>5. TypeOK' /\ Mirror' /\ NoDangling'
    BY <1>1, <2>2, <2>3, <2>4, TaskNow, GraphNext
  <2> QED BY <1>1, <2>2, <2>5 DEF IndInv
<1>3. CASE ~(outEdges[o] # <<>> /\ o # task.bl)
  <2>1. UNCHANGED <<inEdges, outEdges>>
        /\ task' = [task EXCEPT !.op = "detach", !.bl = o, !.to = task.bl]
    BY <1>3 DEF SpliceMove
  <2>2. task' \in Task /\ task'.op = "detach"
    BY <1>1, <2>1 DEF Task
  <2>3. TypeOK' /\ Mirror' /\ NoDangling'
    BY <1>1, <2>1, <2>2, TaskNow, SameEdgesStep
  <2> QED BY <2>2, <2>3 DEF IndInv
<1> QED BY <1>2, <1>3

LEMMA SplitStep ==
    ASSUME IndInv, NEW b \in Block, NEW swap \in BOOLEAN, RemoveFromFlowSplit(b, swap)
    PROVE  IndInv'
<1> DEFINE i == IF swap THEN 1 ELSE 2
           h == ReplaceEdgesThru(graph, b, i, 2)
           z == ReplaceEdgesThru(h, b, 1, 1)
<1>1. /\ Becomes(z) /\ blocks' = blocks /\ flags' = flags
      /\ Len(graph.in[b]) = 2 /\ Len(graph.out[b]) = 2
      /\ Start("removeFromFlowSplit", "detach", b, b)
  BY GraphNow DEF RemoveFromFlowSplit
<1>2. /\ Sound(h) /\ KeepsBare(graph, h)
      /\ Len(h.in[b]) = 1 /\ Len(h.out[b]) = 1
  <2>1. PICK k \in 1..Len(graph.in[b]), o \in 1..Len(graph.out[b]) : k = i /\ o = 2
    BY <1>1
  <2> DEFINE u == ReplaceEdgesThru(graph, b, k, o)
  <2>2. /\ Sound(u) /\ KeepsBare(graph, u)
        /\ Len(u.in[b]) = Len(graph.in[b]) - 1 /\ Len(u.out[b]) = Len(graph.out[b]) - 1
    BY GraphNow, ReplaceEdgesThruOK
  <2>3. u = h
    BY <2>1
  <2> HIDE DEF u, h
  <2>4. 2 - 1 = 1
    OBVIOUS
  <2> QED BY ONLY <1>1, <2>2, <2>3, <2>4
<1> HIDE DEF h
<1>3. Sound(z) /\ KeepsBare(h, z)
  <2>1. PICK k \in 1..Len(h.in[b]), o \in 1..Len(h.out[b]) : k = 1 /\ o = 1
    BY <1>2
  <2> DEFINE u == ReplaceEdgesThru(h, b, k, o)
  <2>2. Sound(u) /\ KeepsBare(h, u)
    BY <1>2, ReplaceEdgesThruOK
  <2>3. u = z
    BY <2>1
  <2> HIDE DEF u, z
  <2> QED BY <2>2, <2>3
<1> HIDE DEF z
<1>4. task' \in Task /\ task'.op = "detach"
  BY <1>1, StartStep
<1>5. \A c \in Block \ blocks' : Bare(z, c)
  BY <1>1, <1>2, <1>3, GraphNow DEF KeepsBare
<1>6. TypeOK' /\ Mirror' /\ NoDangling'
  BY <1>1, <1>3, <1>4, <1>5, TaskNow, GraphNext
<1> QED BY <1>4, <1>6 DEF IndInv

LEMMA DetachStep ==
    ASSUME IndInv, Detach
    PROVE  IndInv'
<1> DEFINE b == task.bl
<1>1. task \in Task /\ b \in Block /\ flags' = flags /\ task.op = "detach"
  BY TaskNow DEF Detach
<1>2. CASE outEdges[b] # <<>>
  <2> DEFINE n == Len(outEdges[b])
             h == RemoveOutEdge(graph, b, n)
  <2>1. Becomes(h) /\ blocks' = blocks /\ task' = task
    BY <1>2 DEF Detach
  <2>2. n \in 1..Len(graph.out[b])
    <3>1. n \in Nat /\ n # 0 /\ n = Len(graph.out[b])
      BY <1>1, <1>2, GraphNow
    <3> HIDE DEF n
    <3> QED BY <3>1
  <2> HIDE DEF n, b
  <2>3. Sound(h) /\ KeepsBare(graph, h)
    BY <1>1, <2>2, GraphNow, RemoveOutEdgeOK
  <2> HIDE DEF h
  <2>4. \A c \in Block \ blocks' : Bare(h, c)
    BY <2>1, <2>3, GraphNow DEF KeepsBare
  <2>5. TypeOK' /\ Mirror' /\ NoDangling'
    BY <1>1, <2>1, <2>3, <2>4, TaskNow, GraphNext
  <2> QED BY <1>1, <2>1, <2>5 DEF IndInv
<1>3. CASE outEdges[b] = <<>> /\ inEdges[b] # <<>>
  <2> DEFINE n == Len(inEdges[b])
             h == RemoveInEdge(graph, b, n)
  <2>1. Becomes(h) /\ blocks' = blocks /\ task' = task
    BY <1>3 DEF Detach
  <2>2. n \in 1..Len(graph.in[b])
    <3>1. n \in Nat /\ n # 0 /\ n = Len(graph.in[b])
      BY <1>1, <1>3, GraphNow
    <3> HIDE DEF n
    <3> QED BY <3>1
  <2> HIDE DEF n, b
  <2>3. Sound(h) /\ KeepsBare(graph, h)
    BY <1>1, <2>2, GraphNow, RemoveInEdgeOK
  <2> HIDE DEF h
  <2>4. \A c \in Block \ blocks' : Bare(h, c)
    BY <2>1, <2>3, GraphNow DEF KeepsBare
  <2>5. TypeOK' /\ Mirror' /\ NoDangling'
    BY <1>1, <2>1, <2>3, <2>4, TaskNow, GraphNext
  <2> QED BY <1>1, <2>1, <2>5 DEF IndInv
<1>4. CASE outEdges[b] = <<>> /\ inEdges[b] = <<>>
  <2>1. /\ UNCHANGED <<inEdges, outEdges>> /\ blocks' = blocks \ {b}
        /\ task' = [task EXCEPT !.op = "reset"]
    BY <1>4 DEF Detach, Goto
  <2>2. task' \in Task /\ task'.op = "reset"
    BY <1>1, <2>1 DEF Task
  <2>3. Sound(graph) /\ Becomes(graph)
    BY <2>1, GraphNow DEF Becomes
  <2>4. \A c \in Block \ blocks' : Bare(graph, c)
    <3>1. Bare(graph, b)
      BY <1>1, <1>4, GraphNow DEF Bare
    <3> QED BY <2>1, <3>1, GraphNow
  <2>5. blocks' \subseteq Block /\ task' \in {Idle} \cup Task /\ flags' \in [Block -> SUBSET BlockFlag]
    BY <1>1, <2>1, <2>2, TaskNow
  <2> HIDE DEF b
  <2>6. TypeOK' /\ Mirror' /\ NoDangling'
    BY <2>3, <2>4, <2>5, GraphNext
  <2> QED BY <2>2, <2>6 DEF IndInv
<1> QED BY <1>2, <1>3, <1>4

LEMMA StructureResetStep ==
    ASSUME IndInv, NEW lab \in [OutSlots -> SUBSET SpanLabel], StructureReset(lab)
    PROVE  IndInv'
<1> DEFINE drop == [p \in OutSlots |-> SpanLabel]
           h == Relabel(graph, drop, lab)
<1>1. Becomes(h) /\ task' = Idle /\ blocks' = blocks /\ flags' = flags
  BY DEF StructureReset
<1>2. \A p \in DOMAIN lab : lab[p] \in SUBSET Label
  BY DEF Label
<1> HIDE DEF drop
<1>3. Sound(h) /\ KeepsBare(graph, h)
  BY <1>2, GraphNow, RelabelOK
<1> HIDE DEF h
<1>4. \A c \in Block \ blocks' : Bare(h, c)
  BY <1>1, <1>3, GraphNow DEF KeepsBare
<1>5. TypeOK' /\ Mirror' /\ NoDangling'
  BY <1>1, <1>3, <1>4, TaskNow, GraphNext
<1>6. task'.op = "idle"
  BY <1>1 DEF Idle
<1> QED BY <1>5, <1>6 DEF IndInv

\* Every edge list is empty at first, and every step keeps the invariant.
LEMMA InitInv == Init => IndInv
<1> SUFFICES ASSUME Init PROVE IndInv
  OBVIOUS
<1>1. <<>> \in Seq(Edge) /\ Len(<<>>) = 0
  BY EmptySeq
<1>2. TypeOK
  BY <1>1 DEF Init, TypeOK, graph, Graph
<1>3. Mirror
  BY <1>1 DEF Init, Mirror, MirrorIn, MirrorOut
<1>4. NoDangling /\ task.op = "idle"
  BY DEF Init, NoDangling, Idle
<1> QED BY <1>2, <1>3, <1>4 DEF IndInv

LEMMA NextInv == IndInv /\ [Next]_vars => IndInv'
<1> SUFFICES ASSUME IndInv, [Next]_vars PROVE IndInv'
  OBVIOUS
<1>1. ASSUME NEW b \in Block, NEW fl \in SUBSET CreateFlags, NewBlock(b, fl) PROVE IndInv'
  BY <1>1, NewBlockStep
<1>2. ASSUME NEW b \in Block, SwapEdges(b) PROVE IndInv'
  BY <1>2, SwapEdgesStep
<1>3. ASSUME NEW b \in Block, RemoveDoNothingBlock(b) \/ RemoveBlock(b) PROVE IndInv'
  BY <1>3, BeginStep
<1>4. ASSUME NEW b \in Block, SpliceBlockBasic(b) PROVE IndInv'
  BY <1>4, SpliceBeginStep
<1>5. ASSUME NEW b \in Block, NEW swap \in BOOLEAN, RemoveFromFlowSplit(b, swap) PROVE IndInv'
  BY <1>5, SplitStep
<1>6. ASSUME NEW b \in Block, NEW src \in Block, RemoveEdge(src, b) PROVE IndInv'
  BY <1>6, RemoveEdgeStep
<1>7. ASSUME NEW b \in Block, NEW src \in Block, ForceFalseEdge(b, src) PROVE IndInv'
  BY <1>7, SwapEdgesStep DEF ForceFalseEdge
<1>8. ASSUME NEW b \in Block, NEW src \in Block, AddEdge(src, b) PROVE IndInv'
  BY <1>8, AddEdgeStep
<1>9. ASSUME NEW b \in Block, NEW k \in DOMAIN outEdges[b], NEW new \in Block,
             MoveOutEdge(b, k, new) \/ RetargetOutEdge(b, k, new)
      PROVE  IndInv'
  BY <1>9, RetargetStep
<1>10. ASSUME NEW b \in Block, NEW k \in DOMAIN outEdges[b], SetDefaultSwitch(b, k) PROVE IndInv'
  BY <1>10, SetDefaultSwitchStep
<1>11. ASSUME BypassOut \/ BypassIn \/ SpliceMove \/ Detach PROVE IndInv'
  BY <1>11, BypassOutStep, BypassInStep, SpliceMoveStep, DetachStep
<1>12. ASSUME NEW lab \in [OutSlots -> SUBSET SpanLabel], StructureReset(lab) PROVE IndInv'
  BY SMTT(60), <1>12, StructureResetStep
<1>13. CASE UNCHANGED vars
  <2>1. UNCHANGED blocks /\ UNCHANGED inEdges /\ UNCHANGED outEdges /\ UNCHANGED flags /\ UNCHANGED task
    BY ONLY <1>13 DEF vars
  <2>2. graph' = graph
    BY ONLY <2>1 DEF graph
  <2>5. TypeOK => TypeOK'
    BY ONLY ZenonT(60), <2>1, <2>2 DEF TypeOK
  <2>3. Mirror => Mirror'
    BY ONLY <2>1 DEF Mirror, MirrorIn, MirrorOut
  <2>4. NoDangling => NoDangling'
    BY ONLY <2>1 DEF NoDangling
  <2> QED BY ONLY IndInv, <2>1, <2>3, <2>4, <2>5 DEF IndInv
<1> QED
  BY <1>1, <1>2, <1>3, <1>4, <1>5, <1>6, <1>7, <1>8, <1>9, <1>10, <1>11, <1>12, <1>13 DEF Next

LEMMA Invariance == Spec => []IndInv
  BY InitInv, NextInv, PTL DEF Spec

\* Type correctness of the edge lists, the flags and the task: in particular no
\* ReverseIndex is ever decremented below zero (halfDeleteInEdge/OutEdge).
THEOREM TypeCorrect == Spec => []TypeOK
<1>1. IndInv => TypeOK
  BY DEF IndInv
<1> QED BY <1>1, Invariance, PTL

\* The two halves of every edge name each other, at every step of every
\* operation, for any number of blocks and edges.
THEOREM EdgesMirrored == Spec => []Mirror
<1>1. IndInv => Mirror
  BY DEF IndInv
<1> QED BY <1>1, Invariance, PTL

\* RemoveBlock leaves no half-edge of the removed block anywhere.
THEOREM RemovedIsDetached == Spec => []NoDangling
<1>1. IndInv => NoDangling
  BY DEF IndInv
<1> QED BY <1>1, Invariance, PTL

=============================================================================
