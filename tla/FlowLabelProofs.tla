--------------------------- MODULE FlowLabelProofs ---------------------------
(***************************************************************************)
(* What the edge surgery does to the labels and to the order of the slots,   *)
(* for any number of blocks and edges: the labels of the two halves of an    *)
(* edge stay together, a switch keeps one default edge, removals end, and    *)
(* rewiring moves no slot the data flow depends on.                          *)
(*                                                                         *)
(* Kept, Cut, Added and Turned relate an edge list before and after a step;   *)
(* Paired(g, I, R) says that R relates the labels of the two halves of every *)
(* edge but those whose in-slot is in I.                                     *)
(***************************************************************************)
EXTENDS FlowBlockProofs, FiniteSetTheorems

SameEdge(e, f) == e.label = f.label /\ e.point = f.point

\* u is t; t without slot k; t with an edge at the end; t with slot k led to p.
Kept(u, t) == Len(u) = Len(t) /\ \A i \in 1..Len(t) : SameEdge(u[i], t[i])
Cut(u, t, k) ==
    /\ Len(u) = Len(t) - 1
    /\ \A i \in 1..Len(u) : SameEdge(u[i], IF i < k THEN t[i] ELSE t[i + 1])
Added(u, t, l, p) ==
    /\ Len(u) = Len(t) + 1
    /\ \A i \in 1..Len(t) : SameEdge(u[i], t[i])
    /\ u[Len(u)].label = l /\ u[Len(u)].point = p
Turned(u, t, k, p) ==
    /\ Len(u) = Len(t)
    /\ \A i \in 1..Len(t) : u[i].label = t[i].label /\ u[i].point = IF i = k THEN p ELSE t[i].point

\* The whole graph but list b of one side
OthersKept(u, t, b) == \A c \in Block \ {b} : Kept(u[c], t[c])

-----------------------------------------------------------------------------

\* halfDeleteInEdge and halfDeleteOutEdge shorten one list.
LEMMA HalfDeleteInLabel ==
    ASSUME NEW g \in Graph, NEW b \in Block, NEW k \in 1..Len(g.in[b]),
           NEW s \in Block, NEW j \in 1..Len(g.out[s])
    PROVE  HalfDeleteIn(g, b, k).out[s][j].label = g.out[s][j].label
<1> DEFINE slid == \E m \in (k+1)..Len(g.in[b]) : g.in[b][m].point = s /\ g.in[b][m].rev = j
<1>1. HalfDeleteIn(g, b, k).out[s][j] =
         IF slid THEN [g.out[s][j] EXCEPT !.rev = @ - 1] ELSE g.out[s][j]
  BY DEF HalfDeleteIn
<1>2. g.out[s][j] \in Edge
  BY GraphFacts
<1> HIDE DEF slid
<1> QED BY <1>1, <1>2 DEF Edge

LEMMA HalfDeleteInKeeps ==
    ASSUME NEW g \in Graph, NEW b \in Block, NEW k \in 1..Len(g.in[b]),
           NEW h, h = HalfDeleteIn(g, b, k)
    PROVE  /\ Cut(h.in[b], g.in[b], k) /\ OthersKept(h.in, g.in, b)
           /\ \A c \in Block : Kept(h.out[c], g.out[c])
<1>1. Deleted(g, h, b, k)
  BY HalfDeleteInShape
<1>2. Cut(h.in[b], g.in[b], k)
  BY <1>1 DEF Deleted, Cut, SameEdge
<1>3. OthersKept(h.in, g.in, b)
  BY <1>1 DEF Deleted, OthersKept, Kept, SameEdge
<1>4. ASSUME NEW c \in Block PROVE Kept(h.out[c], g.out[c])
  <2>1. /\ Len(h.out[c]) = Len(g.out[c])
        /\ \A j \in 1..Len(g.out[c]) : h.out[c][j].point = g.out[c][j].point
    BY <1>1 DEF Deleted
  <2>2. \A j \in 1..Len(g.out[c]) : h.out[c][j].label = g.out[c][j].label
    BY HalfDeleteInLabel
  <2> QED BY <2>1, <2>2 DEF Kept, SameEdge
<1> QED BY <1>2, <1>3, <1>4

LEMMA HalfDeleteOutKeeps ==
    ASSUME NEW g \in Graph, NEW b \in Block, NEW k \in 1..Len(g.out[b]),
           NEW h, h = HalfDeleteOut(g, b, k)
    PROVE  /\ Cut(h.out[b], g.out[b], k) /\ OthersKept(h.out, g.out, b)
           /\ \A c \in Block : Kept(h.in[c], g.in[c])
<1>1. PICK f \in Graph : f = Flip(g)
  BY FlipFacts
<1>2. f.in = g.out /\ f.out = g.in
  BY <1>1, FlipFacts
<1>3. PICK d : d = HalfDeleteIn(f, b, k)
  OBVIOUS
<1>4. /\ Cut(d.in[b], f.in[b], k) /\ OthersKept(d.in, f.in, b)
      /\ \A c \in Block : Kept(d.out[c], f.out[c])
  BY <1>2, <1>3, HalfDeleteInKeeps
<1>5. h = Flip(d)
  BY <1>1, <1>3, HalfDeleteOutFlip
<1>6. h.in = d.out /\ h.out = d.in
  BY SMTT(30), <1>5 DEF Flip
<1> QED BY <1>2, <1>4, <1>6

\* Slot j of s is the mirror of in-slot k of b; of out-slot k of b.
InMirrorIs(g, b, k, s, j) ==
    /\ s = g.in[b][k].point /\ j = g.in[b][k].rev /\ j \in 1..Len(g.out[s])
    /\ g.out[s][j].point = b /\ g.out[s][j].rev = k
    /\ MirroredBut(g, {<<b, k>>}, {<<s, j>>})
OutMirrorIs(g, b, k, s, j) ==
    /\ s = g.out[b][k].point /\ j = g.out[b][k].rev /\ j \in 1..Len(g.in[s])
    /\ g.in[s][j].point = b /\ g.in[s][j].rev = k
    /\ MirroredBut(g, {<<s, j>>}, {<<b, k>>})

LEMMA InMirror ==
    ASSUME NEW g, Sound(g), NEW b \in Block, NEW k \in 1..Len(g.in[b])
    PROVE  \E s \in Block, j \in Nat : InMirrorIs(g, b, k, s, j)
<1>0. g \in Graph /\ MirroredBut(g, {}, {})
  BY SMTT(60) DEF Sound
<1>1. PICK s, j : s = g.in[b][k].point /\ j = g.in[b][k].rev
  OBVIOUS
<1>2. s \in Block /\ j \in Nat
  BY <1>0, <1>1, GraphFacts
<1>3. InSlotOK(g, {}, b, k)
  BY <1>0 DEF MirroredBut
<1>4. j \in 1..Len(g.out[s]) /\ g.out[s][j].point = b /\ g.out[s][j].rev = k
  BY <1>1, <1>3 DEF InSlotOK
<1>5. MirroredBut(g, {<<b, k>>}, {<<s, j>>})
  BY <1>0, <1>1, BreakEdge
<1> QED BY <1>1, <1>2, <1>4, <1>5 DEF InMirrorIs

LEMMA OutMirror ==
    ASSUME NEW g, Sound(g), NEW b \in Block, NEW k \in 1..Len(g.out[b])
    PROVE  \E s \in Block, j \in Nat : OutMirrorIs(g, b, k, s, j)
<1>0. g \in Graph /\ MirroredBut(g, {}, {})
  BY SMTT(60) DEF Sound
<1>1. PICK s, j : s = g.out[b][k].point /\ j = g.out[b][k].rev
  OBVIOUS
<1>2. s \in Block /\ j \in Nat
  BY <1>0, <1>1, GraphFacts
<1>3. OutSlotOK(g, {}, b, k)
  BY <1>0 DEF MirroredBut
<1>4. j \in 1..Len(g.in[s]) /\ g.in[s][j].point = b /\ g.in[s][j].rev = k
  BY <1>1, <1>3 DEF OutSlotOK
<1>5. MirroredBut(g, {<<s, j>>}, {<<g.in[s][j].point, g.in[s][j].rev>>})
  BY <1>0, <1>2, <1>4, BreakEdge
<1> QED BY <1>1, <1>2, <1>4, <1>5 DEF OutMirrorIs

LEMMA KeptTwice ==
    ASSUME NEW u, NEW v, NEW t, Kept(u, v), NEW k, NEW p, NEW l
    PROVE  /\ Kept(v, t) => Kept(u, t)
           /\ Len(t) \in Nat /\ Cut(v, t, k) => Cut(u, t, k)
           /\ Len(t) \in Nat /\ Added(v, t, l, p) => Added(u, t, l, p)
<1>1. Kept(v, t) => Kept(u, t)
  BY DEF Kept, SameEdge
<1>2. Len(t) \in Nat /\ Cut(v, t, k) => Cut(u, t, k)
  BY DEF Kept, Cut, SameEdge
<1>3. Len(t) \in Nat /\ Added(v, t, l, p) => Added(u, t, l, p)
  BY DEF Kept, Added, SameEdge
<1> QED BY <1>1, <1>2, <1>3

LEMMA CutKept ==
    ASSUME NEW u, NEW v, NEW t, NEW k, Cut(u, v, k), Kept(v, t), Len(t) \in Nat, k \in 1..Len(t)
    PROVE  Cut(u, t, k)
  BY DEF Kept, Cut, SameEdge

\* RemoveInEdge: a slot on each side.
LEMMA RemoveInEdgeKeeps ==
    ASSUME NEW g, Sound(g), NEW b \in Block, NEW k \in 1..Len(g.in[b]),
           NEW r, r = RemoveInEdge(g, b, k)
    PROVE  /\ Cut(r.in[b], g.in[b], k) /\ OthersKept(r.in, g.in, b)
           /\ Cut(r.out[g.in[b][k].point], g.out[g.in[b][k].point], g.in[b][k].rev)
           /\ OthersKept(r.out, g.out, g.in[b][k].point)
<1>0. g \in Graph /\ MirroredBut(g, {}, {})
  BY SMTT(60) DEF Sound
<1>1a. PICK s \in Block, j \in Nat : InMirrorIs(g, b, k, s, j)
  BY InMirror
<1>1. /\ s = g.in[b][k].point /\ j = g.in[b][k].rev /\ j \in 1..Len(g.out[s])
      /\ MirroredBut(g, {<<b, k>>}, {<<s, j>>})
  BY <1>1a DEF InMirrorIs
<1>3. PICK h \in Graph : h = HalfDeleteOut(g, s, j)
  BY <1>0, <1>1, HalfDeleteOutOK
<1>4. /\ Cut(h.out[s], g.out[s], j) /\ OthersKept(h.out, g.out, s)
      /\ \A c \in Block : Kept(h.in[c], g.in[c])
  BY <1>0, <1>1, <1>3, HalfDeleteOutKeeps
<1>5. r = HalfDeleteIn(h, b, k) /\ k \in 1..Len(h.in[b])
  BY <1>1, <1>3, <1>4 DEF RemoveInEdge, Kept
<1>6. /\ Cut(r.in[b], h.in[b], k) /\ OthersKept(r.in, h.in, b)
      /\ \A c \in Block : Kept(r.out[c], h.out[c])
  BY <1>5, HalfDeleteInKeeps
<1>7. \A c \in Block : Len(g.in[c]) \in Nat /\ Len(g.out[c]) \in Nat
  BY <1>0, GraphFacts
<1>8. Cut(r.in[b], g.in[b], k)
  BY <1>4, <1>6, <1>7, CutKept
<1>9. OthersKept(r.in, g.in, b)
  BY <1>4, <1>6, KeptTwice DEF OthersKept
<1>10. Cut(r.out[s], g.out[s], j)
  BY <1>4, <1>6, <1>7, KeptTwice
<1>11. OthersKept(r.out, g.out, s)
  BY <1>4, <1>6, KeptTwice DEF OthersKept
<1> QED BY <1>1, <1>8, <1>9, <1>10, <1>11

\* RemoveOutEdge, likewise.
LEMMA RemoveOutEdgeKeeps ==
    ASSUME NEW g, Sound(g), NEW b \in Block, NEW k \in 1..Len(g.out[b]),
           NEW r, r = RemoveOutEdge(g, b, k)
    PROVE  /\ Cut(r.out[b], g.out[b], k) /\ OthersKept(r.out, g.out, b)
           /\ Cut(r.in[g.out[b][k].point], g.in[g.out[b][k].point], g.out[b][k].rev)
           /\ OthersKept(r.in, g.in, g.out[b][k].point)
<1>0. g \in Graph /\ MirroredBut(g, {}, {})
  BY SMTT(60) DEF Sound
<1>1a. PICK s \in Block, j \in Nat : OutMirrorIs(g, b, k, s, j)
  BY SMTT(30), OutMirror
<1>1. /\ s = g.out[b][k].point /\ j = g.out[b][k].rev /\ j \in 1..Len(g.in[s])
      /\ MirroredBut(g, {<<s, j>>}, {<<b, k>>})
  BY <1>1a DEF OutMirrorIs
<1>2. PICK h \in Graph : h = HalfDeleteIn(g, s, j)
  BY <1>0, <1>1, HalfDeleteInOK
<1>4. /\ Cut(h.in[s], g.in[s], j) /\ OthersKept(h.in, g.in, s)
      /\ \A c \in Block : Kept(h.out[c], g.out[c])
  BY Zenon, <1>0, <1>1, <1>2, HalfDeleteInKeeps
<1>5. r = HalfDeleteOut(h, b, k) /\ k \in 1..Len(h.out[b])
  BY <1>1, <1>2, <1>4 DEF RemoveOutEdge, Kept
<1>6. /\ Cut(r.out[b], h.out[b], k) /\ OthersKept(r.out, h.out, b)
      /\ \A c \in Block : Kept(r.in[c], h.in[c])
  BY <1>5, HalfDeleteOutKeeps
<1>7. \A c \in Block : Len(g.in[c]) \in Nat /\ Len(g.out[c]) \in Nat
  BY <1>0, GraphFacts
<1>8. Cut(r.out[b], g.out[b], k)
  BY <1>4, <1>6, <1>7, CutKept
<1>9. OthersKept(r.out, g.out, b)
  BY <1>4, <1>6, KeptTwice DEF OthersKept
<1>10. Cut(r.in[s], g.in[s], j)
  BY <1>4, <1>6, <1>7, KeptTwice
<1>11. OthersKept(r.in, g.in, s)
  BY <1>4, <1>6, KeptTwice DEF OthersKept
<1> QED BY <1>1, <1>8, <1>9, <1>10, <1>11

-----------------------------------------------------------------------------
(***************************************************************************)
(* The two halves of an edge.                                               *)
(***************************************************************************)
Paired(g, I, R) ==
    \A c \in Block : \A i \in 1..Len(g.in[c]) : <<c, i>> \notin I =>
        <<g.in[c][i].label, g.out[g.in[c][i].point][g.in[c][i].rev].label>> \in R

LEMMA HalfDeleteInPaired ==
    ASSUME NEW g \in Graph, NEW b \in Block, NEW k \in 1..Len(g.in[b]), NEW O, NEW R,
           MirroredBut(g, {<<b, k>>}, O), Paired(g, {<<b, k>>}, R),
           NEW h, h = HalfDeleteIn(g, b, k)
    PROVE  Paired(h, {}, R)
<1>1. Deleted(g, h, b, k)
  BY HalfDeleteInShape
<1>2. ASSUME NEW c \in Block, NEW i \in 1..Len(h.in[c])
      PROVE  \E n \in 1..Len(g.in[c]) : h.in[c][i] = g.in[c][n] /\ <<c, n>> # <<b, k>>
  <2>1. CASE c # b
    <3>1. h.in[c] = g.in[c]
      BY <1>1, <2>1 DEF Deleted
    <3> QED BY <2>1, <3>1
  <2>2. CASE c = b
    <3>1. /\ Len(h.in[b]) = Len(g.in[b]) - 1
          /\ h.in[b][i] = IF i < k THEN g.in[b][i] ELSE g.in[b][i + 1]
      BY <1>1, <1>2, <2>2 DEF Deleted
    <3>2. Len(g.in[b]) \in Nat
      BY GraphFacts
    <3>3. PICK n \in 1..Len(g.in[b]) : n = (IF i < k THEN i ELSE i + 1) /\ n # k
      BY SMTT(30), <1>2, <2>2, <3>1, <3>2
    <3> QED BY <2>2, <3>1, <3>3
  <2> QED BY <2>1, <2>2
<1>3. ASSUME NEW c \in Block, NEW i \in 1..Len(h.in[c])
      PROVE  <<h.in[c][i].label, h.out[h.in[c][i].point][h.in[c][i].rev].label>> \in R
  <2>1. PICK n \in 1..Len(g.in[c]) : h.in[c][i] = g.in[c][n] /\ <<c, n>> # <<b, k>>
    BY <1>2
  <2>2. PICK p \in Block, q \in Nat : p = g.in[c][n].point /\ q = g.in[c][n].rev
    BY GraphFacts
  <2>3. InSlotOK(g, O, c, n)
    BY <2>1 DEF MirroredBut
  <2>4. q \in 1..Len(g.out[p])
    BY <2>2, <2>3 DEF InSlotOK
  <2>5. h.out[p][q].label = g.out[p][q].label
    BY SMTT(30), <2>4, HalfDeleteInLabel
  <2>6. <<g.in[c][n].label, g.out[g.in[c][n].point][g.in[c][n].rev].label>> \in R
    BY Zenon, <2>1 DEF Paired
  <2> QED BY ONLY <2>1, <2>2, <2>5, <2>6
<1> QED BY <1>3 DEF Paired

LEMMA HalfDeleteOutPaired ==
    ASSUME NEW g \in Graph, NEW b \in Block, NEW k \in 1..Len(g.out[b]), NEW I, NEW R,
           MirroredBut(g, I, {<<b, k>>}), Paired(g, I, R),
           NEW h, h = HalfDeleteOut(g, b, k)
    PROVE  Paired(h, I, R)
<1>1. Deleted(Flip(g), Flip(h), b, k)
  BY HalfDeleteOutOK
<1>2. Flip(g).in = g.out /\ Flip(g).out = g.in /\ Flip(h).in = h.out /\ Flip(h).out = h.in
  BY DEF Flip
<1>3. /\ \A c \in Block \ {b} : h.out[c] = g.out[c]
      /\ \A i \in 1..(Len(g.out[b]) - 1) :
            h.out[b][i] = IF i < k THEN g.out[b][i] ELSE g.out[b][i + 1]
      /\ \A c \in Block : /\ Len(h.in[c]) = Len(g.in[c])
                          /\ \A i \in 1..Len(g.in[c]) :
                                /\ h.in[c][i].point = g.in[c][i].point
                                /\ h.in[c][i].rev =
                                      IF \E m \in (k+1)..Len(g.out[b]) :
                                            g.out[b][m].point = c /\ g.out[b][m].rev = i
                                      THEN g.in[c][i].rev - 1 ELSE g.in[c][i].rev
  BY SMTT(30), <1>1, <1>2 DEF Deleted
<1>4. \A c \in Block : Kept(h.in[c], g.in[c])
  BY HalfDeleteOutKeeps
<1>5. ASSUME NEW c \in Block, NEW i \in 1..Len(h.in[c]), <<c, i>> \notin I
      PROVE  <<h.in[c][i].label, h.out[h.in[c][i].point][h.in[c][i].rev].label>> \in R
  <2>1. i \in 1..Len(g.in[c]) /\ h.in[c][i].label = g.in[c][i].label
    BY <1>4, <1>5 DEF Kept, SameEdge
  <2>2. PICK p \in Block, q \in Nat : p = g.in[c][i].point /\ q = g.in[c][i].rev
    BY <2>1, GraphFacts
  <2>3. InSlotOK(g, {<<b, k>>}, c, i)
    BY Zenon, <1>5, <2>1 DEF MirroredBut
  <2>4. /\ q \in 1..Len(g.out[p]) /\ <<p, q>> # <<b, k>>
        /\ g.out[p][q].point = c /\ g.out[p][q].rev = i
    BY <2>2, <2>3 DEF InSlotOK
  <2>5. <<g.in[c][i].label, g.out[p][q].label>> \in R
    BY <1>5, <2>1, <2>2 DEF Paired
  <2>6. ASSUME NEW m \in 1..Len(g.out[b]), m # k, g.out[b][m].point = c, g.out[b][m].rev = i
        PROVE  p = b /\ q = m
    <3>1. OutSlotOK(g, I, b, m)
      BY <2>6 DEF MirroredBut
    <3> QED BY <2>2, <2>6, <3>1 DEF OutSlotOK
  <2>7. Len(g.out[b]) \in Nat
    BY GraphFacts
  <2>8. /\ h.in[c][i].point = p
        /\ h.in[c][i].rev = IF \E m \in (k+1)..Len(g.out[b]) :
                                  g.out[b][m].point = c /\ g.out[b][m].rev = i
                            THEN q - 1 ELSE q
    BY SMTT(30), <1>3, <2>1, <2>2
  <2>9. CASE p # b
    <3>1. \A m \in (k+1)..Len(g.out[b]) : ~(g.out[b][m].point = c /\ g.out[b][m].rev = i)
      BY <2>6, <2>7, <2>9
    <3>2. h.in[c][i].rev = q /\ h.out[p] = g.out[p]
      BY SMTT(30), <1>3, <2>8, <2>9, <3>1
    <3> QED BY <2>1, <2>5, <2>8, <3>2
  <2>10. CASE p = b /\ q < k
    <3>1. \A m \in (k+1)..Len(g.out[b]) : ~(g.out[b][m].point = c /\ g.out[b][m].rev = i)
      BY <2>6, <2>7, <2>10
    <3>2. h.in[c][i].rev = q
      BY <2>8, <3>1
    <3>3. h.out[b][q] = g.out[b][q]
      BY SMTT(30), <1>3, <2>4, <2>7, <2>10
    <3> QED BY <2>1, <2>5, <2>8, <2>10, <3>2, <3>3
  <2>11. CASE p = b /\ q > k
    <3>1. q \in (k+1)..Len(g.out[b]) /\ g.out[b][q].point = c /\ g.out[b][q].rev = i
      BY <2>4, <2>7, <2>11
    <3>2. h.in[c][i].rev = q - 1
      BY <2>8, <3>1
    <3>3. h.out[b][q - 1] = g.out[b][q]
      <4>1. q - 1 \in 1..(Len(g.out[b]) - 1) /\ ~(q - 1 < k) /\ q - 1 + 1 = q
        BY <2>7, <2>11, <3>1
      <4> QED BY ZenonT(60), <1>3, <4>1
    <3> QED BY <2>1, <2>5, <2>8, <2>11, <3>2, <3>3
  <2>12. p # b \/ (p = b /\ q < k) \/ (p = b /\ q > k)
    BY <2>4
  <2> QED BY ONLY <2>9, <2>10, <2>11, <2>12
<1> QED BY <1>5 DEF Paired

LEMMA PairedBut ==
    ASSUME NEW g, NEW I, NEW R, Paired(g, {}, R)
    PROVE  Paired(g, I, R)
  BY DEF Paired

\* h is g without the out-half (j of s) of in-slot k of b: the first step of RemoveInEdge
\* and ReplaceInEdge.
OutHalfGone(g, b, k, R, s, j, h) ==
    /\ s = g.in[b][k].point /\ j = g.in[b][k].rev /\ h = HalfDeleteOut(g, s, j)
    /\ j \in 1..Len(g.out[s]) /\ k \in 1..Len(h.in[b])
    /\ MirroredBut(h, {<<b, k>>}, {}) /\ Paired(h, {<<b, k>>}, R)
    /\ Cut(h.out[s], g.out[s], j) /\ OthersKept(h.out, g.out, s)
    /\ \A c \in Block : Kept(h.in[c], g.in[c])

\* h is g without the in-half (j of s) of out-slot k of b: the first step of RemoveOutEdge
\* and ReplaceOutEdge.
InHalfGone(g, b, k, R, s, j, h) ==
    /\ s = g.out[b][k].point /\ j = g.out[b][k].rev /\ h = HalfDeleteIn(g, s, j)
    /\ j \in 1..Len(g.in[s]) /\ k \in 1..Len(h.out[b])
    /\ MirroredBut(h, {}, {<<b, k>>}) /\ Paired(h, {}, R)
    /\ Cut(h.in[s], g.in[s], j) /\ OthersKept(h.in, g.in, s)
    /\ \A c \in Block : Kept(h.out[c], g.out[c])

LEMMA DropOutHalf ==
    ASSUME NEW g, Sound(g), NEW b \in Block, NEW k \in 1..Len(g.in[b]), NEW R, Paired(g, {}, R)
    PROVE  \E s \in Block, j \in Nat, h \in Graph : OutHalfGone(g, b, k, R, s, j, h)
<1>0. g \in Graph
  BY DEF Sound
<1>1a. PICK s \in Block, j \in Nat : InMirrorIs(g, b, k, s, j)
  BY SMTT(30), InMirror
<1>1. /\ s = g.in[b][k].point /\ j = g.in[b][k].rev /\ j \in 1..Len(g.out[s])
      /\ MirroredBut(g, {<<b, k>>}, {<<s, j>>})
  BY <1>1a DEF InMirrorIs
<1>2. PICK h \in Graph : h = HalfDeleteOut(g, s, j) /\ MirroredBut(h, {<<b, k>>}, {})
  BY <1>0, <1>1, HalfDeleteOutOK
<1>3. Paired(h, {<<b, k>>}, R)
  BY SMTT(30), <1>0, <1>1, <1>2, PairedBut, HalfDeleteOutPaired
<1>4. /\ Cut(h.out[s], g.out[s], j) /\ OthersKept(h.out, g.out, s)
      /\ \A c \in Block : Kept(h.in[c], g.in[c])
  BY <1>0, <1>1, <1>2, HalfDeleteOutKeeps
<1>5. k \in 1..Len(h.in[b])
  BY SMTT(30), <1>4 DEF Kept
<1>6. OutHalfGone(g, b, k, R, s, j, h)
  BY <1>1, <1>2, <1>3, <1>4, <1>5 DEF OutHalfGone
<1> QED BY <1>6

LEMMA DropInHalf ==
    ASSUME NEW g, Sound(g), NEW b \in Block, NEW k \in 1..Len(g.out[b]), NEW R, Paired(g, {}, R)
    PROVE  \E s \in Block, j \in Nat, h \in Graph : InHalfGone(g, b, k, R, s, j, h)
<1>0. g \in Graph
  BY DEF Sound
<1>1a. PICK s \in Block, j \in Nat : OutMirrorIs(g, b, k, s, j)
  BY SMTT(30), OutMirror
<1>1. /\ s = g.out[b][k].point /\ j = g.out[b][k].rev /\ j \in 1..Len(g.in[s])
      /\ MirroredBut(g, {<<s, j>>}, {<<b, k>>})
  BY <1>1a DEF OutMirrorIs
<1>2. PICK h \in Graph : h = HalfDeleteIn(g, s, j) /\ MirroredBut(h, {}, {<<b, k>>})
  BY <1>0, <1>1, HalfDeleteInOK
<1>3. Paired(h, {}, R)
  BY <1>0, <1>1, <1>2, PairedBut, HalfDeleteInPaired
<1>4. /\ Cut(h.in[s], g.in[s], j) /\ OthersKept(h.in, g.in, s)
      /\ \A c \in Block : Kept(h.out[c], g.out[c])
  BY <1>0, <1>1, <1>2, HalfDeleteInKeeps
<1>5. k \in 1..Len(h.out[b])
  BY SMTT(30), <1>4 DEF Kept
<1>6. InHalfGone(g, b, k, R, s, j, h)
  BY Zenon, <1>1, <1>2, <1>3, <1>4, <1>5 DEF InHalfGone
<1> QED BY <1>6

LEMMA RemoveInEdgePaired ==
    ASSUME NEW g, Sound(g), NEW b \in Block, NEW k \in 1..Len(g.in[b]), NEW R, Paired(g, {}, R)
    PROVE  Paired(RemoveInEdge(g, b, k), {}, R)
<1>1. PICK s \in Block, j \in Nat, h \in Graph : OutHalfGone(g, b, k, R, s, j, h)
  BY SMTT(30), DropOutHalf
<1>2. RemoveInEdge(g, b, k) = HalfDeleteIn(h, b, k)
  BY Zenon, <1>1 DEF RemoveInEdge, OutHalfGone
<1> QED BY <1>1, <1>2, HalfDeleteInPaired DEF OutHalfGone

LEMMA RemoveOutEdgePaired ==
    ASSUME NEW g, Sound(g), NEW b \in Block, NEW k \in 1..Len(g.out[b]), NEW R, Paired(g, {}, R)
    PROVE  Paired(RemoveOutEdge(g, b, k), {}, R)
<1>1. PICK s \in Block, j \in Nat, h \in Graph : InHalfGone(g, b, k, R, s, j, h)
  BY DropInHalf
<1>2. RemoveOutEdge(g, b, k) = HalfDeleteOut(h, b, k)
  BY <1>1 DEF RemoveOutEdge, InHalfGone
<1> QED BY Zenon, <1>1, <1>2, HalfDeleteOutPaired DEF InHalfGone

\* A new edge at the end of both lists, with one label for both halves.
LEMMA AddInEdgeKeeps ==
    ASSUME NEW g, Sound(g), NEW b \in Block, NEW src \in Block, NEW lab \in SUBSET Label,
           NEW R, \A l \in SUBSET Label : <<l, l>> \in R, Paired(g, {}, R),
           NEW r, r = AddInEdge(g, b, src, lab)
    PROVE  /\ Added(r.out[src], g.out[src], lab, b) /\ OthersKept(r.out, g.out, src)
           /\ Paired(r, {}, R)
<1> DEFINE k == Len(g.in[b]) + 1
           n == Len(g.out[src]) + 1
           x == [label |-> lab, point |-> src, rev |-> n]
           y == [label |-> lab, point |-> b, rev |-> k]
<1>0. g \in Graph /\ MirroredBut(g, {}, {})
  BY DEF Sound
<1>1. /\ g.in \in [Block -> Seq(Edge)] /\ g.out \in [Block -> Seq(Edge)]
      /\ k \in Nat /\ n \in Nat
      /\ \A c \in Block : Len(g.in[c]) \in Nat /\ Len(g.out[c]) \in Nat
  BY <1>0, GraphFacts
<1>2. x \in Edge /\ y \in Edge
  <2> HIDE DEF k, n
  <2> QED BY <1>1 DEF Edge
<1>3. r = [in |-> [g.in EXCEPT ![b] = Append(@, x)],
           out |-> [g.out EXCEPT ![src] = Append(@, y)]]
  BY DEF AddInEdge
<1>4. x.point = src /\ x.rev = n /\ x.label = lab /\ y.point = b /\ y.label = lab
  OBVIOUS
<1> HIDE DEF x, y
<1>5. /\ \A c \in Block : Len(r.in[c]) = IF c = b THEN Len(g.in[b]) + 1 ELSE Len(g.in[c])
      /\ \A c \in Block : \A i \in 1..Len(g.in[c]) : r.in[c][i] = g.in[c][i]
      /\ r.in[b][k] = x
  BY SMTT(60), <1>1, <1>2, <1>3, TableAppend
<1>6. /\ \A c \in Block : Len(r.out[c]) = IF c = src THEN Len(g.out[src]) + 1 ELSE Len(g.out[c])
      /\ \A c \in Block : \A i \in 1..Len(g.out[c]) : r.out[c][i] = g.out[c][i]
      /\ r.out[src][n] = y
  BY SMTT(60), <1>1, <1>2, <1>3, TableAppend
<1>7. Added(r.out[src], g.out[src], lab, b) /\ OthersKept(r.out, g.out, src)
  BY Zenon, <1>4, <1>6 DEF Added, OthersKept, Kept, SameEdge
<1>8. ASSUME NEW c \in Block, NEW i \in 1..Len(r.in[c])
      PROVE  <<r.in[c][i].label, r.out[r.in[c][i].point][r.in[c][i].rev].label>> \in R
  <2>1. CASE c = b /\ i = k
    <3>1. r.in[c][i] = x
      BY <1>5, <2>1
    <3>2. <<r.in[c][i].label, r.out[r.in[c][i].point][r.in[c][i].rev].label>> = <<lab, lab>>
      BY ONLY SMTT(30), <1>4, <1>6, <3>1
    <3> QED BY <3>2
  <2>2. CASE ~(c = b /\ i = k)
    <3>1. i \in 1..Len(g.in[c])
      BY <1>1, <1>5, <1>8, <2>2
    <3>2. r.in[c][i] = g.in[c][i]
      BY <1>5, <3>1
    <3>3. PICK p \in Block, q \in Nat : p = g.in[c][i].point /\ q = g.in[c][i].rev
      BY <1>0, <3>1, GraphFacts
    <3>4. InSlotOK(g, {}, c, i)
      BY <1>0, <3>1 DEF MirroredBut
    <3>5. q \in 1..Len(g.out[p])
      BY <3>3, <3>4 DEF InSlotOK
    <3>6. r.out[p][q] = g.out[p][q]
      BY SMTT(30), <1>6, <3>5
    <3>7. <<g.in[c][i].label, g.out[p][q].label>> \in R
      BY Zenon, <3>1, <3>3 DEF Paired
    <3> QED BY <3>2, <3>3, <3>6, <3>7
  <2> QED BY <2>1, <2>2
<1>9. Paired(r, {}, R)
  BY Zenon, <1>8 DEF Paired
<1> QED BY <1>7, <1>9

\* ReplaceInEdge: in-slot k of b keeps its place and label; its out-half leaves the old
\* source's list and joins the end of src's.
LEMMA ReplaceInEdgeKeeps ==
    ASSUME NEW g, Sound(g), NEW b \in Block, NEW k \in 1..Len(g.in[b]), NEW src \in Block,
           NEW R, \A l \in SUBSET Label : <<l, l>> \in R, Paired(g, {}, R),
           NEW r, r = ReplaceInEdge(g, b, k, src)
    PROVE  /\ Turned(r.in[b], g.in[b], k, src) /\ OthersKept(r.in, g.in, b)
           /\ \E h \in Graph : LET s == g.in[b][k].point IN
                 /\ Cut(h.out[s], g.out[s], g.in[b][k].rev) /\ OthersKept(h.out, g.out, s)
                 /\ Added(r.out[src], h.out[src], g.in[b][k].label, b) /\ OthersKept(r.out, h.out, src)
           /\ Paired(r, {}, R)
<1>0. g \in Graph
  BY DEF Sound
<1>1. PICK s \in Block, j \in Nat, h \in Graph : OutHalfGone(g, b, k, R, s, j, h)
  BY SMTT(30), DropOutHalf
<1>2. /\ s = g.in[b][k].point /\ j = g.in[b][k].rev /\ h = HalfDeleteOut(g, s, j)
      /\ k \in 1..Len(h.in[b])
      /\ Cut(h.out[s], g.out[s], j) /\ OthersKept(h.out, g.out, s)
      /\ \A c \in Block : Kept(h.in[c], g.in[c])
  BY Zenon, <1>1 DEF OutHalfGone
<1>3. MirroredBut(h, {<<b, k>>}, {}) /\ Paired(h, {<<b, k>>}, R)
  BY <1>1 DEF OutHalfGone
<1>5. PICK l \in SUBSET Label : l = g.in[b][k].label
  BY SMTT(30), <1>0, GraphFacts DEF Edge
<1>6. /\ h.in \in [Block -> Seq(Edge)] /\ h.out \in [Block -> Seq(Edge)]
      /\ \A c \in Block : Len(h.in[c]) \in Nat /\ Len(h.out[c]) \in Nat
      /\ Len(g.in[b]) \in Nat
  BY <1>0, <1>2, GraphFacts
<1>7. PICK n \in Nat : n = Len(h.out[src]) + 1
  BY <1>6
<1>8. PICK x, y : x = [label |-> l, point |-> src, rev |-> n] /\ y = [label |-> l, point |-> b, rev |-> k]
  OBVIOUS
<1>9. x \in Edge /\ y \in Edge /\ x.point = src /\ x.rev = n /\ x.label = l /\ y.point = b /\ y.label = l
  BY <1>6, <1>8 DEF Edge
<1>10. r = [in |-> [h.in EXCEPT ![b][k] = x], out |-> [h.out EXCEPT ![src] = Append(@, y)]]
  BY Zenon, <1>2, <1>5, <1>7, <1>8 DEF ReplaceInEdge
<1>11. k \in 1..Len(h.in[b])
  BY <1>2
<1>12. /\ \A c \in Block : Len(r.in[c]) = Len(h.in[c])
       /\ \A c \in Block : \A i \in 1..Len(h.in[c]) : <<c, i>> # <<b, k>> => r.in[c][i] = h.in[c][i]
       /\ r.in[b][k] = x
  BY SMTT(60), <1>6, <1>9, <1>10, <1>11, TableExcept
<1>13. /\ \A c \in Block : Len(r.out[c]) = IF c = src THEN Len(h.out[src]) + 1 ELSE Len(h.out[c])
       /\ \A c \in Block : \A i \in 1..Len(h.out[c]) : r.out[c][i] = h.out[c][i]
       /\ r.out[src][n] = y
  BY SMTT(60), <1>6, <1>7, <1>9, <1>10, TableAppend
<1>14. Added(r.out[src], h.out[src], l, b) /\ OthersKept(r.out, h.out, src)
  <2>1. Len(r.out[src]) = n /\ Len(r.out[src]) = Len(h.out[src]) + 1
    BY <1>7, <1>13
  <2>2. r.out[src][n].label = l /\ r.out[src][n].point = b
    BY <1>9, <1>13
  <2>3. \A i \in 1..Len(h.out[src]) : r.out[src][i] = h.out[src][i]
    BY <1>13
  <2>4. Added(r.out[src], h.out[src], l, b)
    BY ONLY <2>1, <2>2, <2>3 DEF Added, SameEdge
  <2>5. \A c \in Block \ {src} : Len(r.out[c]) = Len(h.out[c])
    BY <1>13
  <2>6. OthersKept(r.out, h.out, src)
    BY ONLY <1>13, <2>5 DEF OthersKept, Kept, SameEdge
  <2> QED BY <2>4, <2>6
<1>15. Turned(r.in[b], g.in[b], k, src)
  <2>1. Len(r.in[b]) = Len(g.in[b])
    BY Zenon, <1>2, <1>12 DEF Kept
  <2>2. ASSUME NEW i \in 1..Len(g.in[b])
        PROVE  /\ r.in[b][i].label = g.in[b][i].label
               /\ r.in[b][i].point = IF i = k THEN src ELSE g.in[b][i].point
    <3>1. CASE i = k
      BY <1>5, <1>9, <1>12, <3>1
    <3>2. CASE i # k
      <4>1. i \in 1..Len(h.in[b]) /\ SameEdge(h.in[b][i], g.in[b][i])
        BY <1>2 DEF Kept
      <4>2. r.in[b][i] = h.in[b][i]
        BY SMTT(30), <1>12, <3>2, <4>1
      <4> QED BY SMTT(30), <3>2, <4>1, <4>2 DEF SameEdge
    <3> QED BY <3>1, <3>2
  <2> QED BY <2>1, <2>2 DEF Turned
<1>16. OthersKept(r.in, g.in, b)
  <2>1. ASSUME NEW c \in Block \ {b} PROVE Kept(r.in[c], h.in[c])
    BY SMTT(30), <1>12, <2>1 DEF Kept, SameEdge
  <2> QED BY <1>2, <2>1, KeptTwice DEF OthersKept
<1>17. ASSUME NEW c \in Block, NEW i \in 1..Len(r.in[c])
       PROVE  <<r.in[c][i].label, r.out[r.in[c][i].point][r.in[c][i].rev].label>> \in R
  <2>1. CASE c = b /\ i = k
    <3>1. r.in[c][i].label = l /\ r.out[r.in[c][i].point][r.in[c][i].rev].label = l
      BY SMTT(30), <1>9, <1>12, <1>13, <2>1
    <3> QED BY SMTT(30), <3>1
  <2>2. CASE ~(c = b /\ i = k)
    <3>1. i \in 1..Len(h.in[c]) /\ <<c, i>> # <<b, k>>
      BY <1>12, <1>17, <2>2
    <3>2. r.in[c][i] = h.in[c][i]
      BY SMTT(30), <1>12, <3>1
    <3>3. PICK p \in Block, q \in Nat : p = h.in[c][i].point /\ q = h.in[c][i].rev
      BY Zenon, <1>2, <3>1, GraphFacts
    <3>4. InSlotOK(h, {}, c, i)
      BY <1>3, <3>1 DEF MirroredBut
    <3>5. q \in 1..Len(h.out[p])
      BY <3>3, <3>4 DEF InSlotOK
    <3>6. r.out[p][q] = h.out[p][q]
      BY SMTT(30), <1>13, <3>5
    <3>7. <<h.in[c][i].label, h.out[p][q].label>> \in R
      BY Zenon, <1>3, <3>1, <3>3 DEF Paired
    <3> QED BY <3>2, <3>3, <3>6, <3>7
  <2> QED BY Zenon, <2>1, <2>2
<1>18. Paired(r, {}, R)
  BY Zenon, <1>17 DEF Paired
<1> QED BY <1>2, <1>5, <1>14, <1>15, <1>16, <1>18

\* ReplaceOutEdge: out-slot k of b keeps its place and label; its in-half leaves the old
\* target's list and joins the end of tgt's.
LEMMA ReplaceOutEdgeKeeps ==
    ASSUME NEW g, Sound(g), NEW b \in Block, NEW k \in 1..Len(g.out[b]), NEW tgt \in Block,
           NEW R, \A l \in SUBSET Label : <<l, l>> \in R, Paired(g, {}, R),
           NEW r, r = ReplaceOutEdge(g, b, k, tgt)
    PROVE  /\ Turned(r.out[b], g.out[b], k, tgt) /\ OthersKept(r.out, g.out, b)
           /\ \E h \in Graph : LET s == g.out[b][k].point IN
                 /\ Cut(h.in[s], g.in[s], g.out[b][k].rev) /\ OthersKept(h.in, g.in, s)
                 /\ Added(r.in[tgt], h.in[tgt], g.out[b][k].label, b) /\ OthersKept(r.in, h.in, tgt)
           /\ Paired(r, {}, R)
<1>0. g \in Graph
  BY DEF Sound
<1>1. PICK s \in Block, j \in Nat, h \in Graph : InHalfGone(g, b, k, R, s, j, h)
  BY SMTT(30), DropInHalf
<1>2. /\ s = g.out[b][k].point /\ j = g.out[b][k].rev /\ h = HalfDeleteIn(g, s, j)
      /\ k \in 1..Len(h.out[b])
      /\ Cut(h.in[s], g.in[s], j) /\ OthersKept(h.in, g.in, s)
      /\ \A c \in Block : Kept(h.out[c], g.out[c])
  BY Zenon, <1>1 DEF InHalfGone
<1>3. MirroredBut(h, {}, {<<b, k>>}) /\ Paired(h, {}, R)
  BY <1>1 DEF InHalfGone
<1>5. PICK l \in SUBSET Label : l = g.out[b][k].label
  BY <1>0, GraphFacts DEF Edge
<1>6. /\ h.in \in [Block -> Seq(Edge)] /\ h.out \in [Block -> Seq(Edge)]
      /\ \A c \in Block : Len(h.in[c]) \in Nat /\ Len(h.out[c]) \in Nat
      /\ Len(g.out[b]) \in Nat
  BY <1>0, GraphFacts
<1>7. PICK n \in Nat : n = Len(h.in[tgt]) + 1
  BY <1>6
<1>8. PICK x, y : x = [label |-> l, point |-> tgt, rev |-> n] /\ y = [label |-> l, point |-> b, rev |-> k]
  OBVIOUS
<1>9. x \in Edge /\ y \in Edge /\ x.point = tgt /\ x.rev = n /\ x.label = l
      /\ y.point = b /\ y.rev = k /\ y.label = l
  BY SMTT(30), <1>6, <1>8 DEF Edge
<1>10. r = [out |-> [h.out EXCEPT ![b][k] = x], in |-> [h.in EXCEPT ![tgt] = Append(@, y)]]
  BY Zenon, <1>2, <1>5, <1>7, <1>8 DEF ReplaceOutEdge
<1>11. k \in 1..Len(h.out[b])
  BY <1>2
<1>12. /\ \A c \in Block : Len(r.out[c]) = Len(h.out[c])
       /\ \A c \in Block : \A i \in 1..Len(h.out[c]) : <<c, i>> # <<b, k>> => r.out[c][i] = h.out[c][i]
       /\ r.out[b][k] = x
  BY SMTT(60), <1>6, <1>9, <1>10, <1>11, TableExcept
<1>13. /\ \A c \in Block : Len(r.in[c]) = IF c = tgt THEN Len(h.in[tgt]) + 1 ELSE Len(h.in[c])
       /\ \A c \in Block : \A i \in 1..Len(h.in[c]) : r.in[c][i] = h.in[c][i]
       /\ r.in[tgt][n] = y
  BY SMTT(60), <1>6, <1>7, <1>9, <1>10, TableAppend
<1>14. Added(r.in[tgt], h.in[tgt], l, b) /\ OthersKept(r.in, h.in, tgt)
  <2>1. Added(r.in[tgt], h.in[tgt], l, b)
    <3>1. Len(r.in[tgt]) = n /\ n = Len(h.in[tgt]) + 1
      BY <1>7, <1>13
    <3>2. \A i \in 1..Len(h.in[tgt]) : SameEdge(r.in[tgt][i], h.in[tgt][i])
      BY <1>13 DEF SameEdge
    <3>3. r.in[tgt][n].label = l /\ r.in[tgt][n].point = b
      BY <1>9, <1>13
    <3> QED BY ONLY <3>1, <3>2, <3>3 DEF Added
  <2>2. OthersKept(r.in, h.in, tgt)
    BY <1>13 DEF OthersKept, Kept, SameEdge
  <2> QED BY <2>1, <2>2
<1>15. Turned(r.out[b], g.out[b], k, tgt)
  <2>1. Len(r.out[b]) = Len(g.out[b])
    BY Zenon, <1>2, <1>12 DEF Kept
  <2>2. ASSUME NEW i \in 1..Len(g.out[b])
        PROVE  /\ r.out[b][i].label = g.out[b][i].label
               /\ r.out[b][i].point = IF i = k THEN tgt ELSE g.out[b][i].point
    <3>1. CASE i = k
      BY <1>5, <1>9, <1>12, <3>1
    <3>2. CASE i # k
      <4>1. i \in 1..Len(h.out[b]) /\ SameEdge(h.out[b][i], g.out[b][i])
        BY <1>2 DEF Kept
      <4>2. r.out[b][i] = h.out[b][i]
        BY SMTT(30), <1>12, <3>2, <4>1
      <4> QED BY <3>2, <4>1, <4>2 DEF SameEdge
    <3> QED BY <3>1, <3>2
  <2> QED BY <2>1, <2>2 DEF Turned
<1>16. OthersKept(r.out, g.out, b)
  <2>1. ASSUME NEW c \in Block \ {b} PROVE Kept(r.out[c], h.out[c])
    BY SMTT(30), <1>12, <2>1 DEF Kept, SameEdge
  <2> QED BY <1>2, <2>1, KeptTwice DEF OthersKept
<1>17. ASSUME NEW c \in Block, NEW i \in 1..Len(r.in[c])
       PROVE  <<r.in[c][i].label, r.out[r.in[c][i].point][r.in[c][i].rev].label>> \in R
  <2>1. CASE c = tgt /\ i = n
    <3>1. r.in[c][i] = y
      BY <1>13, <2>1
    <3>2. <<r.in[c][i].label, r.out[r.in[c][i].point][r.in[c][i].rev].label>> = <<l, l>>
      BY ONLY SMTT(30), <1>9, <1>12, <3>1
    <3> QED BY <3>2
  <2>2. CASE ~(c = tgt /\ i = n)
    <3>1. i \in 1..Len(h.in[c])
      BY SMTT(30), <1>6, <1>7, <1>13, <1>17, <2>2
    <3>2. r.in[c][i] = h.in[c][i]
      BY <1>13, <3>1
    <3>3. PICK p \in Block, q \in Nat : p = h.in[c][i].point /\ q = h.in[c][i].rev
      BY <3>1, GraphFacts
    <3>4. InSlotOK(h, {<<b, k>>}, c, i)
      BY <1>3, <3>1 DEF MirroredBut
    <3>5. q \in 1..Len(h.out[p]) /\ <<p, q>> # <<b, k>>
      BY <3>3, <3>4 DEF InSlotOK
    <3>6. r.out[p][q] = h.out[p][q]
      BY SMTT(30), <1>12, <3>5
    <3>7. <<h.in[c][i].label, h.out[p][q].label>> \in R
      BY Zenon, <1>3, <3>1, <3>3 DEF Paired
    <3> QED BY <3>2, <3>3, <3>6, <3>7
  <2> QED BY Zenon, <2>1, <2>2
<1>18. Paired(r, {}, R)
  BY <1>17 DEF Paired
<1> QED BY <1>2, <1>5, <1>14, <1>15, <1>16, <1>18

\* u is t with slot k of list b rewritten to x and slot m of list c to y.
SlotsSet(u, t, b, k, x, c, m, y) ==
    /\ \A d \in Block : Len(u[d]) = Len(t[d])
    /\ \A d \in Block : \A i \in 1..Len(t[d]) :
          <<d, i>> # <<b, k>> /\ <<d, i>> # <<c, m>> => u[d][i] = t[d][i]
    /\ u[b][k] = x /\ u[c][m] = y

LEMMA SetSlots ==
    ASSUME NEW t \in [Block -> Seq(Edge)],
           NEW b \in Block, NEW k \in 1..Len(t[b]), NEW x \in Edge,
           NEW c \in Block, NEW m \in 1..Len(t[c]), NEW y \in Edge, <<b, k>> # <<c, m>>
    PROVE  SlotsSet([t EXCEPT ![b][k] = x, ![c][m] = y], t, b, k, x, c, m, y)
<1>1. PICK v : v = [t EXCEPT ![b][k] = x]
  OBVIOUS
<1>2. SlotSet(v, t, b, k, x)
  BY <1>1, SetSlot
<1>3. v \in [Block -> Seq(Edge)] /\ m \in 1..Len(v[c]) /\ k \in 1..Len(v[b])
  BY <1>2 DEF SlotSet
<1>4. PICK u : u = [v EXCEPT ![c][m] = y]
  OBVIOUS
<1>5. SlotSet(u, v, c, m, y)
  BY <1>3, <1>4, SetSlot
<1>6. SlotsSet(u, t, b, k, x, c, m, y)
  <2>1. \A d \in Block : Len(u[d]) = Len(t[d])
    BY <1>2, <1>5 DEF SlotSet
  <2>2. ASSUME NEW d \in Block, NEW i \in 1..Len(t[d]), <<d, i>> # <<b, k>>, <<d, i>> # <<c, m>>
        PROVE  u[d][i] = t[d][i]
    <3>1. i \in 1..Len(v[d]) /\ v[d][i] = t[d][i]
      BY <1>2, <2>2 DEF SlotSet
    <3> QED BY <1>5, <2>2, <3>1 DEF SlotSet
  <2>3. u[b][k] = x /\ u[c][m] = y
    BY <1>2, <1>3, <1>5 DEF SlotSet
  <2> QED BY <2>1, <2>2, <2>3 DEF SlotsSet
<1>7. u = [t EXCEPT ![b][k] = x, ![c][m] = y]
  BY <1>1, <1>4
<1> QED BY <1>6, <1>7

\* SwapEdges: the two out-slots of b change places, their halves stay where they are.
LEMMA SwapOutKeeps ==
    ASSUME NEW g, Sound(g), NEW b \in Block, Len(g.out[b]) = 2, NEW R, Paired(g, {}, R),
           NEW r, r = SwapOut(g, b)
    PROVE  /\ Len(r.out[b]) = 2 /\ SameEdge(r.out[b][1], g.out[b][2]) /\ SameEdge(r.out[b][2], g.out[b][1])
           /\ OthersKept(r.out, g.out, b) /\ \A c \in Block : Kept(r.in[c], g.in[c])
           /\ Paired(r, {}, R)
<1>0. g \in Graph /\ MirroredBut(g, {}, {})
  BY DEF Sound
<1>1. PICK e \in Edge, f \in Edge : e = g.out[b][1] /\ f = g.out[b][2]
  <2>1. 1 \in 1..Len(g.out[b]) /\ 2 \in 1..Len(g.out[b])
    OBVIOUS
  <2> QED BY <1>0, <2>1, GraphFacts
<1>2. PICK p \in Block, q \in Nat, s \in Block, j \in Nat :
         p = e.point /\ q = e.rev /\ s = f.point /\ j = f.rev
  BY <1>1 DEF Edge
<1>3. OutSlotOK(g, {}, b, 1) /\ OutSlotOK(g, {}, b, 2)
  <2>1. 1 \in 1..Len(g.out[b]) /\ 2 \in 1..Len(g.out[b])
    OBVIOUS
  <2>2. \A k \in 1..Len(g.out[b]) : OutSlotOK(g, {}, b, k)
    BY <1>0 DEF MirroredBut
  <2> QED BY ONLY <2>1, <2>2
<1>4. /\ q \in 1..Len(g.in[p]) /\ g.in[p][q].point = b /\ g.in[p][q].rev = 1
      /\ j \in 1..Len(g.in[s]) /\ g.in[s][j].point = b /\ g.in[s][j].rev = 2
  BY ONLY <1>1, <1>2, <1>3 DEF OutSlotOK
<1>5. <<p, q>> # <<s, j>>
  BY <1>4
<1>6. PICK x, y : x = [g.in[s][j] EXCEPT !.rev = 1] /\ y = [g.in[p][q] EXCEPT !.rev = 2]
  OBVIOUS
<1>7. /\ x \in Edge /\ x.point = b /\ x.rev = 1 /\ x.label = g.in[s][j].label
      /\ y \in Edge /\ y.point = b /\ y.rev = 2 /\ y.label = g.in[p][q].label
  <2>1. g.in[s][j] \in Edge /\ g.in[p][q] \in Edge
    BY <1>0, <1>4, GraphFacts
  <2> QED BY <1>4, <1>6, <2>1 DEF Edge
<1>8. r.out = [g.out EXCEPT ![b][1] = f, ![b][2] = e]
  BY <1>1 DEF SwapOut
<1>9. r.in = [g.in EXCEPT ![s][j] = x, ![p][q] = y]
  BY ZenonT(60), <1>0, <1>1, <1>2, <1>4, <1>5, <1>6 DEF SwapOut, Graph
<1>10. /\ \A c \in Block : Len(r.out[c]) = Len(g.out[c])
       /\ \A c \in Block : \A i \in 1..Len(g.out[c]) :
             <<c, i>> # <<b, 1>> /\ <<c, i>> # <<b, 2>> => r.out[c][i] = g.out[c][i]
       /\ r.out[b][1] = f /\ r.out[b][2] = e
  <2>1. PICK k \in 1..Len(g.out[b]), m \in 1..Len(g.out[b]) : k = 1 /\ m = 2
    OBVIOUS
  <2>2. r.out = [g.out EXCEPT ![b][k] = f, ![b][m] = e] /\ <<b, k>> # <<b, m>>
    BY <1>8, <2>1
  <2>3. g.out \in [Block -> Seq(Edge)]
    BY <1>0, GraphFacts
  <2>4. SlotsSet(r.out, g.out, b, k, f, b, m, e)
    <3>1. SlotsSet([g.out EXCEPT ![b][k] = f, ![b][m] = e], g.out, b, k, f, b, m, e)
      BY <2>2, <2>3, SetSlots, ZenonT(60)
    <3> QED BY <2>2, <3>1
  <2> QED BY <2>1, <2>4 DEF SlotsSet
<1>11. /\ \A c \in Block : Len(r.in[c]) = Len(g.in[c])
       /\ \A c \in Block : \A i \in 1..Len(g.in[c]) :
             <<c, i>> # <<s, j>> /\ <<c, i>> # <<p, q>> => r.in[c][i] = g.in[c][i]
       /\ r.in[s][j] = x /\ r.in[p][q] = y
  <2>1. g.in \in [Block -> Seq(Edge)]
    BY <1>0, GraphFacts
  <2>2. SlotsSet(r.in, g.in, s, j, x, p, q, y)
    <3>1. SlotsSet([g.in EXCEPT ![s][j] = x, ![p][q] = y], g.in, s, j, x, p, q, y)
      BY <1>4, <1>5, <1>7, <2>1, SetSlots, ZenonT(60)
    <3> QED BY <1>9, <3>1
  <2> QED BY <2>2 DEF SlotsSet
<1>12. OthersKept(r.out, g.out, b)
  BY <1>10 DEF OthersKept, Kept, SameEdge
<1>13. ASSUME NEW c \in Block PROVE Kept(r.in[c], g.in[c])
  <2>1. ASSUME NEW i \in 1..Len(g.in[c]) PROVE SameEdge(r.in[c][i], g.in[c][i])
    <3>1. CASE <<c, i>> = <<s, j>>
      BY <1>4, <1>7, <1>11, <3>1 DEF SameEdge
    <3>2. CASE <<c, i>> = <<p, q>>
      BY <1>4, <1>7, <1>11, <3>2 DEF SameEdge
    <3> QED BY <1>11, <3>1, <3>2 DEF SameEdge
  <2> QED BY <1>11, <2>1 DEF Kept
<1>14. ASSUME NEW c \in Block, NEW i \in 1..Len(r.in[c])
       PROVE  <<r.in[c][i].label, r.out[r.in[c][i].point][r.in[c][i].rev].label>> \in R
  <2>1. i \in 1..Len(g.in[c]) /\ r.in[c][i].label = g.in[c][i].label
    BY <1>13 DEF Kept, SameEdge
  <2>2. PICK a \in Block, n \in Nat : a = g.in[c][i].point /\ n = g.in[c][i].rev
    BY <1>0, <2>1, GraphFacts
  <2>3. InSlotOK(g, {}, c, i)
    BY SMTT(30), <1>0, <2>1 DEF MirroredBut
  <2>4. n \in 1..Len(g.out[a]) /\ g.out[a][n].point = c /\ g.out[a][n].rev = i
    BY SMTT(30), <2>2, <2>3 DEF InSlotOK
  <2>5. <<g.in[c][i].label, g.out[a][n].label>> \in R
    BY <2>1, <2>2 DEF Paired
  <2>6. CASE a = b /\ n = 1
    <3>1. c = p /\ i = q
      BY <1>1, <1>2, <2>4, <2>6
    <3>2. r.in[c][i] = y /\ r.out[b][2] = g.out[a][n]
      BY <1>1, <1>10, <1>11, <2>6, <3>1
    <3> QED BY <1>7, <2>1, <2>5, <3>2
  <2>7. CASE a = b /\ n = 2
    <3>1. c = s /\ i = j
      BY <1>1, <1>2, <2>4, <2>7
    <3>2. r.in[c][i] = x /\ r.out[b][1] = g.out[a][n]
      BY SMTT(30), <1>1, <1>10, <1>11, <2>7, <3>1
    <3> QED BY <1>7, <2>1, <2>5, <3>2
  <2>8. CASE a # b
    <3>1. <<c, i>> # <<s, j>> /\ <<c, i>> # <<p, q>>
      BY <1>4, <2>2, <2>8
    <3>2. r.in[c][i] = g.in[c][i] /\ r.out[a][n] = g.out[a][n]
      BY SMTT(30), <1>10, <1>11, <2>1, <2>4, <2>8, <3>1
    <3> QED BY <2>2, <2>5, <3>2
  <2>9. a = b => n = 1 \/ n = 2
    BY <2>4
  <2> QED BY <2>6, <2>7, <2>8, <2>9
<1>15. Len(r.out[b]) = 2 /\ SameEdge(r.out[b][1], g.out[b][2]) /\ SameEdge(r.out[b][2], g.out[b][1])
  BY SMTT(30), <1>1, <1>10 DEF SameEdge
<1>16. Paired(r, {}, R)
  BY <1>14 DEF Paired
<1> QED BY <1>12, <1>13, <1>15, <1>16

-----------------------------------------------------------------------------
(***************************************************************************)
(* Default edges.  Both halves of an edge have the labels in R:             *)
(* Agree says that they have the same spanning-tree labels, Covers that the  *)
(* out-half is a default edge where the in-half is one.                      *)
(***************************************************************************)
Agree == {p \in (SUBSET Label) \X (SUBSET Label) : p[1] \cap SpanLabel = p[2] \cap SpanLabel}
Covers == {p \in (SUBSET Label) \X (SUBSET Label) : DefaultSwitch \in p[1] => DefaultSwitch \in p[2]}

LEMMA Reflexive ==
    (\A l \in SUBSET Label : <<l, l>> \in Agree) /\ (\A l \in SUBSET Label : <<l, l>> \in Covers)
  BY DEF Agree, Covers

\* No default edge in a list of out-edges, and at most one
NoDefault(es) == \A k \in 1..Len(es) : DefaultSwitch \notin es[k].label
AtMostOne(es) == \A j, k \in 1..Len(es) :
    DefaultSwitch \in es[j].label /\ DefaultSwitch \in es[k].label => j = k

\* Every block has at most one default edge, and none but a switch has any.
DefaultsOK(g, fl) == \A c \in Block :
    AtMostOne(g.out[c]) /\ ("switch_out" \in fl[c] \/ NoDefault(g.out[c]))

LEMMA SameDefaults ==
    ASSUME NEW u, NEW t, Len(u) = Len(t), \A k \in 1..Len(t) : u[k].label = t[k].label
    PROVE  (AtMostOne(t) => AtMostOne(u)) /\ (NoDefault(t) => NoDefault(u))
  BY DEF AtMostOne, NoDefault

LEMMA KeptDefaults ==
    ASSUME NEW u, NEW t, Kept(u, t)
    PROVE  (AtMostOne(t) => AtMostOne(u)) /\ (NoDefault(t) => NoDefault(u))
  BY SameDefaults DEF Kept, SameEdge

LEMMA CutDefaults ==
    ASSUME NEW u, NEW t, NEW k \in 1..Len(t), Len(t) \in Nat, Cut(u, t, k)
    PROVE  /\ AtMostOne(t) => AtMostOne(u)
           /\ NoDefault(t) => NoDefault(u)
           /\ AtMostOne(t) /\ DefaultSwitch \in t[k].label => NoDefault(u)
<1> DEFINE old(i) == IF i < k THEN i ELSE i + 1
<1>1. PICK n \in Nat : n = Len(t) /\ Len(u) = n - 1 /\ k \in 1..n
  BY DEF Cut
<1>2. \A i \in 1..Len(u) : old(i) \in 1..Len(t) /\ old(i) # k
  BY <1>1
<1>3. \A i, j \in 1..Len(u) : old(i) = old(j) => i = j
  BY <1>1
<1>4. \A i \in 1..Len(u) : u[i].label = t[old(i)].label
  BY DEF Cut, SameEdge
<1> HIDE DEF old
<1>5. AtMostOne(t) => AtMostOne(u)
  BY <1>2, <1>3, <1>4 DEF AtMostOne
<1>6. NoDefault(t) => NoDefault(u)
  BY <1>2, <1>4 DEF NoDefault
<1>7. AtMostOne(t) /\ DefaultSwitch \in t[k].label => NoDefault(u)
  BY <1>2, <1>4 DEF AtMostOne, NoDefault
<1> QED BY <1>5, <1>6, <1>7

LEMMA AddedDefaults ==
    ASSUME NEW u, NEW t, NEW l, NEW p, Len(t) \in Nat, Added(u, t, l, p)
    PROVE  /\ DefaultSwitch \notin l /\ AtMostOne(t) => AtMostOne(u)
           /\ DefaultSwitch \notin l /\ NoDefault(t) => NoDefault(u)
           /\ NoDefault(t) => AtMostOne(u)
<1>1. PICK n \in Nat : n = Len(t) /\ Len(u) = n + 1 /\ u[n + 1].label = l
  BY DEF Added
<1>2. \A i \in 1..n : u[i].label = t[i].label
  BY <1>1 DEF Added, SameEdge
<1>3. \A i \in 1..Len(u) : i \in 1..n \/ i = n + 1
  BY <1>1
<1>4. DefaultSwitch \notin l /\ AtMostOne(t) => AtMostOne(u)
  BY <1>1, <1>2, <1>3 DEF AtMostOne
<1>5. DefaultSwitch \notin l /\ NoDefault(t) => NoDefault(u)
  BY <1>1, <1>2, <1>3 DEF NoDefault
<1>6. NoDefault(t) => AtMostOne(u)
  BY SMTT(30), <1>1, <1>2, <1>3 DEF AtMostOne, NoDefault
<1> QED BY <1>4, <1>5, <1>6

\* Where the in-half is a default edge, the out-half is one too.
LEMMA InDefault ==
    ASSUME NEW g, Sound(g), Paired(g, {}, Covers), NEW b \in Block, NEW k \in 1..Len(g.in[b])
    PROVE  DefaultSwitch \in g.in[b][k].label =>
              DefaultSwitch \in g.out[g.in[b][k].point][g.in[b][k].rev].label
<1>1. <<g.in[b][k].label, g.out[g.in[b][k].point][g.in[b][k].rev].label>> \in Covers
  BY DEF Paired
<1> QED BY Zenon, <1>1 DEF Covers

\* No block gets a default edge it did not have.
KeepsDefaults(g, r) == \A c \in Block :
    (AtMostOne(g.out[c]) => AtMostOne(r.out[c])) /\ (NoDefault(g.out[c]) => NoDefault(r.out[c]))

LEMMA KeepsDefaultsOK ==
    ASSUME NEW g, NEW r, NEW fl, KeepsDefaults(g, r), DefaultsOK(g, fl)
    PROVE  DefaultsOK(r, fl)
  BY DEF KeepsDefaults, DefaultsOK

LEMMA RemoveInEdgeDefaults ==
    ASSUME NEW g, Sound(g), NEW b \in Block, NEW k \in 1..Len(g.in[b])
    PROVE  KeepsDefaults(g, RemoveInEdge(g, b, k))
<1>1. PICK r : r = RemoveInEdge(g, b, k)
  OBVIOUS
<1>2a. PICK s \in Block, j \in Nat : InMirrorIs(g, b, k, s, j)
  BY SMTT(30), InMirror
<1>2. /\ s = g.in[b][k].point /\ j = g.in[b][k].rev /\ j \in 1..Len(g.out[s])
      /\ g.out[s][j].point = b /\ g.out[s][j].rev = k
      /\ MirroredBut(g, {<<b, k>>}, {<<s, j>>})
  BY Zenon, <1>2a DEF InMirrorIs
<1>3. Cut(r.out[s], g.out[s], j) /\ OthersKept(r.out, g.out, s)
  BY <1>1, <1>2, RemoveInEdgeKeeps
<1>4. Len(g.out[s]) \in Nat
  BY GraphFacts DEF Sound
<1>5. ASSUME NEW c \in Block
      PROVE  (AtMostOne(g.out[c]) => AtMostOne(r.out[c])) /\ (NoDefault(g.out[c]) => NoDefault(r.out[c]))
  <2>1. CASE c = s
    BY Zenon, <1>2, <1>3, <1>4, <2>1, CutDefaults
  <2>2. CASE c # s
    BY <1>3, <2>2, KeptDefaults DEF OthersKept
  <2> QED BY SMTT(30), <2>1, <2>2
<1> QED BY <1>1, <1>5 DEF KeepsDefaults

LEMMA RemoveOutEdgeDefaults ==
    ASSUME NEW g, Sound(g), NEW b \in Block, NEW k \in 1..Len(g.out[b])
    PROVE  KeepsDefaults(g, RemoveOutEdge(g, b, k))
<1>1. PICK r : r = RemoveOutEdge(g, b, k)
  OBVIOUS
<1>2. Cut(r.out[b], g.out[b], k) /\ OthersKept(r.out, g.out, b)
  BY <1>1, RemoveOutEdgeKeeps
<1>3. Len(g.out[b]) \in Nat
  BY GraphFacts DEF Sound
<1>4. ASSUME NEW c \in Block
      PROVE  (AtMostOne(g.out[c]) => AtMostOne(r.out[c])) /\ (NoDefault(g.out[c]) => NoDefault(r.out[c]))
  <2>1. CASE c = b
    BY <1>2, <1>3, <2>1, CutDefaults
  <2>2. CASE c # b
    BY <1>2, <2>2, KeptDefaults DEF OthersKept
  <2> QED BY <2>1, <2>2
<1> QED BY <1>1, <1>4 DEF KeepsDefaults

LEMMA ReplaceOutEdgeDefaults ==
    ASSUME NEW g, Sound(g), NEW b \in Block, NEW k \in 1..Len(g.out[b]), NEW tgt \in Block,
           Paired(g, {}, Covers)
    PROVE  KeepsDefaults(g, ReplaceOutEdge(g, b, k, tgt)) /\ Paired(ReplaceOutEdge(g, b, k, tgt), {}, Covers)
<1>1. PICK r : r = ReplaceOutEdge(g, b, k, tgt)
  OBVIOUS
<1>2. Turned(r.out[b], g.out[b], k, tgt) /\ OthersKept(r.out, g.out, b) /\ Paired(r, {}, Covers)
  BY <1>1, Reflexive, ReplaceOutEdgeKeeps
<1>4. ASSUME NEW c \in Block
      PROVE  (AtMostOne(g.out[c]) => AtMostOne(r.out[c])) /\ (NoDefault(g.out[c]) => NoDefault(r.out[c]))
  <2>1. CASE c = b
    BY <1>2, <2>1, SameDefaults DEF Turned
  <2>2. CASE c # b
    BY <1>2, <2>2, KeptDefaults DEF OthersKept
  <2> QED BY <2>1, <2>2
<1> QED BY <1>1, <1>2, <1>4 DEF KeepsDefaults

LEMMA AddInEdgeDefaults ==
    ASSUME NEW g, Sound(g), NEW b \in Block, NEW src \in Block, Paired(g, {}, Covers)
    PROVE  KeepsDefaults(g, AddInEdge(g, b, src, {})) /\ Paired(AddInEdge(g, b, src, {}), {}, Covers)
<1>0. PICK lab \in SUBSET Label : lab = {}
  OBVIOUS
<1>1. PICK r : r = AddInEdge(g, b, src, lab) /\ lab = {}
  BY <1>0
<1>2. /\ Added(r.out[src], g.out[src], lab, b) /\ OthersKept(r.out, g.out, src)
      /\ Paired(r, {}, Covers)
  BY <1>1, Reflexive, AddInEdgeKeeps
<1>3. Len(g.out[src]) \in Nat
  BY GraphFacts DEF Sound
<1>4. ASSUME NEW c \in Block
      PROVE  (AtMostOne(g.out[c]) => AtMostOne(r.out[c])) /\ (NoDefault(g.out[c]) => NoDefault(r.out[c]))
  <2>1. CASE c = src
    BY <1>1, <1>2, <1>3, <2>1, AddedDefaults
  <2>2. CASE c # src
    BY <1>2, <2>2, KeptDefaults DEF OthersKept
  <2> QED BY <2>1, <2>2
<1> QED BY <1>1, <1>2, <1>4 DEF KeepsDefaults

LEMMA SwapOutDefaults ==
    ASSUME NEW g, Sound(g), NEW b \in Block, Len(g.out[b]) = 2, Paired(g, {}, Covers)
    PROVE  KeepsDefaults(g, SwapOut(g, b)) /\ Paired(SwapOut(g, b), {}, Covers)
<1>1. PICK r : r = SwapOut(g, b)
  OBVIOUS
<1>2. /\ Len(r.out[b]) = 2 /\ SameEdge(r.out[b][1], g.out[b][2]) /\ SameEdge(r.out[b][2], g.out[b][1])
      /\ OthersKept(r.out, g.out, b) /\ Paired(r, {}, Covers)
  BY <1>1, SwapOutKeeps
<1>3. (AtMostOne(g.out[b]) => AtMostOne(r.out[b])) /\ (NoDefault(g.out[b]) => NoDefault(r.out[b]))
  BY <1>2 DEF AtMostOne, NoDefault, SameEdge
<1>4. ASSUME NEW c \in Block, c # b
      PROVE  (AtMostOne(g.out[c]) => AtMostOne(r.out[c])) /\ (NoDefault(g.out[c]) => NoDefault(r.out[c]))
  BY SMTT(30), <1>2, <1>4, KeptDefaults DEF OthersKept
<1> QED BY <1>1, <1>2, <1>3, <1>4 DEF KeepsDefaults

\* The default edges after an edge of s went to src: none appears unless that edge is
\* one, and then s loses its own.
DefaultMoves(g, r, s, src) ==
    /\ Paired(r, {}, Covers)
    /\ NoDefault(g.out[s]) => KeepsDefaults(g, r)
    /\ (\A c \in Block : AtMostOne(g.out[c])) /\ (NoDefault(g.out[s]) \/ NoDefault(g.out[src])) /\ s # src =>
          /\ \A c \in Block : AtMostOne(r.out[c])
          /\ \A c \in Block \ {src} : NoDefault(g.out[c]) => NoDefault(r.out[c])
          /\ NoDefault(g.out[s]) /\ NoDefault(g.out[src]) => NoDefault(r.out[src])
          /\ NoDefault(r.out[s]) \/ NoDefault(r.out[src])

\* ReplaceInEdge hands the label of the in-half to src.
LEMMA ReplaceInEdgeDefaults ==
    ASSUME NEW g, Sound(g), NEW b \in Block, NEW k \in 1..Len(g.in[b]), NEW src \in Block, NEW s \in Block,
           s = g.in[b][k].point, Paired(g, {}, Covers), NEW r, r = ReplaceInEdge(g, b, k, src)
    PROVE  DefaultMoves(g, r, s, src)
<1>0. g \in Graph
  BY DEF Sound
<1>1a. PICK s1 \in Block, j \in Nat : InMirrorIs(g, b, k, s1, j)
  BY SMTT(30), InMirror
<1>1. /\ j = g.in[b][k].rev /\ j \in 1..Len(g.out[s])
      /\ g.out[s][j].point = b /\ g.out[s][j].rev = k
      /\ MirroredBut(g, {<<b, k>>}, {<<s, j>>})
  BY <1>1a DEF InMirrorIs
<1>2. /\ \E h \in Graph : LET q == g.in[b][k].point IN
            /\ Cut(h.out[q], g.out[q], g.in[b][k].rev) /\ OthersKept(h.out, g.out, q)
            /\ Added(r.out[src], h.out[src], g.in[b][k].label, b) /\ OthersKept(r.out, h.out, src)
      /\ Paired(r, {}, Covers)
  BY SMTT(30), Reflexive, ReplaceInEdgeKeeps
<1>3. PICK h \in Graph, l \in {g.in[b][k].label} :
         /\ l = g.in[b][k].label
         /\ Cut(h.out[s], g.out[s], j) /\ OthersKept(h.out, g.out, s)
         /\ Added(r.out[src], h.out[src], l, b) /\ OthersKept(r.out, h.out, src)
  BY Zenon, <1>1, <1>2
<1>4. j \in 1..Len(g.out[s]) /\ (DefaultSwitch \in l => DefaultSwitch \in g.out[s][j].label)
  <2>1. DefaultSwitch \in g.in[b][k].label => DefaultSwitch \in g.out[g.in[b][k].point][g.in[b][k].rev].label
    BY InDefault
  <2> QED BY Zenon, <1>1, <1>3, <2>1
<1>5. \A c \in Block : Len(g.out[c]) \in Nat /\ Len(h.out[c]) \in Nat
  BY <1>0, GraphFacts
<1>6. ASSUME NEW c \in Block
      PROVE  /\ AtMostOne(g.out[c]) => AtMostOne(h.out[c])
             /\ NoDefault(g.out[c]) => NoDefault(h.out[c])
             /\ c = s /\ AtMostOne(g.out[c]) /\ DefaultSwitch \in l => NoDefault(h.out[c])
  <2>1. CASE c = s
    BY Zenon, <1>3, <1>4, <1>5, <2>1, CutDefaults
  <2>2. CASE c # s
    BY SMTT(30), <1>3, <2>2, KeptDefaults DEF OthersKept
  <2> QED BY <2>1, <2>2
<1>7. ASSUME NEW c \in Block, c # src
      PROVE  (AtMostOne(h.out[c]) => AtMostOne(r.out[c])) /\ (NoDefault(h.out[c]) => NoDefault(r.out[c]))
  BY SMTT(30), <1>3, <1>7, KeptDefaults DEF OthersKept
<1>8. /\ DefaultSwitch \notin l /\ AtMostOne(h.out[src]) => AtMostOne(r.out[src])
      /\ DefaultSwitch \notin l /\ NoDefault(h.out[src]) => NoDefault(r.out[src])
      /\ NoDefault(h.out[src]) => AtMostOne(r.out[src])
  BY SMTT(30), <1>3, <1>5, AddedDefaults
<1>9. NoDefault(g.out[s]) => DefaultSwitch \notin l
  BY <1>4 DEF NoDefault
<1>10. NoDefault(g.out[s]) => KeepsDefaults(g, r)
  <2> SUFFICES ASSUME NoDefault(g.out[s]), NEW c \in Block
               PROVE  (AtMostOne(g.out[c]) => AtMostOne(r.out[c])) /\ (NoDefault(g.out[c]) => NoDefault(r.out[c]))
    BY DEF KeepsDefaults
  <2> QED BY <1>6, <1>7, <1>8, <1>9
<1>11. ASSUME \A c \in Block : AtMostOne(g.out[c]), NoDefault(g.out[s]) \/ NoDefault(g.out[src]), s # src
       PROVE  /\ \A c \in Block : AtMostOne(r.out[c])
              /\ \A c \in Block \ {src} : NoDefault(g.out[c]) => NoDefault(r.out[c])
              /\ NoDefault(g.out[s]) /\ NoDefault(g.out[src]) => NoDefault(r.out[src])
              /\ NoDefault(r.out[s]) \/ NoDefault(r.out[src])
  <2>1. \A c \in Block : AtMostOne(r.out[c])
    BY <1>6, <1>7, <1>8, <1>9, <1>11
  <2>2. \A c \in Block \ {src} : NoDefault(g.out[c]) => NoDefault(r.out[c])
    BY <1>6, <1>7
  <2>3. NoDefault(g.out[s]) /\ NoDefault(g.out[src]) => NoDefault(r.out[src])
    BY <1>6, <1>8, <1>9
  <2>4. NoDefault(r.out[s]) \/ NoDefault(r.out[src])
    BY <1>6, <1>7, <1>8, <1>9, <1>11
  <2> QED BY <2>1, <2>2, <2>3, <2>4
<1> QED BY <1>2, <1>10, <1>11 DEF DefaultMoves

\* replaceEdgesThru, for a block with no default edge: the joined halves keep their
\* labels, and the in-half came from an edge out of b.
LEMMA ReplaceEdgesThruDefaults ==
    ASSUME NEW g, Sound(g), NEW b \in Block,
           NEW i \in 1..Len(g.in[b]), NEW o \in 1..Len(g.out[b]),
           Paired(g, {}, Covers), NoDefault(g.out[b])
    PROVE  /\ Paired(ReplaceEdgesThru(g, b, i, o), {}, Covers)
           /\ KeepsDefaults(g, ReplaceEdgesThru(g, b, i, o))
<1>0. g \in Graph /\ MirroredBut(g, {}, {})
  BY DEF Sound
<1>1. PICK p \in Block, r \in Nat, t \in Block, q \in Nat, h \in Graph :
         Joined(g, b, i, o, p, r, t, q, h)
  BY JoinOuter
<1>2. PICK x, y : /\ x = [label |-> g.out[p][r].label, point |-> t, rev |-> q]
                  /\ y = [label |-> g.in[t][q].label, point |-> p, rev |-> r]
  OBVIOUS
<1>3. /\ r \in 1..Len(g.out[p]) /\ q \in 1..Len(g.in[t])
      /\ t = g.out[b][o].point /\ q = g.out[b][o].rev
      /\ SlotSet(h.out, g.out, p, r, x) /\ SlotSet(h.in, g.in, t, q, y)
  BY Zenon, <1>1, <1>2 DEF Joined
<1>4. /\ MirroredBut(h, {<<b, i>>}, {<<b, o>>})
      /\ ReplaceEdgesThru(g, b, i, o) = HalfDeleteOut(HalfDeleteIn(h, b, i), b, o)
  BY <1>1 DEF Joined
<1>5. x.label = g.out[p][r].label /\ y.label = g.in[t][q].label /\ y.point = p /\ y.rev = r
  BY <1>2
\* The in-half of out-slot o is no default edge.
<1>6. DefaultSwitch \notin g.in[t][q].label
  <2>1. OutSlotOK(g, {}, b, o)
    BY <1>0 DEF MirroredBut
  <2>2. g.in[t][q].point = b /\ g.in[t][q].rev = o
    BY ONLY Zenon, <1>3, <2>1 DEF OutSlotOK
  <2>3. DefaultSwitch \in g.in[t][q].label => DefaultSwitch \in g.out[g.in[t][q].point][g.in[t][q].rev].label
    BY Zenon, <1>3, InDefault
  <2> QED BY SMTT(30), <2>2, <2>3 DEF NoDefault
<1>7. \A c \in Block : Len(h.in[c]) = Len(g.in[c]) /\ Len(h.out[c]) = Len(g.out[c])
  BY <1>3 DEF SlotSet
<1>8. ASSUME NEW c \in Block, NEW j \in 1..Len(g.out[c]) PROVE h.out[c][j].label = g.out[c][j].label
  <2>1. CASE <<c, j>> = <<p, r>>
    BY <1>3, <1>5, <2>1 DEF SlotSet
  <2>2. CASE <<c, j>> # <<p, r>>
    BY SMTT(30), <1>3, <2>2 DEF SlotSet
  <2> QED BY SMTT(30), <2>1, <2>2
<1>9. Paired(h, {<<b, i>>}, Covers)
  <2>1. ASSUME NEW c \in Block, NEW j \in 1..Len(h.in[c]), <<c, j>> \notin {<<b, i>>}
        PROVE  <<h.in[c][j].label, h.out[h.in[c][j].point][h.in[c][j].rev].label>> \in Covers
    <3>1. PICK a \in Block, n \in Nat : a = h.in[c][j].point /\ n = h.in[c][j].rev
      BY GraphFacts
    <3>2. InSlotOK(h, {<<b, o>>}, c, j)
      BY <1>4, <2>1 DEF MirroredBut
    <3>3. n \in 1..Len(g.out[a])
      BY <1>7, <3>1, <3>2 DEF InSlotOK
    <3>4. h.out[a][n].label = g.out[a][n].label /\ h.out[a][n].label \in SUBSET Label
      <4>1. h.out[a][n] \in Edge
        BY <1>7, <3>3, GraphFacts
      <4> QED BY <1>8, <3>3, <4>1 DEF Edge
    <3>5. h.in[c][j].label \in SUBSET Label
      BY Zenon, GraphFacts DEF Edge
    <3>6. DefaultSwitch \in h.in[c][j].label => DefaultSwitch \in h.out[a][n].label
      <4>1. CASE <<c, j>> = <<t, q>>
        BY <1>3, <1>5, <1>6, <4>1 DEF SlotSet
      <4>2. CASE <<c, j>> # <<t, q>>
        <5>1. j \in 1..Len(g.in[c]) /\ h.in[c][j] = g.in[c][j]
          BY <1>3, <1>7, <4>2 DEF SlotSet
        <5>2. DefaultSwitch \in g.in[c][j].label => DefaultSwitch \in g.out[g.in[c][j].point][g.in[c][j].rev].label
          BY <5>1, InDefault
        <5> QED BY Zenon, <3>1, <3>4, <5>1, <5>2
      <4> QED BY <4>1, <4>2
    <3> QED BY <3>1, <3>4, <3>5, <3>6 DEF Covers
  <2> QED BY Zenon, <2>1 DEF Paired
<1>10. PICK m \in Graph : m = HalfDeleteIn(h, b, i) /\ MirroredBut(m, {}, {<<b, o>>})
  <2>1. i \in 1..Len(h.in[b])
    BY <1>7
  <2> QED BY <1>4, <2>1, HalfDeleteInOK
<1>11. Paired(m, {}, Covers) /\ \A c \in Block : Kept(m.out[c], h.out[c])
  <2>1. i \in 1..Len(h.in[b])
    BY <1>7
  <2>2. Paired(m, {}, Covers)
    BY <1>4, <1>9, <1>10, <2>1, HalfDeleteInPaired
  <2>3. \A c \in Block : Kept(m.out[c], h.out[c])
    BY <1>10, <2>1, HalfDeleteInKeeps
  <2> QED BY <2>2, <2>3
<1>12. PICK z : z = HalfDeleteOut(m, b, o)
  OBVIOUS
<1>13. o \in 1..Len(m.out[b])
  BY <1>7, <1>11 DEF Kept
<1>14. Paired(z, {}, Covers) /\ Cut(z.out[b], m.out[b], o) /\ OthersKept(z.out, m.out, b)
  <2>1. Paired(z, {}, Covers)
    BY <1>10, <1>11, <1>12, <1>13, HalfDeleteOutPaired
  <2>2. Cut(z.out[b], m.out[b], o) /\ OthersKept(z.out, m.out, b)
    BY <1>12, <1>13, HalfDeleteOutKeeps
  <2> QED BY <2>1, <2>2
<1>15. ASSUME NEW c \in Block
       PROVE  (AtMostOne(g.out[c]) => AtMostOne(z.out[c])) /\ (NoDefault(g.out[c]) => NoDefault(z.out[c]))
  <2>1. (AtMostOne(g.out[c]) => AtMostOne(h.out[c])) /\ (NoDefault(g.out[c]) => NoDefault(h.out[c]))
    BY <1>7, <1>8, SameDefaults
  <2>2. (AtMostOne(h.out[c]) => AtMostOne(m.out[c])) /\ (NoDefault(h.out[c]) => NoDefault(m.out[c]))
    BY <1>11, KeptDefaults
  <2>3. (AtMostOne(m.out[c]) => AtMostOne(z.out[c])) /\ (NoDefault(m.out[c]) => NoDefault(z.out[c]))
    <3>1. CASE c = b
      <4>1. Len(m.out[b]) \in Nat
        BY GraphFacts
      <4> QED BY <1>13, <1>14, <3>1, <4>1, CutDefaults
    <3>2. CASE c # b
      BY <1>14, <3>2, KeptDefaults DEF OthersKept
    <3> QED BY <3>1, <3>2
  <2> QED BY <2>1, <2>2, <2>3
<1>16. ReplaceEdgesThru(g, b, i, o) = z
  BY <1>4, <1>10, <1>12
<1> QED BY <1>14, <1>15, <1>16 DEF KeepsDefaults

\* The slots of a domain whose edges face in-slot k of c, and the label Relabel gives to
\* edge x, which the slots in P face.
Facing(dom, g, c, k) == {p \in dom : g.out[p[1]][p[2]].point = c /\ g.out[p[1]][p[2]].rev = k}
NewLabel(x, drop, add, P) == (x.label \ Labels(drop, P)) \cup Labels(add, P)

Relabelled(g, r, drop, add, c) ==
    /\ \A k \in 1..Len(g.out[c]) : r.out[c][k].label = NewLabel(g.out[c][k], drop, add, {<<c, k>>})
    /\ \A k \in 1..Len(g.in[c]) : r.in[c][k].label =
          NewLabel(g.in[c][k], drop, add, Facing((DOMAIN drop) \cup (DOMAIN add), g, c, k))

LEMMA RelabelSlot ==
    ASSUME NEW g \in Graph, NEW drop, NEW add, NEW c \in Block
    PROVE  Relabelled(g, Relabel(g, drop, add), drop, add, c)
<1> DEFINE r == Relabel(g, drop, add)
<1>1. /\ DOMAIN g.in[c] = 1..Len(g.in[c]) /\ DOMAIN g.out[c] = 1..Len(g.out[c])
      /\ \A k \in 1..Len(g.in[c]) : g.in[c][k] \in Edge
      /\ \A k \in 1..Len(g.out[c]) : g.out[c][k] \in Edge
  BY GraphFacts, LenProperties
<1>2. ASSUME NEW k \in 1..Len(g.out[c])
      PROVE  r.out[c][k].label = NewLabel(g.out[c][k], drop, add, {<<c, k>>})
  <2>1. PICK L : L = NewLabel(g.out[c][k], drop, add, {<<c, k>>})
    OBVIOUS
  <2>2. r.out[c][k] = [g.out[c][k] EXCEPT !.label = L]
    BY <1>1, <2>1 DEF Relabel, NewLabel
  <2>3. g.out[c][k] \in Edge
    BY <1>1
  <2> QED BY <2>1, <2>2, <2>3 DEF Edge
<1>3. ASSUME NEW k \in 1..Len(g.in[c])
      PROVE  r.in[c][k].label = NewLabel(g.in[c][k], drop, add, Facing((DOMAIN drop) \cup (DOMAIN add), g, c, k))
  <2>1. PICK P, L : P = Facing((DOMAIN drop) \cup (DOMAIN add), g, c, k) /\ L = NewLabel(g.in[c][k], drop, add, P)
    BY SMTT(30)
  <2>2. r.in[c][k] = [g.in[c][k] EXCEPT !.label = L]
    BY <1>1, <2>1 DEF Relabel, NewLabel, Facing
  <2>3. g.in[c][k] \in Edge
    BY <1>1
  <2> QED BY <2>1, <2>2, <2>3 DEF Edge
<1> QED BY <1>2, <1>3 DEF Relabelled

\* f names out-slots of g.
OnSlots(f, g) == \A d \in DOMAIN f : \E b \in Block, k \in Nat : d = <<b, k>> /\ k \in 1..Len(g.out[b])

\* The two halves of an edge, in-slot i of c and out-slot q of p, are relabelled alike.
Alike(g, r, drop, add, c, i, p, q) ==
    /\ q \in 1..Len(g.out[p]) /\ i \in 1..Len(g.in[c])
    /\ r.in[c][i].point = p /\ r.in[c][i].rev = q
    /\ g.in[c][i].point = p /\ g.in[c][i].rev = q
    /\ r.in[c][i].label = NewLabel(g.in[c][i], drop, add, {<<p, q>>})
    /\ r.out[p][q].label = NewLabel(g.out[p][q], drop, add, {<<p, q>>})

LEMMA RelabelHalves ==
    ASSUME NEW g, Sound(g), NEW drop, NEW add, OnSlots(drop, g), OnSlots(add, g),
           \A p \in DOMAIN add : add[p] \in SUBSET Label,
           NEW r, r = Relabel(g, drop, add), NEW c \in Block, NEW i \in 1..Len(r.in[c])
    PROVE  \E p \in Block, q \in Nat : Alike(g, r, drop, add, c, i, p, q)
<1>0. g \in Graph /\ MirroredBut(g, {}, {})
  BY DEF Sound
<1>a. \A x \in Block : Relabelled(g, r, drop, add, x)
  BY <1>0, RelabelSlot
<1>1. SameSlots(g, r)
  BY RelabelOK
<1>2. i \in 1..Len(g.in[c]) /\ r.in[c][i].point = g.in[c][i].point /\ r.in[c][i].rev = g.in[c][i].rev
  BY <1>1 DEF SameSlots
<1>3. PICK p \in Block, q \in Nat : InMirrorIs(g, c, i, p, q)
  BY SMTT(30), <1>2, InMirror
<1>4. /\ p = g.in[c][i].point /\ q = g.in[c][i].rev /\ q \in 1..Len(g.out[p])
      /\ g.out[p][q].point = c /\ g.out[p][q].rev = i
  BY <1>3 DEF InMirrorIs
<1>5. PICK P : P = Facing((DOMAIN drop) \cup (DOMAIN add), g, c, i)
  OBVIOUS
<1>6. ASSUME NEW b \in Block, NEW k \in 1..Len(g.out[b]), g.out[b][k].point = c, g.out[b][k].rev = i
      PROVE  b = p /\ k = q
  <2>1. OutSlotOK(g, {}, b, k)
    BY SMTT(30), <1>0 DEF MirroredBut
  <2> QED BY <1>4, <1>6, <2>1 DEF OutSlotOK
<1>7. ASSUME NEW d \in (DOMAIN drop) \cup (DOMAIN add) PROVE d \in P <=> d = <<p, q>>
  <2>1. PICK b \in Block, k \in Nat : d = <<b, k>> /\ k \in 1..Len(g.out[b])
    BY <1>7 DEF OnSlots
  <2>2. d[1] = b /\ d[2] = k
    BY <2>1
  <2>3. d \in P <=> g.out[b][k].point = c /\ g.out[b][k].rev = i
    BY <1>5, <1>7, <2>2 DEF Facing
  <2> QED BY <1>4, <1>6, <2>1, <2>3
<1>8. P \cap DOMAIN drop = {<<p, q>>} \cap DOMAIN drop /\ P \cap DOMAIN add = {<<p, q>>} \cap DOMAIN add
  <2>1. P \subseteq (DOMAIN drop) \cup (DOMAIN add)
    BY <1>5 DEF Facing
  <2> QED BY <1>7, <2>1
<1>9. Labels(drop, P) = Labels(drop, {<<p, q>>}) /\ Labels(add, P) = Labels(add, {<<p, q>>})
  BY SMTT(30), <1>8 DEF Labels
<1>10. r.out[p][q].label = NewLabel(g.out[p][q], drop, add, {<<p, q>>})
  BY <1>a, <1>4 DEF Relabelled
<1>11. r.in[c][i].label = NewLabel(g.in[c][i], drop, add, {<<p, q>>})
  <2>1. r.in[c][i].label = NewLabel(g.in[c][i], drop, add, P)
    BY <1>a, <1>2, <1>5 DEF Relabelled
  <2> QED BY <1>9, <2>1 DEF NewLabel
<1>12. Alike(g, r, drop, add, c, i, p, q)
  BY <1>2, <1>4, <1>10, <1>11 DEF Alike
<1> QED BY <1>12

-----------------------------------------------------------------------------
(***************************************************************************)
(* The inductive invariant.  While the edges of the absorbed block are       *)
(* moved (spliceOutput), one of the two blocks has no default edge, and the  *)
(* absorbing block has taken over the switch flag.                           *)
(***************************************************************************)
MoveOK ==
    task.op = "move" /\ task.to # task.bl =>
        /\ NoDefault(graph.out[task.bl]) \/ NoDefault(graph.out[task.to])
        /\ "switch_out" \in flags[task.bl] \/ NoDefault(graph.out[task.to])

HalvesOK ==
    /\ Paired(graph, {}, Covers)
    /\ task = Idle => Paired(graph, {}, Agree)
    /\ DefaultsOK(graph, flags)
    /\ MoveOK

LabelInv == IndInv /\ HalvesOK

LEMMA StillOK ==
    ASSUME NEW h, Becomes(h), Paired(h, {}, Covers), DefaultsOK(h, flags'),
           task' = Idle => Paired(h, {}, Agree), task'.op # "move"
    PROVE  HalvesOK'
<1>1. graph'.in = h.in /\ graph'.out = h.out
  BY SMTT(30) DEF graph, Becomes
<1>2. Paired(graph', {}, Covers) /\ (task' = Idle => Paired(graph', {}, Agree))
  BY <1>1 DEF Paired
<1>3. DefaultsOK(graph', flags')
  BY <1>1 DEF DefaultsOK
<1> QED BY <1>2, <1>3 DEF HalvesOK, MoveOK

\* A step that gives no block a default edge and takes no switch flag away.
LEMMA KeepingOK ==
    ASSUME LabelInv, NEW h, Becomes(h), Paired(h, {}, Covers), KeepsDefaults(graph, h),
           \A c \in Block : "switch_out" \in flags[c] => "switch_out" \in flags'[c],
           task' = Idle => Paired(h, {}, Agree), task'.op # "move"
    PROVE  HalvesOK'
<1>1. DefaultsOK(h, flags')
  BY DEF LabelInv, HalvesOK, DefaultsOK, KeepsDefaults
<1> QED BY <1>1, StillOK

\* A step that leaves the edges as they are.
LEMMA SameEdgesOK ==
    ASSUME LabelInv, UNCHANGED <<inEdges, outEdges>>,
           \A c \in Block : ("switch_out" \in flags[c] => "switch_out" \in flags'[c]) \/ NoDefault(graph.out[c]),
           task' = Idle => task = Idle, task'.op # "move"
    PROVE  HalvesOK'
<1>1. Becomes(graph)
  BY DEF Becomes, graph
<1>2. /\ Paired(graph, {}, Covers) /\ (task' = Idle => Paired(graph, {}, Agree))
      /\ DefaultsOK(graph, flags')
  BY DEF LabelInv, HalvesOK, DefaultsOK
<1> QED BY <1>1, <1>2, StillOK

LEMMA Now ==
    ASSUME LabelInv
    PROVE  /\ IndInv /\ Sound(graph) /\ Paired(graph, {}, Covers) /\ DefaultsOK(graph, flags)
           /\ task = Idle => Paired(graph, {}, Agree) /\ task.op = "idle" /\ task.op # "move"
  BY GraphNow, TaskNow DEF LabelInv, HalvesOK

LEMMA NewBlockOK ==
    ASSUME LabelInv, NEW b \in Block, NEW fl \in SUBSET CreateFlags, NewBlock(b, fl)
    PROVE  HalvesOK'
<1>1. /\ UNCHANGED <<inEdges, outEdges>> /\ task' = task /\ task = Idle /\ b \notin blocks
      /\ flags' = [flags EXCEPT ![b] = fl]
  BY DEF NewBlock
<1>2. NoDefault(graph.out[b])
  <2>1. Len(graph.out[b]) = 0
    BY <1>1, Now, GraphNow DEF Bare
  <2> QED BY <2>1 DEF NoDefault
<1>3. \A c \in Block : ("switch_out" \in flags[c] => "switch_out" \in flags'[c]) \/ NoDefault(graph.out[c])
  <2>1. \A c \in Block \ {b} : flags'[c] = flags[c]
    BY <1>1, Now, TaskNow
  <2> QED BY <1>2, <2>1
<1> QED BY <1>1, <1>3, Now, SameEdgesOK

LEMMA AddEdgeOK ==
    ASSUME LabelInv, NEW src \in Block, NEW b \in Block, AddEdge(src, b)
    PROVE  HalvesOK'
<1>0. PICK lab \in SUBSET Label : lab = {}
  OBVIOUS
<1>1. PICK h : h = AddInEdge(graph, b, src, lab) /\ lab = {}
  BY <1>0
<1>2. Becomes(h) /\ task' = task /\ task = Idle /\ flags' = flags
  BY <1>1 DEF AddEdge, EdgeOp
<1>3. Paired(h, {}, Covers) /\ KeepsDefaults(graph, h)
  BY <1>1, Now, AddInEdgeDefaults
<1>4. Paired(h, {}, Agree)
  BY <1>1, <1>2, Now, Reflexive, AddInEdgeKeeps
<1> QED BY <1>2, <1>3, <1>4, Now, KeepingOK

LEMMA RemoveEdgeOK ==
    ASSUME LabelInv, NEW src \in Block, NEW b \in Block, RemoveEdge(src, b)
    PROVE  HalvesOK'
<1>1. PICK k, h : k = Min(SlotsIn(graph, b, src)) /\ h = RemoveInEdge(graph, b, k)
  OBVIOUS
<1>2. Becomes(h) /\ task' = task /\ task = Idle /\ flags' = flags
  BY <1>1 DEF RemoveEdge, EdgeOp
<1>3. k \in 1..Len(graph.in[b])
  BY <1>1, Now, FirstSlotIn DEF RemoveEdge
<1>4. KeepsDefaults(graph, h)
  BY <1>1, <1>3, Now, RemoveInEdgeDefaults
<1>5. Paired(h, {}, Covers) /\ Paired(h, {}, Agree)
  BY SMTT(30), <1>1, <1>2, <1>3, Now, RemoveInEdgePaired
<1> QED BY <1>2, <1>4, <1>5, Now, KeepingOK

\* The slot an out-slot k of b faces, in the present graph
LEMMA FacedSlot ==
    ASSUME IndInv, NEW b \in Block, NEW k \in DOMAIN outEdges[b]
    PROVE  /\ k \in 1..Len(graph.out[b]) /\ k \in Nat /\ outEdges[b][k] = graph.out[b][k]
           /\ outEdges[b][k].point \in Block /\ outEdges[b][k].rev \in Nat
           /\ outEdges[b][k].rev \in 1..Len(graph.in[outEdges[b][k].point])
           /\ graph.in[outEdges[b][k].point][outEdges[b][k].rev].point = b
           /\ graph.in[outEdges[b][k].point][outEdges[b][k].rev].rev = k
<1>0. outEdges[b][k].rev \in Nat
  <2>1. k \in 1..Len(graph.out[b]) /\ graph.out[b] = outEdges[b] /\ graph \in Graph
    BY GraphNow DEF Sound
  <2> QED BY <2>1, GraphFacts
<1>1. /\ k \in 1..Len(graph.out[b]) /\ outEdges[b][k] = graph.out[b][k] /\ outEdges[b][k].point \in Block
      /\ Len(graph.out[b]) \in Nat
  BY GraphNow
<1>2. OutSlotOK(graph, {}, b, k)
  BY <1>1, GraphNow DEF Sound, MirroredBut
<1> QED BY <1>0, <1>1, <1>2 DEF OutSlotOK

LEMMA MoveOutEdgeOK ==
    ASSUME LabelInv, NEW b \in Block, NEW k \in DOMAIN outEdges[b], NEW new \in Block, MoveOutEdge(b, k, new)
    PROVE  HalvesOK'
<1>1. PICK t \in Block, j \in Nat : /\ t = outEdges[b][k].point /\ j = outEdges[b][k].rev
                            /\ j \in 1..Len(graph.in[t]) /\ graph.in[t][j].point = b
  BY Now, FacedSlot
<1>2. PICK h : h = ReplaceInEdge(graph, t, j, new)
  OBVIOUS
<1>3. Becomes(h) /\ task' = task /\ task = Idle /\ flags' = flags
  BY <1>1, <1>2 DEF MoveOutEdge, EdgeOp
<1>4. NoDefault(graph.out[b])
  BY Now DEF DefaultsOK, MoveOutEdge
<1>5. DefaultMoves(graph, h, b, new)
  BY SMTT(30), <1>1, <1>2, Now, ReplaceInEdgeDefaults
<1>6. Paired(h, {}, Agree)
  BY <1>1, <1>2, <1>3, Now, Reflexive, ReplaceInEdgeKeeps
<1>7. Paired(h, {}, Covers) /\ KeepsDefaults(graph, h)
  BY <1>4, <1>5 DEF DefaultMoves
<1> QED BY <1>3, <1>6, <1>7, Now, KeepingOK

LEMMA RetargetOutEdgeOK ==
    ASSUME LabelInv, NEW b \in Block, NEW k \in DOMAIN outEdges[b], NEW new \in Block, RetargetOutEdge(b, k, new)
    PROVE  HalvesOK'
<1>1. PICK h : h = ReplaceOutEdge(graph, b, k, new)
  BY SMTT(30)
<1>2. k \in 1..Len(graph.out[b])
  BY Now, FacedSlot
<1>3. Becomes(h) /\ task' = task /\ task = Idle /\ flags' = flags
  BY <1>1 DEF RetargetOutEdge, EdgeOp
<1>5. Paired(h, {}, Covers) /\ KeepsDefaults(graph, h)
  BY <1>1, <1>2, Now, ReplaceOutEdgeDefaults
<1>6. Paired(h, {}, Agree)
  BY <1>1, <1>2, <1>3, Now, Reflexive, ReplaceOutEdgeKeeps
<1> QED BY <1>3, <1>5, <1>6, Now, KeepingOK

LEMMA SwapEdgesOK ==
    ASSUME LabelInv, NEW b \in Block, SwapEdges(b)
    PROVE  HalvesOK'
<1>1. PICK h : h = SwapOut(graph, b)
  OBVIOUS
<1>2. Becomes(h) /\ task' = task /\ task = Idle /\ Len(graph.out[b]) = 2
  BY <1>1, Now, GraphNow DEF SwapEdges, EdgeOp
<1>3. \A c \in Block : "switch_out" \in flags[c] => "switch_out" \in flags'[c]
  BY Now, TaskNow DEF SwapEdges
<1>4. Paired(h, {}, Covers) /\ KeepsDefaults(graph, h)
  BY <1>1, <1>2, Now, SwapOutDefaults
<1>5. Paired(h, {}, Agree)
  BY <1>1, <1>2, Now, SwapOutKeeps
<1> QED BY <1>2, <1>3, <1>4, <1>5, Now, KeepingOK

\* The operations that begin a loop without touching an edge.
LEMMA BeginOK ==
    ASSUME LabelInv, NEW b \in Block, RemoveDoNothingBlock(b) \/ RemoveBlock(b)
    PROVE  HalvesOK'
<1>1. UNCHANGED <<inEdges, outEdges>> /\ flags' = flags /\ task = Idle
  BY DEF RemoveDoNothingBlock, RemoveBlock
<1>2. task'.op # "move"
  BY DEF RemoveDoNothingBlock, RemoveBlock, Start
<1> QED BY <1>1, <1>2, Now, SameEdgesOK

LEMMA BypassOutOK ==
    ASSUME LabelInv, BypassOut
    PROVE  HalvesOK'
<1>1. PICK b \in Block, n \in Nat : b = task.bl /\ n = Len(graph.out[b])
  BY Now, TaskNow, GraphNow DEF BypassOut
<1>2. task \in Task /\ flags' = flags
  BY Now, TaskNow DEF BypassOut
<1>3. CASE n > 0
  <2>1. PICK h, t : h = RemoveOutEdge(graph, b, n) /\ t = outEdges[b][n].point
    OBVIOUS
  <2>2. Becomes(h) /\ task' = [task EXCEPT !.op = "bypassIn", !.to = t]
    BY <1>1, <1>3, <2>1, Now, GraphNow DEF BypassOut
  <2>3. n \in 1..Len(graph.out[b])
    BY <1>1, <1>3
  <2>4. KeepsDefaults(graph, h) /\ Paired(h, {}, Covers)
    BY <2>1, <2>3, Now, RemoveOutEdgeDefaults, RemoveOutEdgePaired
  <2>5. task'.op = "bypassIn" /\ task' # Idle
    BY <1>2, <2>2 DEF Task, Idle
  <2> QED BY <1>2, <2>2, <2>4, <2>5, KeepingOK
<1>4. CASE ~(n > 0)
  <2>1. UNCHANGED <<inEdges, outEdges>> /\ task' = [task EXCEPT !.op = "detach"]
    BY <1>1, <1>4, Now, GraphNow DEF BypassOut, Goto
  <2>2. task'.op = "detach" /\ task' # Idle
    BY <1>2, <2>1 DEF Task, Idle
  <2> QED BY <1>2, <2>1, <2>2, SameEdgesOK
<1> QED BY <1>3, <1>4

LEMMA BypassInOK ==
    ASSUME LabelInv, BypassIn
    PROVE  HalvesOK'
<1>1. PICK b \in Block : b = task.bl
  BY Now, TaskNow DEF BypassIn
<1>2. task \in Task /\ flags' = flags /\ task.to \in Block /\ task # Idle
  BY Now, TaskNow DEF BypassIn, Idle
<1>3. CASE inEdges[b] # <<>>
  <2>1. PICK p \in Block, r \in Nat : p = inEdges[b][1].point /\ r = inEdges[b][1].rev /\ r \in 1..Len(graph.out[p])
    <3>1. 1 \in 1..Len(inEdges[b])
      BY <1>3, Now, GraphNow
    <3> QED BY SMTT(30), <3>1, Now, GraphNow
  <2>2. PICK h : h = ReplaceOutEdge(graph, p, r, task.to)
    OBVIOUS
  <2>3. Becomes(h) /\ task' = task
    BY <1>1, <1>3, <2>1, <2>2 DEF BypassIn
  <2>4. KeepsDefaults(graph, h) /\ Paired(h, {}, Covers)
    BY <1>2, <2>1, <2>2, Now, ReplaceOutEdgeDefaults
  <2>5. task'.op # "move"
    BY <2>3 DEF BypassIn
  <2> QED BY <1>2, <2>3, <2>4, <2>5, KeepingOK
<1>4. CASE inEdges[b] = <<>>
  <2>1. UNCHANGED <<inEdges, outEdges>> /\ task' = [task EXCEPT !.op = "bypassOut"]
    BY <1>1, <1>4 DEF BypassIn, Goto
  <2>2. task'.op = "bypassOut" /\ task' # Idle
    BY <1>2, <2>1 DEF Task, Idle
  <2> QED BY <1>2, <2>1, <2>2, SameEdgesOK
<1> QED BY <1>3, <1>4

LEMMA DetachOK ==
    ASSUME LabelInv, Detach
    PROVE  HalvesOK'
<1>1. PICK b \in Block : b = task.bl
  BY Now, TaskNow DEF Detach
<1>2. task \in Task /\ flags' = flags /\ task # Idle /\ task.op = "detach"
  BY Now, TaskNow DEF Detach, Idle
<1>3. CASE outEdges[b] # <<>>
  <2>1. PICK n, h : n = Len(outEdges[b]) /\ h = RemoveOutEdge(graph, b, n)
    OBVIOUS
  <2>2. n \in 1..Len(graph.out[b])
    BY <1>3, <2>1, Now, GraphNow
  <2>3. Becomes(h) /\ task' = task
    BY <1>1, <1>3, <2>1 DEF Detach
  <2>4. KeepsDefaults(graph, h) /\ Paired(h, {}, Covers)
    BY <2>1, <2>2, Now, RemoveOutEdgeDefaults, RemoveOutEdgePaired
  <2> QED BY <1>2, <2>3, <2>4, KeepingOK
<1>4. CASE outEdges[b] = <<>> /\ inEdges[b] # <<>>
  <2>1. PICK n, h : n = Len(inEdges[b]) /\ h = RemoveInEdge(graph, b, n)
    OBVIOUS
  <2>2. n \in 1..Len(graph.in[b])
    BY <1>4, <2>1, Now, GraphNow
  <2>3. Becomes(h) /\ task' = task
    BY <1>1, <1>4, <2>1 DEF Detach
  <2>4. KeepsDefaults(graph, h) /\ Paired(h, {}, Covers)
    BY <2>1, <2>2, Now, RemoveInEdgeDefaults, RemoveInEdgePaired
  <2> QED BY <1>2, <2>3, <2>4, KeepingOK
<1>5. CASE outEdges[b] = <<>> /\ inEdges[b] = <<>>
  <2>1. UNCHANGED <<inEdges, outEdges>> /\ task' = [task EXCEPT !.op = "reset"]
    BY <1>1, <1>5 DEF Detach, Goto
  <2>2. task'.op = "reset" /\ task' # Idle
    BY <1>2, <2>1 DEF Task, Idle
  <2> QED BY <1>2, <2>1, <2>2, SameEdgesOK
<1> QED BY <1>3, <1>4, <1>5

\* A block with two ways in and out is wired through and about to be dropped.
LEMMA SplitOK ==
    ASSUME LabelInv, NEW b \in Block, NEW swap \in BOOLEAN, RemoveFromFlowSplit(b, swap)
    PROVE  HalvesOK'
<1>1. PICK k, o : k = (IF swap THEN 1 ELSE 2) /\ o = 2
  OBVIOUS
<1>2. PICK h, n : h = ReplaceEdgesThru(graph, b, k, o) /\ n = 1
  OBVIOUS
<1>3. PICK z : z = ReplaceEdgesThru(h, b, n, n)
  OBVIOUS
<1>4. /\ Becomes(z) /\ flags' = flags /\ Len(graph.in[b]) = 2 /\ Len(graph.out[b]) = 2
      /\ task'.op = "detach" /\ task' # Idle
  <2>1. Start("removeFromFlowSplit", "detach", b, b)
    BY DEF RemoveFromFlowSplit
  <2>2. task' \in Task /\ task'.op = "detach"
    BY <2>1, Now, StartStep
  <2>3. Becomes(z)
    BY <1>1, <1>2, <1>3 DEF RemoveFromFlowSplit
  <2> QED BY <2>2, <2>3, Now, GraphNow DEF RemoveFromFlowSplit, Task, Idle
<1>5. NoDefault(graph.out[b])
  BY Now DEF DefaultsOK, RemoveFromFlowSplit
<1>6. k \in 1..Len(graph.in[b]) /\ o \in 1..Len(graph.out[b])
  BY <1>1, <1>4
<1>7. Sound(h) /\ Len(h.in[b]) = 1 /\ Len(h.out[b]) = 1
  <2> DEFINE u == ReplaceEdgesThru(graph, b, k, o)
  <2>1. /\ Sound(u)
        /\ Len(u.in[b]) = Len(graph.in[b]) - 1 /\ Len(u.out[b]) = Len(graph.out[b]) - 1
    BY <1>6, Now, ReplaceEdgesThruOK
  <2>2. u = h
    BY <1>2
  <2> HIDE DEF u
  <2>3. 2 - 1 = 1
    OBVIOUS
  <2> QED BY ONLY <1>4, <2>1, <2>2, <2>3
<1>8. Paired(h, {}, Covers) /\ KeepsDefaults(graph, h)
  BY <1>2, <1>5, <1>6, Now, ReplaceEdgesThruDefaults
<1>9. NoDefault(h.out[b]) /\ n \in 1..Len(h.in[b]) /\ n \in 1..Len(h.out[b])
  BY <1>2, <1>5, <1>7, <1>8 DEF KeepsDefaults
<1>10. Paired(z, {}, Covers) /\ KeepsDefaults(h, z)
  BY <1>3, <1>7, <1>8, <1>9, ReplaceEdgesThruDefaults
<1>11. KeepsDefaults(graph, z)
  BY <1>8, <1>10 DEF KeepsDefaults
<1> QED BY <1>4, <1>10, <1>11, KeepingOK

-----------------------------------------------------------------------------
(***************************************************************************)
(* SetOutEdgeFlag and ClearOutEdgeFlag write both halves.                    *)
(***************************************************************************)

\* Dropping and adding the same labels on both sides stays in R.
Closed(R) == \A x, y, D : \A A \in SUBSET Label :
    <<x, y>> \in R => <<(x \ D) \cup A, (y \ D) \cup A>> \in R

LEMMA Closing == Closed(Agree) /\ Closed(Covers)
<1>1. ASSUME NEW x, NEW y, NEW D, NEW A \in SUBSET Label, <<x, y>> \in Agree
      PROVE  <<(x \ D) \cup A, (y \ D) \cup A>> \in Agree
  <2>1. x \in SUBSET Label /\ y \in SUBSET Label /\ x \cap SpanLabel = y \cap SpanLabel
    BY <1>1 DEF Agree
  <2>2. ((x \ D) \cup A) \cap SpanLabel = ((y \ D) \cup A) \cap SpanLabel
    BY <2>1
  <2>3. (x \ D) \cup A \in SUBSET Label /\ (y \ D) \cup A \in SUBSET Label
    BY <2>1
  <2> QED BY <2>2, <2>3 DEF Agree
<1>2. ASSUME NEW x, NEW y, NEW D, NEW A \in SUBSET Label, <<x, y>> \in Covers
      PROVE  <<(x \ D) \cup A, (y \ D) \cup A>> \in Covers
  <2>1. x \in SUBSET Label /\ y \in SUBSET Label /\ (DefaultSwitch \in x => DefaultSwitch \in y)
    BY <1>2 DEF Covers
  <2>2. DefaultSwitch \in (x \ D) \cup A => DefaultSwitch \in (y \ D) \cup A
    BY <2>1
  <2>3. (x \ D) \cup A \in SUBSET Label /\ (y \ D) \cup A \in SUBSET Label
    BY SMTT(30), <2>1
  <2> QED BY <2>2, <2>3 DEF Covers
<1> QED BY <1>1, <1>2 DEF Closed

LEMMA RelabelPaired ==
    ASSUME NEW g, Sound(g), NEW drop, NEW add, OnSlots(drop, g), OnSlots(add, g),
           \A p \in DOMAIN add : add[p] \in SUBSET Label,
           NEW R, Closed(R), Paired(g, {}, R), NEW r, r = Relabel(g, drop, add)
    PROVE  Paired(r, {}, R)
<1> SUFFICES ASSUME NEW c \in Block, NEW i \in 1..Len(r.in[c])
             PROVE  <<r.in[c][i].label, r.out[r.in[c][i].point][r.in[c][i].rev].label>> \in R
  BY Zenon DEF Paired
<1>1. PICK p \in Block, q \in Nat : Alike(g, r, drop, add, c, i, p, q)
  BY RelabelHalves
<1>2a. PICK A \in SUBSET Label : A = Labels(add, {<<p, q>>})
  BY DEF Labels
<1>2. PICK D : D = Labels(drop, {<<p, q>>}) /\ A = Labels(add, {<<p, q>>})
  BY <1>2a
<1>3. <<g.in[c][i].label, g.out[p][q].label>> \in R
  BY <1>1 DEF Alike, Paired
<1>4. <<(g.in[c][i].label \ D) \cup A, (g.out[p][q].label \ D) \cup A>> \in R
  BY <1>3 DEF Closed
<1>5. /\ r.in[c][i].label = (g.in[c][i].label \ D) \cup A
      /\ r.out[r.in[c][i].point][r.in[c][i].rev].label = (g.out[p][q].label \ D) \cup A
  BY <1>1, <1>2 DEF Alike, NewLabel
<1> QED BY Zenon, <1>4, <1>5

\* A list whose slots lose labels but get no default edge.
LEMMA FewerDefaults ==
    ASSUME NEW u, NEW t, Len(u) = Len(t),
           \A k \in 1..Len(t) : DefaultSwitch \in u[k].label => DefaultSwitch \in t[k].label
    PROVE  (AtMostOne(t) => AtMostOne(u)) /\ (NoDefault(t) => NoDefault(u))
  BY DEF AtMostOne, NoDefault

LEMMA SetDefaultSwitchOK ==
    ASSUME LabelInv, NEW b \in Block, NEW k \in DOMAIN outEdges[b], SetDefaultSwitch(b, k)
    PROVE  HalvesOK'
<1>1. PICK drop, add, h : /\ drop = [p \in DefaultOuts(b) |-> {DefaultSwitch}]
                          /\ add = [p \in {<<b, k>>} |-> {DefaultSwitch}]
                          /\ h = Relabel(graph, drop, add)
  OBVIOUS
<1>2. Becomes(h) /\ task' = task /\ task = Idle /\ flags' = flags /\ "switch_out" \in flags[b]
  BY <1>1 DEF SetDefaultSwitch, EdgeOp
<1>3. /\ DOMAIN drop = DefaultOuts(b) /\ \A p \in DefaultOuts(b) : drop[p] = {DefaultSwitch}
      /\ DOMAIN add = {<<b, k>>} /\ add[<<b, k>>] = {DefaultSwitch}
  BY <1>1
<1>4. \A p \in DOMAIN add : add[p] \in SUBSET Label
  BY <1>3 DEF Label
<1>5. k \in 1..Len(graph.out[b]) /\ k \in Nat
  BY Now, FacedSlot
<1>6. \A p : p \in DefaultOuts(b) <=> \E j \in 1..Len(graph.out[b]) :
         p = <<b, j>> /\ DefaultSwitch \in graph.out[b][j].label
  <2>1. graph.out = outEdges /\ DOMAIN outEdges[b] = 1..Len(graph.out[b])
    BY Now, GraphNow
  <2> QED BY <2>1 DEF DefaultOuts
<1>7. OnSlots(drop, graph)
  <2>1. Len(graph.out[b]) \in Nat
    BY Now, GraphNow
  <2>2. \A j \in 1..Len(graph.out[b]) : j \in Nat
    BY <2>1
  <2> QED BY <1>3, <1>6, <2>2 DEF OnSlots
<1>8. OnSlots(add, graph)
  BY <1>3, <1>5 DEF OnSlots
<1>9. Paired(h, {}, Covers) /\ Paired(h, {}, Agree)
  BY <1>1, <1>2, <1>4, <1>7, <1>8, Now, Closing, RelabelPaired
<1>10. SameSlots(graph, h) /\ \A c \in Block : Relabelled(graph, h, drop, add, c)
  BY <1>1, <1>4, Now, RelabelOK, RelabelSlot DEF Sound
<1>11. ASSUME NEW c \in Block, c # b
       PROVE  \A j \in 1..Len(graph.out[c]) : h.out[c][j].label = graph.out[c][j].label
  <2> SUFFICES ASSUME NEW j \in 1..Len(graph.out[c]) PROVE h.out[c][j].label = graph.out[c][j].label
    OBVIOUS
  <2>1. <<c, j>> \notin DOMAIN drop /\ <<c, j>> \notin DOMAIN add
    BY <1>3, <1>6, <1>11
  <2>2. Labels(drop, {<<c, j>>}) = {} /\ Labels(add, {<<c, j>>}) = {}
    BY <2>1 DEF Labels
  <2>3. h.out[c][j].label = NewLabel(graph.out[c][j], drop, add, {<<c, j>>})
    BY <1>10 DEF Relabelled
  <2> QED BY <2>2, <2>3 DEF NewLabel
<1>12. ASSUME NEW j \in 1..Len(graph.out[b]), j # k
       PROVE  DefaultSwitch \notin h.out[b][j].label
  <2>1. h.out[b][j].label = NewLabel(graph.out[b][j], drop, add, {<<b, j>>})
    BY <1>10 DEF Relabelled
  <2>2. <<b, j>> \notin DOMAIN add
    BY <1>3, <1>12
  <2>3. Labels(add, {<<b, j>>}) = {}
    BY <2>2 DEF Labels
  <2>4. CASE DefaultSwitch \in graph.out[b][j].label
    <3>1. <<b, j>> \in DOMAIN drop /\ drop[<<b, j>>] = {DefaultSwitch}
      BY <1>3, <1>6, <2>4
    <3>2. DefaultSwitch \in Labels(drop, {<<b, j>>})
      BY <3>1 DEF Labels
    <3> QED BY <2>1, <2>3, <3>2 DEF NewLabel
  <2>5. CASE DefaultSwitch \notin graph.out[b][j].label
    BY <2>1, <2>3, <2>5 DEF NewLabel
  <2> QED BY <2>4, <2>5
<1>13. \A c \in Block : Len(h.out[c]) = Len(graph.out[c])
  BY <1>10 DEF SameSlots
<1>14. DefaultsOK(h, flags')
  <2> SUFFICES ASSUME NEW c \in Block
               PROVE  AtMostOne(h.out[c]) /\ ("switch_out" \in flags'[c] \/ NoDefault(h.out[c]))
    BY DEF DefaultsOK
  <2>1. CASE c = b
    <3>1. AtMostOne(h.out[b])
      BY <1>12, <1>13 DEF AtMostOne
    <3> QED BY <1>2, <2>1, <3>1
  <2>2. CASE c # b
    <3>1. (AtMostOne(graph.out[c]) => AtMostOne(h.out[c])) /\ (NoDefault(graph.out[c]) => NoDefault(h.out[c]))
      BY <1>11, <1>13, <2>2, SameDefaults
    <3> QED BY <1>2, <3>1, Now DEF DefaultsOK
  <2> QED BY <2>1, <2>2
<1> QED BY <1>2, <1>9, <1>14, Now, StillOK

\* Every out-edge loses its spanning-tree labels on both halves and gets new ones.
LEMMA StructureResetOK ==
    ASSUME LabelInv, NEW lab \in [OutSlots -> SUBSET SpanLabel], StructureReset(lab)
    PROVE  HalvesOK'
<1>1. PICK drop, h : drop = [p \in OutSlots |-> SpanLabel] /\ h = Relabel(graph, drop, lab)
  OBVIOUS
<1>2. Becomes(h) /\ task' = Idle /\ task'.op = "idle" /\ flags' = flags
  BY <1>1 DEF StructureReset, Idle
<1>3. /\ DOMAIN drop = OutSlots /\ \A p \in OutSlots : drop[p] = SpanLabel
      /\ DOMAIN lab = OutSlots /\ \A p \in OutSlots : lab[p] \in SUBSET SpanLabel
  BY <1>1
<1>4. \A p \in DOMAIN lab : lab[p] \in SUBSET Label
  BY <1>3 DEF Label
<1>5. graph.out = outEdges /\ \A c \in Block : DOMAIN outEdges[c] = 1..Len(graph.out[c]) /\ Len(graph.out[c]) \in Nat
  BY Now, GraphNow
<1>6. \A c \in Block : \A j \in 1..Len(graph.out[c]) : <<c, j>> \in OutSlots
  BY <1>5 DEF OutSlots
<1>7. OnSlots(drop, graph) /\ OnSlots(lab, graph)
  <2>1. \A p \in OutSlots : \E c \in Block, j \in Nat : p = <<c, j>> /\ j \in 1..Len(graph.out[c])
    BY <1>5 DEF OutSlots
  <2> QED BY <1>3, <2>1 DEF OnSlots
<1>8. Paired(h, {}, Covers)
  BY <1>1, <1>4, <1>7, Now, Closing, RelabelPaired
<1>9. SameSlots(graph, h) /\ \A c \in Block : Relabelled(graph, h, drop, lab, c)
  BY <1>1, <1>4, Now, RelabelOK, RelabelSlot DEF Sound
<1>10. ASSUME NEW c \in Block, NEW j \in 1..Len(graph.out[c])
       PROVE  /\ Labels(drop, {<<c, j>>}) = SpanLabel
              /\ Labels(lab, {<<c, j>>}) \in SUBSET SpanLabel
  <2>1. <<c, j>> \in OutSlots
    BY <1>6
  <2>2. {<<c, j>>} \cap OutSlots = {<<c, j>>}
    BY SMTT(30), <2>1
  <2> QED BY <1>3, <2>1, <2>2 DEF Labels
<1>11. Paired(h, {}, Agree)
  <2> SUFFICES ASSUME NEW c \in Block, NEW i \in 1..Len(h.in[c])
               PROVE  <<h.in[c][i].label, h.out[h.in[c][i].point][h.in[c][i].rev].label>> \in Agree
    BY DEF Paired
  <2>1. PICK p \in Block, q \in Nat : Alike(graph, h, drop, lab, c, i, p, q)
    BY <1>1, <1>4, <1>7, Now, RelabelHalves
  <2>2. PICK A, x, y : /\ A = Labels(lab, {<<p, q>>}) /\ x = graph.in[c][i].label /\ y = graph.out[p][q].label
    OBVIOUS
  <2>3. A \in SUBSET SpanLabel /\ Labels(drop, {<<p, q>>}) = SpanLabel
    BY <1>10, <2>1, <2>2 DEF Alike
  <2>4. x \in SUBSET Label /\ y \in SUBSET Label
    <3>1. graph.in[c][i] \in Edge /\ graph.out[p][q] \in Edge
      BY <2>1, Now, GraphFacts DEF Alike, Sound
    <3> QED BY <2>2, <3>1 DEF Edge
  <2>5. /\ h.in[c][i].label = (x \ SpanLabel) \cup A
        /\ h.out[h.in[c][i].point][h.in[c][i].rev].label = (y \ SpanLabel) \cup A
    BY <2>1, <2>2, <2>3 DEF Alike, NewLabel
  <2>6. /\ ((x \ SpanLabel) \cup A) \cap SpanLabel = ((y \ SpanLabel) \cup A) \cap SpanLabel
        /\ (x \ SpanLabel) \cup A \in SUBSET Label /\ (y \ SpanLabel) \cup A \in SUBSET Label
    BY <2>3, <2>4 DEF Label
  <2> QED BY SMTT(30), <2>5, <2>6 DEF Agree
<1>12. KeepsDefaults(graph, h)
  <2> SUFFICES ASSUME NEW c \in Block
               PROVE  /\ AtMostOne(graph.out[c]) => AtMostOne(h.out[c])
                      /\ NoDefault(graph.out[c]) => NoDefault(h.out[c])
    BY DEF KeepsDefaults
  <2>1. Len(h.out[c]) = Len(graph.out[c])
    BY <1>9 DEF SameSlots
  <2>2. ASSUME NEW j \in 1..Len(graph.out[c])
        PROVE  DefaultSwitch \in h.out[c][j].label => DefaultSwitch \in graph.out[c][j].label
    <3>1. h.out[c][j].label = NewLabel(graph.out[c][j], drop, lab, {<<c, j>>})
      BY <1>9 DEF Relabelled
    <3> QED BY <1>10, <3>1, FlowBlockAssumption DEF NewLabel
  <2> QED BY <2>1, <2>2, FewerDefaults
<1> QED BY <1>2, <1>8, <1>11, <1>12, KeepingOK

-----------------------------------------------------------------------------
(***************************************************************************)
(* spliceOutput: between its steps the default edge is in one of the two     *)
(* blocks only.                                                             *)
(***************************************************************************)
LEMMA MovingOK ==
    ASSUME NEW h, Becomes(h), Paired(h, {}, Covers), DefaultsOK(h, flags'), task' # Idle,
           task'.to # task'.bl =>
               /\ NoDefault(h.out[task'.bl]) \/ NoDefault(h.out[task'.to])
               /\ "switch_out" \in flags'[task'.bl] \/ NoDefault(h.out[task'.to])
    PROVE  HalvesOK'
<1>1. graph'.in = h.in /\ graph'.out = h.out
  BY SMTT(30) DEF graph, Becomes
<1>2. Paired(graph', {}, Covers)
  BY <1>1 DEF Paired
<1>3. DefaultsOK(graph', flags')
  BY <1>1 DEF DefaultsOK
<1>4. MoveOK'
  BY <1>1 DEF MoveOK
<1> QED BY <1>2, <1>3, <1>4 DEF HalvesOK

LEMMA SpliceBeginOK ==
    ASSUME LabelInv, NEW b \in Block, SpliceBlockBasic(b)
    PROVE  HalvesOK'
<1>1. PICK n \in 1..Len(graph.out[b]) : n = 1 /\ Len(graph.out[b]) = 1
  BY Now, GraphNow DEF SpliceBlockBasic
<1>2a. PICK o \in Block : o = outEdges[b][1].point
  BY <1>1, Now, GraphNow
<1>2. PICK h : h = RemoveOutEdge(graph, b, n)
  OBVIOUS
<1>3. Becomes(h) /\ Start("spliceBlockBasic", "move", b, o) /\ "switch_out" \notin flags[b]
  BY <1>1, <1>2, <1>2a DEF SpliceBlockBasic
<1>4. /\ \A c \in Block \ {b} : flags'[c] = flags[c]
      /\ "switch_out" \in flags[o] => "switch_out" \in flags'[b]
  <2>1. flags' = [flags EXCEPT ![b] =
           (@ \cap {"unstructured_targ", "entry_point"}) \cup (flags[o] \cap {"switch_out"})]
    BY <1>2a DEF SpliceBlockBasic
  <2>2. flags \in [Block -> SUBSET BlockFlag]
    BY Now, TaskNow
  <2> QED BY <2>1, <2>2
<1>5. task' # Idle /\ task'.bl = b /\ task'.to = o
  <2>1. task' \in Task /\ task'.op = "move" /\ task'.bl = b /\ task'.to = o
    BY <1>3, Now, StartStep
  <2> QED BY <2>1 DEF Task, Idle
<1>6. KeepsDefaults(graph, h) /\ Paired(h, {}, Covers)
  BY <1>2, Now, RemoveOutEdgeDefaults, RemoveOutEdgePaired
<1>7. NoDefault(h.out[b])
  <2>1. Cut(h.out[b], graph.out[b], n)
    BY <1>2, Now, RemoveOutEdgeKeeps
  <2>2. Len(h.out[b]) = 0
    BY <1>1, <2>1 DEF Cut
  <2> QED BY <2>2 DEF NoDefault
<1>8. DefaultsOK(graph, flags)
  BY Now
<1>9. DefaultsOK(h, flags')
  <2> SUFFICES ASSUME NEW c \in Block
               PROVE  AtMostOne(h.out[c]) /\ ("switch_out" \in flags'[c] \/ NoDefault(h.out[c]))
    BY DEF DefaultsOK
  <2>1. AtMostOne(h.out[c])
    BY <1>6, <1>8 DEF KeepsDefaults, DefaultsOK
  <2>2. CASE c = b
    BY <1>7, <2>1, <2>2
  <2>3. CASE c # b
    BY <1>4, <1>6, <1>8, <2>1, <2>3 DEF KeepsDefaults, DefaultsOK
  <2> QED BY <2>2, <2>3
<1>10. "switch_out" \in flags'[b] \/ NoDefault(h.out[o])
  BY <1>4, <1>6, <1>8 DEF KeepsDefaults, DefaultsOK
<1> QED BY <1>3, <1>5, <1>6, <1>7, <1>9, <1>10, MovingOK

LEMMA SpliceMoveOK ==
    ASSUME LabelInv, SpliceMove
    PROVE  HalvesOK'
<1>1. PICK b \in Block, o \in Block : b = task.bl /\ o = task.to
  BY Now, TaskNow DEF SpliceMove
<1>2. task \in Task /\ task # Idle /\ flags' = flags /\ task.op = "move"
  BY Now, TaskNow DEF SpliceMove, Idle
<1>3. CASE outEdges[o] # <<>> /\ o # b
  <2>1. PICK n \in DOMAIN outEdges[o] : n = 1
    BY SMTT(30), <1>3, Now, GraphNow
  <2>2. PICK t \in Block, j \in Nat : /\ t = outEdges[o][1].point /\ j = outEdges[o][1].rev
                              /\ j \in 1..Len(graph.in[t]) /\ graph.in[t][j].point = o
    BY SMTT(30), <2>1, Now, FacedSlot
  <2>3. PICK h : h = ReplaceInEdge(graph, t, j, b)
    OBVIOUS
  <2>4. Becomes(h) /\ task' = task
    BY <1>1, <1>3, <2>2, <2>3 DEF SpliceMove
  <2>5. /\ DefaultsOK(graph, flags)
        /\ NoDefault(graph.out[b]) \/ NoDefault(graph.out[o])
        /\ "switch_out" \in flags[b] \/ NoDefault(graph.out[o])
    BY <1>1, <1>2, <1>3, Now DEF LabelInv, HalvesOK, MoveOK
  <2>a. DefaultMoves(graph, h, o, b)
    BY <2>2, <2>3, Now, ReplaceInEdgeDefaults
  <2>6. Paired(h, {}, Covers)
    BY <2>a DEF DefaultMoves
  <2>7. /\ \A c \in Block : AtMostOne(h.out[c])
        /\ \A c \in Block \ {b} : NoDefault(graph.out[c]) => NoDefault(h.out[c])
        /\ NoDefault(graph.out[o]) /\ NoDefault(graph.out[b]) => NoDefault(h.out[b])
        /\ NoDefault(h.out[o]) \/ NoDefault(h.out[b])
    <3>1. \A c \in Block : AtMostOne(graph.out[c])
      BY <2>5 DEF DefaultsOK
    <3> QED BY <1>3, <2>5, <2>a, <3>1 DEF DefaultMoves
  <2>8. DefaultsOK(h, flags')
    <3> SUFFICES ASSUME NEW c \in Block
                 PROVE  "switch_out" \in flags'[c] \/ NoDefault(h.out[c])
      BY <2>7 DEF DefaultsOK
    <3>1. "switch_out" \in flags[c] \/ NoDefault(graph.out[c])
      BY <2>5 DEF DefaultsOK
    <3> QED BY <1>2, <2>5, <2>7, <3>1
  <2>9. "switch_out" \in flags'[b] \/ NoDefault(h.out[o])
    BY <1>2, <1>3, <2>5, <2>7
  <2> QED BY <1>1, <1>2, <2>4, <2>6, <2>7, <2>8, <2>9, MovingOK
<1>4. CASE ~(outEdges[o] # <<>> /\ o # b)
  <2>1. UNCHANGED <<inEdges, outEdges>> /\ task' = [task EXCEPT !.op = "detach", !.bl = o, !.to = b]
    BY <1>1, <1>4 DEF SpliceMove
  <2>2. task'.op = "detach" /\ task' # Idle
    BY <1>2, <2>1 DEF Task, Idle
  <2> QED BY <1>2, <2>1, <2>2, SameEdgesOK
<1> QED BY <1>3, <1>4

-----------------------------------------------------------------------------
LEMMA InitLabels == Init => LabelInv
<1> SUFFICES ASSUME Init PROVE LabelInv
  OBVIOUS
<1>1. Len(<<>>) = 0 /\ \A c \in Block : graph.in[c] = <<>> /\ graph.out[c] = <<>>
  BY EmptySeq DEF Init, graph
<1>1a. \A c \in Block : 1..Len(graph.in[c]) = {} /\ 1..Len(graph.out[c]) = {}
  BY SMTT(30), <1>1
<1>2. Paired(graph, {}, Covers) /\ Paired(graph, {}, Agree)
  BY <1>1a DEF Paired
<1>3. DefaultsOK(graph, flags)
  BY <1>1a DEF DefaultsOK, AtMostOne, NoDefault
<1>4. MoveOK
  BY DEF Init, MoveOK, Idle
<1> QED BY <1>2, <1>3, <1>4, InitInv DEF LabelInv, HalvesOK

LEMMA NextLabels == LabelInv /\ [Next]_vars => LabelInv'
<1> SUFFICES ASSUME LabelInv, [Next]_vars PROVE HalvesOK'
  BY NextInv DEF LabelInv
<1>1. ASSUME NEW b \in Block, NEW fl \in SUBSET CreateFlags, NewBlock(b, fl) PROVE HalvesOK'
  BY <1>1, NewBlockOK
<1>2. ASSUME NEW b \in Block, SwapEdges(b) PROVE HalvesOK'
  BY <1>2, SwapEdgesOK
<1>3. ASSUME NEW b \in Block, RemoveDoNothingBlock(b) \/ RemoveBlock(b) PROVE HalvesOK'
  BY <1>3, BeginOK
<1>4. ASSUME NEW b \in Block, SpliceBlockBasic(b) PROVE HalvesOK'
  BY <1>4, SpliceBeginOK
<1>5. ASSUME NEW b \in Block, NEW swap \in BOOLEAN, RemoveFromFlowSplit(b, swap) PROVE HalvesOK'
  BY <1>5, SplitOK
<1>6. ASSUME NEW b \in Block, NEW src \in Block, RemoveEdge(src, b) PROVE HalvesOK'
  BY <1>6, RemoveEdgeOK
<1>7. ASSUME NEW b \in Block, NEW src \in Block, ForceFalseEdge(b, src) PROVE HalvesOK'
  BY <1>7, SwapEdgesOK DEF ForceFalseEdge
<1>8. ASSUME NEW b \in Block, NEW src \in Block, AddEdge(src, b) PROVE HalvesOK'
  BY <1>8, AddEdgeOK
<1>9. ASSUME NEW b \in Block, NEW k \in DOMAIN outEdges[b], NEW new \in Block, MoveOutEdge(b, k, new)
      PROVE  HalvesOK'
  BY <1>9, MoveOutEdgeOK
<1>10. ASSUME NEW b \in Block, NEW k \in DOMAIN outEdges[b], NEW new \in Block, RetargetOutEdge(b, k, new)
       PROVE  HalvesOK'
  BY <1>10, RetargetOutEdgeOK
<1>11. ASSUME NEW b \in Block, NEW k \in DOMAIN outEdges[b], SetDefaultSwitch(b, k) PROVE HalvesOK'
  BY <1>11, SetDefaultSwitchOK
<1>12. ASSUME BypassOut \/ BypassIn \/ SpliceMove \/ Detach PROVE HalvesOK'
  BY <1>12, BypassOutOK, BypassInOK, SpliceMoveOK, DetachOK
<1>13. ASSUME NEW lab \in [OutSlots -> SUBSET SpanLabel], StructureReset(lab) PROVE HalvesOK'
  BY SMTT(60), <1>13, StructureResetOK
<1>14. CASE UNCHANGED vars
  <2>1. graph' = graph /\ flags' = flags /\ task' = task
    BY ONLY <1>14 DEF vars, graph
  <2>2. MoveOK => MoveOK'
    BY ONLY <2>1 DEF MoveOK
  <2> QED BY <2>1, <2>2 DEF LabelInv, HalvesOK
<1> QED
  BY <1>1, <1>2, <1>3, <1>4, <1>5, <1>6, <1>7, <1>8, <1>9, <1>10, <1>11, <1>12, <1>13, <1>14 DEF Next

LEMMA LabelInvariance == Spec => []LabelInv
  BY InitLabels, NextLabels, PTL DEF Spec

LEMMA LabelsFollow == LabelInv => LabelsAgree
<1> SUFFICES ASSUME LabelInv, task = Idle PROVE LabelsAgree
  BY SMTT(30) DEF LabelsAgree, SpanAgree, OneDefault
<1>1. graph.in = inEdges /\ graph.out = outEdges /\ Paired(graph, {}, Agree) /\ DefaultsOK(graph, flags)
  BY Now, GraphNow
<1>2. SpanAgree
  <2> SUFFICES ASSUME NEW b \in Block, NEW k \in DOMAIN outEdges[b]
               PROVE  inEdges[outEdges[b][k].point][outEdges[b][k].rev].label \cap SpanLabel
                         = outEdges[b][k].label \cap SpanLabel
    BY SMTT(30) DEF SpanAgree
  <2>1. PICK t \in Block, j \in Nat : /\ t = outEdges[b][k].point /\ j = outEdges[b][k].rev
                              /\ j \in 1..Len(graph.in[t])
                              /\ graph.in[t][j].point = b /\ graph.in[t][j].rev = k
    BY SMTT(30), Now, FacedSlot
  <2>2. <<graph.in[t][j].label, graph.out[graph.in[t][j].point][graph.in[t][j].rev].label>> \in Agree
    BY <1>1, <2>1 DEF Paired
  <2> QED BY <1>1, <2>1, <2>2 DEF Agree
<1>3. OneDefault
  <2> SUFFICES ASSUME NEW b \in Block, NEW D,
                      D = {k \in DOMAIN outEdges[b] : DefaultSwitch \in outEdges[b][k].label}
               PROVE  Cardinality(D) <= 1 /\ (D # {} => "switch_out" \in flags[b])
    BY DEF OneDefault
  <2>1. DOMAIN outEdges[b] = 1..Len(graph.out[b])
    BY <1>1, Now, GraphNow
  <2>2. \A j, k \in D : j = k
    BY <1>1, <2>1 DEF DefaultsOK, AtMostOne
  <2>3. D # {} => "switch_out" \in flags[b]
    BY <1>1, <2>1 DEF DefaultsOK, NoDefault
  <2>4. D = {} \/ \E k : D = {k}
    BY Zenon, <2>2
  <2>5. Cardinality(D) <= 1
    <3>1. D = {} => Cardinality(D) = 0
      BY ONLY FS_EmptySet, Zenon
    <3>2. (\E k : D = {k}) => Cardinality(D) = 1
      BY ONLY FS_Singleton, Zenon
    <3>3. \A n : n = 0 \/ n = 1 => n <= 1
      OBVIOUS
    <3> QED BY ONLY Zenon, <2>4, <3>1, <3>2, <3>3
  <2> QED BY <2>3, <2>5
<1> QED BY <1>2, <1>3 DEF LabelsAgree

\* Whatever sequence of edge operations and block removals has run, the two halves of
\* an edge have the same spanning-tree labels (SetOutEdgeFlag, replaceEdgesThru), and
\* only a switch has a default edge, and one at most (SetDefaultSwitch, spliceOutput).
THEOREM LabelsStayTogether == Spec => []LabelsAgree
  BY LabelInvariance, LabelsFollow, PTL

-----------------------------------------------------------------------------
(***************************************************************************)
(* Removals end.  removeFromFlow cuts the only out-edge of its block before  *)
(* it moves the in-edges to another block, so none of them comes back.       *)
(***************************************************************************)
BypassOK ==
    /\ task.op = "bypassOut" =>
          \/ Len(graph.out[task.bl]) = 0
          \/ Len(graph.out[task.bl]) = 1 /\ graph.out[task.bl][1].point # task.bl
    /\ task.op = "bypassIn" => Len(graph.out[task.bl]) = 0 /\ task.to # task.bl

\* What a step of a loop does to the number of edges of the blocks it works on.
LEMMA BypassOutShrinks ==
    ASSUME LabelInv, BypassOK, BypassOut
    PROVE  BypassOK' /\ (Len(outEdges'[task.bl]) < Len(outEdges[task.bl]) \/ task'.op = "detach")
<1>1. PICK b \in Block, n \in Nat : b = task.bl /\ n = Len(graph.out[b])
  BY Now, TaskNow, GraphNow DEF BypassOut
<1>2. task \in Task /\ task.op = "bypassOut" /\ graph.out = outEdges
  BY Now, TaskNow, GraphNow DEF BypassOut
<1>3. CASE n > 0
  <2>1. n = 1 /\ graph.out[b][1].point # b /\ n \in 1..Len(graph.out[b])
    BY <1>1, <1>2, <1>3 DEF BypassOK
  <2>2. PICK h, t : h = RemoveOutEdge(graph, b, n) /\ t = outEdges[b][n].point
    OBVIOUS
  <2>3. Becomes(h) /\ task' = [task EXCEPT !.op = "bypassIn", !.to = t]
    BY <1>1, <1>3, <2>2, Now, GraphNow DEF BypassOut
  <2>4. Cut(h.out[b], graph.out[b], n)
    BY <2>1, <2>2, Now, RemoveOutEdgeKeeps
  <2>5. Len(h.out[b]) = 0
    <3>1. Len(h.out[b]) = n - 1
      BY <1>1, <2>4 DEF Cut
    <3> QED BY <2>1, <3>1
  <2>6. task'.op = "bypassIn" /\ task'.bl = b /\ task'.to # b
    BY <1>1, <1>2, <2>1, <2>2, <2>3 DEF Task
  <2>7. graph'.out = h.out /\ outEdges' = h.out
    BY <2>3 DEF graph, Becomes
  <2> QED BY <1>1, <1>2, <1>3, <2>5, <2>6, <2>7 DEF BypassOK
<1>4. CASE ~(n > 0)
  <2>1. task' = [task EXCEPT !.op = "detach"]
    BY <1>1, <1>4, Now, GraphNow DEF BypassOut, Goto
  <2>2. task'.op = "detach"
    BY <1>2, <2>1 DEF Task
  <2> QED BY <2>2 DEF BypassOK
<1> QED BY <1>3, <1>4

\* ReplaceOutEdge takes an in-slot from the old target and gives c one at the end.
OneInSlotMoves(g, h, p, r, c) ==
    \E u \in Graph : LET s == g.out[p][r].point IN
        /\ Cut(u.in[s], g.in[s], g.out[p][r].rev) /\ OthersKept(u.in, g.in, s)
        /\ Added(h.in[c], u.in[c], g.out[p][r].label, p) /\ OthersKept(h.in, u.in, c)

LEMMA RetargetMoves ==
    ASSUME NEW g, Sound(g), NEW p \in Block, NEW r \in 1..Len(g.out[p]), NEW c \in Block,
           Paired(g, {}, Covers), NEW h, h = ReplaceOutEdge(g, p, r, c)
    PROVE  /\ Turned(h.out[p], g.out[p], r, c) /\ OthersKept(h.out, g.out, p)
           /\ OneInSlotMoves(g, h, p, r, c)
  BY Reflexive, ReplaceOutEdgeKeeps DEF OneInSlotMoves

LEMMA BypassInShrinks ==
    ASSUME LabelInv, BypassOK, BypassIn
    PROVE  /\ BypassOK'
           /\ \/ /\ Len(inEdges'[task.bl]) < Len(inEdges[task.bl])
                 /\ Len(outEdges'[task.bl]) = Len(outEdges[task.bl])
              \/ task'.op = "bypassOut"
<1>1. PICK b \in Block, c \in Block : b = task.bl /\ c = task.to
  BY Now, TaskNow DEF BypassIn
<1>2. /\ task \in Task /\ task.op = "bypassIn" /\ graph.out = outEdges /\ graph.in = inEdges
      /\ Len(graph.out[b]) = 0 /\ c # b
  BY <1>1, Now, TaskNow, GraphNow DEF BypassIn, BypassOK
<1>3. CASE inEdges[b] # <<>>
  <2>1. PICK i \in 1..Len(graph.in[b]) : i = 1
    BY <1>3, Now, GraphNow
  <2>2. PICK p \in Block, r \in Nat : InMirrorIs(graph, b, i, p, r)
    BY Now, InMirror
  <2>3. /\ p = inEdges[b][1].point /\ r = inEdges[b][1].rev /\ r \in 1..Len(graph.out[p])
        /\ graph.out[p][r].point = b /\ graph.out[p][r].rev = i
    BY <1>2, <2>1, <2>2 DEF InMirrorIs
  <2>4. PICK h : h = ReplaceOutEdge(graph, p, r, c)
    BY SMTT(30)
  <2>5. Becomes(h) /\ task' = task
    BY Zenon, <1>1, <1>3, <2>3, <2>4 DEF BypassIn
  <2>6. /\ Turned(h.out[p], graph.out[p], r, c) /\ OthersKept(h.out, graph.out, p)
        /\ OneInSlotMoves(graph, h, p, r, c)
    BY SMTT(30), <2>3, <2>4, Now, RetargetMoves
  <2>7. PICK u \in Graph : Cut(u.in[b], graph.in[b], i) /\ OthersKept(h.in, u.in, c)
    BY <2>3, <2>6 DEF OneInSlotMoves
  <2>8. Len(h.in[b]) = Len(graph.in[b]) - 1
    BY <1>2, <2>7 DEF Cut, OthersKept, Kept
  <2>9. Len(h.out[b]) = Len(graph.out[b])
    BY <2>6 DEF Turned, OthersKept, Kept
  <2>10. outEdges' = h.out /\ inEdges' = h.in /\ graph'.out = h.out
    BY <2>5 DEF Becomes, graph
  <2>11. Len(graph.in[b]) \in Nat
    BY <1>2, Now, GraphNow
  <2>12. Len(graph.in[b]) - 1 < Len(graph.in[b])
    BY <2>11
  <2>13. BypassOK'
    BY <1>1, <1>2, <2>5, <2>9, <2>10 DEF BypassOK
  <2> QED BY <1>1, <1>2, <2>8, <2>9, <2>10, <2>12, <2>13
<1>4. CASE inEdges[b] = <<>>
  <2>1. UNCHANGED <<inEdges, outEdges>> /\ task' = [task EXCEPT !.op = "bypassOut"]
    BY <1>1, <1>4 DEF BypassIn, Goto
  <2>2. task'.op = "bypassOut" /\ task'.bl = b
    BY <1>1, <1>2, <2>1 DEF Task
  <2>3. graph'.out = graph.out
    BY <2>1 DEF graph
  <2> QED BY <1>2, <2>2, <2>3 DEF BypassOK
<1> QED BY <1>3, <1>4

LEMMA SpliceMoveShrinks ==
    ASSUME LabelInv, SpliceMove
    PROVE  /\ Len(outEdges'[task.to]) < Len(outEdges[task.to]) \/ task'.op = "detach"
           /\ task'.op \in {"move", "detach"}
<1>1. PICK b \in Block, o \in Block : b = task.bl /\ o = task.to
  BY Now, TaskNow DEF SpliceMove
<1>2. task \in Task /\ task.op = "move" /\ graph.out = outEdges /\ graph.in = inEdges
  BY Now, TaskNow, GraphNow DEF SpliceMove
<1>3. CASE outEdges[o] # <<>> /\ o # b
  <2>1. PICK n \in DOMAIN outEdges[o] : n = 1
    BY <1>3, Now, GraphNow
  <2>2. PICK t \in Block, j \in Nat : /\ t = outEdges[o][1].point /\ j = outEdges[o][1].rev
                              /\ j \in 1..Len(graph.in[t]) /\ graph.in[t][j].point = o
    BY <2>1, Now, FacedSlot
  <2>3. PICK h : h = ReplaceInEdge(graph, t, j, b)
    OBVIOUS
  <2>4. Becomes(h) /\ task' = task
    BY <1>1, <1>3, <2>2, <2>3 DEF SpliceMove
  <2>5. \E u \in Graph : LET s == graph.in[t][j].point IN
           /\ Cut(u.out[s], graph.out[s], graph.in[t][j].rev) /\ OthersKept(u.out, graph.out, s)
           /\ Added(h.out[b], u.out[b], graph.in[t][j].label, t) /\ OthersKept(h.out, u.out, b)
    BY Zenon, <2>2, <2>3, Now, Reflexive, ReplaceInEdgeKeeps
  <2>6. PICK u \in Graph : Cut(u.out[o], graph.out[o], graph.in[t][j].rev) /\ OthersKept(h.out, u.out, b)
    BY <2>2, <2>5
  <2>7. Len(h.out[o]) = Len(graph.out[o]) - 1
    BY <1>3, <2>6 DEF Cut, OthersKept, Kept
  <2>8. Len(graph.out[o]) \in Nat
    BY <1>2, Now, GraphNow
  <2>9. Len(graph.out[o]) - 1 < Len(graph.out[o])
    BY <2>8
  <2> QED BY SMTT(30), <1>1, <1>2, <2>4, <2>7, <2>9 DEF Becomes
<1>4. CASE ~(outEdges[o] # <<>> /\ o # b)
  <2>1. task' = [task EXCEPT !.op = "detach", !.bl = o, !.to = b]
    BY <1>1, <1>4 DEF SpliceMove
  <2>2. task'.op = "detach"
    BY <1>2, <2>1 DEF Task
  <2> QED BY <2>2
<1> QED BY <1>3, <1>4

LEMMA DetachShrinks ==
    ASSUME LabelInv, Detach
    PROVE  /\ \/ Len(outEdges'[task.bl]) < Len(outEdges[task.bl])
              \/ Len(inEdges'[task.bl]) < Len(inEdges[task.bl])
              \/ task'.op = "reset"
           /\ task'.op \in {"detach", "reset"}
<1>1. PICK b \in Block : b = task.bl
  BY Now, TaskNow DEF Detach
<1>2. /\ task \in Task /\ task.op = "detach" /\ graph.out = outEdges /\ graph.in = inEdges
      /\ Len(graph.out[b]) \in Nat /\ Len(graph.in[b]) \in Nat
  BY Now, TaskNow, GraphNow DEF Detach
<1>3. CASE outEdges[b] # <<>>
  <2>1. PICK n, h : n = Len(outEdges[b]) /\ h = RemoveOutEdge(graph, b, n)
    OBVIOUS
  <2>2. n \in 1..Len(graph.out[b])
    BY <1>3, <2>1, Now, GraphNow
  <2>3. Becomes(h) /\ task' = task
    BY <1>1, <1>3, <2>1 DEF Detach
  <2>4. Len(h.out[b]) = Len(graph.out[b]) - 1
    BY <2>1, <2>2, Now, RemoveOutEdgeKeeps DEF Cut
  <2>5. Len(graph.out[b]) - 1 < Len(graph.out[b])
    BY <1>2
  <2> QED BY SMTT(30), <1>1, <1>2, <2>3, <2>4, <2>5 DEF Becomes
<1>4. CASE outEdges[b] = <<>> /\ inEdges[b] # <<>>
  <2>1. PICK n, h : n = Len(inEdges[b]) /\ h = RemoveInEdge(graph, b, n)
    OBVIOUS
  <2>2. n \in 1..Len(graph.in[b])
    BY <1>4, <2>1, Now, GraphNow
  <2>3. Becomes(h) /\ task' = task
    BY <1>1, <1>4, <2>1 DEF Detach
  <2>4. Len(h.in[b]) = Len(graph.in[b]) - 1
    BY <2>1, <2>2, Now, RemoveInEdgeKeeps DEF Cut
  <2>5. Len(graph.in[b]) - 1 < Len(graph.in[b])
    BY <1>2
  <2> QED BY SMTT(30), <1>1, <1>2, <2>3, <2>4, <2>5 DEF Becomes
<1>5. CASE outEdges[b] = <<>> /\ inEdges[b] = <<>>
  <2>1. task' = [task EXCEPT !.op = "reset"]
    BY <1>1, <1>5 DEF Detach, Goto
  <2>2. task'.op = "reset"
    BY <1>2, <2>1 DEF Task
  <2> QED BY <2>2
<1> QED BY <1>3, <1>4, <1>5

\* Every step is one of a loop's, the start of a loop or a step outside the loops.
LEMMA StepCases ==
    ASSUME LabelInv, Next
    PROVE  \/ BypassOut \/ BypassIn \/ SpliceMove \/ Detach
           \/ task.op = "reset" /\ task' = Idle
           \/ \E b \in Block : RemoveDoNothingBlock(b)
           \/ \E b \in Block : SpliceBlockBasic(b)
           \/ task = Idle /\ task'.op \in {"idle", "detach"}
<1>1. ASSUME NEW b \in Block, NEW fl \in SUBSET CreateFlags, NewBlock(b, fl) PROVE task' = Idle /\ task = Idle
  BY <1>1 DEF NewBlock
<1>2. ASSUME NEW h, EdgeOp(h) PROVE task' = Idle /\ task = Idle
  BY <1>2 DEF EdgeOp
<1>3. ASSUME NEW b \in Block, RemoveBlock(b) \/ \E swap \in BOOLEAN : RemoveFromFlowSplit(b, swap)
      PROVE  task = Idle /\ task'.op = "detach"
  BY <1>3 DEF RemoveBlock, RemoveFromFlowSplit, Start
<1>4. ASSUME NEW b \in Block, SwapEdges(b) PROVE task' = Idle /\ task = Idle
  BY <1>2, <1>4 DEF SwapEdges
<1>5. ASSUME NEW b \in Block, NEW src \in Block, RemoveEdge(src, b) \/ ForceFalseEdge(b, src) \/ AddEdge(src, b)
      PROVE  task' = Idle /\ task = Idle
  BY <1>2, <1>4, <1>5 DEF RemoveEdge, ForceFalseEdge, AddEdge
<1>6. ASSUME NEW b \in Block, NEW k \in DOMAIN outEdges[b], NEW new \in Block,
             MoveOutEdge(b, k, new) \/ RetargetOutEdge(b, k, new)
      PROVE  task' = Idle /\ task = Idle
  BY <1>2, <1>6 DEF MoveOutEdge, RetargetOutEdge
<1>7. ASSUME NEW b \in Block, NEW k \in DOMAIN outEdges[b], SetDefaultSwitch(b, k)
      PROVE  task' = Idle /\ task = Idle
  BY <1>2, <1>7 DEF SetDefaultSwitch
<1>8. ASSUME NEW lab \in [OutSlots -> SUBSET SpanLabel], StructureReset(lab)
      PROVE  task.op = "reset" /\ task' = Idle
  BY <1>8 DEF StructureReset
<1>9. task' = Idle => task'.op = "idle"
  BY DEF Idle
<1> QED BY <1>1, <1>3, <1>4, <1>5, <1>6, <1>7, <1>8, <1>9 DEF Next

LEMMA NextBypass == LabelInv /\ BypassOK /\ [Next]_vars => BypassOK'
<1> SUFFICES ASSUME LabelInv, BypassOK, [Next]_vars PROVE BypassOK'
  OBVIOUS
<1>1. CASE BypassOut
  BY <1>1, BypassOutShrinks
<1>2. CASE BypassIn
  BY <1>2, BypassInShrinks
<1>3. CASE SpliceMove \/ Detach
  <2>1. task'.op \in {"move", "detach", "reset"}
    BY <1>3, SpliceMoveShrinks, DetachShrinks
  <2> QED BY <2>1 DEF BypassOK
<1>4. CASE task' = Idle
  BY <1>4 DEF BypassOK, Idle
<1>5. ASSUME NEW b \in Block, RemoveDoNothingBlock(b) PROVE BypassOK'
  <2>1. task'.op = "bypassOut" /\ task'.bl = b
    BY <1>5 DEF RemoveDoNothingBlock, Start
  <2>2. graph' = graph /\ graph.out = outEdges
    BY <1>5 DEF RemoveDoNothingBlock, graph
  <2> QED BY <1>5, <2>1, <2>2 DEF BypassOK, RemoveDoNothingBlock
<1>6. ASSUME NEW b \in Block, SpliceBlockBasic(b) PROVE BypassOK'
  <2>1. task'.op = "move"
    BY <1>6 DEF SpliceBlockBasic, Start
  <2> QED BY <2>1 DEF BypassOK
<1>7. CASE task'.op \in {"idle", "detach"}
  BY <1>7 DEF BypassOK
<1>8. CASE UNCHANGED vars
  <2>1. graph' = graph /\ task' = task
    BY ONLY <1>8 DEF vars, graph
  <2> QED BY <2>1 DEF BypassOK
<1> QED BY <1>1, <1>2, <1>3, <1>4, <1>5, <1>6, <1>7, <1>8, StepCases

LEMMA BypassInvariance == Spec => [](LabelInv /\ BypassOK)
<1>1. Init => BypassOK
  BY DEF Init, BypassOK, Idle
<1>2. LabelInv /\ BypassOK /\ [Next]_vars => (LabelInv /\ BypassOK)'
  BY NextLabels, NextBypass
<1> QED BY <1>1, <1>2, InitLabels, PTL DEF Spec

\* removeFromFlow, spliceOutput and RemoveBlock leave less to do with every iteration,
\* so each ends however many edges the blocks have.
THEOREM RemovalsEnd == Spec => RemovalsShrink
<1> DEFINE fewer(es, c) == Len(es'[c]) < Len(es[c])
           Less(b) ==
             /\ task.op = "bypassOut" => fewer(outEdges, b) \/ task'.op = "detach"
             /\ task.op = "bypassIn" => \/ fewer(inEdges, b) /\ Len(outEdges'[b]) = Len(outEdges[b])
                                        \/ task'.op = "bypassOut"
             /\ task.op = "move" => fewer(outEdges, task.to) \/ task'.op = "detach"
             /\ task.op = "detach" => fewer(outEdges, b) \/ fewer(inEdges, b) \/ task'.op = "reset"
<1>1. ASSUME LabelInv, BypassOK, Next PROVE Less(task.bl)
  <2>1. CASE BypassOut
    BY <1>1, <2>1, BypassOutShrinks DEF BypassOut
  <2>2. CASE BypassIn
    BY <1>1, <2>2, BypassInShrinks DEF BypassIn
  <2>3. CASE SpliceMove
    BY <1>1, <2>3, SpliceMoveShrinks DEF SpliceMove
  <2>4. CASE Detach
    BY <1>1, <2>4, DetachShrinks DEF Detach
  <2>5. CASE task.op = "reset"
    BY <2>5
  <2>6. CASE task = Idle
    BY <2>6 DEF Idle
  <2>7. ASSUME NEW b \in Block, RemoveDoNothingBlock(b) \/ SpliceBlockBasic(b) PROVE task = Idle
    BY <2>7 DEF RemoveDoNothingBlock, SpliceBlockBasic
  <2> QED BY <1>1, <2>1, <2>2, <2>3, <2>4, <2>5, <2>6, <2>7, StepCases
<1>2. LabelInv /\ BypassOK /\ [Next]_vars => [Less(task.bl)]_vars
  BY <1>1
<1> QED BY <1>2, BypassInvariance, PTL DEF Spec, RemovalsShrink

-----------------------------------------------------------------------------
(***************************************************************************)
(* Rewiring moves no slot the data flow depends on.  The state of a loop is  *)
(* compared with the graph W from before the operation.                      *)
(***************************************************************************)

\* removeFromFlow, with n in-edges of b already moved to s, whose in-slot j was b's.
Bypassing(W, b, s, j, g, n) ==
    /\ Len(W.in[b]) = n + Len(g.in[b])
    /\ \A i \in 1..Len(g.in[b]) : g.in[b][i].point = W.in[b][n + i].point
    /\ Len(g.in[s]) + 1 = Len(W.in[s]) + n
    /\ \A i \in 1..(Len(W.in[s]) - 1) :
          g.in[s][i].point = (IF i < j THEN W.in[s][i] ELSE W.in[s][i + 1]).point
    /\ \A i \in 1..n : g.in[s][Len(W.in[s]) - 1 + i].point = W.in[b][i].point
    /\ \A o \in Block \ {b} : Len(g.out[o]) = Len(W.out[o]) /\ \A k \in 1..Len(W.out[o]) :
          \/ g.out[o][k].point = W.out[o][k].point
          \/ W.out[o][k].point = b /\ g.out[o][k].point = s

LEMMA BypassFirst ==
    ASSUME NEW W, Sound(W), NEW b \in Block, NEW k \in 1..Len(W.out[b]), k = 1,
           NEW s \in Block, NEW j \in Nat, s = W.out[b][k].point, j = W.out[b][k].rev, s # b,
           NEW h, h = RemoveOutEdge(W, b, k)
    PROVE  Bypassing(W, b, s, j, h, 0) /\ j \in 1..Len(W.in[s])
<1>1. /\ OthersKept(h.out, W.out, b) /\ Cut(h.in[s], W.in[s], j) /\ OthersKept(h.in, W.in, s)
  BY RemoveOutEdgeKeeps
<1>2. j \in 1..Len(W.in[s])
  <2>1. OutSlotOK(W, {}, b, k)
    BY DEF Sound, MirroredBut
  <2> QED BY <2>1 DEF OutSlotOK
<1>3. Len(W.in[b]) \in Nat /\ Len(W.in[s]) \in Nat
  BY GraphFacts DEF Sound
<1>4. Len(W.in[b]) = 0 + Len(h.in[b]) /\ \A i \in 1..Len(h.in[b]) : h.in[b][i].point = W.in[b][0 + i].point
  BY <1>1, <1>3 DEF OthersKept, Kept, SameEdge
<1>5. /\ Len(h.in[s]) + 1 = Len(W.in[s]) + 0
      /\ \A i \in 1..(Len(W.in[s]) - 1) : h.in[s][i].point = (IF i < j THEN W.in[s][i] ELSE W.in[s][i + 1]).point
  <2>1. PICK m \in Nat : m = Len(W.in[s]) /\ Len(h.in[s]) = m - 1
    BY <1>1, <1>3 DEF Cut
  <2>2. \A i \in 1..(m - 1) : SameEdge(h.in[s][i], IF i < j THEN W.in[s][i] ELSE W.in[s][i + 1])
    BY <1>1, <2>1 DEF Cut
  <2>3. Len(h.in[s]) + 1 = Len(W.in[s]) + 0
    BY <2>1
  <2> QED BY Zenon, <2>1, <2>2, <2>3 DEF SameEdge
<1>6. \A o \in Block \ {b} : Len(h.out[o]) = Len(W.out[o]) /\ \A i \in 1..Len(W.out[o]) :
         h.out[o][i].point = W.out[o][i].point
  BY <1>1 DEF OthersKept, Kept, SameEdge
<1>7. 1..0 = {}
  OBVIOUS
<1> QED BY <1>2, <1>4, <1>5, <1>6, <1>7 DEF Bypassing

LEMMA CutFirst ==
    ASSUME NEW u, NEW t, Len(t) \in Nat, Cut(u, t, 1)
    PROVE  Len(u) = Len(t) - 1 /\ \A k \in 1..Len(u) : u[k].point = t[k + 1].point
<1>1. Len(u) = Len(t) - 1
  BY DEF Cut
<1>2. ASSUME NEW k \in 1..Len(u) PROVE u[k].point = t[k + 1].point
  <2>1. ~(k < 1)
    BY <1>1
  <2>2. SameEdge(u[k], IF k < 1 THEN t[k] ELSE t[k + 1])
    BY DEF Cut
  <2> QED BY <2>1, <2>2 DEF SameEdge
<1> QED BY <1>1, <1>2

LEMMA BypassMore ==
    ASSUME NEW W \in Graph, NEW b \in Block, NEW s \in Block, s # b, NEW j \in 1..Len(W.in[s]), NEW n \in Nat,
           NEW g, Sound(g), Paired(g, {}, Covers), Bypassing(W, b, s, j, g, n),
           NEW i \in 1..Len(g.in[b]), i = 1, Len(g.out[b]) = 0,
           NEW p \in Block, NEW r \in Nat, InMirrorIs(g, b, i, p, r),
           NEW h, h = ReplaceOutEdge(g, p, r, s)
    PROVE  Bypassing(W, b, s, j, h, n + 1)
<1>1. /\ p = g.in[b][1].point /\ r \in 1..Len(g.out[p]) /\ g.out[p][r].point = b /\ g.out[p][r].rev = 1
  BY DEF InMirrorIs
<1>2. /\ Turned(h.out[p], g.out[p], r, s) /\ OthersKept(h.out, g.out, p)
      /\ OneInSlotMoves(g, h, p, r, s)
  BY <1>1, RetargetMoves
<1>3. PICK u \in Graph : /\ Cut(u.in[b], g.in[b], 1) /\ OthersKept(u.in, g.in, b)
                         /\ Added(h.in[s], u.in[s], g.out[p][r].label, p) /\ OthersKept(h.in, u.in, s)
  BY <1>1, <1>2 DEF OneInSlotMoves
<1>4. /\ Len(W.in[b]) \in Nat /\ Len(g.in[b]) \in Nat /\ Len(g.in[s]) \in Nat /\ Len(W.in[s]) \in Nat
  BY GraphFacts DEF Sound
<1>5. Cut(h.in[b], g.in[b], 1)
  BY <1>3, <1>4, KeptTwice DEF OthersKept
<1>6. Added(h.in[s], g.in[s], g.out[p][r].label, p)
  <2>1. Kept(u.in[s], g.in[s])
    BY <1>3 DEF OthersKept
  <2> QED BY <1>3, <1>4, <2>1 DEF Added, Kept, SameEdge
<1>7. /\ Len(h.in[b]) = Len(g.in[b]) - 1
      /\ \A k \in 1..Len(h.in[b]) : h.in[b][k].point = g.in[b][k + 1].point
  <2>1. Len(g.in[b]) \in Nat
    BY <1>4
  <2> QED BY ONLY <1>5, <2>1, CutFirst, Zenon
<1>8. /\ Len(h.in[s]) = Len(g.in[s]) + 1 /\ h.in[s][Len(g.in[s]) + 1].point = p
      /\ \A k \in 1..Len(g.in[s]) : h.in[s][k].point = g.in[s][k].point
  BY <1>6 DEF Added, SameEdge
<1>9. /\ Len(W.in[b]) = n + Len(g.in[b])
      /\ \A k \in 1..Len(g.in[b]) : g.in[b][k].point = W.in[b][n + k].point
      /\ Len(g.in[s]) + 1 = Len(W.in[s]) + n
      /\ \A k \in 1..(Len(W.in[s]) - 1) :
            g.in[s][k].point = (IF k < j THEN W.in[s][k] ELSE W.in[s][k + 1]).point
      /\ \A k \in 1..n : g.in[s][Len(W.in[s]) - 1 + k].point = W.in[b][k].point
      /\ \A o \in Block \ {b} : Len(g.out[o]) = Len(W.out[o]) /\ \A k \in 1..Len(W.out[o]) :
            \/ g.out[o][k].point = W.out[o][k].point
            \/ W.out[o][k].point = b /\ g.out[o][k].point = s
  BY DEF Bypassing
<1>a. PICK lb \in Nat, ls \in Nat, wb \in Nat, ws \in Nat :
         lb = Len(g.in[b]) /\ ls = Len(g.in[s]) /\ wb = Len(W.in[b]) /\ ws = Len(W.in[s])
  BY <1>4
<1>10. /\ Len(W.in[b]) = (n + 1) + Len(h.in[b])
       /\ \A k \in 1..Len(h.in[b]) : h.in[b][k].point = W.in[b][(n + 1) + k].point
  <2>1. wb = n + lb /\ lb >= 1
    BY <1>9, <1>a
  <2>2. ASSUME NEW k \in 1..(lb - 1) PROVE h.in[b][k].point = W.in[b][(n + 1) + k].point
    <3>1. k + 1 \in 1..lb /\ n + (k + 1) = (n + 1) + k
      BY <2>1
    <3>2. h.in[b][k].point = g.in[b][k + 1].point
      BY <1>7, <1>a
    <3>3. g.in[b][k + 1].point = W.in[b][n + (k + 1)].point
      BY <1>9, <1>a, <3>1
    <3> QED BY <3>1, <3>2, <3>3
  <2>3. Len(h.in[b]) = lb - 1
    BY <1>7, <1>a
  <2>4. wb = (n + 1) + (lb - 1)
    BY <2>1
  <2> QED BY ONLY <1>a, <2>2, <2>3, <2>4
<1>11. /\ Len(h.in[s]) + 1 = Len(W.in[s]) + (n + 1)
       /\ \A k \in 1..(Len(W.in[s]) - 1) :
             h.in[s][k].point = (IF k < j THEN W.in[s][k] ELSE W.in[s][k + 1]).point
  <2>1. ls + 1 = ws + n
    BY <1>9, <1>a
  <2>2. \A k \in 1..(ws - 1) : k \in 1..ls
    BY <2>1
  <2>3. \A k \in 1..(ws - 1) : h.in[s][k].point = (IF k < j THEN W.in[s][k] ELSE W.in[s][k + 1]).point
    <3> SUFFICES ASSUME NEW k \in 1..(ws - 1)
                 PROVE  h.in[s][k].point = (IF k < j THEN W.in[s][k] ELSE W.in[s][k + 1]).point
      OBVIOUS
    <3>1. h.in[s][k].point = g.in[s][k].point
      BY <1>8, <1>a, <2>2
    <3>2. g.in[s][k].point = (IF k < j THEN W.in[s][k] ELSE W.in[s][k + 1]).point
      BY <1>9, <1>a
    <3> QED BY <3>1, <3>2
  <2>4. Len(h.in[s]) = ls + 1 /\ (ls + 1) + 1 = ws + (n + 1)
    <3>1. Len(h.in[s]) = ls + 1
      BY <1>8, <1>a
    <3> QED BY <2>1, <3>1
  <2> QED BY <1>a, <2>3, <2>4
<1>12. \A k \in 1..(n + 1) : h.in[s][Len(W.in[s]) - 1 + k].point = W.in[b][k].point
  <2> SUFFICES ASSUME NEW k \in 1..(n + 1) PROVE h.in[s][ws - 1 + k].point = W.in[b][k].point
    BY <1>a
  <2>1. ls + 1 = ws + n /\ wb = n + lb /\ lb >= 1
    BY <1>9, <1>a
  <2>2. CASE k \in 1..n
    <3>1. ws - 1 + k \in 1..ls \/ ws = 0
      BY <2>1, <2>2
    <3>2. ws # 0
      BY <1>a
    <3> QED BY Zenon, <1>8, <1>9, <1>a, <2>2, <3>1, <3>2
  <2>3. CASE k = n + 1
    <3>1. ws - 1 + k = ls + 1 /\ 1 \in 1..lb /\ n + 1 = k
      BY <2>1, <2>3
    <3>2. g.in[b][1].point = W.in[b][n + 1].point
      BY <1>9, <1>a, <3>1
    <3> QED BY <1>1, <1>8, <1>a, <3>1, <3>2
  <2> QED BY <2>2, <2>3
<1>13. \A o \in Block \ {b} : Len(h.out[o]) = Len(W.out[o]) /\ \A k \in 1..Len(W.out[o]) :
          \/ h.out[o][k].point = W.out[o][k].point
          \/ W.out[o][k].point = b /\ h.out[o][k].point = s
  <2> SUFFICES ASSUME NEW o \in Block \ {b}
               PROVE  Len(h.out[o]) = Len(W.out[o]) /\ \A k \in 1..Len(W.out[o]) :
                         \/ h.out[o][k].point = W.out[o][k].point
                         \/ W.out[o][k].point = b /\ h.out[o][k].point = s
    OBVIOUS
  <2>0. Len(g.out[o]) = Len(W.out[o]) /\ \A k \in 1..Len(W.out[o]) :
           \/ g.out[o][k].point = W.out[o][k].point
           \/ W.out[o][k].point = b /\ g.out[o][k].point = s
    BY <1>9
  <2>1. CASE o # p
    <3>1. Kept(h.out[o], g.out[o])
      BY <1>2, <2>1 DEF OthersKept
    <3> QED BY <2>0, <3>1 DEF Kept, SameEdge
  <2>2. CASE o = p
    <3>1. /\ Len(h.out[o]) = Len(g.out[o])
          /\ \A k \in 1..Len(g.out[o]) : h.out[o][k].point = IF k = r THEN s ELSE g.out[o][k].point
      BY <1>2, <2>2 DEF Turned
    <3>2. g.out[o][r].point = b /\ r \in 1..Len(W.out[o])
      BY <1>1, <2>0, <2>2
    <3>3. W.out[o][r].point = b
      BY <2>0, <3>2
    <3> QED BY <2>0, <3>1, <3>3
  <2> QED BY <2>1, <2>2
<1> QED BY Zenon, <1>10, <1>11, <1>12, <1>13 DEF Bypassing

\* The points of a list.
LEMMA PointsFacts ==
    ASSUME NEW es \in Seq(Edge)
    PROVE  /\ Points(es) \in Seq(Block) /\ Len(Points(es)) = Len(es)
           /\ \A i \in 1..Len(es) : Points(es)[i] = es[i].point
<1>1. Len(es) \in Nat /\ DOMAIN es = 1..Len(es) /\ \A i \in 1..Len(es) : es[i] \in Edge
  BY LenProperties, ElementOfSeq
<1>2. \A i \in 1..Len(es) : es[i].point \in Block
  BY <1>1 DEF Edge
<1>3. Points(es) \in [1..Len(es) -> Block]
  BY <1>1, <1>2 DEF Points
<1> QED BY <1>1, <1>3, RebuildFacts DEF Points

\* When the last in-edge has moved, the in-slots of s are in place.
BypassDone(W, b, s, j, g) ==
    /\ Points(g.in[s]) = RemoveAt(Points(W.in[s]), j) \o Points(W.in[b])
    /\ \A o \in Block \ {b} : Points(g.out[o]) =
          [k \in DOMAIN W.out[o] |-> IF W.out[o][k].point = b THEN s ELSE W.out[o][k].point]

LEMMA BypassLast ==
    ASSUME NEW W \in Graph, NEW b \in Block, NEW s \in Block, s # b, NEW j \in 1..Len(W.in[s]), NEW n \in Nat,
           NEW g, Sound(g), Bypassing(W, b, s, j, g, n), Len(g.in[b]) = 0
    PROVE  BypassDone(W, b, s, j, g)
<1>1. /\ W.in[b] \in Seq(Edge) /\ W.in[s] \in Seq(Edge) /\ g.in[s] \in Seq(Edge)
      /\ Len(W.in[b]) \in Nat /\ Len(W.in[s]) \in Nat /\ Len(g.in[s]) \in Nat
  BY GraphFacts DEF Sound
<1>2. PICK ls \in Nat, ws \in Nat : ls = Len(g.in[s]) /\ ws = Len(W.in[s])
  BY <1>1
<1>3. /\ Len(W.in[b]) = n + Len(g.in[b]) /\ Len(g.in[s]) + 1 = Len(W.in[s]) + n
      /\ \A i \in 1..(Len(W.in[s]) - 1) :
            g.in[s][i].point = (IF i < j THEN W.in[s][i] ELSE W.in[s][i + 1]).point
      /\ \A i \in 1..n : g.in[s][Len(W.in[s]) - 1 + i].point = W.in[b][i].point
  BY DEF Bypassing
<1>4. Len(W.in[b]) = n /\ ls = ws - 1 + n /\ ws >= 1
  BY <1>1, <1>2, <1>3
<1> DEFINE x == RemoveAt(Points(W.in[s]), j)
           y == Points(W.in[b])
           z == Points(g.in[s])
<1>5. /\ x \in Seq(Block) /\ Len(x) = ws - 1
      /\ \A i \in 1..(ws - 1) : x[i] = (IF i < j THEN W.in[s][i] ELSE W.in[s][i + 1]).point
  <2>1. /\ Points(W.in[s]) \in Seq(Block) /\ Len(Points(W.in[s])) = ws
        /\ \A i \in 1..ws : Points(W.in[s])[i] = W.in[s][i].point
    BY <1>1, <1>2, PointsFacts
  <2>2. j \in 1..Len(Points(W.in[s])) /\ j \in 1..ws
    BY <1>2, <2>1
  <2>3. /\ x \in Seq(Block) /\ Len(x) = ws - 1
        /\ \A i \in 1..(ws - 1) : x[i] = IF i < j THEN Points(W.in[s])[i] ELSE Points(W.in[s])[i + 1]
    BY Zenon, <2>1, <2>2, RemoveAtFacts
  <2> HIDE DEF x
  <2> QED BY <2>1, <2>2, <2>3
<1>6. y \in Seq(Block) /\ Len(y) = n /\ \A i \in 1..n : y[i] = W.in[b][i].point
  BY <1>1, <1>4, PointsFacts
<1>7. z \in Seq(Block) /\ Len(z) = ls /\ \A i \in 1..ls : z[i] = g.in[s][i].point
  BY <1>1, <1>2, PointsFacts
<1> HIDE DEF x, y, z
<1>8. /\ x \o y \in Seq(Block) /\ Len(x \o y) = ws - 1 + n
      /\ \A i \in 1..(ws - 1 + n) : (x \o y)[i] = IF i <= ws - 1 THEN x[i] ELSE y[i - (ws - 1)]
  <2>1. PICK m \in Nat : m = ws - 1
    BY <1>4
  <2>2. /\ x \o y \in Seq(Block) /\ Len(x \o y) = Len(x) + Len(y)
        /\ \A i \in 1..(Len(x) + Len(y)) : (x \o y)[i] = IF i <= Len(x) THEN x[i] ELSE y[i - Len(x)]
    BY Zenon, <1>5, <1>6, ConcatProperties
  <2>3. Len(x) = m /\ Len(y) = n
    BY <1>5, <1>6, <2>1
  <2> QED BY ONLY <2>1, <2>2, <2>3
<1>9. ASSUME NEW i \in 1..ls PROVE z[i] = (x \o y)[i]
  <2>1. CASE i <= ws - 1
    <3>1. i \in 1..(ws - 1) /\ i \in 1..(ws - 1 + n)
      BY <1>4, <2>1
    <3>2. g.in[s][i].point = (IF i < j THEN W.in[s][i] ELSE W.in[s][i + 1]).point
      BY <1>2, <1>3, <3>1
    <3> QED BY <1>5, <1>7, <1>8, <2>1, <3>1, <3>2
  <2>2. CASE ~(i <= ws - 1)
    <3>1. PICK m \in 1..n : m = i - (ws - 1) /\ ws - 1 + m = i
      BY <1>4, <2>2
    <3>2. g.in[s][ws - 1 + m].point = W.in[b][m].point
      BY <1>2, <1>3
    <3>3. (x \o y)[i] = y[m]
      BY <1>4, <1>8, <2>2, <3>1
    <3> QED BY <1>6, <1>7, <3>1, <3>2, <3>3
  <2> QED BY <2>1, <2>2
<1>10. z = x \o y
  BY <1>4, <1>7, <1>8, <1>9, SeqEqual
<1>11. ASSUME NEW o \in Block \ {b}
       PROVE  Points(g.out[o]) =
                 [k \in DOMAIN W.out[o] |-> IF W.out[o][k].point = b THEN s ELSE W.out[o][k].point]
  <2>1. /\ Len(g.out[o]) = Len(W.out[o])
        /\ \A k \in 1..Len(W.out[o]) : \/ g.out[o][k].point = W.out[o][k].point
                                       \/ W.out[o][k].point = b /\ g.out[o][k].point = s
    BY DEF Bypassing
  <2>2. g.out[o] \in Seq(Edge) /\ W.out[o] \in Seq(Edge)
    BY GraphFacts DEF Sound
  <2>3. ASSUME NEW k \in 1..Len(W.out[o])
        PROVE  g.out[o][k].point = IF W.out[o][k].point = b THEN s ELSE W.out[o][k].point
    <3>1. OutSlotOK(g, {}, o, k)
      BY <2>1 DEF Sound, MirroredBut
    <3>2. g.out[o][k].rev \in 1..Len(g.in[g.out[o][k].point])
      BY <3>1 DEF OutSlotOK
    <3>3. g.out[o][k].point # b
      BY <3>2
    <3> QED BY <2>1, <3>3
  <2>4. DOMAIN g.out[o] = 1..Len(W.out[o]) /\ DOMAIN W.out[o] = 1..Len(W.out[o])
    BY <2>1, <2>2, LenProperties
  <2> QED BY <2>3, <2>4 DEF Points
<1> QED BY <1>10, <1>11 DEF x, y, z, BypassDone

\* spliceOutput, with n out-edges of o already moved to b.
Splicing(W, b, o, g, n) ==
    /\ Len(W.out[o]) = n + Len(g.out[o])
    /\ \A i \in 1..Len(g.out[o]) : g.out[o][i].point = W.out[o][n + i].point
    /\ Len(g.out[b]) = n
    /\ \A i \in 1..n : g.out[b][i].point = W.out[o][i].point
    /\ \A t \in Block \ {o} : Len(g.in[t]) = Len(W.in[t]) /\ \A k \in 1..Len(W.in[t]) :
          \/ g.in[t][k].point = W.in[t][k].point
          \/ W.in[t][k].point = o /\ g.in[t][k].point = b

LEMMA SpliceFirst ==
    ASSUME NEW W, Sound(W), NEW b \in Block, NEW k \in 1..Len(W.out[b]), k = 1, Len(W.out[b]) = 1,
           NEW o \in Block, o = W.out[b][k].point, o # b,
           NEW h, h = RemoveOutEdge(W, b, k)
    PROVE  Splicing(W, b, o, h, 0)
<1>1. Cut(h.out[b], W.out[b], k) /\ OthersKept(h.out, W.out, b) /\ OthersKept(h.in, W.in, o)
  BY RemoveOutEdgeKeeps
<1>2. Len(h.out[b]) = 0
  <2>1. Len(h.out[b]) = 1 - 1
    BY <1>1 DEF Cut
  <2> QED BY <2>1
<1>3. Len(W.out[o]) \in Nat
  BY GraphFacts DEF Sound
<1>4. Len(W.out[o]) = 0 + Len(h.out[o]) /\ \A i \in 1..Len(h.out[o]) : h.out[o][i].point = W.out[o][0 + i].point
  BY <1>1, <1>3 DEF OthersKept, Kept, SameEdge
<1>5. \A t \in Block \ {o} : Len(h.in[t]) = Len(W.in[t]) /\ \A i \in 1..Len(W.in[t]) :
         h.in[t][i].point = W.in[t][i].point
  BY <1>1 DEF OthersKept, Kept, SameEdge
<1>6. 1..0 = {}
  OBVIOUS
<1> QED BY <1>2, <1>4, <1>5, <1>6 DEF Splicing

\* ReplaceInEdge takes an out-slot from the old source and gives b one at the end.
OneOutSlotMoves(g, h, t, j, b) ==
    \E u \in Graph : LET s == g.in[t][j].point IN
        /\ Cut(u.out[s], g.out[s], g.in[t][j].rev) /\ OthersKept(u.out, g.out, s)
        /\ Added(h.out[b], u.out[b], g.in[t][j].label, t) /\ OthersKept(h.out, u.out, b)

LEMMA ResourceMoves ==
    ASSUME NEW g, Sound(g), NEW t \in Block, NEW j \in 1..Len(g.in[t]), NEW b \in Block,
           Paired(g, {}, Covers), NEW h, h = ReplaceInEdge(g, t, j, b)
    PROVE  /\ Turned(h.in[t], g.in[t], j, b) /\ OthersKept(h.in, g.in, t)
           /\ OneOutSlotMoves(g, h, t, j, b)
  BY Reflexive, ReplaceInEdgeKeeps DEF OneOutSlotMoves

LEMMA SpliceMore ==
    ASSUME NEW W \in Graph, NEW b \in Block, NEW o \in Block, o # b, NEW n \in Nat,
           NEW g, Sound(g), Paired(g, {}, Covers), Splicing(W, b, o, g, n),
           NEW i \in 1..Len(g.out[o]), i = 1, NEW t \in Block, NEW j \in Nat, OutMirrorIs(g, o, i, t, j),
           NEW h, h = ReplaceInEdge(g, t, j, b)
    PROVE  Splicing(W, b, o, h, n + 1)
<1>1. /\ t = g.out[o][1].point /\ j \in 1..Len(g.in[t]) /\ g.in[t][j].point = o /\ g.in[t][j].rev = 1
  BY DEF OutMirrorIs
<1>2. /\ Turned(h.in[t], g.in[t], j, b) /\ OthersKept(h.in, g.in, t)
      /\ OneOutSlotMoves(g, h, t, j, b)
  BY <1>1, ResourceMoves
<1>3. PICK u \in Graph : /\ Cut(u.out[o], g.out[o], 1) /\ OthersKept(u.out, g.out, o)
                         /\ Added(h.out[b], u.out[b], g.in[t][j].label, t) /\ OthersKept(h.out, u.out, b)
  BY <1>1, <1>2 DEF OneOutSlotMoves
<1>4. Len(W.out[o]) \in Nat /\ Len(g.out[o]) \in Nat /\ Len(g.out[b]) \in Nat
  BY GraphFacts DEF Sound
<1>5. Cut(h.out[o], g.out[o], 1)
  BY <1>3, <1>4, KeptTwice DEF OthersKept
<1>6. /\ Len(h.out[o]) = Len(g.out[o]) - 1
      /\ \A k \in 1..Len(h.out[o]) : h.out[o][k].point = g.out[o][k + 1].point
  <2>1. Len(g.out[o]) \in Nat
    BY <1>4
  <2> QED BY ONLY <1>5, <2>1, CutFirst, Zenon
<1>7. /\ Len(h.out[b]) = Len(g.out[b]) + 1 /\ h.out[b][Len(g.out[b]) + 1].point = t
      /\ \A k \in 1..Len(g.out[b]) : h.out[b][k].point = g.out[b][k].point
  <2>1. Kept(u.out[b], g.out[b])
    BY <1>3 DEF OthersKept
  <2> QED BY <1>3, <1>4, <2>1 DEF Added, Kept, SameEdge
<1>8. /\ Len(W.out[o]) = n + Len(g.out[o])
      /\ \A k \in 1..Len(g.out[o]) : g.out[o][k].point = W.out[o][n + k].point
      /\ Len(g.out[b]) = n
      /\ \A k \in 1..n : g.out[b][k].point = W.out[o][k].point
  BY DEF Splicing
<1>a. PICK lo \in Nat, wo \in Nat : lo = Len(g.out[o]) /\ wo = Len(W.out[o])
  BY <1>4
<1>b. wo = n + lo /\ lo >= 1
  BY <1>8, <1>a
<1>9. /\ Len(W.out[o]) = (n + 1) + Len(h.out[o])
      /\ \A k \in 1..Len(h.out[o]) : h.out[o][k].point = W.out[o][(n + 1) + k].point
  <2>2. ASSUME NEW k \in 1..(lo - 1) PROVE h.out[o][k].point = W.out[o][(n + 1) + k].point
    <3>1. k + 1 \in 1..lo /\ n + (k + 1) = (n + 1) + k
      BY <1>b
    <3>2. h.out[o][k].point = g.out[o][k + 1].point
      BY <1>6, <1>a
    <3>3. g.out[o][k + 1].point = W.out[o][n + (k + 1)].point
      BY <1>8, <1>a, <3>1
    <3> QED BY <3>1, <3>2, <3>3
  <2>3. Len(h.out[o]) = lo - 1
    BY <1>6, <1>a
  <2>4. wo = (n + 1) + (lo - 1)
    BY <1>b
  <2> QED BY ONLY <1>a, <2>2, <2>3, <2>4
<1>10. Len(h.out[b]) = n + 1 /\ \A k \in 1..(n + 1) : h.out[b][k].point = W.out[o][k].point
  <2>1. h.out[b][n + 1].point = W.out[o][n + 1].point
    <3>1. 1 \in 1..lo
      BY <1>b
    <3>2. g.out[o][1].point = W.out[o][n + 1].point
      BY <1>8, <1>a, <3>1
    <3> QED BY <1>1, <1>7, <1>8, <3>2
  <2>2. \A k \in 1..n : h.out[b][k].point = W.out[o][k].point
    BY <1>7, <1>8
  <2>3. \A k \in 1..(n + 1) : k \in 1..n \/ k = n + 1
    OBVIOUS
  <2> QED BY <1>7, <1>8, <2>1, <2>2, <2>3
<1>11. ASSUME NEW c \in Block \ {o}
       PROVE  Len(h.in[c]) = Len(W.in[c]) /\ \A k \in 1..Len(W.in[c]) :
                 \/ h.in[c][k].point = W.in[c][k].point
                 \/ W.in[c][k].point = o /\ h.in[c][k].point = b
  <2>0. Len(g.in[c]) = Len(W.in[c]) /\ \A k \in 1..Len(W.in[c]) :
           \/ g.in[c][k].point = W.in[c][k].point
           \/ W.in[c][k].point = o /\ g.in[c][k].point = b
    BY DEF Splicing
  <2>1. CASE c # t
    <3>1. Kept(h.in[c], g.in[c])
      BY <1>2, <2>1 DEF OthersKept
    <3> QED BY <2>0, <3>1 DEF Kept, SameEdge
  <2>2. CASE c = t
    <3>1. /\ Len(h.in[c]) = Len(g.in[c])
          /\ \A k \in 1..Len(g.in[c]) : h.in[c][k].point = IF k = j THEN b ELSE g.in[c][k].point
      BY <1>2, <2>2 DEF Turned
    <3>2. g.in[c][j].point = o /\ j \in 1..Len(W.in[c])
      BY <1>1, <2>0, <2>2
    <3>3. W.in[c][j].point = o
      BY <2>0, <3>2
    <3> QED BY <2>0, <3>1, <3>3
  <2> QED BY <2>1, <2>2
<1> QED BY Zenon, <1>9, <1>10, <1>11 DEF Splicing

LEMMA SpliceLast ==
    ASSUME NEW W \in Graph, NEW b \in Block, NEW o \in Block, o # b, NEW n \in Nat,
           NEW g, Sound(g), Splicing(W, b, o, g, n), Len(g.out[o]) = 0
    PROVE  /\ Points(g.out[b]) = Points(W.out[o])
           /\ \A t \in Block \ {o} : Points(g.in[t]) =
                 [k \in DOMAIN W.in[t] |-> IF W.in[t][k].point = o THEN b ELSE W.in[t][k].point]
<1>1. g.out[b] \in Seq(Edge) /\ W.out[o] \in Seq(Edge) /\ Len(W.out[o]) \in Nat
  BY GraphFacts DEF Sound
<1>2. /\ Len(W.out[o]) = n + Len(g.out[o]) /\ Len(g.out[b]) = n
      /\ \A i \in 1..n : g.out[b][i].point = W.out[o][i].point
  BY DEF Splicing
<1>3. Len(W.out[o]) = n
  BY <1>2
<1>4. DOMAIN g.out[b] = 1..n /\ DOMAIN W.out[o] = 1..n
  BY <1>1, <1>2, <1>3, LenProperties
<1>5. Points(g.out[b]) = Points(W.out[o])
  BY <1>2, <1>4 DEF Points
<1>6. ASSUME NEW t \in Block \ {o}
      PROVE  Points(g.in[t]) =
                [k \in DOMAIN W.in[t] |-> IF W.in[t][k].point = o THEN b ELSE W.in[t][k].point]
  <2>1. /\ Len(g.in[t]) = Len(W.in[t])
        /\ \A k \in 1..Len(W.in[t]) : \/ g.in[t][k].point = W.in[t][k].point
                                      \/ W.in[t][k].point = o /\ g.in[t][k].point = b
    BY DEF Splicing
  <2>2. g.in[t] \in Seq(Edge) /\ W.in[t] \in Seq(Edge)
    BY GraphFacts DEF Sound
  <2>3. ASSUME NEW k \in 1..Len(W.in[t])
        PROVE  g.in[t][k].point = IF W.in[t][k].point = o THEN b ELSE W.in[t][k].point
    <3>1. InSlotOK(g, {}, t, k)
      BY <2>1 DEF Sound, MirroredBut
    <3>2. g.in[t][k].rev \in 1..Len(g.out[g.in[t][k].point])
      BY <3>1 DEF InSlotOK
    <3>3. g.in[t][k].point # o
      BY <3>2
    <3> QED BY <2>1, <3>3
  <2>4. DOMAIN g.in[t] = 1..Len(W.in[t]) /\ DOMAIN W.in[t] = 1..Len(W.in[t])
    BY <2>1, <2>2, LenProperties
  <2> QED BY <2>3, <2>4 DEF Points
<1> QED BY <1>5, <1>6

-----------------------------------------------------------------------------
\* Lists of b's side after replaceEdgesThru: slot q of t leads to p, and slot i of b is gone.
Thru(u, v, b, i, t, q, p) ==
    /\ \A c \in Block \ {b} : Len(u[c]) = Len(v[c]) /\ \A k \in 1..Len(v[c]) :
          u[c][k].point = IF c = t /\ k = q THEN p ELSE v[c][k].point
    /\ Len(u[b]) = Len(v[b]) - 1
    /\ \A k \in 1..Len(u[b]) : u[b][k].point = (IF k < i THEN v[b][k] ELSE v[b][k + 1]).point

\* b has no edge to itself.
NoLoop(g, b) ==
    /\ \A k \in 1..Len(g.in[b]) : g.in[b][k].point # b
    /\ \A k \in 1..Len(g.out[b]) : g.out[b][k].point # b

LEMMA ThruList ==
    ASSUME NEW b \in Block, NEW t \in Block, t # b, NEW q, NEW x, NEW u, NEW v, NEW h,
           SlotSet(h, v, t, q, x), Len(v[b]) \in Nat, NEW i \in 1..Len(v[b]),
           Cut(u[b], h[b], i), OthersKept(u, h, b)
    PROVE  Thru(u, v, b, i, t, q, x.point)
<1>1. /\ \A d \in Block : Len(h[d]) = Len(v[d])
      /\ \A d \in Block : \A n \in 1..Len(v[d]) : <<d, n>> # <<t, q>> => h[d][n] = v[d][n]
      /\ h[t][q] = x
  BY DEF SlotSet
<1>2. ASSUME NEW c \in Block \ {b}
      PROVE  Len(u[c]) = Len(v[c]) /\ \A k \in 1..Len(v[c]) :
                u[c][k].point = IF c = t /\ k = q THEN x.point ELSE v[c][k].point
  <2>1. Len(u[c]) = Len(h[c]) /\ \A k \in 1..Len(h[c]) : u[c][k].point = h[c][k].point
    BY DEF OthersKept, Kept, SameEdge
  <2>2. Len(h[c]) = Len(v[c])
    BY <1>1
  <2>3. ASSUME NEW k \in 1..Len(v[c])
        PROVE  u[c][k].point = IF c = t /\ k = q THEN x.point ELSE v[c][k].point
    <3>1. u[c][k].point = h[c][k].point
      BY <2>1, <2>2
    <3>2. CASE c = t /\ k = q
      BY <1>1, <3>1, <3>2
    <3>3. CASE ~(c = t /\ k = q)
      <4>1. <<c, k>> # <<t, q>>
        BY <3>3
      <4>2. h[c][k] = v[c][k]
        BY <1>1, <4>1
      <4> QED BY <3>1, <3>3, <4>2
    <3> QED BY <3>2, <3>3
  <2> QED BY <2>1, <2>2, <2>3
<1>3. PICK m \in Nat : m = Len(v[b]) /\ i \in 1..m
  OBVIOUS
<1>4. Len(u[b]) = m - 1 /\ \A k \in 1..(m - 1) : SameEdge(u[b][k], IF k < i THEN h[b][k] ELSE h[b][k + 1])
  <2>1. Len(h[b]) = m
    BY <1>1, <1>3
  <2> QED BY <2>1 DEF Cut
<1>5. \A n \in 1..m : h[b][n] = v[b][n]
  <2>1. ASSUME NEW n \in 1..m PROVE h[b][n] = v[b][n]
    <3>1. <<b, n>> # <<t, q>>
      OBVIOUS
    <3> QED BY <1>1, <1>3, <3>1
  <2> QED BY <2>1
<1>6. ASSUME NEW k \in 1..(m - 1) PROVE u[b][k].point = (IF k < i THEN v[b][k] ELSE v[b][k + 1]).point
  <2>1. k \in 1..m /\ k + 1 \in 1..m
    OBVIOUS
  <2>2. h[b][k] = v[b][k] /\ h[b][k + 1] = v[b][k + 1]
    BY <1>5, <2>1
  <2> QED BY <1>4, <2>2 DEF SameEdge
<1> QED BY <1>2, <1>3, <1>4, <1>6 DEF Thru

LEMMA ThruPoints ==
    ASSUME NEW g, Sound(g), NEW b \in Block, NEW i \in 1..Len(g.in[b]), NEW o \in 1..Len(g.out[b]),
           NoLoop(g, b), NEW z, z = ReplaceEdgesThru(g, b, i, o),
           NEW p, p = g.in[b][i].point, NEW t, t = g.out[b][o].point
    PROVE  /\ Thru(z.in, g.in, b, i, t, g.out[b][o].rev, p)
           /\ Thru(z.out, g.out, b, o, p, g.in[b][i].rev, t)
<1>1. PICK p1 \in Block, r \in Nat, t1 \in Block, q \in Nat, h \in Graph :
         Joined(g, b, i, o, p1, r, t1, q, h)
  BY JoinOuter
<1>2. PICK x, y : /\ x = [label |-> g.in[t][q].label, point |-> p, rev |-> r]
                  /\ y = [label |-> g.out[p][r].label, point |-> t, rev |-> q]
  OBVIOUS
<1>3. /\ p \in Block /\ r = g.in[b][i].rev /\ t \in Block /\ q = g.out[b][o].rev
      /\ SlotSet(h.out, g.out, p, r, y) /\ SlotSet(h.in, g.in, t, q, x)
      /\ z = HalfDeleteOut(HalfDeleteIn(h, b, i), b, o)
  BY Zenon, <1>1, <1>2 DEF Joined
<1>4. p # b /\ t # b /\ x.point = p /\ y.point = t
  BY <1>2 DEF NoLoop
<1>5. Len(h.in[b]) = Len(g.in[b]) /\ Len(h.out[b]) = Len(g.out[b])
  BY <1>3 DEF SlotSet
<1>6. i \in 1..Len(h.in[b]) /\ o \in 1..Len(h.out[b])
  BY <1>5
<1>7. PICK m \in Graph : m = HalfDeleteIn(h, b, i)
  BY <1>1, <1>6, HalfDeleteInOK DEF Joined
<1>8. Cut(m.in[b], h.in[b], i) /\ OthersKept(m.in, h.in, b) /\ \A c \in Block : Kept(m.out[c], h.out[c])
  BY <1>6, <1>7, HalfDeleteInKeeps
<1>9. Cut(z.out[b], m.out[b], o) /\ OthersKept(z.out, m.out, b) /\ \A c \in Block : Kept(z.in[c], m.in[c])
  <2>1. o \in 1..Len(m.out[b])
    BY <1>6, <1>8 DEF Kept
  <2>2. z = HalfDeleteOut(m, b, o)
    BY <1>3, <1>7
  <2> QED BY <2>1, <2>2, HalfDeleteOutKeeps
<1>10. \A c \in Block : /\ Len(g.in[c]) \in Nat /\ Len(g.out[c]) \in Nat
                        /\ Len(h.in[c]) \in Nat /\ Len(h.out[c]) \in Nat
  BY GraphFacts DEF Sound
<1>11. Cut(z.in[b], h.in[b], i)
  BY <1>8, <1>9, <1>10, KeptTwice
<1>12. Cut(z.out[b], h.out[b], o)
  BY <1>6, <1>8, <1>9, <1>10, CutKept
<1>13. OthersKept(z.in, h.in, b) /\ OthersKept(z.out, h.out, b)
  BY <1>8, <1>9, KeptTwice DEF OthersKept
<1>14. Thru(z.in, g.in, b, i, t, q, x.point)
  BY <1>3, <1>4, <1>10, <1>11, <1>13, ThruList
<1>15. Thru(z.out, g.out, b, o, p, r, y.point)
  BY <1>3, <1>4, <1>10, <1>12, <1>13, ThruList
<1> QED BY <1>3, <1>4, <1>14, <1>15

\* What is left in b's list of two when a slot is gone
Left(u, v, b, i) == Len(u[b]) = 1 /\ u[b][1].point = v[b][3 - i].point

LEMMA OneLeft ==
    ASSUME NEW u, NEW v, NEW b \in Block, NEW i \in 1..2, NEW t, NEW q, NEW p,
           Thru(u, v, b, i, t, q, p), Len(v[b]) = 2
    PROVE  Left(u, v, b, i)
<1>1. Len(u[b]) = 2 - 1
  BY DEF Thru
<1>2. 1 \in 1..Len(u[b]) /\ 1 + 1 = 2 /\ 2 - 1 = 1
  BY <1>1
<1>3. u[b][1].point = (IF 1 < i THEN v[b][1] ELSE v[b][1 + 1]).point
  BY <1>2 DEF Thru
<1>4. (i = 1 /\ 3 - i = 2 /\ ~(1 < i)) \/ (i = 2 /\ 3 - i = 1 /\ 1 < i)
  OBVIOUS
<1> QED BY <1>1, <1>2, <1>3, <1>4 DEF Left

\* Two in-slots and two out-slots of b joined, out-slot o with in-slot i: what the in-slots
\* of another block c lead to.
Wired(g, z, b, c, i, o) ==
    /\ Len(z.in[c]) = Len(g.in[c])
    /\ \A k \in 1..Len(g.in[c]) :
          z.in[c][k].point = IF g.in[c][k].point = b
                             THEN g.in[b][IF g.in[c][k].rev = o THEN i ELSE 3 - i].point
                             ELSE g.in[c][k].point

LEMMA TwoJoins ==
    ASSUME NEW g, Sound(g), NEW h, Sound(h), NEW z, NEW b \in Block, NoLoop(g, b),
           Len(g.in[b]) = 2, Len(g.out[b]) = 2, NEW i \in 1..2, NEW o \in 1..2,
           Thru(h.in, g.in, b, i, g.out[b][o].point, g.out[b][o].rev, g.in[b][i].point),
           Thru(h.out, g.out, b, o, g.in[b][i].point, g.in[b][i].rev, g.out[b][o].point),
           Thru(z.in, h.in, b, 1, h.out[b][1].point, h.out[b][1].rev, h.in[b][1].point),
           NEW c \in Block, c # b
    PROVE  Wired(g, z, b, c, i, o)
<1>1. PICK t \in Block, q \in Nat : OutMirrorIs(g, b, o, t, q)
  <2>1. o \in 1..Len(g.out[b])
    OBVIOUS
  <2> QED BY <2>1, OutMirror
<1>2. /\ t = g.out[b][o].point /\ q = g.out[b][o].rev /\ q \in 1..Len(g.in[t])
      /\ g.in[t][q].point = b /\ g.in[t][q].rev = o
  BY <1>1 DEF OutMirrorIs
<1>3. PICK p : p = g.in[b][i].point /\ p # b
  <2>1. i \in 1..Len(g.in[b])
    OBVIOUS
  <2> QED BY <2>1 DEF NoLoop
<1>4. /\ Len(h.in[c]) = Len(g.in[c])
      /\ \A n \in 1..Len(g.in[c]) : h.in[c][n].point = IF c = t /\ n = q THEN p ELSE g.in[c][n].point
  <2>1. Thru(h.in, g.in, b, i, t, q, p)
    BY <1>2, <1>3
  <2> QED BY <2>1 DEF Thru
<1>5. Len(h.in[b]) = 1 /\ h.in[b][1].point = g.in[b][3 - i].point
  <2>1. Thru(h.in, g.in, b, i, t, q, p) /\ Len(g.in[b]) = 2 /\ i \in 1..2 /\ b \in Block
    BY <1>2, <1>3
  <2>2. Left(h.in, g.in, b, i)
    BY ONLY <2>1, OneLeft, Zenon
  <2> QED BY <2>2 DEF Left
<1>6. Len(h.out[b]) = 1 /\ h.out[b][1].point = g.out[b][3 - o].point
  <2>1. PICK r : r = g.in[b][i].rev
    OBVIOUS
  <2>2. Thru(h.out, g.out, b, o, p, r, t) /\ Len(g.out[b]) = 2 /\ o \in 1..2 /\ b \in Block
    BY <1>2, <1>3, <2>1
  <2>3. Left(h.out, g.out, b, o)
    BY ONLY <2>2, OneLeft, Zenon
  <2> QED BY <2>3 DEF Left
<1>7. PICK one \in 1..Len(h.out[b]) : one = 1
  BY <1>6
<1>8. PICK t2 \in Block, q2 \in Nat : OutMirrorIs(h, b, one, t2, q2)
  BY OutMirror
<1>9. /\ t2 = h.out[b][1].point /\ q2 = h.out[b][1].rev /\ q2 \in 1..Len(h.in[t2])
      /\ h.in[t2][q2].point = b
  BY <1>7, <1>8 DEF OutMirrorIs
<1>10. /\ Len(z.in[c]) = Len(h.in[c])
       /\ \A n \in 1..Len(h.in[c]) :
             z.in[c][n].point = IF c = t2 /\ n = q2 THEN g.in[b][3 - i].point ELSE h.in[c][n].point
  <2>1. Thru(z.in, h.in, b, 1, t2, q2, g.in[b][3 - i].point)
    BY Zenon, <1>5, <1>9
  <2> QED BY <2>1 DEF Thru
<1>11. ASSUME NEW n \in 1..Len(g.in[c]), g.in[c][n].point = b
       PROVE  /\ g.in[c][n].rev = o => c = t /\ n = q
              /\ g.in[c][n].rev # o => g.out[b][3 - o].point = c /\ g.out[b][3 - o].rev = n
  <2>1. InSlotOK(g, {}, c, n)
    BY DEF Sound, MirroredBut
  <2>2. /\ g.in[c][n].rev \in 1..Len(g.out[b]) /\ g.out[b][g.in[c][n].rev].point = c
        /\ g.out[b][g.in[c][n].rev].rev = n
    BY Zenon, <1>11, <2>1 DEF InSlotOK
  <2>3. PICK v \in 1..2 : v = g.in[c][n].rev
    BY <2>2
  <2>4. v # o => v = 3 - o
    OBVIOUS
  <2> QED BY <1>2, <2>2, <2>3, <2>4
<1> SUFFICES ASSUME NEW k \in 1..Len(g.in[c])
             PROVE  z.in[c][k].point = IF g.in[c][k].point = b
                                       THEN g.in[b][IF g.in[c][k].rev = o THEN i ELSE 3 - i].point
                                       ELSE g.in[c][k].point
  BY <1>4, <1>10 DEF Wired
<1>12. k \in 1..Len(h.in[c])
  BY <1>4
<1>13. CASE g.in[c][k].point # b
  <2>1. ~(c = t /\ k = q)
    BY <1>2, <1>13
  <2>2. h.in[c][k].point = g.in[c][k].point
    BY <1>4, <2>1
  <2>3. ~(c = t2 /\ k = q2)
    BY Zenon, <1>9, <1>13, <2>2
  <2> QED BY <1>4, <1>10, <1>12, <1>13, <2>2, <2>3
<1>14. CASE g.in[c][k].point = b /\ g.in[c][k].rev = o
  <2>1. c = t /\ k = q
    BY <1>11, <1>14
  <2>2. h.in[c][k].point = p
    BY <1>4, <2>1
  <2>3. ~(c = t2 /\ k = q2)
    BY Zenon, <1>3, <1>9, <2>2
  <2> QED BY <1>3, <1>4, <1>10, <1>12, <1>14, <2>2, <2>3
<1>15. CASE g.in[c][k].point = b /\ g.in[c][k].rev # o
  <2>1. g.out[b][3 - o].point = c /\ g.out[b][3 - o].rev = k
    BY <1>11, <1>15
  <2>2. c = t2 /\ q2 \in 1..Len(g.in[c])
    BY <1>4, <1>6, <1>9, <2>1
  <2>3. h.in[c][q2].point = b
    BY <1>9, <2>2
  <2>4. ~(c = t /\ q2 = q) /\ g.in[c][q2].point = b
    BY <1>3, <1>4, <2>2, <2>3
  <2>5. g.in[c][q2].rev # o
    BY <1>11, <2>2, <2>4
  <2>6. q2 = k
    BY <1>11, <2>1, <2>2, <2>4, <2>5
  <2> QED BY <1>4, <1>10, <1>12, <1>15, <2>2, <2>6
<1> QED BY <1>13, <1>14, <1>15

\* removeFromFlowSplit joins the slots of b twice, on either side.
LEMMA SplitLists ==
    ASSUME NEW g, Sound(g), NEW b \in Block, NoLoop(g, b), Len(g.in[b]) = 2, Len(g.out[b]) = 2,
           NEW i \in 1..2, NEW o \in 1..2, NEW h, h = ReplaceEdgesThru(g, b, i, o),
           NEW n \in 1..1, NEW z, z = ReplaceEdgesThru(h, b, n, n), NEW c \in Block, c # b
    PROVE  Wired(g, z, b, c, i, o) /\ Wired(Flip(g), Flip(z), b, c, o, i) /\ Sound(z)
<1>1. i \in 1..Len(g.in[b]) /\ o \in 1..Len(g.out[b]) /\ n = 1
  OBVIOUS
<1>2. PICK p, t : p = g.in[b][i].point /\ t = g.out[b][o].point
  OBVIOUS
<1>3. Thru(h.in, g.in, b, i, t, g.out[b][o].rev, p) /\ Thru(h.out, g.out, b, o, p, g.in[b][i].rev, t)
  BY <1>1, <1>2, ThruPoints
<1>4. Left(h.in, g.in, b, i) /\ Left(h.out, g.out, b, o)
  <2>1. PICK q, r : q = g.out[b][o].rev /\ r = g.in[b][i].rev
    OBVIOUS
  <2>2. /\ Thru(h.in, g.in, b, i, t, q, p) /\ Len(g.in[b]) = 2 /\ i \in 1..2 /\ b \in Block
        /\ Thru(h.out, g.out, b, o, p, r, t) /\ Len(g.out[b]) = 2 /\ o \in 1..2
    BY <1>3, <2>1
  <2>3. Left(h.in, g.in, b, i)
    BY ONLY <2>2, OneLeft, Zenon
  <2>4. Left(h.out, g.out, b, o)
    BY ONLY <2>2, OneLeft, Zenon
  <2> QED BY <2>3, <2>4
<1>5. Sound(h)
  <2> DEFINE u == ReplaceEdgesThru(g, b, i, o)
  <2>1. Sound(u)
    BY <1>1, ReplaceEdgesThruOK
  <2> QED BY <2>1
<1>6. NoLoop(h, b)
  <2>1. 3 - i \in 1..Len(g.in[b]) /\ 3 - o \in 1..Len(g.out[b])
    OBVIOUS
  <2>2. /\ Len(h.in[b]) = 1 /\ h.in[b][1].point # b
        /\ Len(h.out[b]) = 1 /\ h.out[b][1].point # b
    BY <1>4, <2>1 DEF Left, NoLoop
  <2>3. \A k \in 1..1 : k = 1
    OBVIOUS
  <2> QED BY <2>2, <2>3 DEF NoLoop
<1>7. n \in 1..Len(h.in[b]) /\ n \in 1..Len(h.out[b])
  BY <1>4 DEF Left
<1>8. PICK p2, t2 : p2 = h.in[b][n].point /\ t2 = h.out[b][n].point
  OBVIOUS
<1>9. Thru(z.in, h.in, b, n, t2, h.out[b][n].rev, p2) /\ Thru(z.out, h.out, b, n, p2, h.in[b][n].rev, t2)
  BY <1>5, <1>6, <1>7, <1>8, ThruPoints
<1>10. Wired(g, z, b, c, i, o)
  <2>1. Thru(h.in, g.in, b, i, g.out[b][o].point, g.out[b][o].rev, g.in[b][i].point)
    BY <1>2, <1>3
  <2>2. Thru(h.out, g.out, b, o, g.in[b][i].point, g.in[b][i].rev, g.out[b][o].point)
    BY <1>2, <1>3
  <2>3. Thru(z.in, h.in, b, 1, h.out[b][1].point, h.out[b][1].rev, h.in[b][1].point)
    BY <1>1, <1>8, <1>9
  <2> QED BY <1>5, <2>1, <2>2, <2>3, TwoJoins
<1>11. PICK fg, fh, fz : fg = Flip(g) /\ fh = Flip(h) /\ fz = Flip(z)
  OBVIOUS
<1>12. /\ fg.in = g.out /\ fg.out = g.in /\ fh.in = h.out /\ fh.out = h.in /\ fz.in = z.out
  BY <1>11 DEF Flip
<1>13. Sound(fg) /\ Sound(fh) /\ NoLoop(fg, b)
  <2>1. g \in Graph /\ h \in Graph
    BY <1>5 DEF Sound
  <2>2. Sound(fg) /\ Sound(fh)
    BY <1>5, <1>11, <2>1, FlipSound
  <2> QED BY <1>12, <2>2 DEF NoLoop
<1>14. Wired(fg, fz, b, c, o, i)
  <2>1. Thru(fh.in, fg.in, b, o, fg.out[b][i].point, fg.out[b][i].rev, fg.in[b][o].point)
    BY <1>2, <1>3, <1>12
  <2>2. Thru(fh.out, fg.out, b, i, fg.in[b][o].point, fg.in[b][o].rev, fg.out[b][i].point)
    BY <1>2, <1>3, <1>12
  <2>3. Thru(fz.in, fh.in, b, 1, fh.out[b][1].point, fh.out[b][1].rev, fh.in[b][1].point)
    BY <1>1, <1>8, <1>9, <1>12
  <2>4. Len(fg.in[b]) = 2 /\ Len(fg.out[b]) = 2
    BY <1>12
  <2> QED BY <1>13, <2>1, <2>2, <2>3, <2>4, TwoJoins
<1>15. Sound(z)
  <2> DEFINE u == ReplaceEdgesThru(h, b, n, n)
  <2>1. Sound(u)
    BY <1>5, <1>7, ReplaceEdgesThruOK
  <2> QED BY <2>1
<1> QED BY <1>10, <1>11, <1>14, <1>15

-----------------------------------------------------------------------------
(***************************************************************************)
(* What a loop has done so far, told from the graph it began with.           *)
(***************************************************************************)
BypassStarted(W, b, s, j) ==
    /\ Sound(W) /\ Len(W.out[b]) = 1 /\ s = W.out[b][1].point /\ j = W.out[b][1].rev /\ s # b

BypassRun(W, b, s, j, g, n) == j \in 1..Len(W.in[s]) /\ Bypassing(W, b, s, j, g, n)

RewireOK ==
    /\ task.op = "bypassOut" => \E s \in Block, j \in Nat :
          BypassStarted(task.was, task.bl, s, j) /\ (Len(graph.out[task.bl]) = 0 \/ graph = task.was)
    /\ task.op = "bypassIn" => \E j \in Nat, n \in Nat :
          /\ BypassStarted(task.was, task.bl, task.to, j)
          /\ BypassRun(task.was, task.bl, task.to, j, graph, n)
    /\ task.op = "move" /\ task.to # task.bl => \E n \in Nat : Splicing(task.was, task.bl, task.to, graph, n)

\* The comparison looks at the edge lists only.
LEMMA RunNow ==
    ASSUME NEW h, Becomes(h), NEW W, NEW b, NEW s, NEW j, NEW n
    PROVE  /\ Bypassing(W, b, s, j, h, n) => Bypassing(W, b, s, j, graph', n)
           /\ Splicing(W, b, s, h, n) => Splicing(W, b, s, graph', n)
           /\ graph'.in = h.in /\ graph'.out = h.out
<1>1. graph'.in = h.in /\ graph'.out = h.out
  BY DEF Becomes, graph
<1>2. Bypassing(W, b, s, j, h, n) => Bypassing(W, b, s, j, graph', n)
  BY ONLY <1>1 DEF Bypassing
<1>3. Splicing(W, b, s, h, n) => Splicing(W, b, s, graph', n)
  BY ONLY <1>1 DEF Splicing
<1> QED BY <1>1, <1>2, <1>3

LEMMA BypassOutRewires ==
    ASSUME LabelInv, RewireOK, BypassOut
    PROVE  RewireOK'
<1>1. PICK b \in Block, W \in Graph : b = task.bl /\ W = task.was
  BY Now, TaskNow DEF BypassOut, Task
<1>2. task \in Task /\ task.op = "bypassOut" /\ graph.out = outEdges
  BY Now, TaskNow, GraphNow DEF BypassOut
<1>3. PICK s \in Block, j \in Nat : BypassStarted(W, b, s, j) /\ (Len(graph.out[b]) = 0 \/ graph = W)
  BY <1>1, <1>2 DEF RewireOK
<1>4. Sound(W) /\ Len(W.out[b]) = 1 /\ s = W.out[b][1].point /\ j = W.out[b][1].rev /\ s # b
  BY <1>3 DEF BypassStarted
<1>5. CASE Len(outEdges[b]) > 0
  <2>1. graph = W /\ W.out = outEdges /\ Len(outEdges[b]) = 1
    BY <1>2, <1>3, <1>4, <1>5
  <2>2. PICK n \in 1..Len(W.out[b]) : n = 1 /\ n = Len(outEdges[b])
    BY <1>4, <2>1
  <2>3. PICK h : h = RemoveOutEdge(W, b, n)
    OBVIOUS
  <2>4. Becomes(h) /\ task' = [task EXCEPT !.op = "bypassIn", !.to = s]
    BY <1>1, <1>4, <1>5, <2>1, <2>2, <2>3 DEF BypassOut
  <2>5. Bypassing(W, b, s, j, h, 0) /\ j \in 1..Len(W.in[s])
    BY <1>4, <2>2, <2>3, BypassFirst
  <2>6. task'.op = "bypassIn" /\ task'.bl = b /\ task'.to = s /\ task'.was = W
    BY <1>1, <1>2, <2>4 DEF Task
  <2>7. BypassRun(W, b, s, j, graph', 0)
    BY <2>4, <2>5, RunNow DEF BypassRun
  <2> QED BY <1>3, <2>6, <2>7 DEF RewireOK
<1>6. CASE ~(Len(outEdges[b]) > 0)
  <2>1. task' = [task EXCEPT !.op = "detach"]
    BY <1>1, <1>6 DEF BypassOut, Goto
  <2>2. task'.op = "detach"
    BY <1>2, <2>1 DEF Task
  <2> QED BY <2>2 DEF RewireOK
<1> QED BY <1>5, <1>6

LEMMA BypassInRewires ==
    ASSUME LabelInv, BypassOK, RewireOK, BypassIn
    PROVE  RewireOK'
<1>1. PICK b \in Block, s \in Block, W \in Graph : b = task.bl /\ s = task.to /\ W = task.was
  BY Now, TaskNow DEF BypassIn, Task
<1>2. /\ task \in Task /\ task.op = "bypassIn" /\ graph.in = inEdges /\ graph.out = outEdges
      /\ Len(graph.out[b]) = 0
  BY <1>1, Now, TaskNow, GraphNow DEF BypassIn, BypassOK
<1>3. PICK j \in Nat, n \in Nat : BypassStarted(W, b, s, j) /\ BypassRun(W, b, s, j, graph, n)
  BY <1>1, <1>2 DEF RewireOK
<1>4. s # b /\ j \in 1..Len(W.in[s]) /\ Bypassing(W, b, s, j, graph, n)
  BY <1>3 DEF BypassStarted, BypassRun
<1>5. CASE inEdges[b] # <<>>
  <2>1. PICK i \in 1..Len(graph.in[b]) : i = 1
    BY <1>5, Now, GraphNow
  <2>2. PICK p \in Block, r \in Nat : InMirrorIs(graph, b, i, p, r)
    BY Now, InMirror
  <2>3. p = inEdges[b][1].point /\ r = inEdges[b][1].rev
    BY <1>2, <2>1, <2>2 DEF InMirrorIs
  <2>4. PICK h : h = ReplaceOutEdge(graph, p, r, s)
    OBVIOUS
  <2>5. Becomes(h) /\ task' = task
    BY <1>1, <1>5, <2>3, <2>4 DEF BypassIn
  <2>6. Bypassing(W, b, s, j, h, n + 1)
    BY <1>2, <1>4, <2>1, <2>2, <2>4, Now, BypassMore
  <2>7. BypassRun(W, b, s, j, graph', n + 1)
    BY <1>4, <2>5, <2>6, RunNow DEF BypassRun
  <2> QED BY <1>1, <1>2, <1>3, <2>5, <2>7 DEF RewireOK
<1>6. CASE inEdges[b] = <<>>
  <2>1. UNCHANGED <<inEdges, outEdges>> /\ task' = [task EXCEPT !.op = "bypassOut"]
    BY <1>1, <1>6 DEF BypassIn, Goto
  <2>2. task'.op = "bypassOut" /\ task'.bl = b /\ task'.was = W
    BY <1>1, <1>2, <2>1 DEF Task
  <2>3. graph'.out = graph.out
    BY <2>1 DEF graph
  <2> QED BY <1>2, <1>3, <2>2, <2>3 DEF RewireOK
<1> QED BY <1>5, <1>6

LEMMA SpliceMoveRewires ==
    ASSUME LabelInv, RewireOK, SpliceMove
    PROVE  RewireOK'
<1>1. PICK b \in Block, o \in Block, W \in Graph : b = task.bl /\ o = task.to /\ W = task.was
  BY Now, TaskNow DEF SpliceMove, Task
<1>2. task \in Task /\ task.op = "move" /\ graph.out = outEdges
  BY Now, TaskNow, GraphNow DEF SpliceMove
<1>3. CASE outEdges[o] # <<>> /\ o # b
  <2>1. PICK i \in 1..Len(graph.out[o]) : i = 1
    BY <1>3, Now, GraphNow
  <2>2. PICK t \in Block, j \in Nat : OutMirrorIs(graph, o, i, t, j)
    BY Now, OutMirror
  <2>3. t = outEdges[o][1].point /\ j = outEdges[o][1].rev
    BY <1>2, <2>1, <2>2 DEF OutMirrorIs
  <2>4. PICK h : h = ReplaceInEdge(graph, t, j, b)
    OBVIOUS
  <2>5. Becomes(h) /\ task' = task
    BY <1>1, <1>3, <2>3, <2>4 DEF SpliceMove
  <2>6. PICK n \in Nat : Splicing(W, b, o, graph, n)
    BY <1>1, <1>2, <1>3 DEF RewireOK
  <2>7. Splicing(W, b, o, h, n + 1)
    BY <1>3, <2>1, <2>2, <2>4, <2>6, Now, SpliceMore
  <2>8. Splicing(W, b, o, graph', n + 1)
    BY <2>5, <2>7, RunNow
  <2> QED BY <1>1, <1>2, <2>5, <2>8 DEF RewireOK
<1>4. CASE ~(outEdges[o] # <<>> /\ o # b)
  <2>1. task' = [task EXCEPT !.op = "detach", !.bl = o, !.to = b]
    BY <1>1, <1>4 DEF SpliceMove
  <2>2. task'.op = "detach"
    BY <1>2, <2>1 DEF Task
  <2> QED BY <2>2 DEF RewireOK
<1> QED BY <1>3, <1>4

LEMMA RemoveDoNothingBlockRewires ==
    ASSUME LabelInv, NEW b \in Block, RemoveDoNothingBlock(b)
    PROVE  RewireOK'
<1>1. /\ Len(graph.out[b]) = 1 /\ graph.out[b][1].point # b
      /\ graph' = graph
      /\ task' = [by |-> "RemoveDoNothingBlock", op |-> "bypassOut", bl |-> b,
                  to |-> graph.out[b][1].point, was |-> graph]
  BY Now, GraphNow DEF RemoveDoNothingBlock, Start, graph
<1>2. PICK one \in 1..Len(graph.out[b]) : one = 1
  BY <1>1
<1>3. PICK s \in Block, j \in Nat : s = graph.out[b][1].point /\ j = graph.out[b][1].rev
  BY <1>2, Now, GraphFacts DEF Sound
<1>4. BypassStarted(graph, b, s, j)
  BY <1>1, <1>3, Now DEF BypassStarted
<1>5. task'.op = "bypassOut" /\ task'.bl = b /\ task'.was = graph
  BY <1>1
<1> QED BY <1>1, <1>4, <1>5 DEF RewireOK

LEMMA SpliceBlockBasicRewires ==
    ASSUME LabelInv, NEW b \in Block, SpliceBlockBasic(b)
    PROVE  RewireOK'
<1>1. PICK o, W : o = outEdges[b][1].point /\ W = graph
  OBVIOUS
<1>2. /\ Len(outEdges[b]) = 1 /\ Becomes(RemoveOutEdge(graph, b, 1))
      /\ task' = [by |-> "spliceBlockBasic", op |-> "move", bl |-> b, to |-> o, was |-> W]
  BY <1>1 DEF SpliceBlockBasic, Start
<1>3. Sound(W) /\ W.out = outEdges
  BY <1>1, Now, GraphNow
<1>4. PICK k \in 1..Len(W.out[b]) : k = 1
  BY <1>2, <1>3
<1>5. o \in Block /\ o = W.out[b][k].point
  BY <1>1, <1>3, <1>4, GraphFacts DEF Sound
<1>6. PICK h : h = RemoveOutEdge(W, b, k)
  OBVIOUS
<1>7. task'.op = "move" /\ task'.bl = b /\ task'.to = o /\ task'.was = W
  BY <1>2
<1>8. ASSUME o # b PROVE Splicing(W, b, o, graph', 0)
  <2>1. Splicing(W, b, o, h, 0)
    BY <1>2, <1>3, <1>4, <1>5, <1>6, <1>8, SpliceFirst
  <2>2. Becomes(h)
    BY <1>1, <1>2, <1>4, <1>6
  <2> QED BY <2>1, <2>2, RunNow
<1> QED BY <1>7, <1>8 DEF RewireOK

LEMMA NextRewires == LabelInv /\ BypassOK /\ RewireOK /\ [Next]_vars => RewireOK'
<1> SUFFICES ASSUME LabelInv, BypassOK, RewireOK, [Next]_vars PROVE RewireOK'
  OBVIOUS
<1>1. CASE BypassOut
  BY <1>1, BypassOutRewires
<1>2. CASE BypassIn
  BY <1>2, BypassInRewires
<1>3. CASE SpliceMove
  BY <1>3, SpliceMoveRewires
<1>4. CASE Detach
  <2>1. task'.op \in {"detach", "reset"}
    BY <1>4, DetachShrinks
  <2> QED BY <2>1 DEF RewireOK
<1>5. ASSUME NEW b \in Block, RemoveDoNothingBlock(b) PROVE RewireOK'
  BY <1>5, RemoveDoNothingBlockRewires
<1>6. ASSUME NEW b \in Block, SpliceBlockBasic(b) PROVE RewireOK'
  BY <1>6, SpliceBlockBasicRewires
<1>7. CASE task' = Idle \/ task'.op \in {"idle", "detach"}
  BY <1>7 DEF RewireOK, Idle
<1>8. CASE UNCHANGED vars
  <2>1. graph' = graph /\ task' = task
    BY ONLY <1>8 DEF vars, graph
  <2> QED BY <2>1 DEF RewireOK
<1> QED BY <1>1, <1>2, <1>3, <1>4, <1>5, <1>6, <1>7, <1>8, StepCases

LEMMA RewireInvariance == Spec => [](LabelInv /\ BypassOK /\ RewireOK)
<1>1. Init => RewireOK
  BY DEF Init, RewireOK, Idle
<1>2. LabelInv /\ BypassOK /\ RewireOK /\ [Next]_vars => (LabelInv /\ BypassOK /\ RewireOK)'
  BY NextLabels, NextBypass, NextRewires
<1> QED BY <1>1, <1>2, BypassInvariance, InitLabels, PTL DEF Spec

\* The last step of removeFromFlow's inner loop finds the slots in place.
LEMMA BypassKeeps ==
    ASSUME LabelInv, RewireOK, BypassIn
    PROVE  BypassKept
<1>1. PICK b \in Block, s \in Block, W \in Graph : b = task.bl /\ s = task.to /\ W = task.was
  BY Now, TaskNow DEF BypassIn, Task
<1>2. /\ task \in Task /\ task.op = "bypassIn" /\ graph.in = inEdges /\ graph.out = outEdges
  BY Now, TaskNow, GraphNow DEF BypassIn
<1>3. PICK j \in Nat, n \in Nat : BypassStarted(W, b, s, j) /\ BypassRun(W, b, s, j, graph, n)
  BY <1>1, <1>2 DEF RewireOK
<1>4. /\ s = W.out[b][1].point /\ j = W.out[b][1].rev /\ s # b
      /\ j \in 1..Len(W.in[s]) /\ Bypassing(W, b, s, j, graph, n)
  BY <1>3 DEF BypassStarted, BypassRun
<1>5. CASE task'.op = "bypassOut"
  <2>1. Len(graph.in[b]) = 0
    BY <1>1, <1>2, <1>5, Now, GraphNow DEF BypassIn
  <2>2. Sound(graph) /\ Len(graph.in[b]) = 0
    BY <2>1, Now
  <2>3. BypassDone(W, b, s, j, graph)
    BY <1>4, <2>2, BypassLast
  <2>4. /\ task.was = W /\ task.bl = b /\ W.out[b][1].point = s /\ W.out[b][1].rev = j
    BY Zenon, <1>1, <1>4
  <2> QED BY ONLY <1>2, <2>3, <2>4 DEF BypassKept, BypassDone
<1>6. CASE task'.op # "bypassOut"
  BY <1>6 DEF BypassKept
<1> QED BY <1>5, <1>6

\* The last step of spliceOutput's loop finds them in place.
LEMMA SpliceKeeps ==
    ASSUME LabelInv, RewireOK, SpliceMove
    PROVE  SpliceKept
<1>1. PICK b \in Block, o \in Block, W \in Graph : b = task.bl /\ o = task.to /\ W = task.was
  BY Now, TaskNow DEF SpliceMove, Task
<1>2. task.op = "move" /\ graph.in = inEdges /\ graph.out = outEdges
  BY Now, GraphNow DEF SpliceMove
<1>3. CASE task'.op = "detach" /\ o # b
  <2>1. Len(graph.out[o]) = 0
    BY <1>1, <1>2, <1>3, Now, GraphNow DEF SpliceMove
  <2>2. PICK n \in Nat : Splicing(W, b, o, graph, n)
    BY <1>1, <1>2, <1>3 DEF RewireOK
  <2>3. /\ Points(outEdges[b]) = Points(W.out[o])
        /\ \A t \in Block \ {o} : Points(inEdges[t]) =
              [k \in DOMAIN W.in[t] |-> IF W.in[t][k].point = o THEN b ELSE W.in[t][k].point]
    BY <1>2, <1>3, <2>1, <2>2, Now, SpliceLast
  <2> QED BY <1>1, <2>3 DEF SpliceKept
<1>4. CASE ~(task'.op = "detach" /\ o # b)
  BY <1>1, <1>4 DEF SpliceKept
<1> QED BY <1>3, <1>4

\* removeFromFlowSplit wires each in-edge of a block without a loop to one out-edge.
LEMMA SplitKeeps ==
    ASSUME LabelInv
    PROVE  SplitWired
<1> SUFFICES ASSUME NEW b \in Block, NEW swap \in BOOLEAN,
                    RemoveFromFlowSplit(b, swap), SlotsIn(graph, b, b) = {},
                    NEW o \in Block \ {b}
             PROVE  LET pair(i) == IF swap THEN 3 - i ELSE i IN
                    /\ Points(inEdges'[o]) = [k \in DOMAIN inEdges[o] |->
                           IF inEdges[o][k].point = b
                           THEN inEdges[b][pair(inEdges[o][k].rev)].point
                           ELSE inEdges[o][k].point]
                    /\ Points(outEdges'[o]) = [k \in DOMAIN outEdges[o] |->
                           IF outEdges[o][k].point = b
                           THEN outEdges[b][pair(outEdges[o][k].rev)].point
                           ELSE outEdges[o][k].point]
  BY DEF SplitWired
<1> DEFINE pair(i) == IF swap THEN 3 - i ELSE i
<1>1. PICK k \in 1..2, m \in 1..2, n \in 1..1 : k = (IF swap THEN 1 ELSE 2) /\ m = 2 /\ n = 1
  OBVIOUS
<1>2. PICK h : h = ReplaceEdgesThru(graph, b, k, m)
  OBVIOUS
<1>3. PICK z : z = ReplaceEdgesThru(h, b, n, n)
  OBVIOUS
<1>4. /\ inEdges' = z.in /\ outEdges' = z.out
      /\ graph.in = inEdges /\ graph.out = outEdges /\ Sound(graph)
      /\ Len(graph.in[b]) = 2 /\ Len(graph.out[b]) = 2
  BY <1>1, <1>2, <1>3, Now, GraphNow DEF RemoveFromFlowSplit, Becomes
<1>5. NoLoop(graph, b)
  <2>1. \A i \in 1..Len(graph.in[b]) : graph.in[b][i].point # b
    BY DEF SlotsIn
  <2>2. ASSUME NEW i \in 1..Len(graph.out[b]), graph.out[b][i].point = b PROVE FALSE
    <3>1. OutSlotOK(graph, {}, b, i)
      BY <1>4 DEF Sound, MirroredBut
    <3>2. /\ graph.out[b][i].rev \in 1..Len(graph.in[b])
          /\ graph.in[b][graph.out[b][i].rev].point = b
      BY <2>2, <3>1 DEF OutSlotOK
    <3> QED BY <2>1, <3>2
  <2> QED BY <2>1, <2>2 DEF NoLoop
<1>6. Wired(graph, z, b, o, k, m) /\ Wired(Flip(graph), Flip(z), b, o, m, k) /\ Sound(z)
  BY <1>2, <1>3, <1>4, <1>5, SplitLists
<1>7. /\ Flip(graph).in = graph.out /\ Flip(graph).out = graph.in /\ Flip(z).in = z.out
  BY DEF Flip
<1>8. \A r \in 1..2 : /\ (IF r = m THEN k ELSE 3 - k) = pair(r)
                       /\ (IF r = k THEN m ELSE 3 - m) = pair(r)
  <2>1. CASE swap
    BY <1>1, <2>1
  <2>2. CASE ~swap
    BY <1>1, <2>2
  <2> QED BY <2>1, <2>2
<1> HIDE DEF pair
<1>9. Points(inEdges'[o]) = [x \in DOMAIN inEdges[o] |->
          IF inEdges[o][x].point = b THEN inEdges[b][pair(inEdges[o][x].rev)].point
          ELSE inEdges[o][x].point]
  <2>1. /\ Len(z.in[o]) = Len(inEdges[o])
        /\ \A x \in 1..Len(inEdges[o]) :
              z.in[o][x].point = IF inEdges[o][x].point = b
                                 THEN inEdges[b][IF inEdges[o][x].rev = m THEN k ELSE 3 - k].point
                                 ELSE inEdges[o][x].point
    BY <1>4, <1>6 DEF Wired
  <2>2. ASSUME NEW x \in 1..Len(inEdges[o]), inEdges[o][x].point = b PROVE inEdges[o][x].rev \in 1..2
    <3>1. InSlotOK(graph, {}, o, x)
      BY <1>4 DEF Sound, MirroredBut
    <3> QED BY <1>4, <2>2, <3>1 DEF InSlotOK
  <2>3. DOMAIN z.in[o] = 1..Len(inEdges[o]) /\ DOMAIN inEdges[o] = 1..Len(inEdges[o])
    <3> QED BY <1>4, <1>6, <2>1, GraphFacts, LenProperties DEF Sound
  <2>4. \A x \in 1..Len(inEdges[o]) :
           z.in[o][x].point = IF inEdges[o][x].point = b THEN inEdges[b][pair(inEdges[o][x].rev)].point
                              ELSE inEdges[o][x].point
    BY <1>8, <2>1, <2>2
  <2> QED BY <1>4, <2>3, <2>4 DEF Points
<1>10. Points(outEdges'[o]) = [x \in DOMAIN outEdges[o] |->
          IF outEdges[o][x].point = b THEN outEdges[b][pair(outEdges[o][x].rev)].point
          ELSE outEdges[o][x].point]
  <2>1. /\ Len(z.out[o]) = Len(outEdges[o])
        /\ \A x \in 1..Len(outEdges[o]) :
              z.out[o][x].point = IF outEdges[o][x].point = b
                                  THEN outEdges[b][IF outEdges[o][x].rev = k THEN m ELSE 3 - m].point
                                  ELSE outEdges[o][x].point
    BY <1>4, <1>6, <1>7 DEF Wired
  <2>2. ASSUME NEW x \in 1..Len(outEdges[o]), outEdges[o][x].point = b PROVE outEdges[o][x].rev \in 1..2
    <3>1. OutSlotOK(graph, {}, o, x)
      BY <1>4 DEF Sound, MirroredBut
    <3> QED BY <1>4, <2>2, <3>1 DEF OutSlotOK
  <2>3. DOMAIN z.out[o] = 1..Len(outEdges[o]) /\ DOMAIN outEdges[o] = 1..Len(outEdges[o])
    <3> QED BY <1>4, <1>6, <2>1, GraphFacts, LenProperties DEF Sound
  <2>4. \A x \in 1..Len(outEdges[o]) :
           z.out[o][x].point = IF outEdges[o][x].point = b THEN outEdges[b][pair(outEdges[o][x].rev)].point
                               ELSE outEdges[o][x].point
    BY <1>8, <2>1, <2>2
  <2> QED BY <1>4, <2>3, <2>4 DEF Points
<1> QED BY Zenon, <1>9, <1>10 DEF pair

\* Removing a do-nothing block, splicing two blocks and splitting the flow through one
\* move no slot of another block: the order blockRemoveInternal and the MULTIEQUALs of
\* the successors count on.
THEOREM RewiringKeepsOrder == Spec => RewiringKeepsSlots
<1>1. ASSUME LabelInv, BypassOK, RewireOK, Next PROVE BypassKept /\ SpliceKept
  <2>1. CASE BypassIn
    BY <1>1, <2>1, BypassKeeps DEF SpliceKept, BypassIn
  <2>2. CASE SpliceMove
    BY <1>1, <2>2, SpliceKeeps DEF BypassKept, SpliceMove
  <2>3. CASE task.op \notin {"bypassIn", "move"}
    BY <2>3 DEF BypassKept, SpliceKept
  <2>4. task.op \in {"bypassIn", "move"} => BypassIn \/ SpliceMove
    <3>1. BypassOut => task.op = "bypassOut"
      BY DEF BypassOut
    <3>2. Detach => task.op = "detach"
      BY DEF Detach
    <3>3. (\E b \in Block : RemoveDoNothingBlock(b) \/ SpliceBlockBasic(b)) => task = Idle
      BY DEF RemoveDoNothingBlock, SpliceBlockBasic
    <3>4. task = Idle => task.op = "idle"
      BY DEF Idle
    <3> QED BY <1>1, <3>1, <3>2, <3>3, <3>4, StepCases
  <2> QED BY <2>1, <2>2, <2>3, <2>4
<1>2. LabelInv /\ BypassOK /\ RewireOK /\ [Next]_vars => [BypassKept /\ SpliceKept /\ SplitWired]_vars
  BY <1>1, SplitKeeps
<1> QED BY <1>2, RewireInvariance, PTL DEF Spec, RewiringKeepsSlots

=============================================================================
