------------------------- MODULE SpanningTreeProofs -------------------------
(***************************************************************************)
(* What SpanningTree keeps, for every number of blocks and edges.           *)
(***************************************************************************)
EXTENDS SpanningTree, SeqLemmas

-----------------------------------------------------------------------------
(***************************************************************************)
(* Lists filtered by a set                                                  *)
(***************************************************************************)
\* Nth counts through a set of list positions in increasing order.
LEMMA NthFacts ==
    ASSUME NEW n \in Nat, NEW K \in SUBSET (1..n)
    PROVE  /\ IsFiniteSet(K) /\ Cardinality(K) \in Nat
           /\ \A i \in 1..Cardinality(K) : Nth(K, i) \in K
           /\ \A i, j \in 1..Cardinality(K) : i < j => Nth(K, i) < Nth(K, j)
           /\ \A k \in K : \E i \in 1..Cardinality(K) : Nth(K, i) = k
<1> DEFINE upto(k) == {j \in K : j <= k}
           rank == [k \in K |-> Cardinality(upto(k))]
           C == Cardinality(K)
<1>1. IsFiniteSet(K) /\ C \in Nat
  <2>1. IsFiniteSet(1..n)
    BY FS_Interval
  <2>2. IsFiniteSet(K)
    BY <2>1, FS_Subset
  <2> QED BY <2>2, FS_CardinalityType
<1>2. \A k \in K : /\ IsFiniteSet(upto(k)) /\ Cardinality(upto(k)) \in Nat
                   /\ Cardinality(upto(k)) <= C /\ Cardinality(upto(k)) # 0
  <2> SUFFICES ASSUME NEW k \in K
               PROVE  /\ IsFiniteSet(upto(k)) /\ Cardinality(upto(k)) \in Nat
                      /\ Cardinality(upto(k)) <= C /\ Cardinality(upto(k)) # 0
    OBVIOUS
  <2>1. upto(k) \in SUBSET K /\ k \in upto(k)
    OBVIOUS
  <2> HIDE DEF upto
  <2>2. IsFiniteSet(upto(k)) /\ Cardinality(upto(k)) <= C
    BY <1>1, <2>1, FS_Subset
  <2> QED BY <2>1, <2>2, FS_CardinalityType, FS_EmptySet
<1>3. rank \in [K -> 1..C]
  <2> SUFFICES ASSUME NEW k \in K PROVE Cardinality(upto(k)) \in 1..C
    OBVIOUS
  <2> HIDE DEF upto
  <2> QED BY <1>1, <1>2
<1>4a. \A j, k, l \in Int : k < l => (j <= k => j <= l) /\ l <= l /\ ~(l <= k)
  OBVIOUS
<1>4. \A k, l \in K : k < l => rank[k] < rank[l]
  <2> SUFFICES ASSUME NEW k \in K, NEW l \in K, k < l
               PROVE  Cardinality(upto(k)) < Cardinality(upto(l))
    OBVIOUS
  <2>0. K \subseteq Int /\ k \in Int /\ l \in Int
    OBVIOUS
  <2>1. upto(k) \in SUBSET upto(l) /\ l \in upto(l) /\ l \notin upto(k)
    BY <2>0, <1>4a
  <2> HIDE DEF upto
  <2>2. /\ IsFiniteSet(upto(l)) /\ Cardinality(upto(l)) \in Nat
        /\ Cardinality(upto(k)) \in Nat
    BY <1>2
  <2>3. /\ Cardinality(upto(k)) <= Cardinality(upto(l))
        /\ Cardinality(upto(l)) = Cardinality(upto(k)) => upto(l) = upto(k)
    BY <2>1, <2>2, FS_Subset
  <2> QED BY <2>1, <2>2, <2>3
<1>5. rank \in Injection(K, 1..C)
  <2>1. \A k, l \in K : rank[k] = rank[l] => k = l
    <3> SUFFICES ASSUME NEW k \in K, NEW l \in K, rank[k] = rank[l] PROVE k = l
      OBVIOUS
    <3> HIDE DEF rank
    <3>1. rank[k] \in Int /\ rank[l] \in Int /\ k \in Int /\ l \in Int
      BY <1>1, <1>3
    <3> QED BY <1>4, <3>1
  <2> HIDE DEF rank
  <2> QED BY <1>3, <2>1 DEF Injection, IsInjective
<1>6. rank \in Surjection(K, 1..C)
  <2>1. IsFiniteSet(1..C) /\ Cardinality(1..C) = C
    BY <1>1, FS_Interval
  <2> HIDE DEF rank
  <2> QED BY <1>1, <1>5, <2>1, FS_Injection
<1>7. \A i \in 1..C : \E k \in K : rank[k] = i
  BY <1>6 DEF Surjection
<1>8. \A k \in K : \A i : Cardinality(upto(k)) = i <=> rank[k] = i
  OBVIOUS
<1>9. \A i \in 1..C : Nth(K, i) \in K /\ rank[Nth(K, i)] = i
  <2> SUFFICES ASSUME NEW i \in 1..C PROVE Nth(K, i) \in K /\ rank[Nth(K, i)] = i
    OBVIOUS
  <2>1. \E k \in K : Cardinality({j \in K : j <= k}) = i
    BY <1>7, <1>8
  <2>2. Nth(K, i) \in K /\ Cardinality({j \in K : j <= Nth(K, i)}) = i
    BY <2>1 DEF Nth
  <2> QED BY <1>8, <2>2
<1>10. \A k \in K : rank[k] \in 1..C /\ Nth(K, rank[k]) = k
  <2> SUFFICES ASSUME NEW k \in K PROVE rank[k] \in 1..C /\ Nth(K, rank[k]) = k
    OBVIOUS
  <2>1. rank[k] \in 1..C
    BY <1>3
  <2>2. Nth(K, rank[k]) \in K /\ rank[Nth(K, rank[k])] = rank[k]
    BY <1>9, <2>1
  <2> HIDE DEF rank
  <2> QED BY <1>5, <2>1, <2>2 DEF Injection, IsInjective
<1>11. \A i, j \in 1..C : i < j => Nth(K, i) < Nth(K, j)
  <2> SUFFICES ASSUME NEW i \in 1..C, NEW j \in 1..C, i < j PROVE Nth(K, i) < Nth(K, j)
    OBVIOUS
  <2> DEFINE a == Nth(K, i)
             b == Nth(K, j)
  <2>1. a \in K /\ b \in K /\ rank[a] = i /\ rank[b] = j
    BY <1>9
  <2> HIDE DEF a, b, rank
  <2>2. a \in Int /\ b \in Int /\ i \in Int /\ j \in Int
    BY <1>1, <2>1
  <2>3. ~(b < a) /\ b # a
    BY <1>4, <2>1, <2>2
  <2>4. a < b
    BY <2>2, <2>3
  <2> QED BY <2>4 DEF a, b
<1> HIDE DEF rank
<1> QED BY <1>1, <1>9, <1>10, <1>11

\* Keep holds exactly the members of the list that are in T, each as often as
\* before, and begins with the first of them.
LEMMA KeepFacts ==
    ASSUME NEW S, NEW s \in Seq(S), NEW T
    PROVE  /\ Keep(s, T) \in Seq(S \cap T)
           /\ Keep(s, T) \in Seq(S)
           /\ Len(Keep(s, T)) \in Nat
           /\ \A i \in 1..Len(Keep(s, T)) : \E j \in 1..Len(s) : Keep(s, T)[i] = s[j] /\ s[j] \in T
           /\ \A j \in 1..Len(s) : s[j] \in T => \E i \in 1..Len(Keep(s, T)) : Keep(s, T)[i] = s[j]
           /\ (\A i, j \in 1..Len(s) : s[i] = s[j] => i = j)
                => \A i, j \in 1..Len(Keep(s, T)) : Keep(s, T)[i] = Keep(s, T)[j] => i = j
           /\ Keep(s, T) = <<>> <=> \A j \in 1..Len(s) : s[j] \notin T
           /\ \A m \in 1..Len(s) : s[m] \in T /\ (\A j \in 1..Len(s) : s[j] \in T => m <= j)
                => Len(Keep(s, T)) >= 1 /\ Keep(s, T)[1] = s[m]
<1> DEFINE K == {k \in DOMAIN s : s[k] \in T}
           C == Cardinality(K)
           t == Keep(s, T)
<1>0. Len(s) \in Nat /\ DOMAIN s = 1..Len(s) /\ \A i \in 1..Len(s) : s[i] \in S
  BY LenProperties, ElementOfSeq
<1>1. K \in SUBSET (1..Len(s)) /\ \A k \in 1..Len(s) : k \in K <=> s[k] \in T
  BY <1>0
<1>2. t = [i \in 1..C |-> s[Nth(K, i)]]
  BY DEF Keep
<1> HIDE DEF K, t
<1>3. /\ C \in Nat
      /\ \A i \in 1..C : Nth(K, i) \in K
      /\ \A i, j \in 1..C : i < j => Nth(K, i) < Nth(K, j)
      /\ \A k \in K : \E i \in 1..C : Nth(K, i) = k
  BY <1>0, <1>1, NthFacts
<1>4. \A i \in 1..C : Nth(K, i) \in 1..Len(s) /\ s[Nth(K, i)] \in S /\ s[Nth(K, i)] \in T
  BY <1>0, <1>1, <1>3
<1>5. t \in [1..C -> S] /\ t \in [1..C -> S \cap T]
  BY <1>2, <1>4
<1> HIDE DEF C
<1>6. t \in Seq(S) /\ t \in Seq(S \cap T) /\ Len(t) = C
  BY <1>3, <1>5, RebuildFacts
<1>7. \A i \in 1..C : t[i] = s[Nth(K, i)]
  BY <1>2
<1>8. \A i \in 1..Len(t) : \E j \in 1..Len(s) : t[i] = s[j] /\ s[j] \in T
  BY <1>4, <1>6, <1>7
<1>9. \A j \in 1..Len(s) : s[j] \in T => \E i \in 1..Len(t) : t[i] = s[j]
  BY <1>1, <1>3, <1>6, <1>7
<1>10. ASSUME \A i, j \in 1..Len(s) : s[i] = s[j] => i = j,
              NEW i \in 1..Len(t), NEW j \in 1..Len(t), t[i] = t[j]
       PROVE  i = j
  <2>1. Nth(K, i) = Nth(K, j)
    BY <1>4, <1>6, <1>7, <1>10
  <2>2. i \in Int /\ j \in Int /\ Nth(K, i) \in Int
    BY <1>0, <1>3, <1>4, <1>6
  <2>3. ~(i < j) /\ ~(j < i)
    BY <1>3, <1>6, <2>1, <2>2
  <2> QED BY <2>2, <2>3
<1>11. t = <<>> <=> \A j \in 1..Len(s) : s[j] \notin T
  <2>1. t = <<>> <=> Len(t) = 0
    BY <1>6, EmptySeq
  <2>2. ASSUME Len(t) = 0, NEW j \in 1..Len(s), s[j] \in T PROVE FALSE
    BY <1>9, <2>2
  <2>3. ASSUME \A j \in 1..Len(s) : s[j] \notin T PROVE Len(t) = 0
    BY SMTT(60), <1>3, <1>6, <1>8, <2>3
  <2> QED BY <2>1, <2>2, <2>3
<1>12. ASSUME NEW m \in 1..Len(s), s[m] \in T, \A j \in 1..Len(s) : s[j] \in T => m <= j
       PROVE  Len(t) >= 1 /\ t[1] = s[m]
  <2>1. PICK i \in 1..C : Nth(K, i) = m
    BY <1>1, <1>3, <1>12
  <2>2. C >= 1 /\ 1 \in 1..C
    BY <1>3
  <2>3. m <= Nth(K, 1)
    BY <1>1, <1>4, <1>12, <2>2
  <2>4. i = 1
    <3>1. m \in Int /\ Nth(K, 1) \in Int /\ i \in Int /\ i >= 1
      BY <1>0, <1>3, <1>4, <2>2
    <3>2. ~(1 < i)
      BY <1>3, <2>1, <2>2, <2>3, <3>1
    <3> QED BY <3>1, <3>2
  <2> QED BY <1>6, <1>7, <2>1, <2>2, <2>4
<1> QED BY <1>3, <1>6, <1>8, <1>9, <1>10, <1>11, <1>12 DEF t

\* A list without repetitions that is as long as another one and takes its members
\* from it has all of them; one that is shorter misses one.
LEMMA Pigeonhole ==
    ASSUME NEW S, NEW s \in Seq(S), NEW t \in Seq(S),
           \A i, j \in 1..Len(s) : s[i] = s[j] => i = j,
           \A i, j \in 1..Len(t) : t[i] = t[j] => i = j,
           \A i \in 1..Len(s) : \E j \in 1..Len(t) : s[i] = t[j]
    PROVE  /\ Len(s) <= Len(t)
           /\ Len(s) = Len(t) => \A j \in 1..Len(t) : \E i \in 1..Len(s) : s[i] = t[j]
           /\ (\A j \in 1..Len(t) : \E i \in 1..Len(s) : s[i] = t[j]) => Len(s) = Len(t)
<1> DEFINE f == [i \in 1..Len(s) |-> CHOOSE j \in 1..Len(t) : s[i] = t[j]]
<1>0. Len(s) \in Nat /\ Len(t) \in Nat
  BY LenProperties
<1>1. \A i \in 1..Len(s) : f[i] \in 1..Len(t) /\ s[i] = t[f[i]]
  OBVIOUS
<1>2. f \in [1..Len(s) -> 1..Len(t)]
  BY <1>1
<1> HIDE DEF f
<1>3. f \in Injection(1..Len(s), 1..Len(t))
  <2>1. \A i, j \in 1..Len(s) : f[i] = f[j] => i = j
    <3> SUFFICES ASSUME NEW i \in 1..Len(s), NEW j \in 1..Len(s), f[i] = f[j] PROVE i = j
      OBVIOUS
    <3>1. s[i] = s[j]
      BY <1>1
    <3> QED BY <3>1
  <2> QED BY <1>2, <2>1 DEF Injection, IsInjective
<1>4. /\ IsFiniteSet(1..Len(s)) /\ Cardinality(1..Len(s)) = Len(s)
      /\ IsFiniteSet(1..Len(t)) /\ Cardinality(1..Len(t)) = Len(t)
  <2>1. \A n \in Nat : IsFiniteSet(1..n) /\ Cardinality(1..n) = n
    <3> TAKE n \in Nat
    <3>1. IsFiniteSet(1..n) /\ Cardinality(1..n) = IF 1 > n THEN 0 ELSE n - 1 + 1
      BY FS_Interval
    <3> QED BY <3>1
  <2> QED BY <1>0, <2>1
<1>5. /\ Len(s) <= Len(t)
      /\ Len(s) = Len(t) <=> f \in Surjection(1..Len(s), 1..Len(t))
  <2> HIDE DEF f
  <2>1. /\ Cardinality(1..Len(s)) <= Cardinality(1..Len(t))
        /\ Cardinality(1..Len(s)) = Cardinality(1..Len(t)) <=> f \in Surjection(1..Len(s), 1..Len(t))
    BY <1>3, <1>4, FS_Injection
  <2> QED BY <1>4, <2>1
<1>6. ASSUME Len(s) = Len(t), NEW j \in 1..Len(t) PROVE \E i \in 1..Len(s) : s[i] = t[j]
  <2>1. PICK i \in 1..Len(s) : f[i] = j
    BY <1>5, <1>6 DEF Surjection
  <2> QED BY <1>1, <2>1
<1>7. ASSUME \A j \in 1..Len(t) : \E i \in 1..Len(s) : s[i] = t[j] PROVE Len(s) = Len(t)
  <2>1. \A j \in 1..Len(t) : \E i \in 1..Len(s) : f[i] = j
    <3> SUFFICES ASSUME NEW j \in 1..Len(t) PROVE \E i \in 1..Len(s) : f[i] = j
      OBVIOUS
    <3>1. PICK i \in 1..Len(s) : s[i] = t[j]
      BY <1>7
    <3>2. f[i] \in 1..Len(t) /\ t[f[i]] = t[j]
      BY <1>1, <3>1
    <3> QED BY <3>1, <3>2
  <2>2. f \in Surjection(1..Len(s), 1..Len(t))
    BY <1>2, <2>1 DEF Surjection
  <2> QED BY <1>5, <2>2
<1> QED BY <1>5, <1>6, <1>7

-----------------------------------------------------------------------------
(***************************************************************************)
(* The invariant, over the values it speaks of                              *)
(***************************************************************************)
SlotsOf(ou) == {p \in Node \X (1..MaxOut) : p[2] <= Len(ou[p[1]])}
Dest(ou, p) == ou[p[1]][p[2]]
Holds(s, b) == \E i \in 1..Len(s) : s[i] = b
Shut(ou, C) == \A p \in SlotsOf(ou) : p[1] \in C => Dest(ou, p) \in C
Lives(ou) == {b \in Node : \A C \in SUBSET Node : Entry \in C /\ Shut(ou, C) => b \in C}

\* The edges and their halves, the list of blocks, and who is where.
GraphOK(ou, inn, ord) ==
    /\ ou \in [Node -> Seq(Node)]
    /\ \A b \in Node : Len(ou[b]) <= MaxOut
    /\ inn \in [Node -> Seq(Node \X (1..MaxOut))]
    /\ \A p \in SlotsOf(ou) : Holds(inn[Dest(ou, p)], p)
    /\ \A c \in Node : \A i \in 1..Len(inn[c]) : inn[c][i] \in SlotsOf(ou) /\ Dest(ou, inn[c][i]) = c
    /\ ord \in Seq(Node)
    /\ \A i, j \in 1..Len(ord) : ord[i] = ord[j] => i = j
    /\ Holds(ord, Entry)
    /\ \A p \in SlotsOf(ou) : Holds(ord, p[1]) /\ Holds(ord, Dest(ou, p))

\* What the history of the graph guarantees
HistoryOK(ou, inn, ord, st) ==
    /\ st \in {"built", "cut", "settled"}
    /\ st = "built" => Lives(ou) = Node
    /\ inn[Entry] = <<>> \/ st = "built" => ord[1] = Entry
    /\ st = "settled" /\ inn[Entry] = <<>> => \A b \in Node : Holds(ord, b) => b \in Lives(ou)

\* When nothing that lives leads back to the entry, the entry comes first.
LiveHead(ou, ord) ==
    (\A p \in SlotsOf(ou) : p[1] \in Lives(ou) => Dest(ou, p) # Entry)
        => \A i, j \in 1..Len(ord) : ord[i] = Entry /\ ord[j] \in Lives(ou) => i <= j

-----------------------------------------------------------------------------
TreeRec == [visit : [Node -> Int], index : [Node -> Int], desc : [Node -> Nat],
            pre : Seq(Node), rpost : Seq(Node), stack : Seq([bl : Node, edge : Nat]),
            roots : Seq(Node), at : Nat, home : Nat, extra : BOOLEAN, again : BOOLEAN]

Seen(t, b) == t.visit[b] # -1
Fin(t, b) == t.index[b] # -1
Held(t, b) == \E i \in 1..Len(t.stack) : t.stack[i].bl = b
Explored(t, p) ==
    /\ Seen(t, p[1])
    /\ Fin(t, p[1]) \/ \E i \in 1..Len(t.stack) : t.stack[i].bl = p[1] /\ p[2] <= t.stack[i].edge

\* The two numberings and the lists they index
Numbers(ord, t) ==
    /\ \A b \in Node : Seen(t, b) =>
          t.visit[b] \in 0..(Len(t.pre) - 1) /\ t.pre[t.visit[b] + 1] = b /\ Holds(ord, b)
    /\ \A i \in 1..Len(t.pre) : t.visit[t.pre[i]] = i - 1
    /\ \A b \in Node : Fin(t, b) =>
          /\ Seen(t, b)
          /\ t.index[b] \in (Len(ord) - Len(t.rpost))..(Len(ord) - 1)
          /\ t.rpost[t.index[b] - Len(ord) + Len(t.rpost) + 1] = b
    /\ \A i \in 1..Len(t.rpost) : t.index[t.rpost[i]] = Len(ord) - Len(t.rpost) + i - 1
    /\ Len(t.pre) = Len(t.rpost) + Len(t.stack)

\* The stack holds the visited blocks that are not finished, in preorder, each
\* at the end of what the one below has covered so far.
StackOK(ou, t) ==
    /\ \A i \in 1..Len(t.stack) :
          /\ Seen(t, t.stack[i].bl) /\ ~Fin(t, t.stack[i].bl)
          /\ t.stack[i].edge <= Len(ou[t.stack[i].bl])
    /\ \A b \in Node : Seen(t, b) /\ ~Fin(t, b) => Held(t, b)
    /\ \A i, j \in 1..Len(t.stack) : i < j => t.visit[t.stack[i].bl] < t.visit[t.stack[j].bl]
    /\ \A i \in 1..(Len(t.stack) - 1) :
          t.visit[t.stack[i + 1].bl] = t.visit[t.stack[i].bl] + t.desc[t.stack[i].bl]
    /\ Len(t.stack) >= 1 =>
          t.visit[t.stack[Len(t.stack)].bl] + t.desc[t.stack[Len(t.stack)].bl] = Len(t.pre)

\* The spans visit .. visit + desc - 1 are nested.
Spans(t) ==
    /\ \A b \in Node : Seen(t, b) => t.desc[b] >= 1 /\ t.visit[b] + t.desc[b] <= Len(t.pre)
    /\ \A x, c \in Node : Seen(t, x) /\ Seen(t, c) /\ t.visit[x] < t.visit[c] /\ t.visit[c] < t.visit[x] + t.desc[x]
          => Fin(t, c) /\ t.visit[c] + t.desc[c] <= t.visit[x] + t.desc[x]

\* A tree edge from b to c
TreeEdge(t, b, c) ==
    /\ t.visit[b] < t.visit[c]
    /\ Fin(t, c) => /\ t.visit[c] + t.desc[c] <= t.visit[b] + t.desc[b]
                    /\ Fin(t, b) => t.index[b] < t.index[c]
    /\ ~Fin(t, c) => \A i \in 1..Len(t.stack) : t.stack[i].bl = c => i > 1 /\ t.stack[i - 1].bl = b
    /\ \A x \in Node : Seen(t, x) /\ t.visit[b] < t.visit[x] /\ t.visit[x] < t.visit[c]
          => Fin(t, x) /\ t.visit[x] + t.desc[x] <= t.visit[c]
\* A back edge: up the stack, or into a span
BackEdge(t, b, c) ==
    /\ t.visit[c] <= t.visit[b]
    /\ Fin(t, c) => Fin(t, b) /\ t.index[c] <= t.index[b] /\ t.visit[b] < t.visit[c] + t.desc[c]
\* A forward or cross edge
SideEdge(t, b, c) == Fin(t, c) /\ (Fin(t, b) => t.index[b] < t.index[c])

EdgeOK(t, b, c, l) ==
    /\ Seen(t, c)
    /\ l \in {{"tree"}, {"back", "loop"}, {"forward"}, {"cross"}}
    /\ "tree" \in l => TreeEdge(t, b, c)
    /\ "back" \in l => BackEdge(t, b, c)
    /\ l \in {{"forward"}, {"cross"}} => SideEdge(t, b, c)

LabelType(ou, lab) ==
    /\ DOMAIN lab = Node
    /\ \A b \in Node : lab[b] \in [1..Len(ou[b]) -> SUBSET SpanLabel]
EdgesOK(ou, t, lab) ==
    \A p \in SlotsOf(ou) : IF Explored(t, p) THEN EdgeOK(t, p[1], Dest(ou, p), lab[p[1]][p[2]])
                           ELSE lab[p[1]][p[2]] = {}

\* The roots picked so far, and what was reached from them
RootsOK(ou, ord, t, lab) ==
    /\ t.at <= Len(t.roots)
    /\ \A i \in 1..Len(t.roots) : Holds(ord, t.roots[i])
    /\ \A i \in 1..t.at : Seen(t, t.roots[i])
    /\ \A i, j \in 1..t.at : t.roots[i] = t.roots[j] => i = j
    /\ Len(t.pre) = 0 <=> t.at = 0
    /\ t.at >= 1 => t.pre[1] = t.roots[1]
    /\ Len(t.stack) >= 1 => t.at >= 1 /\ t.stack[1].bl = t.roots[t.at]
    /\ Len(t.stack) = 0 /\ t.at >= 1 => Len(t.rpost) >= 1 /\ t.rpost[1] = t.roots[t.at]
    /\ \A b \in Node : Seen(t, b) =>
          \/ \E i \in 1..t.at : t.roots[i] = b
          \/ \E p \in SlotsOf(ou) : Explored(t, p) /\ Dest(ou, p) = b /\ "tree" \in lab[p[1]][p[2]]
    /\ \A C \in SUBSET Node : Shut(ou, C) /\ (\A i \in 1..t.at : t.roots[i] \in C)
          => \A b \in Node : Seen(t, b) => b \in C

\* Where the entry stands among the blocks that live, when none leads back to it
LiveOK(ou, t) ==
    (\A p \in SlotsOf(ou) : p[1] \in Lives(ou) => Dest(ou, p) # Entry) =>
       /\ \A i, j \in 1..Len(t.stack) : i < j /\ t.stack[i].bl \in Lives(ou)
             => t.stack[j].bl \in Lives(ou) /\ t.stack[j].bl # Entry
       /\ Fin(t, Entry) => \A b \in Lives(ou) : Fin(t, b) /\ t.index[Entry] <= t.index[b]

\* The list of roots: its first part begins with blocks nobody enters, the last of
\* them the head; on the second pass the head is the last of all.
RootList(ou, inn, ord, st, t) ==
    /\ ~t.again =>
         /\ t.home >= 1 /\ t.home <= Len(t.roots)
         /\ \A i \in 2..t.home : Len(inn[t.roots[i]]) = 0
         /\ t.home >= 2 => Len(inn[t.roots[1]]) = 0
         /\ \A i, j \in 1..t.home : t.roots[i] = t.roots[j] => i = j
         /\ \A i \in 1..t.home : i > t.at => ~Seen(t, t.roots[i])
         /\ IF t.extra THEN t.at = Len(t.roots) /\ t.at > t.home
                       ELSE t.at <= t.home /\ Len(t.roots) = t.home
         /\ inn[Entry] = <<>> \/ st = "built" => t.roots[t.home] = Entry
    /\ t.again /\ inn[Entry] = <<>> =>
         /\ ~t.extra
         /\ Len(t.roots) >= 1 /\ t.roots[Len(t.roots)] = Entry
         /\ t.at < Len(t.roots) => ~Seen(t, Entry)
         /\ \A i \in 1..(Len(t.roots) - 1) : t.roots[i] # Entry
         /\ \A C \in SUBSET Node :
               Shut(ou, C) /\ (\A b \in Node : Seen(t, b) \/ Holds(t.roots, b) => b \in C)
                  => \A b \in Node : Holds(ord, b) => b \in C
    /\ st = "built" => t.home = 1 /\ ~t.again /\ ~t.extra

PassOK(ou, inn, ord, st, t, lab) ==
    /\ t \in TreeRec
    /\ Numbers(ord, t) /\ StackOK(ou, t) /\ Spans(t)
    /\ LabelType(ou, lab) /\ EdgesOK(ou, t, lab)
    /\ RootsOK(ou, ord, t, lab) /\ LiveOK(ou, t)
    /\ RootList(ou, inn, ord, st, t)

-----------------------------------------------------------------------------
\* The finished tree: every block is numbered, the list is the reverse post-order.
TreeOK(ou, ord, t, lab) ==
    /\ t \in TreeRec
    /\ Len(t.pre) = Len(ord) /\ Len(t.roots) >= 1
    /\ \A b \in Node : Holds(ord, b) =>
          /\ t.visit[b] \in 0..(Len(ord) - 1) /\ t.pre[t.visit[b] + 1] = b
          /\ t.index[b] \in 0..(Len(ord) - 1) /\ ord[t.index[b] + 1] = b
          /\ t.desc[b] >= 1 /\ t.visit[b] + t.desc[b] <= Len(ord)
          /\ \/ Holds(t.roots, b)
             \/ \E p \in SlotsOf(ou) : Dest(ou, p) = b /\ "tree" \in lab[p[1]][p[2]]
    /\ \A i \in 1..Len(t.pre) : Holds(ord, t.pre[i]) /\ t.visit[t.pre[i]] = i - 1
    /\ \A x, c \in Node : Holds(ord, x) /\ Holds(ord, c)
                          /\ t.visit[x] < t.visit[c] /\ t.visit[c] < t.visit[x] + t.desc[x]
          => t.visit[c] + t.desc[c] <= t.visit[x] + t.desc[x]
    /\ Len(t.roots) = 1 => t.pre[1] = t.roots[1]
    /\ \A C \in SUBSET Node : Shut(ou, C) /\ (\A i \in 1..Len(t.roots) : t.roots[i] \in C)
          => \A b \in Node : Holds(ord, b) => b \in C

\* What the labels say of the finished tree
LabelFacts(ou, ord, t, lab) ==
    \A p \in SlotsOf(ou) :
       LET b == p[1]
           c == Dest(ou, p)
           l == lab[p[1]][p[2]]
       IN  /\ "back" \in l <=> t.index[b] >= t.index[c]
           /\ "back" \in l => /\ "loop" \in l
                              /\ t.visit[c] <= t.visit[b] /\ t.visit[b] < t.visit[c] + t.desc[c]
           /\ "tree" \in l =>
                /\ t.visit[b] < t.visit[c] /\ t.visit[c] + t.desc[c] <= t.visit[b] + t.desc[b]
                /\ \A x \in Node : Holds(ord, x) /\ t.visit[b] < t.visit[x] /\ t.visit[x] < t.visit[c]
                      => t.visit[x] + t.desc[x] <= t.visit[c]

-----------------------------------------------------------------------------
IrrRec == [attempt : Nat, found : BOOLEAN, rebuild : BOOLEAN, x : Nat, copy : [Node -> Node],
           path : Seq([bl : Node, edge : Nat]), seen : SUBSET Node]

Within(t, x, y) == t.visit[x] <= t.visit[y] /\ t.visit[y] < t.visit[x] + t.desc[x]
\* The edges that are left when the irreducible ones are cut
Kept(ou, lab) == {p \in SlotsOf(ou) : "irreducible" \notin lab[p[1]][p[2]]}

\* B belongs to the head z: it lies under z and only z or B leads into it.
Body(ou, ord, t, lab, z, B) ==
    /\ \A y \in B : Holds(ord, y) /\ Within(t, z, y) /\ y # z
    /\ \A p \in Kept(ou, lab) : Dest(ou, p) \in B => p[1] \in B \/ p[1] = z

\* R is closed but for x, and r is in it: nothing outside R is reached without x.
Avoids(F, ou, r, x, R) ==
    /\ r # x => r \in R
    /\ \A p \in F : p[1] \in R /\ Dest(ou, p) # x => Dest(ou, p) \in R
Dominates(F, ou, r, x, b) == b = x \/ \E R \in SUBSET Node : Avoids(F, ou, r, x, R) /\ b \notin R
Reduces(F, ou, t, lab) ==
    \A p \in F : "back" \in lab[p[1]][p[2]] => Dominates(F, ou, t.roots[1], Dest(ou, p), p[1])

\* findIrreducible has done the heads from the last of the preorder down to x + 1.
HeadsOK(ou, ord, t, lab, ir) ==
    /\ ir.x <= Len(ord)
    /\ \A y \in Node : ir.copy[y] # y =>
          /\ Holds(ord, y) /\ Holds(ord, ir.copy[y]) /\ t.visit[ir.copy[y]] >= ir.x
          /\ \E B \in SUBSET Node : y \in B /\ Body(ou, ord, t, lab, ir.copy[y], B)
    /\ \A z \in Node : Holds(ord, z) /\ t.visit[z] >= ir.x =>
          \E B \in SUBSET Node :
             /\ Body(ou, ord, t, lab, z, B)
             /\ \A p \in Kept(ou, lab) : Dest(ou, p) = z /\ "back" \in lab[p[1]][p[2]] => p[1] \in B \/ p[1] = z
    /\ Len(t.roots) = 1 /\ Reduces(SlotsOf(ou), ou, t, lab) => Kept(ou, lab) = SlotsOf(ou)

\* What findIrreducible promises of a graph with one root
CutOK(ou, t, lab) ==
    Len(t.roots) = 1 => /\ Reduces(Kept(ou, lab), ou, t, lab)
                        /\ Reduces(SlotsOf(ou), ou, t, lab) => Kept(ou, lab) = SlotsOf(ou)

SpanInv ==
    /\ GraphOK(out, ins, order)
    /\ HistoryOK(out, ins, order, stage)
    /\ pc \in {"tree", "irreducible", "calcLoop", "dominators", "sweep", "done"}
    /\ LabelType(out, label)
    /\ irr \in IrrRec /\ ~irr.rebuild
    /\ pc = "tree" => PassOK(out, ins, order, stage, tree, label)
    /\ pc # "tree" => /\ TreeOK(out, order, tree, label) /\ LabelFacts(out, order, tree, label)
                      /\ stage # "settled" => LiveHead(out, order)
    /\ pc = "irreducible" => HeadsOK(out, order, tree, label, irr)
    /\ pc \notin {"tree", "irreducible"} => CutOK(out, tree, label)

-----------------------------------------------------------------------------
(***************************************************************************)
(* What the invariant gives                                                 *)
(***************************************************************************)
LEMMA SlotFacts ==
    /\ Slots = SlotsOf(out)
    /\ \A p : Target(p) = Dest(out, p)
  BY DEF Slots, SlotsOf, Target, Dest

\* A slot names an edge between two blocks.
LEMMA SlotType ==
    ASSUME NEW ou, NEW inn, NEW ord, GraphOK(ou, inn, ord), NEW p \in SlotsOf(ou)
    PROVE  /\ p[1] \in Node /\ Dest(ou, p) \in Node
           /\ p[2] \in 1..Len(ou[p[1]]) /\ p[2] \in 1..MaxOut
           /\ Holds(ord, p[1]) /\ Holds(ord, Dest(ou, p))
           /\ p = <<p[1], p[2]>>
<1>1. p[1] \in Node /\ p[2] \in 1..MaxOut /\ p[2] <= Len(ou[p[1]]) /\ p = <<p[1], p[2]>>
  BY DEF SlotsOf
<1>2. ou[p[1]] \in Seq(Node)
  BY <1>1 DEF GraphOK
<1>3. Len(ou[p[1]]) \in Nat
  BY <1>2, LenProperties
<1>4. p[2] \in 1..Len(ou[p[1]])
  BY <1>1, <1>3, SpanningTreeAssumption
<1>5. Dest(ou, p) \in Node
  BY <1>2, <1>4, ElementOfSeq DEF Dest
<1> QED BY <1>1, <1>4, <1>5 DEF GraphOK

\* The entry is a block.
LEMMA EntryFacts == Entry \in Node
  BY SpanningTreeAssumption DEF Entry, Node

\* What the code model calls reachable is what every closed set with the entry has.
LEMMA ReachableFacts == Reachable = Lives(out)
<1>1. \A R \in SUBSET Node : (R \in {Q \in SUBSET Node : {Entry} \ {} \subseteq Q /\ Closed(Q, {}, Slots)})
                              <=> Entry \in R /\ Shut(out, R)
  BY SlotFacts DEF Closed, Shut
<1>2. ReachFrom({Entry}, {}, Slots) = Lives(out)
  BY <1>1 DEF ReachFrom, Lives
<1> QED BY <1>2 DEF Reachable

\* The same in the next state.
LEMMA ReachableFactsNext == Reachable' = Lives(out')
<1>0. Slots' = SlotsOf(out') /\ \A p : Target(p)' = Dest(out', p)
  BY DEF Slots, SlotsOf, Target, Dest
<1>1. \A R \in SUBSET Node : (R \in {Q \in SUBSET Node : {Entry} \ {} \subseteq Q /\ Closed(Q, {}, Slots)'})
                              <=> Entry \in R /\ Shut(out', R)
  BY <1>0 DEF Closed, Shut
<1>2. ReachFrom({Entry}, {}, Slots)' = Lives(out')
  BY <1>1 DEF ReachFrom, Lives
<1> QED BY <1>2 DEF Reachable

\* Membership in a list, as a range and by position
LEMMA BlockFacts ==
    ASSUME NEW s \in Seq(Node)
    PROVE  \A b : b \in Range(s) <=> Holds(s, b)
<1>1. DOMAIN s = 1..Len(s)
  BY LenProperties
<1> QED BY <1>1 DEF Range, Holds

\* Edges stay among the blocks.
LEMMA EdgesFacts ==
    ASSUME GraphOK(out, ins, order)
    PROVE  Edges = SlotsOf(out)
<1>1. order \in Seq(Node)
  BY DEF GraphOK
<1>2. \A p \in SlotsOf(out) : p[1] \in Blocks
  BY <1>1, BlockFacts, SlotType DEF Blocks
<1> QED BY <1>2, SlotFacts DEF Edges

\* Where the index says a block is, it is.
LEMMA PositionFacts ==
    ASSUME GraphOK(out, ins, order), TreeOK(out, order, tree, label),
           NEW b \in Node, Holds(order, b)
    PROVE  Position(b) = tree.index[b] + 1 /\ order[tree.index[b] + 1] = b
<1>1. order \in Seq(Node) /\ \A i, j \in 1..Len(order) : order[i] = order[j] => i = j
  BY DEF GraphOK
<1>2. tree.index[b] \in 0..(Len(order) - 1) /\ order[tree.index[b] + 1] = b
  BY DEF TreeOK
<1>3. DOMAIN order = 1..Len(order) /\ Len(order) \in Nat
  BY <1>1, LenProperties
<1>4. tree.index[b] + 1 \in DOMAIN order
  BY <1>2, <1>3
<1>5. Position(b) \in DOMAIN order /\ order[Position(b)] = b
  BY <1>2, <1>4 DEF Position
<1>6. Position(b) = tree.index[b] + 1
  BY <1>1, <1>2, <1>3, <1>4, <1>5
<1> QED BY <1>2, <1>6

\* The invariant gives the order of the blocks.
LEMMA OrderFromInv == SpanInv => OrderRight
<1> SUFFICES ASSUME SpanInv PROVE OrderRight
  OBVIOUS
<1>0. GraphOK(out, ins, order) /\ HistoryOK(out, ins, order, stage)
  BY DEF SpanInv
<1>1. EntryFirst
  BY <1>0 DEF HistoryOK, EntryFirst
<1>2. ASSUME pc # "tree"
      PROVE  /\ \A b \in Blocks : order[tree.index[b] + 1] = b
             /\ \A p \in Edges : "back" \in label[p[1]][p[2]] <=> Position(p[1]) >= Position(Target(p))
  <2>1. TreeOK(out, order, tree, label) /\ LabelFacts(out, order, tree, label)
    BY <1>2 DEF SpanInv
  <2>2. order \in Seq(Node)
    BY <1>0 DEF GraphOK
  <2>3. \A b \in Blocks : b \in Node /\ Holds(order, b)
    <3>1. \A b \in Blocks : Holds(order, b)
      BY <2>2, BlockFacts DEF Blocks
    <3>2. \A i \in 1..Len(order) : order[i] \in Node
      BY <2>2, ElementOfSeq
    <3> QED BY <3>1, <3>2 DEF Holds
  <2>4. \A b \in Blocks : order[tree.index[b] + 1] = b
    BY <1>0, <2>1, <2>3, PositionFacts
  <2>5. ASSUME NEW p \in Edges
        PROVE  "back" \in label[p[1]][p[2]] <=> Position(p[1]) >= Position(Target(p))
    <3>1. p \in SlotsOf(out)
      BY <1>0, EdgesFacts
    <3> DEFINE b == p[1]
               c == Dest(out, p)
    <3>2. b \in Node /\ c \in Node /\ Holds(order, b) /\ Holds(order, c)
      BY <1>0, <3>1, SlotType
    <3>3. "back" \in label[p[1]][p[2]] <=> tree.index[b] >= tree.index[c]
      BY <2>1, <3>1 DEF LabelFacts
    <3>4. Position(b) = tree.index[b] + 1 /\ Position(c) = tree.index[c] + 1
      BY <1>0, <2>1, <3>2, PositionFacts
    <3>5. tree.index[b] \in Int /\ tree.index[c] \in Int
      BY <2>1, <3>2 DEF TreeOK, TreeRec
    <3>6. Target(p) = c
      BY SlotFacts
    <3> HIDE DEF b, c
    <3>7. tree.index[b] >= tree.index[c] <=> Position(b) >= Position(c)
      BY <3>4, <3>5
    <3> QED BY <3>3, <3>6, <3>7 DEF b
  <2> QED BY <2>4, <2>5
<1>3. ReversePostorder
  BY <1>2 DEF ReversePostorder
<1> QED BY <1>1, <1>3 DEF OrderRight

\* The blocks that live are in the list.
LEMMA LivesAreBlocks ==
    ASSUME NEW ou, NEW inn, NEW ord, GraphOK(ou, inn, ord)
    PROVE  \A b \in Lives(ou) : Holds(ord, b)
<1> DEFINE R == {b \in Node : Holds(ord, b)}
<1>1. Entry \in R
  BY EntryFacts DEF GraphOK
<1>2. Shut(ou, R)
  BY SlotType DEF Shut
<1> QED BY <1>1, <1>2 DEF Lives

\* The invariant gives what RemoveUnreachableBlocks leaves.
LEMMA DeadFromInv == SpanInv => DeadRemoved
<1> SUFFICES ASSUME SpanInv, stage = "settled", ins[Entry] = <<>> PROVE Blocks = Reachable
  BY DEF DeadRemoved
<1>0. GraphOK(out, ins, order) /\ HistoryOK(out, ins, order, stage)
  BY DEF SpanInv
<1>1. order \in Seq(Node)
  BY <1>0 DEF GraphOK
<1>2. \A b \in Blocks : b \in Node /\ Holds(order, b)
  <2>1. \A b \in Blocks : Holds(order, b)
    BY <1>1, BlockFacts DEF Blocks
  <2>2. \A i \in 1..Len(order) : order[i] \in Node
    BY <1>1, ElementOfSeq
  <2> QED BY <2>1, <2>2 DEF Holds
<1>3. \A b \in Blocks : b \in Lives(out)
  BY <1>0, <1>2 DEF HistoryOK
<1>4. \A b \in Lives(out) : b \in Blocks
  BY <1>0, <1>1, LivesAreBlocks, BlockFacts DEF Blocks
<1> QED BY <1>3, <1>4, ReachableFacts

\* Every edge that is no loop edge leads up in the index, so there is no cycle of them.
LEMMA LoopsFromInv == SpanInv => LoopsCut
<1> SUFFICES ASSUME SpanInv, pc = "done" PROVE Acyclic(Edges \ Labelled("loop"))
  BY DEF LoopsCut, Done
<1>0. /\ GraphOK(out, ins, order) /\ TreeOK(out, order, tree, label)
      /\ LabelFacts(out, order, tree, label)
  BY DEF SpanInv
<1> DEFINE E == Edges \ Labelled("loop")
<1>1. \A p \in E : /\ p \in SlotsOf(out) /\ Target(p) = Dest(out, p)
                   /\ p[1] \in Node /\ Holds(order, p[1])
                   /\ Dest(out, p) \in Node /\ Holds(order, Dest(out, p))
                   /\ tree.index[p[1]] < tree.index[Dest(out, p)]
  <2> SUFFICES ASSUME NEW p \in E
               PROVE  /\ p \in SlotsOf(out) /\ Target(p) = Dest(out, p)
                      /\ p[1] \in Node /\ Holds(order, p[1])
                      /\ Dest(out, p) \in Node /\ Holds(order, Dest(out, p))
                      /\ tree.index[p[1]] < tree.index[Dest(out, p)]
    OBVIOUS
  <2>1. p \in SlotsOf(out) /\ Target(p) = Dest(out, p) /\ "loop" \notin label[p[1]][p[2]]
    BY <1>0, EdgesFacts, SlotFacts DEF Labelled
  <2>2. /\ p[1] \in Node /\ Holds(order, p[1])
        /\ Dest(out, p) \in Node /\ Holds(order, Dest(out, p))
    BY <1>0, <2>1, SlotType
  <2>3. ~(tree.index[p[1]] >= tree.index[Dest(out, p)])
    BY <1>0, <2>1 DEF LabelFacts
  <2>4. tree.index[p[1]] \in Int /\ tree.index[Dest(out, p)] \in Int
    BY <1>0, <2>2 DEF TreeOK, TreeRec
  <2> QED BY <2>1, <2>2, <2>3, <2>4
<1> HIDE DEF E
<1>2. \A b \in Node : tree.index[b] \in Int
  BY <1>0 DEF TreeOK, TreeRec
<1>3. ASSUME NEW b \in Node
      PROVE  b \notin ReachFrom({Target(p) : p \in {q \in E : q[1] = b}}, {}, E)
  <2> DEFINE R == {c \in Node : tree.index[c] > tree.index[b]}
  <2>1. {Target(p) : p \in {q \in E : q[1] = b}} \ {} \subseteq R
    BY <1>1, <1>2
  <2>2. Closed(R, {}, E)
    <3> SUFFICES ASSUME NEW p \in E, p[1] \in R PROVE Target(p) \in R
      BY DEF Closed
    <3>1. tree.index[p[1]] < tree.index[Dest(out, p)] /\ tree.index[p[1]] > tree.index[b]
      BY <1>1
    <3>2. tree.index[Dest(out, p)] > tree.index[b]
      BY <1>1, <1>2, <3>1
    <3> QED BY <1>1, <3>2
  <2>3. R \in SUBSET Node /\ b \notin R
    BY <1>2
  <2> HIDE DEF R
  <2> QED BY <2>1, <2>2, <2>3 DEF ReachFrom
<1> QED BY <1>3 DEF Acyclic, E

\* What cannot be reached without x is what some set that avoids it leaves out.
LEMMA AvoidFacts ==
    ASSUME NEW F, F \subseteq Slots, NEW r, NEW x, NEW c \in Node
    PROVE  c \notin ReachFrom({r}, {x}, F) <=> \E R \in SUBSET Node : Avoids(F, out, r, x, R) /\ c \notin R
<1>1. \A R \in SUBSET Node : ({r} \ {x} \subseteq R /\ Closed(R, {x}, F)) <=> Avoids(F, out, r, x, R)
  BY SlotFacts DEF Closed, Avoids
<1> QED BY <1>1 DEF ReachFrom

\* The invariant gives what findIrreducible promises.
LEMMA CutFromInv == SpanInv => IrreducibleCut
<1> SUFFICES ASSUME SpanInv, pc = "done", Len(tree.roots) = 1 PROVE IrreducibleCut
  BY DEF IrreducibleCut, Done
<1>0. GraphOK(out, ins, order) /\ CutOK(out, tree, label)
  BY DEF SpanInv
<1> DEFINE dominates(b, c, F) == b = c \/ c \notin ReachFrom({tree.roots[1]}, {b}, F)
           reducible(F) == \A p \in F \cap Labelled("back") : dominates(Target(p), p[1], F)
           E == Edges \ Labelled("irreducible")
<1>1. Edges = SlotsOf(out) /\ E = Kept(out, label)
  BY <1>0, EdgesFacts, SlotFacts DEF Labelled, Kept
<1>2. ASSUME NEW F, F \subseteq Slots PROVE reducible(F) <=> Reduces(F, out, tree, label)
  <2>1. \A p \in F : p \in Labelled("back") <=> "back" \in label[p[1]][p[2]]
    BY <1>2 DEF Labelled
  <2>2. ASSUME NEW p \in F
        PROVE  dominates(Target(p), p[1], F) <=> Dominates(F, out, tree.roots[1], Dest(out, p), p[1])
    <3>1. p \in SlotsOf(out) /\ Target(p) = Dest(out, p)
      BY <1>2, SlotFacts
    <3>2. p[1] \in Node
      BY <1>0, <3>1, SlotType
    <3>3. p[1] \notin ReachFrom({tree.roots[1]}, {Target(p)}, F)
            <=> \E R \in SUBSET Node : Avoids(F, out, tree.roots[1], Target(p), R) /\ p[1] \notin R
      BY <1>2, <3>2, AvoidFacts
    <3> QED BY <3>1, <3>3 DEF Dominates
  <2> HIDE DEF dominates
  <2> QED BY <2>1, <2>2 DEF Reduces
<1> HIDE DEF dominates
<1>3. E \subseteq Slots /\ Edges \subseteq Slots
  BY <1>1, SlotFacts DEF Kept
<1>4. (reducible(E) <=> Reduces(E, out, tree, label)) /\ (reducible(Edges) <=> Reduces(Edges, out, tree, label))
  BY <1>2, <1>3
<1> HIDE DEF E, reducible
<1>5. reducible(E) /\ (reducible(Edges) => E = Edges)
  BY <1>0, <1>1, <1>4 DEF CutOK
<1> QED BY <1>5 DEF IrreducibleCut, reducible, dominates, E

-----------------------------------------------------------------------------
(***************************************************************************)
(* A pass begins                                                            *)
(***************************************************************************)
LEMMA NoLabelsFacts ==
    ASSUME NEW ou, NEW inn, NEW ord, GraphOK(ou, inn, ord)
    PROVE  /\ LabelType(ou, NoLabels(ou))
           /\ \A p \in SlotsOf(ou) : NoLabels(ou)[p[1]][p[2]] = {}
<1>1. \A b \in Node : ou[b] \in Seq(Node) /\ DOMAIN ou[b] = 1..Len(ou[b])
  BY LenProperties DEF GraphOK
<1>2. DOMAIN NoLabels(ou) = Node /\ \A b \in Node : NoLabels(ou)[b] = [k \in DOMAIN ou[b] |-> {}]
  BY DEF NoLabels
<1>3. LabelType(ou, NoLabels(ou))
  BY SMTT(30), <1>1, <1>2 DEF LabelType
<1>4. ASSUME NEW p \in SlotsOf(ou) PROVE NoLabels(ou)[p[1]][p[2]] = {}
  <2>1. p[1] \in Node /\ p[2] \in DOMAIN ou[p[1]]
    BY <1>1, SlotType
  <2> QED BY <1>2, <2>1
<1> QED BY <1>3, <1>4

\* A fresh tree has seen nothing.
Blank(t, roots, home) ==
    /\ t \in TreeRec
    /\ t.pre = <<>> /\ t.rpost = <<>> /\ t.stack = <<>>
    /\ t.roots = roots /\ t.at = 0 /\ t.home = home /\ ~t.extra
    /\ \A b \in Node : ~Seen(t, b) /\ ~Fin(t, b)
    /\ Len(t.pre) = 0 /\ Len(t.rpost) = 0 /\ Len(t.stack) = 0

\* A fresh tree is blank.
LEMMA FreshFacts ==
    ASSUME NEW roots \in Seq(Node), NEW home \in Nat, NEW again \in BOOLEAN
    PROVE  /\ Blank(FreshTree(roots, home, again), roots, home)
           /\ FreshTree(roots, home, again).again = again
<1> DEFINE t == FreshTree(roots, home, again)
<1>1. <<>> \in Seq(Node) /\ <<>> \in Seq([bl : Node, edge : Nat])
  BY EmptySeq
<1>2. t \in TreeRec
  BY <1>1 DEF FreshTree, TreeRec
<1>3. /\ t.visit = [b \in Node |-> -1] /\ t.index = [b \in Node |-> -1]
      /\ t.pre = <<>> /\ t.rpost = <<>> /\ t.stack = <<>>
      /\ t.roots = roots /\ t.at = 0 /\ t.home = home /\ t.extra = FALSE /\ t.again = again
  BY DEF FreshTree
<1>4. \A b \in Node : ~Seen(t, b) /\ ~Fin(t, b)
  BY <1>3 DEF Seen, Fin
<1> HIDE DEF t
<1> QED BY <1>1, <1>2, <1>3, <1>4, EmptySeq DEF t, Blank

\* A blank tree over unlabelled edges begins a pass.
LEMMA FreshOK ==
    ASSUME NEW ou, NEW inn, NEW ord, NEW st, GraphOK(ou, inn, ord),
           NEW roots \in Seq(Node), NEW home \in Nat, NEW again \in BOOLEAN,
           NEW t, t = FreshTree(roots, home, again),
           \A i \in 1..Len(roots) : Holds(ord, roots[i]),
           RootList(ou, inn, ord, st, t)
    PROVE  PassOK(ou, inn, ord, st, t, NoLabels(ou))
<1>1. /\ t \in TreeRec
      /\ t.pre = <<>> /\ t.rpost = <<>> /\ t.stack = <<>> /\ t.roots = roots /\ t.at = 0
      /\ \A b \in Node : ~Seen(t, b) /\ ~Fin(t, b)
      /\ Len(t.pre) = 0 /\ Len(t.rpost) = 0 /\ Len(t.stack) = 0
  <2>1. Blank(t, roots, home)
    BY FreshFacts
  <2> QED BY <2>1 DEF Blank
<1>2. /\ LabelType(ou, NoLabels(ou))
      /\ \A p \in SlotsOf(ou) : NoLabels(ou)[p[1]][p[2]] = {}
  BY NoLabelsFacts
<1>3. Len(roots) \in Nat /\ Len(ord) \in Nat
  BY LenProperties DEF GraphOK
<1>4. Numbers(ord, t)
  BY <1>1, <1>3 DEF Numbers
<1>5. StackOK(ou, t)
  BY <1>1 DEF StackOK
<1>6. Spans(t)
  BY <1>1 DEF Spans
<1>7. EdgesOK(ou, t, NoLabels(ou))
  <2> SUFFICES ASSUME NEW p \in SlotsOf(ou) PROVE ~Explored(t, p)
    BY <1>2 DEF EdgesOK
  <2> QED BY <1>1, SlotType DEF Explored
<1>8. RootsOK(ou, ord, t, NoLabels(ou))
  BY <1>1, <1>3 DEF RootsOK
<1>9. LiveOK(ou, t)
  BY <1>1, EntryFacts DEF LiveOK
<1> QED BY <1>1, <1>2, <1>4, <1>5, <1>6, <1>7, <1>8, <1>9 DEF PassOK

\* A list with two places swapped
LEMMA SwapFacts ==
    ASSUME NEW S, NEW s \in Seq(S), NEW i \in 1..Len(s), NEW j \in 1..Len(s)
    PROVE  /\ Swap(s, i, j) \in Seq(S) /\ Len(Swap(s, i, j)) = Len(s)
           /\ \A k \in 1..Len(s) : Swap(s, i, j)[k] = IF k = j THEN s[i] ELSE IF k = i THEN s[j] ELSE s[k]
           /\ \A b : Holds(Swap(s, i, j), b) <=> Holds(s, b)
<1> DEFINE u == Swap(s, i, j)
<1>0. Len(s) \in Nat /\ DOMAIN s = 1..Len(s) /\ s \in [1..Len(s) -> S] /\ s[i] \in S /\ s[j] \in S
  BY LenProperties, ElementOfSeq
<1>1. /\ u \in [1..Len(s) -> S]
      /\ \A k \in 1..Len(s) : u[k] = IF k = j THEN s[i] ELSE IF k = i THEN s[j] ELSE s[k]
  BY <1>0 DEF Swap
<1> HIDE DEF u
<1>2. u \in Seq(S) /\ Len(u) = Len(s)
  BY <1>0, <1>1, RebuildFacts
<1>3. ASSUME NEW b PROVE Holds(u, b) <=> Holds(s, b)
  <2>1. ASSUME NEW k \in 1..Len(s), u[k] = b PROVE \E m \in 1..Len(s) : s[m] = b
    BY <1>1, <2>1
  <2>2. ASSUME NEW k \in 1..Len(s), s[k] = b PROVE \E m \in 1..Len(s) : u[m] = b
    <3>1. CASE k = i
      BY <1>1, <2>2, <3>1
    <3>2. CASE k = j
      BY <1>1, <2>2, <3>2
    <3>3. CASE k # i /\ k # j
      BY <1>1, <2>2, <3>3
    <3> QED BY <3>1, <3>2, <3>3
  <2> QED BY <1>2, <2>1, <2>2 DEF Holds
<1> QED BY <1>1, <1>2, <1>3 DEF u

\* A swap repeats nothing.
LEMMA SwapInjective ==
    ASSUME NEW S, NEW s \in Seq(S), NEW i \in 1..Len(s), NEW j \in 1..Len(s),
           \A a, b \in 1..Len(s) : s[a] = s[b] => a = b,
           NEW a \in 1..Len(s), NEW b \in 1..Len(s), Swap(s, i, j)[a] = Swap(s, i, j)[b]
    PROVE  a = b
<1>1. \A k \in 1..Len(s) : Swap(s, i, j)[k] = IF k = j THEN s[i] ELSE IF k = i THEN s[j] ELSE s[k]
  BY SwapFacts
<1> QED BY <1>1

\* The roots a structuring begins with: one block, or blocks without in-edges.
LEMMA InitialRootsFacts ==
    ASSUME NEW ou, NEW inn, NEW ord, GraphOK(ou, inn, ord),
           NEW r, r = InitialRoots(ord, inn)
    PROVE  /\ r \in Seq(Node) /\ Len(r) \in Nat /\ Len(r) >= 1
           /\ \A i \in 1..Len(r) : Holds(ord, r[i])
           /\ \A i, j \in 1..Len(r) : r[i] = r[j] => i = j
           /\ Len(r) >= 2 => \A i \in 1..Len(r) : Len(inn[r[i]]) = 0
           /\ inn[Entry] = <<>> /\ ord[1] = Entry => r[Len(r)] = Entry
           /\ (\A b \in Node : b # Entry => inn[b] # <<>>) /\ ord[1] = Entry => r = <<Entry>>
<1> DEFINE T == {b \in Node : inn[b] = <<>>}
           k == Keep(ord, T)
<1>0. /\ ord \in Seq(Node) /\ Len(ord) \in Nat /\ Len(ord) >= 1 /\ 1 \in 1..Len(ord)
      /\ \A i \in 1..Len(ord) : ord[i] \in Node
      /\ \A i, j \in 1..Len(ord) : ord[i] = ord[j] => i = j
      /\ \A b \in Node : Len(inn[b]) = 0 <=> inn[b] = <<>>
  <2>1. ord \in Seq(Node) /\ Len(ord) \in Nat /\ Holds(ord, Entry)
    BY LenProperties DEF GraphOK
  <2>2. Len(ord) >= 1
    BY <2>1 DEF Holds
  <2>3. \A b \in Node : inn[b] \in Seq(Node \X (1..MaxOut))
    BY DEF GraphOK
  <2>4. \A b \in Node : Len(inn[b]) = 0 <=> inn[b] = <<>>
    BY <2>3, EmptySeq
  <2> QED BY <2>1, <2>2, <2>4, ElementOfSeq DEF GraphOK
<1>1. /\ k \in Seq(Node) /\ k \in Seq(Node \cap T) /\ Len(k) \in Nat
      /\ \A i \in 1..Len(k) : Holds(ord, k[i]) /\ k[i] \in T
      /\ \A i, j \in 1..Len(k) : k[i] = k[j] => i = j
      /\ k = <<>> <=> \A j \in 1..Len(ord) : ord[j] \notin T
      /\ ord[1] \in T => Len(k) >= 1 /\ k[1] = ord[1]
  <2>1. /\ k \in Seq(Node \cap T) /\ k \in Seq(Node) /\ Len(k) \in Nat
        /\ \A i \in 1..Len(k) : \E j \in 1..Len(ord) : k[i] = ord[j] /\ ord[j] \in T
        /\ k = <<>> <=> \A j \in 1..Len(ord) : ord[j] \notin T
    BY Zenon, <1>0, KeepFacts
  <2>2. \A i, j \in 1..Len(k) : k[i] = k[j] => i = j
    BY Zenon, <1>0, KeepFacts
  <2>3. \A m \in 1..Len(ord) : ord[m] \in T /\ (\A j \in 1..Len(ord) : ord[j] \in T => m <= j)
          => Len(k) >= 1 /\ k[1] = ord[m]
    BY Zenon, <1>0, KeepFacts
  <2>4. \A j \in 1..Len(ord) : 1 <= j
    BY <1>0
  <2>5. ord[1] \in T => Len(k) >= 1 /\ k[1] = ord[1]
    BY <1>0, <2>3, <2>4
  <2> HIDE DEF k, T
  <2> QED BY <2>1, <2>2, <2>5 DEF Holds
<1>2. r = IF k = <<>> THEN <<ord[1]>> ELSE Swap(k, 1, Len(k))
  BY DEF InitialRoots
<1>3. \A b : b \in T <=> b \in Node /\ inn[b] = <<>>
  OBVIOUS
<1> HIDE DEF k, T
<1>4. CASE k = <<>>
  <2>1. r = <<ord[1]>>
    BY <1>2, <1>4
  <2>2. r \in Seq(Node) /\ Len(r) = 1 /\ r[1] = ord[1]
    BY <1>0, <2>1
  <2>3. ord[1] \notin T
    BY <1>0, <1>1, <1>4
  <2> QED BY <1>0, <1>3, <2>1, <2>2, <2>3 DEF Holds
<1>5. CASE k # <<>>
  <2>1. Len(k) >= 1
    <3>1. Len(k) # 0
      BY <1>1, <1>5, EmptySeq
    <3> QED BY <1>1, <3>1
  <2>2. r = Swap(k, 1, Len(k)) /\ 1 \in 1..Len(k) /\ Len(k) \in 1..Len(k)
    BY <1>1, <1>2, <1>5, <2>1
  <2>3. /\ r \in Seq(Node) /\ Len(r) = Len(k)
        /\ \A i \in 1..Len(k) : r[i] = IF i = Len(k) THEN k[1] ELSE IF i = 1 THEN k[Len(k)] ELSE k[i]
        /\ \A a, b \in 1..Len(k) : r[a] = r[b] => a = b
    <3> DEFINE u == Swap(k, 1, Len(k))
    <3>1. u \in Seq(Node) /\ Len(u) = Len(k)
      BY <1>1, <2>2, SwapFacts
    <3> DEFINE a == 1
               z == Len(k)
    <3>0. k \in Seq(Node) /\ a \in 1..Len(k) /\ z \in 1..Len(k)
      BY <1>1, <2>2
    <3> HIDE DEF a, z
    <3>2. \A i \in 1..Len(k) : Swap(k, a, z)[i] = IF i = z THEN k[a] ELSE IF i = a THEN k[z] ELSE k[i]
      BY <3>0, SwapFacts
    <3>3. \A b, c \in 1..Len(k) : Swap(k, a, z)[b] = Swap(k, a, z)[c] => b = c
      BY <1>1, <3>0, SwapInjective
    <3> HIDE DEF u
    <3>4. r = u
      BY <2>2 DEF u
    <3> QED BY <3>1, <3>2, <3>3, <3>4 DEF a, z, u
  <2>4. \A i \in 1..Len(r) : \E j \in 1..Len(k) : r[i] = k[j]
    BY <2>2, <2>3
  <2>5. \A i \in 1..Len(r) : Holds(ord, r[i]) /\ r[i] \in T
    BY <1>1, <2>4
  <2>6. \A i \in 1..Len(r) : Len(inn[r[i]]) = 0
    BY <1>0, <1>3, <2>5
  <2>7. inn[Entry] = <<>> /\ ord[1] = Entry => r[Len(r)] = Entry
    BY <1>0, <1>1, <1>3, <2>2, <2>3
  <2>8. ASSUME \A b \in Node : b # Entry => inn[b] # <<>>, ord[1] = Entry
        PROVE  r = <<Entry>>
    <3>1. \A i \in 1..Len(r) : r[i] = Entry
      BY <1>3, <2>5, <2>8
    <3>2. Len(r) = 1
      BY ZenonT(60), <1>1, <2>1, <2>2, <2>3, <3>1
    <3>3. r = <<r[1]>>
      BY <2>3, <3>2
    <3> QED BY <3>1, <3>2, <3>3
  <2> QED BY <1>1, <2>1, <2>3, <2>5, <2>6, <2>7, <2>8
<1> QED BY <1>4, <1>5

\* While every block can be reached, every block but the entry has a way in.
LEMMA ReachedHasEdge ==
    ASSUME NEW ou, NEW inn, NEW ord, GraphOK(ou, inn, ord), Lives(ou) = Node,
           NEW b \in Node, b # Entry
    PROVE  inn[b] # <<>>
<1> SUFFICES ASSUME inn[b] = <<>> PROVE FALSE
  OBVIOUS
<1>1. \A p \in SlotsOf(ou) : Dest(ou, p) # b
  <2>1. Len(inn[b]) = 0
    BY EmptySeq
  <2>2. ~ \E i \in 1..Len(inn[b]) : TRUE
    BY <2>1
  <2> QED BY <2>2 DEF GraphOK, Holds
<1>2. Shut(ou, Node \ {b})
  BY <1>1, SlotType DEF Shut
<1>3. Entry \in Node \ {b} /\ Node \ {b} \in SUBSET Node
  BY EntryFacts
<1> QED BY <1>2, <1>3 DEF Lives

\* A structuring begins with a pass over the initial roots.
LEMMA NewTreeOK ==
    ASSUME NEW ou, NEW inn, NEW ord, NEW st, GraphOK(ou, inn, ord), HistoryOK(ou, inn, ord, st)
    PROVE  PassOK(ou, inn, ord, st, NewTree(ord, inn), NoLabels(ou))
<1> DEFINE r == InitialRoots(ord, inn)
           t == FreshTree(r, Len(r), FALSE)
<1>1. /\ r \in Seq(Node) /\ Len(r) \in Nat /\ Len(r) >= 1
      /\ \A i \in 1..Len(r) : Holds(ord, r[i])
      /\ \A i, j \in 1..Len(r) : r[i] = r[j] => i = j
      /\ Len(r) >= 2 => \A i \in 1..Len(r) : Len(inn[r[i]]) = 0
      /\ inn[Entry] = <<>> /\ ord[1] = Entry => r[Len(r)] = Entry
      /\ (\A b \in Node : b # Entry => inn[b] # <<>>) /\ ord[1] = Entry => r = <<Entry>>
  BY InitialRootsFacts
<1> HIDE DEF r
<1>2. Blank(t, r, Len(r)) /\ t.again = FALSE
  BY <1>1, FreshFacts
<1>3. st = "built" => r = <<Entry>> /\ Len(r) = 1 /\ r[1] = Entry
  <2>1. st = "built" => r = <<Entry>>
    BY <1>1, ReachedHasEdge DEF HistoryOK
  <2> QED BY <2>1
<1>4. inn[Entry] = <<>> \/ st = "built" => r[Len(r)] = Entry
  BY <1>1, <1>3 DEF HistoryOK
<1> HIDE DEF t
<1>5. /\ t.roots = r /\ t.at = 0 /\ t.home = Len(r) /\ ~t.extra /\ ~t.again
      /\ \A b \in Node : ~Seen(t, b)
  BY <1>2 DEF Blank
<1>6. \A i \in 1..Len(r) : r[i] \in Node
  BY <1>1, ElementOfSeq
<1>7. RootList(ou, inn, ord, st, t)
  <2>1. /\ t.home >= 1 /\ t.home <= Len(t.roots)
        /\ \A i, j \in 1..t.home : t.roots[i] = t.roots[j] => i = j
        /\ \A i \in 1..t.home : i > t.at => ~Seen(t, t.roots[i])
        /\ t.at <= t.home /\ Len(t.roots) = t.home
    BY <1>1, <1>5, <1>6
  <2>2. /\ \A i \in 2..t.home : Len(inn[t.roots[i]]) = 0
        /\ t.home >= 2 => Len(inn[t.roots[1]]) = 0
    BY <1>1, <1>5
  <2>3. inn[Entry] = <<>> \/ st = "built" => t.roots[t.home] = Entry
    BY <1>4, <1>5
  <2>4. st = "built" => t.home = 1
    BY <1>3, <1>5
  <2> QED BY <1>5, <2>1, <2>2, <2>3, <2>4 DEF RootList
<1>8. PassOK(ou, inn, ord, st, t, NoLabels(ou))
  <2>1. t = FreshTree(r, Len(r), FALSE) /\ Len(r) \in Nat /\ FALSE \in BOOLEAN
    BY <1>1 DEF t
  <2> QED BY <1>1, <1>7, <2>1, FreshOK
<1> QED BY <1>8 DEF NewTree, t, r

-----------------------------------------------------------------------------
(***************************************************************************)
(* The initial states                                                       *)
(***************************************************************************)
LEMMA InitGraph ==
    Init => GraphOK(out, ins, order) /\ HistoryOK(out, ins, order, stage)
<1> SUFFICES ASSUME Init PROVE GraphOK(out, ins, order) /\ HistoryOK(out, ins, order, stage)
  OBVIOUS
<1>1. out \in [Node -> Seq(Node)]
      /\ \A b \in Node : /\ Len(out[b]) <= MaxOut
                         /\ \A i, j \in 1..Len(out[b]) : out[b][i] = out[b][j] => i = j
  <2>1. out \in [Node -> {l \in OutLists : IsInjective(l)}]
    BY DEF Init
  <2>2. ASSUME NEW b \in Node
        PROVE  /\ out[b] \in Seq(Node) /\ Len(out[b]) <= MaxOut
               /\ \A i, j \in 1..Len(out[b]) : out[b][i] = out[b][j] => i = j
    <3>1. out[b] \in OutLists /\ IsInjective(out[b])
      BY <2>1
    <3>2. PICK n \in 0..MaxOut : out[b] \in [1..n -> Node]
      BY <3>1 DEF OutLists
    <3>3. n \in Nat
      BY <3>2, SpanningTreeAssumption
    <3>4. out[b] \in Seq(Node) /\ Len(out[b]) = n
      BY <3>2, <3>3, RebuildFacts
    <3>5. Len(out[b]) <= MaxOut
      BY <3>2, <3>4
    <3> QED BY <3>1, <3>2, <3>4, <3>5 DEF IsInjective
  <2> QED BY <2>1, <2>2
<1>2. \A b \in Node : /\ Len(out[b]) \in Nat /\ DOMAIN out[b] = 1..Len(out[b])
                      /\ \A i \in 1..Len(out[b]) : out[b][i] \in Node /\ i \in 1..MaxOut
  <2> SUFFICES ASSUME NEW b \in Node
               PROVE  /\ Len(out[b]) \in Nat /\ DOMAIN out[b] = 1..Len(out[b])
                      /\ \A i \in 1..Len(out[b]) : out[b][i] \in Node /\ i \in 1..MaxOut
    OBVIOUS
  <2>1. out[b] \in Seq(Node) /\ Len(out[b]) <= MaxOut
    BY <1>1
  <2>2. Len(out[b]) \in Nat /\ DOMAIN out[b] = 1..Len(out[b])
    BY <2>1, LenProperties
  <2>3. \A i \in 1..Len(out[b]) : out[b][i] \in Node
    BY <2>1, ElementOfSeq
  <2> QED BY <2>1, <2>2, <2>3, SpanningTreeAssumption
<1> DEFINE sources(c) == {b \in Node : c \in Range(out[b])}
           slot(b, c) == CHOOSE k \in DOMAIN out[b] : out[b][k] = c
           halves(c) == [i \in 1..Cardinality(sources(c)) |-> <<Nth(sources(c), i), slot(Nth(sources(c), i), c)>>]
<1>3. ins = [c \in Node |-> halves(c)]
  BY DEF Init, InLists
<1>4. ASSUME NEW c \in Node, NEW b \in sources(c)
      PROVE  b \in Node /\ slot(b, c) \in 1..Len(out[b]) /\ out[b][slot(b, c)] = c
  <2>1. b \in Node /\ \E k \in DOMAIN out[b] : out[b][k] = c
    BY <1>4 DEF Range
  <2> QED BY <1>2, <2>1
<1>5. ASSUME NEW b \in Node, NEW k \in 1..Len(out[b])
      PROVE  b \in sources(out[b][k]) /\ slot(b, out[b][k]) = k
  <2>1. b \in sources(out[b][k])
    BY <1>2, <1>5 DEF Range
  <2>2. out[b][k] \in Node
    BY <1>2, <1>5
  <2>3. slot(b, out[b][k]) \in 1..Len(out[b]) /\ out[b][slot(b, out[b][k])] = out[b][k]
    BY <1>4, <2>1, <2>2
  <2> HIDE DEF slot, sources
  <2> QED BY <1>1, <1>5, <2>1, <2>3
<1>6. ASSUME NEW c \in Node
      PROVE  /\ Cardinality(sources(c)) \in Nat
             /\ \A i \in 1..Cardinality(sources(c)) : Nth(sources(c), i) \in sources(c)
             /\ \A b \in sources(c) : \E i \in 1..Cardinality(sources(c)) : Nth(sources(c), i) = b
  <2>1. sources(c) \in SUBSET (1..N) /\ N \in Nat
    BY SpanningTreeAssumption DEF Node
  <2> HIDE DEF sources
  <2> QED BY <2>1, NthFacts
<1> HIDE DEF sources, slot
<1>7. ASSUME NEW c \in Node
      PROVE  /\ ins[c] \in Seq(Node \X (1..MaxOut)) /\ Len(ins[c]) = Cardinality(sources(c))
             /\ \A i \in 1..Len(ins[c]) : ins[c][i] \in SlotsOf(out) /\ Dest(out, ins[c][i]) = c
             /\ \A b \in sources(c) : Holds(ins[c], <<b, slot(b, c)>>)
  <2>1. ins[c] = halves(c)
    BY <1>3
  <2>2. \A b \in sources(c) : <<b, slot(b, c)>> \in Node \X (1..MaxOut)
    BY <1>2, <1>4
  <2>3. ins[c] \in [1..Cardinality(sources(c)) -> Node \X (1..MaxOut)]
    BY <1>6, <2>1, <2>2
  <2>4. ins[c] \in Seq(Node \X (1..MaxOut)) /\ Len(ins[c]) = Cardinality(sources(c))
    BY <1>6, <2>3, RebuildFacts
  <2>5. \A b \in sources(c) : <<b, slot(b, c)>> \in SlotsOf(out) /\ Dest(out, <<b, slot(b, c)>>) = c
    <3> SUFFICES ASSUME NEW b \in sources(c)
                 PROVE  <<b, slot(b, c)>> \in SlotsOf(out) /\ Dest(out, <<b, slot(b, c)>>) = c
      OBVIOUS
    <3>1. b \in Node /\ slot(b, c) \in 1..Len(out[b]) /\ out[b][slot(b, c)] = c /\ Len(out[b]) \in Nat
      BY <1>2, <1>4
    <3>2. <<b, slot(b, c)>> \in Node \X (1..MaxOut) /\ slot(b, c) <= Len(out[b])
      BY <2>2, <3>1
    <3> QED BY <3>1, <3>2 DEF SlotsOf, Dest
  <2>6. \A i \in 1..Len(ins[c]) : /\ Nth(sources(c), i) \in sources(c)
                                  /\ ins[c][i] = <<Nth(sources(c), i), slot(Nth(sources(c), i), c)>>
    BY <1>6, <2>1, <2>4
  <2>7. \A b \in sources(c) : Holds(ins[c], <<b, slot(b, c)>>)
    BY <1>6, <2>4, <2>6 DEF Holds
  <2> QED BY <2>4, <2>5, <2>6, <2>7
<1>8. ins \in [Node -> Seq(Node \X (1..MaxOut))]
  BY <1>3, <1>7
<1>9. \A p \in SlotsOf(out) : Holds(ins[Dest(out, p)], p)
  <2> SUFFICES ASSUME NEW p \in SlotsOf(out) PROVE Holds(ins[Dest(out, p)], p)
    OBVIOUS
  <2>1. p[1] \in Node /\ p[2] \in 1..MaxOut /\ p[2] <= Len(out[p[1]]) /\ p = <<p[1], p[2]>>
    BY DEF SlotsOf
  <2>2. p[2] \in 1..Len(out[p[1]])
    BY <1>2, <2>1, SpanningTreeAssumption
  <2>3. p[1] \in sources(Dest(out, p)) /\ slot(p[1], Dest(out, p)) = p[2] /\ Dest(out, p) \in Node
    BY <1>2, <1>5, <2>1, <2>2 DEF Dest
  <2>4. Holds(ins[Dest(out, p)], <<p[1], slot(p[1], Dest(out, p))>>)
    BY <1>7, <2>3
  <2> QED BY <2>1, <2>3, <2>4
<1>10. /\ order \in Seq(Node) /\ Len(order) = N
       /\ \A i \in 1..N : order[i] = i
  <2>1. order = [i \in Node |-> i] /\ N \in Nat
    BY SpanningTreeAssumption DEF Init
  <2>2. order \in [1..N -> Node]
    BY <2>1 DEF Node
  <2> QED BY <2>1, <2>2, RebuildFacts DEF Node
<1>11. \A b \in Node : Holds(order, b)
  BY <1>10 DEF Holds, Node
<1>12. \A p \in SlotsOf(out) : Holds(order, p[1]) /\ Holds(order, Dest(out, p))
  <2> SUFFICES ASSUME NEW p \in SlotsOf(out) PROVE p[1] \in Node /\ Dest(out, p) \in Node
    BY <1>11
  <2>1. p[1] \in Node /\ p[2] \in 1..MaxOut /\ p[2] <= Len(out[p[1]])
    BY DEF SlotsOf
  <2>2. p[2] \in 1..Len(out[p[1]])
    BY <1>2, <2>1, SpanningTreeAssumption
  <2> QED BY <1>2, <2>1, <2>2 DEF Dest
<1>13. GraphOK(out, ins, order)
  BY <1>1, <1>7, <1>8, <1>9, <1>10, <1>11, <1>12, EntryFacts DEF GraphOK
<1>14. stage = "built" /\ Lives(out) = Node
  BY ReachableFacts DEF Init
<1>15. order[1] = Entry
  BY <1>10, SpanningTreeAssumption DEF Entry
<1> QED BY <1>13, <1>14, <1>15 DEF HistoryOK

\* The graph as bridge.Build leaves it
LEMMA InitInv == Init => SpanInv
<1> SUFFICES ASSUME Init PROVE SpanInv
  OBVIOUS
<1>1. GraphOK(out, ins, order) /\ HistoryOK(out, ins, order, stage)
  BY InitGraph
<1>2. pc = "tree" /\ label = NoLabels(out) /\ tree = NewTree(order, ins) /\ irr = NewIrr
  BY DEF Init
<1>3. PassOK(out, ins, order, stage, tree, label)
  BY <1>1, <1>2, NewTreeOK
<1>4. LabelType(out, label)
  BY <1>1, <1>2, NoLabelsFacts
<1>5. irr \in IrrRec /\ ~irr.rebuild
  <2>1. <<>> \in Seq([bl : Node, edge : Nat])
    BY EmptySeq
  <2> QED BY <1>2, <2>1 DEF IrrRec, NewIrr
<1> QED BY <1>1, <1>2, <1>3, <1>4, <1>5 DEF SpanInv

-----------------------------------------------------------------------------
(***************************************************************************)
(* The graph changes                                                        *)
(***************************************************************************)
LEMMA KeepMembers ==
    ASSUME NEW S, NEW s \in Seq(S), NEW T
    PROVE  /\ Keep(s, T) \in Seq(S)
           /\ \A e : Holds(Keep(s, T), e) <=> Holds(s, e) /\ e \in T
<1>1. /\ Keep(s, T) \in Seq(S)
      /\ \A i \in 1..Len(Keep(s, T)) : \E j \in 1..Len(s) : Keep(s, T)[i] = s[j] /\ s[j] \in T
      /\ \A j \in 1..Len(s) : s[j] \in T => \E i \in 1..Len(Keep(s, T)) : Keep(s, T)[i] = s[j]
  BY Zenon, KeepFacts
<1> QED BY <1>1 DEF Holds

\* A filtered list repeats nothing the list did not repeat.
LEMMA KeepInjective ==
    ASSUME NEW S, NEW s \in Seq(S), NEW T, \A i, j \in 1..Len(s) : s[i] = s[j] => i = j
    PROVE  \A i, j \in 1..Len(Keep(s, T)) : Keep(s, T)[i] = Keep(s, T)[j] => i = j
<1>1. (\A i, j \in 1..Len(s) : s[i] = s[j] => i = j)
        => \A i, j \in 1..Len(Keep(s, T)) : Keep(s, T)[i] = Keep(s, T)[j] => i = j
  BY Zenon, KeepFacts
<1> QED BY <1>1

\* A filtered list begins with the first of its members.
LEMMA KeepFirst ==
    ASSUME NEW S, NEW s \in Seq(S), NEW T, NEW m \in 1..Len(s), s[m] \in T,
           \A j \in 1..Len(s) : s[j] \in T => m <= j
    PROVE  Len(Keep(s, T)) >= 1 /\ Keep(s, T)[1] = s[m]
<1>1. \A k \in 1..Len(s) : s[k] \in T /\ (\A j \in 1..Len(s) : s[j] \in T => k <= j)
         => Len(Keep(s, T)) >= 1 /\ Keep(s, T)[1] = s[k]
  BY KeepFacts
<1> QED BY <1>1

\* An edge is cut: the slots after it slide down, and so do the halves that name
\* them.
LEMMA CutGraph ==
    ASSUME GraphOK(out, ins, order), NEW b \in Node, NEW k \in 1..Len(out[b]),
           NEW g, g = CutEdge([out |-> out, ins |-> ins], <<b, k>>)
    PROVE  GraphOK(g.out, g.ins, order)
<1> DEFINE p == <<b, k>>
           t == out[b][k]
           ou == [out EXCEPT ![b] = RemoveAt(@, k)]
           cutIns == [ins EXCEPT ![t] = Keep(@, Slots \ {p})]
           slide(e) == IF e[1] = b /\ e[2] > k THEN <<b, e[2] - 1>> ELSE e
           inn == [c \in Node |-> [i \in DOMAIN cutIns[c] |-> slide(cutIns[c][i])]]
<1>1. g.out = ou /\ g.ins = inn
  BY DEF CutEdge
<1>2. /\ out \in [Node -> Seq(Node)] /\ out[b] \in Seq(Node) /\ Len(out[b]) \in Nat /\ Len(out[b]) <= MaxOut
      /\ ins \in [Node -> Seq(Node \X (1..MaxOut))]
      /\ k \in Nat /\ k >= 1 /\ k <= Len(out[b]) /\ k \in 1..MaxOut /\ MaxOut \in Nat
  <2>1. out \in [Node -> Seq(Node)] /\ Len(out[b]) <= MaxOut /\ ins \in [Node -> Seq(Node \X (1..MaxOut))]
    BY DEF GraphOK
  <2>2. out[b] \in Seq(Node) /\ Len(out[b]) \in Nat
    BY <2>1, LenProperties
  <2> QED BY SMTT(30), <2>1, <2>2, SpanningTreeAssumption
<1>3. /\ ou \in [Node -> Seq(Node)]
      /\ \A c \in Node : c # b => ou[c] = out[c]
      /\ Len(ou[b]) = Len(out[b]) - 1
      /\ \A i \in 1..(Len(out[b]) - 1) : ou[b][i] = IF i < k THEN out[b][i] ELSE out[b][i + 1]
  <2>1. /\ RemoveAt(out[b], k) \in Seq(Node)
        /\ Len(RemoveAt(out[b], k)) = Len(out[b]) - 1
        /\ \A i \in 1..(Len(out[b]) - 1) :
              RemoveAt(out[b], k)[i] = IF i < k THEN out[b][i] ELSE out[b][i + 1]
    BY Zenon, <1>2, RemoveAtFacts
  <2> QED BY <1>2, <2>1
<1>4. /\ p \in SlotsOf(out) /\ Dest(out, p) = t /\ t \in Node
  <2>1. p \in SlotsOf(out)
    BY <1>2 DEF SlotsOf
  <2> QED BY <1>2, <2>1, ElementOfSeq DEF Dest
<1> HIDE DEF ou, p, t
<1>5. \A c \in Node : Len(ou[c]) <= MaxOut /\ Len(ou[c]) \in Nat
  <2>1. \A c \in Node : Len(out[c]) <= MaxOut /\ Len(out[c]) \in Nat
    BY <1>2, LenProperties DEF GraphOK
  <2>2. b \in Node /\ Len(ou[b]) <= MaxOut /\ Len(ou[b]) \in Nat
    <3>1. \A m, n \in Nat : k <= m /\ m <= n => m - 1 <= n /\ m - 1 \in Nat
      <4>1. k \in Nat /\ k >= 1
        BY <1>2
      <4> QED BY <4>1
    <3>2. Len(out[b]) \in Nat /\ k <= Len(out[b]) /\ Len(out[b]) <= MaxOut /\ MaxOut \in Nat
      BY <1>2
    <3>3. Len(out[b]) - 1 <= MaxOut /\ Len(out[b]) - 1 \in Nat
      BY <3>1, <3>2
    <3>4. Len(ou[b]) = Len(out[b]) - 1
      BY <1>3
    <3> QED BY <3>3, <3>4
  <2> QED BY <1>3, <2>1, <2>2
<1>6. ASSUME NEW e \in SlotsOf(out), e # p
      PROVE  slide(e) \in SlotsOf(ou) /\ Dest(ou, slide(e)) = Dest(out, e) /\ slide(e) \in Node \X (1..MaxOut)
  <2>1. /\ e[1] \in Node /\ e[2] \in 1..MaxOut /\ e = <<e[1], e[2]>> /\ e[2] \in 1..Len(out[e[1]])
        /\ e \in Node \X (1..MaxOut)
    BY <1>6, SlotType DEF SlotsOf
  <2>2. CASE e[1] = b /\ e[2] > k
    <3>1. slide(e) = <<b, e[2] - 1>> /\ e[2] \in 1..Len(out[b]) /\ e[2] \in 1..MaxOut
      BY <2>1, <2>2
    <3>2. e[2] - 1 \in 1..MaxOut /\ e[2] - 1 \in 1..(Len(out[b]) - 1) /\ ~(e[2] - 1 < k) /\ e[2] - 1 + 1 = e[2]
      <4>1. \A m, n, z \in Nat : m \in 1..n /\ m \in 1..z /\ m > k =>
              m - 1 \in 1..z /\ m - 1 \in 1..(n - 1) /\ ~(m - 1 < k) /\ m - 1 + 1 = m
        BY <1>2
      <4>2. e[2] \in Nat
        BY SMTT(30), <1>2, <3>1
      <4> QED BY <1>2, <2>2, <3>1, <4>1, <4>2
    <3>3. <<b, e[2] - 1>> \in SlotsOf(ou)
      BY <1>3, <3>2 DEF SlotsOf
    <3>4. Dest(ou, <<b, e[2] - 1>>) = out[b][e[2]]
      BY <1>3, <3>2 DEF Dest
    <3> QED BY <2>2, <3>1, <3>2, <3>3, <3>4 DEF Dest
  <2>3. CASE e[1] = b /\ e[2] < k
    <3>1. slide(e) = e /\ e[2] \in 1..(Len(out[b]) - 1)
      BY SMTT(60), <1>2, <2>1, <2>3
    <3>2. e \in SlotsOf(ou)
      BY <1>3, <2>1, <2>3, <3>1 DEF SlotsOf
    <3>3. Dest(ou, e) = Dest(out, e)
      BY <1>3, <2>3, <3>1 DEF Dest
    <3> QED BY <2>1, <3>1, <3>2, <3>3
  <2>4. CASE e[1] # b
    BY <1>3, <2>1, <2>4 DEF SlotsOf, Dest
  <2>5. ~(e[1] = b /\ e[2] = k)
    BY <1>6, <2>1 DEF p
  <2>6. e[2] \in Int /\ k \in Int
    BY <1>2, <2>1
  <2> QED BY <2>2, <2>3, <2>4, <2>5, <2>6
<1>7. ASSUME NEW q \in SlotsOf(ou)
      PROVE  \E e \in SlotsOf(out) : e # p /\ slide(e) = q
  <2>1. q[1] \in Node /\ q[2] \in 1..MaxOut /\ q[2] <= Len(ou[q[1]]) /\ q = <<q[1], q[2]>>
    BY DEF SlotsOf
  <2>2. CASE q[1] = b /\ q[2] >= k
    <3>1. q[2] + 1 \in 1..MaxOut /\ q[2] + 1 <= Len(out[b]) /\ q[2] + 1 > k /\ q[2] + 1 - 1 = q[2]
      <4>1. \A m, n, z \in Nat : m \in 1..z /\ m <= n - 1 /\ n <= z /\ m >= k =>
              m + 1 \in 1..z /\ m + 1 <= n /\ m + 1 > k /\ m + 1 - 1 = m
        BY <1>2
      <4>2. q[2] <= Len(out[b]) - 1
        BY <1>3, <2>1, <2>2
      <4>3. q[2] \in Nat
        BY <1>2, <2>1
      <4> QED BY <1>2, <2>1, <2>2, <4>1, <4>2, <4>3
    <3>2. <<b, q[2] + 1>> \in SlotsOf(out)
      BY <3>1 DEF SlotsOf
    <3>3. slide(<<b, q[2] + 1>>) = q
      BY <2>1, <2>2, <3>1
    <3>4. <<b, q[2] + 1>> # p
      BY <1>2, <3>1 DEF p
    <3> QED BY <3>2, <3>3, <3>4
  <2>3. CASE ~(q[1] = b /\ q[2] >= k)
    <3>1. q \in SlotsOf(out)
      <4>1. CASE q[1] = b
        <5>1. q[2] <= Len(out[b])
          BY <1>2, <1>3, <2>1, <4>1
        <5> QED BY <2>1, <4>1, <5>1 DEF SlotsOf
      <4>2. CASE q[1] # b
        BY <1>3, <2>1, <4>2 DEF SlotsOf
      <4> QED BY <4>1, <4>2
    <3>2. q[2] \in Int /\ k \in Int
      BY <1>2, <2>1
    <3>3. ~(q[1] = b /\ q[2] > k) /\ q # p
      BY <2>3, <3>2 DEF p
    <3>4. slide(q) = q
      BY <3>3
    <3> QED BY <3>1, <3>3, <3>4
  <2> QED BY <2>2, <2>3
<1>8. ASSUME NEW c \in Node
      PROVE  /\ cutIns[c] \in Seq(Node \X (1..MaxOut))
             /\ \A i \in 1..Len(cutIns[c]) : Holds(ins[c], cutIns[c][i]) /\ cutIns[c][i] # p
             /\ \A e : Holds(ins[c], e) /\ e # p => Holds(cutIns[c], e)
  <2>0. /\ \A i \in 1..Len(ins[c]) : ins[c][i] \in SlotsOf(out) /\ Dest(out, ins[c][i]) = c
        /\ ins[c] \in Seq(Node \X (1..MaxOut))
    BY <1>2 DEF GraphOK
  <2>1. CASE c = t
    <3> DEFINE T == Slots \ {p}
               P == Node \X (1..MaxOut)
    <3>1. cutIns[c] = Keep(ins[c], T)
      BY <1>2, <2>1
    <3>2. \A i \in 1..Len(ins[c]) : ins[c][i] # p <=> ins[c][i] \in T
      BY <2>0, SlotFacts
    <3>3. ins[c] \in Seq(P)
      BY <2>0
    <3> HIDE DEF T, P
    <3>4. Keep(ins[c], T) \in Seq(P) /\ \A e : Holds(Keep(ins[c], T), e) <=> Holds(ins[c], e) /\ e \in T
      BY <3>3, KeepMembers
    <3>5. \A e : Holds(ins[c], e) /\ e # p <=> Holds(ins[c], e) /\ e \in T
      BY <3>2 DEF Holds
    <3>6. \A i \in 1..Len(cutIns[c]) : Holds(cutIns[c], cutIns[c][i])
      BY DEF Holds
    <3>7. cutIns[c] \in Seq(Node \X (1..MaxOut))
      BY <3>1, <3>4 DEF P
    <3> QED BY <3>1, <3>4, <3>5, <3>6, <3>7
  <2>2. CASE c # t
    <3>1. cutIns[c] = ins[c]
      BY <1>2, <2>2
    <3>2. \A i \in 1..Len(ins[c]) : ins[c][i] # p
      BY <1>4, <2>0, <2>2
    <3> QED BY <2>0, <3>1, <3>2 DEF Holds
  <2> QED BY <2>1, <2>2
<1> HIDE DEF cutIns, slide
<1>9. ASSUME NEW c \in Node
      PROVE  /\ inn[c] \in Seq(Node \X (1..MaxOut)) /\ Len(inn[c]) = Len(cutIns[c])
             /\ \A i \in 1..Len(inn[c]) : /\ inn[c][i] = slide(cutIns[c][i])
                                          /\ cutIns[c][i] \in SlotsOf(out) /\ cutIns[c][i] # p
                                          /\ Dest(out, cutIns[c][i]) = c
  <2>1. cutIns[c] \in Seq(Node \X (1..MaxOut)) /\ DOMAIN cutIns[c] = 1..Len(cutIns[c]) /\ Len(cutIns[c]) \in Nat
    BY <1>8, LenProperties
  <2>2. \A i \in 1..Len(cutIns[c]) : /\ cutIns[c][i] \in SlotsOf(out) /\ cutIns[c][i] # p
                                     /\ Dest(out, cutIns[c][i]) = c
    <3>1. \A i \in 1..Len(ins[c]) : ins[c][i] \in SlotsOf(out) /\ Dest(out, ins[c][i]) = c
      BY DEF GraphOK
    <3> SUFFICES ASSUME NEW i \in 1..Len(cutIns[c])
                 PROVE  /\ cutIns[c][i] \in SlotsOf(out) /\ cutIns[c][i] # p
                        /\ Dest(out, cutIns[c][i]) = c
      OBVIOUS
    <3>2. PICK j \in 1..Len(ins[c]) : ins[c][j] = cutIns[c][i]
      BY <1>8 DEF Holds
    <3>3. cutIns[c][i] # p
      BY <1>8
    <3> QED BY <3>1, <3>2, <3>3
  <2>3. \A i \in 1..Len(cutIns[c]) : slide(cutIns[c][i]) \in Node \X (1..MaxOut)
    BY <1>6, <2>2
  <2>4. inn[c] \in [1..Len(cutIns[c]) -> Node \X (1..MaxOut)]
    BY <2>1, <2>3
  <2>5. inn[c] \in Seq(Node \X (1..MaxOut)) /\ Len(inn[c]) = Len(cutIns[c])
    <3> HIDE DEF inn
    <3> QED BY <2>1, <2>4, RebuildFacts
  <2>6. \A i \in 1..Len(cutIns[c]) : inn[c][i] = slide(cutIns[c][i])
    BY <2>1
  <2> QED BY <2>2, <2>5, <2>6
<1> DEFINE In == inn
<1>10. In = inn /\ In \in [Node -> Seq(Node \X (1..MaxOut))]
  BY <1>9
<1> HIDE DEF In
<1>11. \A c \in Node : \A i \in 1..Len(In[c]) : In[c][i] \in SlotsOf(ou) /\ Dest(ou, In[c][i]) = c
  <2> SUFFICES ASSUME NEW c \in Node, NEW i \in 1..Len(In[c])
               PROVE  In[c][i] \in SlotsOf(ou) /\ Dest(ou, In[c][i]) = c
    OBVIOUS
  <2> HIDE DEF inn
  <2>1. In[c][i] = slide(cutIns[c][i]) /\ cutIns[c][i] \in SlotsOf(out) /\ cutIns[c][i] # p
        /\ Dest(out, cutIns[c][i]) = c
    BY <1>9, <1>10
  <2> QED BY <1>6, <2>1
<1>12. \A q \in SlotsOf(ou) : Holds(In[Dest(ou, q)], q)
  <2> SUFFICES ASSUME NEW q \in SlotsOf(ou) PROVE Holds(In[Dest(ou, q)], q)
    OBVIOUS
  <2>1. PICK e \in SlotsOf(out) : e # p /\ slide(e) = q
    BY <1>7
  <2>2. Dest(ou, q) = Dest(out, e) /\ Dest(out, e) \in Node
    BY <1>6, <2>1, SlotType
  <2>3. Holds(cutIns[Dest(out, e)], e)
    BY <1>8, <2>1, <2>2 DEF GraphOK
  <2>4. PICK i \in 1..Len(cutIns[Dest(out, e)]) : cutIns[Dest(out, e)][i] = e
    BY <2>3 DEF Holds
  <2>5. i \in 1..Len(In[Dest(out, e)]) /\ In[Dest(out, e)][i] = q
    BY <1>9, <1>10, <2>1, <2>2, <2>4
  <2> QED BY <2>2, <2>5 DEF Holds
<1>13. \A q \in SlotsOf(ou) : Holds(order, q[1]) /\ Holds(order, Dest(ou, q))
  <2> SUFFICES ASSUME NEW q \in SlotsOf(ou) PROVE Holds(order, q[1]) /\ Holds(order, Dest(ou, q))
    OBVIOUS
  <2>1. PICK e \in SlotsOf(out) : e # p /\ slide(e) = q
    BY <1>7
  <2>2. Dest(ou, q) = Dest(out, e)
    BY <1>6, <2>1
  <2>3. q[1] = e[1]
    BY <2>1 DEF slide
  <2> QED BY <2>2, <2>3, SlotType
<1>14. GraphOK(ou, In, order)
  BY <1>3, <1>5, <1>10, <1>11, <1>12, <1>13 DEF GraphOK
<1> QED BY SMTT(30), <1>1, <1>10, <1>14

\* What lives is closed: nothing alive leads out of it.
LEMMA LivesShut ==
    ASSUME NEW ou, NEW inn, NEW ord, GraphOK(ou, inn, ord)
    PROVE  /\ Shut(ou, Lives(ou)) /\ Entry \in Lives(ou) /\ Lives(ou) \in SUBSET Node
           /\ \A C \in SUBSET Node : Entry \in C /\ Shut(ou, C) => Lives(ou) \subseteq C
<1>1. Lives(ou) \in SUBSET Node /\ Entry \in Lives(ou)
  BY EntryFacts DEF Lives
<1>2. Shut(ou, Lives(ou))
  BY SlotType DEF Shut, Lives
<1>3. \A C \in SUBSET Node : Entry \in C /\ Shut(ou, C) => Lives(ou) \subseteq C
  BY DEF Lives
<1> QED BY <1>1, <1>2, <1>3

\* The blocks that do not live lose their edges and leave the list.
LEMMA RemoveGraph ==
    ASSUME GraphOK(out, ins, order), HistoryOK(out, ins, order, stage), LiveHead(out, order),
           NEW live, live = Lives(out),
           NEW ou, ou = [b \in Node |-> IF b \in live THEN out[b] ELSE <<>>],
           NEW inn, inn = [b \in Node |-> Keep(ins[b], {e \in Slots : e[1] \in live})],
           NEW ord, ord = Keep(order, live)
    PROVE  GraphOK(ou, inn, ord) /\ HistoryOK(ou, inn, ord, "settled")
<1> DEFINE T == {e \in Slots : e[1] \in live}
           P == Node \X (1..MaxOut)
<1>0. /\ out \in [Node -> Seq(Node)] /\ ins \in [Node -> Seq(P)] /\ order \in Seq(Node)
      /\ \A b \in Node : Len(out[b]) <= MaxOut
      /\ \A i, j \in 1..Len(order) : order[i] = order[j] => i = j
  BY DEF GraphOK
<1>1. live \in SUBSET Node /\ Entry \in live /\ Shut(out, live) /\ \A b \in live : Holds(order, b)
  BY LivesShut, LivesAreBlocks
<1>2. ou \in [Node -> Seq(Node)] /\ \A b \in Node : Len(ou[b]) <= MaxOut
  BY <1>0, EmptySeq, SpanningTreeAssumption
<1>3. \A p : p \in SlotsOf(ou) <=> p \in SlotsOf(out) /\ p[1] \in live
  <2> SUFFICES ASSUME NEW p \in P PROVE p[2] <= Len(ou[p[1]]) <=> p[2] <= Len(out[p[1]]) /\ p[1] \in live
    BY DEF SlotsOf
  <2>1. p[1] \in Node /\ p[2] \in 1..MaxOut
    OBVIOUS
  <2>2. CASE p[1] \in live
    BY <2>1, <2>2
  <2>3. CASE p[1] \notin live
    <3>1. ou[p[1]] = <<>> /\ Len(<<>>) = 0
      BY <2>1, <2>3, EmptySeq
    <3>2. ~(p[2] <= 0)
      BY <2>1, SpanningTreeAssumption
    <3> QED BY <2>3, <3>1, <3>2
  <2> QED BY <2>2, <2>3
<1>4. \A p \in SlotsOf(ou) : Dest(ou, p) = Dest(out, p) /\ Dest(out, p) \in live /\ Dest(out, p) \in Node
  <2> SUFFICES ASSUME NEW p \in SlotsOf(ou)
               PROVE  Dest(ou, p) = Dest(out, p) /\ Dest(out, p) \in live /\ Dest(out, p) \in Node
    OBVIOUS
  <2>1. p \in SlotsOf(out) /\ p[1] \in live /\ p[1] \in Node
    BY <1>1, <1>3
  <2>2. ou[p[1]] = out[p[1]]
    BY <2>1
  <2> QED BY <1>1, <2>1, <2>2 DEF Dest, Shut
<1> HIDE DEF P
<1>5. \A c \in Node : inn[c] \in Seq(P) /\ \A e : Holds(inn[c], e) <=> Holds(ins[c], e) /\ e \in T
  <2> SUFFICES ASSUME NEW c \in Node
               PROVE  inn[c] \in Seq(P) /\ \A e : Holds(inn[c], e) <=> Holds(ins[c], e) /\ e \in T
    OBVIOUS
  <2>1. inn[c] = Keep(ins[c], T) /\ ins[c] \in Seq(P)
    BY <1>0
  <2> HIDE DEF T
  <2> QED BY <2>1, KeepMembers
<1>6. inn \in [Node -> Seq(P)]
  BY <1>5
<1>7. \A e : e \in T <=> e \in SlotsOf(ou)
  BY <1>3, SlotFacts
<1> HIDE DEF T
<1>8. \A p \in SlotsOf(ou) : Holds(inn[Dest(ou, p)], p)
  BY <1>3, <1>4, <1>5, <1>7 DEF GraphOK
<1>9. \A c \in Node : \A i \in 1..Len(inn[c]) : inn[c][i] \in SlotsOf(ou) /\ Dest(ou, inn[c][i]) = c
  <2> SUFFICES ASSUME NEW c \in Node, NEW i \in 1..Len(inn[c])
               PROVE  inn[c][i] \in SlotsOf(ou) /\ Dest(ou, inn[c][i]) = c
    OBVIOUS
  <2>1. Holds(inn[c], inn[c][i])
    BY DEF Holds
  <2>2. Holds(ins[c], inn[c][i]) /\ inn[c][i] \in SlotsOf(ou)
    BY <1>5, <1>7, <2>1
  <2>3. PICK j \in 1..Len(ins[c]) : ins[c][j] = inn[c][i]
    BY <2>2 DEF Holds
  <2>4. Dest(out, ins[c][j]) = c
    BY DEF GraphOK
  <2> QED BY <1>4, <2>2, <2>3, <2>4
<1>10. /\ ord \in Seq(Node)
       /\ \A b : Holds(ord, b) <=> Holds(order, b) /\ b \in live
  BY <1>0, KeepMembers
<1>11. \A i, j \in 1..Len(ord) : ord[i] = ord[j] => i = j
  <2>1. \A i, j \in 1..Len(Keep(order, live)) : Keep(order, live)[i] = Keep(order, live)[j] => i = j
    <3>1. order \in Seq(Node) /\ \A i, j \in 1..Len(order) : order[i] = order[j] => i = j
      BY <1>0
    <3> QED BY <3>1, KeepInjective
  <2> QED BY <2>1
<1>12. \A b : Holds(ord, b) <=> b \in live
  BY <1>1, <1>10
<1>13. \A p \in SlotsOf(ou) : p[1] \in live /\ Dest(ou, p) \in live
  BY <1>3, <1>4
<1>14. GraphOK(ou, inn, ord)
  BY <1>1, <1>2, <1>6, <1>8, <1>9, <1>10, <1>11, <1>12, <1>13 DEF GraphOK, P
<1>15. ASSUME inn[Entry] = <<>> PROVE ord[1] = Entry
  <2>1. \A p \in SlotsOf(out) : p[1] \in Lives(out) => Dest(out, p) # Entry
    <3> SUFFICES ASSUME NEW p \in SlotsOf(out), p[1] \in Lives(out), Dest(out, p) = Entry PROVE FALSE
      OBVIOUS
    <3>1. p \in SlotsOf(ou) /\ Dest(ou, p) = Entry
      BY <1>3, <1>4
    <3>2. Holds(inn[Entry], p)
      BY <1>8, <3>1
    <3>3. Len(inn[Entry]) = 0
      BY <1>15, EmptySeq
    <3> QED BY <3>2, <3>3 DEF Holds
  <2>2. PICK m \in 1..Len(order) : order[m] = Entry
    BY DEF GraphOK, Holds
  <2>3. \A j \in 1..Len(order) : order[j] \in live => m <= j
    BY <2>1, <2>2 DEF LiveHead
  <2>4. order[m] \in live
    BY <1>1, <2>2
  <2>5. Keep(order, live)[1] = order[m]
    BY ZenonT(60), <1>0, <2>3, <2>4, KeepFirst
  <2> QED BY <2>2, <2>5
<1>16. ASSUME NEW b \in live PROVE b \in Lives(ou)
  <2> SUFFICES ASSUME NEW C \in SUBSET Node, Entry \in C, Shut(ou, C) PROVE b \in C
    BY <1>1 DEF Lives
  <2>1. Shut(out, C \cap live)
    <3> SUFFICES ASSUME NEW p \in SlotsOf(out), p[1] \in C, p[1] \in live PROVE Dest(out, p) \in C /\ Dest(out, p) \in live
      BY DEF Shut
    <3>1. p \in SlotsOf(ou)
      BY <1>3
    <3> QED BY <1>4, <3>1 DEF Shut
  <2>2. Entry \in C \cap live /\ C \cap live \in SUBSET Node
    BY <1>1
  <2>3. live \subseteq C \cap live
    BY <2>1, <2>2, LivesShut
  <2> QED BY <2>3
<1> QED BY <1>12, <1>14, <1>15, <1>16 DEF HistoryOK

\* A changed graph is structured anew.
LEMMA RestructureInv ==
    ASSUME NEW ou, NEW inn, NEW ord, GraphOK(ou, inn, ord), HistoryOK(ou, inn, ord, stage'),
           Restructure(ou, inn, ord)
    PROVE  SpanInv'
<1>1. /\ out' = ou /\ ins' = inn /\ order' = ord /\ label' = NoLabels(ou) /\ pc' = "tree"
      /\ tree' = NewTree(ord, inn) /\ irr' = NewIrr
  BY DEF Restructure
<1>2. PassOK(out', ins', order', stage', tree', label')
  BY <1>1, NewTreeOK
<1>3. LabelType(out', label')
  BY <1>1, NoLabelsFacts
<1>4. irr' \in IrrRec /\ ~irr'.rebuild
  <2>1. <<>> \in Seq([bl : Node, edge : Nat])
    BY EmptySeq
  <2> QED BY <1>1, <2>1 DEF IrrRec, NewIrr
<1> QED BY <1>1, <1>2, <1>3, <1>4 DEF SpanInv

\* ActionDeterminedBranch severs a branch and the graph is structured again.
LEMMA RemoveBranchInv ==
    ASSUME SpanInv, NEW b \in Node, NEW k \in 1..2, RemoveBranch(b, k)
    PROVE  SpanInv'
<1>0. GraphOK(out, ins, order) /\ HistoryOK(out, ins, order, stage)
  BY DEF SpanInv
<1>1. PICK g \in {CutEdge([out |-> out, ins |-> ins], <<b, k>>)} : Restructure(g.out, g.ins, order)
  BY DEF RemoveBranch
<1>2. stage = "built" /\ stage' = "cut" /\ k \in 1..Len(out[b])
  BY DEF RemoveBranch
<1>3. GraphOK(g.out, g.ins, order)
  BY <1>0, <1>1, <1>2, CutGraph
<1>4. HistoryOK(g.out, g.ins, order, stage')
  BY <1>0, <1>2 DEF HistoryOK
<1> QED BY <1>1, <1>3, <1>4, RestructureInv

\* One root: everything in the list is reached from it, and an entry without
\* in-edges is that root.
LEMMA OneRootLives ==
    ASSUME NEW ou, NEW inn, NEW ord, NEW t, NEW lab,
           GraphOK(ou, inn, ord), TreeOK(ou, ord, t, lab),
           Len(t.roots) = 1, inn[Entry] = <<>>,
           NEW b \in Node, Holds(ord, b)
    PROVE  b \in Lives(ou)
<1>1. Len(inn[Entry]) = 0
  BY EmptySeq
<1>2. \A p \in SlotsOf(ou) : Dest(ou, p) # Entry
  <2> SUFFICES ASSUME NEW p \in SlotsOf(ou), Dest(ou, p) = Entry PROVE FALSE
    OBVIOUS
  <2>1. Holds(inn[Entry], p)
    BY DEF GraphOK
  <2> QED BY <1>1, <2>1 DEF Holds
<1>3. Holds(t.roots, Entry)
  BY <1>2, EntryFacts DEF TreeOK, GraphOK
<1>4. \A i \in 1..Len(t.roots) : t.roots[i] = Entry
  BY <1>3 DEF Holds
<1>5. \A C \in SUBSET Node : Entry \in C /\ Shut(ou, C) => b \in C
  BY <1>4 DEF TreeOK
<1> QED BY <1>5 DEF Lives

\* ActionUnreachable removes what the entry does not reach.
LEMMA RemoveUnreachableBlocksInv ==
    ASSUME SpanInv, RemoveUnreachableBlocks
    PROVE  SpanInv'
<1>0. /\ GraphOK(out, ins, order) /\ HistoryOK(out, ins, order, stage)
      /\ pc = "done" /\ stage \in {"built", "cut"} /\ stage' = "settled"
      /\ TreeOK(out, order, tree, label) /\ LiveHead(out, order)
  BY DEF SpanInv, RemoveUnreachableBlocks
<1>1. CASE BlocksUnreachable
  <2>1. PICK live \in {Reachable} :
             Restructure([b \in Node |-> IF b \in live THEN out[b] ELSE <<>>],
                         [b \in Node |-> Keep(ins[b], {e \in Slots : e[1] \in live})],
                         Keep(order, live))
    BY <1>1 DEF RemoveUnreachableBlocks
  <2>2. live = Lives(out)
    BY ReachableFacts
  <2> DEFINE ou == [b \in Node |-> IF b \in live THEN out[b] ELSE <<>>]
             inn == [b \in Node |-> Keep(ins[b], {e \in Slots : e[1] \in live})]
             ord == Keep(order, live)
  <2>3. GraphOK(ou, inn, ord) /\ HistoryOK(ou, inn, ord, "settled")
    BY <1>0, <2>2, RemoveGraph
  <2>4. Restructure(ou, inn, ord)
    BY <2>1
  <2> HIDE DEF ou, inn, ord
  <2> QED BY <1>0, <2>3, <2>4, RestructureInv
<1>2. CASE ~BlocksUnreachable
  <2>1. UNCHANGED <<out, ins, order, label, pc, tree, irr, idom>>
    BY <1>2 DEF RemoveUnreachableBlocks
  <2>2. Len(tree.roots) = 1
    <3>1. tree.roots \in Seq(Node) /\ Len(tree.roots) >= 1
      BY <1>0 DEF TreeOK, TreeRec
    <3>2. Len(tree.roots) \in Nat
      BY <3>1, LenProperties
    <3>3. ~(Len(tree.roots) > 1)
      BY <1>2 DEF BlocksUnreachable
    <3>4. \A n \in Nat : n >= 1 /\ ~(n > 1) => n = 1
      OBVIOUS
    <3> QED BY <3>1, <3>2, <3>3, <3>4
  <2>3. HistoryOK(out, ins, order, "settled")
    BY <1>0, <2>2, OneRootLives DEF HistoryOK
  <2> QED BY <1>0, <2>1, <2>3 DEF SpanInv
<1> QED BY <1>1, <1>2

-----------------------------------------------------------------------------
(***************************************************************************)
(* One step of the walk, field by field                                     *)
(***************************************************************************)
\* A visited block goes on top of the stack.
Pushed(t, u, b) ==
    /\ u \in TreeRec
    /\ u.visit = [t.visit EXCEPT ![b] = Len(t.pre)] /\ u.desc = [t.desc EXCEPT ![b] = 1]
    /\ u.index = t.index /\ u.rpost = t.rpost
    /\ u.pre = Append(t.pre, b) /\ u.stack = Append(t.stack, [bl |-> b, edge |-> 0])
    /\ u.roots = t.roots /\ u.at = t.at /\ u.home = t.home
    /\ u.extra = t.extra /\ u.again = t.again

\* What a visit does to the tree
LEMMA VisitFacts ==
    ASSUME NEW t \in TreeRec, NEW b \in Node, NEW u, u = Visit(t, b)
    PROVE  Pushed(t, u, b)
<1> DEFINE e == [bl |-> b, edge |-> 0]
<1>1. /\ t.visit \in [Node -> Int] /\ t.desc \in [Node -> Nat]
      /\ t.pre \in Seq(Node) /\ t.stack \in Seq([bl : Node, edge : Nat])
  BY DEF TreeRec
<1>2. Len(t.pre) \in Int /\ e \in [bl : Node, edge : Nat]
  BY <1>1, LenProperties
<1>3. /\ [t.visit EXCEPT ![b] = Len(t.pre)] \in [Node -> Int]
      /\ [t.desc EXCEPT ![b] = 1] \in [Node -> Nat]
      /\ Append(t.pre, b) \in Seq(Node)
      /\ Append(t.stack, e) \in Seq([bl : Node, edge : Nat])
  BY <1>1, <1>2, AppendProperties
<1>4. u = [t EXCEPT !.visit = [t.visit EXCEPT ![b] = Len(t.pre)], !.pre = Append(t.pre, b),
                    !.desc = [t.desc EXCEPT ![b] = 1], !.stack = Append(t.stack, e)]
  BY DEF Visit, TreeRec
<1> HIDE DEF e
<1>5. /\ u \in TreeRec
      /\ u.visit = [t.visit EXCEPT ![b] = Len(t.pre)] /\ u.desc = [t.desc EXCEPT ![b] = 1]
      /\ u.index = t.index /\ u.rpost = t.rpost
      /\ u.pre = Append(t.pre, b) /\ u.stack = Append(t.stack, [bl |-> b, edge |-> 0])
      /\ u.roots = t.roots /\ u.at = t.at /\ u.home = t.home
      /\ u.extra = t.extra /\ u.again = t.again
  BY Zenon, <1>3, <1>4 DEF TreeRec, e
<1> QED BY <1>5 DEF Pushed

\* The edge counter of the top block moves on.
Advanced(t, u, k) ==
    /\ u \in TreeRec
    /\ u.visit = t.visit /\ u.desc = t.desc /\ u.index = t.index /\ u.rpost = t.rpost
    /\ u.pre = t.pre /\ u.roots = t.roots /\ u.at = t.at /\ u.home = t.home
    /\ u.extra = t.extra /\ u.again = t.again
    /\ u.stack \in Seq([bl : Node, edge : Nat]) /\ Len(u.stack) = Len(t.stack)
    /\ \A i \in 1..Len(t.stack) :
          /\ u.stack[i].bl = t.stack[i].bl
          /\ u.stack[i].edge = IF i = Len(t.stack) THEN k ELSE t.stack[i].edge

\* What moving to the next out-edge of the top block does to the tree
LEMMA AdvanceFacts ==
    ASSUME NEW t \in TreeRec, Len(t.stack) >= 1, NEW k \in Nat,
           NEW u, u = [t EXCEPT !.stack[Len(t.stack)].edge = k]
    PROVE  Advanced(t, u, k)
<1> DEFINE S == [bl : Node, edge : Nat]
           n == Len(t.stack)
           e == [t.stack[n] EXCEPT !.edge = k]
           s == [t.stack EXCEPT ![n] = e]
<1>1. t.stack \in Seq(S) /\ n \in Nat /\ n \in 1..n
  BY LenProperties DEF TreeRec
<1>2. t.stack[n] \in S /\ \A i \in 1..n : t.stack[i] \in S
  BY <1>1, ElementOfSeq
<1>3. e \in S /\ e.bl = t.stack[n].bl /\ e.edge = k
  BY <1>2
<1> HIDE DEF e
<1>4. s \in Seq(S) /\ Len(s) = n /\ \A i \in 1..n : s[i] = IF i = n THEN e ELSE t.stack[i]
  BY <1>1, <1>3, ExceptSeq
<1>5. u = [t EXCEPT !.stack = s]
  BY DEF e, TreeRec
<1> HIDE DEF s, n
<1>6. /\ u \in TreeRec /\ u.stack = s
      /\ u.visit = t.visit /\ u.desc = t.desc /\ u.index = t.index /\ u.rpost = t.rpost
      /\ u.pre = t.pre /\ u.roots = t.roots /\ u.at = t.at /\ u.home = t.home
      /\ u.extra = t.extra /\ u.again = t.again
  BY Zenon, <1>4, <1>5 DEF TreeRec
<1>7. \A i \in 1..n : s[i].bl = t.stack[i].bl /\ s[i].edge = IF i = n THEN k ELSE t.stack[i].edge
  BY <1>3, <1>4
<1>8. /\ u \in TreeRec
      /\ u.visit = t.visit /\ u.desc = t.desc /\ u.index = t.index /\ u.rpost = t.rpost
      /\ u.pre = t.pre /\ u.roots = t.roots /\ u.at = t.at /\ u.home = t.home
      /\ u.extra = t.extra /\ u.again = t.again
      /\ u.stack \in Seq([bl : Node, edge : Nat]) /\ Len(u.stack) = Len(t.stack)
      /\ \A i \in 1..Len(t.stack) :
            /\ u.stack[i].bl = t.stack[i].bl
            /\ u.stack[i].edge = IF i = Len(t.stack) THEN k ELSE t.stack[i].edge
  BY <1>4, <1>6, <1>7 DEF n
<1> QED BY <1>8 DEF Advanced

\* What a visit changes, wherever the new block comes from
Grown(ord, t, u, b) ==
    /\ t \in TreeRec /\ u \in TreeRec /\ b \in Node /\ Holds(ord, b) /\ ~Seen(t, b)
    /\ \A x \in Node : x # b => u.visit[x] = t.visit[x] /\ u.desc[x] = t.desc[x]
    /\ u.visit[b] = Len(t.pre) /\ u.desc[b] = 1
    /\ u.index = t.index /\ u.rpost = t.rpost
    /\ Len(u.pre) = Len(t.pre) + 1 /\ u.pre[Len(t.pre) + 1] = b
    /\ \A i \in 1..Len(t.pre) : u.pre[i] = t.pre[i]
    /\ Len(u.stack) = Len(t.stack) + 1
    /\ u.stack[Len(t.stack) + 1].bl = b /\ u.stack[Len(t.stack) + 1].edge = 0
    /\ \A i \in 1..Len(t.stack) : u.stack[i].bl = t.stack[i].bl

\* The naturals and the members behind the fields of a tree
LEMMA TreeTypes ==
    ASSUME NEW t \in TreeRec
    PROVE  /\ Len(t.pre) \in Nat /\ Len(t.rpost) \in Nat /\ Len(t.stack) \in Nat /\ Len(t.roots) \in Nat
           /\ t.at \in Nat /\ t.home \in Nat
           /\ \A x \in Node : t.visit[x] \in Int /\ t.index[x] \in Int /\ t.desc[x] \in Nat
           /\ \A i \in 1..Len(t.pre) : t.pre[i] \in Node
           /\ \A i \in 1..Len(t.rpost) : t.rpost[i] \in Node
           /\ \A i \in 1..Len(t.roots) : t.roots[i] \in Node
           /\ \A i \in 1..Len(t.stack) : t.stack[i].bl \in Node /\ t.stack[i].edge \in Nat
<1>1. /\ t.pre \in Seq(Node) /\ t.rpost \in Seq(Node) /\ t.roots \in Seq(Node)
      /\ t.stack \in Seq([bl : Node, edge : Nat])
      /\ t.at \in Nat /\ t.home \in Nat
      /\ t.visit \in [Node -> Int] /\ t.index \in [Node -> Int] /\ t.desc \in [Node -> Nat]
  BY DEF TreeRec
<1>2. \A i \in 1..Len(t.stack) : t.stack[i] \in [bl : Node, edge : Nat]
  BY <1>1, ElementOfSeq
<1>3. \A i \in 1..Len(t.stack) : t.stack[i].bl \in Node /\ t.stack[i].edge \in Nat
  BY <1>2
<1> QED BY <1>1, <1>3, LenProperties, ElementOfSeq

\* A visit adds one block to those seen and none to those finished.
LEMMA GrownSeen ==
    ASSUME NEW ord, NEW t, NEW u, NEW b, Grown(ord, t, u, b), NEW x \in Node
    PROVE  /\ Seen(u, x) <=> Seen(t, x) \/ x = b
           /\ Fin(u, x) <=> Fin(t, x)
<1>1. u.visit[b] # -1
  BY TreeTypes DEF Grown
<1> QED BY <1>1 DEF Grown, Seen, Fin

\* A visit keeps the numberings,
LEMMA GrownNumbers ==
    ASSUME NEW ord \in Seq(Node), NEW t, NEW u, NEW b, Grown(ord, t, u, b), Numbers(ord, t)
    PROVE  Numbers(ord, u)
<1>0. /\ t \in TreeRec /\ u \in TreeRec /\ b \in Node /\ Holds(ord, b) /\ ~Seen(t, b)
      /\ \A x \in Node : x # b => u.visit[x] = t.visit[x]
      /\ u.visit[b] = Len(t.pre)
      /\ u.index = t.index /\ u.rpost = t.rpost
      /\ Len(u.pre) = Len(t.pre) + 1 /\ u.pre[Len(t.pre) + 1] = b
      /\ \A i \in 1..Len(t.pre) : u.pre[i] = t.pre[i]
      /\ Len(u.stack) = Len(t.stack) + 1
  BY DEF Grown
<1>1. /\ Len(t.pre) \in Nat /\ Len(t.rpost) \in Nat /\ Len(t.stack) \in Nat
      /\ \A x \in Node : t.visit[x] \in Int
      /\ \A i \in 1..Len(t.pre) : t.pre[i] \in Node
  BY <1>0, TreeTypes
<1>2. ASSUME NEW x \in Node, Seen(u, x)
      PROVE  u.visit[x] \in 0..(Len(u.pre) - 1) /\ u.pre[u.visit[x] + 1] = x /\ Holds(ord, x)
  <2>1. CASE x = b
    BY SMTT(30), <1>0, <1>1, <2>1
  <2>2. CASE x # b
    <3>1. Seen(t, x) /\ u.visit[x] = t.visit[x]
      BY <1>0, <1>2, <2>2, GrownSeen
    <3>2. t.visit[x] \in 0..(Len(t.pre) - 1) /\ t.pre[t.visit[x] + 1] = x /\ Holds(ord, x)
      BY <3>1 DEF Numbers
    <3>3. t.visit[x] + 1 \in 1..Len(t.pre) /\ t.visit[x] \in 0..(Len(u.pre) - 1)
      BY SMTT(60), <1>0, <1>1, <3>2
    <3> QED BY <1>0, <3>1, <3>2, <3>3
  <2> QED BY <2>1, <2>2
<1>3. ASSUME NEW i \in 1..Len(u.pre) PROVE u.visit[u.pre[i]] = i - 1
  <2>1. CASE i = Len(t.pre) + 1
    BY <1>0, <1>1, <2>1
  <2>2. CASE i # Len(t.pre) + 1
    <3>1. i \in 1..Len(t.pre)
      BY SMTT(30), <1>0, <1>1, <2>2
    <3>2. t.visit[t.pre[i]] = i - 1 /\ t.pre[i] \in Node /\ u.pre[i] = t.pre[i]
      BY <1>0, <1>1, <3>1 DEF Numbers
    <3>3. t.pre[i] # b
      BY SMTT(30), <1>0, <3>1, <3>2 DEF Seen
    <3> QED BY <1>0, <3>2, <3>3
  <2> QED BY <2>1, <2>2
<1>4. ASSUME NEW x \in Node, Fin(u, x)
      PROVE  /\ Seen(u, x)
             /\ u.index[x] \in (Len(ord) - Len(u.rpost))..(Len(ord) - 1)
             /\ u.rpost[u.index[x] - Len(ord) + Len(u.rpost) + 1] = x
  <2>1. Fin(t, x)
    BY <1>4, GrownSeen
  <2>2. Seen(u, x)
    BY <2>1, GrownSeen DEF Numbers
  <2> QED BY <1>0, <2>1, <2>2 DEF Numbers
<1>5. \A i \in 1..Len(u.rpost) : u.index[u.rpost[i]] = Len(ord) - Len(u.rpost) + i - 1
  BY <1>0 DEF Numbers
<1>6. Len(u.pre) = Len(u.rpost) + Len(u.stack)
  <2>1. Len(t.pre) = Len(t.rpost) + Len(t.stack)
    BY DEF Numbers
  <2>2. \A l, m, n \in Nat : l = m + n => l + 1 = m + (n + 1)
    OBVIOUS
  <2>3. Len(t.pre) + 1 = Len(t.rpost) + (Len(t.stack) + 1)
    BY <1>1, <2>1, <2>2
  <2>4. Len(u.pre) = Len(t.pre) + 1 /\ Len(u.stack) = Len(t.stack) + 1 /\ Len(u.rpost) = Len(t.rpost)
    BY <1>0
  <2> QED BY <2>3, <2>4
<1> QED BY <1>2, <1>3, <1>4, <1>5, <1>6 DEF Numbers

\* the spans,
LEMMA GrownSpans ==
    ASSUME NEW ord, NEW t, NEW u, NEW b, Grown(ord, t, u, b), Numbers(ord, t), Spans(t)
    PROVE  Spans(u)
<1>0. /\ t \in TreeRec /\ b \in Node
      /\ \A x \in Node : x # b => u.visit[x] = t.visit[x] /\ u.desc[x] = t.desc[x]
      /\ u.visit[b] = Len(t.pre) /\ u.desc[b] = 1
      /\ Len(u.pre) = Len(t.pre) + 1
  BY DEF Grown
<1>1. Len(t.pre) \in Nat /\ \A x \in Node : t.visit[x] \in Int /\ t.desc[x] \in Nat
  BY <1>0, TreeTypes
<1>2. \A x \in Node : Seen(t, x) => /\ t.desc[x] >= 1 /\ t.visit[x] + t.desc[x] <= Len(t.pre)
                                    /\ t.visit[x] < Len(t.pre)
  <2>1. \A x \in Node : Seen(t, x) => t.desc[x] >= 1 /\ t.visit[x] + t.desc[x] <= Len(t.pre)
    BY DEF Spans
  <2> QED BY <1>1, <2>1
<1>3. ASSUME NEW x \in Node, Seen(u, x) PROVE u.desc[x] >= 1 /\ u.visit[x] + u.desc[x] <= Len(u.pre)
  <2>1. CASE x = b
    BY <1>0, <1>1, <2>1
  <2>2. CASE x # b
    BY SMTT(30), <1>0, <1>1, <1>2, <1>3, <2>2, GrownSeen
  <2> QED BY <2>1, <2>2
<1>4. ASSUME NEW x \in Node, NEW c \in Node, Seen(u, x), Seen(u, c),
             u.visit[x] < u.visit[c], u.visit[c] < u.visit[x] + u.desc[x]
      PROVE  Fin(u, c) /\ u.visit[c] + u.desc[c] <= u.visit[x] + u.desc[x]
  <2>1. x # b
    <3> SUFFICES ASSUME x = b PROVE FALSE
      OBVIOUS
    <3>1. u.visit[c] < Len(t.pre) + 1 /\ Len(t.pre) < u.visit[c]
      BY <1>0, <1>4
    <3>2. u.visit[c] \in Int
      BY <1>0, <1>1
    <3> QED BY <1>1, <3>1, <3>2
  <2>2. c # b
    <3> SUFFICES ASSUME c = b PROVE FALSE
      OBVIOUS
    <3>1. Seen(t, x)
      BY <1>4, <2>1, GrownSeen
    <3> QED BY <1>0, <1>1, <1>2, <1>4, <2>1, <3>1
  <2>3. Seen(t, x) /\ Seen(t, c)
    BY <1>4, <2>1, <2>2, GrownSeen
  <2>4. Fin(t, c) /\ t.visit[c] + t.desc[c] <= t.visit[x] + t.desc[x]
    BY SMTT(30), <1>0, <1>4, <2>1, <2>2, <2>3 DEF Spans
  <2> QED BY <1>0, <2>1, <2>2, <2>4, GrownSeen
<1> QED BY <1>3, <1>4 DEF Spans

\* and the stack.
LEMMA GrownStack ==
    ASSUME NEW ord, NEW ou, NEW t, NEW u, NEW b, Grown(ord, t, u, b),
           Numbers(ord, t), StackOK(ou, t), ou \in [Node -> Seq(Node)],
           \A i \in 1..Len(u.stack) : u.stack[i].edge <= Len(ou[u.stack[i].bl])
    PROVE  StackOK(ou, u)
<1> DEFINE n == Len(t.stack)
<1>0. /\ t \in TreeRec /\ u \in TreeRec /\ b \in Node /\ ~Seen(t, b)
      /\ \A x \in Node : x # b => u.visit[x] = t.visit[x] /\ u.desc[x] = t.desc[x]
      /\ u.visit[b] = Len(t.pre) /\ u.desc[b] = 1
      /\ Len(u.pre) = Len(t.pre) + 1
      /\ Len(u.stack) = n + 1 /\ u.stack[n + 1].bl = b
      /\ \A i \in 1..n : u.stack[i].bl = t.stack[i].bl
  BY DEF Grown
<1>1. /\ n \in Nat /\ Len(t.pre) \in Nat
      /\ \A x \in Node : t.visit[x] \in Int /\ t.desc[x] \in Nat
      /\ \A i \in 1..n : t.stack[i].bl \in Node
  BY SMTT(30), <1>0, TreeTypes
<1>2. /\ \A i \in 1..n : Seen(t, t.stack[i].bl) /\ ~Fin(t, t.stack[i].bl)
      /\ \A x \in Node : Seen(t, x) /\ ~Fin(t, x) => Held(t, x)
      /\ \A i, j \in 1..n : i < j => t.visit[t.stack[i].bl] < t.visit[t.stack[j].bl]
      /\ \A i \in 1..(n - 1) :
            t.visit[t.stack[i + 1].bl] = t.visit[t.stack[i].bl] + t.desc[t.stack[i].bl]
      /\ n >= 1 => t.visit[t.stack[n].bl] + t.desc[t.stack[n].bl] = Len(t.pre)
  BY DEF StackOK
<1>3. \A i \in 1..n : /\ u.stack[i].bl = t.stack[i].bl /\ u.stack[i].bl \in Node /\ u.stack[i].bl # b
                      /\ u.visit[u.stack[i].bl] = t.visit[t.stack[i].bl]
                      /\ u.desc[u.stack[i].bl] = t.desc[t.stack[i].bl]
                      /\ t.visit[t.stack[i].bl] < Len(t.pre)
  <2> SUFFICES ASSUME NEW i \in 1..n
               PROVE  /\ t.stack[i].bl # b /\ t.visit[t.stack[i].bl] < Len(t.pre)
    BY Zenon, <1>0, <1>1
  <2>1. Seen(t, t.stack[i].bl) /\ t.stack[i].bl \in Node
    BY <1>1, <1>2
  <2>2. t.visit[t.stack[i].bl] \in 0..(Len(t.pre) - 1)
    BY <2>1 DEF Numbers
  <2> QED BY SMTT(60), <1>0, <1>1, <2>1, <2>2
<1>4. ~Fin(t, b)
  BY <1>0 DEF Numbers
<1> HIDE DEF n
<1>5. \A i \in 1..(n + 1) : Seen(u, u.stack[i].bl) /\ ~Fin(u, u.stack[i].bl)
  <2> SUFFICES ASSUME NEW i \in 1..(n + 1) PROVE Seen(u, u.stack[i].bl) /\ ~Fin(u, u.stack[i].bl)
    OBVIOUS
  <2>1. CASE i = n + 1
    BY <1>0, <1>4, <2>1, GrownSeen
  <2>2. CASE i # n + 1
    <3>1. i \in 1..n
      BY <1>1, <2>2
    <3> QED BY <1>2, <1>3, <3>1, GrownSeen
  <2> QED BY <2>1, <2>2
<1>6. ASSUME NEW x \in Node, Seen(u, x), ~Fin(u, x) PROVE Held(u, x)
  <2>1. CASE x = b
    BY <1>0, <1>1, <2>1 DEF Held
  <2>2. CASE x # b
    <3>1. Held(t, x)
      BY <1>2, <1>6, <2>2, GrownSeen
    <3>2. PICK i \in 1..n : t.stack[i].bl = x
      BY <3>1 DEF Held, n
    <3>3. i \in 1..Len(u.stack) /\ u.stack[i].bl = x
      BY SMTT(30), <1>0, <1>1, <3>2
    <3> QED BY <3>3 DEF Held
  <2> QED BY <2>1, <2>2
<1>7. ASSUME NEW i \in 1..(n + 1), NEW j \in 1..(n + 1), i < j
      PROVE  u.visit[u.stack[i].bl] < u.visit[u.stack[j].bl]
  <2>1. i \in 1..n
    BY SMTT(30), <1>1, <1>7
  <2>2. CASE j = n + 1
    BY SMTT(30), <1>0, <1>3, <2>1, <2>2
  <2>3. CASE j # n + 1
    <3>1. j \in 1..n
      BY <1>1, <2>3
    <3> QED BY SMTT(30), <1>2, <1>3, <1>7, <2>1, <3>1
  <2> QED BY <2>2, <2>3
<1>8. ASSUME NEW i \in 1..n
      PROVE  u.visit[u.stack[i + 1].bl] = u.visit[u.stack[i].bl] + u.desc[u.stack[i].bl]
  <2>1. CASE i = n
    <3>1. n >= 1
      BY <1>1
    <3>2. u.stack[i + 1].bl = b /\ u.visit[b] = Len(t.pre)
      BY SMTT(30), <1>0, <2>1
    <3> QED BY <1>2, <1>3, <2>1, <3>1, <3>2
  <2>2. CASE i # n
    <3>1. i + 1 \in 1..n /\ i \in 1..(n - 1)
      BY <1>1, <2>2
    <3> QED BY <1>2, <1>3, <3>1
  <2> QED BY SMTT(30), <2>1, <2>2
<1>9. u.visit[u.stack[n + 1].bl] + u.desc[u.stack[n + 1].bl] = Len(u.pre)
  BY <1>0
<1>10. n + 1 - 1 = n /\ n \in Int
  BY <1>1
<1> QED BY <1>0, <1>5, <1>6, <1>7, <1>8, <1>9, <1>10 DEF StackOK

\* What a label says of an edge stays true when a block is visited.
LEMMA GrownEdge ==
    ASSUME NEW ord, NEW t, NEW u, NEW b, Grown(ord, t, u, b), Numbers(ord, t),
           NEW x \in Node, NEW c \in Node, Seen(t, x), NEW l, EdgeOK(t, x, c, l)
    PROVE  EdgeOK(u, x, c, l)
<1>0. /\ t \in TreeRec /\ u \in TreeRec /\ b \in Node /\ ~Seen(t, b)
      /\ \A y \in Node : y # b => u.visit[y] = t.visit[y] /\ u.desc[y] = t.desc[y]
      /\ u.visit[b] = Len(t.pre) /\ u.index = t.index
      /\ Len(u.stack) = Len(t.stack) + 1 /\ u.stack[Len(t.stack) + 1].bl = b
      /\ \A i \in 1..Len(t.stack) : u.stack[i].bl = t.stack[i].bl
  BY DEF Grown
<1>1. Seen(t, c) /\ x # b /\ c # b
  BY <1>0 DEF EdgeOK
<1>2. /\ u.visit[x] = t.visit[x] /\ u.desc[x] = t.desc[x]
      /\ u.visit[c] = t.visit[c] /\ u.desc[c] = t.desc[c]
      /\ Seen(u, c) /\ Seen(u, x) /\ (Fin(u, c) <=> Fin(t, c)) /\ (Fin(u, x) <=> Fin(t, x))
  BY <1>0, <1>1, GrownSeen
<1>3. ASSUME TreeEdge(t, x, c) PROVE TreeEdge(u, x, c)
  <2>1. ASSUME ~Fin(u, c), NEW i \in 1..Len(u.stack), u.stack[i].bl = c
        PROVE  i > 1 /\ u.stack[i - 1].bl = x
    <3>1. Len(t.stack) \in Nat
      BY <1>0, TreeTypes
    <3>2. i \in 1..Len(t.stack)
      BY <1>0, <1>1, <2>1, <3>1
    <3>3. i > 1 /\ t.stack[i - 1].bl = x
      BY <1>0, <1>2, <1>3, <2>1, <3>2 DEF TreeEdge
    <3>4. i - 1 \in 1..Len(t.stack)
      BY <3>1, <3>2, <3>3
    <3> QED BY <1>0, <3>3, <3>4
  <2>2. ASSUME NEW y \in Node, Seen(u, y), u.visit[x] < u.visit[y], u.visit[y] < u.visit[c]
        PROVE  Fin(u, y) /\ u.visit[y] + u.desc[y] <= u.visit[c]
    <3>1. y # b
      <4>1. t.visit[c] \in 0..(Len(t.pre) - 1) /\ Len(t.pre) \in Nat
        BY <1>0, <1>1, TreeTypes DEF Numbers
      <4> QED BY <1>0, <1>2, <2>2, <4>1
    <3>2. Seen(t, y) /\ u.visit[y] = t.visit[y] /\ u.desc[y] = t.desc[y]
      BY <1>0, <2>2, <3>1, GrownSeen
    <3> QED BY <1>2, <1>3, <2>2, <3>2, GrownSeen DEF TreeEdge
  <2> QED BY <1>0, <1>2, <1>3, <2>1, <2>2 DEF TreeEdge
<1>4. BackEdge(t, x, c) => BackEdge(u, x, c)
  BY <1>0, <1>2 DEF BackEdge
<1>5. SideEdge(t, x, c) => SideEdge(u, x, c)
  BY <1>0, <1>2 DEF SideEdge
<1> QED BY <1>2, <1>3, <1>4, <1>5 DEF EdgeOK

\* The labels when a block is visited: as many slots are explored as before, and
\* at most one more, the tree edge that leads to it.
LEMMA GrownRoots ==
    ASSUME NEW ord, NEW ou, NEW t, NEW u, NEW b, NEW lab, NEW lab2,
           Grown(ord, t, u, b), Numbers(ord, t), RootsOK(ou, ord, t, lab),
           u.roots = t.roots, u.at = t.at, Len(t.stack) >= 1,
           NEW p \in SlotsOf(ou), Dest(ou, p) = b, Explored(u, p), "tree" \in lab2[p[1]][p[2]],
           p[1] \in Node, Seen(t, p[1]),
           \A q \in SlotsOf(ou) : Explored(t, q) /\ "tree" \in lab[q[1]][q[2]]
                => Explored(u, q) /\ "tree" \in lab2[q[1]][q[2]]
    PROVE  RootsOK(ou, ord, u, lab2)
<1>0. /\ t \in TreeRec /\ u \in TreeRec /\ b \in Node /\ ~Seen(t, b)
      /\ u.rpost = t.rpost /\ Len(u.pre) = Len(t.pre) + 1
      /\ \A i \in 1..Len(t.pre) : u.pre[i] = t.pre[i]
      /\ Len(u.stack) = Len(t.stack) + 1
      /\ \A i \in 1..Len(t.stack) : u.stack[i].bl = t.stack[i].bl
  BY DEF Grown
<1>1. /\ Len(t.pre) \in Nat /\ Len(t.stack) \in Nat /\ Len(t.roots) \in Nat /\ t.at \in Nat
      /\ \A i \in 1..Len(t.roots) : t.roots[i] \in Node
  BY <1>0, TreeTypes
<1>2. /\ t.at <= Len(t.roots)
      /\ \A i \in 1..Len(t.roots) : Holds(ord, t.roots[i])
      /\ \A i \in 1..t.at : Seen(t, t.roots[i])
      /\ \A i, j \in 1..t.at : t.roots[i] = t.roots[j] => i = j
      /\ Len(t.pre) = 0 <=> t.at = 0
      /\ t.at >= 1 => t.pre[1] = t.roots[1]
      /\ t.at >= 1 /\ t.stack[1].bl = t.roots[t.at]
  BY DEF RootsOK
<1>3. \A i \in 1..t.at : Seen(u, t.roots[i])
  <2> SUFFICES ASSUME NEW i \in 1..t.at PROVE Seen(u, t.roots[i])
    OBVIOUS
  <2>1. i \in 1..Len(t.roots)
    BY <1>1, <1>2
  <2> QED BY <1>1, <1>2, <2>1, GrownSeen
<1>4. Len(t.pre) >= 1 /\ u.pre[1] = t.pre[1]
  <2>1. Len(t.pre) # 0
    BY <1>1, <1>2
  <2> QED BY <1>0, <1>1, <2>1
<1>5. u.stack[1].bl = t.stack[1].bl
  BY <1>0, <1>1
<1>6. ASSUME NEW x \in Node, Seen(u, x)
      PROVE  \/ \E i \in 1..t.at : t.roots[i] = x
             \/ \E q \in SlotsOf(ou) : Explored(u, q) /\ Dest(ou, q) = x /\ "tree" \in lab2[q[1]][q[2]]
  <2>1. CASE x = b
    BY <2>1
  <2>2. CASE x # b
    <3>1. Seen(t, x)
      BY <1>6, <2>2, GrownSeen
    <3> QED BY <3>1 DEF RootsOK
  <2> QED BY <2>1, <2>2
<1>7. ASSUME NEW C \in SUBSET Node, Shut(ou, C), \A i \in 1..t.at : t.roots[i] \in C,
             NEW x \in Node, Seen(u, x)
      PROVE  x \in C
  <2>1. \A y \in Node : Seen(t, y) => y \in C
    BY <1>7 DEF RootsOK
  <2>2. b \in C
    BY <1>7, <2>1 DEF Shut
  <2> QED BY <1>7, <2>1, <2>2, GrownSeen
<1>8. Len(u.pre) # 0 /\ Len(u.stack) # 0 /\ t.at # 0
  BY <1>0, <1>1, <1>2
<1> QED BY SMTT(30), <1>2, <1>3, <1>4, <1>5, <1>6, <1>7, <1>8 DEF RootsOK

\* The blocks that live stay together on the stack, and the entry below them.
LEMMA GrownLive ==
    ASSUME NEW ord, NEW ou, NEW t, NEW u, NEW b,
           Grown(ord, t, u, b), Numbers(ord, t), LiveOK(ou, t),
           \/ Len(t.stack) = 0
           \/ \E p \in SlotsOf(ou) : Dest(ou, p) = b /\ p[1] = t.stack[Len(t.stack)].bl,
           Shut(ou, Lives(ou))
    PROVE  LiveOK(ou, u)
<1>0. /\ t \in TreeRec /\ u \in TreeRec /\ b \in Node /\ ~Seen(t, b)
      /\ u.index = t.index
      /\ Len(u.stack) = Len(t.stack) + 1 /\ u.stack[Len(t.stack) + 1].bl = b
      /\ \A i \in 1..Len(t.stack) : u.stack[i].bl = t.stack[i].bl
  BY DEF Grown
<1>1. Len(t.stack) \in Nat
  BY <1>0, TreeTypes
<1> SUFFICES ASSUME \A p \in SlotsOf(ou) : p[1] \in Lives(ou) => Dest(ou, p) # Entry
             PROVE  /\ \A i, j \in 1..Len(u.stack) : i < j /\ u.stack[i].bl \in Lives(ou)
                         => u.stack[j].bl \in Lives(ou) /\ u.stack[j].bl # Entry
                    /\ Fin(u, Entry) => \A x \in Lives(ou) : Fin(u, x) /\ u.index[Entry] <= u.index[x]
  BY DEF LiveOK
<1>2. /\ \A i, j \in 1..Len(t.stack) : i < j /\ t.stack[i].bl \in Lives(ou)
                => t.stack[j].bl \in Lives(ou) /\ t.stack[j].bl # Entry
      /\ Fin(t, Entry) => \A x \in Lives(ou) : Fin(t, x) /\ t.index[Entry] <= t.index[x]
  BY DEF LiveOK
<1>3. ASSUME NEW i \in 1..Len(u.stack), NEW j \in 1..Len(u.stack), i < j, u.stack[i].bl \in Lives(ou)
      PROVE  u.stack[j].bl \in Lives(ou) /\ u.stack[j].bl # Entry
  <2>1. i \in 1..Len(t.stack) /\ t.stack[i].bl \in Lives(ou)
    <3>1. i \in 1..Len(t.stack)
      BY <1>0, <1>1, <1>3
    <3> QED BY <1>0, <1>3, <3>1
  <2>2. CASE j = Len(t.stack) + 1
    <3>1. PICK p \in SlotsOf(ou) : Dest(ou, p) = b /\ p[1] = t.stack[Len(t.stack)].bl
      BY <1>1, <2>1
    <3>2. t.stack[Len(t.stack)].bl \in Lives(ou)
      <4>1. CASE i = Len(t.stack)
        BY <2>1, <4>1
      <4>2. CASE i # Len(t.stack)
        <5>1. i < Len(t.stack) /\ Len(t.stack) \in 1..Len(t.stack)
          BY <1>1, <2>1, <4>2
        <5> QED BY <1>2, <2>1, <5>1
      <4> QED BY <4>1, <4>2
    <3>3. b \in Lives(ou) /\ b # Entry
      BY <3>1, <3>2 DEF Shut
    <3> QED BY <1>0, <2>2, <3>3
  <2>3. CASE j # Len(t.stack) + 1
    <3>1. j \in 1..Len(t.stack)
      BY <1>0, <1>1, <2>3
    <3> QED BY <1>0, <1>2, <1>3, <2>1, <3>1
  <2> QED BY <2>2, <2>3
<1>4. Lives(ou) \subseteq Node
  BY DEF Lives
<1>5. Fin(u, Entry) => \A x \in Lives(ou) : Fin(u, x) /\ u.index[Entry] <= u.index[x]
  BY <1>0, <1>2 DEF Fin
<1> QED BY <1>3, <1>5

\* A block with an in-edge is no root the list still has to come to.
LEMMA ChildRootList ==
    ASSUME NEW ord, NEW ou, NEW inn, NEW st, NEW t, NEW u, NEW c, NEW lab,
           Grown(ord, t, u, c), RootsOK(ou, ord, t, lab), Len(t.stack) >= 1,
           RootList(ou, inn, ord, st, t), Len(inn[c]) # 0,
           u.roots = t.roots, u.at = t.at, u.home = t.home, u.extra = t.extra, u.again = t.again
    PROVE  RootList(ou, inn, ord, st, u)
<1>0. t \in TreeRec /\ t.at >= 1 /\ \A x \in Node : Seen(u, x) <=> Seen(t, x) \/ x = c
  <2>1. \A x \in Node : Seen(u, x) <=> Seen(t, x) \/ x = c
    BY GrownSeen
  <2> QED BY <2>1 DEF RootsOK, Grown
<1>1. t.at \in Nat /\ t.home \in Nat /\ Len(t.roots) \in Nat /\ \A i \in 1..Len(t.roots) : t.roots[i] \in Node
  BY <1>0, TreeTypes
<1>2. ASSUME ~t.again, NEW i \in 1..t.home, i > t.at PROVE ~Seen(u, t.roots[i])
  <2>1. t.home <= Len(t.roots) /\ ~Seen(t, t.roots[i]) /\ \A j \in 2..t.home : Len(inn[t.roots[j]]) = 0
    BY <1>2 DEF RootList
  <2>2. i \in 2..t.home /\ i \in 1..Len(t.roots)
    BY <1>0, <1>1, <1>2, <2>1
  <2> QED BY <1>0, <1>1, <2>1, <2>2
<1>3. ASSUME t.again, inn[Entry] = <<>>
      PROVE  /\ t.at < Len(t.roots) => ~Seen(u, Entry)
             /\ \A C \in SUBSET Node :
                   Shut(ou, C) /\ (\A b \in Node : Seen(u, b) \/ Holds(t.roots, b) => b \in C)
                      => \A b \in Node : Holds(ord, b) => b \in C
  <2>1. Entry # c
    BY <1>3, EmptySeq
  <2>2. /\ t.at < Len(t.roots) => ~Seen(t, Entry)
        /\ \A C \in SUBSET Node :
              Shut(ou, C) /\ (\A b \in Node : Seen(t, b) \/ Holds(t.roots, b) => b \in C)
                 => \A b \in Node : Holds(ord, b) => b \in C
    BY <1>3 DEF RootList
  <2> QED BY <1>0, <2>1, <2>2, EntryFacts
<1> QED BY <1>2, <1>3 DEF RootList

-----------------------------------------------------------------------------
(***************************************************************************)
(* Walk takes the next edge of the top block                                *)
(***************************************************************************)
\* Slot k of the top block b has been taken; a block that was pushed is new.
Moved(t, u, b, k) ==
    /\ t \in TreeRec /\ u \in TreeRec
    /\ Len(t.stack) >= 1 /\ Len(t.stack) <= Len(u.stack)
    /\ t.stack[Len(t.stack)].bl = b /\ t.stack[Len(t.stack)].edge + 1 = k
    /\ \A i \in 1..Len(t.stack) :
          /\ u.stack[i].bl = t.stack[i].bl
          /\ u.stack[i].edge = IF i = Len(t.stack) THEN k ELSE t.stack[i].edge
    /\ \A i \in 1..Len(u.stack) : i > Len(t.stack) => u.stack[i].edge = 0
    /\ \A x \in Node : Seen(t, x) => Seen(u, x)
    /\ \A x \in Node : Fin(u, x) <=> Fin(t, x)

\* That slot is the only one that has become explored.
LEMMA MovedExplored ==
    ASSUME NEW ord, NEW ou, NEW t, NEW u, NEW b, NEW k, Moved(t, u, b, k),
           StackOK(ou, t), Numbers(ord, t), NEW q \in Node \X (1..MaxOut)
    PROVE  /\ Explored(u, q) <=> Explored(t, q) \/ q = <<b, k>>
           /\ q = <<b, k>> => ~Explored(t, q)
<1> DEFINE n == Len(t.stack)
           m == Len(u.stack)
<1>1. /\ n \in Nat /\ m \in Nat /\ n \in 1..n /\ n \in 1..m /\ n <= m /\ b \in Node /\ k \in Nat
      /\ \A x \in Node : t.visit[x] \in Int
      /\ \A i \in 1..n : t.stack[i].bl \in Node /\ t.stack[i].edge \in Nat
      /\ t.stack[n].bl = b /\ t.stack[n].edge + 1 = k
  <2>1. /\ n \in Nat /\ m \in Nat /\ \A x \in Node : t.visit[x] \in Int
        /\ \A i \in 1..n : t.stack[i].bl \in Node /\ t.stack[i].edge \in Nat
    BY TreeTypes DEF Moved
  <2>2. n >= 1 /\ n <= m /\ t.stack[n].bl = b /\ t.stack[n].edge + 1 = k
    BY DEF Moved
  <2>3. n \in 1..n /\ n \in 1..m
    BY <2>1, <2>2
  <2>4. b \in Node /\ k \in Nat
    BY SMTT(30), <2>1, <2>2, <2>3
  <2> QED BY <2>1, <2>2, <2>3, <2>4
<1>2. /\ \A i \in 1..n : u.stack[i].bl = t.stack[i].bl
                         /\ u.stack[i].edge = IF i = n THEN k ELSE t.stack[i].edge
      /\ \A i \in 1..m : i > n => u.stack[i].edge = 0
      /\ \A x \in Node : (Seen(t, x) => Seen(u, x)) /\ (Fin(u, x) <=> Fin(t, x))
  BY DEF Moved
<1>3. /\ \A i \in 1..n : Seen(t, t.stack[i].bl) /\ ~Fin(t, t.stack[i].bl)
      /\ \A i, j \in 1..n : i < j => t.visit[t.stack[i].bl] < t.visit[t.stack[j].bl]
      /\ \A x \in Node : Fin(t, x) => Seen(t, x)
  BY DEF StackOK, Numbers
<1>4. q[1] \in Node /\ q[2] \in Nat /\ q[2] >= 1 /\ q = <<q[1], q[2]>>
  BY SpanningTreeAssumption
<1> DEFINE x == q[1]
           e == q[2]
<1>5. Explored(t, q) <=> Seen(t, x) /\ (Fin(t, x) \/ \E i \in 1..n : t.stack[i].bl = x /\ e <= t.stack[i].edge)
  BY DEF Explored
<1>6. Explored(u, q) <=> Seen(u, x) /\ (Fin(u, x) \/ \E i \in 1..m : u.stack[i].bl = x /\ e <= u.stack[i].edge)
  BY DEF Explored
<1>7. q = <<b, k>> <=> x = b /\ e = k
  BY <1>4
<1> HIDE DEF n, m, x, e
<1>8. x \in Node /\ e \in Nat /\ e >= 1
  BY <1>4 DEF x, e
<1>9. ASSUME Explored(t, q) PROVE Explored(u, q)
  <2>1. CASE Fin(t, x)
    BY <1>2, <1>5, <1>6, <1>8, <1>9, <2>1
  <2>2. CASE ~Fin(t, x)
    <3>1. PICK i \in 1..n : t.stack[i].bl = x /\ e <= t.stack[i].edge
      BY <1>5, <1>9, <2>2
    <3>2. i \in 1..m /\ t.stack[i].edge \in Nat
      BY <1>1
    <3>3. u.stack[i].bl = x /\ e <= u.stack[i].edge
      <4>1. CASE i = n
        <5>1. u.stack[i].edge = k /\ t.stack[i].edge + 1 = k
          BY <1>1, <1>2, <4>1
        <5>2. e <= k
          BY <1>1, <1>8, <3>1, <3>2, <5>1
        <5> QED BY <1>2, <3>1, <5>1, <5>2
      <4>2. CASE i # n
        BY <1>2, <3>1, <4>2
      <4> QED BY <4>1, <4>2
    <3> QED BY <1>2, <1>5, <1>6, <1>8, <1>9, <3>2, <3>3
  <2> QED BY <2>1, <2>2
<1>10. ASSUME q = <<b, k>> PROVE Explored(u, q) /\ ~Explored(t, q)
  <2>1. x = b /\ e = k /\ Seen(t, b) /\ ~Fin(t, b)
    BY <1>1, <1>3, <1>7, <1>10
  <2>2. u.stack[n].bl = x /\ u.stack[n].edge = k
    BY <1>1, <1>2, <2>1
  <2>3. e <= u.stack[n].edge
    BY <1>8, <2>1, <2>2
  <2>4. Explored(u, q)
    BY <1>1, <1>2, <1>6, <2>1, <2>2, <2>3
  <2>5. ASSUME NEW i \in 1..n, t.stack[i].bl = x, e <= t.stack[i].edge PROVE FALSE
    <3>1. ~(i < n)
      BY <1>1, <1>3, <2>1, <2>5
    <3>2. i = n
      BY <1>1, <3>1
    <3>3. t.stack[i].edge + 1 = k /\ t.stack[i].edge \in Nat
      BY <1>1, <3>2
    <3> QED BY <1>8, <2>1, <2>5, <3>3
  <2> QED BY <1>5, <2>1, <2>4, <2>5
<1>11. ASSUME Explored(u, q), q # <<b, k>> PROVE Explored(t, q)
  <2>1. CASE Fin(u, x)
    BY <1>2, <1>3, <1>5, <1>8, <2>1
  <2>2. CASE ~Fin(u, x)
    <3>1. PICK i \in 1..m : u.stack[i].bl = x /\ e <= u.stack[i].edge
      BY <1>6, <1>11, <2>2
    <3>2. ~(i > n)
      <4> SUFFICES ASSUME i > n PROVE FALSE
        OBVIOUS
      <4>1. u.stack[i].edge = 0
        BY <1>2
      <4> QED BY <1>8, <3>1, <4>1
    <3>3. i \in 1..n
      BY <1>1, <3>2
    <3>4. t.stack[i].bl = x /\ Seen(t, x)
      BY <1>2, <1>3, <3>1, <3>3
    <3>5. e <= t.stack[i].edge
      <4>1. CASE i = n
        <5>1. e <= k /\ x = b
          BY <1>1, <1>2, <3>1, <3>3, <3>4, <4>1
        <5>2. e # k
          BY <1>7, <1>11, <5>1
        <5>3. t.stack[i].edge + 1 = k /\ t.stack[i].edge \in Nat
          BY <1>1, <4>1
        <5> QED BY <1>1, <1>8, <5>1, <5>2, <5>3
      <4>2. CASE i # n
        BY <1>2, <3>1, <3>3, <4>2
      <4> QED BY <4>1, <4>2
    <3> QED BY <1>5, <3>3, <3>4, <3>5
  <2> QED BY <2>1, <2>2
<1> QED BY <1>9, <1>10, <1>11

\* A slot gets its first label.
Relabelled(ou, lab, lab2, b, k, ls) ==
    /\ LabelType(ou, lab2) /\ lab2[b][k] = ls
    /\ \A q \in SlotsOf(ou) : q # <<b, k>> => lab2[q[1]][q[2]] = lab[q[1]][q[2]]

\* Labelling an edge that has no label touches that edge alone.
LEMMA LabelFirst ==
    ASSUME NEW ou, NEW inn, NEW ord, GraphOK(ou, inn, ord), NEW lab, LabelType(ou, lab),
           NEW b \in Node, NEW k \in 1..Len(ou[b]), lab[b][k] = {}, NEW ls \in SUBSET SpanLabel,
           NEW lab2, lab2 = [lab EXCEPT ![b][k] = @ \cup ls]
    PROVE  Relabelled(ou, lab, lab2, b, k, ls)
<1>1. DOMAIN lab = Node /\ \A x \in Node : lab[x] \in [1..Len(ou[x]) -> SUBSET SpanLabel]
  BY DEF LabelType
<1>2. /\ DOMAIN lab2 = Node
      /\ lab2[b] = [lab[b] EXCEPT ![k] = ls]
      /\ \A x \in Node : x # b => lab2[x] = lab[x]
  BY <1>1
<1>3. lab2[b] \in [1..Len(ou[b]) -> SUBSET SpanLabel]
  BY <1>1, <1>2
<1>4. LabelType(ou, lab2)
  BY <1>1, <1>2, <1>3 DEF LabelType
<1>5. lab2[b][k] = ls /\ \A j \in 1..Len(ou[b]) : j # k => lab2[b][j] = lab[b][j]
  BY <1>1, <1>2
<1>6. ASSUME NEW q \in SlotsOf(ou), q # <<b, k>> PROVE lab2[q[1]][q[2]] = lab[q[1]][q[2]]
  <2>1. q[1] \in Node /\ q[2] \in 1..Len(ou[q[1]]) /\ q = <<q[1], q[2]>>
    BY SlotType
  <2>2. CASE q[1] = b
    <3>1. q[2] # k
      BY <1>6, <2>1, <2>2
    <3> QED BY <1>5, <2>1, <2>2, <3>1
  <2>3. CASE q[1] # b
    BY <1>2, <2>1, <2>3
  <2> QED BY <2>2, <2>3
<1> QED BY <1>4, <1>5, <1>6 DEF Relabelled

\* What the labels say holds of the new tree when it held of the old one, and when
\* it holds of the slot just taken.
LEMMA MovedEdges ==
    ASSUME NEW ord, NEW ou, NEW t, NEW u, NEW b, NEW k, NEW lab, NEW lab2, NEW ls,
           Moved(t, u, b, k), StackOK(ou, t), Numbers(ord, t), EdgesOK(ou, t, lab),
           Relabelled(ou, lab, lab2, b, k, ls), EdgeOK(u, b, ou[b][k], ls),
           \A q \in SlotsOf(ou) : \A l : Explored(t, q) /\ EdgeOK(t, q[1], Dest(ou, q), l)
                => EdgeOK(u, q[1], Dest(ou, q), l)
    PROVE  EdgesOK(ou, u, lab2)
<1> SUFFICES ASSUME NEW q \in SlotsOf(ou)
             PROVE  IF Explored(u, q) THEN EdgeOK(u, q[1], Dest(ou, q), lab2[q[1]][q[2]])
                                      ELSE lab2[q[1]][q[2]] = {}
  BY DEF EdgesOK
<1>1. q \in Node \X (1..MaxOut)
  BY DEF SlotsOf
<1>2. Explored(u, q) <=> Explored(t, q) \/ q = <<b, k>>
  BY <1>1, MovedExplored
<1>3. IF Explored(t, q) THEN EdgeOK(t, q[1], Dest(ou, q), lab[q[1]][q[2]]) ELSE lab[q[1]][q[2]] = {}
  BY DEF EdgesOK
<1>4. CASE q = <<b, k>>
  <2>1. q[1] = b /\ q[2] = k /\ Dest(ou, q) = ou[b][k]
    BY <1>4 DEF Dest
  <2> QED BY <1>2, <1>4, <2>1 DEF Relabelled
<1>5. CASE q # <<b, k>>
  BY SMTT(30), <1>2, <1>3, <1>5 DEF Relabelled
<1> QED BY <1>4, <1>5

\* The list of roots and the place in it
SameRoots(t, u) ==
    /\ u.roots = t.roots /\ u.at = t.at /\ u.home = t.home
    /\ u.extra = t.extra /\ u.again = t.again

\* A visit is a move of the top's edge counter and the growth of the tree.
LEMMA ChildMoved ==
    ASSUME NEW ord, NEW t \in TreeRec, Len(t.stack) >= 1,
           NEW k \in Nat, k = t.stack[Len(t.stack)].edge + 1,
           NEW c \in Node, Holds(ord, c), ~Seen(t, c),
           NEW v, v = [t EXCEPT !.stack[Len(t.stack)].edge = k],
           NEW u, u = Visit(v, c)
    PROVE  /\ Grown(ord, t, u, c) /\ Moved(t, u, t.stack[Len(t.stack)].bl, k)
           /\ SameRoots(t, u)
<1> DEFINE n == Len(t.stack)
           e == [bl |-> c, edge |-> 0]
<1>1. Advanced(t, v, k)
  BY AdvanceFacts
<1>2. Pushed(v, u, c)
  <2>1. v \in TreeRec
    BY <1>1 DEF Advanced
  <2> QED BY <2>1, VisitFacts
<1>3. /\ v.visit = t.visit /\ v.desc = t.desc /\ v.pre = t.pre
      /\ v.stack \in Seq([bl : Node, edge : Nat]) /\ Len(v.stack) = n
      /\ \A i \in 1..n :
            v.stack[i].bl = t.stack[i].bl /\ v.stack[i].edge = IF i = n THEN k ELSE t.stack[i].edge
  BY <1>1 DEF Advanced
<1>4. e \in [bl : Node, edge : Nat] /\ e.bl = c /\ e.edge = 0
  OBVIOUS
<1>5. /\ t.pre \in Seq(Node) /\ t.visit \in [Node -> Int] /\ t.desc \in [Node -> Nat] /\ n \in Nat
  BY TreeTypes DEF TreeRec
<1> HIDE DEF e
<1>6. /\ Len(u.pre) = Len(t.pre) + 1 /\ u.pre[Len(t.pre) + 1] = c
      /\ \A i \in 1..Len(t.pre) : u.pre[i] = t.pre[i]
  <2>1. u.pre = Append(t.pre, c)
    BY <1>2, <1>3 DEF Pushed
  <2>2. /\ Len(Append(t.pre, c)) = Len(t.pre) + 1 /\ Append(t.pre, c)[Len(t.pre) + 1] = c
        /\ \A i \in 1..Len(t.pre) : Append(t.pre, c)[i] = t.pre[i]
    BY SMTT(30), <1>5, AppendProperties
  <2> QED BY <2>1, <2>2
<1>7. /\ Len(u.stack) = n + 1 /\ u.stack[n + 1] = e
      /\ \A i \in 1..n : u.stack[i] = v.stack[i]
  <2> DEFINE s == v.stack
  <2>1. u.stack = Append(s, e)
    BY <1>2 DEF Pushed, e
  <2>2. s \in Seq([bl : Node, edge : Nat]) /\ Len(s) = n
    BY <1>3
  <2> HIDE DEF n, s
  <2>3. /\ Len(Append(s, e)) = Len(s) + 1 /\ Append(s, e)[Len(s) + 1] = e
        /\ \A i \in 1..Len(s) : Append(s, e)[i] = s[i]
    BY SMTT(30), <1>4, <2>2, AppendProperties
  <2>4. /\ Len(u.stack) = n + 1 /\ u.stack[n + 1] = e /\ \A i \in 1..n : u.stack[i] = s[i]
    BY <2>1, <2>2, <2>3
  <2> QED BY SMTT(30), <2>4 DEF s
<1>8. /\ \A x \in Node : x # c => u.visit[x] = t.visit[x] /\ u.desc[x] = t.desc[x]
      /\ u.visit[c] = Len(t.pre) /\ u.desc[c] = 1
  <2>1. u.visit = [t.visit EXCEPT ![c] = Len(t.pre)] /\ u.desc = [t.desc EXCEPT ![c] = 1]
    BY SMTT(30), <1>2, <1>3 DEF Pushed
  <2> QED BY SMTT(30), <1>5, <2>1
<1>9. /\ \A i \in 1..n : u.stack[i].bl = t.stack[i].bl /\ u.stack[i].edge = IF i = n THEN k ELSE t.stack[i].edge
      /\ u.stack[n + 1].bl = c /\ u.stack[n + 1].edge = 0
  <2> HIDE DEF n
  <2>1. \A i \in 1..n : u.stack[i] = v.stack[i]
    BY <1>7
  <2>2. ASSUME NEW i \in 1..n
        PROVE  u.stack[i].bl = t.stack[i].bl /\ u.stack[i].edge = IF i = n THEN k ELSE t.stack[i].edge
    <3>1. u.stack[i] = v.stack[i]
      BY <2>1
    <3>2. v.stack[i].bl = t.stack[i].bl /\ v.stack[i].edge = IF i = n THEN k ELSE t.stack[i].edge
      BY SMTT(30), <1>3
    <3> QED BY <3>1, <3>2, Zenon
  <2>3. u.stack[n + 1].bl = c /\ u.stack[n + 1].edge = 0
    BY SMTT(30), <1>4, <1>7
  <2> QED BY <2>2, <2>3
<1>10. u.index = t.index /\ u.rpost = t.rpost /\ u.roots = t.roots /\ u.at = t.at
       /\ u.home = t.home /\ u.extra = t.extra /\ u.again = t.again
  BY Zenon, <1>1, <1>2 DEF Advanced, Pushed
<1>11. Grown(ord, t, u, c)
  <2>1. \A i \in 1..n : u.stack[i].bl = t.stack[i].bl
    BY <1>9
  <2>2. u.stack[Len(t.stack) + 1].bl = c /\ u.stack[Len(t.stack) + 1].edge = 0 /\ Len(u.stack) = Len(t.stack) + 1
    BY <1>7, <1>9
  <2>3. u \in TreeRec
    BY SMTT(30), <1>2 DEF Pushed
  <2> QED BY Zenon, <1>6, <1>8, <1>10, <2>1, <2>2, <2>3 DEF Grown
<1>12. Moved(t, u, t.stack[n].bl, k)
  <2>1. \A x \in Node : (Seen(t, x) => Seen(u, x)) /\ (Fin(u, x) <=> Fin(t, x))
    BY <1>11, GrownSeen
  <2>2. \A i \in 1..Len(u.stack) : i > n => u.stack[i].edge = 0
    <3> SUFFICES ASSUME NEW i \in 1..(n + 1), i > n PROVE u.stack[i].edge = 0
      BY <1>7
    <3>1. i = n + 1
      BY <1>5
    <3> QED BY SMTT(30), <1>9, <3>1
  <2>3. n <= Len(u.stack)
    BY <1>5, <1>7
  <2>4. u \in TreeRec
    BY <1>2 DEF Pushed
  <2> QED BY <1>9, <2>1, <2>2, <2>3, <2>4 DEF Moved
<1> QED BY <1>10, <1>11, <1>12 DEF SameRoots

\* The edge to the new child is a tree edge.
LEMMA ChildTree ==
    ASSUME NEW ord, NEW ou, NEW t, NEW u, NEW b, NEW c, Grown(ord, t, u, c),
           Numbers(ord, t), StackOK(ou, t), Spans(t),
           Len(t.stack) >= 1, b = t.stack[Len(t.stack)].bl
    PROVE  EdgeOK(u, b, c, {"tree"})
<1> DEFINE n == Len(t.stack)
<1>0. /\ t \in TreeRec /\ u \in TreeRec /\ c \in Node /\ ~Seen(t, c)
      /\ \A x \in Node : x # c => u.visit[x] = t.visit[x] /\ u.desc[x] = t.desc[x]
      /\ u.visit[c] = Len(t.pre) /\ u.desc[c] = 1
      /\ Len(u.stack) = n + 1
      /\ \A i \in 1..n : u.stack[i].bl = t.stack[i].bl
  BY DEF Grown
<1>1. /\ n \in Nat /\ \A i \in 1..n : t.stack[i].bl \in Node
      /\ Len(t.pre) \in Nat /\ \A x \in Node : t.visit[x] \in Int /\ t.desc[x] \in Nat
  BY <1>0, TreeTypes
<1>2. n \in 1..n /\ b \in Node
  BY <1>1
<1>3. /\ \A i \in 1..n : Seen(t, t.stack[i].bl) /\ ~Fin(t, t.stack[i].bl)
      /\ t.visit[b] + t.desc[b] = Len(t.pre)
  BY DEF StackOK
<1> HIDE DEF n
<1>4. Seen(t, b) /\ b # c
  BY <1>0, <1>2, <1>3 DEF n
<1>5. t.visit[b] < Len(t.pre) /\ u.visit[c] = Len(t.pre) /\ u.visit[b] = t.visit[b]
  <2>1. t.visit[b] \in 0..(Len(t.pre) - 1)
    BY <1>2, <1>4 DEF Numbers
  <2> QED BY SMTT(30), <1>0, <1>1, <1>2, <1>4, <2>1
<1>6. ~Fin(u, c) /\ Seen(u, c)
  BY <1>0, GrownSeen DEF Numbers
<1>7. ASSUME NEW i \in 1..Len(u.stack), u.stack[i].bl = c PROVE i > 1 /\ u.stack[i - 1].bl = b
  <2>1. i = n + 1
    <3> SUFFICES ASSUME i # n + 1 PROVE FALSE
      OBVIOUS
    <3>1. i \in 1..n
      BY <1>0, <1>1
    <3>2. t.stack[i].bl = c
      BY <1>0, <1>7, <3>1
    <3> QED BY <1>0, <1>3, <3>1, <3>2
  <2>2. i - 1 = n /\ i > 1
    BY <1>1, <1>2, <2>1
  <2>3. u.stack[n].bl = b
    BY <1>0, <1>2 DEF n
  <2> QED BY <2>2, <2>3
<1>8. ASSUME NEW x \in Node, Seen(u, x), u.visit[b] < u.visit[x], u.visit[x] < u.visit[c]
      PROVE  Fin(u, x) /\ u.visit[x] + u.desc[x] <= u.visit[c]
  <2>1. x # c
    BY <1>0, <1>1, <1>8
  <2>2. Seen(t, x) /\ u.visit[x] = t.visit[x] /\ u.desc[x] = t.desc[x] /\ (Fin(u, x) <=> Fin(t, x))
    BY <1>0, <1>8, <2>1, GrownSeen
  <2>3. Fin(t, x) /\ t.visit[x] + t.desc[x] <= t.visit[b] + t.desc[b]
    <3>1. t.visit[b] < t.visit[x] /\ t.visit[x] < t.visit[b] + t.desc[b]
      BY <1>3, <1>5, <1>8, <2>2
    <3> QED BY <1>2, <1>4, <2>2, <3>1 DEF Spans
  <2> QED BY <1>3, <1>5, <2>2, <2>3
<1>9. u.visit[b] < u.visit[c]
  BY <1>5
<1>10. TreeEdge(u, b, c)
  BY SMTT(30), <1>6, <1>7, <1>8, <1>9 DEF TreeEdge
<1> QED BY <1>6, <1>10 DEF EdgeOK

\* The slot the walk takes next is a slot, and it has no label yet.
Takes(ou, ord, t, lab, b, k) ==
    /\ b \in Node /\ Seen(t, b) /\ ~Fin(t, b) /\ k \in Nat
    /\ Len(ou[b]) \in Nat /\ ou \in [Node -> Seq(Node)] /\ ord \in Seq(Node)
    /\ ~(k > Len(ou[b])) => /\ k \in 1..Len(ou[b]) /\ <<b, k>> \in SlotsOf(ou)
                            /\ ~Explored(t, <<b, k>>) /\ lab[b][k] = {}
                            /\ ou[b][k] \in Node /\ Holds(ord, ou[b][k])
    /\ k > Len(ou[b]) => t.stack[Len(t.stack)].edge = Len(ou[b])

\* The next edge of the top block, where there is one, is unexplored; otherwise all of them are explored.
LEMMA NextSlot ==
    ASSUME NEW ou, NEW inn, NEW ord, NEW st, NEW t, NEW lab,
           GraphOK(ou, inn, ord), PassOK(ou, inn, ord, st, t, lab), Len(t.stack) >= 1,
           NEW b, b = t.stack[Len(t.stack)].bl,
           NEW k, k = t.stack[Len(t.stack)].edge + 1
    PROVE  Takes(ou, ord, t, lab, b, k)
<1> DEFINE n == Len(t.stack)
           p == <<b, k>>
<1>0. t \in TreeRec /\ Numbers(ord, t) /\ StackOK(ou, t) /\ EdgesOK(ou, t, lab)
  BY DEF PassOK
<1>1. n \in Nat /\ \A i \in 1..n : t.stack[i].bl \in Node /\ t.stack[i].edge \in Nat
  BY <1>0, TreeTypes
<1>2. n \in 1..n
  BY <1>1
<1>3. b \in Node /\ t.stack[n].edge \in Nat
  BY <1>1, <1>2
<1>4. Seen(t, b) /\ ~Fin(t, b) /\ t.stack[n].edge <= Len(ou[b])
  BY <1>0, <1>2 DEF StackOK
<1>5. ou \in [Node -> Seq(Node)] /\ ord \in Seq(Node) /\ \A x \in Node : Len(ou[x]) <= MaxOut
  BY DEF GraphOK
<1>6. Len(ou[b]) \in Nat /\ Len(ou[b]) <= MaxOut
  BY <1>3, <1>5, LenProperties
<1>7. k \in Nat /\ k >= 1 /\ (k > Len(ou[b]) => t.stack[n].edge = Len(ou[b]))
  BY SMTT(30), <1>3, <1>4, <1>6
<1>8. ASSUME ~(k > Len(ou[b]))
      PROVE  k \in 1..Len(ou[b]) /\ p \in SlotsOf(ou) /\ p \in Node \X (1..MaxOut)
  <2> HIDE DEF p
  <2>1. k \in 1..Len(ou[b]) /\ k \in 1..MaxOut /\ k <= Len(ou[b])
    BY SMTT(30), <1>6, <1>7, <1>8, SpanningTreeAssumption
  <2>2. p \in Node \X (1..MaxOut) /\ p[1] = b /\ p[2] = k
    BY SMTT(30), <1>3, <2>1 DEF p
  <2> QED BY <2>1, <2>2 DEF SlotsOf
<1>9. ASSUME ~(k > Len(ou[b])) PROVE ou[b][k] \in Node /\ Holds(ord, ou[b][k])
  <2>1. Dest(ou, p) \in Node /\ Holds(ord, Dest(ou, p))
    BY <1>8, <1>9, SlotType
  <2>2. Dest(ou, p) = ou[b][k]
    BY SMTT(30) DEF Dest
  <2> QED BY <2>1, <2>2
<1>10. ASSUME ~(k > Len(ou[b])) PROVE ~Explored(t, p) /\ lab[b][k] = {}
  <2>1. ASSUME NEW i \in 1..n, t.stack[i].bl = b, k <= t.stack[i].edge PROVE FALSE
    <3>1. ~(i < n)
      <4> SUFFICES ASSUME i < n PROVE FALSE
        OBVIOUS
      <4>1. t.visit[t.stack[i].bl] < t.visit[t.stack[n].bl]
        BY <1>0, <1>2 DEF StackOK
      <4>2. t.visit[b] \in Int
        BY <1>0, <1>3, TreeTypes
      <4> QED BY <2>1, <4>1, <4>2
    <3>2. i = n
      BY <1>1, <3>1
    <3> QED BY <1>3, <1>7, <2>1, <3>2
  <2>2. ~Explored(t, p)
    BY SMTT(30), <1>4, <2>1 DEF Explored
  <2>3. lab[p[1]][p[2]] = {}
    BY <1>0, <1>8, <1>10, <2>2 DEF EdgesOK
  <2> QED BY <2>2, <2>3
<1> QED BY SMTT(60), <1>3, <1>4, <1>5, <1>1, <1>7, <1>8, <1>9, <1>10 DEF Takes

\* A child that was not seen is visited along a tree edge.
LEMMA ChildKeeps ==
    ASSUME NEW ou, NEW inn, NEW ord, NEW st, NEW t, NEW lab,
           GraphOK(ou, inn, ord), PassOK(ou, inn, ord, st, t, lab), Len(t.stack) >= 1,
           NEW b, t.stack[Len(t.stack)].bl = b, NEW k, Takes(ou, ord, t, lab, b, k), ~(k > Len(ou[b])),
           NEW c, c = ou[b][k], NEW u, Grown(ord, t, u, c), Moved(t, u, b, k), SameRoots(t, u),
           NEW lab2, Relabelled(ou, lab, lab2, b, k, {"tree"})
    PROVE  PassOK(ou, inn, ord, st, u, lab2)
<1>0. /\ t \in TreeRec /\ Numbers(ord, t) /\ StackOK(ou, t) /\ Spans(t)
      /\ LabelType(ou, lab) /\ EdgesOK(ou, t, lab)
      /\ RootsOK(ou, ord, t, lab) /\ LiveOK(ou, t) /\ RootList(ou, inn, ord, st, t)
  BY DEF PassOK
<1>1. /\ b \in Node /\ Seen(t, b) /\ k \in Nat /\ k \in 1..Len(ou[b]) /\ <<b, k>> \in SlotsOf(ou)
      /\ lab[b][k] = {} /\ c \in Node /\ Holds(ord, c)
      /\ ou \in [Node -> Seq(Node)] /\ ord \in Seq(Node) /\ Len(ou[b]) \in Nat
  BY DEF Takes
<1>2. Grown(ord, t, u, c) /\ Moved(t, u, b, k) /\ SameRoots(t, u)
  OBVIOUS
<1> DEFINE p == <<b, k>>
<1>4. Relabelled(ou, lab, lab2, b, k, {"tree"})
  OBVIOUS
<1>5. p \in SlotsOf(ou) /\ p[1] = b /\ p[2] = k /\ Dest(ou, p) = c
  BY <1>1 DEF Dest
<1> HIDE DEF p
<1>7. u \in TreeRec /\ Len(t.stack) \in Nat /\ Len(u.stack) \in Nat
  <2>1. u \in TreeRec
    BY <1>2 DEF Moved
  <2> QED BY <1>0, <2>1, TreeTypes
<1>8. Numbers(ord, u)
  BY <1>0, <1>2, <1>1, GrownNumbers
<1>9. Spans(u)
  BY <1>0, <1>2, GrownSpans
<1>10. StackOK(ou, u)
  <2>1. \A i \in 1..Len(u.stack) : u.stack[i].edge <= Len(ou[u.stack[i].bl])
    <3> SUFFICES ASSUME NEW i \in 1..Len(u.stack) PROVE u.stack[i].edge <= Len(ou[u.stack[i].bl])
      OBVIOUS
    <3>1. CASE i > Len(t.stack)
      <4>1. u.stack[i].edge = 0
        BY <1>2, <3>1 DEF Moved
      <4>2. u.stack[i].bl \in Node
        BY <1>7, TreeTypes
      <4>3. Len(ou[u.stack[i].bl]) \in Nat
        BY <1>1, <4>2, LenProperties
      <4> QED BY <4>1, <4>3
    <3>2. CASE ~(i > Len(t.stack))
      <4>1. i \in 1..Len(t.stack)
        BY <1>7, <3>2
      <4>2. u.stack[i].bl = t.stack[i].bl /\ u.stack[i].edge = IF i = Len(t.stack) THEN k ELSE t.stack[i].edge
        BY <1>2, <4>1 DEF Moved
      <4>3. t.stack[i].edge <= Len(ou[t.stack[i].bl])
        BY <1>0, <4>1 DEF StackOK
      <4>4. k <= Len(ou[b])
        BY <1>1
      <4> QED BY <4>2, <4>3, <4>4
    <3> QED BY <3>1, <3>2
  <2> QED BY <1>0, <1>1, <1>2, <2>1, GrownStack
<1>11. EdgesOK(ou, u, lab2)
  <2>1. EdgeOK(u, b, ou[b][k], {"tree"})
    BY <1>0, <1>2, ChildTree
  <2>2. ASSUME NEW q \in SlotsOf(ou), NEW l, Explored(t, q), EdgeOK(t, q[1], Dest(ou, q), l)
        PROVE  EdgeOK(u, q[1], Dest(ou, q), l)
    <3>1. Seen(t, q[1]) /\ q[1] \in Node /\ Dest(ou, q) \in Node
      BY <2>2, SlotType DEF Explored
    <3> QED BY <1>0, <1>2, <2>2, <3>1, GrownEdge
  <2> QED BY <1>0, <1>2, <1>4, <2>1, <2>2, MovedEdges
<1>12. \A q \in SlotsOf(ou) : Explored(u, q) <=> Explored(t, q) \/ q = p
  <2>1. \A q \in SlotsOf(ou) : q \in Node \X (1..MaxOut)
    BY DEF SlotsOf
  <2>2. \A q \in SlotsOf(ou) : Explored(u, q) <=> Explored(t, q) \/ q = <<b, k>>
    BY <1>0, <1>2, <2>1, MovedExplored
  <2> QED BY <2>2 DEF p
<1>13. RootsOK(ou, ord, u, lab2)
  <2>1. Explored(u, p) /\ "tree" \in lab2[p[1]][p[2]]
    BY <1>4, <1>5, <1>12 DEF Relabelled, p
  <2>2. Seen(t, p[1]) /\ p[1] \in Node
    BY <1>1, <1>5
  <2>3. \A q \in SlotsOf(ou) : Explored(t, q) /\ "tree" \in lab[q[1]][q[2]]
                => Explored(u, q) /\ "tree" \in lab2[q[1]][q[2]]
    BY <1>4, <1>5, <1>12 DEF Relabelled, p
  <2>4. u.roots = t.roots /\ u.at = t.at
    BY <1>2 DEF SameRoots
  <2> QED BY <1>0, <1>2, <1>5, <2>1, <2>2, <2>3, <2>4, GrownRoots
<1>14. LiveOK(ou, u)
  <2>1. Shut(ou, Lives(ou))
    BY LivesShut
  <2>2. \E q \in SlotsOf(ou) : Dest(ou, q) = c /\ q[1] = t.stack[Len(t.stack)].bl
    BY <1>5
  <2> QED BY <1>0, <1>2, <2>1, <2>2, GrownLive
<1>15. RootList(ou, inn, ord, st, u)
  <2>1. Len(inn[c]) # 0
    <3>1. Holds(inn[c], p)
      BY <1>5 DEF GraphOK
    <3>2. inn[c] \in Seq(Node \X (1..MaxOut))
      BY <1>1 DEF GraphOK
    <3>3. Len(inn[c]) \in Nat
      BY <3>2, LenProperties
    <3>4. PICK i \in 1..Len(inn[c]) : inn[c][i] = p
      BY <3>1 DEF Holds
    <3> QED BY <3>3, <3>4
  <2>2. u.roots = t.roots /\ u.at = t.at /\ u.home = t.home /\ u.extra = t.extra /\ u.again = t.again
    BY SMTT(30), <1>2 DEF SameRoots
  <2> QED BY <1>0, <1>2, <2>1, <2>2, ChildRootList
<1> QED BY <1>4, <1>7, <1>8, <1>9, <1>10, <1>11, <1>13, <1>14, <1>15 DEF PassOK, Relabelled

\* Walking to a block not seen before keeps the pass right.
LEMMA ChildOK ==
    ASSUME NEW ou, NEW inn, NEW ord, NEW st, NEW t, NEW lab,
           GraphOK(ou, inn, ord), PassOK(ou, inn, ord, st, t, lab), Len(t.stack) >= 1,
           NEW b, b = t.stack[Len(t.stack)].bl,
           NEW k, k = t.stack[Len(t.stack)].edge + 1, ~(k > Len(ou[b])), ~Seen(t, ou[b][k]),
           NEW v, v = [t EXCEPT !.stack[Len(t.stack)].edge = k],
           NEW u, u = Visit(v, ou[b][k]),
           NEW lab2, lab2 = [lab EXCEPT ![b][k] = @ \cup {"tree"}]
    PROVE  PassOK(ou, inn, ord, st, u, lab2)
<1>1. Takes(ou, ord, t, lab, b, k)
  BY Zenon, NextSlot
<1>2. /\ b \in Node /\ k \in Nat /\ k \in 1..Len(ou[b]) /\ lab[b][k] = {}
      /\ ou[b][k] \in Node /\ Holds(ord, ou[b][k])
  BY Zenon, <1>1 DEF Takes
<1>3. t \in TreeRec /\ LabelType(ou, lab)
  BY Zenon DEF PassOK
<1>4. Grown(ord, t, u, ou[b][k]) /\ Moved(t, u, b, k) /\ SameRoots(t, u)
  BY Zenon, <1>2, <1>3, ChildMoved
<1>5. Relabelled(ou, lab, lab2, b, k, {"tree"})
  <2>1. {"tree"} \in SUBSET SpanLabel
    BY DEF SpanLabel
  <2> QED BY Zenon, <1>2, <1>3, <2>1, LabelFirst
<1> QED BY Zenon, <1>1, <1>4, <1>5, ChildKeeps

\* An edge to a block already seen only advances the edge counter.
LEMMA AdvancedMoved ==
    ASSUME NEW t \in TreeRec, NEW u, NEW k, Len(t.stack) >= 1, Advanced(t, u, k),
           t.stack[Len(t.stack)].edge + 1 = k
    PROVE  Moved(t, u, t.stack[Len(t.stack)].bl, k) /\ SameRoots(t, u)
<1>1. /\ u \in TreeRec /\ u.visit = t.visit /\ u.index = t.index /\ Len(u.stack) = Len(t.stack)
      /\ \A i \in 1..Len(t.stack) :
            /\ u.stack[i].bl = t.stack[i].bl
            /\ u.stack[i].edge = IF i = Len(t.stack) THEN k ELSE t.stack[i].edge
  BY DEF Advanced
<1>2. Len(t.stack) \in Nat
  BY TreeTypes
<1>3. \A x \in Node : (Seen(t, x) => Seen(u, x)) /\ (Fin(u, x) <=> Fin(t, x))
  BY <1>1 DEF Seen, Fin
<1>4. \A i \in 1..Len(u.stack) : ~(i > Len(t.stack))
  BY <1>1, <1>2
<1>5. Len(t.stack) <= Len(u.stack)
  BY <1>1, <1>2
<1>6. SameRoots(t, u)
  BY DEF Advanced, SameRoots
<1> QED BY <1>1, <1>3, <1>4, <1>5, <1>6 DEF Moved

\* Moving to the next out-edge changes nothing an edge label speaks of.
LEMMA AdvancedEdge ==
    ASSUME NEW t, NEW u, NEW k, Advanced(t, u, k), NEW x, NEW c, NEW l, EdgeOK(t, x, c, l)
    PROVE  EdgeOK(u, x, c, l)
<1>1. /\ u.visit = t.visit /\ u.desc = t.desc /\ u.index = t.index /\ Len(u.stack) = Len(t.stack)
      /\ \A i \in 1..Len(t.stack) : u.stack[i].bl = t.stack[i].bl
  BY DEF Advanced
<1>2. \A y : (Seen(u, y) <=> Seen(t, y)) /\ (Fin(u, y) <=> Fin(t, y))
  BY <1>1 DEF Seen, Fin
<1>3. ASSUME TreeEdge(t, x, c) PROVE TreeEdge(u, x, c)
  <2>1. ASSUME ~Fin(u, c), NEW i \in 1..Len(u.stack), u.stack[i].bl = c
        PROVE  i > 1 /\ u.stack[i - 1].bl = x
    <3>1. i \in 1..Len(t.stack) /\ t.stack[i].bl = c
      BY <1>1, <2>1
    <3>2. i > 1 /\ t.stack[i - 1].bl = x
      BY <1>2, <1>3, <2>1, <3>1 DEF TreeEdge
    <3>3. i - 1 \in 1..Len(t.stack)
      <4>1. CASE Len(t.stack) \in Int
        BY <3>1, <3>2, <4>1
      <4>2. CASE Len(t.stack) \notin Int
        BY <3>1, <3>2, <4>2
      <4> QED BY <4>1, <4>2
    <3> QED BY <1>1, <3>2, <3>3
  <2>2. \A y \in Node : Seen(u, y) /\ u.visit[x] < u.visit[y] /\ u.visit[y] < u.visit[c]
          => Fin(u, y) /\ u.visit[y] + u.desc[y] <= u.visit[c]
    BY <1>1, <1>2, <1>3 DEF TreeEdge
  <2> QED BY <1>1, <1>2, <1>3, <2>1, <2>2 DEF TreeEdge
<1>4. BackEdge(t, x, c) => BackEdge(u, x, c)
  BY <1>1, <1>2 DEF BackEdge
<1>5. SideEdge(t, x, c) => SideEdge(u, x, c)
  BY <1>1, <1>2 DEF SideEdge
<1> QED BY <1>2, <1>3, <1>4, <1>5 DEF EdgeOK

\* What is seen and unfinished is at or below the top of the stack.
LEMMA SeenLabelOK ==
    ASSUME NEW ord, NEW ou, NEW t \in TreeRec, Numbers(ord, t), StackOK(ou, t), Len(t.stack) >= 1,
           NEW b, b = t.stack[Len(t.stack)].bl, NEW c \in Node, Seen(t, c)
    PROVE  EdgeOK(t, b, c, SeenLabel(t, b, c)) /\ "tree" \notin SeenLabel(t, b, c)
<1> DEFINE n == Len(t.stack)
<1>1. /\ n \in Nat /\ n \in 1..n /\ \A x \in Node : t.visit[x] \in Int
      /\ \A i \in 1..n : t.stack[i].bl \in Node
  <2>1. n \in Nat /\ (\A x \in Node : t.visit[x] \in Int) /\ \A i \in 1..n : t.stack[i].bl \in Node
    BY TreeTypes
  <2> QED BY <2>1
<1>2. ~Fin(t, b) /\ b \in Node
  BY <1>1 DEF StackOK
<1>3. CASE ~Fin(t, c)
  <2>1. SeenLabel(t, b, c) = {"back", "loop"}
    BY <1>3 DEF SeenLabel, Fin
  <2>2. PICK i \in 1..n : t.stack[i].bl = c
    BY <1>3 DEF StackOK, Held
  <2>3. t.visit[c] <= t.visit[b]
    <3>1. CASE i = n
      BY <1>1, <1>2, <2>2, <3>1
    <3>2. CASE i # n
      <4>1. i < n
        BY <1>1, <3>2
      <4>2. t.visit[t.stack[i].bl] < t.visit[t.stack[n].bl]
        BY <1>1, <4>1 DEF StackOK
      <4> QED BY SMTT(30), <1>1, <1>2, <2>2, <4>2
    <3> QED BY <3>1, <3>2
  <2>4. BackEdge(t, b, c)
    BY <1>3, <2>3 DEF BackEdge
  <2>5. {"back", "loop"} # {"forward"} /\ {"back", "loop"} # {"cross"} /\ "tree" \notin {"back", "loop"}
    OBVIOUS
  <2> QED BY <2>1, <2>4, <2>5 DEF EdgeOK
<1>4. CASE Fin(t, c)
  <2>1. SeenLabel(t, b, c) \in {{"forward"}, {"cross"}}
    BY <1>4 DEF SeenLabel, Fin
  <2>2. SideEdge(t, b, c)
    BY <1>2, <1>4 DEF SideEdge
  <2>3. \A l \in {{"forward"}, {"cross"}} : "tree" \notin l /\ "back" \notin l
    OBVIOUS
  <2> QED BY <2>1, <2>2, <2>3 DEF EdgeOK
<1> QED BY <1>3, <1>4

\* The rest of the invariant does not see the counter.
LEMMA AdvancedKeeps ==
    ASSUME NEW ou, NEW inn, NEW ord, NEW st, NEW t, NEW lab,
           GraphOK(ou, inn, ord), PassOK(ou, inn, ord, st, t, lab), Len(t.stack) >= 1,
           NEW b, t.stack[Len(t.stack)].bl = b, NEW k, Takes(ou, ord, t, lab, b, k), ~(k > Len(ou[b])),
           t.stack[Len(t.stack)].edge + 1 = k,
           Seen(t, ou[b][k]), NEW u, Advanced(t, u, k),
           NEW lab2, Relabelled(ou, lab, lab2, b, k, SeenLabel(t, b, ou[b][k]))
    PROVE  PassOK(ou, inn, ord, st, u, lab2)
<1> DEFINE n == Len(t.stack)
           c == ou[b][k]
<1>0. /\ t \in TreeRec /\ Numbers(ord, t) /\ StackOK(ou, t) /\ Spans(t)
      /\ LabelType(ou, lab) /\ EdgesOK(ou, t, lab)
      /\ RootsOK(ou, ord, t, lab) /\ LiveOK(ou, t) /\ RootList(ou, inn, ord, st, t)
  BY DEF PassOK
<1>1. b \in Node /\ k \in Nat /\ k <= Len(ou[b]) /\ c \in Node /\ <<b, k>> \in SlotsOf(ou)
  <2>1. b \in Node /\ k \in Nat /\ Len(ou[b]) \in Nat /\ c \in Node /\ <<b, k>> \in SlotsOf(ou)
    BY DEF Takes
  <2> QED BY <2>1
<1>2. /\ u \in TreeRec
      /\ u.visit = t.visit /\ u.desc = t.desc /\ u.index = t.index /\ u.rpost = t.rpost
      /\ u.pre = t.pre /\ Len(u.stack) = n
      /\ \A i \in 1..n :
            u.stack[i].bl = t.stack[i].bl /\ u.stack[i].edge = IF i = n THEN k ELSE t.stack[i].edge
  BY DEF Advanced
<1>3. Moved(t, u, b, k) /\ SameRoots(t, u)
  BY <1>0, AdvancedMoved
<1>4. \A x : (Seen(u, x) <=> Seen(t, x)) /\ (Fin(u, x) <=> Fin(t, x))
  BY <1>2 DEF Seen, Fin
<1>5. Numbers(ord, u)
  BY Zenon, <1>0, <1>2, <1>4 DEF Numbers
<1>6. Spans(u)
  BY <1>0, <1>2, <1>4 DEF Spans
<1>7. StackOK(ou, u)
  <2>1. n \in Nat
    BY SMTT(30), <1>0, TreeTypes
  <2>2. \A i \in 1..n : Seen(u, u.stack[i].bl) /\ ~Fin(u, u.stack[i].bl) /\ u.stack[i].edge <= Len(ou[u.stack[i].bl])
    BY SMTT(30), <1>0, <1>1, <1>2, <1>4 DEF StackOK
  <2>3. \A x \in Node : Seen(u, x) /\ ~Fin(u, x) => Held(u, x)
    BY SMTT(30), <1>0, <1>2, <1>4 DEF StackOK, Held
  <2>4. \A i, j \in 1..n : i < j => u.visit[u.stack[i].bl] < u.visit[u.stack[j].bl]
    BY <1>0, <1>2 DEF StackOK
  <2>5. \A i \in 1..(n - 1) : u.visit[u.stack[i + 1].bl] = u.visit[u.stack[i].bl] + u.desc[u.stack[i].bl]
    <3> SUFFICES ASSUME NEW i \in 1..(n - 1)
                 PROVE  u.visit[u.stack[i + 1].bl] = u.visit[u.stack[i].bl] + u.desc[u.stack[i].bl]
      OBVIOUS
    <3>1. i \in 1..n /\ i + 1 \in 1..n
      BY <2>1
    <3>2. u.stack[i].bl = t.stack[i].bl /\ u.stack[i + 1].bl = t.stack[i + 1].bl
      BY <1>2, <3>1
    <3>3. t.visit[t.stack[i + 1].bl] = t.visit[t.stack[i].bl] + t.desc[t.stack[i].bl]
      BY <1>0 DEF StackOK
    <3> QED BY <1>2, <3>2, <3>3
  <2>6. u.visit[u.stack[n].bl] + u.desc[u.stack[n].bl] = Len(u.pre)
    <3>1. n \in 1..n
      BY <2>1
    <3>2. t.visit[t.stack[n].bl] + t.desc[t.stack[n].bl] = Len(t.pre)
      BY <1>0 DEF StackOK
    <3> QED BY SMTT(30), <1>2, <3>1, <3>2
  <2> QED BY <1>2, <2>2, <2>3, <2>4, <2>5, <2>6 DEF StackOK
<1>8. EdgesOK(ou, u, lab2)
  <2>1. EdgeOK(t, b, c, SeenLabel(t, b, c))
    BY <1>0, <1>1, SeenLabelOK
  <2>2. EdgeOK(u, b, c, SeenLabel(t, b, c))
    BY <2>1, AdvancedEdge
  <2>3. \A q \in SlotsOf(ou) : \A l : Explored(t, q) /\ EdgeOK(t, q[1], Dest(ou, q), l)
           => EdgeOK(u, q[1], Dest(ou, q), l)
    BY AdvancedEdge
  <2> HIDE DEF c
  <2> QED BY <1>0, <1>3, <2>2, <2>3, MovedEdges DEF c
<1>9. RootsOK(ou, ord, u, lab2)
  <2>1. ASSUME NEW q \in SlotsOf(ou), Explored(t, q), "tree" \in lab[q[1]][q[2]]
        PROVE  Explored(u, q) /\ "tree" \in lab2[q[1]][q[2]]
    <3>1. q \in Node \X (1..MaxOut)
      BY DEF SlotsOf
    <3>2. Explored(u, q) /\ q # <<b, k>>
      BY <1>0, <1>3, <2>1, <3>1, MovedExplored
    <3> QED BY <2>1, <3>2 DEF Relabelled
  <2>2. \A x \in Node : Seen(u, x) =>
          \/ \E i \in 1..u.at : u.roots[i] = x
          \/ \E q \in SlotsOf(ou) : Explored(u, q) /\ Dest(ou, q) = x /\ "tree" \in lab2[q[1]][q[2]]
    <3> SUFFICES ASSUME NEW x \in Node, Seen(u, x)
                 PROVE  \/ \E i \in 1..u.at : u.roots[i] = x
                        \/ \E q \in SlotsOf(ou) : Explored(u, q) /\ Dest(ou, q) = x /\ "tree" \in lab2[q[1]][q[2]]
      OBVIOUS
    <3>1. \/ \E i \in 1..t.at : t.roots[i] = x
          \/ \E q \in SlotsOf(ou) : Explored(t, q) /\ Dest(ou, q) = x /\ "tree" \in lab[q[1]][q[2]]
      BY <1>0, <1>4 DEF RootsOK
    <3> QED BY <1>3, <2>1, <3>1 DEF SameRoots
  <2>3. u.stack[1].bl = t.stack[1].bl
    <3>1. n \in Nat
      BY <1>0, TreeTypes
    <3>2. 1 \in 1..n
      BY <3>1
    <3> QED BY <1>2, <3>2
  <2>4. u.roots = t.roots /\ u.at = t.at
    BY <1>3 DEF SameRoots
  <2> QED BY SMTT(30), <1>0, <1>2, <1>4, <2>2, <2>3, <2>4 DEF RootsOK
<1>10. LiveOK(ou, u)
  BY <1>0, <1>2, <1>4 DEF LiveOK
<1>11. RootList(ou, inn, ord, st, u)
  <2>1. u.roots = t.roots /\ u.at = t.at /\ u.home = t.home /\ u.extra = t.extra /\ u.again = t.again
    BY SMTT(30), <1>3 DEF SameRoots
  <2> QED BY SMTT(30), <1>0, <1>4, <2>1 DEF RootList
<1> QED BY <1>2, <1>5, <1>6, <1>7, <1>8, <1>9, <1>10, <1>11 DEF PassOK, Relabelled

\* Walking over an edge to a block already seen keeps the pass right.
LEMMA SeenOK ==
    ASSUME NEW ou, NEW inn, NEW ord, NEW st, NEW t, NEW lab,
           GraphOK(ou, inn, ord), PassOK(ou, inn, ord, st, t, lab), Len(t.stack) >= 1,
           NEW b, b = t.stack[Len(t.stack)].bl,
           NEW k, k = t.stack[Len(t.stack)].edge + 1, ~(k > Len(ou[b])), Seen(t, ou[b][k]),
           NEW u, u = [t EXCEPT !.stack[Len(t.stack)].edge = k],
           NEW lab2, lab2 = [lab EXCEPT ![b][k] = @ \cup SeenLabel(t, b, ou[b][k])]
    PROVE  PassOK(ou, inn, ord, st, u, lab2)
<1>1. Takes(ou, ord, t, lab, b, k)
  BY Zenon, NextSlot
<1>2. b \in Node /\ k \in Nat /\ k \in 1..Len(ou[b]) /\ lab[b][k] = {}
  BY Zenon, <1>1 DEF Takes
<1>3. t \in TreeRec /\ LabelType(ou, lab)
  BY Zenon DEF PassOK
<1>4. Advanced(t, u, k)
  BY Zenon, <1>2, <1>3, AdvanceFacts
<1>5. Relabelled(ou, lab, lab2, b, k, SeenLabel(t, b, ou[b][k]))
  <2>1. SeenLabel(t, b, ou[b][k]) \in SUBSET SpanLabel
    BY DEF SpanLabel, SeenLabel
  <2> HIDE DEF SeenLabel
  <2> QED BY Zenon, <1>2, <1>3, <2>1, LabelFirst
<1> QED BY Zenon, <1>1, <1>4, <1>5, AdvancedKeeps

-----------------------------------------------------------------------------
(***************************************************************************)
(* Walk: the top block is finished                                          *)
(***************************************************************************)
\* No more blocks are visited than there are.
LEMMA PreBound ==
    ASSUME NEW ord \in Seq(Node), \A i, j \in 1..Len(ord) : ord[i] = ord[j] => i = j,
           NEW t \in TreeRec, Numbers(ord, t)
    PROVE  /\ Len(t.pre) <= Len(ord)
           /\ Len(t.pre) = Len(ord) => \A b \in Node : Holds(ord, b) => Seen(t, b)
           /\ (\A b \in Node : Holds(ord, b) => Seen(t, b)) => Len(t.pre) = Len(ord)
<1>1. /\ t.pre \in Seq(Node) /\ Len(t.pre) \in Nat
      /\ \A i \in 1..Len(t.pre) : t.pre[i] \in Node /\ t.visit[t.pre[i]] = i - 1
  <2>1. t.pre \in Seq(Node)
    BY DEF TreeRec
  <2>2. \A i \in 1..Len(t.pre) : t.visit[t.pre[i]] = i - 1
    BY DEF Numbers
  <2> QED BY <2>1, <2>2, TreeTypes
<1>2. \A i, j \in 1..Len(t.pre) : t.pre[i] = t.pre[j] => i = j
  <2> SUFFICES ASSUME NEW i \in 1..Len(t.pre), NEW j \in 1..Len(t.pre), t.pre[i] = t.pre[j] PROVE i = j
    OBVIOUS
  <2>1. i - 1 = j - 1
    BY <1>1
  <2> QED BY <1>1, <2>1
<1>3. \A i \in 1..Len(t.pre) : Seen(t, t.pre[i])
  BY <1>1 DEF Seen
<1>4. \A i \in 1..Len(t.pre) : \E j \in 1..Len(ord) : t.pre[i] = ord[j]
  <2> SUFFICES ASSUME NEW i \in 1..Len(t.pre) PROVE \E j \in 1..Len(ord) : t.pre[i] = ord[j]
    OBVIOUS
  <2>1. Holds(ord, t.pre[i])
    BY <1>1, <1>3 DEF Numbers
  <2> QED BY <2>1 DEF Holds
<1>5. /\ Len(t.pre) <= Len(ord)
      /\ Len(t.pre) = Len(ord) => \A j \in 1..Len(ord) : \E i \in 1..Len(t.pre) : t.pre[i] = ord[j]
      /\ (\A j \in 1..Len(ord) : \E i \in 1..Len(t.pre) : t.pre[i] = ord[j]) => Len(t.pre) = Len(ord)
  <2> DEFINE s == t.pre
  <2>1. /\ s \in Seq(Node) /\ \A i, j \in 1..Len(s) : s[i] = s[j] => i = j
        /\ \A i \in 1..Len(s) : \E j \in 1..Len(ord) : s[i] = ord[j]
    BY <1>1, <1>2, <1>4
  <2> HIDE DEF s
  <2>2. /\ Len(s) <= Len(ord)
        /\ Len(s) = Len(ord) => \A j \in 1..Len(ord) : \E i \in 1..Len(s) : s[i] = ord[j]
        /\ (\A j \in 1..Len(ord) : \E i \in 1..Len(s) : s[i] = ord[j]) => Len(s) = Len(ord)
    BY SMTT(30), <2>1, Pigeonhole
  <2> QED BY <2>2 DEF s
<1>6. ASSUME Len(t.pre) = Len(ord), NEW b \in Node, Holds(ord, b) PROVE Seen(t, b)
  BY SMTT(30), <1>3, <1>5, <1>6 DEF Holds
<1>7. ASSUME \A b \in Node : Holds(ord, b) => Seen(t, b) PROVE Len(t.pre) = Len(ord)
  <2>1. ASSUME NEW j \in 1..Len(ord) PROVE \E i \in 1..Len(t.pre) : t.pre[i] = ord[j]
    <3>1. ord[j] \in Node /\ Holds(ord, ord[j])
      BY ElementOfSeq DEF Holds
    <3>2. t.visit[ord[j]] \in 0..(Len(t.pre) - 1) /\ t.pre[t.visit[ord[j]] + 1] = ord[j]
      BY <1>7, <3>1 DEF Numbers
    <3>3. t.visit[ord[j]] + 1 \in 1..Len(t.pre)
      BY SMTT(30), <1>1, <3>2
    <3> QED BY <3>2, <3>3
  <2> QED BY <1>5, <2>1
<1> QED BY <1>5, <1>6, <1>7

\* What finishing the top block b changes
Finished(ord, t, u, b) ==
    /\ t \in TreeRec /\ u \in TreeRec /\ Len(t.stack) >= 1 /\ t.stack[Len(t.stack)].bl = b
    /\ u.visit = t.visit /\ u.pre = t.pre
    /\ u.index[b] = Len(ord) - Len(t.rpost) - 1
    /\ \A x \in Node : x # b => u.index[x] = t.index[x]
    /\ Len(u.rpost) = Len(t.rpost) + 1 /\ u.rpost[1] = b
    /\ \A i \in 1..Len(t.rpost) : u.rpost[i + 1] = t.rpost[i]
    /\ Len(u.stack) = Len(t.stack) - 1
    /\ \A i \in 1..(Len(t.stack) - 1) : u.stack[i] = t.stack[i]
    /\ \A x \in Node : u.desc[x] = IF Len(t.stack) > 1 /\ x = t.stack[Len(t.stack) - 1].bl
                                   THEN t.desc[x] + t.desc[b] ELSE t.desc[x]

\* What finishing the top block does to the tree
LEMMA FinishFacts ==
    ASSUME NEW t \in TreeRec, Len(t.stack) >= 1, NEW u, u = Finish(t), order \in Seq(Node),
           NEW b, b = t.stack[Len(t.stack)].bl
    PROVE  Finished(order, t, u, b) /\ SameRoots(t, u)
<1> DEFINE S == [bl : Node, edge : Nat]
           s == t.stack
           n == Len(s)
           below == Front(s)
           L == Len(order) - Len(t.rpost) - 1
           ix == [t.index EXCEPT ![b] = L]
           rp == <<b>> \o t.rpost
           p == Last(below).bl
           d == IF below = <<>> THEN t.desc ELSE [t.desc EXCEPT ![p] = t.desc[p] + t.desc[b]]
<1>1. /\ s \in Seq(S) /\ n \in Nat /\ n >= 1 /\ b \in Node /\ t.rpost \in Seq(Node)
      /\ Len(t.rpost) \in Nat /\ Len(order) \in Nat
      /\ t.index \in [Node -> Int] /\ t.desc \in [Node -> Nat]
  <2>1. s \in Seq(S) /\ t.rpost \in Seq(Node) /\ t.index \in [Node -> Int] /\ t.desc \in [Node -> Nat]
    BY DEF TreeRec
  <2>2. n \in Nat /\ Len(t.rpost) \in Nat /\ Len(order) \in Nat
    BY <2>1, LenProperties
  <2>3. n \in 1..n
    BY <2>2
  <2>4. b \in Node
    BY <2>3, TreeTypes
  <2> QED BY <2>1, <2>2, <2>4
<1>2. Last(s).bl = b
  BY DEF Last
<1>3. /\ below \in Seq(S) /\ Len(below) = n - 1 /\ \A i \in 1..(n - 1) : below[i] = s[i]
  <2> HIDE DEF S, s, n
  <2>1. below = SubSeq(s, 1, n - 1)
    BY DEF Front, n
  <2>2. n - 1 \in Nat /\ 1 \in 1..(n - 1 + 1) /\ n - 1 <= n
    BY <1>1
  <2>3. n - 1 \in 0..n
    BY <1>1
  <2>4. \A i \in 1..n : s[i] \in S
    BY <1>1, ElementOfSeq DEF n
  <2>5. SubSeq(s, 1, n - 1) = [i \in 1..(n - 1) |-> s[i]]
    BY <1>1, <2>2 DEF SubSeq
  <2>6. below = [i \in 1..(n - 1) |-> s[i]] /\ \A i \in 1..(n - 1) : s[i] \in S
    BY <1>1, <2>1, <2>4, <2>5
  <2>7. below \in [1..(n - 1) -> S]
    BY <2>6
  <2> HIDE DEF below
  <2>8. below \in Seq(S) /\ Len(below) = n - 1
    BY <2>2, <2>7, RebuildFacts
  <2> QED BY <2>6, <2>8
<1>4. rp \in Seq(Node) /\ Len(rp) = Len(t.rpost) + 1 /\ rp[1] = b
      /\ \A i \in 1..Len(t.rpost) : rp[i + 1] = t.rpost[i]
  <2> DEFINE r == t.rpost
  <2>1. r \in Seq(Node) /\ <<b>> \in Seq(Node) /\ Len(<<b>>) = 1 /\ <<b>>[1] = b /\ Len(r) \in Nat
    BY <1>1
  <2> HIDE DEF r
  <2>2. /\ <<b>> \o r \in Seq(Node) /\ Len(<<b>> \o r) = 1 + Len(r)
        /\ \A i \in 1..(1 + Len(r)) : (<<b>> \o r)[i] = IF i <= 1 THEN <<b>>[i] ELSE r[i - 1]
    BY <2>1, ConcatProperties
  <2>3. (<<b>> \o r)[1] = b
    BY <2>1, <2>2
  <2>4. \A i \in 1..Len(r) : i + 1 \in 1..(1 + Len(r)) /\ ~(i + 1 <= 1) /\ i + 1 - 1 = i
    BY <2>1
  <2>5. \A i \in 1..Len(r) : (<<b>> \o r)[i + 1] = r[i]
    BY <2>2, <2>4
  <2>6. Len(<<b>> \o r) = Len(r) + 1
    BY <2>1, <2>2
  <2> QED BY <2>2, <2>3, <2>5, <2>6 DEF r
<1>5. L \in Int /\ ix \in [Node -> Int] /\ ix[b] = L /\ \A x \in Node : x # b => ix[x] = t.index[x]
  BY SMTT(60), <1>1
<1> HIDE DEF L, rp, below, p
<1>6. below = <<>> <=> ~(n > 1)
  <2>1. below = <<>> <=> Len(below) = 0
    BY <1>3, EmptySeq
  <2> HIDE DEF n
  <2>2. Len(below) = 0 <=> ~(n > 1)
    BY SMTT(30), <1>1, <1>3
  <2> QED BY <2>1, <2>2
<1>7. n > 1 => p = s[n - 1].bl /\ p \in Node
  <2> SUFFICES ASSUME n > 1 PROVE p = s[n - 1].bl /\ p \in Node
    OBVIOUS
  <2>1. Last(below) = below[n - 1]
    BY <1>3 DEF Last
  <2>2. n - 1 \in 1..(n - 1) /\ n - 1 \in 1..n
    BY SMTT(30), <1>1
  <2>3. s[n - 1].bl \in Node
    BY <2>2, TreeTypes
  <2> QED BY <1>3, <2>1, <2>2, <2>3 DEF p
<1>8. /\ d \in [Node -> Nat]
      /\ \A x \in Node : d[x] = IF n > 1 /\ x = s[n - 1].bl THEN t.desc[x] + t.desc[b] ELSE t.desc[x]
  <2>1. CASE n > 1
    <3> HIDE DEF n, s
    <3>1. d = [t.desc EXCEPT ![p] = t.desc[p] + t.desc[b]] /\ p = s[n - 1].bl /\ p \in Node
      BY <1>6, <1>7, <2>1
    <3>2. t.desc[p] + t.desc[b] \in Nat
      <4>1. \A f \in [Node -> Nat] : \A x, y \in Node : f[x] + f[y] \in Nat
        OBVIOUS
      <4>2. t.desc \in [Node -> Nat] /\ p \in Node /\ b \in Node
        BY <1>1, <3>1
      <4> QED BY <4>1, <4>2
    <3> HIDE DEF d
    <3> QED BY <1>1, <2>1, <3>1, <3>2
  <2>2. CASE ~(n > 1)
    BY <1>1, <1>6, <2>2
  <2> QED BY SMTT(30), <2>1, <2>2
<1>9. u = [t EXCEPT !.stack = below, !.index = ix, !.rpost = rp, !.desc = d]
  <2>1. u = [t EXCEPT !.stack = below, !.index[b] = Len(order) - Len(t.rpost) - 1, !.rpost = <<b>> \o @,
                      !.desc = IF below = <<>> THEN t.desc ELSE [t.desc EXCEPT ![p] = @ + t.desc[b]]]
    BY <1>2 DEF Finish, below, p
  <2> HIDE DEF n, s
  <2>2. t = [visit |-> t.visit, index |-> t.index, desc |-> t.desc, pre |-> t.pre, rpost |-> t.rpost,
             stack |-> t.stack, roots |-> t.roots, at |-> t.at, home |-> t.home, extra |-> t.extra,
             again |-> t.again]
    BY DEF TreeRec
  <2>3. CASE below = <<>>
    <3>1. d = t.desc
      BY <2>3
    <3> HIDE DEF d
    <3> QED BY <2>1, <2>2, <2>3, <3>1 DEF L, rp
  <2>4. CASE below # <<>>
    <3>1. d = [t.desc EXCEPT ![p] = @ + t.desc[b]]
      BY <2>4
    <3>2. (IF below = <<>> THEN t.desc ELSE [t.desc EXCEPT ![p] = @ + t.desc[b]]) = d
      BY SMTT(30), <2>4, <3>1
    <3>3. u = [t EXCEPT !.stack = below, !.index[b] = Len(order) - Len(t.rpost) - 1, !.rpost = <<b>> \o @,
                        !.desc = IF below = <<>> THEN t.desc ELSE [t.desc EXCEPT ![p] = @ + t.desc[b]]]
      BY SMTT(30), <2>1
    <3> HIDE DEF d
    <3>4. u = [t EXCEPT !.stack = below, !.index[b] = Len(order) - Len(t.rpost) - 1, !.rpost = <<b>> \o @,
                        !.desc = d]
      BY <3>2, <3>3
    <3> QED BY <2>2, <3>4 DEF L, rp
  <2> QED BY <2>3, <2>4
<1> HIDE DEF ix, d
<1>10. /\ u \in TreeRec /\ u.stack = below /\ u.index = ix /\ u.rpost = rp /\ u.desc = d
       /\ u.visit = t.visit /\ u.pre = t.pre
       /\ u.roots = t.roots /\ u.at = t.at /\ u.home = t.home /\ u.extra = t.extra /\ u.again = t.again
  BY ZenonT(60), <1>3, <1>4, <1>5, <1>8, <1>9 DEF TreeRec
<1>11. SameRoots(t, u)
  BY <1>10 DEF SameRoots
<1>12. Finished(order, t, u, b)
  BY <1>1, <1>3, <1>4, <1>5, <1>8, <1>10 DEF Finished, L
<1> QED BY <1>11, <1>12

\* What is below the top, its parent, and the numbers they have
LEMMA FinishedBasics ==
    ASSUME NEW ord \in Seq(Node), NEW ou, NEW t, NEW u, NEW b, Finished(ord, t, u, b),
           Numbers(ord, t), StackOK(ou, t), Len(t.pre) <= Len(ord)
    PROVE  /\ Len(t.stack) \in Nat /\ Len(t.stack) \in 1..Len(t.stack) /\ b \in Node
           /\ Len(t.rpost) \in Nat /\ Len(ord) \in Nat /\ Len(t.rpost) < Len(ord)
           /\ Seen(t, b) /\ ~Fin(t, b)
           /\ \A x : Seen(u, x) <=> Seen(t, x)
           /\ \A x \in Node : Fin(u, x) <=> Fin(t, x) \/ x = b
           /\ \A i \in 1..Len(t.stack) : t.stack[i].bl = b => i = Len(t.stack)
<1>0. /\ t \in TreeRec /\ u \in TreeRec /\ Len(t.stack) >= 1 /\ t.stack[Len(t.stack)].bl = b
      /\ u.visit = t.visit /\ u.index[b] = Len(ord) - Len(t.rpost) - 1
      /\ \A x \in Node : x # b => u.index[x] = t.index[x]
  BY DEF Finished
<1>1. /\ Len(t.stack) \in Nat /\ Len(t.rpost) \in Nat /\ Len(t.pre) \in Nat /\ Len(ord) \in Nat
      /\ \A x \in Node : t.visit[x] \in Int
      /\ \A i \in 1..Len(t.stack) : t.stack[i].bl \in Node
  BY <1>0, TreeTypes, LenProperties
<1>2. Len(t.stack) \in 1..Len(t.stack)
  BY <1>0, <1>1
<1>3. b \in Node /\ Seen(t, b) /\ ~Fin(t, b)
  BY <1>0, <1>1, <1>2 DEF StackOK
<1>4. Len(t.rpost) < Len(ord)
  <2>1. Len(t.pre) = Len(t.rpost) + Len(t.stack)
    BY DEF Numbers
  <2>2. \A l, m, n, o \in Nat : l = m + n /\ l <= o /\ n >= 1 => m < o
    OBVIOUS
  <2> QED BY <1>0, <1>1, <2>1, <2>2
<1>5. \A x : Seen(u, x) <=> Seen(t, x)
  BY <1>0 DEF Seen
<1>6. \A x \in Node : Fin(u, x) <=> Fin(t, x) \/ x = b
  <2>1. u.index[b] # -1
    BY <1>0, <1>1, <1>4
  <2> QED BY <1>0, <2>1 DEF Fin
<1>7. \A i \in 1..Len(t.stack) : t.stack[i].bl = b => i = Len(t.stack)
  <2> SUFFICES ASSUME NEW i \in 1..Len(t.stack), t.stack[i].bl = b, i # Len(t.stack) PROVE FALSE
    OBVIOUS
  <2>1. i < Len(t.stack)
    BY <1>1
  <2>2. t.visit[t.stack[i].bl] < t.visit[t.stack[Len(t.stack)].bl]
    BY <1>2, <2>1 DEF StackOK
  <2> QED BY <1>0, <1>1, <1>3, <2>2
<1> QED BY <1>1, <1>2, <1>3, <1>4, <1>5, <1>6, <1>7

\* Finishing a block keeps the numberings,
LEMMA FinishedNumbers ==
    ASSUME NEW ord \in Seq(Node), NEW ou, NEW t, NEW u, NEW b, Finished(ord, t, u, b),
           Numbers(ord, t), StackOK(ou, t), Len(t.pre) <= Len(ord)
    PROVE  Numbers(ord, u)
<1> DEFINE L == Len(ord)
           R == Len(t.rpost)
<1>0. /\ t \in TreeRec /\ u.visit = t.visit /\ u.pre = t.pre
      /\ u.index[b] = L - R - 1 /\ \A x \in Node : x # b => u.index[x] = t.index[x]
      /\ Len(u.rpost) = R + 1 /\ u.rpost[1] = b /\ \A i \in 1..R : u.rpost[i + 1] = t.rpost[i]
      /\ Len(u.stack) = Len(t.stack) - 1
  BY DEF Finished
<1>1. /\ L \in Nat /\ R \in Nat /\ R < L /\ b \in Node /\ ~Fin(t, b) /\ Seen(t, b)
      /\ \A x : Seen(u, x) <=> Seen(t, x)
      /\ \A x \in Node : Fin(u, x) <=> Fin(t, x) \/ x = b
  BY FinishedBasics
<1>2. /\ \A x \in Node : t.index[x] \in Int
      /\ \A i \in 1..R : t.rpost[i] \in Node
      /\ Len(t.stack) \in Nat /\ Len(t.pre) \in Nat
  BY <1>0, TreeTypes
<1>3. /\ \A x \in Node : Fin(t, x) =>
            Seen(t, x) /\ t.index[x] \in (L - R)..(L - 1) /\ t.rpost[t.index[x] - L + R + 1] = x
      /\ \A i \in 1..R : t.index[t.rpost[i]] = L - R + i - 1
      /\ Len(t.pre) = R + Len(t.stack)
  BY DEF Numbers
<1> HIDE DEF L, R
<1>4. ASSUME NEW x \in Node, Fin(u, x)
      PROVE  /\ Seen(u, x) /\ u.index[x] \in (L - (R + 1))..(L - 1)
             /\ u.rpost[u.index[x] - L + (R + 1) + 1] = x
  <2>1. CASE x = b
    <3>1. L - R - 1 - L + (R + 1) + 1 = 1 /\ L - R - 1 \in (L - (R + 1))..(L - 1)
      BY <1>1
    <3> QED BY SMTT(30), <1>0, <1>1, <2>1, <3>1
  <2>2. CASE x # b
    <3>1. Fin(t, x) /\ u.index[x] = t.index[x]
      BY <1>0, <1>1, <1>4, <2>2
    <3>2. Seen(t, x) /\ t.index[x] \in (L - R)..(L - 1) /\ t.rpost[t.index[x] - L + R + 1] = x
      BY <1>3, <3>1
    <3> DEFINE i == t.index[x] - L + R + 1
    <3>3. i \in 1..R /\ t.index[x] - L + (R + 1) + 1 = i + 1 /\ t.index[x] \in (L - (R + 1))..(L - 1)
      <4>1. \A l, r \in Nat : \A j \in Int : j \in (l - r)..(l - 1) =>
               /\ j - l + r + 1 \in 1..r /\ j - l + (r + 1) + 1 = (j - l + r + 1) + 1
               /\ j \in (l - (r + 1))..(l - 1)
        OBVIOUS
      <4>2. t.index[x] \in Int /\ L \in Nat /\ R \in Nat /\ t.index[x] \in (L - R)..(L - 1)
        BY <1>1, <1>2, <3>2
      <4> QED BY <4>1, <4>2
    <3> HIDE DEF i
    <3>4. u.rpost[i + 1] = x
      BY <1>0, <3>2, <3>3 DEF i
    <3> QED BY <1>1, <3>1, <3>2, <3>3, <3>4
  <2> QED BY <2>1, <2>2
<1>5. ASSUME NEW i \in 1..(R + 1) PROVE u.index[u.rpost[i]] = L - (R + 1) + i - 1
  <2>1. CASE i = 1
    BY <1>0, <1>1, <2>1
  <2>2. CASE i # 1
    <3>1. i - 1 \in 1..R /\ i - 1 + 1 = i
      BY <1>1, <2>2
    <3>2. u.rpost[i] = t.rpost[i - 1] /\ t.index[t.rpost[i - 1]] = L - R + (i - 1) - 1 /\ t.rpost[i - 1] \in Node
      BY <1>0, <1>2, <1>3, <3>1
    <3>3. t.index[t.rpost[i - 1]] # -1
      BY <1>1, <3>1, <3>2
    <3>4. t.rpost[i - 1] # b
      BY <1>1, <3>3 DEF Fin
    <3>5. L - R + (i - 1) - 1 = L - (R + 1) + i - 1
      BY <1>1
    <3> QED BY <1>0, <3>2, <3>4, <3>5
  <2> QED BY <2>1, <2>2
<1>6. Len(t.pre) = (R + 1) + (Len(t.stack) - 1)
  <2>1. \A l, r, n \in Nat : l = r + n => l = (r + 1) + (n - 1)
    OBVIOUS
  <2>2. Len(t.pre) = R + Len(t.stack)
    BY <1>3
  <2> QED BY Zenon, <1>1, <1>2, <2>1, <2>2
<1>7. \A x \in Node : Seen(u, x) =>
          u.visit[x] \in 0..(Len(u.pre) - 1) /\ u.pre[u.visit[x] + 1] = x /\ Holds(ord, x)
  BY <1>0, <1>1 DEF Numbers
<1>8. \A i \in 1..Len(u.pre) : u.visit[u.pre[i]] = i - 1
  BY <1>0 DEF Numbers
<1> QED BY <1>0, <1>4, <1>5, <1>6, <1>7, <1>8 DEF Numbers, L

\* and the stack.
LEMMA FinishedStack ==
    ASSUME NEW ord \in Seq(Node), NEW ou, NEW t, NEW u, NEW b, Finished(ord, t, u, b),
           Numbers(ord, t), StackOK(ou, t), Len(t.pre) <= Len(ord)
    PROVE  StackOK(ou, u)
<1> DEFINE n == Len(t.stack)
<1>0. /\ t \in TreeRec /\ u.visit = t.visit /\ u.pre = t.pre
      /\ Len(u.stack) = n - 1 /\ \A i \in 1..(n - 1) : u.stack[i] = t.stack[i]
      /\ \A x \in Node : u.desc[x] = IF n > 1 /\ x = t.stack[n - 1].bl THEN t.desc[x] + t.desc[b] ELSE t.desc[x]
      /\ t.stack[n].bl = b
  BY DEF Finished
<1>1. /\ n \in Nat /\ n \in 1..n /\ b \in Node
      /\ \A x : Seen(u, x) <=> Seen(t, x)
      /\ \A x \in Node : Fin(u, x) <=> Fin(t, x) \/ x = b
      /\ \A i \in 1..n : t.stack[i].bl = b => i = n
  BY FinishedBasics
<1>2. /\ \A x \in Node : t.visit[x] \in Int /\ t.desc[x] \in Nat
      /\ \A i \in 1..n : t.stack[i].bl \in Node
      /\ Len(t.pre) \in Nat
  BY <1>0, TreeTypes
<1>3. /\ \A i \in 1..n : /\ Seen(t, t.stack[i].bl) /\ ~Fin(t, t.stack[i].bl)
                         /\ t.stack[i].edge <= Len(ou[t.stack[i].bl])
      /\ \A x \in Node : Seen(t, x) /\ ~Fin(t, x) => Held(t, x)
      /\ \A i, j \in 1..n : i < j => t.visit[t.stack[i].bl] < t.visit[t.stack[j].bl]
      /\ \A i \in 1..(n - 1) :
            t.visit[t.stack[i + 1].bl] = t.visit[t.stack[i].bl] + t.desc[t.stack[i].bl]
      /\ t.visit[b] + t.desc[b] = Len(t.pre)
  BY <1>0, <1>1 DEF StackOK
<1> HIDE DEF n
<1>4. \A i \in 1..(n - 1) : i \in 1..n /\ u.stack[i] = t.stack[i] /\ t.stack[i].bl # b
  <2> SUFFICES ASSUME NEW i \in 1..(n - 1) PROVE i \in 1..n /\ t.stack[i].bl # b
    BY <1>0
  <2>1. i \in 1..n /\ i # n
    BY <1>1
  <2> QED BY <1>1, <2>1
<1>5. \A i \in 1..(n - 1) : /\ Seen(u, u.stack[i].bl) /\ ~Fin(u, u.stack[i].bl)
                            /\ u.stack[i].edge <= Len(ou[u.stack[i].bl])
  BY <1>1, <1>2, <1>3, <1>4
<1>6. ASSUME NEW x \in Node, Seen(u, x), ~Fin(u, x) PROVE Held(u, x)
  <2>1. Held(t, x) /\ x # b
    BY <1>1, <1>3, <1>6
  <2>2. PICK i \in 1..n : t.stack[i].bl = x
    BY <2>1 DEF Held, n
  <2>3. i # n
    BY <1>0, <2>1, <2>2
  <2>4. i \in 1..(n - 1)
    BY <1>1, <2>3
  <2>5. i \in 1..Len(u.stack) /\ u.stack[i].bl = x
    BY <1>0, <1>4, <2>2, <2>4
  <2> QED BY <2>5 DEF Held
<1>7. \A i, j \in 1..(n - 1) : i < j => u.visit[u.stack[i].bl] < u.visit[u.stack[j].bl]
  BY <1>0, <1>3, <1>4
<1>8. ASSUME NEW i \in 1..(n - 1 - 1)
      PROVE  u.visit[u.stack[i + 1].bl] = u.visit[u.stack[i].bl] + u.desc[u.stack[i].bl]
  <2>1. i \in 1..(n - 1) /\ i + 1 \in 1..(n - 1) /\ n - 1 \in 1..n /\ i < n - 1 /\ i \in 1..n
    BY <1>1
  <2>2. t.visit[t.stack[i].bl] < t.visit[t.stack[n - 1].bl]
    BY <1>3, <2>1
  <2>3. t.stack[i].bl # t.stack[n - 1].bl
    BY SMTT(30), <1>2, <2>1, <2>2
  <2>4. u.desc[t.stack[i].bl] = t.desc[t.stack[i].bl]
    BY <1>0, <1>2, <2>1, <2>3
  <2>5. t.visit[t.stack[i + 1].bl] = t.visit[t.stack[i].bl] + t.desc[t.stack[i].bl]
    BY <1>3, <2>1
  <2>6. u.stack[i] = t.stack[i] /\ u.stack[i + 1] = t.stack[i + 1]
    BY <1>4, <2>1
  <2> QED BY <1>0, <2>4, <2>5, <2>6
<1>9. ASSUME n - 1 >= 1
      PROVE  u.visit[u.stack[n - 1].bl] + u.desc[u.stack[n - 1].bl] = Len(u.pre)
  <2>1. n - 1 \in 1..(n - 1) /\ n - 1 + 1 = n /\ n > 1 /\ n - 1 \in 1..n
    BY <1>1, <1>9
  <2> DEFINE p == t.stack[n - 1].bl
  <2>2. p \in Node /\ u.stack[n - 1] = t.stack[n - 1]
    BY <1>2, <1>4, <2>1
  <2>3. u.desc[p] = t.desc[p] + t.desc[b]
    BY <1>0, <2>1, <2>2
  <2>4. t.visit[t.stack[n - 1 + 1].bl] = t.visit[p] + t.desc[p]
    BY <1>3, <2>1
  <2>5. t.visit[b] = t.visit[p] + t.desc[p]
    BY <1>0, <2>1, <2>4
  <2> HIDE DEF p
  <2>6. t.visit[p] + u.desc[p] = Len(t.pre)
    BY SMTT(30), <1>1, <1>2, <1>3, <2>2, <2>3, <2>5
  <2> QED BY <1>0, <2>2, <2>6 DEF p
<1> QED BY <1>0, <1>5, <1>6, <1>7, <1>8, <1>9 DEF StackOK

\* The block below grows by the one that is finished.
LEMMA FinishedSpans ==
    ASSUME NEW ord \in Seq(Node), NEW ou, NEW t, NEW u, NEW b, Finished(ord, t, u, b),
           Numbers(ord, t), StackOK(ou, t), Spans(t), Len(t.pre) <= Len(ord)
    PROVE  Spans(u)
<1> DEFINE n == Len(t.stack)
           p == t.stack[n - 1].bl
<1>0. /\ t \in TreeRec /\ u.visit = t.visit /\ u.pre = t.pre /\ t.stack[n].bl = b
      /\ \A x \in Node : u.desc[x] = IF n > 1 /\ x = p THEN t.desc[x] + t.desc[b] ELSE t.desc[x]
  BY DEF Finished
<1>1. /\ n \in Nat /\ n \in 1..n /\ b \in Node /\ Seen(t, b)
      /\ \A x : Seen(u, x) <=> Seen(t, x)
      /\ \A x \in Node : Fin(u, x) <=> Fin(t, x) \/ x = b
      /\ \A i \in 1..n : t.stack[i].bl = b => i = n
  BY FinishedBasics
<1>2. /\ \A x \in Node : t.visit[x] \in Int /\ t.desc[x] \in Nat
      /\ \A i \in 1..n : t.stack[i].bl \in Node
      /\ Len(t.pre) \in Nat
  BY <1>0, TreeTypes
<1>3. t.visit[b] + t.desc[b] = Len(t.pre)
  BY <1>0, <1>1 DEF StackOK
<1>4. n > 1 => /\ p \in Node /\ p # b /\ Seen(t, p) /\ ~Fin(t, p)
               /\ t.visit[b] = t.visit[p] + t.desc[p]
  <2> SUFFICES ASSUME n > 1 PROVE /\ p \in Node /\ p # b /\ Seen(t, p) /\ ~Fin(t, p)
                                  /\ t.visit[b] = t.visit[p] + t.desc[p]
    OBVIOUS
  <2>1. n - 1 \in 1..n /\ n - 1 # n /\ n - 1 \in 1..(n - 1) /\ n - 1 + 1 = n
    BY <1>1
  <2>2. p \in Node /\ p # b /\ Seen(t, p) /\ ~Fin(t, p)
    BY <1>1, <1>2, <2>1 DEF StackOK
  <2>3. t.visit[t.stack[n - 1 + 1].bl] = t.visit[p] + t.desc[p]
    BY <2>1 DEF StackOK
  <2> QED BY <1>0, <2>1, <2>2, <2>3
<1>5. /\ \A x \in Node : Seen(t, x) => t.desc[x] >= 1 /\ t.visit[x] + t.desc[x] <= Len(t.pre)
      /\ \A x, c \in Node : Seen(t, x) /\ Seen(t, c) /\ t.visit[x] < t.visit[c] /\ t.visit[c] < t.visit[x] + t.desc[x]
            => Fin(t, c) /\ t.visit[c] + t.desc[c] <= t.visit[x] + t.desc[x]
  BY DEF Spans
<1>6. \A x \in Node : ~(n > 1 /\ x = p) => u.desc[x] = t.desc[x]
  BY <1>0
<1> HIDE DEF n, p
<1>7. n > 1 => u.desc[p] = t.desc[p] + t.desc[b] /\ t.visit[p] + u.desc[p] = Len(t.pre)
  BY <1>0, <1>1, <1>2, <1>3, <1>4
<1>8. ASSUME NEW x \in Node, Seen(u, x) PROVE u.desc[x] >= 1 /\ u.visit[x] + u.desc[x] <= Len(u.pre)
  <2>1. t.desc[x] >= 1 /\ t.visit[x] + t.desc[x] <= Len(t.pre)
    BY <1>1, <1>5, <1>8
  <2>2. CASE n > 1 /\ x = p
    <3>1. u.desc[x] = t.desc[x] + t.desc[b] /\ t.visit[x] + u.desc[x] = Len(t.pre)
      BY <1>7, <2>2
    <3> QED BY SMTT(30), <1>0, <1>1, <1>2, <2>1, <3>1
  <2>3. CASE ~(n > 1 /\ x = p)
    BY <1>0, <1>6, <2>1, <2>3
  <2> QED BY <2>2, <2>3
<1>9. ASSUME NEW x \in Node, NEW c \in Node, Seen(u, x), Seen(u, c),
             u.visit[x] < u.visit[c], u.visit[c] < u.visit[x] + u.desc[x]
      PROVE  Fin(u, c) /\ u.visit[c] + u.desc[c] <= u.visit[x] + u.desc[x]
  <2>1. Seen(t, x) /\ Seen(t, c) /\ t.visit[x] < t.visit[c] /\ t.visit[c] < t.visit[x] + u.desc[x]
    BY <1>0, <1>1, <1>9
  <2>2. ASSUME Fin(t, c) PROVE u.desc[c] = t.desc[c] /\ Fin(u, c)
    BY <1>1, <1>4, <1>6, <2>2
  <2>3. CASE t.visit[c] < t.visit[x] + t.desc[x]
    <3>1. Fin(t, c) /\ t.visit[c] + t.desc[c] <= t.visit[x] + t.desc[x]
      BY <1>5, <2>1, <2>3
    <3>2. t.desc[x] <= u.desc[x]
      BY <1>1, <1>2, <1>6, <1>7
    <3>3. u.desc[x] \in Int
      BY <1>1, <1>2, <1>6, <1>7
    <3> QED BY SMTT(30), <1>0, <1>2, <2>2, <3>1, <3>2, <3>3
  <2>4. CASE ~(t.visit[c] < t.visit[x] + t.desc[x])
    <3>1. n > 1 /\ x = p
      BY <1>6, <2>1, <2>4
    <3>2. t.visit[x] + u.desc[x] = Len(t.pre) /\ t.visit[b] = t.visit[x] + t.desc[x]
      BY <1>4, <1>7, <3>1
    <3>3. t.visit[b] <= t.visit[c]
      BY <1>1, <1>2, <2>4, <3>2
    <3>4. CASE c = b
      <4>1. u.desc[c] = t.desc[c] /\ Fin(u, c)
        BY <1>1, <1>4, <1>6, <3>4
      <4> QED BY <1>0, <1>1, <1>2, <1>3, <3>2, <3>4, <4>1
    <3>5. CASE c # b
      <4>1. t.visit[c] # t.visit[b]
        <5>1. t.pre[t.visit[c] + 1] = c /\ t.pre[t.visit[b] + 1] = b
          BY <1>1, <2>1 DEF Numbers
        <5> QED BY <3>5, <5>1
      <4>2. t.visit[b] < t.visit[c] /\ t.visit[c] < t.visit[b] + t.desc[b]
        BY <1>1, <1>2, <1>3, <2>1, <3>2, <3>3, <4>1
      <4>3. Fin(t, c) /\ t.visit[c] + t.desc[c] <= t.visit[b] + t.desc[b]
        BY <1>1, <1>5, <2>1, <4>2
      <4> QED BY <1>0, <1>3, <2>2, <3>2, <4>3
    <3> QED BY <3>4, <3>5
  <2> QED BY <2>3, <2>4
<1> QED BY <1>8, <1>9 DEF Spans

\* What a label says of an edge stays true.
LEMMA FinishedEdge ==
    ASSUME NEW ord \in Seq(Node), NEW ou, NEW t, NEW u, NEW b, Finished(ord, t, u, b),
           Numbers(ord, t), StackOK(ou, t), Spans(t), Len(t.pre) <= Len(ord),
           NEW x \in Node, NEW c \in Node, Seen(t, x), NEW l, EdgeOK(t, x, c, l)
    PROVE  EdgeOK(u, x, c, l)
<1> DEFINE n == Len(t.stack)
           p == t.stack[n - 1].bl
           K == Len(ord) - Len(t.rpost)
<1>0. /\ t \in TreeRec /\ u.visit = t.visit /\ u.pre = t.pre /\ t.stack[n].bl = b
      /\ u.index[b] = K - 1 /\ \A y \in Node : y # b => u.index[y] = t.index[y]
      /\ \A y \in Node : u.desc[y] = IF n > 1 /\ y = p THEN t.desc[y] + t.desc[b] ELSE t.desc[y]
      /\ Len(u.stack) = n - 1 /\ \A i \in 1..(n - 1) : u.stack[i] = t.stack[i]
  BY DEF Finished
<1>1. /\ n \in Nat /\ n \in 1..n /\ b \in Node /\ Seen(t, b) /\ ~Fin(t, b) /\ K \in Int
      /\ \A y : Seen(u, y) <=> Seen(t, y)
      /\ \A y \in Node : Fin(u, y) <=> Fin(t, y) \/ y = b
  BY FinishedBasics
<1>2. /\ \A y \in Node : t.visit[y] \in Int /\ t.desc[y] \in Nat /\ t.index[y] \in Int
      /\ \A i \in 1..n : t.stack[i].bl \in Node
      /\ Len(t.pre) \in Nat
  BY <1>0, TreeTypes
<1>3. t.visit[b] + t.desc[b] = Len(t.pre)
  BY <1>0, <1>1 DEF StackOK
<1>4. n > 1 => /\ p \in Node /\ p # b /\ ~Fin(t, p) /\ t.visit[b] = t.visit[p] + t.desc[p]
               /\ u.desc[p] = t.desc[p] + t.desc[b]
  <2> SUFFICES ASSUME n > 1 PROVE /\ p \in Node /\ p # b /\ ~Fin(t, p) /\ t.visit[b] = t.visit[p] + t.desc[p]
                                  /\ u.desc[p] = t.desc[p] + t.desc[b]
    OBVIOUS
  <2>1. n - 1 \in 1..n /\ n - 1 # n /\ n - 1 \in 1..(n - 1) /\ n - 1 + 1 = n /\ n - 1 < n
    BY <1>1
  <2>2. p \in Node /\ ~Fin(t, p)
    BY SMTT(30), <1>2, <2>1 DEF StackOK
  <2>3. t.visit[t.stack[n - 1 + 1].bl] = t.visit[p] + t.desc[p]
    BY <2>1 DEF StackOK
  <2>4. t.visit[p] < t.visit[b]
    BY <1>0, <1>1, <2>1 DEF StackOK
  <2>5. t.visit[b] = t.visit[p] + t.desc[p]
    BY <1>0, <2>1, <2>3
  <2> HIDE DEF p
  <2>6. p # b /\ u.desc[p] = t.desc[p] + t.desc[b]
    BY <1>0, <1>2, <2>2, <2>4
  <2> QED BY <2>2, <2>5, <2>6
<1>5. \A y \in Node : Fin(t, y) => /\ u.desc[y] = t.desc[y] /\ y # b
                                   /\ u.index[y] = t.index[y] /\ t.index[y] >= K
  <2>1. \A y \in Node : Fin(t, y) => t.index[y] \in K..(Len(ord) - 1)
    BY DEF Numbers
  <2> QED BY <1>0, <1>1, <1>4, <2>1
<1>6. \A y \in Node : t.desc[y] <= u.desc[y] /\ u.desc[y] \in Nat
  BY SMTT(30), <1>0, <1>1, <1>2, <1>4
<1>7. \A y \in Node : Seen(t, y) => t.visit[y] < Len(t.pre)
  <2>1. \A y \in Node : Seen(t, y) => t.visit[y] \in 0..(Len(t.pre) - 1)
    BY DEF Numbers
  <2> QED BY <1>2, <2>1
<1> HIDE DEF n, p, K
<1>8. ASSUME TreeEdge(t, x, c) PROVE TreeEdge(u, x, c)
  <2>1. /\ t.visit[x] < t.visit[c]
        /\ Fin(t, c) => /\ t.visit[c] + t.desc[c] <= t.visit[x] + t.desc[x]
                        /\ Fin(t, x) => t.index[x] < t.index[c]
        /\ ~Fin(t, c) => \A i \in 1..Len(t.stack) : t.stack[i].bl = c => i > 1 /\ t.stack[i - 1].bl = x
        /\ \A y \in Node : Seen(t, y) /\ t.visit[x] < t.visit[y] /\ t.visit[y] < t.visit[c]
              => Fin(t, y) /\ t.visit[y] + t.desc[y] <= t.visit[c]
    BY <1>8 DEF TreeEdge
  <2>2. ASSUME Fin(u, c)
        PROVE  /\ u.visit[c] + u.desc[c] <= u.visit[x] + u.desc[x]
               /\ Fin(u, x) => u.index[x] < u.index[c]
    <3>1. CASE c = b
      <4>1. n > 1 /\ x = p
        BY <1>0, <1>1, <2>1, <3>1 DEF n, p
      <4>2. ~Fin(u, x) /\ u.desc[c] = t.desc[c]
        BY <1>0, <1>1, <1>4, <3>1, <4>1
      <4>3. t.visit[c] = t.visit[x] + t.desc[x] /\ u.desc[x] = t.desc[x] + t.desc[c]
        BY <1>4, <3>1, <4>1
      <4> QED BY SMTT(30), <1>0, <1>2, <4>2, <4>3
    <3>2. CASE c # b
      <4>1. Fin(t, c) /\ u.desc[c] = t.desc[c] /\ u.index[c] = t.index[c] /\ t.index[c] >= K
        BY <1>1, <1>5, <2>2, <3>2
      <4>2. t.visit[c] + t.desc[c] <= t.visit[x] + u.desc[x]
        BY SMTT(30), <1>2, <1>6, <2>1, <4>1
      <4>3. ASSUME Fin(u, x) PROVE u.index[x] < u.index[c]
        <5>1. CASE x = b
          BY <1>0, <1>1, <1>2, <4>1, <5>1
        <5>2. CASE x # b
          BY <1>0, <1>1, <2>1, <4>1, <4>3, <5>2
        <5> QED BY <5>1, <5>2
      <4> QED BY <1>0, <4>1, <4>2, <4>3
    <3> QED BY <3>1, <3>2
  <2>3. ASSUME ~Fin(u, c), NEW i \in 1..Len(u.stack), u.stack[i].bl = c
        PROVE  i > 1 /\ u.stack[i - 1].bl = x
    <3>1. i \in 1..(n - 1) /\ i \in 1..n /\ t.stack[i].bl = c
      BY <1>0, <1>1, <2>3
    <3>2. i > 1 /\ t.stack[i - 1].bl = x
      BY <1>1, <2>1, <2>3, <3>1 DEF n
    <3>3. i - 1 \in 1..(n - 1)
      BY <1>1, <3>1, <3>2
    <3> QED BY <1>0, <3>2, <3>3
  <2>4. ASSUME NEW y \in Node, Seen(u, y), u.visit[x] < u.visit[y], u.visit[y] < u.visit[c]
        PROVE  Fin(u, y) /\ u.visit[y] + u.desc[y] <= u.visit[c]
    <3>1. Fin(t, y) /\ t.visit[y] + t.desc[y] <= t.visit[c]
      BY <1>0, <1>1, <2>1, <2>4
    <3> QED BY <1>0, <1>1, <1>5, <3>1
  <2> QED BY <1>0, <2>1, <2>2, <2>3, <2>4 DEF TreeEdge
<1>9. ASSUME BackEdge(t, x, c) PROVE BackEdge(u, x, c)
  <2>1. /\ t.visit[c] <= t.visit[x]
        /\ Fin(t, c) => Fin(t, x) /\ t.index[c] <= t.index[x] /\ t.visit[x] < t.visit[c] + t.desc[c]
    BY <1>9 DEF BackEdge
  <2>2. ASSUME Fin(u, c) PROVE Fin(u, x) /\ u.index[c] <= u.index[x] /\ u.visit[x] < u.visit[c] + u.desc[c]
    <3>1. CASE c = b
      <4>1. u.desc[c] = t.desc[c] /\ t.visit[x] < t.visit[c] + t.desc[c]
        BY <1>0, <1>1, <1>3, <1>4, <1>7, <3>1
      <4>2. CASE x = b
        <5>1. u.index[c] \in Int /\ u.index[c] = u.index[x]
          BY <1>0, <1>1, <3>1, <4>2
        <5> QED BY <1>0, <1>1, <4>1, <4>2, <5>1
      <4>3. CASE x # b
        <5>1. t.visit[x] # t.visit[b]
          <6>1. t.pre[t.visit[x] + 1] = x /\ t.pre[t.visit[b] + 1] = b
            BY <1>1 DEF Numbers
          <6> QED BY <4>3, <6>1
        <5>2. t.visit[b] < t.visit[x]
          BY <1>1, <1>2, <2>1, <3>1, <5>1
        <5>3. Fin(t, x)
          BY <1>1, <3>1, <4>1, <5>2 DEF Spans
        <5>4. u.index[x] = t.index[x] /\ t.index[x] >= K /\ t.index[x] \in Int
          BY <1>2, <1>5, <5>3
        <5>5. u.index[c] <= u.index[x]
          BY <1>0, <1>1, <3>1, <5>4
        <5> QED BY <1>0, <1>1, <4>1, <5>3, <5>5
      <4> QED BY <4>2, <4>3
    <3>2. CASE c # b
      <4>1. Fin(t, c)
        BY <1>1, <2>2, <3>2
      <4>2. Fin(t, x) /\ t.index[c] <= t.index[x] /\ t.visit[x] < t.visit[c] + t.desc[c]
        BY <2>1, <4>1
      <4> QED BY <1>0, <1>1, <1>5, <4>1, <4>2
    <3> QED BY <3>1, <3>2
  <2> QED BY <1>0, <2>1, <2>2 DEF BackEdge
<1>10. ASSUME SideEdge(t, x, c) PROVE SideEdge(u, x, c)
  <2>1. Fin(t, c) /\ (Fin(t, x) => t.index[x] < t.index[c])
    BY <1>10 DEF SideEdge
  <2>2. u.index[c] = t.index[c] /\ t.index[c] >= K /\ t.index[c] \in Int /\ Fin(u, c)
    BY <1>1, <1>2, <1>5, <2>1
  <2>3. ASSUME Fin(u, x) PROVE u.index[x] < u.index[c]
    <3>1. CASE x = b
      BY <1>0, <1>1, <2>2, <3>1
    <3>2. CASE x # b
      BY <1>0, <1>1, <2>1, <2>2, <2>3, <3>2
    <3> QED BY <3>1, <3>2
  <2> QED BY <2>2, <2>3 DEF SideEdge
<1>11. Seen(u, c)
  BY <1>1 DEF EdgeOK
<1> QED BY <1>8, <1>9, <1>10, <1>11 DEF EdgeOK

\* Finishing a block explores nothing new: all its slots have been taken.
LEMMA FinishedExplored ==
    ASSUME NEW ord \in Seq(Node), NEW ou, NEW t, NEW u, NEW b, Finished(ord, t, u, b),
           Numbers(ord, t), StackOK(ou, t), Len(t.pre) <= Len(ord),
           t.stack[Len(t.stack)].edge = Len(ou[b]), NEW q \in SlotsOf(ou)
    PROVE  Explored(u, q) <=> Explored(t, q)
<1> DEFINE n == Len(t.stack)
           m == Len(u.stack)
           x == q[1]
           e == q[2]
<1>0. /\ m = n - 1 /\ \A i \in 1..(n - 1) : u.stack[i] = t.stack[i]
      /\ t.stack[n].bl = b
  BY DEF Finished
<1>1. /\ n \in Nat /\ n \in 1..n /\ b \in Node /\ Seen(t, b)
      /\ \A y : Seen(u, y) <=> Seen(t, y)
      /\ \A y \in Node : Fin(u, y) <=> Fin(t, y) \/ y = b
  BY FinishedBasics
<1>2. x \in Node /\ e <= Len(ou[x])
  BY DEF SlotsOf
<1>3. Explored(t, q) <=> Seen(t, x) /\ (Fin(t, x) \/ \E i \in 1..n : t.stack[i].bl = x /\ e <= t.stack[i].edge)
  BY DEF Explored
<1>4. Explored(u, q) <=> Seen(u, x) /\ (Fin(u, x) \/ \E i \in 1..m : u.stack[i].bl = x /\ e <= u.stack[i].edge)
  BY DEF Explored
<1> HIDE DEF x, e
<1>5. CASE x = b
  <2>1. Explored(u, q)
    BY <1>1, <1>4, <1>5
  <2>2. t.stack[n].bl = x /\ e <= t.stack[n].edge
    BY <1>0, <1>2, <1>5
  <2> HIDE DEF n
  <2> QED BY <1>1, <1>3, <1>5, <2>1, <2>2
<1>6. CASE x # b
  <2> HIDE DEF n, m
  <2>1. (Seen(u, x) <=> Seen(t, x)) /\ (Fin(u, x) <=> Fin(t, x))
    BY <1>1, <1>2, <1>6
  <2>2. ASSUME NEW i \in 1..m, u.stack[i].bl = x, e <= u.stack[i].edge
        PROVE  \E j \in 1..n : t.stack[j].bl = x /\ e <= t.stack[j].edge
    <3>1. i \in 1..n /\ i \in 1..(n - 1)
      BY <1>0, <1>1
    <3> QED BY <1>0, <2>2, <3>1
  <2>3. ASSUME NEW i \in 1..n, t.stack[i].bl = x, e <= t.stack[i].edge
        PROVE  \E j \in 1..m : u.stack[j].bl = x /\ e <= u.stack[j].edge
    <3>1. i # n
      BY <1>0, <1>6, <2>3
    <3>2. i \in 1..(n - 1) /\ i \in 1..m
      BY <1>0, <1>1, <3>1
    <3> QED BY <1>0, <2>3, <3>2
  <2> QED BY <1>3, <1>4, <2>1, <2>2, <2>3
<1> QED BY <1>5, <1>6

\* When the entry is finished, everything that lives has been reached from it, and
\* nothing that lives is left on the stack below it.
LEMMA FinishedLive ==
    ASSUME NEW ord \in Seq(Node), NEW inn, NEW ou, NEW t, NEW u, NEW b, NEW lab,
           GraphOK(ou, inn, ord), Finished(ord, t, u, b),
           Numbers(ord, t), StackOK(ou, t), EdgesOK(ou, t, lab), LiveOK(ou, t), Len(t.pre) <= Len(ord),
           t.stack[Len(t.stack)].edge = Len(ou[b])
    PROVE  LiveOK(ou, u)
<1> DEFINE n == Len(t.stack)
           K == Len(ord) - Len(t.rpost)
<1> SUFFICES ASSUME \A p \in SlotsOf(ou) : p[1] \in Lives(ou) => Dest(ou, p) # Entry
             PROVE  /\ \A i, j \in 1..Len(u.stack) : i < j /\ u.stack[i].bl \in Lives(ou)
                         => u.stack[j].bl \in Lives(ou) /\ u.stack[j].bl # Entry
                    /\ Fin(u, Entry) => \A x \in Lives(ou) : Fin(u, x) /\ u.index[Entry] <= u.index[x]
  BY DEF LiveOK
<1>0. /\ t \in TreeRec /\ Len(u.stack) = n - 1 /\ \A i \in 1..(n - 1) : u.stack[i] = t.stack[i]
      /\ t.stack[n].bl = b /\ u.index[b] = K - 1 /\ \A x \in Node : x # b => u.index[x] = t.index[x]
  BY DEF Finished
<1>1. /\ n \in Nat /\ n \in 1..n /\ b \in Node /\ ~Fin(t, b) /\ K \in Int
      /\ \A y : Seen(u, y) <=> Seen(t, y)
      /\ \A y \in Node : Fin(u, y) <=> Fin(t, y) \/ y = b
  BY FinishedBasics
<1>2. /\ \A i, j \in 1..n : i < j /\ t.stack[i].bl \in Lives(ou)
            => t.stack[j].bl \in Lives(ou) /\ t.stack[j].bl # Entry
      /\ Fin(t, Entry) => \A x \in Lives(ou) : Fin(t, x) /\ t.index[Entry] <= t.index[x]
  BY DEF LiveOK
<1>3. Lives(ou) \in SUBSET Node /\ Entry \in Lives(ou) /\ Entry \in Node
      /\ \A C \in SUBSET Node : Entry \in C /\ Shut(ou, C) => Lives(ou) \subseteq C
  BY LivesShut, EntryFacts
<1>4. Shut(ou, Lives(ou))
  BY LivesShut
<1>5. \A y \in Node : t.index[y] \in Int /\ (Fin(t, y) => t.index[y] >= K)
  <2>1. \A y \in Node : Fin(t, y) => t.index[y] \in K..(Len(ord) - 1)
    BY DEF Numbers
  <2>2. \A y \in Node : t.index[y] \in Int
    BY <1>0, TreeTypes
  <2> QED BY <1>1, <2>1, <2>2
<1> HIDE DEF n, K
<1>6. ASSUME NEW i \in 1..(n - 1), NEW j \in 1..(n - 1), i < j, u.stack[i].bl \in Lives(ou)
      PROVE  u.stack[j].bl \in Lives(ou) /\ u.stack[j].bl # Entry
  <2>1. i \in 1..n /\ j \in 1..n
    BY <1>1
  <2> QED BY <1>0, <1>2, <1>6, <2>1
<1>7. ASSUME Fin(u, Entry), NEW x \in Lives(ou) PROVE Fin(u, x) /\ u.index[Entry] <= u.index[x]
  <2>1. CASE Fin(t, Entry)
    <3>1. Fin(t, x) /\ t.index[Entry] <= t.index[x] /\ x \in Node
      BY <1>2, <1>3, <2>1
    <3>2. x # b /\ Entry # b
      BY <1>1, <2>1, <3>1
    <3> QED BY <1>0, <1>1, <1>3, <3>1, <3>2
  <2>2. CASE ~Fin(t, Entry)
    <3>1. b = Entry
      BY <1>1, <1>3, <1>7, <2>2
    <3> DEFINE C == {y \in Lives(ou) : Fin(u, y)}
    <3>2. Shut(ou, C)
      <4> SUFFICES ASSUME NEW q \in SlotsOf(ou), q[1] \in Lives(ou), Fin(u, q[1])
                   PROVE  Dest(ou, q) \in Lives(ou) /\ Fin(u, Dest(ou, q))
        BY DEF Shut
      <4> DEFINE y == Dest(ou, q)
      <4>1. y \in Lives(ou) /\ y \in Node /\ q[1] \in Node
        BY <1>4, SlotType DEF Shut
      <4>2. Explored(t, q)
        <5>1. Seen(u, q[1])
          BY SMTT(60), <1>1, <1>7, <4>1 DEF Finished, Numbers, StackOK
        <5>2. Explored(u, q)
          BY <5>1 DEF Explored
        <5> QED BY SMTT(30), <5>2, FinishedExplored
      <4>3. Seen(t, y)
        BY <4>2 DEF EdgesOK, EdgeOK
      <4> HIDE DEF y
      <4>4. ASSUME ~Fin(u, y) PROVE FALSE
        <5>1. ~Fin(t, y) /\ y # b
          BY <1>1, <4>1, <4>4
        <5>2. PICK i \in 1..n : t.stack[i].bl = y
          BY <4>1, <4>3, <5>1 DEF StackOK, Held, n
        <5>3. i < n
          BY SMTT(30), <1>0, <1>1, <5>1, <5>2
        <5>4. t.stack[n].bl # Entry
          BY <1>1, <1>2, <4>1, <5>2, <5>3
        <5> QED BY <1>0, <3>1, <5>4
      <4> QED BY <4>1, <4>4 DEF y
    <3>3. C \in SUBSET Node /\ Entry \in C
      BY <1>3, <1>7
    <3>4. x \in C
      BY <1>3, <3>2, <3>3
    <3>5. u.index[Entry] = K - 1 /\ x \in Node /\ Fin(u, x)
      BY <1>0, <1>3, <3>1, <3>4
    <3>6. u.index[x] >= K - 1
      <4>1. CASE x = b
        BY <1>0, <1>1, <4>1
      <4>2. CASE x # b
        <5>1. Fin(t, x) /\ u.index[x] = t.index[x]
          BY <1>0, <1>1, <3>5, <4>2
        <5> QED BY <1>1, <1>5, <3>5, <5>1
      <4> QED BY <4>1, <4>2
    <3> QED BY <3>5, <3>6
  <2> QED BY <2>1, <2>2
<1> QED BY <1>0, <1>6, <1>7

\* Finishing a block keeps the pass right,
LEMMA FinishedKeeps ==
    ASSUME NEW ou, NEW inn, NEW ord, NEW st, NEW t, NEW lab,
           GraphOK(ou, inn, ord), PassOK(ou, inn, ord, st, t, lab),
           NEW b, NEW u, Finished(ord, t, u, b), SameRoots(t, u),
           t.stack[Len(t.stack)].edge = Len(ou[b])
    PROVE  PassOK(ou, inn, ord, st, u, lab)
<1> DEFINE n == Len(t.stack)
<1>0. /\ t \in TreeRec /\ Numbers(ord, t) /\ StackOK(ou, t) /\ Spans(t)
      /\ LabelType(ou, lab) /\ EdgesOK(ou, t, lab)
      /\ RootsOK(ou, ord, t, lab) /\ LiveOK(ou, t) /\ RootList(ou, inn, ord, st, t)
  BY DEF PassOK
<1>1. ord \in Seq(Node) /\ Len(t.pre) <= Len(ord)
  <2>1. ord \in Seq(Node) /\ \A i, j \in 1..Len(ord) : ord[i] = ord[j] => i = j
    BY DEF GraphOK
  <2> QED BY <1>0, <2>1, PreBound
<1>2. /\ n \in Nat /\ n \in 1..n /\ b \in Node
      /\ \A y : Seen(u, y) <=> Seen(t, y)
      /\ Len(t.rpost) \in Nat
  BY <1>0, <1>1, FinishedBasics
<1>3. Numbers(ord, u) /\ StackOK(ou, u) /\ Spans(u)
  BY <1>0, <1>1, FinishedNumbers, FinishedStack, FinishedSpans
<1>4. \A q \in SlotsOf(ou) : Explored(u, q) <=> Explored(t, q)
  BY <1>0, <1>1, FinishedExplored
<1>5. EdgesOK(ou, u, lab)
  <2> SUFFICES ASSUME NEW q \in SlotsOf(ou)
               PROVE  IF Explored(u, q) THEN EdgeOK(u, q[1], Dest(ou, q), lab[q[1]][q[2]])
                                        ELSE lab[q[1]][q[2]] = {}
    BY DEF EdgesOK
  <2>1. CASE ~Explored(t, q)
    BY <1>0, <1>4, <2>1 DEF EdgesOK
  <2>2. CASE Explored(t, q)
    <3>1. EdgeOK(t, q[1], Dest(ou, q), lab[q[1]][q[2]])
      BY <1>0, <2>2 DEF EdgesOK
    <3>2. Seen(t, q[1]) /\ q[1] \in Node /\ Dest(ou, q) \in Node
      BY <2>2, SlotType DEF Explored
    <3>3. EdgeOK(u, q[1], Dest(ou, q), lab[q[1]][q[2]])
      BY <1>0, <1>1, <3>1, <3>2, FinishedEdge
    <3> QED BY <1>4, <2>2, <3>3
  <2> QED BY <2>1, <2>2
<1>6. /\ u \in TreeRec /\ u.pre = t.pre /\ Len(u.stack) = n - 1 /\ t.stack[n].bl = b
      /\ Len(u.rpost) = Len(t.rpost) + 1 /\ u.rpost[1] = b
      /\ \A i \in 1..(n - 1) : u.stack[i] = t.stack[i]
  BY DEF Finished
<1>7. u.roots = t.roots /\ u.at = t.at /\ u.home = t.home /\ u.extra = t.extra /\ u.again = t.again
  BY DEF SameRoots
<1>8. RootsOK(ou, ord, u, lab)
  <2>1. t.at >= 1 /\ t.stack[1].bl = t.roots[t.at]
    <3>1. n >= 1
      BY <1>2
    <3> QED BY <1>0, <3>1 DEF RootsOK
  <2>2. Len(u.stack) >= 1 => u.stack[1].bl = t.roots[t.at]
    <3> SUFFICES ASSUME Len(u.stack) >= 1 PROVE u.stack[1].bl = t.roots[t.at]
      OBVIOUS
    <3>1. 1 \in 1..(n - 1)
      BY <1>2, <1>6
    <3> QED BY <1>6, <2>1, <3>1
  <2>3. Len(u.stack) = 0 => u.rpost[1] = t.roots[t.at]
    <3> SUFFICES ASSUME Len(u.stack) = 0 PROVE u.rpost[1] = t.roots[t.at]
      OBVIOUS
    <3>1. n = 1
      <4>1. Len(u.stack) = n - 1 /\ n \in Nat
        BY <1>2, <1>6
      <4>2. \A m, l \in Nat : l = m - 1 /\ l = 0 => m = 1
        OBVIOUS
      <4> HIDE DEF n
      <4> QED BY <4>1, <4>2
    <3> QED BY <1>6, <2>1, <3>1
  <2>4. Len(u.rpost) >= 1
    BY <1>2, <1>6
  <2>5. \A x \in Node : Seen(u, x) =>
          \/ \E i \in 1..u.at : u.roots[i] = x
          \/ \E p \in SlotsOf(ou) : Explored(u, p) /\ Dest(ou, p) = x /\ "tree" \in lab[p[1]][p[2]]
    <3> SUFFICES ASSUME NEW x \in Node, Seen(u, x)
                 PROVE  \/ \E i \in 1..t.at : t.roots[i] = x
                        \/ \E p \in SlotsOf(ou) : Explored(u, p) /\ Dest(ou, p) = x /\ "tree" \in lab[p[1]][p[2]]
      BY <1>7
    <3>1. \/ \E i \in 1..t.at : t.roots[i] = x
          \/ \E p \in SlotsOf(ou) : Explored(t, p) /\ Dest(ou, p) = x /\ "tree" \in lab[p[1]][p[2]]
      BY <1>0, <1>2 DEF RootsOK
    <3> QED BY <1>4, <3>1
  <2> QED BY Zenon, <1>0, <1>2, <1>6, <1>7, <2>1, <2>2, <2>3, <2>4, <2>5 DEF RootsOK
<1>9. LiveOK(ou, u)
  BY <1>0, <1>1, FinishedLive
<1>10. RootList(ou, inn, ord, st, u)
  BY SMTT(30), <1>0, <1>2, <1>7 DEF RootList
<1> QED BY <1>0, <1>3, <1>5, <1>6, <1>8, <1>9, <1>10 DEF PassOK

\* as the code does it.
LEMMA FinishOK ==
    ASSUME NEW ou, NEW inn, NEW st, NEW t, NEW lab,
           GraphOK(ou, inn, order), PassOK(ou, inn, order, st, t, lab), Len(t.stack) >= 1,
           NEW b, b = t.stack[Len(t.stack)].bl,
           NEW k, k = t.stack[Len(t.stack)].edge + 1, k > Len(ou[b]),
           NEW u, u = Finish(t)
    PROVE  PassOK(ou, inn, order, st, u, lab)
<1>1. Takes(ou, order, t, lab, b, k)
  BY SMTT(30), NextSlot
<1>2. t.stack[Len(t.stack)].edge = Len(ou[b])
  BY <1>1 DEF Takes
<1>3. t \in TreeRec /\ order \in Seq(Node)
  BY DEF PassOK, GraphOK
<1>4. Finished(order, t, u, b) /\ SameRoots(t, u)
  BY <1>3, FinishFacts
<1> QED BY <1>2, <1>4, FinishedKeeps

\* A turn of the depth-first walk
LEMMA WalkInv ==
    ASSUME SpanInv, Walk
    PROVE  SpanInv'
<1> DEFINE b == Last(tree.stack).bl
           k == Last(tree.stack).edge + 1
           t == [tree EXCEPT !.stack[Len(tree.stack)].edge = k]
<1>0. /\ GraphOK(out, ins, order) /\ PassOK(out, ins, order, stage, tree, label)
      /\ HistoryOK(out, ins, order, stage)
      /\ pc = "tree" /\ tree.stack # <<>> /\ tree \in TreeRec /\ LabelType(out, label)
      /\ irr \in IrrRec /\ ~irr.rebuild
  BY DEF SpanInv, Walk, PassOK
<1>1. /\ Len(tree.stack) >= 1
      /\ b = tree.stack[Len(tree.stack)].bl /\ k = tree.stack[Len(tree.stack)].edge + 1
  <2>1. tree.stack \in Seq([bl : Node, edge : Nat])
    BY <1>0 DEF TreeRec
  <2>2. Len(tree.stack) \in Nat /\ Len(tree.stack) # 0
    BY SMTT(30), <1>0, <2>1, LenProperties, EmptySeq
  <2> QED BY <2>2 DEF Last
<1>2. /\ IF k > Len(out[b]) THEN tree' = Finish(tree) /\ label' = label
         ELSE IF "irreducible" \in label[b][k] THEN tree' = t /\ label' = label
         ELSE IF tree.visit[out[b][k]] = -1
         THEN tree' = Visit(t, out[b][k]) /\ label' = AddLabels(<<b, k>>, {"tree"})
         ELSE tree' = t /\ label' = AddLabels(<<b, k>>, SeenLabel(tree, b, out[b][k]))
      /\ UNCHANGED <<graph, order, pc, irr, idom>>
  BY SMTT(30) DEF Walk
<1>3. /\ out' = out /\ ins' = ins /\ stage' = stage /\ order' = order /\ pc' = pc /\ irr' = irr
  BY <1>2 DEF graph
<1>4. Takes(out, order, tree, label, b, k)
  BY <1>0, <1>1, NextSlot
<1>4a. t = [tree EXCEPT !.stack[Len(tree.stack)].edge = k]
  OBVIOUS
<1> HIDE DEF b, k, t
<1>5. PassOK(out, ins, order, stage, tree', label')
  <2>1. CASE k > Len(out[b])
    <3>1. tree' = Finish(tree) /\ label' = label
      BY <1>2, <2>1
    <3> QED BY <1>0, <1>1, <2>1, <3>1, FinishOK
  <2>2. CASE ~(k > Len(out[b]))
    <3>1. label[b][k] = {}
      BY <1>4, <2>2 DEF Takes
    <3>2. CASE tree.visit[out[b][k]] = -1
      <4>1. tree' = Visit(t, out[b][k]) /\ label' = AddLabels(<<b, k>>, {"tree"})
        BY <1>2, <2>2, <3>1, <3>2
      <4>2. label' = [label EXCEPT ![b][k] = @ \cup {"tree"}]
        BY <4>1 DEF AddLabels
      <4>3. ~Seen(tree, out[b][k])
        BY <3>2 DEF Seen
      <4>4. tree' = Visit([tree EXCEPT !.stack[Len(tree.stack)].edge = k], out[b][k])
        BY <1>4a, <4>1
      <4> QED BY <1>0, <1>1, <2>2, <4>2, <4>3, <4>4, ChildOK, ZenonT(60)
    <3>3. CASE tree.visit[out[b][k]] # -1
      <4>1. tree' = t /\ label' = AddLabels(<<b, k>>, SeenLabel(tree, b, out[b][k]))
        BY <1>2, <2>2, <3>1, <3>3
      <4>2. label' = [label EXCEPT ![b][k] = @ \cup SeenLabel(tree, b, out[b][k])]
        BY <4>1 DEF AddLabels
      <4>3. Seen(tree, out[b][k])
        BY <3>3 DEF Seen
      <4>4. tree' = [tree EXCEPT !.stack[Len(tree.stack)].edge = k]
        BY <1>4a, <4>1
      <4> QED BY <1>0, <1>1, <2>2, <4>2, <4>3, <4>4, SeenOK, ZenonT(60)
    <3> QED BY <3>2, <3>3
  <2> QED BY <2>1, <2>2
<1>6. LabelType(out, label')
  BY <1>5 DEF PassOK
<1> QED BY SMTT(30), <1>0, <1>3, <1>5, <1>6 DEF SpanInv

-----------------------------------------------------------------------------
(***************************************************************************)
(* PickRoot                                                                 *)
(***************************************************************************)
\* The least number of a set is its first.
LEMMA NthFirst ==
    ASSUME NEW n \in Nat, NEW K \in SUBSET (1..n), K # {}
    PROVE  Nth(K, 1) \in K /\ \A k \in K : Nth(K, 1) <= k
<1>1. /\ Cardinality(K) \in Nat
      /\ \A i \in 1..Cardinality(K) : Nth(K, i) \in K
      /\ \A i, j \in 1..Cardinality(K) : i < j => Nth(K, i) < Nth(K, j)
      /\ \A k \in K : \E i \in 1..Cardinality(K) : Nth(K, i) = k
  BY NthFacts
<1> DEFINE C == Cardinality(K)
<1> HIDE DEF C
<1>1a. PICK k0 \in 1..n : k0 \in K
  OBVIOUS
<1>2. 1 \in 1..C
  BY <1>1, <1>1a DEF C
<1>3. ASSUME NEW k \in K PROVE Nth(K, 1) <= k
  <2>1. PICK i \in 1..C : Nth(K, i) = k
    BY <1>1 DEF C
  <2>2. Nth(K, 1) \in Int /\ k \in Int
    <3>1. Nth(K, 1) \in K /\ K \in SUBSET (1..n) /\ k \in K
      BY <1>1, <1>2 DEF C
    <3>2. Nth(K, 1) \in 1..n /\ k \in 1..n
      BY <3>1, Zenon
    <3> QED BY <3>2
  <2>3. CASE i = 1
    BY <2>1, <2>2, <2>3
  <2>4. CASE i # 1
    <3>1. C \in Nat
      BY <1>1 DEF C
    <3>2. 1 < i
      BY <2>4, <3>1
    <3>3. Nth(K, 1) < Nth(K, i)
      BY <1>1, <1>2, <3>2 DEF C
    <3> QED BY <2>1, <2>2, <3>3
  <2> QED BY <2>3, <2>4
<1> QED BY <1>1, <1>2, <1>3 DEF C

\* The next root comes from the list, from place m on, or it is added to it.
FromList(t, roots, m) ==
    /\ m > t.at /\ m <= Len(t.roots) /\ ~Seen(t, t.roots[m])
    /\ \A i \in 1..Len(t.roots) : t.at < i /\ i < m => Seen(t, t.roots[i])
    /\ Len(roots) = t.at + (Len(t.roots) - m + 1)
    /\ \A i \in 1..Len(roots) : roots[i] = IF i <= t.at THEN t.roots[i] ELSE t.roots[i - t.at + m - 1]
AddedTo(ord, t, roots) ==
    /\ \A i \in 1..Len(t.roots) : t.at < i => Seen(t, t.roots[i])
    /\ Len(roots) = t.at + 1
    /\ \A i \in 1..t.at : roots[i] = t.roots[i]
    /\ Holds(ord, roots[t.at + 1]) /\ ~Seen(t, roots[t.at + 1])

\* s is p followed by q, of lengths a and l.
Joins(s, p, a, q, l) ==
    /\ s \in Seq(Node) /\ Len(s) = a + l
    /\ \A i \in 1..(a + l) : s[i] = IF i <= a THEN p[i] ELSE q[i - a]

\* Concatenation joins.
LEMMA Joined ==
    ASSUME NEW p \in Seq(Node), NEW q \in Seq(Node),
           NEW a, Len(p) = a, NEW l, Len(q) = l
    PROVE  Joins(p \o q, p, a, q, l)
  BY ConcatProperties DEF Joins

\* The first a members of a list
LEMMA FirstPart ==
    ASSUME NEW r \in Seq(Node), NEW a \in Nat, a <= Len(r)
    PROVE  /\ SubSeq(r, 1, a) \in Seq(Node) /\ Len(SubSeq(r, 1, a)) = a
           /\ \A i \in 1..a : SubSeq(r, 1, a)[i] = r[i]
<1>1. Len(r) \in Nat /\ \A i \in 1..Len(r) : r[i] \in Node
  BY LenProperties, ElementOfSeq
<1>2. \A i \in 1..a : r[i] \in Node
  BY <1>1
<1>3. /\ SubSeq(r, 1, a) \in Seq(Node) /\ Len(SubSeq(r, 1, a)) = IF 1 <= a THEN a - 1 + 1 ELSE 0
      /\ \A i \in 1..(a - 1 + 1) : SubSeq(r, 1, a)[i] = r[1 + i - 1]
  BY <1>2, SubSeqProperties
<1>4. (IF 1 <= a THEN a - 1 + 1 ELSE 0) = a /\ a - 1 + 1 = a /\ \A i \in 1..a : 1 + i - 1 = i
  OBVIOUS
<1> QED BY <1>3, <1>4

\* s is the first a members of r and then r from m on.
Skips(s, r, a, m) ==
    /\ s \in Seq(Node) /\ Len(s) = a + (Len(r) - m + 1)
    /\ \A i \in 1..Len(s) : s[i] = IF i <= a THEN r[i] ELSE r[i - a + m - 1]

\* Cutting out the middle of a list of roots
LEMMA ListPart ==
    ASSUME NEW r \in Seq(Node), NEW a \in Nat, NEW m \in Nat, a < m, m <= Len(r),
           NEW s, s = SubSeq(r, 1, a) \o SubSeq(r, m, Len(r))
    PROVE  SubSeq(r, m, Len(r)) # <<>> /\ Skips(s, r, a, m)
<1> DEFINE n == Len(r)
           done == SubSeq(r, 1, a)
           kept == SubSeq(r, m, n)
<1>1. n \in Nat /\ a <= n /\ m <= n /\ \A i \in 1..n : r[i] \in Node
  BY LenProperties, ElementOfSeq
<1>2. s = done \o kept
  OBVIOUS
<1>3. done \in Seq(Node) /\ Len(done) = a /\ \A i \in 1..a : done[i] = r[i]
  BY <1>1, FirstPart
<1> HIDE DEF n, done
<1>4. kept \in Seq(Node) /\ Len(kept) = n - m + 1 /\ \A i \in 1..(n - m + 1) : kept[i] = r[m + i - 1]
  <2>1. \A i \in m..n : r[i] \in Node
    BY <1>1
  <2>2. m \in Int /\ n \in Int /\ m <= n
    BY <1>1
  <2> QED BY SMTT(60), <2>1, <2>2, SubSeqProperties
<1> HIDE DEF kept
<1>5. kept # <<>>
  <2>1. Len(kept) >= 1
    BY <1>1, <1>4
  <2> QED BY <2>1, EmptySeq
<1>6. /\ s \in Seq(Node) /\ Len(s) = a + (n - m + 1)
      /\ \A i \in 1..(a + (n - m + 1)) : s[i] = IF i <= a THEN done[i] ELSE kept[i - a]
  <2> DEFINE l == n - m + 1
  <2>1. done \in Seq(Node) /\ kept \in Seq(Node) /\ Len(done) = a /\ Len(kept) = l
    BY <1>3, <1>4
  <2> HIDE DEF l
  <2>2. Joins(done \o kept, done, a, kept, l)
    BY <2>1, Joined
  <2>3. Joins(s, done, a, kept, l)
    BY <1>2, <2>2
  <2> QED BY <2>3 DEF Joins, l
<1>7. \A i \in 1..Len(s) : s[i] = IF i <= a THEN r[i] ELSE r[i - a + m - 1]
  <2> SUFFICES ASSUME NEW i \in 1..(a + (n - m + 1))
               PROVE  s[i] = IF i <= a THEN r[i] ELSE r[i - a + m - 1]
    BY <1>6
  <2>1. CASE i <= a
    <3>1. i \in 1..a
      BY <1>1, <2>1
    <3> QED BY <1>3, <1>6, <2>1, <3>1
  <2>2. CASE ~(i <= a)
    <3>1. i - a \in 1..(n - m + 1) /\ m + (i - a) - 1 = i - a + m - 1
      BY <1>1, <2>2
    <3>2. s[i] = kept[i - a]
      BY <1>6, <2>2
    <3>3. kept[i - a] = r[m + (i - a) - 1]
      BY <1>4, <3>1
    <3> QED BY <2>2, <3>1, <3>2, <3>3
  <2> QED BY <2>1, <2>2
<1> QED BY <1>5, <1>6, <1>7 DEF kept, n, Skips

\* s is the first a members of r and then x.
Adds(s, r, a, x) ==
    /\ s \in Seq(Node) /\ Len(s) = a + 1 /\ s[a + 1] = x
    /\ \A i \in 1..a : s[i] = r[i]

\* Cutting off the tail of a list of roots and adding one
LEMMA ListMore ==
    ASSUME NEW r \in Seq(Node), NEW a \in Nat, a <= Len(r), NEW x \in Node,
           NEW s, s = SubSeq(r, 1, a) \o <<x>>
    PROVE  Adds(s, r, a, x)
<1> DEFINE done == SubSeq(r, 1, a)
<1>1. done \in Seq(Node) /\ Len(done) = a /\ \A i \in 1..a : done[i] = r[i]
  BY FirstPart
<1>2. s = done \o <<x>>
  OBVIOUS
<1> HIDE DEF done
<1>3. <<x>> \in Seq(Node) /\ Len(<<x>>) = 1 /\ <<x>>[1] = x
  OBVIOUS
<1>4. /\ s \in Seq(Node) /\ Len(s) = a + 1
      /\ \A i \in 1..(a + 1) : s[i] = IF i <= a THEN done[i] ELSE <<x>>[i - a]
  BY <1>1, <1>2, <1>3, ConcatProperties
<1>5. \A i \in 1..a : s[i] = r[i]
  BY <1>1, <1>4
<1>6. s[a + 1] = x
  <2>1. a + 1 \in 1..(a + 1) /\ ~(a + 1 <= a) /\ a + 1 - a = 1
    OBVIOUS
  <2> QED BY <1>3, <1>4, <2>1
<1> QED BY <1>4, <1>5, <1>6 DEF Adds

\* The places after the current one whose block has not been seen
Left(t) == {i \in t.at + 1..Len(t.roots) : t.roots[i] \in {b \in Node : t.visit[b] = -1}}

\* The positions of the roots still to come
LEMMA LeftFacts ==
    ASSUME NEW t \in TreeRec
    PROVE  /\ Left(t) \in SUBSET (1..Len(t.roots))
           /\ \A i \in 1..Len(t.roots) : i \in Left(t) <=> t.at < i /\ ~Seen(t, t.roots[i])
<1>1. t.at \in Nat /\ Len(t.roots) \in Nat /\ \A i \in 1..Len(t.roots) : t.roots[i] \in Node
  BY TreeTypes
<1>2. \A i \in 1..Len(t.roots) : i \in t.at + 1..Len(t.roots) <=> t.at < i
  BY <1>1
<1>3. \A i \in t.at + 1..Len(t.roots) : i \in 1..Len(t.roots)
  BY <1>1
<1>4. \A i \in 1..Len(t.roots) : i \in Left(t) <=> t.at < i /\ ~Seen(t, t.roots[i])
  BY <1>1, <1>2 DEF Left, Seen
<1> QED BY <1>3, <1>4 DEF Left

\* A place is left: the list goes on from the first of them.
LEMMA NextFromList ==
    ASSUME NEW t \in TreeRec, t.at <= Len(t.roots), Left(t) # {},
           NEW roots, roots = SubSeq(t.roots, 1, t.at) \o SubSeq(t.roots, Nth(Left(t), 1), Len(t.roots))
    PROVE  /\ SubSeq(t.roots, Nth(Left(t), 1), Len(t.roots)) # <<>>
           /\ roots \in Seq(Node) /\ \E m \in Nat : FromList(t, roots, m)
<1> DEFINE m == Nth(Left(t), 1)
           r == t.roots
           a == t.at
           n == Len(r)
<1>1. r \in Seq(Node) /\ a \in Nat /\ a <= n /\ n \in Nat
  BY TreeTypes DEF TreeRec
<1>2. /\ Left(t) \in SUBSET (1..n)
      /\ \A i \in 1..n : i \in Left(t) <=> a < i /\ ~Seen(t, r[i])
  BY LeftFacts
<1>3. m \in Left(t) /\ \A i \in Left(t) : m <= i
  <2> HIDE DEF n
  <2> QED BY <1>1, <1>2, NthFirst
<1>4. roots = SubSeq(r, 1, a) \o SubSeq(r, m, Len(r))
  OBVIOUS
<1> HIDE DEF m, r, a, n
<1>5. m \in 1..n
  BY <1>2, <1>3
<1>6. m \in Nat /\ a < m /\ m <= n /\ ~Seen(t, r[m])
  BY <1>1, <1>2, <1>3, <1>5
<1>7. \A i \in 1..n : a < i /\ i < m => Seen(t, r[i])
  <2> SUFFICES ASSUME NEW i \in 1..n, a < i, i < m PROVE Seen(t, r[i])
    OBVIOUS
  <2>1. i \notin Left(t)
    <3>1. ~(m <= i)
      BY <1>1, <1>6
    <3> QED BY <1>3, <3>1
  <2> QED BY <1>2, <2>1
<1>8. SubSeq(r, m, Len(r)) # <<>> /\ Skips(roots, r, a, m)
  <2>1. m <= Len(r)
    BY <1>6 DEF n
  <2>2. r \in Seq(Node) /\ a \in Nat /\ m \in Nat /\ a < m
    BY <1>1, <1>6
  <2> QED BY <1>4, <2>1, <2>2, ListPart
<1>9. m > a
  BY <1>1, <1>6
<1>10. FromList(t, roots, m)
  BY <1>6, <1>7, <1>8, <1>9 DEF FromList, Skips, r, n, a
<1> QED BY <1>6, <1>8, <1>10 DEF m, r, Skips

\* No place is left: the first block of the order that has not been seen is added.
LEMMA NextAdded ==
    ASSUME NEW t \in TreeRec, t.at <= Len(t.roots), Left(t) = {},
           NEW ord \in Seq(Node), \E b \in Node : Holds(ord, b) /\ ~Seen(t, b),
           NEW x, x = Keep(ord, {b \in Node : t.visit[b] = -1})[1],
           NEW roots, roots = SubSeq(t.roots, 1, t.at) \o <<x>>
    PROVE  roots \in Seq(Node) /\ AddedTo(ord, t, roots)
<1>1. x \in Node /\ Holds(ord, x) /\ ~Seen(t, x)
  <2> DEFINE unseen == {b \in Node : t.visit[b] = -1}
             q == Keep(ord, unseen)
  <2>1. PICK b \in Node : Holds(ord, b) /\ ~Seen(t, b)
    OBVIOUS
  <2>2. /\ b \in unseen /\ \A c : c \in unseen => ~Seen(t, c)
        /\ x = q[1]
    BY <2>1 DEF Seen
  <2> HIDE DEF unseen
  <2>3. q \in Seq(Node) /\ \A e : Holds(q, e) <=> Holds(ord, e) /\ e \in unseen
    BY KeepMembers
  <2> HIDE DEF q
  <2>4. Len(q) \in Nat /\ \E i \in 1..Len(q) : q[i] = b
    <3>1. Holds(q, b)
      BY <2>1, <2>2, <2>3
    <3> QED BY <2>3, <3>1, LenProperties DEF Holds
  <2>5. 1 \in 1..Len(q)
    BY <2>4
  <2>6. Holds(q, q[1]) /\ q[1] \in Node
    BY SMTT(30), <2>3, <2>5, ElementOfSeq DEF Holds
  <2> QED BY <2>2, <2>3, <2>6
<1>2. /\ roots \in Seq(Node) /\ Len(roots) = t.at + 1 /\ roots[t.at + 1] = x
      /\ \A i \in 1..t.at : roots[i] = t.roots[i]
  <2> DEFINE r == t.roots
             a == t.at
  <2>1. r \in Seq(Node) /\ a \in Nat /\ a <= Len(r) /\ roots = SubSeq(r, 1, a) \o <<x>>
    BY TreeTypes DEF TreeRec
  <2> HIDE DEF r, a
  <2>2. Adds(roots, r, a, x)
    BY <1>1, <2>1, ListMore
  <2> QED BY <2>2 DEF r, a, Adds
<1>3. \A i \in 1..Len(t.roots) : t.at < i => Seen(t, t.roots[i])
  BY LeftFacts
<1> QED BY <1>1, <1>2, <1>3 DEF AddedTo

\* A root has been chosen and visited.
Chosen(ord, t, u, x, roots, more) ==
    /\ Grown(ord, t, u, x)
    /\ u.roots = roots /\ u.at = t.at + 1
    /\ u.extra = (t.extra \/ more) /\ u.home = t.home /\ u.again = t.again

\* The root list moves on.
Rooted(t, v, roots, more) ==
    /\ v \in TreeRec
    /\ v.visit = t.visit /\ v.desc = t.desc /\ v.pre = t.pre /\ v.stack = t.stack
    /\ v.index = t.index /\ v.rpost = t.rpost
    /\ v.roots = roots /\ v.at = t.at + 1
    /\ v.extra = (t.extra \/ more) /\ v.home = t.home /\ v.again = t.again

\* The tree with the new list of roots
LEMMA ChosenTree ==
    ASSUME NEW t \in TreeRec, NEW roots \in Seq(Node), NEW more \in BOOLEAN,
           NEW v, v = [t EXCEPT !.roots = roots, !.at = @ + 1, !.extra = @ \/ more]
    PROVE  Rooted(t, v, roots, more)
<1>1. t.at + 1 \in Nat /\ (t.extra \/ more) \in BOOLEAN
  BY DEF TreeRec
<1> DEFINE a == t.at + 1
           e == t.extra \/ more
<1>2. v = [t EXCEPT !.roots = roots, !.at = a, !.extra = e]
  BY DEF TreeRec
<1>3. a \in Nat /\ e \in BOOLEAN
  BY <1>1
<1> HIDE DEF a, e
<1>4. /\ v \in TreeRec
      /\ v.visit = t.visit /\ v.desc = t.desc /\ v.pre = t.pre /\ v.stack = t.stack
      /\ v.index = t.index /\ v.rpost = t.rpost
      /\ v.roots = roots /\ v.at = a
      /\ v.extra = e /\ v.home = t.home /\ v.again = t.again
  BY Zenon, <1>2, <1>3 DEF TreeRec
<1> QED BY <1>4 DEF a, e, Rooted

\* The tree after a root is picked and visited
LEMMA PickedFacts ==
    ASSUME NEW ord, NEW t \in TreeRec, NEW roots \in Seq(Node), NEW more \in BOOLEAN,
           NEW x \in Node, Holds(ord, x), ~Seen(t, x),
           NEW v, v = [t EXCEPT !.roots = roots, !.at = @ + 1, !.extra = @ \/ more],
           NEW u, u = Visit(v, x)
    PROVE  Chosen(ord, t, u, x, roots, more)
<1> DEFINE e == [bl |-> x, edge |-> 0]
           n == Len(t.stack)
<1>1. /\ v \in TreeRec
      /\ v.visit = t.visit /\ v.desc = t.desc /\ v.pre = t.pre /\ v.stack = t.stack
      /\ v.index = t.index /\ v.rpost = t.rpost
      /\ v.roots = roots /\ v.at = t.at + 1
      /\ v.extra = (t.extra \/ more) /\ v.home = t.home /\ v.again = t.again
  <2>1. Rooted(t, v, roots, more)
    BY ChosenTree
  <2> QED BY <2>1 DEF Rooted
<1>2. Pushed(v, u, x)
  BY <1>1, VisitFacts
<1>3. /\ u \in TreeRec
      /\ u.visit = [t.visit EXCEPT ![x] = Len(t.pre)] /\ u.desc = [t.desc EXCEPT ![x] = 1]
      /\ u.index = t.index /\ u.rpost = t.rpost
      /\ u.pre = Append(t.pre, x) /\ u.stack = Append(t.stack, e)
      /\ u.roots = roots /\ u.at = t.at + 1
      /\ u.extra = (t.extra \/ more) /\ u.home = t.home /\ u.again = t.again
  BY <1>1, <1>2 DEF Pushed
<1>4. e \in [bl : Node, edge : Nat] /\ e.bl = x /\ e.edge = 0
  OBVIOUS
<1>5. /\ t.pre \in Seq(Node) /\ t.visit \in [Node -> Int] /\ t.desc \in [Node -> Nat]
      /\ t.stack \in Seq([bl : Node, edge : Nat])
  BY DEF TreeRec
<1> HIDE DEF e
<1>6. /\ Len(u.pre) = Len(t.pre) + 1 /\ u.pre[Len(t.pre) + 1] = x
      /\ \A i \in 1..Len(t.pre) : u.pre[i] = t.pre[i]
  <2>1. u.pre = Append(t.pre, x)
    BY <1>3
  <2>2. /\ Len(Append(t.pre, x)) = Len(t.pre) + 1 /\ Append(t.pre, x)[Len(t.pre) + 1] = x
        /\ \A i \in 1..Len(t.pre) : Append(t.pre, x)[i] = t.pre[i]
    BY <1>5, AppendProperties
  <2> QED BY <2>1, <2>2
<1>7. /\ Len(u.stack) = n + 1 /\ u.stack[n + 1] = e
      /\ \A i \in 1..n : u.stack[i] = t.stack[i]
  <2> DEFINE s == t.stack
  <2>1. s \in Seq([bl : Node, edge : Nat]) /\ u.stack = Append(s, e) /\ Len(s) = n
    BY <1>3, <1>5
  <2> HIDE DEF s, n
  <2>2. /\ Len(Append(s, e)) = Len(s) + 1 /\ Append(s, e)[Len(s) + 1] = e
        /\ \A i \in 1..Len(s) : Append(s, e)[i] = s[i]
    BY <1>4, <2>1, AppendProperties
  <2>3. Len(u.stack) = n + 1 /\ u.stack[n + 1] = e /\ \A i \in 1..n : u.stack[i] = s[i]
    BY <2>1, <2>2
  <2> QED BY <2>3 DEF s
<1>8. /\ \A y \in Node : y # x => u.visit[y] = t.visit[y] /\ u.desc[y] = t.desc[y]
      /\ u.visit[x] = Len(t.pre) /\ u.desc[x] = 1
  BY Zenon, <1>3, <1>5
<1>9. /\ Len(u.stack) = Len(t.stack) + 1
      /\ u.stack[Len(t.stack) + 1].bl = x /\ u.stack[Len(t.stack) + 1].edge = 0
      /\ \A i \in 1..Len(t.stack) : u.stack[i].bl = t.stack[i].bl
  BY <1>4, <1>7
<1>10. u \in TreeRec /\ u.index = t.index /\ u.rpost = t.rpost
  BY SMTT(30), <1>3
<1>11. Grown(ord, t, u, x)
  BY <1>6, <1>8, <1>9, <1>10 DEF Grown
<1> QED BY <1>3, <1>11 DEF Chosen

\* When the stack is empty, what has been seen is shut.
LEMMA SeenShut ==
    ASSUME NEW ou, NEW inn, NEW ord, NEW t, NEW lab, GraphOK(ou, inn, ord),
           t \in TreeRec, StackOK(ou, t), EdgesOK(ou, t, lab), Len(t.stack) = 0
    PROVE  Shut(ou, {b \in Node : Seen(t, b)})
<1> SUFFICES ASSUME NEW p \in SlotsOf(ou), Seen(t, p[1])
             PROVE  Dest(ou, p) \in Node /\ Seen(t, Dest(ou, p))
  BY DEF Shut
<1>1. p[1] \in Node /\ Dest(ou, p) \in Node
  BY SlotType
<1>2. Fin(t, p[1])
  <2>1. \A b \in Node : ~Held(t, b)
    BY DEF Held
  <2> QED BY <1>1, <2>1 DEF StackOK
<1>3. Explored(t, p)
  BY <1>2 DEF Explored
<1>4. EdgeOK(t, p[1], Dest(ou, p), lab[p[1]][p[2]])
  BY <1>3 DEF EdgesOK
<1> QED BY <1>1, <1>4 DEF EdgeOK

\* No slot of a block that has just been visited is explored.
LEMMA ChosenExplored ==
    ASSUME NEW ord, NEW ou, NEW t, NEW u, NEW x, Grown(ord, t, u, x), Numbers(ord, t),
           Len(t.stack) = 0, NEW q \in SlotsOf(ou), q[1] \in Node
    PROVE  Explored(u, q) <=> Explored(t, q)
<1>0. /\ t \in TreeRec /\ x \in Node /\ ~Seen(t, x)
      /\ Len(u.stack) = Len(t.stack) + 1
      /\ u.stack[Len(t.stack) + 1].bl = x /\ u.stack[Len(t.stack) + 1].edge = 0
  BY DEF Grown
<1>1. Len(u.stack) = 1 /\ u.stack[1].bl = x /\ u.stack[1].edge = 0
  BY <1>0
<1>2. q[2] \in Nat /\ q[2] >= 1
  BY SpanningTreeAssumption DEF SlotsOf
<1>3. (Seen(u, q[1]) <=> Seen(t, q[1]) \/ q[1] = x) /\ (Fin(u, q[1]) <=> Fin(t, q[1]))
  BY GrownSeen
<1>4. ~Fin(t, x)
  BY <1>0 DEF Numbers
<1>5. ~\E i \in 1..Len(u.stack) : u.stack[i].bl = q[1] /\ q[2] <= u.stack[i].edge
  <2> SUFFICES ASSUME NEW i \in 1..Len(u.stack), q[2] <= u.stack[i].edge PROVE FALSE
    OBVIOUS
  <2>1. i = 1
    BY <1>1
  <2> QED BY <1>1, <1>2, <2>1
<1>6. ~\E i \in 1..Len(t.stack) : t.stack[i].bl = q[1] /\ q[2] <= t.stack[i].edge
  OBVIOUS
<1> QED BY <1>0, <1>3, <1>4, <1>5, <1>6 DEF Explored

\* Where the next root comes from
NextRoot(ord, t, roots, more) ==
    \/ ~more /\ \E m \in Nat : FromList(t, roots, m)
    \/ more /\ AddedTo(ord, t, roots)

\* On the first pass the list is worked off, and then it grows.
LEMMA FirstPass ==
    ASSUME NEW ou, NEW inn, NEW ord, NEW st, NEW t \in TreeRec, NEW lab, NEW roots, NEW more,
           RootsOK(ou, ord, t, lab), RootList(ou, inn, ord, st, t), ~t.again,
           NextRoot(ord, t, roots, more)
    PROVE  /\ t.home <= Len(roots) /\ \A i \in 1..t.home : roots[i] = t.roots[i]
           /\ \/ ~more /\ ~t.extra /\ t.at < t.home /\ Len(roots) = t.home
              \/ more /\ t.at = Len(t.roots) /\ t.at >= t.home /\ Len(roots) = t.at + 1
<1> DEFINE n == Len(t.roots)
           a == t.at
           h == t.home
<1>1. n \in Nat /\ a \in Nat /\ h \in Nat /\ a <= n
  BY TreeTypes DEF RootsOK
<1>2. /\ h >= 1 /\ h <= n
      /\ \A i \in 1..h : i > a => ~Seen(t, t.roots[i])
      /\ (t.extra /\ a = n /\ a > h) \/ (~t.extra /\ a <= h /\ n = h)
  BY DEF RootList
<1>3. CASE ~more /\ \E m \in Nat : FromList(t, roots, m)
  <2>1. PICK m \in Nat : FromList(t, roots, m)
    BY <1>3
  <2>2. /\ m > a /\ m <= n
        /\ \A i \in 1..n : a < i /\ i < m => Seen(t, t.roots[i])
        /\ Len(roots) = a + (n - m + 1)
        /\ \A i \in 1..Len(roots) : roots[i] = IF i <= a THEN t.roots[i] ELSE t.roots[i - a + m - 1]
    BY <2>1 DEF FromList
  <2> HIDE DEF n, a, h
  <2>3. a < n /\ ~t.extra /\ a < h /\ n = h
    BY <1>1, <1>2, <2>2
  <2>4. m = a + 1
    <3>1. a + 1 \in 1..h /\ a + 1 \in 1..n /\ a + 1 > a
      BY <1>1, <2>3
    <3>2. ~Seen(t, t.roots[a + 1])
      BY <1>2, <3>1
    <3>3. ~(a + 1 < m)
      BY <1>1, <2>2, <3>1, <3>2
    <3> QED BY <1>1, <2>2, <3>3
  <2>5. Len(roots) = h
    BY <1>1, <2>2, <2>3, <2>4
  <2>6. \A i \in 1..h : roots[i] = t.roots[i]
    <3> SUFFICES ASSUME NEW i \in 1..h PROVE roots[i] = t.roots[i]
      OBVIOUS
    <3>1. i - a + m - 1 = i
      BY <1>1, <2>4
    <3> QED BY <2>2, <2>5, <3>1
  <2>7. h <= h
    BY <1>1
  <2> QED BY <1>3, <2>3, <2>5, <2>6, <2>7 DEF a, h
<1>4. CASE more /\ AddedTo(ord, t, roots)
  <2>1. /\ \A i \in 1..n : a < i => Seen(t, t.roots[i])
        /\ Len(roots) = a + 1
        /\ \A i \in 1..a : roots[i] = t.roots[i]
    BY <1>4 DEF AddedTo
  <2> HIDE DEF n, a, h
  <2>2. ~(a < n /\ a < h)
    <3> SUFFICES ASSUME a < n, a < h PROVE FALSE
      OBVIOUS
    <3>1. a + 1 \in 1..h /\ a + 1 \in 1..n /\ a < a + 1 /\ a + 1 > a
      BY <1>1
    <3> QED BY <1>2, <2>1, <3>1
  <2>3. a = n /\ a >= h
    BY <1>1, <1>2, <2>2
  <2>4. \A i \in 1..h : roots[i] = t.roots[i]
    BY <1>1, <2>1, <2>3
  <2>5. h <= Len(roots)
    BY <1>1, <2>1, <2>3
  <2> QED BY <1>4, <2>1, <2>3, <2>4, <2>5 DEF a, h, n
<1> QED BY <1>3, <1>4 DEF NextRoot

\* A graph as it was built needs no extra root.
LEMMA BuiltNeedsOne ==
    ASSUME NEW ou, NEW inn, NEW ord, NEW t, NEW lab, GraphOK(ou, inn, ord),
           t \in TreeRec, StackOK(ou, t), EdgesOK(ou, t, lab), Len(t.stack) = 0,
           RootList(ou, inn, ord, "built", t), RootsOK(ou, ord, t, lab), t.at >= t.home,
           Lives(ou) = Node
    PROVE  \A b \in Node : Seen(t, b)
<1> DEFINE C == {b \in Node : Seen(t, b)}
<1>1. t.home = 1 /\ ~t.again /\ t.at \in Nat
  BY TreeTypes DEF RootList
<1>2. t.roots[1] = Entry
  BY <1>1 DEF RootList
<1>3. Seen(t, Entry)
  <2>1. 1 \in 1..t.at
    BY <1>1
  <2> QED BY <1>2, <2>1 DEF RootsOK
<1>4. Shut(ou, C)
  BY SeenShut
<1>5. C \in SUBSET Node /\ Entry \in C
  BY <1>3, EntryFacts
<1> HIDE DEF C
<1>6. \A b \in Lives(ou) : b \in C
  BY <1>4, <1>5 DEF Lives
<1> QED BY <1>6 DEF C

\* On the second pass the head, last in the list, is always still to come.
LEMMA SecondPass ==
    ASSUME NEW ou, NEW inn, NEW ord, NEW st, NEW t, NEW lab, NEW roots, NEW more,
           GraphOK(ou, inn, ord), t \in TreeRec, StackOK(ou, t), EdgesOK(ou, t, lab), Len(t.stack) = 0,
           RootsOK(ou, ord, t, lab), RootList(ou, inn, ord, st, t), t.again, inn[Entry] = <<>>,
           NextRoot(ord, t, roots, more), \E b \in Node : Holds(ord, b) /\ ~Seen(t, b)
    PROVE  /\ ~more /\ Len(roots) >= t.at + 1
           /\ roots[Len(roots)] = Entry
           /\ \A i \in 1..(Len(roots) - 1) : roots[i] # Entry
           /\ \A b \in Node : Holds(t.roots, b) => Seen(t, b) \/ Holds(roots, b)
<1> DEFINE n == Len(t.roots)
           a == t.at
<1>1. n \in Nat /\ a \in Nat /\ a <= n /\ \A i \in 1..n : t.roots[i] \in Node
  BY TreeTypes DEF RootsOK
<1>2. /\ n >= 1 /\ t.roots[n] = Entry
      /\ a < n => ~Seen(t, Entry)
      /\ \A i \in 1..(n - 1) : t.roots[i] # Entry
      /\ \A C \in SUBSET Node :
            Shut(ou, C) /\ (\A b \in Node : Seen(t, b) \/ Holds(t.roots, b) => b \in C)
               => \A b \in Node : Holds(ord, b) => b \in C
  BY DEF RootList
<1>3. \A i \in 1..a : Seen(t, t.roots[i])
  BY DEF RootsOK
<1>4. a < n
  <2> SUFFICES ASSUME ~(a < n) PROVE FALSE
    OBVIOUS
  <2> DEFINE C == {b \in Node : Seen(t, b)}
  <2>1. Shut(ou, C)
    BY SeenShut
  <2>2. a = n
    BY <1>1
  <2>3. \A b \in Node : Seen(t, b) \/ Holds(t.roots, b) => b \in C
    BY <1>3, <2>2 DEF Holds
  <2>4. C \in SUBSET Node
    OBVIOUS
  <2> HIDE DEF C
  <2>5. \A b \in Node : Holds(ord, b) => b \in C
    BY <1>2, <2>1, <2>3, <2>4
  <2> QED BY <2>5 DEF C
<1>5. ~Seen(t, Entry)
  BY <1>2, <1>4
<1>6. ~more /\ \E m \in Nat : FromList(t, roots, m)
  <2>1. ~AddedTo(ord, t, roots)
    <3>1. n \in 1..n
      BY <1>1, <1>2
    <3> QED BY <1>2, <1>4, <1>5, <3>1 DEF AddedTo
  <2> QED BY <2>1 DEF NextRoot
<1>7. PICK m \in Nat : FromList(t, roots, m)
  BY <1>6
<1>8. /\ m > a /\ m <= n /\ ~Seen(t, t.roots[m])
      /\ \A i \in 1..n : a < i /\ i < m => Seen(t, t.roots[i])
      /\ Len(roots) = a + (n - m + 1)
      /\ \A i \in 1..Len(roots) : roots[i] = IF i <= a THEN t.roots[i] ELSE t.roots[i - a + m - 1]
  BY <1>7 DEF FromList
<1> HIDE DEF n, a
<1> DEFINE l == a + (n - m + 1)
<1>9. l \in Nat /\ l >= a + 1 /\ Len(roots) = l
  BY <1>1, <1>8
<1>10. roots[l] = Entry
  <2>1. l \in 1..l /\ ~(l <= a) /\ l - a + m - 1 = n
    BY <1>1, <1>8, <1>9
  <2> QED BY <1>2, <1>8, <1>9, <2>1
<1>11. ASSUME NEW i \in 1..(l - 1) PROVE roots[i] # Entry
  <2>1. CASE i <= a
    <3>1. i \in 1..l /\ i \in 1..(n - 1)
      BY SMTT(30), <1>1, <1>4, <1>9, <2>1
    <3> QED BY <1>2, <1>8, <1>9, <2>1, <3>1
  <2>2. CASE ~(i <= a)
    <3>1. i \in 1..l /\ i - a + m - 1 \in 1..(n - 1)
      BY <1>1, <1>8, <1>9, <2>2
    <3> QED BY <1>2, <1>8, <1>9, <2>2, <3>1
  <2> QED BY <2>1, <2>2
<1>12. ASSUME NEW b \in Node, Holds(t.roots, b) PROVE Seen(t, b) \/ Holds(roots, b)
  <2>1. PICK i \in 1..n : t.roots[i] = b
    BY <1>12 DEF Holds, n
  <2>2. CASE i <= a
    <3>1. i \in 1..a
      BY <1>1, <2>2
    <3> QED BY <1>3, <2>1, <3>1 DEF a
  <2>3. CASE a < i /\ i < m
    BY <1>8, <2>1, <2>3
  <2>4. CASE ~(i <= a) /\ ~(i < m)
    <3>1. PICK j \in 1..l : j = i - m + 1 + a
      BY <1>1, <1>8, <1>9, <2>4
    <3>2. ~(j <= a) /\ j - a + m - 1 = i
      BY SMTT(30), <1>1, <1>8, <2>4, <3>1
    <3>3. roots[j] = b
      BY <1>8, <1>9, <2>1, <3>2
    <3> QED BY <1>9, <3>3 DEF Holds
  <2> QED BY <1>1, <2>2, <2>3, <2>4
<1> HIDE DEF l
<1> QED BY <1>6, <1>9, <1>10, <1>11, <1>12 DEF a

\* Picking a root keeps what is known of the list of roots,
LEMMA ChosenRootList ==
    ASSUME NEW ou, NEW inn, NEW ord, NEW st, NEW t, NEW lab, NEW roots \in Seq(Node), NEW more \in BOOLEAN,
           NEW x, NEW u, GraphOK(ou, inn, ord), HistoryOK(ou, inn, ord, st),
           StackOK(ou, t), EdgesOK(ou, t, lab), Len(t.stack) = 0,
           RootsOK(ou, ord, t, lab), RootList(ou, inn, ord, st, t),
           NextRoot(ord, t, roots, more), Chosen(ord, t, u, x, roots, more), x = roots[t.at + 1]
    PROVE  RootList(ou, inn, ord, st, u)
<1>0. /\ t \in TreeRec /\ Grown(ord, t, u, x) /\ x \in Node /\ Holds(ord, x) /\ ~Seen(t, x)
      /\ u.roots = roots /\ u.at = t.at + 1
      /\ u.extra = (t.extra \/ more) /\ u.home = t.home /\ u.again = t.again
  BY DEF Chosen, Grown
<1>1. /\ Len(t.roots) \in Nat /\ t.at \in Nat /\ t.home \in Nat /\ t.at <= Len(t.roots)
      /\ \A i \in 1..Len(t.roots) : t.roots[i] \in Node
  BY <1>0, TreeTypes DEF RootsOK
<1>2. \A y \in Node : Seen(u, y) <=> Seen(t, y) \/ y = x
  BY <1>0, GrownSeen
<1>3. Len(roots) \in Nat /\ \A i \in 1..Len(roots) : roots[i] \in Node
  BY LenProperties, ElementOfSeq
<1>4. ASSUME ~t.again
      PROVE  /\ t.home >= 1 /\ t.home <= Len(roots)
             /\ \A i \in 2..t.home : Len(inn[roots[i]]) = 0
             /\ t.home >= 2 => Len(inn[roots[1]]) = 0
             /\ \A i, j \in 1..t.home : roots[i] = roots[j] => i = j
             /\ \A i \in 1..t.home : i > t.at + 1 => ~Seen(u, roots[i])
             /\ IF t.extra \/ more THEN t.at + 1 = Len(roots) /\ t.at + 1 > t.home
                                   ELSE t.at + 1 <= t.home /\ Len(roots) = t.home
             /\ inn[Entry] = <<>> \/ st = "built" => roots[t.home] = Entry
             /\ st = "built" => t.home = 1 /\ ~(t.extra \/ more)
  <2> DEFINE h == t.home
             a == t.at
  <2>1. /\ h >= 1 /\ h <= Len(t.roots)
        /\ \A i \in 2..h : Len(inn[t.roots[i]]) = 0
        /\ h >= 2 => Len(inn[t.roots[1]]) = 0
        /\ \A i, j \in 1..h : t.roots[i] = t.roots[j] => i = j
        /\ \A i \in 1..h : i > a => ~Seen(t, t.roots[i])
        /\ inn[Entry] = <<>> \/ st = "built" => t.roots[h] = Entry
        /\ st = "built" => h = 1 /\ ~t.extra
    BY <1>4 DEF RootList
  <2>2. /\ h <= Len(roots) /\ \A i \in 1..h : roots[i] = t.roots[i]
        /\ \/ ~more /\ ~t.extra /\ a < h /\ Len(roots) = h
           \/ more /\ a = Len(t.roots) /\ a >= h /\ Len(roots) = a + 1
    BY <1>0, <1>4, FirstPass
  <2> HIDE DEF h, a
  <2>3. h \in Nat /\ a \in Nat
    BY <1>1 DEF h, a
  <2>4. \A i \in 2..h : i \in 1..h
    BY <2>3
  <2>5. \A i \in 2..h : Len(inn[roots[i]]) = 0
    BY <2>1, <2>2, <2>4
  <2>6. h \in 1..h /\ 1 \in 1..h
    BY <2>1, <2>3
  <2>7. /\ h >= 2 => Len(inn[roots[1]]) = 0
        /\ \A i, j \in 1..h : roots[i] = roots[j] => i = j
        /\ inn[Entry] = <<>> \/ st = "built" => roots[h] = Entry
    BY Zenon, <2>1, <2>2, <2>6
  <2>8. \A i \in 1..h : i > a + 1 => ~Seen(u, roots[i])
    <3> SUFFICES ASSUME NEW i \in 1..h, i > a + 1 PROVE ~Seen(u, roots[i])
      OBVIOUS
    <3>1. i > a /\ a + 1 \in 1..h /\ i # a + 1 /\ i \in 1..Len(roots)
      BY <1>3, <2>2, <2>3
    <3>2. roots[i] # x
      BY <2>7, <3>1 DEF a
    <3>3. ~Seen(t, roots[i]) /\ roots[i] \in Node
      BY <1>3, <2>1, <2>2, <3>1
    <3> QED BY <1>2, <3>2, <3>3
  <2>9. IF t.extra \/ more THEN a + 1 = Len(roots) /\ a + 1 > h
                           ELSE a + 1 <= h /\ Len(roots) = h
    BY <2>2, <2>3
  <2>10. ASSUME st = "built" PROVE h = 1 /\ ~(t.extra \/ more)
    <3>1. h = 1 /\ ~t.extra
      BY <2>1, <2>10
    <3>2. ~more
      <4> SUFFICES ASSUME more PROVE FALSE
        OBVIOUS
      <4>1. t.at >= t.home
        BY <2>2 DEF a, h
      <4>2. Lives(ou) = Node
        BY <2>10 DEF HistoryOK
      <4>3. RootList(ou, inn, ord, "built", t)
        BY <2>10
      <4>4. \A b \in Node : Seen(t, b)
        BY <1>0, <4>1, <4>2, <4>3, BuiltNeedsOne
      <4> QED BY <1>0, <4>4
    <3> QED BY <3>1, <3>2
  <2> QED BY <2>1, <2>2, <2>5, <2>7, <2>8, <2>9, <2>10 DEF h, a
<1>5. ASSUME t.again, inn[Entry] = <<>>
      PROVE  /\ ~(t.extra \/ more)
             /\ Len(roots) >= 1 /\ roots[Len(roots)] = Entry
             /\ t.at + 1 < Len(roots) => ~Seen(u, Entry)
             /\ \A i \in 1..(Len(roots) - 1) : roots[i] # Entry
             /\ \A C \in SUBSET Node :
                   Shut(ou, C) /\ (\A b \in Node : Seen(u, b) \/ Holds(roots, b) => b \in C)
                      => \A b \in Node : Holds(ord, b) => b \in C
  <2>1. /\ ~more /\ Len(roots) >= t.at + 1
        /\ roots[Len(roots)] = Entry
        /\ \A i \in 1..(Len(roots) - 1) : roots[i] # Entry
        /\ \A b \in Node : Holds(t.roots, b) => Seen(t, b) \/ Holds(roots, b)
    BY <1>0, <1>5, SecondPass
  <2>2. /\ ~t.extra
        /\ t.at < Len(t.roots) => ~Seen(t, Entry)
        /\ \A C \in SUBSET Node :
              Shut(ou, C) /\ (\A b \in Node : Seen(t, b) \/ Holds(t.roots, b) => b \in C)
                 => \A b \in Node : Holds(ord, b) => b \in C
    BY <1>5 DEF RootList
  <2>3. Len(roots) >= 1
    BY <1>1, <1>3, <2>1
  <2>4. ASSUME t.at + 1 < Len(roots) PROVE ~Seen(u, Entry)
    <3>1. t.at + 1 \in 1..(Len(roots) - 1)
      BY <1>1, <1>3, <2>4
    <3>2. x # Entry
      BY <2>1, <3>1
    <3>3. ~Seen(t, Entry)
      <4>1. PICK m \in Nat : FromList(t, roots, m)
        BY <2>1 DEF NextRoot
      <4>2. m > t.at /\ m <= Len(t.roots)
        BY <4>1 DEF FromList
      <4> QED BY <1>1, <2>2, <4>2
    <3> QED BY <1>2, <3>2, <3>3, EntryFacts
  <2>5. ASSUME NEW C \in SUBSET Node, Shut(ou, C),
               \A b \in Node : Seen(u, b) \/ Holds(roots, b) => b \in C
        PROVE  \A b \in Node : Holds(ord, b) => b \in C
    <3>1. \A b \in Node : Seen(t, b) \/ Holds(t.roots, b) => b \in C
      BY <1>2, <2>1, <2>5
    <3> QED BY <2>2, <2>5, <3>1
  <2> QED BY <2>1, <2>2, <2>3, <2>4, <2>5
<1>6. st = "built" => t.home = 1 /\ ~t.again
  BY DEF RootList
<1> QED BY Zenon, <1>0, <1>4, <1>5, <1>6 DEF RootList

\* and what was reached from them.
LEMMA ChosenRoots ==
    ASSUME NEW ou, NEW ord, NEW t, NEW lab, NEW roots \in Seq(Node), NEW more \in BOOLEAN,
           NEW x, NEW u, Numbers(ord, t), Len(t.stack) = 0, RootsOK(ou, ord, t, lab),
           NextRoot(ord, t, roots, more), Chosen(ord, t, u, x, roots, more), x = roots[t.at + 1],
           \A q \in SlotsOf(ou) : Explored(t, q) => Explored(u, q)
    PROVE  RootsOK(ou, ord, u, lab)
<1>0. /\ t \in TreeRec /\ Grown(ord, t, u, x) /\ x \in Node /\ Holds(ord, x) /\ ~Seen(t, x)
      /\ u.roots = roots /\ u.at = t.at + 1
      /\ Len(u.pre) = Len(t.pre) + 1 /\ u.pre[Len(t.pre) + 1] = x
      /\ \A i \in 1..Len(t.pre) : u.pre[i] = t.pre[i]
      /\ Len(u.stack) = Len(t.stack) + 1
      /\ u.stack[Len(t.stack) + 1].bl = x
  BY DEF Chosen, Grown
<1>1. /\ Len(t.pre) \in Nat /\ Len(t.roots) \in Nat /\ t.at \in Nat
      /\ \A i \in 1..Len(t.roots) : t.roots[i] \in Node
  BY <1>0, TreeTypes
<1>2. /\ t.at <= Len(t.roots)
      /\ \A i \in 1..Len(t.roots) : Holds(ord, t.roots[i])
      /\ \A i \in 1..t.at : Seen(t, t.roots[i])
      /\ \A i, j \in 1..t.at : t.roots[i] = t.roots[j] => i = j
      /\ Len(t.pre) = 0 <=> t.at = 0
      /\ t.at >= 1 => t.pre[1] = t.roots[1]
      /\ \A b \in Node : Seen(t, b) =>
            \/ \E i \in 1..t.at : t.roots[i] = b
            \/ \E p \in SlotsOf(ou) : Explored(t, p) /\ Dest(ou, p) = b /\ "tree" \in lab[p[1]][p[2]]
      /\ \A C \in SUBSET Node : Shut(ou, C) /\ (\A i \in 1..t.at : t.roots[i] \in C)
            => \A b \in Node : Seen(t, b) => b \in C
  BY DEF RootsOK
<1> DEFINE a == t.at
<1>3. /\ Len(roots) \in Nat /\ a + 1 <= Len(roots)
      /\ \A i \in 1..a : roots[i] = t.roots[i]
      /\ \A i \in 1..Len(roots) : Holds(ord, roots[i])
  <2>1. Len(roots) \in Nat
    BY LenProperties
  <2>2. CASE \E m \in Nat : FromList(t, roots, m)
    <3>1. PICK m \in Nat : FromList(t, roots, m)
      BY <2>2
    <3>2. /\ m > a /\ m <= Len(t.roots)
          /\ Len(roots) = a + (Len(t.roots) - m + 1)
          /\ \A i \in 1..Len(roots) : roots[i] = IF i <= a THEN t.roots[i] ELSE t.roots[i - a + m - 1]
      BY <3>1 DEF FromList
    <3> HIDE DEF a
    <3>3. a \in Nat /\ a <= Len(t.roots)
      BY <1>1, <1>2 DEF a
    <3>4. a + 1 <= Len(roots) /\ \A i \in 1..a : roots[i] = t.roots[i]
      BY SMTT(60), <1>1, <3>2, <3>3
    <3>5. ASSUME NEW i \in 1..Len(roots) PROVE Holds(ord, roots[i])
      <4>1. CASE i <= a
        <5>1. i \in 1..Len(t.roots)
          BY <1>1, <3>3, <4>1
        <5> QED BY <1>2, <3>2, <4>1, <5>1
      <4>2. CASE ~(i <= a)
        <5>1. i - a + m - 1 \in 1..Len(t.roots)
          BY <1>1, <3>2, <3>3, <4>2
        <5> QED BY <1>2, <3>2, <4>2, <5>1
      <4> QED BY <4>1, <4>2
    <3> QED BY <2>1, <3>4, <3>5
  <2>3. CASE AddedTo(ord, t, roots)
    <3>1. /\ Len(roots) = a + 1 /\ \A i \in 1..a : roots[i] = t.roots[i]
          /\ Holds(ord, roots[a + 1])
      BY <2>3 DEF AddedTo
    <3> HIDE DEF a
    <3>3. a \in Nat /\ a <= Len(t.roots)
      BY <1>1, <1>2 DEF a
    <3>4. ASSUME NEW i \in 1..Len(roots) PROVE Holds(ord, roots[i])
      <4>1. CASE i = a + 1
        BY <3>1, <4>1
      <4>2. CASE i # a + 1
        <5>1. i \in 1..a /\ i \in 1..Len(t.roots)
          BY <1>1, <3>1, <3>3, <4>2
        <5> QED BY <1>2, <3>1, <5>1
      <4> QED BY <4>1, <4>2
    <3> QED BY <2>1, <3>1, <3>3, <3>4
  <2> QED BY <2>2, <2>3 DEF NextRoot
<1>4. \A i \in 1..(a + 1) : roots[i] = IF i = a + 1 THEN x ELSE t.roots[i]
  BY <1>1, <1>3
<1>5. \A i \in 1..a : i \in 1..Len(t.roots) /\ t.roots[i] # x
  BY SMTT(30), <1>0, <1>1, <1>2
<1>6. \A i \in 1..(a + 1) : i = a + 1 \/ i \in 1..a
  BY <1>1
<1>7. \A y \in Node : Seen(u, y) <=> Seen(t, y) \/ y = x
  BY <1>0, GrownSeen
<1>8. \A i \in 1..(a + 1) : Seen(u, roots[i])
  BY SMTT(30), <1>0, <1>1, <1>2, <1>4, <1>5, <1>6, <1>7
<1>9. \A i, j \in 1..(a + 1) : roots[i] = roots[j] => i = j
  BY <1>2, <1>4, <1>5, <1>6
<1>10. Len(u.pre) # 0 /\ a + 1 # 0
  BY <1>0, <1>1
<1>11. u.pre[1] = roots[1]
  <2>1. CASE a = 0
    <3>1. Len(t.pre) = 0
      BY <1>2, <2>1
    <3> QED BY <1>0, <2>1, <3>1
  <2>2. CASE a # 0
    <3>1. Len(t.pre) >= 1 /\ a >= 1 /\ 1 \in 1..Len(t.pre) /\ 1 \in 1..a
      BY <1>1, <1>2, <2>2
    <3> QED BY <1>0, <1>2, <1>3, <3>1
  <2> QED BY <2>1, <2>2
<1>12. Len(u.stack) = 1 /\ u.stack[1].bl = roots[a + 1] /\ a + 1 >= 1
  BY <1>0, <1>1
<1>13. ASSUME NEW b \in Node, Seen(u, b)
       PROVE  \/ \E i \in 1..(a + 1) : roots[i] = b
              \/ \E p \in SlotsOf(ou) : Explored(u, p) /\ Dest(ou, p) = b /\ "tree" \in lab[p[1]][p[2]]
  <2>1. CASE b = x
    <3>1. a + 1 \in 1..(a + 1)
      BY <1>1
    <3> QED BY <1>4, <2>1, <3>1
  <2>2. CASE b # x
    <3>1. Seen(t, b)
      BY <1>7, <1>13, <2>2
    <3>2. CASE \E i \in 1..a : t.roots[i] = b
      <4>1. \A i \in 1..a : i \in 1..(a + 1)
        BY <1>1
      <4> QED BY <1>3, <3>2, <4>1
    <3>3. CASE \E p \in SlotsOf(ou) : Explored(t, p) /\ Dest(ou, p) = b /\ "tree" \in lab[p[1]][p[2]]
      BY <3>3
    <3> QED BY <1>2, <3>1, <3>2, <3>3
  <2> QED BY <2>1, <2>2
<1>14. ASSUME NEW C \in SUBSET Node, Shut(ou, C), \A i \in 1..(a + 1) : roots[i] \in C,
              NEW b \in Node, Seen(u, b)
       PROVE  b \in C
  <2>1. a + 1 \in 1..(a + 1) /\ \A i \in 1..a : i \in 1..(a + 1)
    BY <1>1
  <2>2. \A i \in 1..a : t.roots[i] \in C
    BY <1>3, <1>14, <2>1
  <2>3. x \in C
    BY <1>4, <1>14, <2>1
  <2> QED BY <1>2, <1>7, <1>14, <2>2, <2>3
<1> QED BY SMTT(30), <1>0, <1>3, <1>8, <1>9, <1>10, <1>11, <1>12, <1>13, <1>14 DEF RootsOK

\* Picking a root keeps the pass right.
LEMMA ChosenKeeps ==
    ASSUME NEW ou, NEW inn, NEW ord, NEW st, NEW t, NEW lab, NEW roots \in Seq(Node), NEW more \in BOOLEAN,
           NEW x, NEW u, GraphOK(ou, inn, ord), HistoryOK(ou, inn, ord, st),
           PassOK(ou, inn, ord, st, t, lab), Len(t.stack) = 0,
           NextRoot(ord, t, roots, more), Chosen(ord, t, u, x, roots, more), x = roots[t.at + 1]
    PROVE  PassOK(ou, inn, ord, st, u, lab)
<1>0. /\ t \in TreeRec /\ Numbers(ord, t) /\ StackOK(ou, t) /\ Spans(t)
      /\ LabelType(ou, lab) /\ EdgesOK(ou, t, lab)
      /\ RootsOK(ou, ord, t, lab) /\ LiveOK(ou, t)
      /\ RootList(ou, inn, ord, st, t)
  BY DEF PassOK
<1>1. Grown(ord, t, u, x)
  BY DEF Chosen
<1>2. u \in TreeRec /\ x \in Node /\ ~Seen(t, x) /\ Len(u.stack) = Len(t.stack) + 1
      /\ u.stack[Len(t.stack) + 1].bl = x /\ u.stack[Len(t.stack) + 1].edge = 0
  BY <1>1 DEF Grown
<1>3. ord \in Seq(Node) /\ ou \in [Node -> Seq(Node)]
  BY DEF GraphOK
<1>4. Numbers(ord, u)
  BY <1>0, <1>1, <1>3, GrownNumbers
<1>5. Spans(u)
  BY <1>0, <1>1, GrownSpans
<1>6. StackOK(ou, u)
  <2>1. Len(u.stack) = 1 /\ u.stack[1].bl = x /\ u.stack[1].edge = 0
    BY <1>2
  <2>2. Len(ou[x]) \in Nat
    BY <1>2, <1>3, LenProperties
  <2>3. \A i \in 1..Len(u.stack) : u.stack[i].edge <= Len(ou[u.stack[i].bl])
    <3> SUFFICES ASSUME NEW i \in 1..Len(u.stack) PROVE u.stack[i].edge <= Len(ou[u.stack[i].bl])
      OBVIOUS
    <3>1. i = 1
      BY <2>1
    <3> QED BY <2>1, <2>2, <3>1
  <2> QED BY <1>0, <1>1, <1>3, <2>3, GrownStack
<1>7. \A q \in SlotsOf(ou) : Explored(u, q) <=> Explored(t, q)
  BY <1>0, <1>1, ChosenExplored, SlotType
<1>8. EdgesOK(ou, u, lab)
  <2> SUFFICES ASSUME NEW p \in SlotsOf(ou)
               PROVE  IF Explored(u, p) THEN EdgeOK(u, p[1], Dest(ou, p), lab[p[1]][p[2]])
                      ELSE lab[p[1]][p[2]] = {}
    BY DEF EdgesOK
  <2>1. p[1] \in Node /\ Dest(ou, p) \in Node
    BY SlotType
  <2>2. CASE Explored(t, p)
    <3>1. EdgeOK(t, p[1], Dest(ou, p), lab[p[1]][p[2]]) /\ Seen(t, p[1])
      BY <1>0, <2>2 DEF EdgesOK, Explored
    <3>2. EdgeOK(u, p[1], Dest(ou, p), lab[p[1]][p[2]])
      BY <1>0, <1>1, <2>1, <3>1, GrownEdge
    <3> QED BY <1>7, <2>2, <3>2
  <2>3. CASE ~Explored(t, p)
    BY <1>0, <1>7, <2>3 DEF EdgesOK
  <2> QED BY <2>2, <2>3
<1>9. RootsOK(ou, ord, u, lab)
  BY <1>0, <1>7, ChosenRoots
<1>10. LiveOK(ou, u)
  <2>1. Shut(ou, Lives(ou))
    BY LivesShut
  <2> QED BY <1>0, <1>1, <2>1, GrownLive
<1>11. RootList(ou, inn, ord, st, u)
  BY Zenon, <1>0, ChosenRootList
<1> QED BY <1>0, <1>2, <1>4, <1>5, <1>6, <1>8, <1>9, <1>10, <1>11 DEF PassOK

\* The next root
LEMMA PickRootInv ==
    ASSUME SpanInv, PickRoot
    PROVE  SpanInv'
<1> DEFINE unseen == {b \in Node : tree.visit[b] = -1}
           done == SubSeq(tree.roots, 1, tree.at)
           left == {i \in tree.at + 1..Len(tree.roots) : tree.roots[i] \in unseen}
           kept == IF left = {} THEN <<>> ELSE SubSeq(tree.roots, Nth(left, 1), Len(tree.roots))
           roots == done \o (IF kept = <<>> THEN <<Keep(order, unseen)[1]>> ELSE kept)
           more == kept = <<>>
           x == roots[tree.at + 1]
           v == [tree EXCEPT !.roots = roots, !.at = @ + 1, !.extra = @ \/ kept = <<>>]
<1>0. /\ GraphOK(out, ins, order) /\ PassOK(out, ins, order, stage, tree, label)
      /\ HistoryOK(out, ins, order, stage)
      /\ pc = "tree" /\ tree.stack = <<>> /\ Len(tree.pre) < Len(order)
      /\ tree \in TreeRec /\ LabelType(out, label)
      /\ irr \in IrrRec /\ ~irr.rebuild
      /\ Numbers(order, tree) /\ RootsOK(out, order, tree, label)
  BY DEF SpanInv, PickRoot, PassOK
<1>1. /\ tree' = Visit(v, x)
      /\ UNCHANGED <<graph, order, label, pc, irr, idom>>
  BY Zenon DEF PickRoot
<1>2. /\ out' = out /\ ins' = ins /\ stage' = stage /\ order' = order /\ pc' = pc /\ irr' = irr
      /\ label' = label
  BY <1>1 DEF graph
<1>3. Len(tree.stack) = 0
  BY <1>0, EmptySeq
<1>4. order \in Seq(Node) /\ \A i, j \in 1..Len(order) : order[i] = order[j] => i = j
  BY <1>0 DEF GraphOK
<1>5. \E b \in Node : Holds(order, b) /\ ~Seen(tree, b)
  <2>1. (\A b \in Node : Holds(order, b) => Seen(tree, b)) => Len(tree.pre) = Len(order)
    BY <1>0, <1>4, PreBound
  <2>2. Len(tree.pre) \in Nat
    BY <1>0, TreeTypes
  <2> QED BY <1>0, <2>1, <2>2
<1>6. left = Left(tree) /\ tree.at <= Len(tree.roots)
  BY <1>0 DEF Left, RootsOK
<1>7. v = [tree EXCEPT !.roots = roots, !.at = @ + 1, !.extra = @ \/ more] /\ more \in BOOLEAN
  BY SMTT(30)
<1>8. roots \in Seq(Node) /\ NextRoot(order, tree, roots, more)
  <2>1. CASE left = {}
    <3>1. kept = <<>> /\ roots = done \o <<Keep(order, unseen)[1]>>
      BY <2>1
    <3>2. roots \in Seq(Node) /\ AddedTo(order, tree, roots)
      BY Zenon, <1>0, <1>4, <1>5, <1>6, <2>1, <3>1, NextAdded
    <3> QED BY Zenon, <3>1, <3>2 DEF NextRoot
  <2>2. CASE left # {}
    <3>1. kept = SubSeq(tree.roots, Nth(Left(tree), 1), Len(tree.roots))
      BY <1>6, <2>2
    <3>2. kept # <<>>
      BY <1>0, <1>6, <2>2, <3>1, NextFromList
    <3>3. roots = done \o kept
      BY <3>2
    <3>4. roots \in Seq(Node) /\ \E m \in Nat : FromList(tree, roots, m)
      BY <1>0, <1>6, <2>2, <3>1, <3>3, NextFromList
    <3> QED BY <3>2, <3>4 DEF NextRoot
  <2> QED BY Zenon, <2>1, <2>2
<1> HIDE DEF unseen, done, left, kept, roots, more, x, v
<1>9. x \in Node /\ Holds(order, x) /\ ~Seen(tree, x)
  <2> DEFINE a == tree.at
             n == Len(tree.roots)
  <2>0. /\ a \in Nat /\ n \in Nat /\ a <= n /\ x = roots[a + 1]
        /\ \A i \in 1..n : Holds(order, tree.roots[i]) /\ tree.roots[i] \in Node
    BY <1>0, <1>6, TreeTypes DEF RootsOK, x
  <2>1. ASSUME NEW m \in Nat, FromList(tree, roots, m) PROVE x \in Node /\ Holds(order, x) /\ ~Seen(tree, x)
    <3>1. /\ m > a /\ m <= n /\ ~Seen(tree, tree.roots[m])
          /\ Len(roots) = a + (n - m + 1)
          /\ \A i \in 1..Len(roots) : roots[i] = IF i <= a THEN tree.roots[i] ELSE tree.roots[i - a + m - 1]
      BY <2>1 DEF FromList
    <3> HIDE DEF a, n
    <3>2. a + 1 \in 1..Len(roots) /\ ~(a + 1 <= a) /\ a + 1 - a + m - 1 = m /\ m \in 1..n
      BY <2>0, <3>1
    <3>3. x = tree.roots[m]
      BY <2>0, <3>1, <3>2
    <3> QED BY <2>0, <3>1, <3>2, <3>3
  <2>2. ASSUME AddedTo(order, tree, roots) PROVE x \in Node /\ Holds(order, x) /\ ~Seen(tree, x)
    <3>1. Holds(order, x) /\ ~Seen(tree, x)
      BY <2>0, <2>2 DEF AddedTo
    <3>2. \A i \in 1..Len(order) : order[i] \in Node
      BY <1>4, ElementOfSeq
    <3> QED BY <3>1, <3>2 DEF Holds
  <2> QED BY <1>8, <2>1, <2>2 DEF NextRoot
<1>10. Chosen(order, tree, tree', x, roots, more)
  BY <1>0, <1>1, <1>7, <1>8, <1>9, PickedFacts
<1>11. PassOK(out, ins, order, stage, tree', label)
  <2>1. x = roots[tree.at + 1]
    BY DEF x
  <2> QED BY <1>0, <1>3, <1>7, <1>8, <1>10, <2>1, ChosenKeeps
<1> QED BY SMTT(30), <1>0, <1>2, <1>11 DEF SpanInv

-----------------------------------------------------------------------------
(***************************************************************************)
(* EndPass                                                                  *)
(***************************************************************************)
\* Every block is numbered twice.
AllDone(ord, t) ==
    /\ t \in TreeRec /\ ord \in Seq(Node) /\ Len(ord) \in Nat /\ Len(ord) >= 1
    /\ Len(t.pre) = Len(ord) /\ Len(t.rpost) = Len(ord) /\ Len(t.stack) = 0
    /\ \A b \in Node : Holds(ord, b) => Seen(t, b)
    /\ \A b \in Node : Seen(t, b) => Fin(t, b) /\ Holds(ord, b)
    /\ t.at \in Nat /\ t.at >= 1 /\ Len(t.roots) \in Nat /\ t.at <= Len(t.roots)

\* When the stack is empty and the preorder is full the pass is done.
LEMMA PassDone ==
    ASSUME NEW ou, NEW inn, NEW ord, NEW st, NEW t, NEW lab,
           GraphOK(ou, inn, ord), PassOK(ou, inn, ord, st, t, lab),
           Len(t.stack) = 0, Len(t.pre) = Len(ord)
    PROVE  AllDone(ord, t)
<1>0. /\ t \in TreeRec /\ Numbers(ord, t) /\ StackOK(ou, t) /\ RootsOK(ou, ord, t, lab)
  BY DEF PassOK
<1>1. /\ ord \in Seq(Node) /\ \A i, j \in 1..Len(ord) : ord[i] = ord[j] => i = j
      /\ Holds(ord, Entry)
  BY DEF GraphOK
<1>2. Len(ord) \in Nat /\ Len(ord) >= 1
  <2>1. Len(ord) \in Nat
    BY <1>1, LenProperties
  <2> QED BY <1>1, <2>1 DEF Holds
<1>3. /\ Len(t.rpost) \in Nat /\ Len(t.stack) \in Nat /\ t.at \in Nat /\ Len(t.roots) \in Nat
  BY <1>0, TreeTypes
<1>4. Len(t.rpost) = Len(ord)
  <2>1. Len(t.pre) = Len(t.rpost) + Len(t.stack)
    BY <1>0 DEF Numbers
  <2> QED BY <1>3, <2>1
<1>5. \A b \in Node : Holds(ord, b) => Seen(t, b)
  BY <1>0, <1>1, PreBound
<1>6. \A b \in Node : Seen(t, b) => Fin(t, b) /\ Holds(ord, b)
  <2>1. \A b \in Node : ~Held(t, b)
    BY DEF Held
  <2> QED BY <1>0, <2>1 DEF StackOK, Numbers
<1>7. t.at >= 1 /\ t.at <= Len(t.roots)
  <2>1. t.at # 0 /\ t.at <= Len(t.roots)
    BY <1>0, <1>2 DEF RootsOK
  <2> QED BY <1>3, <2>1
<1> QED BY <1>0, <1>1, <1>2, <1>3, <1>4, <1>5, <1>6, <1>7 DEF AllDone

\* The second pass begins.
LEMMA SecondOK ==
    ASSUME NEW ou, NEW inn, NEW ord, NEW st, NEW t, NEW lab,
           GraphOK(ou, inn, ord), PassOK(ou, inn, ord, st, t, lab), AllDone(ord, t),
           t.extra, ~t.again,
           NEW u, u = FreshTree(Swap(t.roots, t.home, Len(t.roots)), t.home, TRUE)
    PROVE  PassOK(ou, inn, ord, st, u, NoLabels(ou))
<1> DEFINE n == Len(t.roots)
           s == Swap(t.roots, t.home, n)
<1>0. /\ t \in TreeRec /\ RootsOK(ou, ord, t, lab) /\ RootList(ou, inn, ord, st, t)
      /\ \A b \in Node : Holds(ord, b) => Seen(t, b)
  BY DEF PassOK, AllDone
<1>1. /\ n \in Nat /\ t.home \in Nat /\ t.roots \in Seq(Node)
  BY <1>0, TreeTypes DEF TreeRec
<1>2. /\ t.home >= 1 /\ t.home <= n /\ t.at = n
      /\ inn[Entry] = <<>> => t.roots[t.home] = Entry
      /\ st # "built"
  BY <1>0 DEF RootList
<1>3. t.home \in 1..n /\ n \in 1..n
  BY <1>1, <1>2
<1>4. /\ s \in Seq(Node) /\ Len(s) = n
      /\ \A k \in 1..n : s[k] = IF k = n THEN t.roots[t.home] ELSE IF k = t.home THEN t.roots[n] ELSE t.roots[k]
      /\ \A b : Holds(s, b) <=> Holds(t.roots, b)
  BY <1>1, <1>3, SwapFacts
<1>5. Blank(u, s, t.home) /\ u.again = TRUE
  BY <1>1, <1>4, FreshFacts
<1>6. /\ u.roots = s /\ u.at = 0 /\ ~u.extra /\ u.home = t.home
      /\ \A b \in Node : ~Seen(u, b)
  BY <1>5 DEF Blank
<1>7. \A i, j \in 1..n : t.roots[i] = t.roots[j] => i = j
  BY <1>0, <1>2 DEF RootsOK
<1>8. \A i \in 1..Len(s) : Holds(ord, s[i])
  <2>1. \A i \in 1..n : Holds(ord, t.roots[i])
    BY <1>0 DEF RootsOK
  <2> QED BY <1>3, <1>4, <2>1
<1>9. ASSUME inn[Entry] = <<>>
      PROVE  /\ Len(s) >= 1 /\ s[Len(s)] = Entry
             /\ \A i \in 1..(Len(s) - 1) : s[i] # Entry
             /\ \A C \in SUBSET Node :
                   Shut(ou, C) /\ (\A b \in Node : Holds(s, b) => b \in C)
                      => \A b \in Node : Holds(ord, b) => b \in C
  <2>1. t.roots[t.home] = Entry
    BY <1>2, <1>9
  <2>2. Len(s) >= 1 /\ s[Len(s)] = Entry
    BY <1>1, <1>2, <1>3, <1>4, <2>1
  <2>3. ASSUME NEW i \in 1..(Len(s) - 1) PROVE s[i] # Entry
    <3>1. i \in 1..n /\ i # n
      BY <1>1, <1>4
    <3>2. CASE i = t.home
      BY <1>3, <1>4, <1>7, <2>1, <3>1, <3>2
    <3>3. CASE i # t.home
      BY <1>3, <1>4, <1>7, <2>1, <3>1, <3>3
    <3> QED BY <3>2, <3>3
  <2>4. ASSUME NEW C \in SUBSET Node, Shut(ou, C), \A b \in Node : Holds(s, b) => b \in C
        PROVE  \A b \in Node : Holds(ord, b) => b \in C
    <3>1. \A i \in 1..n : t.roots[i] \in Node /\ Holds(s, t.roots[i])
      BY <1>1, <1>4, ElementOfSeq DEF Holds
    <3>2. \A i \in 1..t.at : t.roots[i] \in C
      BY <1>2, <2>4, <3>1
    <3> QED BY <1>0, <2>4, <3>2 DEF RootsOK
  <2> QED BY <2>2, <2>3, <2>4
<1> HIDE DEF s
<1>10. RootList(ou, inn, ord, st, u)
  <2>1. ASSUME inn[Entry] = <<>>
        PROVE  /\ ~u.extra
               /\ Len(u.roots) >= 1 /\ u.roots[Len(u.roots)] = Entry
               /\ u.at < Len(u.roots) => ~Seen(u, Entry)
               /\ \A i \in 1..(Len(u.roots) - 1) : u.roots[i] # Entry
               /\ \A C \in SUBSET Node :
                     Shut(ou, C) /\ (\A b \in Node : Seen(u, b) \/ Holds(u.roots, b) => b \in C)
                        => \A b \in Node : Holds(ord, b) => b \in C
    BY <1>6, <1>9, <2>1, EntryFacts
  <2> QED BY <1>2, <1>5, <2>1 DEF RootList
<1>11. u = FreshTree(s, t.home, TRUE)
  BY DEF s
<1> QED BY <1>1, <1>4, <1>8, <1>10, <1>11, FreshOK

\* The reverse post-order has the blocks of the list it replaces.
LEMMA NewOrder ==
    ASSUME NEW ou, NEW inn, NEW ord, NEW t,
           GraphOK(ou, inn, ord), Numbers(ord, t), AllDone(ord, t)
    PROVE  /\ GraphOK(ou, inn, t.rpost)
           /\ \A b : Holds(t.rpost, b) <=> Holds(ord, b)
           /\ \A i \in 1..Len(t.rpost) : t.index[t.rpost[i]] = i - 1
           /\ \A b \in Node : Holds(ord, b) =>
                 t.index[b] \in 0..(Len(ord) - 1) /\ t.rpost[t.index[b] + 1] = b
<1>0. /\ t \in TreeRec /\ ord \in Seq(Node) /\ Len(ord) \in Nat
      /\ Len(t.rpost) = Len(ord)
      /\ \A b \in Node : Holds(ord, b) => Seen(t, b) /\ Fin(t, b)
      /\ \A b \in Node : Seen(t, b) => Holds(ord, b)
  BY DEF AllDone
<1>1. t.rpost \in Seq(Node) /\ \A i \in 1..Len(t.rpost) : t.rpost[i] \in Node
  BY <1>0, TreeTypes DEF TreeRec
<1>2. \A i \in 1..Len(t.rpost) : t.index[t.rpost[i]] = i - 1
  <2> SUFFICES ASSUME NEW i \in 1..Len(t.rpost) PROVE t.index[t.rpost[i]] = i - 1
    OBVIOUS
  <2>1. t.index[t.rpost[i]] = Len(ord) - Len(t.rpost) + i - 1
    BY DEF Numbers
  <2> QED BY <1>0, <2>1
<1>3. \A i, j \in 1..Len(t.rpost) : t.rpost[i] = t.rpost[j] => i = j
  <2> SUFFICES ASSUME NEW i \in 1..Len(t.rpost), NEW j \in 1..Len(t.rpost), t.rpost[i] = t.rpost[j] PROVE i = j
    OBVIOUS
  <2>1. i - 1 = j - 1
    BY <1>2
  <2> QED BY <1>0, <2>1
<1>4. \A b \in Node : Holds(ord, b) =>
          t.index[b] \in 0..(Len(ord) - 1) /\ t.rpost[t.index[b] + 1] = b
  <2> SUFFICES ASSUME NEW b \in Node, Holds(ord, b)
               PROVE  t.index[b] \in 0..(Len(ord) - 1) /\ t.rpost[t.index[b] + 1] = b
    OBVIOUS
  <2>1. /\ t.index[b] \in (Len(ord) - Len(t.rpost))..(Len(ord) - 1)
        /\ t.rpost[t.index[b] - Len(ord) + Len(t.rpost) + 1] = b
    BY <1>0 DEF Numbers
  <2>2. t.index[b] \in Int
    BY <1>0, TreeTypes
  <2>3. t.index[b] - Len(ord) + Len(t.rpost) + 1 = t.index[b] + 1 /\ Len(ord) - Len(t.rpost) = 0
    BY <1>0, <2>2
  <2> QED BY <2>1, <2>3
<1>5. ASSUME NEW b PROVE Holds(t.rpost, b) <=> Holds(ord, b)
  <2>1. ASSUME Holds(ord, b) PROVE Holds(t.rpost, b)
    <3>1. b \in Node
      BY <1>0, <2>1, ElementOfSeq DEF Holds
    <3>2. t.index[b] \in 0..(Len(ord) - 1) /\ t.rpost[t.index[b] + 1] = b
      BY <1>4, <2>1, <3>1
    <3>3. t.index[b] + 1 \in 1..Len(t.rpost)
      BY <1>0, <3>2
    <3> QED BY <3>2, <3>3 DEF Holds
  <2>2. ASSUME Holds(t.rpost, b) PROVE Holds(ord, b)
    <3>1. PICK i \in 1..Len(t.rpost) : t.rpost[i] = b
      BY <2>2 DEF Holds
    <3>2. b \in Node /\ t.index[b] = i - 1
      BY <1>1, <1>2, <3>1
    <3>3. Fin(t, b)
      BY <1>0, <3>2 DEF Fin
    <3> QED BY <1>0, <3>2, <3>3 DEF Numbers
  <2> QED BY <2>1, <2>2
<1>6. GraphOK(ou, inn, t.rpost)
  BY <1>1, <1>3, <1>5 DEF GraphOK
<1> QED BY <1>2, <1>4, <1>5, <1>6

\* The tree as the finished pass leaves it: only the list of roots is rearranged.
Ends(t, w) ==
    /\ w \in TreeRec
    /\ w.visit = t.visit /\ w.index = t.index /\ w.desc = t.desc /\ w.pre = t.pre
    /\ Len(w.roots) = Len(t.roots)
    /\ \A b : Holds(w.roots, b) <=> Holds(t.roots, b)
    /\ Len(t.roots) = 1 => w.roots[1] = t.roots[1]

\* The last step of the pass swaps the first root with the last.
LEMMA EndsFacts ==
    ASSUME NEW t \in TreeRec, Len(t.roots) >= 1, NEW w,
           w = [t EXCEPT !.roots = Swap(@, 1, Len(t.roots))]
    PROVE  Ends(t, w)
<1> DEFINE n == Len(t.roots)
           s == Swap(t.roots, 1, n)
<1>1. t.roots \in Seq(Node) /\ n \in Nat /\ 1 \in 1..n /\ n \in 1..n
  BY TreeTypes DEF TreeRec
<1>2. /\ s \in Seq(Node) /\ Len(s) = n
      /\ \A k \in 1..n : s[k] = IF k = n THEN t.roots[1] ELSE IF k = 1 THEN t.roots[n] ELSE t.roots[k]
      /\ \A b : Holds(s, b) <=> Holds(t.roots, b)
  BY <1>1, SwapFacts
<1> HIDE DEF s
<1>3. w = [t EXCEPT !.roots = s]
  BY DEF s
<1>4. w \in TreeRec
  BY Zenon, <1>2, <1>3 DEF TreeRec
<1>5. /\ w.visit = t.visit /\ w.index = t.index /\ w.desc = t.desc /\ w.pre = t.pre
      /\ w.roots = s
  BY <1>3 DEF TreeRec
<1>6. n = 1 => s[1] = t.roots[1]
  BY <1>1, <1>2
<1> QED BY <1>2, <1>4, <1>5, <1>6 DEF Ends

\* The block numbered last comes first, and that is the last root.
LEMMA FinishedHistory ==
    ASSUME NEW ou, NEW inn, NEW ord, NEW st, NEW t, NEW lab,
           GraphOK(ou, inn, ord), HistoryOK(ou, inn, ord, st),
           PassOK(ou, inn, ord, st, t, lab), AllDone(ord, t), ~(t.extra /\ ~t.again)
    PROVE  HistoryOK(ou, inn, t.rpost, st)
<1>0. /\ RootsOK(ou, ord, t, lab) /\ RootList(ou, inn, ord, st, t) /\ Numbers(ord, t)
      /\ t \in TreeRec
  BY DEF PassOK
<1>1. /\ Len(t.stack) = 0 /\ t.at \in Nat /\ t.at >= 1 /\ Len(t.roots) \in Nat /\ t.at <= Len(t.roots)
      /\ \A b \in Node : Holds(ord, b) => Seen(t, b)
      /\ t.home \in Nat
      /\ \A i \in 1..Len(t.roots) : t.roots[i] \in Node
  BY TreeTypes DEF AllDone
<1>2. t.rpost[1] = t.roots[t.at]
  BY <1>0, <1>1 DEF RootsOK
<1>3. \A i \in 1..Len(t.roots) : Seen(t, t.roots[i])
  BY <1>0, <1>1 DEF RootsOK
<1>4. ASSUME inn[Entry] = <<>> \/ st = "built" PROVE t.roots[t.at] = Entry
  <2>1. CASE ~t.again
    <3>1. /\ t.home <= Len(t.roots) /\ \A i \in 1..t.home : i > t.at => ~Seen(t, t.roots[i])
          /\ t.at <= t.home /\ t.roots[t.home] = Entry
      BY <1>0, <1>4, <2>1 DEF RootList
    <3>2. ~(t.at < t.home)
      <4> SUFFICES ASSUME t.at < t.home PROVE FALSE
        OBVIOUS
      <4>1. t.home \in 1..t.home /\ t.home \in 1..Len(t.roots) /\ t.home > t.at
        BY <1>1, <3>1
      <4> QED BY <1>3, <3>1, <4>1
    <3>3. t.at = t.home
      BY <1>1, <3>1, <3>2
    <3> QED BY <3>1, <3>3
  <2>2. CASE t.again
    <3>1. inn[Entry] = <<>>
      BY <1>0, <1>4, <2>2 DEF RootList
    <3>2. t.roots[Len(t.roots)] = Entry /\ (t.at < Len(t.roots) => ~Seen(t, Entry))
      BY <1>0, <2>2, <3>1 DEF RootList
    <3>3. Seen(t, Entry)
      BY <1>1, EntryFacts DEF GraphOK
    <3>4. t.at = Len(t.roots)
      BY <1>1, <3>2, <3>3
    <3> QED BY <3>2, <3>4
  <2> QED BY <2>1, <2>2
<1>5. \A b : Holds(t.rpost, b) <=> Holds(ord, b)
  BY <1>0, NewOrder
<1> QED BY <1>2, <1>4, <1>5 DEF HistoryOK

\* A pass that is done leaves a finished tree.
LEMMA FinishedTree ==
    ASSUME NEW ou, NEW inn, NEW ord, NEW st, NEW t, NEW lab, NEW w,
           GraphOK(ou, inn, ord), PassOK(ou, inn, ord, st, t, lab), AllDone(ord, t), Ends(t, w)
    PROVE  TreeOK(ou, t.rpost, w, lab)
<1>0. /\ RootsOK(ou, ord, t, lab) /\ Numbers(ord, t) /\ Spans(t) /\ t \in TreeRec
  BY DEF PassOK
<1>1. /\ Len(t.pre) = Len(ord) /\ Len(t.rpost) = Len(ord) /\ Len(ord) \in Nat
      /\ \A b \in Node : Holds(ord, b) => Seen(t, b)
      /\ \A b \in Node : Seen(t, b) => Fin(t, b) /\ Holds(ord, b)
      /\ t.at \in Nat /\ t.at >= 1 /\ Len(t.roots) \in Nat /\ t.at <= Len(t.roots)
  BY DEF AllDone
<1>2. /\ w \in TreeRec
      /\ w.visit = t.visit /\ w.index = t.index /\ w.desc = t.desc /\ w.pre = t.pre
      /\ Len(w.roots) = Len(t.roots)
      /\ \A b : Holds(w.roots, b) <=> Holds(t.roots, b)
      /\ Len(t.roots) = 1 => w.roots[1] = t.roots[1]
  BY DEF Ends
<1>3. /\ \A b : Holds(t.rpost, b) <=> Holds(ord, b)
      /\ \A b \in Node : Holds(ord, b) =>
           t.index[b] \in 0..(Len(ord) - 1) /\ t.rpost[t.index[b] + 1] = b
  BY <1>0, NewOrder
<1>4. \A b \in Node : Holds(ord, b) =>
        /\ t.visit[b] \in 0..(Len(ord) - 1) /\ t.pre[t.visit[b] + 1] = b
        /\ t.desc[b] >= 1 /\ t.visit[b] + t.desc[b] <= Len(ord)
  BY <1>0, <1>1 DEF Numbers, Spans
<1>5. ASSUME NEW b \in Node, Holds(ord, b)
      PROVE  \/ Holds(w.roots, b)
             \/ \E p \in SlotsOf(ou) : Dest(ou, p) = b /\ "tree" \in lab[p[1]][p[2]]
  <2>1. \/ \E i \in 1..t.at : t.roots[i] = b
        \/ \E p \in SlotsOf(ou) : Explored(t, p) /\ Dest(ou, p) = b /\ "tree" \in lab[p[1]][p[2]]
    BY <1>0, <1>1, <1>5 DEF RootsOK
  <2>2. ASSUME NEW i \in 1..t.at, t.roots[i] = b PROVE Holds(w.roots, b)
    <3>1. i \in 1..Len(t.roots)
      BY <1>1
    <3> QED BY <1>2, <2>2, <3>1 DEF Holds
  <2> QED BY <2>1, <2>2
<1>6. \A i \in 1..Len(t.pre) : Holds(ord, t.pre[i]) /\ t.visit[t.pre[i]] = i - 1
  <2> SUFFICES ASSUME NEW i \in 1..Len(t.pre) PROVE Holds(ord, t.pre[i]) /\ t.visit[t.pre[i]] = i - 1
    OBVIOUS
  <2>1. t.visit[t.pre[i]] = i - 1
    BY <1>0 DEF Numbers
  <2>2. t.pre[i] \in Node
    BY <1>0, ElementOfSeq DEF TreeRec
  <2>3. Seen(t, t.pre[i])
    BY <1>1, <2>1 DEF Seen
  <2> QED BY <1>1, <2>1, <2>2, <2>3
<1>7. \A x, c \in Node : Holds(ord, x) /\ Holds(ord, c)
                         /\ t.visit[x] < t.visit[c] /\ t.visit[c] < t.visit[x] + t.desc[x]
         => t.visit[c] + t.desc[c] <= t.visit[x] + t.desc[x]
  BY <1>0, <1>1 DEF Spans
<1>8. Len(t.roots) = 1 => t.pre[1] = w.roots[1]
  BY <1>0, <1>1, <1>2 DEF RootsOK
<1>9. ASSUME NEW C \in SUBSET Node, Shut(ou, C), \A i \in 1..Len(w.roots) : w.roots[i] \in C,
             NEW b \in Node, Holds(ord, b)
      PROVE  b \in C
  <2>1. \A i \in 1..t.at : t.roots[i] \in C
    <3> SUFFICES ASSUME NEW i \in 1..t.at PROVE t.roots[i] \in C
      OBVIOUS
    <3>1. i \in 1..Len(t.roots)
      BY <1>1
    <3>2. Holds(w.roots, t.roots[i])
      BY <1>2, <3>1 DEF Holds
    <3> QED BY <1>9, <3>2 DEF Holds
  <2> QED BY <1>0, <1>1, <1>9, <2>1 DEF RootsOK
<1>10. \A b \in Node : Holds(t.rpost, b) =>
          /\ w.visit[b] \in 0..(Len(t.rpost) - 1) /\ w.pre[w.visit[b] + 1] = b
          /\ w.index[b] \in 0..(Len(t.rpost) - 1) /\ t.rpost[w.index[b] + 1] = b
          /\ w.desc[b] >= 1 /\ w.visit[b] + w.desc[b] <= Len(t.rpost)
          /\ \/ Holds(w.roots, b)
             \/ \E p \in SlotsOf(ou) : Dest(ou, p) = b /\ "tree" \in lab[p[1]][p[2]]
  BY <1>1, <1>2, <1>3, <1>4, <1>5
<1>11. \A i \in 1..Len(w.pre) : Holds(t.rpost, w.pre[i]) /\ w.visit[w.pre[i]] = i - 1
  BY <1>2, <1>3, <1>6
<1>12. \A x, c \in Node : Holds(t.rpost, x) /\ Holds(t.rpost, c)
                         /\ w.visit[x] < w.visit[c] /\ w.visit[c] < w.visit[x] + w.desc[x]
         => w.visit[c] + w.desc[c] <= w.visit[x] + w.desc[x]
  BY <1>2, <1>3, <1>7
<1>13. \A C \in SUBSET Node : Shut(ou, C) /\ (\A i \in 1..Len(w.roots) : w.roots[i] \in C)
          => \A b \in Node : Holds(t.rpost, b) => b \in C
  BY <1>3, <1>9
<1>14. Len(w.pre) = Len(t.rpost) /\ Len(w.roots) >= 1 /\ (Len(w.roots) = 1 => w.pre[1] = w.roots[1])
  BY <1>1, <1>2, <1>8
<1> QED BY <1>2, <1>10, <1>11, <1>12, <1>13, <1>14 DEF TreeOK

\* All edges are explored: what was noted of each on the way holds of the finished tree.
LEMMA FinishedLabels ==
    ASSUME NEW ou, NEW inn, NEW ord, NEW st, NEW t, NEW lab, NEW w,
           GraphOK(ou, inn, ord), PassOK(ou, inn, ord, st, t, lab), AllDone(ord, t), Ends(t, w)
    PROVE  /\ LabelFacts(ou, t.rpost, w, lab)
           /\ Kept(ou, lab) = SlotsOf(ou)
<1>0. /\ EdgesOK(ou, t, lab) /\ Numbers(ord, t) /\ t \in TreeRec
  BY DEF PassOK
<1>1. /\ \A b \in Node : Holds(ord, b) => Seen(t, b) /\ Fin(t, b)
      /\ \A b : Holds(t.rpost, b) <=> Holds(ord, b)
  BY <1>0, NewOrder DEF AllDone
<1>2. w.visit = t.visit /\ w.index = t.index /\ w.desc = t.desc
  BY DEF Ends
<1>3. ASSUME NEW p \in SlotsOf(ou)
      PROVE  /\ p[1] \in Node /\ Dest(ou, p) \in Node
             /\ Fin(t, p[1]) /\ Fin(t, Dest(ou, p))
             /\ EdgeOK(t, p[1], Dest(ou, p), lab[p[1]][p[2]])
  <2>1. p[1] \in Node /\ Dest(ou, p) \in Node /\ Holds(ord, p[1]) /\ Holds(ord, Dest(ou, p))
    BY SlotType
  <2>2. Seen(t, p[1]) /\ Fin(t, p[1]) /\ Fin(t, Dest(ou, p))
    BY <1>1, <2>1
  <2>3. Explored(t, p)
    BY <2>2 DEF Explored
  <2> QED BY <1>0, <2>1, <2>2, <2>3 DEF EdgesOK
<1>4. ASSUME NEW p \in SlotsOf(ou), NEW b, NEW c, NEW l,
             b = p[1], c = Dest(ou, p), l = lab[p[1]][p[2]]
      PROVE  /\ "irreducible" \notin l
             /\ "back" \in l <=> t.index[b] >= t.index[c]
             /\ "back" \in l => /\ "loop" \in l
                                /\ t.visit[c] <= t.visit[b] /\ t.visit[b] < t.visit[c] + t.desc[c]
             /\ "tree" \in l =>
                  /\ t.visit[b] < t.visit[c] /\ t.visit[c] + t.desc[c] <= t.visit[b] + t.desc[b]
                  /\ \A x \in Node : Holds(ord, x) /\ t.visit[b] < t.visit[x] /\ t.visit[x] < t.visit[c]
                        => t.visit[x] + t.desc[x] <= t.visit[c]
  <2>1. b \in Node /\ c \in Node /\ Fin(t, b) /\ Fin(t, c) /\ EdgeOK(t, b, c, l)
    BY <1>3, <1>4
  <2>2. t.index[b] \in Int /\ t.index[c] \in Int
    BY <1>0, <2>1, TreeTypes
  <2>3. /\ l \in {{"tree"}, {"back", "loop"}, {"forward"}, {"cross"}}
        /\ "tree" \in l => TreeEdge(t, b, c)
        /\ "back" \in l => BackEdge(t, b, c)
        /\ l \in {{"forward"}, {"cross"}} => SideEdge(t, b, c)
    BY <2>1 DEF EdgeOK
  <2>4. CASE l = {"tree"}
    <3>1. "tree" \in l /\ "back" \notin l /\ "irreducible" \notin l
      BY <2>4
    <3>2. /\ t.visit[b] < t.visit[c] /\ t.visit[c] + t.desc[c] <= t.visit[b] + t.desc[b]
          /\ t.index[b] < t.index[c]
          /\ \A x \in Node : Seen(t, x) /\ t.visit[b] < t.visit[x] /\ t.visit[x] < t.visit[c]
                => Fin(t, x) /\ t.visit[x] + t.desc[x] <= t.visit[c]
      BY <2>1, <2>3, <3>1 DEF TreeEdge
    <3>3. ~(t.index[b] >= t.index[c])
      BY <2>2, <3>2
    <3> QED BY <1>1, <3>1, <3>2, <3>3
  <2>5. CASE l = {"back", "loop"}
    <3>1. "tree" \notin l /\ "back" \in l /\ "loop" \in l /\ "irreducible" \notin l
      BY <2>5
    <3>2. t.visit[c] <= t.visit[b] /\ t.index[c] <= t.index[b] /\ t.visit[b] < t.visit[c] + t.desc[c]
      BY <2>1, <2>3, <3>1 DEF BackEdge
    <3>3. t.index[b] >= t.index[c]
      BY <2>2, <3>2
    <3> QED BY <3>1, <3>2, <3>3
  <2>6. CASE l \in {{"forward"}, {"cross"}}
    <3>1. "tree" \notin l /\ "back" \notin l /\ "irreducible" \notin l
      BY <2>6
    <3>2. t.index[b] < t.index[c]
      BY <2>1, <2>3, <2>6 DEF SideEdge
    <3>3. ~(t.index[b] >= t.index[c])
      BY <2>2, <3>2
    <3> QED BY <3>1, <3>3
  <2> QED BY <2>3, <2>4, <2>5, <2>6
<1>5. Kept(ou, lab) = SlotsOf(ou)
  BY <1>4 DEF Kept
<1>6. LabelFacts(ou, t.rpost, w, lab)
  BY <1>1, <1>2, <1>4 DEF LabelFacts
<1> QED BY <1>5, <1>6

\* Nothing that lives comes before the entry when nothing that lives leads back to it.
LEMMA FinishedHead ==
    ASSUME NEW ou, NEW inn, NEW ord, NEW st, NEW t, NEW lab,
           GraphOK(ou, inn, ord), PassOK(ou, inn, ord, st, t, lab), AllDone(ord, t)
    PROVE  LiveHead(ou, t.rpost)
<1>0. LiveOK(ou, t) /\ Numbers(ord, t) /\ t \in TreeRec
  BY DEF PassOK
<1> SUFFICES ASSUME \A p \in SlotsOf(ou) : p[1] \in Lives(ou) => Dest(ou, p) # Entry,
                    NEW i \in 1..Len(t.rpost), NEW j \in 1..Len(t.rpost),
                    t.rpost[i] = Entry, t.rpost[j] \in Lives(ou)
             PROVE  i <= j
  BY DEF LiveHead
<1>1. Fin(t, Entry)
  BY EntryFacts DEF AllDone, GraphOK
<1>2. t.index[Entry] <= t.index[t.rpost[j]]
  BY <1>0, <1>1 DEF LiveOK
<1>3. t.index[Entry] = i - 1 /\ t.index[t.rpost[j]] = j - 1
  BY <1>0, NewOrder
<1>4. i \in Int /\ j \in Int
  BY <1>0, TreeTypes
<1> QED BY <1>2, <1>3, <1>4

\* No head has been done yet.
LEMMA FinishedHeads ==
    ASSUME NEW ou, NEW ord, NEW w, NEW lab, NEW ir,
           TreeOK(ou, ord, w, lab), Kept(ou, lab) = SlotsOf(ou), ir \in IrrRec,
           ir.x = Len(ord), \A b \in Node : ir.copy[b] = b
    PROVE  HeadsOK(ou, ord, w, lab, ir)
<1>1. Len(ord) \in Nat
  BY DEF IrrRec
<1>2. ASSUME NEW z \in Node, Holds(ord, z) PROVE ~(w.visit[z] >= ir.x)
  <2>1. w.visit[z] \in 0..(Len(ord) - 1)
    BY <1>2 DEF TreeOK
  <2> QED BY <1>1, <2>1
<1>3. ir.x <= Len(ord)
  BY <1>1
<1> QED BY <1>2, <1>3 DEF HeadsOK

\* findIrreducible begins: no head is done and every block stands for itself.
HeadsStart(jr, n) == jr \in IrrRec /\ ~jr.rebuild /\ jr.x = n /\ \A b \in Node : jr.copy[b] = b

\* So findIrreducible begins.
LEMMA StartHeads ==
    ASSUME NEW ir \in IrrRec, ~ir.rebuild, NEW n \in Nat, NEW jr,
           jr = [ir EXCEPT !.x = n, !.copy = [b \in Node |-> b]]
    PROVE  HeadsStart(jr, n)
<1>1. [b \in Node |-> b] \in [Node -> Node]
  OBVIOUS
<1>2. jr \in IrrRec
  BY <1>1 DEF IrrRec
<1>3. jr.rebuild = ir.rebuild /\ jr.x = n /\ jr.copy = [b \in Node |-> b]
  BY DEF IrrRec
<1> QED BY <1>2, <1>3 DEF HeadsStart

\* The end of a pass: a second one, or findIrreducible
LEMMA EndPassInv ==
    ASSUME SpanInv, EndPass
    PROVE  SpanInv'
<1> DEFINE last == Len(tree.roots)
<1>0. /\ GraphOK(out, ins, order) /\ PassOK(out, ins, order, stage, tree, label)
      /\ HistoryOK(out, ins, order, stage)
      /\ pc = "tree" /\ tree.stack = <<>> /\ Len(tree.pre) = Len(order)
      /\ irr \in IrrRec /\ ~irr.rebuild /\ tree \in TreeRec /\ LabelType(out, label)
      /\ Numbers(order, tree)
  BY DEF SpanInv, EndPass, PassOK
<1>1. out' = out /\ ins' = ins /\ stage' = stage /\ idom' = idom
  BY DEF EndPass, graph
<1>2. Len(tree.stack) = 0
  BY <1>0, EmptySeq
<1>3. AllDone(order, tree)
  BY <1>0, <1>2, PassDone
<1>4. CASE tree.extra /\ ~tree.again
  <2>1. /\ tree' = FreshTree(Swap(tree.roots, tree.home, last), tree.home, TRUE)
        /\ label' = NoLabels(out) /\ order' = order /\ pc' = pc /\ irr' = irr
    BY <1>4 DEF EndPass
  <2>2. PassOK(out, ins, order, stage, tree', label')
    BY <1>0, <1>3, <1>4, <2>1, SecondOK
  <2>3. LabelType(out, label')
    BY <2>2 DEF PassOK
  <2> QED BY <1>0, <1>1, <2>1, <2>2, <2>3 DEF SpanInv
<1>5. CASE ~(tree.extra /\ ~tree.again)
  <2>1. /\ tree' = [tree EXCEPT !.roots = Swap(@, 1, last)]
        /\ order' = tree.rpost
        /\ irr' = [irr EXCEPT !.x = Len(order), !.copy = [b \in Node |-> b]]
        /\ pc' = "irreducible" /\ label' = label
    BY <1>5 DEF EndPass
  <2>2. Len(tree.roots) >= 1 /\ Len(order) \in Nat /\ Len(tree.rpost) = Len(order)
    BY <1>3 DEF AllDone
  <2>3. Ends(tree, tree')
    BY <1>0, <2>1, <2>2, EndsFacts
  <2>4. GraphOK(out, ins, order')
    BY <1>0, <1>3, <2>1, NewOrder
  <2>5. HistoryOK(out, ins, order', stage)
    BY <1>0, <1>3, <1>5, <2>1, FinishedHistory
  <2>6. TreeOK(out, order', tree', label)
    BY <1>0, <1>3, <2>1, <2>3, FinishedTree
  <2>7. LabelFacts(out, order', tree', label) /\ Kept(out, label) = SlotsOf(out)
    BY <1>0, <1>3, <2>1, <2>3, FinishedLabels
  <2>8. LiveHead(out, order')
    BY <1>0, <1>3, <2>1, FinishedHead
  <2>9. irr' \in IrrRec /\ ~irr'.rebuild /\ irr'.x = Len(order) /\ \A b \in Node : irr'.copy[b] = b
    <3>1. HeadsStart(irr', Len(order))
      BY <1>0, <2>1, <2>2, StartHeads
    <3> QED BY <3>1 DEF HeadsStart
  <2>10. HeadsOK(out, order', tree', label, irr')
    BY <2>1, <2>2, <2>6, <2>7, <2>9, FinishedHeads
  <2> QED BY <1>0, <1>1, <2>1, <2>4, <2>5, <2>6, <2>7, <2>8, <2>9, <2>10 DEF SpanInv
<1> QED BY <1>4, <1>5

-----------------------------------------------------------------------------
(***************************************************************************)
(* FindIrreducible                                                          *)
(***************************************************************************)
\* S has the sources of the back edges into h, and with a block the blocks under h
\* that lead into it, each under the name copy gives it.
Fills(ou, t, lab, copy, h, S) ==
    /\ \A p \in SlotsOf(ou) : "back" \in lab[p[1]][p[2]] /\ Dest(ou, p) = h /\ p[1] # h => copy[p[1]] \in S
    /\ \A p \in Kept(ou, lab) : Dest(ou, p) \in S /\ Within(t, h, copy[p[1]]) /\ copy[p[1]] # h
          => copy[p[1]] \in S
\* The least such set
Under(ou, t, lab, copy, h, U) ==
    /\ U \in SUBSET Node
    /\ Fills(ou, t, lab, copy, h, U)
    /\ \A S \in SUBSET Node : Fills(ou, t, lab, copy, h, S) => U \subseteq S

\* ReachUnder is the least set of its kind.
LEMMA UnderFacts ==
    ASSUME GraphOK(out, ins, order), irr \in IrrRec, NEW h \in Node
    PROVE  Under(out, tree, label, irr.copy, h, ReachUnder(h))
<1> DEFINE base == {irr.copy[p[1]] : p \in {q \in Labelled("back") : Target(q) = h /\ q[1] # h}}
           more(S) == {irr.copy[p[1]] : p \in InEdgesOf(S)}
           full == {S \in SUBSET Node : base \subseteq S /\ \A y \in more(S) : InSpan(h, y) /\ y # h => y \in S}
           U == ReachUnder(h)
<1>1. U = {b \in Node : \A S \in full : b \in S}
  BY DEF ReachUnder
<1>2. ASSUME NEW S \in SUBSET Node PROVE S \in full <=> Fills(out, tree, label, irr.copy, h, S)
  <2>1. base \subseteq S <=> \A p \in SlotsOf(out) : "back" \in label[p[1]][p[2]] /\ Dest(out, p) = h /\ p[1] # h
                                 => irr.copy[p[1]] \in S
    BY SlotFacts DEF Labelled
  <2>2. \A p : p \in InEdgesOf(S) <=> p \in Kept(out, label) /\ Dest(out, p) \in S
    BY SlotFacts DEF InEdgesOf, Kept
  <2>3. \A y : InSpan(h, y) <=> Within(tree, h, y)
    BY DEF InSpan, Within
  <2>4. (\A y \in more(S) : InSpan(h, y) /\ y # h => y \in S)
          <=> \A p \in Kept(out, label) : Dest(out, p) \in S /\ Within(tree, h, irr.copy[p[1]]) /\ irr.copy[p[1]] # h
                 => irr.copy[p[1]] \in S
    BY <2>2, <2>3
  <2> HIDE DEF base, more
  <2> QED BY <2>1, <2>4 DEF Fills
<1> HIDE DEF full, U
<1>3. U \in SUBSET Node /\ \A S \in SUBSET Node : Fills(out, tree, label, irr.copy, h, S) => U \subseteq S
  BY <1>1, <1>2
<1>4. \A S \in full : S \in SUBSET Node /\ Fills(out, tree, label, irr.copy, h, S)
  BY <1>2 DEF full
<1>5. \A p \in SlotsOf(out) : irr.copy[p[1]] \in Node
  BY SlotType DEF IrrRec
<1>6. Fills(out, tree, label, irr.copy, h, U)
  <2>1. ASSUME NEW p \in SlotsOf(out), "back" \in label[p[1]][p[2]], Dest(out, p) = h, p[1] # h
        PROVE  irr.copy[p[1]] \in U
    <3>1. \A S \in full : irr.copy[p[1]] \in S
      BY <1>4, <2>1 DEF Fills
    <3> QED BY <1>1, <1>5, <3>1
  <2>2. ASSUME NEW p \in Kept(out, label), Dest(out, p) \in U, Within(tree, h, irr.copy[p[1]]), irr.copy[p[1]] # h
        PROVE  irr.copy[p[1]] \in U
    <3>1. \A S \in full : Dest(out, p) \in S
      BY <1>1, <2>2
    <3>2. \A S \in full : irr.copy[p[1]] \in S
      BY <1>4, <2>2, <3>1 DEF Fills
    <3>3. p \in SlotsOf(out)
      BY DEF Kept
    <3> QED BY <1>1, <1>5, <3>2, <3>3
  <2> QED BY <2>1, <2>2 DEF Fills
<1> QED BY <1>3, <1>6 DEF Under, U

\* x is the next head, and the heads after it in the preorder are done.
AtHead(ou, ord, t, lab, ir, h) ==
    /\ HeadsOK(ou, ord, t, lab, ir) /\ ir \in IrrRec
    /\ h \in Node /\ Holds(ord, h) /\ ir.x >= 1 /\ t.visit[h] = ir.x - 1

\* A block and the block copy names for it are on the same side of the head's span.
LEMMA CopyFacts ==
    ASSUME NEW ou, NEW ord, NEW t, NEW lab, NEW ir, NEW h, Len(ord) \in Nat,
           TreeOK(ou, ord, t, lab), AtHead(ou, ord, t, lab, ir, h),
           NEW y \in Node, Holds(ord, y)
    PROVE  /\ ir.copy[y] \in Node /\ Holds(ord, ir.copy[y])
           /\ ir.copy[y] = h <=> y = h
           /\ Within(t, h, y) => Within(t, h, ir.copy[y])
           /\ Within(t, ir.copy[y], y)
           /\ ir.copy[y] # y => /\ t.visit[h] < t.visit[ir.copy[y]]
                                /\ \E B \in SUBSET Node : y \in B /\ Body(ou, ord, t, lab, ir.copy[y], B)
<1> DEFINE z == ir.copy[y]
<1>0. /\ ir \in IrrRec /\ h \in Node /\ Holds(ord, h) /\ ir.x \in Nat /\ t.visit[h] = ir.x - 1
      /\ z \in Node
  BY DEF AtHead, IrrRec
<1>1. t \in TreeRec
  BY DEF TreeOK
<1>2. /\ t.visit[h] \in Int /\ t.visit[y] \in Int /\ t.visit[z] \in Int
      /\ t.desc[h] \in Nat /\ t.desc[y] \in Nat /\ t.desc[z] \in Nat
  BY <1>0, <1>1, TreeTypes
<1>3. t.desc[y] >= 1
  BY DEF TreeOK
<1>4. CASE z = y
  <2>1. Within(t, y, y)
    BY <1>2, <1>3 DEF Within
  <2> QED BY <1>0, <1>4, <2>1
<1>5. CASE z # y
  <2>1. /\ Holds(ord, z) /\ t.visit[z] >= ir.x
        /\ \E B \in SUBSET Node : y \in B /\ Body(ou, ord, t, lab, z, B)
    BY <1>5 DEF AtHead, HeadsOK
  <2>2. Within(t, z, y)
    BY <2>1 DEF Body
  <2> HIDE DEF z
  <2>3. t.visit[h] < t.visit[z]
    BY <1>0, <1>2, <2>1
  <2>4. z # h
    BY <1>2, <2>3
  <2>5. y # h
    BY <1>2, <2>2, <2>3 DEF Within
  <2>6. Within(t, h, y) => Within(t, h, z)
    BY SMTT(30), <1>2, <2>2, <2>3 DEF Within
  <2> QED BY <1>0, <1>5, <2>1, <2>2, <2>3, <2>4, <2>5, <2>6 DEF z
<1> QED BY <1>4, <1>5

\* What reaches under the head lies under it.
LEMMA UnderWithin ==
    ASSUME NEW ou, NEW inn, NEW ord, NEW t, NEW lab, NEW ir, NEW h, NEW U, Len(ord) \in Nat,
           GraphOK(ou, inn, ord), TreeOK(ou, ord, t, lab), LabelFacts(ou, ord, t, lab),
           AtHead(ou, ord, t, lab, ir, h), Under(ou, t, lab, ir.copy, h, U)
    PROVE  \A y \in U : y \in Node /\ Holds(ord, y) /\ Within(t, h, y) /\ y # h
<1> DEFINE S == {y \in Node : Holds(ord, y) /\ Within(t, h, y) /\ y # h}
<1>1. ASSUME NEW p \in SlotsOf(ou)
      PROVE  /\ ir.copy[p[1]] \in Node /\ Holds(ord, ir.copy[p[1]])
             /\ ir.copy[p[1]] = h <=> p[1] = h
             /\ Within(t, h, p[1]) => Within(t, h, ir.copy[p[1]])
  <2>1. p[1] \in Node /\ Holds(ord, p[1])
    BY SlotType
  <2> QED BY <2>1, CopyFacts
<1>2. ASSUME NEW p \in SlotsOf(ou), "back" \in lab[p[1]][p[2]], Dest(ou, p) = h
      PROVE  Within(t, h, p[1])
  BY <1>2 DEF LabelFacts, Within
<1>3. \A p \in SlotsOf(ou) : "back" \in lab[p[1]][p[2]] /\ Dest(ou, p) = h /\ p[1] # h => ir.copy[p[1]] \in S
  BY <1>1, <1>2
<1>4. \A p \in Kept(ou, lab) : Dest(ou, p) \in S /\ Within(t, h, ir.copy[p[1]]) /\ ir.copy[p[1]] # h
          => ir.copy[p[1]] \in S
  BY <1>1 DEF Kept
<1>5. Fills(ou, t, lab, ir.copy, h, S)
  <2> HIDE DEF S
  <2> QED BY <1>3, <1>4 DEF Fills
<1>6. S \in SUBSET Node
  OBVIOUS
<1>7. U \subseteq S
  <2> HIDE DEF S
  <2> QED BY <1>5, <1>6 DEF Under
<1> QED BY <1>7

\* An edge that enters what reaches under h from outside of the span of h
Bad(ou, t, copy, h, U, p) == Dest(ou, p) \in U /\ ~Within(t, h, copy[p[1]])

\* The labels of lab2 say what those of lab say, but for the bad edges, which are cut.
Marks(ou, t, lab, lab2, copy, h, U) ==
    /\ LabelType(ou, lab2)
    /\ \A p \in SlotsOf(ou) :
          /\ "back" \in lab2[p[1]][p[2]] <=> "back" \in lab[p[1]][p[2]]
          /\ "tree" \in lab2[p[1]][p[2]] <=> "tree" \in lab[p[1]][p[2]]
          /\ "loop" \in lab2[p[1]][p[2]] <=> "loop" \in lab[p[1]][p[2]]
          /\ p \in Kept(ou, lab2) <=> p \in Kept(ou, lab) /\ ~Bad(ou, t, copy, h, U, p)

\* Two labellings that agree on the back and tree edges, the second with the loop
\* edges of the first, describe the same finished tree.
SameTree(ou, lab, lab2) ==
    \A p \in SlotsOf(ou) :
       /\ "back" \in lab2[p[1]][p[2]] <=> "back" \in lab[p[1]][p[2]]
       /\ "tree" \in lab2[p[1]][p[2]] <=> "tree" \in lab[p[1]][p[2]]
       /\ "loop" \in lab[p[1]][p[2]] => "loop" \in lab2[p[1]][p[2]]

\* Such labellings keep what is known of the tree and the labels.
LEMMA SameTreeOK ==
    ASSUME NEW ou, NEW ord, NEW t, NEW lab, NEW lab2, SameTree(ou, lab, lab2),
           TreeOK(ou, ord, t, lab), LabelFacts(ou, ord, t, lab)
    PROVE  TreeOK(ou, ord, t, lab2) /\ LabelFacts(ou, ord, t, lab2)
<1>1. \A b : (\E p \in SlotsOf(ou) : Dest(ou, p) = b /\ "tree" \in lab[p[1]][p[2]])
               => \E p \in SlotsOf(ou) : Dest(ou, p) = b /\ "tree" \in lab2[p[1]][p[2]]
  BY DEF SameTree
<1>2. TreeOK(ou, ord, t, lab2)
  BY <1>1 DEF TreeOK
<1>3. LabelFacts(ou, ord, t, lab2)
  BY DEF SameTree, LabelFacts
<1> QED BY <1>2, <1>3

\* Reducibility is a matter of the back edges.
LEMMA SameReduces ==
    ASSUME NEW ou, NEW t, NEW lab, NEW lab2, SameTree(ou, lab, lab2), NEW F, F \subseteq SlotsOf(ou)
    PROVE  Reduces(F, ou, t, lab2) <=> Reduces(F, ou, t, lab)
  BY DEF SameTree, Reduces

\* The source of a tree edge into a block under z is z or lies under it.
LEMMA TreeWithin ==
    ASSUME NEW ou, NEW ord, NEW t, NEW lab,
           TreeOK(ou, ord, t, lab), LabelFacts(ou, ord, t, lab),
           NEW p \in SlotsOf(ou), "tree" \in lab[p[1]][p[2]], p[1] \in Node, Dest(ou, p) \in Node,
           Holds(ord, Dest(ou, p)), NEW z \in Node, Holds(ord, z), Dest(ou, p) # z, Within(t, z, Dest(ou, p))
    PROVE  Within(t, z, p[1]) /\ t.visit[p[1]] < t.visit[Dest(ou, p)]
<1> DEFINE b == p[1]
           c == Dest(ou, p)
<1>1. /\ t.visit[b] < t.visit[c]
      /\ \A x \in Node : Holds(ord, x) /\ t.visit[b] < t.visit[x] /\ t.visit[x] < t.visit[c]
            => t.visit[x] + t.desc[x] <= t.visit[c]
  BY DEF LabelFacts
<1>2. t \in TreeRec
  BY DEF TreeOK
<1> HIDE DEF b, c
<1>3. b \in Node /\ c \in Node /\ c # z
  BY DEF b, c
<1>4. /\ t.visit[z] \in Int /\ t.visit[b] \in Int /\ t.visit[c] \in Int
      /\ t.desc[z] \in Nat
  BY <1>2, <1>3, TreeTypes
<1>5. t.visit[z] <= t.visit[c] /\ t.visit[c] < t.visit[z] + t.desc[z]
  BY DEF Within, c
<1>6. t.visit[z] # t.visit[c]
  <2>1. t.pre[t.visit[z] + 1] = z /\ t.pre[t.visit[c] + 1] = c
    BY <1>3 DEF TreeOK, c
  <2> QED BY <1>3, <2>1
<1>7. t.visit[z] <= t.visit[b]
  <2> SUFFICES ASSUME ~(t.visit[z] <= t.visit[b]) PROVE FALSE
    OBVIOUS
  <2>1. t.visit[b] < t.visit[z] /\ t.visit[z] < t.visit[c]
    BY <1>4, <1>5, <1>6
  <2>2. t.visit[z] + t.desc[z] <= t.visit[c]
    BY <1>1, <2>1
  <2> QED BY <1>4, <1>5, <2>2
<1>8. t.visit[b] < t.visit[z] + t.desc[z]
  BY <1>1, <1>4, <1>5
<1> QED BY <1>1, <1>7, <1>8 DEF Within, b, c

\* Any set that a path in the tree cannot leave has every block under z if it has z.
LEMMA TreePath ==
    ASSUME NEW ou, NEW inn, NEW ord, NEW t, NEW lab, NEW h, Len(ord) \in Nat,
           GraphOK(ou, inn, ord), TreeOK(ou, ord, t, lab), LabelFacts(ou, ord, t, lab),
           Len(t.roots) = 1, NEW z \in Node, Holds(ord, z), h \in Node, t.visit[h] < t.visit[z],
           NEW R \in SUBSET Node, z \in R,
           \A p \in SlotsOf(ou) : p[1] \in R /\ Dest(ou, p) # h => Dest(ou, p) \in R
    PROVE  \A y \in Node : Holds(ord, y) /\ Within(t, z, y) => y \in R
<1> DEFINE Bads == {n \in Nat : \E y \in Node : Holds(ord, y) /\ Within(t, z, y) /\ y \notin R /\ t.visit[y] = n}
<1>1. t \in TreeRec /\ \A y \in Node : t.visit[y] \in Int /\ t.desc[y] \in Nat
  <2>1. t \in TreeRec
    BY DEF TreeOK
  <2> QED BY <2>1, TreeTypes
<1> SUFFICES ASSUME NEW y0 \in Node, Holds(ord, y0), Within(t, z, y0), y0 \notin R PROVE FALSE
  OBVIOUS
<1>2. t.visit[y0] \in Nat
  <2>1. t.visit[y0] \in 0..(Len(ord) - 1)
    BY DEF TreeOK
  <2> QED BY <2>1
<1>3. Bads \in SUBSET Nat /\ Bads # {}
  BY <1>2
<1> HIDE DEF Bads
<1>4. PICK n \in Bads : \A m \in Bads : n <= m
  BY <1>3, LeastNumber
<1>5. PICK y \in Node : Holds(ord, y) /\ Within(t, z, y) /\ y \notin R /\ t.visit[y] = n
  BY <1>4 DEF Bads
<1>6. y # z
  BY <1>5
<1>7. y # h /\ t.visit[y] > t.visit[h] /\ t.visit[h] # t.visit[y]
  BY <1>1, <1>5 DEF Within
<1>8. PICK p \in SlotsOf(ou) : Dest(ou, p) = y /\ "tree" \in lab[p[1]][p[2]]
  <2>1. ~Holds(t.roots, y)
    <3> SUFFICES ASSUME Holds(t.roots, y) PROVE FALSE
      OBVIOUS
    <3>1. t.roots[1] = y
      BY DEF Holds
    <3>2. t.pre[1] = y /\ Len(t.pre) = Len(ord)
      BY <3>1 DEF TreeOK
    <3>3. t.visit[z] \in 0..(Len(ord) - 1) /\ t.pre[t.visit[z] + 1] = z
      BY DEF TreeOK
    <3>4. 1 \in 1..Len(t.pre)
      BY <3>2, <3>3
    <3>5. t.visit[y] = 0
      <4>1. t.visit[t.pre[1]] = 1 - 1
        BY <3>4 DEF TreeOK
      <4> QED BY <3>2, <4>1
    <3>6. t.visit[z] = 0
      BY <1>1, <1>5, <3>3, <3>5 DEF Within
    <3> QED BY <1>6, <3>2, <3>3, <3>6
  <2> QED BY <1>5, <2>1 DEF TreeOK
<1>9. p[1] \in Node /\ Holds(ord, p[1])
  BY <1>8, SlotType
<1>10. Within(t, z, p[1]) /\ t.visit[p[1]] < t.visit[Dest(ou, p)]
  BY <1>5, <1>6, <1>8, <1>9, TreeWithin
<1>11. p[1] \in R
  <2> SUFFICES ASSUME p[1] \notin R PROVE FALSE
    OBVIOUS
  <2>1. t.visit[p[1]] \in 0..(Len(ord) - 1)
    BY <1>9 DEF TreeOK
  <2>2. t.visit[p[1]] \in Nat
    BY <2>1
  <2>3. t.visit[p[1]] \in Bads
    BY <1>9, <1>10, <2>2 DEF Bads
  <2>4. n <= t.visit[p[1]]
    BY <1>4, <2>3
  <2> QED BY <1>1, <1>5, <1>8, <1>9, <1>10, <2>4
<1> QED BY <1>5, <1>7, <1>8, <1>11

\* The blocks outside of the span of h are reached in the tree without h.
LEMMA OutsideReached ==
    ASSUME NEW ou, NEW inn, NEW ord, NEW t, NEW lab, NEW h, Len(ord) \in Nat,
           GraphOK(ou, inn, ord), TreeOK(ou, ord, t, lab), LabelFacts(ou, ord, t, lab),
           Len(t.roots) = 1, h \in Node, Holds(ord, h),
           NEW R \in SUBSET Node, Avoids(SlotsOf(ou), ou, t.roots[1], h, R)
    PROVE  \A y \in Node : Holds(ord, y) /\ ~Within(t, h, y) => y \in R
<1> DEFINE Bads == {n \in Nat : \E y \in Node : Holds(ord, y) /\ ~Within(t, h, y) /\ y \notin R /\ t.visit[y] = n}
<1>1. t \in TreeRec /\ \A y \in Node : t.visit[y] \in Int /\ t.desc[y] \in Nat
  <2>1. t \in TreeRec
    BY DEF TreeOK
  <2> QED BY <2>1, TreeTypes
<1>2. \A y \in Node : Holds(ord, y) => t.visit[y] \in Nat /\ t.desc[y] >= 1
  <2> SUFFICES ASSUME NEW y \in Node, Holds(ord, y) PROVE t.visit[y] \in Nat /\ t.desc[y] >= 1
    OBVIOUS
  <2>1. t.visit[y] \in 0..(Len(ord) - 1) /\ t.desc[y] >= 1
    BY DEF TreeOK
  <2> QED BY <2>1
<1> SUFFICES ASSUME NEW y0 \in Node, Holds(ord, y0), ~Within(t, h, y0), y0 \notin R PROVE FALSE
  OBVIOUS
<1>3. Bads \in SUBSET Nat /\ Bads # {}
  BY <1>2
<1> HIDE DEF Bads
<1>4. PICK n \in Bads : \A m \in Bads : n <= m
  BY <1>3, LeastNumber
<1>5. PICK y \in Node : Holds(ord, y) /\ ~Within(t, h, y) /\ y \notin R /\ t.visit[y] = n
  BY <1>4 DEF Bads
<1>6. Within(t, h, h) /\ y # h
  <2>1. Within(t, h, h)
    BY <1>1, <1>2 DEF Within
  <2> QED BY <1>5, <2>1
<1>7. CASE Holds(t.roots, y)
  <2>1. t.roots[1] = y
    BY <1>7 DEF Holds
  <2> QED BY <1>5, <1>6, <2>1 DEF Avoids
<1>8. CASE ~Holds(t.roots, y)
  <2>1. PICK p \in SlotsOf(ou) : Dest(ou, p) = y /\ "tree" \in lab[p[1]][p[2]]
    BY <1>5, <1>8 DEF TreeOK
  <2>2. p[1] \in Node /\ Holds(ord, p[1])
    BY <2>1, SlotType
  <2>3. t.visit[p[1]] < t.visit[y] /\ t.visit[y] + t.desc[y] <= t.visit[p[1]] + t.desc[p[1]]
    BY <2>1 DEF LabelFacts
  <2>4. ~Within(t, h, p[1])
    <3> SUFFICES ASSUME Within(t, h, p[1]) PROVE FALSE
      OBVIOUS
    <3>1. t.visit[h] <= t.visit[p[1]] /\ t.visit[p[1]] < t.visit[h] + t.desc[h]
      BY DEF Within
    <3>2. t.visit[p[1]] + t.desc[p[1]] <= t.visit[h] + t.desc[h]
      <4>1. CASE t.visit[h] < t.visit[p[1]]
        BY <2>2, <3>1, <4>1 DEF TreeOK
      <4>2. CASE t.visit[h] = t.visit[p[1]]
        <5>1. t.pre[t.visit[h] + 1] = h /\ t.pre[t.visit[p[1]] + 1] = p[1]
          BY <2>2 DEF TreeOK
        <5>2. p[1] = h
          BY <4>2, <5>1
        <5> QED BY <1>1, <5>2
      <4> QED BY <1>1, <2>2, <3>1, <4>1, <4>2
    <3>3. t.visit[h] <= t.visit[y] /\ t.visit[y] < t.visit[h] + t.desc[h]
      BY SMTT(60), <1>1, <1>2, <1>5, <2>2, <2>3, <3>1, <3>2
    <3> QED BY <1>5, <3>3 DEF Within
  <2>5. p[1] \in R
    <3> SUFFICES ASSUME p[1] \notin R PROVE FALSE
      OBVIOUS
    <3>1. t.visit[p[1]] \in Bads
      BY <1>2, <2>2, <2>4 DEF Bads
    <3>2. n <= t.visit[p[1]]
      BY <1>4, <3>1
    <3> QED BY <1>1, <1>5, <2>2, <2>3, <3>2
  <2> QED BY <1>5, <1>6, <2>1, <2>5 DEF Avoids
<1> QED BY <1>7, <1>8

\* From what reaches under h a back edge into h is reached without passing h.
Leads(ou, lab, h, w, e) ==
    /\ e \in SlotsOf(ou) /\ "back" \in lab[e[1]][e[2]] /\ Dest(ou, e) = h /\ e[1] # h
    /\ \A R \in SUBSET Node :
          w \in R /\ (\A p \in SlotsOf(ou) : p[1] \in R /\ Dest(ou, p) # h => Dest(ou, p) \in R) => e[1] \in R

\* Every block that reaches under h leads to such an edge.
LEMMA UnderLeads ==
    ASSUME NEW ou, NEW inn, NEW ord, NEW t, NEW lab, NEW ir, NEW h, NEW U, Len(ord) \in Nat,
           GraphOK(ou, inn, ord), TreeOK(ou, ord, t, lab), LabelFacts(ou, ord, t, lab),
           AtHead(ou, ord, t, lab, ir, h), Under(ou, t, lab, ir.copy, h, U), Len(t.roots) = 1
    PROVE  \A w \in U : \E e \in SlotsOf(ou) : Leads(ou, lab, h, w, e)
<1> DEFINE W == {w \in Node : w # h /\ \E e \in SlotsOf(ou) : Leads(ou, lab, h, w, e)}
<1>1. h \in Node
  BY DEF AtHead
<1>2. ASSUME NEW p \in SlotsOf(ou), p[1] # h, NEW R \in SUBSET Node, ir.copy[p[1]] \in R,
             \A q \in SlotsOf(ou) : q[1] \in R /\ Dest(ou, q) # h => Dest(ou, q) \in R
      PROVE  p[1] \in R
  <2> DEFINE y == p[1]
             z == ir.copy[y]
  <2>1. y \in Node /\ Holds(ord, y)
    BY SlotType
  <2>2. z \in Node /\ Holds(ord, z) /\ Within(t, z, y) /\ (z # y => t.visit[h] < t.visit[z])
    BY <2>1, CopyFacts
  <2> HIDE DEF y
  <2>3. CASE z = y
    BY <1>2, <2>3 DEF y
  <2>4. CASE z # y
    <3>1. z \in R
      BY <1>2 DEF y
    <3> HIDE DEF z
    <3>2. t.visit[h] < t.visit[z]
      BY <2>2, <2>4
    <3>3. y \in R
      BY <1>1, <1>2, <2>1, <2>2, <3>1, <3>2, TreePath
    <3> QED BY <3>3 DEF y
  <2> QED BY <2>3, <2>4
<1>3. ASSUME NEW p \in SlotsOf(ou) PROVE ir.copy[p[1]] \in Node /\ (ir.copy[p[1]] = h <=> p[1] = h)
  <2>1. p[1] \in Node /\ Holds(ord, p[1])
    BY SlotType
  <2> QED BY <2>1, CopyFacts
<1>4. ASSUME NEW p \in SlotsOf(ou), "back" \in lab[p[1]][p[2]], Dest(ou, p) = h, p[1] # h
      PROVE  ir.copy[p[1]] \in W
  <2>1. Leads(ou, lab, h, ir.copy[p[1]], p)
    BY <1>2, <1>4 DEF Leads
  <2> QED BY <1>3, <1>4, <2>1
<1>5. ASSUME NEW p \in Kept(ou, lab), Dest(ou, p) \in W, Within(t, h, ir.copy[p[1]]), ir.copy[p[1]] # h
      PROVE  ir.copy[p[1]] \in W
  <2>1. p \in SlotsOf(ou)
    BY DEF Kept
  <2>2. PICK e \in SlotsOf(ou) : Leads(ou, lab, h, Dest(ou, p), e)
    BY <1>5
  <2>3. p[1] # h /\ Dest(ou, p) # h
    BY <1>3, <1>5, <2>1
  <2>4. Leads(ou, lab, h, ir.copy[p[1]], e)
    <3> SUFFICES ASSUME NEW R \in SUBSET Node, ir.copy[p[1]] \in R,
                        \A q \in SlotsOf(ou) : q[1] \in R /\ Dest(ou, q) # h => Dest(ou, q) \in R
                 PROVE  e[1] \in R
      BY <2>2 DEF Leads
    <3>1. p[1] \in R
      BY <1>2, <2>1, <2>3
    <3>2. Dest(ou, p) \in R
      BY <2>1, <2>3, <3>1
    <3> QED BY <2>2, <3>2 DEF Leads
  <2> QED BY <1>3, <1>5, <2>1, <2>4
<1>6. W \in SUBSET Node /\ \A w \in W : \E e \in SlotsOf(ou) : Leads(ou, lab, h, w, e)
  OBVIOUS
<1> HIDE DEF W
<1>7. Fills(ou, t, lab, ir.copy, h, W)
  BY <1>4, <1>5 DEF Fills
<1>8. U \subseteq W
  BY <1>6, <1>7 DEF Under
<1> QED BY <1>6, <1>8

\* A reducible graph has no bad edge: one would lead past h to a source of a back
\* edge that h should dominate.
LEMMA ReducibleHasNone ==
    ASSUME NEW ou, NEW inn, NEW ord, NEW t, NEW lab, NEW ir, NEW h, NEW U, Len(ord) \in Nat,
           GraphOK(ou, inn, ord), TreeOK(ou, ord, t, lab), LabelFacts(ou, ord, t, lab),
           AtHead(ou, ord, t, lab, ir, h), Under(ou, t, lab, ir.copy, h, U), Len(t.roots) = 1,
           Reduces(SlotsOf(ou), ou, t, lab)
    PROVE  \A p \in SlotsOf(ou) : ~Bad(ou, t, ir.copy, h, U, p)
<1> SUFFICES ASSUME NEW p \in SlotsOf(ou), Bad(ou, t, ir.copy, h, U, p) PROVE FALSE
  OBVIOUS
<1>0. h \in Node /\ Holds(ord, h)
  BY DEF AtHead
<1>1. Dest(ou, p) \in U /\ ~Within(t, h, ir.copy[p[1]])
  BY DEF Bad
<1>2. p[1] \in Node /\ Holds(ord, p[1])
  BY SlotType
<1>3. ~Within(t, h, p[1])
  BY <1>1, <1>2, CopyFacts
<1>4. PICK e \in SlotsOf(ou) : Leads(ou, lab, h, Dest(ou, p), e)
  BY <1>1, UnderLeads
<1>5. "back" \in lab[e[1]][e[2]] /\ Dest(ou, e) = h /\ e[1] # h
  BY <1>4 DEF Leads
<1>6. Dominates(SlotsOf(ou), ou, t.roots[1], h, e[1])
  BY <1>5 DEF Reduces
<1>7. PICK R \in SUBSET Node : Avoids(SlotsOf(ou), ou, t.roots[1], h, R) /\ e[1] \notin R
  BY <1>5, <1>6 DEF Dominates
<1>8. p[1] \in R
  BY <1>0, <1>2, <1>3, <1>7, OutsideReached
<1>9. Dest(ou, p) # h
  BY ZenonT(60), <1>1, UnderWithin
<1>10. Dest(ou, p) \in R
  BY <1>7, <1>8, <1>9 DEF Avoids
<1>11. e[1] \in R
  BY <1>4, <1>7, <1>10 DEF Leads, Avoids
<1> QED BY <1>7, <1>11

\* No tree edge is bad: the parent of a block under h is h or lies under it.
LEMMA TreeHasNone ==
    ASSUME NEW ou, NEW inn, NEW ord, NEW t, NEW lab, NEW ir, NEW h, NEW U, Len(ord) \in Nat,
           GraphOK(ou, inn, ord), TreeOK(ou, ord, t, lab), LabelFacts(ou, ord, t, lab),
           AtHead(ou, ord, t, lab, ir, h), Under(ou, t, lab, ir.copy, h, U)
    PROVE  \A p \in SlotsOf(ou) : Bad(ou, t, ir.copy, h, U, p) => "tree" \notin lab[p[1]][p[2]]
<1> SUFFICES ASSUME NEW p \in SlotsOf(ou), Bad(ou, t, ir.copy, h, U, p), "tree" \in lab[p[1]][p[2]] PROVE FALSE
  OBVIOUS
<1>0. h \in Node /\ Holds(ord, h)
  BY DEF AtHead
<1>1. Dest(ou, p) \in U /\ ~Within(t, h, ir.copy[p[1]])
  BY DEF Bad
<1>2. p[1] \in Node /\ Holds(ord, p[1]) /\ Dest(ou, p) \in Node /\ Holds(ord, Dest(ou, p))
  BY SlotType
<1>3. Within(t, h, Dest(ou, p)) /\ Dest(ou, p) # h
  BY <1>1, UnderWithin
<1>4. Within(t, h, p[1])
  BY <1>0, <1>2, <1>3, TreeWithin
<1>5. Within(t, h, ir.copy[p[1]])
  BY <1>2, <1>4, CopyFacts
<1> QED BY <1>1, <1>5

\* A body stays one when more edges are cut.
LEMMA BodyKept ==
    ASSUME NEW ou, NEW ord, NEW t, NEW lab, NEW lab2, NEW copy, NEW h, NEW U,
           Marks(ou, t, lab, lab2, copy, h, U)
    PROVE  \A z, B : Body(ou, ord, t, lab, z, B) => Body(ou, ord, t, lab2, z, B)
<1>1. \A p \in Kept(ou, lab2) : p \in Kept(ou, lab)
  BY DEF Marks, Kept
<1> QED BY <1>1 DEF Body

\* The body of h: what reaches under it, with the bodies of those blocks.
BodyOfHead(ou, ord, t, lab, h, U, B) ==
    /\ U \subseteq B
    /\ Body(ou, ord, t, lab, h, B)
    /\ \A p \in Kept(ou, lab) : Dest(ou, p) = h /\ "back" \in lab[p[1]][p[2]] => p[1] \in B \/ p[1] = h

\* A body for h as it is done
LEMMA HeadBody ==
    ASSUME NEW ou, NEW inn, NEW ord, NEW t, NEW lab, NEW ir, NEW h, NEW U, NEW lab2, Len(ord) \in Nat,
           GraphOK(ou, inn, ord), TreeOK(ou, ord, t, lab), LabelFacts(ou, ord, t, lab),
           AtHead(ou, ord, t, lab, ir, h), Under(ou, t, lab, ir.copy, h, U),
           Marks(ou, t, lab, lab2, ir.copy, h, U)
    PROVE  \E B \in SUBSET Node : BodyOfHead(ou, ord, t, lab2, h, U, B)
<1> DEFINE inside == {B \in SUBSET Node : \E y \in U : Body(ou, ord, t, lab, y, B)}
           B0 == U \cup UNION inside
<1>0. /\ h \in Node /\ Holds(ord, h) /\ t.visit[h] = ir.x - 1 /\ HeadsOK(ou, ord, t, lab, ir)
      /\ ir.x \in Nat /\ U \in SUBSET Node
      /\ Fills(ou, t, lab, ir.copy, h, U)
  BY DEF AtHead, IrrRec, Under
<1>1. t \in TreeRec /\ \A y \in Node : t.visit[y] \in Int /\ t.desc[y] \in Nat
  <2>1. t \in TreeRec
    BY DEF TreeOK
  <2> QED BY <2>1, TreeTypes
<1>2. \A y \in U : y \in Node /\ Holds(ord, y) /\ Within(t, h, y) /\ y # h
  BY UnderWithin
<1>3. \A y \in U : t.visit[h] < t.visit[y] /\ t.visit[y] >= ir.x
  <2> SUFFICES ASSUME NEW y \in U PROVE t.visit[h] < t.visit[y] /\ t.visit[y] >= ir.x
    OBVIOUS
  <2>1. y \in Node /\ Holds(ord, y) /\ Within(t, h, y) /\ y # h
    BY <1>2
  <2>2. t.visit[h] # t.visit[y]
    <3>1. t.pre[t.visit[h] + 1] = h /\ t.pre[t.visit[y] + 1] = y
      BY <1>0, <2>1 DEF TreeOK
    <3> QED BY <2>1, <3>1
  <2>3. t.visit[h] <= t.visit[y]
    BY <2>1 DEF Within
  <2>4. t.visit[h] \in Int /\ t.visit[y] \in Int
    BY <1>0, <1>1, <2>1
  <2> QED BY <1>0, <2>2, <2>3, <2>4
<1>4. \A y \in U : \E B \in inside : Body(ou, ord, t, lab, y, B)
  BY <1>2, <1>3, <1>0 DEF HeadsOK
<1>5. /\ B0 \in SUBSET Node /\ U \subseteq B0
      /\ \A w \in B0 : w \in U \/ \E y \in U, B \in SUBSET Node : w \in B /\ Body(ou, ord, t, lab, y, B)
      /\ \A w, y, B : w \in B /\ y \in U /\ B \in SUBSET Node /\ Body(ou, ord, t, lab, y, B) => w \in B0
  BY <1>0
<1> HIDE DEF inside, B0
<1>6. ASSUME NEW w \in B0 PROVE Holds(ord, w) /\ Within(t, h, w) /\ w # h
  <2>1. CASE w \in U
    BY <1>2, <2>1
  <2>2. ASSUME NEW y \in U, NEW B \in SUBSET Node, w \in B, Body(ou, ord, t, lab, y, B)
        PROVE  Holds(ord, w) /\ Within(t, h, w) /\ w # h
    <3>1. Holds(ord, w) /\ Within(t, y, w) /\ w \in Node
      BY <2>2 DEF Body
    <3>2. y \in Node /\ Holds(ord, y) /\ Within(t, h, y) /\ t.visit[h] < t.visit[y]
      BY <1>2, <1>3
    <3>3. t.visit[y] + t.desc[y] <= t.visit[h] + t.desc[h]
      BY <1>0, <3>2 DEF TreeOK, Within
    <3>4. t.visit[h] < t.visit[w] /\ t.visit[w] < t.visit[h] + t.desc[h]
      BY SMTT(60), <1>0, <1>1, <3>1, <3>2, <3>3 DEF Within
    <3>5. t.visit[h] \in Int /\ t.visit[w] \in Int
      BY <1>0, <1>1, <3>1
    <3>6. w # h
      BY <3>4, <3>5
    <3>7. Within(t, h, w)
      BY <3>4, <3>5 DEF Within
    <3> QED BY <3>1, <3>6, <3>7
  <2> QED BY <1>5, <2>1, <2>2
<1>7. ASSUME NEW p \in SlotsOf(ou), ir.copy[p[1]] \in U \/ p[1] = h PROVE p[1] \in B0 \/ p[1] = h
  <2>1. p[1] \in Node /\ Holds(ord, p[1])
    BY SlotType
  <2>2. CASE ir.copy[p[1]] = p[1]
    BY <1>5, <1>7, <2>2
  <2>3. CASE ir.copy[p[1]] # p[1] /\ ir.copy[p[1]] \in U
    <3>1. PICK B \in SUBSET Node : p[1] \in B /\ Body(ou, ord, t, lab, ir.copy[p[1]], B)
      BY <2>1, <2>3, CopyFacts
    <3> QED BY <1>5, <2>3, <3>1
  <2> QED BY <1>7, <2>2, <2>3
<1>8. \A p \in Kept(ou, lab2) : p \in Kept(ou, lab) /\ p \in SlotsOf(ou) /\ ~Bad(ou, t, ir.copy, h, U, p)
                               /\ ("back" \in lab2[p[1]][p[2]] <=> "back" \in lab[p[1]][p[2]])
  BY DEF Marks, Kept
<1>9. ASSUME NEW p \in Kept(ou, lab2), Dest(ou, p) \in B0 PROVE p[1] \in B0 \/ p[1] = h
  <2>0. p \in Kept(ou, lab) /\ p \in SlotsOf(ou) /\ ~Bad(ou, t, ir.copy, h, U, p)
    BY <1>8
  <2>1. CASE Dest(ou, p) \in U
    <3>1. Within(t, h, ir.copy[p[1]])
      BY <2>0, <2>1 DEF Bad
    <3>2. ir.copy[p[1]] # h => ir.copy[p[1]] \in U
      BY <1>0, <2>0, <2>1, <3>1 DEF Fills
    <3>3. p[1] \in Node /\ Holds(ord, p[1])
      BY <2>0, SlotType
    <3>4. ir.copy[p[1]] = h => p[1] = h
      BY <3>3, CopyFacts
    <3> QED BY <1>7, <2>0, <3>2, <3>4
  <2>2. ASSUME NEW y \in U, NEW B \in SUBSET Node, Dest(ou, p) \in B, Body(ou, ord, t, lab, y, B)
        PROVE  p[1] \in B0
    <3>1. p[1] \in B \/ p[1] = y
      BY <2>0, <2>2 DEF Body
    <3> QED BY <1>5, <2>2, <3>1
  <2> QED BY <1>5, <1>9, <2>1, <2>2
<1>10. Body(ou, ord, t, lab2, h, B0)
  BY <1>6, <1>9 DEF Body
<1>11. ASSUME NEW p \in Kept(ou, lab2), Dest(ou, p) = h, "back" \in lab2[p[1]][p[2]]
       PROVE  p[1] \in B0 \/ p[1] = h
  <2>1. p \in SlotsOf(ou) /\ "back" \in lab[p[1]][p[2]]
    BY <1>8, <1>11
  <2>2. p[1] # h => ir.copy[p[1]] \in U
    BY <1>0, <1>11, <2>1 DEF Fills
  <2> QED BY <1>7, <2>1, <2>2
<1> QED BY <1>5, <1>10, <1>11 DEF BodyOfHead

\* The record after a head: what is under it is collapsed to it.
HeadDone(ir, jr, h, U) ==
    /\ jr \in IrrRec /\ ~jr.rebuild /\ jr.x = ir.x - 1
    /\ \A y \in Node : jr.copy[y] = IF y \in U THEN h ELSE ir.copy[y]

\* One head is done.
LEMMA HeadsStep ==
    ASSUME NEW ou, NEW inn, NEW ord, NEW t, NEW lab, NEW ir, NEW h, NEW U, NEW lab2, NEW jr, Len(ord) \in Nat,
           GraphOK(ou, inn, ord), TreeOK(ou, ord, t, lab), LabelFacts(ou, ord, t, lab),
           AtHead(ou, ord, t, lab, ir, h), Under(ou, t, lab, ir.copy, h, U),
           Marks(ou, t, lab, lab2, ir.copy, h, U),
           HeadDone(ir, jr, h, U)
    PROVE  HeadsOK(ou, ord, t, lab2, jr)
<1>0. /\ h \in Node /\ Holds(ord, h) /\ t.visit[h] = ir.x - 1 /\ HeadsOK(ou, ord, t, lab, ir)
      /\ ir.x \in Nat /\ ir.x >= 1
      /\ jr.x = ir.x - 1 /\ \A y \in Node : jr.copy[y] = IF y \in U THEN h ELSE ir.copy[y]
  BY DEF AtHead, IrrRec, HeadDone
<1>1. \A z, B : Body(ou, ord, t, lab, z, B) => Body(ou, ord, t, lab2, z, B)
  BY BodyKept
<1>2a. PICK B0 \in SUBSET Node : BodyOfHead(ou, ord, t, lab2, h, U, B0)
  BY HeadBody
<1>2. /\ U \subseteq B0
      /\ Body(ou, ord, t, lab2, h, B0)
      /\ \A p \in Kept(ou, lab2) : Dest(ou, p) = h /\ "back" \in lab2[p[1]][p[2]] => p[1] \in B0 \/ p[1] = h
  BY <1>2a DEF BodyOfHead
<1>3. \A y \in U : y \in Node /\ Holds(ord, y)
  BY UnderWithin
<1>4. jr.x <= Len(ord)
  BY <1>0 DEF HeadsOK
<1>5. t \in TreeRec /\ \A y \in Node : t.visit[y] \in Int
  <2>1. t \in TreeRec
    BY DEF TreeOK
  <2> QED BY <2>1, TreeTypes
<1>6. ASSUME NEW y \in Node, jr.copy[y] # y
      PROVE  /\ Holds(ord, y) /\ Holds(ord, jr.copy[y]) /\ t.visit[jr.copy[y]] >= jr.x
             /\ \E B \in SUBSET Node : y \in B /\ Body(ou, ord, t, lab2, jr.copy[y], B)
  <2>1. CASE y \in U
    <3>1. jr.copy[y] = h
      BY <1>0, <2>1
    <3>2. t.visit[h] >= jr.x
      BY <1>0
    <3> QED BY <1>0, <1>2, <1>3, <2>1, <3>1, <3>2
  <2>2. CASE y \notin U
    <3>1. jr.copy[y] = ir.copy[y] /\ ir.copy[y] # y
      BY <1>0, <1>6, <2>2
    <3>2. /\ Holds(ord, y) /\ Holds(ord, ir.copy[y]) /\ t.visit[ir.copy[y]] >= ir.x
          /\ \E B \in SUBSET Node : y \in B /\ Body(ou, ord, t, lab, ir.copy[y], B)
      BY <1>0, <3>1 DEF HeadsOK
    <3>3. ir.copy[y] \in Node
      BY DEF AtHead, IrrRec
    <3>4. t.visit[ir.copy[y]] >= jr.x
      <4>1. t.visit[ir.copy[y]] \in Int
        BY <1>5, <3>3
      <4> QED BY <1>0, <3>2, <4>1
    <3> QED BY <1>1, <3>1, <3>2, <3>4
  <2> QED BY <2>1, <2>2
<1>7. ASSUME NEW z \in Node, Holds(ord, z), t.visit[z] >= jr.x
      PROVE  \E B \in SUBSET Node :
             /\ Body(ou, ord, t, lab2, z, B)
             /\ \A p \in Kept(ou, lab2) : Dest(ou, p) = z /\ "back" \in lab2[p[1]][p[2]] => p[1] \in B \/ p[1] = z
  <2>1. CASE z = h
    BY <1>2, <2>1
  <2>2. CASE z # h
    <3>1. t.visit[z] # t.visit[h]
      <4>1. t.pre[t.visit[h] + 1] = h /\ t.pre[t.visit[z] + 1] = z
        BY <1>0, <1>7 DEF TreeOK
      <4> QED BY <2>2, <4>1
    <3>2. t.visit[z] >= ir.x
      BY <1>0, <1>5, <1>7, <3>1
    <3>3. PICK B \in SUBSET Node :
             /\ Body(ou, ord, t, lab, z, B)
             /\ \A p \in Kept(ou, lab) : Dest(ou, p) = z /\ "back" \in lab[p[1]][p[2]] => p[1] \in B \/ p[1] = z
      BY <1>0, <1>7, <3>2 DEF HeadsOK
    <3>4. \A p \in Kept(ou, lab2) : p \in Kept(ou, lab) /\ ("back" \in lab2[p[1]][p[2]] => "back" \in lab[p[1]][p[2]])
      BY DEF Marks, Kept
    <3> QED BY <1>1, <3>3, <3>4
  <2> QED BY <2>1, <2>2
<1>8. ASSUME Len(t.roots) = 1, Reduces(SlotsOf(ou), ou, t, lab2) PROVE Kept(ou, lab2) = SlotsOf(ou)
  <2>1. Reduces(SlotsOf(ou), ou, t, lab)
    <3>1. SameTree(ou, lab, lab2)
      BY DEF Marks, SameTree
    <3> QED BY <1>8, <3>1, SameReduces
  <2>2. Kept(ou, lab) = SlotsOf(ou)
    BY <1>0, <1>8, <2>1 DEF HeadsOK
  <2>3. \A p \in SlotsOf(ou) : ~Bad(ou, t, ir.copy, h, U, p)
    BY <1>8, <2>1, ReducibleHasNone
  <2> QED BY <2>2, <2>3 DEF Marks, Kept
<1> QED BY <1>4, <1>6, <1>7, <1>8 DEF HeadsOK

\* The new labels are the old ones with the bad edges cut, when none of those is a tree edge.
LEMMA MarksFacts ==
    ASSUME NEW ou, NEW inn, NEW ord, GraphOK(ou, inn, ord), NEW t, NEW lab, LabelType(ou, lab),
           NEW copy, NEW h, NEW U, NEW bad,
           \A p : p \in bad <=> p \in Kept(ou, lab) /\ Bad(ou, t, copy, h, U, p),
           \A p \in bad : "tree" \notin lab[p[1]][p[2]],
           NEW lab2, lab2 = [b \in Node |-> [k \in DOMAIN ou[b] |->
                 IF <<b, k>> \notin bad THEN lab[b][k]
                 ELSE {"irreducible"} \cup
                      (lab[b][k] \ (IF "tree" \in lab[b][k] THEN {} ELSE {"cross", "forward"}))]]
    PROVE  Marks(ou, t, lab, lab2, copy, h, U)
<1>1. \A b \in Node : DOMAIN ou[b] = 1..Len(ou[b])
  BY LenProperties DEF GraphOK
<1>2. \A b \in Node : \A k \in 1..Len(ou[b]) :
        /\ lab[b][k] \in SUBSET SpanLabel
        /\ <<b, k>> \notin bad => lab2[b][k] = lab[b][k]
        /\ <<b, k>> \in bad => lab2[b][k] = {"irreducible"} \cup
                      (lab[b][k] \ (IF "tree" \in lab[b][k] THEN {} ELSE {"cross", "forward"}))
  BY <1>1 DEF LabelType
<1>3. \A b \in Node : \A k \in 1..Len(ou[b]) : lab2[b][k] \in SUBSET SpanLabel
  BY ZenonT(60), <1>2 DEF SpanLabel
<1>4. LabelType(ou, lab2)
  <2>1. DOMAIN lab2 = Node
    OBVIOUS
  <2>2. ASSUME NEW b \in Node PROVE lab2[b] \in [1..Len(ou[b]) -> SUBSET SpanLabel]
    <3>1. lab2[b] = [k \in DOMAIN ou[b] |-> lab2[b][k]]
      OBVIOUS
    <3> QED BY <1>1, <1>3, <3>1
  <2> QED BY <2>1, <2>2 DEF LabelType
<1>5. ASSUME NEW p \in SlotsOf(ou)
      PROVE  /\ "back" \in lab2[p[1]][p[2]] <=> "back" \in lab[p[1]][p[2]]
             /\ "tree" \in lab2[p[1]][p[2]] <=> "tree" \in lab[p[1]][p[2]]
             /\ "loop" \in lab2[p[1]][p[2]] <=> "loop" \in lab[p[1]][p[2]]
             /\ p \in Kept(ou, lab2) <=> p \in Kept(ou, lab) /\ ~Bad(ou, t, copy, h, U, p)
  <2> DEFINE l == lab[p[1]][p[2]]
             l2 == lab2[p[1]][p[2]]
  <2>1. p[1] \in Node /\ p[2] \in 1..Len(ou[p[1]]) /\ p = <<p[1], p[2]>>
    BY SlotType
  <2>2. /\ p \notin bad => l2 = l
        /\ p \in bad => l2 = {"irreducible"} \cup (l \ (IF "tree" \in l THEN {} ELSE {"cross", "forward"}))
    BY Zenon, <1>2, <2>1
  <2>3. (p \in Kept(ou, lab2) <=> "irreducible" \notin l2) /\ (p \in Kept(ou, lab) <=> "irreducible" \notin l)
    BY SMTT(30) DEF Kept
  <2> HIDE DEF l, l2
  <2>4. CASE p \notin bad
    <3>1. l2 = l
      BY <2>2, <2>4
    <3>2. ~(p \in Kept(ou, lab) /\ Bad(ou, t, copy, h, U, p))
      BY SMTT(30), <2>4
    <3> QED BY <2>3, <3>1, <3>2 DEF l, l2
  <2>5. CASE p \in bad
    <3>1. "tree" \notin l /\ p \in Kept(ou, lab) /\ Bad(ou, t, copy, h, U, p)
      BY <2>5 DEF l
    <3>2. l2 = {"irreducible"} \cup (l \ {"cross", "forward"})
      BY <2>2, <2>5, <3>1
    <3>3. ("back" \in l2 <=> "back" \in l) /\ "tree" \notin l2 /\ ("loop" \in l2 <=> "loop" \in l) /\ "irreducible" \in l2
      BY <3>1, <3>2
    <3> QED BY <2>3, <3>1, <3>3 DEF l, l2
  <2> QED BY <2>4, <2>5
<1> QED BY <1>4, <1>5 DEF Marks

\* The record, when no bad edge was a tree edge
LEMMA HeadDoneFacts ==
    ASSUME NEW ir \in IrrRec, ~ir.rebuild, ir.x > 0, NEW h \in Node, NEW U, NEW f \in BOOLEAN, NEW jr,
           NEW r, r = FALSE,
           jr = [ir EXCEPT !.x = @ - 1, !.found = @ \/ f, !.rebuild = @ \/ r,
                           !.copy = [b \in Node |-> IF b \in U THEN h ELSE ir.copy[b]]]
    PROVE  HeadDone(ir, jr, h, U)
<1> DEFINE c == [b \in Node |-> IF b \in U THEN h ELSE ir.copy[b]]
<1>0. ir.x \in Nat /\ ir.found \in BOOLEAN /\ ir.rebuild = FALSE /\ ir.copy \in [Node -> Node]
  BY DEF IrrRec
<1>1. c \in [Node -> Node] /\ \A y \in Node : c[y] = IF y \in U THEN h ELSE ir.copy[y]
  BY <1>0
<1> HIDE DEF c
<1>2. jr = [ir EXCEPT !.x = ir.x - 1, !.found = ir.found \/ f, !.rebuild = FALSE, !.copy = c]
  BY <1>0 DEF c
<1>3. ir.x - 1 \in Nat /\ (ir.found \/ f) \in BOOLEAN
  BY <1>0
<1>4. jr \in IrrRec
  BY Zenon, <1>1, <1>2, <1>3 DEF IrrRec
<1>5. jr.x = ir.x - 1 /\ jr.rebuild = FALSE /\ jr.copy = c
  BY <1>2 DEF IrrRec
<1> QED BY <1>1, <1>4, <1>5 DEF HeadDone

\* One head
LEMMA FindIrreducibleInv ==
    ASSUME SpanInv, FindIrreducible
    PROVE  SpanInv'
<1> DEFINE h == tree.pre[irr.x]
           U == ReachUnder(h)
           bad == {p \in InEdgesOf(U) : ~InSpan(h, irr.copy[p[1]])}
           treeBad == \E p \in bad : "tree" \in label[p[1]][p[2]]
<1>0. /\ GraphOK(out, ins, order) /\ HistoryOK(out, ins, order, stage)
      /\ pc = "irreducible" /\ irr.x > 0
      /\ irr \in IrrRec /\ ~irr.rebuild /\ LabelType(out, label)
      /\ TreeOK(out, order, tree, label) /\ LabelFacts(out, order, tree, label)
      /\ stage # "settled" => LiveHead(out, order)
      /\ HeadsOK(out, order, tree, label, irr)
  BY SMTT(30) DEF SpanInv, FindIrreducible
<1>1. /\ label' = [b \in Node |-> [k \in DOMAIN out[b] |->
                 IF <<b, k>> \notin bad THEN label[b][k]
                 ELSE {"irreducible"} \cup
                      (label[b][k] \ (IF "tree" \in label[b][k] THEN {} ELSE {"cross", "forward"}))]]
      /\ irr' = [irr EXCEPT !.x = @ - 1, !.found = @ \/ bad # {}, !.rebuild = @ \/ treeBad,
                            !.copy = [b \in Node |-> IF b \in U THEN h ELSE irr.copy[b]]]
      /\ out' = out /\ ins' = ins /\ stage' = stage /\ order' = order /\ pc' = pc /\ tree' = tree
  BY DEF FindIrreducible, graph
<1> HIDE DEF h, U, bad, treeBad
<1>2. Len(order) \in Nat /\ irr.x \in Nat
  BY <1>0, LenProperties DEF GraphOK, IrrRec
<1>3. AtHead(out, order, tree, label, irr, h)
  <2>1. irr.x <= Len(order) /\ Len(tree.pre) = Len(order) /\ tree \in TreeRec
    BY <1>0 DEF HeadsOK, TreeOK
  <2>2. irr.x \in 1..Len(tree.pre)
    BY <1>0, <1>2, <2>1
  <2>3. Holds(order, h) /\ tree.visit[h] = irr.x - 1
    BY <1>0, <2>2 DEF TreeOK, h
  <2>4. h \in Node
    BY <2>1, <2>2, TreeTypes DEF h
  <2>5. irr.x >= 1
    BY <1>0, <1>2
  <2> QED BY <1>0, <2>3, <2>4, <2>5 DEF AtHead
<1>4. h \in Node
  BY <1>3 DEF AtHead
<1>5. Under(out, tree, label, irr.copy, h, U)
  BY <1>0, <1>4, UnderFacts DEF U
<1>6. \A p : p \in bad <=> p \in Kept(out, label) /\ Bad(out, tree, irr.copy, h, U, p)
  BY SlotFacts DEF bad, InEdgesOf, Kept, Bad, InSpan, Within
<1>7. \A p \in bad : "tree" \notin label[p[1]][p[2]]
  <2>1. \A p \in SlotsOf(out) : Bad(out, tree, irr.copy, h, U, p) => "tree" \notin label[p[1]][p[2]]
    BY <1>0, <1>2, <1>3, <1>5, TreeHasNone
  <2> QED BY <1>6, <2>1 DEF Kept
<1>8. Marks(out, tree, label, label', irr.copy, h, U)
  BY <1>0, <1>1, <1>6, <1>7, MarksFacts
<1>9. HeadDone(irr, irr', h, U)
  <2>1. treeBad = FALSE
    BY <1>7 DEF treeBad
  <2>2. (bad # {}) \in BOOLEAN
    OBVIOUS
  <2> QED BY <1>0, <1>1, <1>4, <2>1, <2>2, HeadDoneFacts
<1>10. HeadsOK(out, order, tree, label', irr')
  BY <1>0, <1>2, <1>3, <1>5, <1>8, <1>9, HeadsStep
<1>11. TreeOK(out, order, tree, label') /\ LabelFacts(out, order, tree, label')
  <2>1. SameTree(out, label, label')
    BY <1>8 DEF Marks, SameTree
  <2> QED BY <1>0, <2>1, SameTreeOK
<1>12. LabelType(out, label')
  BY <1>8 DEF Marks
<1>13. irr' \in IrrRec /\ ~irr'.rebuild
  BY <1>9 DEF HeadDone
<1> QED BY SMTT(30), <1>0, <1>1, <1>10, <1>11, <1>12, <1>13 DEF SpanInv

-----------------------------------------------------------------------------
(***************************************************************************)
(* The other steps                                                          *)
(***************************************************************************)
\* When all heads are done, nothing enters the body of a head but through it: every
\* back edge that is left goes to a block that dominates its source.
LEMMA AllHeadsDone ==
    ASSUME NEW ou, NEW inn, NEW ord, NEW t, NEW lab, NEW ir, Len(ord) \in Nat,
           GraphOK(ou, inn, ord), TreeOK(ou, ord, t, lab), HeadsOK(ou, ord, t, lab, ir), ir.x = 0
    PROVE  CutOK(ou, t, lab)
<1> SUFFICES ASSUME Len(t.roots) = 1 PROVE CutOK(ou, t, lab)
  BY DEF CutOK
<1> DEFINE r == t.roots[1]
<1>0. t \in TreeRec /\ t.pre[1] = r
  BY DEF TreeOK
<1>1. ASSUME NEW p \in Kept(ou, lab), "back" \in lab[p[1]][p[2]]
      PROVE  Dominates(Kept(ou, lab), ou, r, Dest(ou, p), p[1])
  <2> DEFINE z == Dest(ou, p)
  <2>1. z \in Node /\ Holds(ord, z) /\ p[1] \in Node
    BY SlotType DEF Kept
  <2>2. t.visit[z] \in 0..(Len(ord) - 1) /\ t.pre[t.visit[z] + 1] = z
    BY <2>1 DEF TreeOK
  <2>3. PICK B \in SUBSET Node :
             /\ Body(ou, ord, t, lab, z, B)
             /\ \A q \in Kept(ou, lab) : Dest(ou, q) = z /\ "back" \in lab[q[1]][q[2]] => q[1] \in B \/ q[1] = z
    <3>1. t.visit[z] >= ir.x
      BY <2>2
    <3> QED BY <2>1, <3>1 DEF HeadsOK
  <2>4. p[1] \in B \/ p[1] = z
    BY <1>1, <2>3
  <2> DEFINE R == Node \ (B \cup {z})
  <2>5. r # z => r \in R
    <3> SUFFICES ASSUME r # z, r \in B PROVE FALSE
      <4>1. r \in Node
        <5>1. 1 \in 1..Len(t.roots)
          OBVIOUS
        <5> QED BY <1>0, <5>1, TreeTypes
      <4> QED BY <4>1
    <3>1. t.visit[z] <= t.visit[r]
      BY <2>3 DEF Body, Within
    <3>2. t.visit[r] = 0
      <4>1. Len(t.pre) = Len(ord) /\ 1 \in 1..Len(t.pre)
        BY <2>2 DEF TreeOK
      <4>2. t.visit[t.pre[1]] = 1 - 1
        BY <4>1 DEF TreeOK
      <4> QED BY <1>0, <4>2
    <3>3. t.visit[z] = 0
      BY <2>2, <3>1, <3>2
    <3> QED BY <1>0, <2>2, <3>3
  <2>6. ASSUME NEW q \in Kept(ou, lab), q[1] \in R, Dest(ou, q) # z PROVE Dest(ou, q) \in R
    <3>1. Dest(ou, q) \in Node
      BY SlotType DEF Kept
    <3>2. Dest(ou, q) \notin B
      BY <2>3, <2>6 DEF Body
    <3> QED BY <2>6, <3>1, <3>2
  <2>7. R \in SUBSET Node /\ p[1] # z => p[1] \notin R
    BY <2>4
  <2> HIDE DEF R, z, r
  <2>8. Avoids(Kept(ou, lab), ou, r, z, R)
    BY <2>5, <2>6 DEF Avoids
  <2>9. R \in SUBSET Node
    BY DEF R
  <2>10. p[1] = z \/ p[1] \notin R
    BY <2>4, <2>7 DEF R
  <2>11. Dominates(Kept(ou, lab), ou, r, z, p[1])
    BY <2>8, <2>9, <2>10 DEF Dominates
  <2> QED BY <2>11 DEF z
<1>2. Reduces(Kept(ou, lab), ou, t, lab)
  BY <1>1 DEF Reduces
<1>3. Reduces(SlotsOf(ou), ou, t, lab) => Kept(ou, lab) = SlotsOf(ou)
  BY SMTT(30) DEF HeadsOK
<1> QED BY <1>2, <1>3 DEF CutOK

\* What the loop walk does to its record keeps its type.
LEMMA PathFacts ==
    ASSUME NEW ir \in IrrRec, ~ir.rebuild, NEW c \in Node, NEW k \in Nat
    PROVE  /\ [ir EXCEPT !.path = <<[bl |-> c, edge |-> 0]>>, !.seen = {c}] \in IrrRec
           /\ ~[ir EXCEPT !.path = <<[bl |-> c, edge |-> 0]>>, !.seen = {c}].rebuild
           /\ ir.path # <<>> =>
                /\ Last(ir.path).bl \in Node /\ Last(ir.path).edge \in Nat
                /\ [ir EXCEPT !.path = Front(@)] \in IrrRec
                /\ ~[ir EXCEPT !.path = Front(@)].rebuild
                /\ [ir EXCEPT !.path[Len(ir.path)].edge = k] \in IrrRec
                /\ ~[ir EXCEPT !.path[Len(ir.path)].edge = k].rebuild
           /\ [ir EXCEPT !.path = Append(@, [bl |-> c, edge |-> 0]), !.seen = @ \cup {c}] \in IrrRec
           /\ ~[ir EXCEPT !.path = Append(@, [bl |-> c, edge |-> 0]), !.seen = @ \cup {c}].rebuild
<1> DEFINE F == [bl : Node, edge : Nat]
           f == [bl |-> c, edge |-> 0]
           n == Len(ir.path)
<1>0. ir.path \in Seq(F) /\ ir.seen \in SUBSET Node
  BY DEF IrrRec
<1>1. n \in Nat /\ \A i \in 1..n : ir.path[i] \in F
  BY <1>0, LenProperties, ElementOfSeq
<1>2. f \in F
  OBVIOUS
<1>3. <<f>> \in Seq(F) /\ Append(ir.path, f) \in Seq(F)
  BY <1>0, <1>2, AppendProperties
<1>4. ASSUME ir.path # <<>>
      PROVE  /\ n \in 1..n /\ Last(ir.path) = ir.path[n]
             /\ Front(ir.path) \in Seq(F)
             /\ [ir.path EXCEPT ![n].edge = k] \in Seq(F)
  <2>1. n \in 1..n
    BY <1>0, <1>1, <1>4, EmptySeq
  <2>2. Front(ir.path) \in Seq(F)
    <3>1. Front(ir.path) = SubSeq(ir.path, 1, n - 1)
      BY DEF Front
    <3>2. SubSeq(ir.path, 1, n - 1) \in Seq(F)
      <4>1. \A m \in 1..(n - 1) : ir.path[m] \in F
        BY <1>1
      <4> QED BY SMTT(30), <1>0, <1>1, <2>1, <4>1, SubSeqProperties
    <3> QED BY <3>1, <3>2
  <2>3. [ir.path EXCEPT ![n].edge = k] \in Seq(F)
    <3>1. [ir.path[n] EXCEPT !.edge = k] \in F
      BY <1>1, <2>1
    <3>2. [ir.path EXCEPT ![n] = [ir.path[n] EXCEPT !.edge = k]] \in Seq(F)
      <4> DEFINE e == [ir.path[n] EXCEPT !.edge = k]
      <4>1. e \in F
        BY <3>1
      <4> HIDE DEF e
      <4>2. [ir.path EXCEPT ![n] = e] \in Seq(F)
        BY <1>0, <1>1, <2>1, <4>1, ExceptSeq
      <4> QED BY <4>2 DEF e
    <3> QED BY <3>2
  <2> QED BY <2>1, <2>2, <2>3 DEF Last
<1> HIDE DEF F, f
<1>5. ASSUME NEW q \in Seq(F), NEW s \in SUBSET Node
      PROVE  /\ [ir EXCEPT !.path = q, !.seen = s] \in IrrRec /\ ~[ir EXCEPT !.path = q, !.seen = s].rebuild
             /\ [ir EXCEPT !.path = q] \in IrrRec /\ ~[ir EXCEPT !.path = q].rebuild
  BY DEF IrrRec, F
<1>6. {c} \in SUBSET Node /\ ir.seen \cup {c} \in SUBSET Node
  BY <1>0
<1>7. ir.path # <<>> => Last(ir.path).bl \in Node /\ Last(ir.path).edge \in Nat
  BY SMTT(30), <1>1, <1>4 DEF F
<1>8. ASSUME ir.path # <<>>
      PROVE  /\ [ir EXCEPT !.path[n].edge = k] \in IrrRec /\ ~[ir EXCEPT !.path[n].edge = k].rebuild
             /\ [ir EXCEPT !.path = Front(@)] \in IrrRec /\ ~[ir EXCEPT !.path = Front(@)].rebuild
  <2>1. [ir EXCEPT !.path[n].edge = k] = [ir EXCEPT !.path = [ir.path EXCEPT ![n].edge = k]]
    OBVIOUS
  <2>2. [ir EXCEPT !.path = Front(@)] = [ir EXCEPT !.path = Front(ir.path)]
    OBVIOUS
  <2> QED BY <1>4, <1>5, <1>8, <2>1, <2>2
<1> QED BY <1>3, <1>5, <1>6, <1>7, <1>8 DEF f

\* The walk only adds the loop label.
LEMMA LoopMarked ==
    ASSUME NEW ou, NEW inn, NEW ord, GraphOK(ou, inn, ord), NEW lab, LabelType(ou, lab),
           NEW b \in Node, NEW k \in 1..Len(ou[b]), NEW lab2,
           lab2 = [lab EXCEPT ![b][k] = @ \cup {"loop"}]
    PROVE  /\ LabelType(ou, lab2) /\ SameTree(ou, lab, lab2)
           /\ Kept(ou, lab2) = Kept(ou, lab)
<1>1. /\ DOMAIN lab = Node
      /\ \A c \in Node : lab[c] \in [1..Len(ou[c]) -> SUBSET SpanLabel]
  BY DEF LabelType
<1>2. /\ DOMAIN lab2 = Node
      /\ \A c \in Node : \A j \in 1..Len(ou[c]) :
            lab2[c][j] = IF c = b /\ j = k THEN lab[c][j] \cup {"loop"} ELSE lab[c][j]
  BY <1>1
<1>3. \A c \in Node : lab2[c] \in [1..Len(ou[c]) -> SUBSET SpanLabel]
  <2> SUFFICES ASSUME NEW c \in Node PROVE lab2[c] \in [1..Len(ou[c]) -> SUBSET SpanLabel]
    OBVIOUS
  <2>1. CASE c = b
    <3>1. lab2[c] = [lab[c] EXCEPT ![k] = @ \cup {"loop"}]
      BY <1>1, <2>1
    <3>2. lab[c][k] \cup {"loop"} \in SUBSET SpanLabel
      BY <1>1, <2>1 DEF SpanLabel
    <3> QED BY <1>1, <2>1, <3>1, <3>2
  <2>2. CASE c # b
    BY <1>1, <2>2
  <2> QED BY <2>1, <2>2
<1>4. ASSUME NEW p \in SlotsOf(ou)
      PROVE  /\ lab2[p[1]][p[2]] = lab[p[1]][p[2]] \/ lab2[p[1]][p[2]] = lab[p[1]][p[2]] \cup {"loop"}
  <2>1. p[1] \in Node /\ p[2] \in 1..Len(ou[p[1]])
    BY SlotType
  <2> QED BY <1>2, <2>1
<1>5. LabelType(ou, lab2)
  BY <1>2, <1>3 DEF LabelType
<1>6. SameTree(ou, lab, lab2)
  BY <1>4 DEF SameTree
<1>7. Kept(ou, lab2) = Kept(ou, lab)
  BY <1>4 DEF Kept
<1> QED BY <1>5, <1>6, <1>7

\* The cut is a matter of the back edges and of what is kept.
LEMMA SameCut ==
    ASSUME NEW ou, NEW t, NEW lab, NEW lab2, SameTree(ou, lab, lab2), Kept(ou, lab2) = Kept(ou, lab),
           CutOK(ou, t, lab)
    PROVE  CutOK(ou, t, lab2)
<1>1. Kept(ou, lab) \subseteq SlotsOf(ou) /\ SlotsOf(ou) \subseteq SlotsOf(ou)
  BY DEF Kept
<1>2. /\ Reduces(Kept(ou, lab), ou, t, lab2) <=> Reduces(Kept(ou, lab), ou, t, lab)
      /\ Reduces(SlotsOf(ou), ou, t, lab2) <=> Reduces(SlotsOf(ou), ou, t, lab)
  BY <1>1, SameReduces
<1> QED BY <1>2 DEF CutOK

\* The end of the attempt: no tree edge was irreducible, so there is no other.
LEMMA EndAttemptInv ==
    ASSUME SpanInv, EndAttempt
    PROVE  SpanInv'
<1>0. /\ GraphOK(out, ins, order) /\ HistoryOK(out, ins, order, stage)
      /\ pc = "irreducible" /\ irr.x = 0
      /\ irr \in IrrRec /\ ~irr.rebuild /\ LabelType(out, label)
      /\ TreeOK(out, order, tree, label) /\ LabelFacts(out, order, tree, label)
      /\ stage # "settled" => LiveHead(out, order)
      /\ HeadsOK(out, order, tree, label, irr)
  BY DEF SpanInv, EndAttempt
<1>1. /\ label' = label /\ tree' = tree
      /\ pc' \in {"calcLoop", "dominators"}
      /\ irr' = [irr EXCEPT !.path = <<[bl |-> order[1], edge |-> 0]>>, !.seen = {order[1]}]
      /\ out' = out /\ ins' = ins /\ stage' = stage /\ order' = order
  BY <1>0 DEF EndAttempt, graph
<1>2. Len(order) \in Nat /\ order[1] \in Node
  <2>1. order \in Seq(Node) /\ Holds(order, Entry)
    BY <1>0 DEF GraphOK
  <2>2. Len(order) \in Nat /\ 1 \in 1..Len(order)
    BY SMTT(30), <2>1, LenProperties DEF Holds
  <2> QED BY <2>1, <2>2, ElementOfSeq
<1>3. irr' \in IrrRec /\ ~irr'.rebuild
  <2>1. 0 \in Nat
    OBVIOUS
  <2> QED BY <1>0, <1>1, <1>2, <2>1, PathFacts
<1>4. CutOK(out, tree, label)
  BY <1>0, <1>2, AllHeadsDone
<1>5. pc' # "tree" /\ pc' # "irreducible"
      /\ pc' \in {"tree", "irreducible", "calcLoop", "dominators", "sweep", "done"}
  BY <1>1
<1> QED BY <1>0, <1>1, <1>3, <1>4, <1>5 DEF SpanInv

\* A turn of the loop walk
LEMMA CalcLoopInv ==
    ASSUME SpanInv, CalcLoop
    PROVE  SpanInv'
<1> DEFINE b == Last(irr.path).bl
           k == Last(irr.path).edge + 1
           next == [irr EXCEPT !.path[Len(irr.path)].edge = k]
           onPath == {irr.path[i].bl : i \in DOMAIN irr.path}
<1>0. /\ GraphOK(out, ins, order) /\ HistoryOK(out, ins, order, stage)
      /\ pc = "calcLoop" /\ irr.path # <<>>
      /\ irr \in IrrRec /\ ~irr.rebuild /\ LabelType(out, label)
      /\ TreeOK(out, order, tree, label) /\ LabelFacts(out, order, tree, label)
      /\ stage # "settled" => LiveHead(out, order)
      /\ CutOK(out, tree, label)
  BY SMTT(30) DEF SpanInv, CalcLoop
<1>1. /\ IF k > Len(out[b]) THEN irr' = [irr EXCEPT !.path = Front(@)] /\ label' = label
         ELSE IF "loop" \in label[b][k] THEN irr' = next /\ label' = label
         ELSE IF out[b][k] \in onPath
         THEN irr' = next /\ label' = [label EXCEPT ![b][k] = @ \cup {"loop"}]
         ELSE /\ irr' = IF out[b][k] \in irr.seen THEN next
                        ELSE [next EXCEPT !.path = Append(@, [bl |-> out[b][k], edge |-> 0]),
                                          !.seen = @ \cup {out[b][k]}]
              /\ label' = label
      /\ out' = out /\ ins' = ins /\ stage' = stage /\ order' = order /\ pc' = pc /\ tree' = tree
  BY SMTT(30) DEF CalcLoop, graph, AddLabels
<1>2. /\ b \in Node /\ Last(irr.path).edge \in Nat
      /\ [irr EXCEPT !.path = Front(@)] \in IrrRec
      /\ ~[irr EXCEPT !.path = Front(@)].rebuild
  BY <1>0, EntryFacts, PathFacts
<1> HIDE DEF b, onPath
<1>3. k \in Nat /\ k >= 1
  BY SMTT(30), <1>2
<1>4. next \in IrrRec /\ ~next.rebuild
  <2> HIDE DEF k
  <2> QED BY <1>0, <1>3, EntryFacts, PathFacts
<1> HIDE DEF k, next
<1>5. out[b] \in Seq(Node) /\ Len(out[b]) \in Nat
  BY <1>0, <1>2, LenProperties DEF GraphOK
<1>6. ~(k > Len(out[b])) => k \in 1..Len(out[b]) /\ out[b][k] \in Node
  BY <1>3, <1>5, ElementOfSeq
<1>7. irr' \in IrrRec /\ ~irr'.rebuild
  <2>1. CASE k > Len(out[b])
    BY <1>1, <1>2, <2>1
  <2>2. ASSUME ~(k > Len(out[b])),
               irr' = [next EXCEPT !.path = Append(@, [bl |-> out[b][k], edge |-> 0]), !.seen = @ \cup {out[b][k]}]
        PROVE  irr' \in IrrRec /\ ~irr'.rebuild
    <3> DEFINE c == out[b][k]
    <3>1. c \in Node
      BY <1>6, <2>2
    <3>2. irr' = [next EXCEPT !.path = Append(@, [bl |-> c, edge |-> 0]), !.seen = @ \cup {c}]
      BY <2>2
    <3> HIDE DEF c
    <3> QED BY <1>4, <3>1, <3>2, <1>3, PathFacts
  <2> QED BY <1>1, <1>4, <2>1, <2>2
<1>8. /\ LabelType(out, label') /\ SameTree(out, label, label')
      /\ Kept(out, label') = Kept(out, label)
  <2>1. CASE label' = label
    <3>1. SameTree(out, label, label')
      BY <2>1 DEF SameTree
    <3> QED BY <1>0, <2>1, <3>1
  <2>2. CASE ~(k > Len(out[b])) /\ label' = [label EXCEPT ![b][k] = @ \cup {"loop"}]
    BY ZenonT(60), <1>0, <1>2, <1>6, <2>2, LoopMarked
  <2> QED BY <1>1, <2>1, <2>2
<1>9. TreeOK(out, order, tree, label') /\ LabelFacts(out, order, tree, label')
  BY <1>0, <1>8, SameTreeOK
<1>10. CutOK(out, tree, label')
  BY <1>0, <1>8, SameCut
<1> QED BY SMTT(30), <1>0, <1>1, <1>7, <1>8, <1>9, <1>10 DEF SpanInv

\* The dominators are computed beside all this.
Sweeps == \/ StartDominators \/ SkipBlock \/ NextPredecessor \/ MoveFinger
          \/ SetDominator \/ EndSweep
LEMMA DominatorInv ==
    ASSUME SpanInv, EndCalcLoop \/ Sweeps \/ Settled \/ UNCHANGED vars
    PROVE  SpanInv'
<1>1. CASE UNCHANGED vars
  BY <1>1 DEF vars, SpanInv
<1>2. CASE Settled
  BY <1>2 DEF Settled, vars, SpanInv
<1>3. CASE EndCalcLoop \/ Sweeps
  <2>1. /\ out' = out /\ ins' = ins /\ stage' = stage /\ order' = order /\ label' = label
        /\ tree' = tree /\ irr' = irr
        /\ pc \in {"calcLoop", "dominators", "sweep"} /\ pc' \in {"dominators", "sweep", "done"}
    <3>1. CASE EndCalcLoop
      BY <3>1 DEF EndCalcLoop, graph
    <3>2. CASE StartDominators
      BY <3>2 DEF StartDominators, graph
    <3>3. CASE SkipBlock
      BY <3>3 DEF SkipBlock, Sweeping, graph
    <3>4. CASE NextPredecessor
      BY <3>4 DEF NextPredecessor, Sweeping, graph
    <3>5. CASE MoveFinger
      BY <3>5 DEF MoveFinger, graph
    <3>6. CASE SetDominator
      BY <3>6 DEF SetDominator, Sweeping, graph
    <3>7. CASE EndSweep
      BY <3>7 DEF EndSweep, graph
    <3> QED BY <1>3, <3>1, <3>2, <3>3, <3>4, <3>5, <3>6, <3>7 DEF Sweeps
  <2> QED BY <2>1 DEF SpanInv
<1> QED BY <1>1, <1>2, <1>3

\* Each step of StructureLoops, of ActionDeterminedBranch and of ActionUnreachable keeps it.
LEMMA NextInv ==
    ASSUME SpanInv, [Next]_vars
    PROVE  SpanInv'
<1>1. CASE \E b \in Node, k \in 1..2 : RemoveBranch(b, k)
  BY <1>1, RemoveBranchInv
<1> QED BY <1>1, PickRootInv, WalkInv, EndPassInv, FindIrreducibleInv, EndAttemptInv, CalcLoopInv,
           RemoveUnreachableBlocksInv, DominatorInv DEF Next, Sweeps

\* In every state of every run over any graph the numbering, the labels and the list of
\* blocks say of each other what SpanInv names; every property below follows from it.
THEOREM SpanInvariant == Spec => []SpanInv
<1>1. SpanInv /\ [Next]_vars => SpanInv'
  BY NextInv
<1> QED BY <1>1, InitInv, PTL DEF Spec

\* BlockGraph.StructureLoops leaves the blocks in reverse post-order, the back edges
\* exactly those that go up in it, also when extra roots cost a second pass, and the
\* entry first when nothing enters it.
THEOREM OrderStaysRight == Spec => []OrderRight
BY SpanInvariant, OrderFromInv, PTL

\* Without the loop edges the graph has no cycle; without the irreducible ones every
\* back edge goes to a dominator of its source, and a reducible graph loses none.
THEOREM LabelsStayCut == Spec => []LabelsCut
<1>1. SpanInv => LabelsCut
  BY LoopsFromInv, CutFromInv DEF LabelsCut
<1> QED BY <1>1, SpanInvariant, PTL

\* RemoveUnreachableBlocks, which trusts the number of roots, leaves exactly the blocks
\* the entry reaches, when nothing enters the entry.
THEOREM DeadStaysRemoved == Spec => []DeadRemoved
BY SpanInvariant, DeadFromInv, PTL

\* No edge into the body of a head is a tree edge unless it leaves the body or the
\* head: findIrreducible never asks StructureLoops for another attempt, and the
\* attempts after the first are never made.
THEOREM NeverRebuilds == Spec => []~irr.rebuild
<1>1. SpanInv => ~irr.rebuild
  BY DEF SpanInv
<1> QED BY <1>1, SpanInvariant, PTL


-----------------------------------------------------------------------------
(***************************************************************************)
(* Dominators.  Around names sets that hold what is reached without z; the    *)
(* first block stands for the virtual root.                                  *)
(***************************************************************************)
Around(ou, ord, t, z, R) ==
    /\ \A b \in Node : (b = ord[1] \/ Holds(t.roots, b)) /\ b # z => b \in R
    /\ \A p \in SlotsOf(ou) : p[1] \in R /\ Dest(ou, p) # z => Dest(ou, p) \in R
Doms(ou, ord, t, z, c) == z = ord[1] \/ \E R \in SUBSET Node : Around(ou, ord, t, z, R) /\ c \notin R

\* The blocks that would be drawn above a block: d is the tree being computed.
Up(ord, d, b) == IF d[b] = Top THEN ord[1] ELSE d[b]
UpShut(ord, d, S) == \A x \in S : d[x] # Nil => Up(ord, d, x) \in S
Above(ord, d, z, a) == \A S \in SUBSET Node : a \in S /\ UpShut(ord, d, S) => z \in S

\* The virtual root, and the block at the top of the tree of dominators
VirtualTop(inn, ord, t) == Len(t.roots) > 1 \/ inn[ord[1]] # <<>>
TopOf(inn, ord, t) == IF VirtualTop(inn, ord, t) THEN Top ELSE ord[1]

\* What d says of b: the block above b comes earlier, and what dominates b
\* dominates it.
Parent(ou, ord, t, d, b) ==
    LET u == Up(ord, d, b)
    IN  /\ u \in Node /\ Holds(ord, u) /\ d[u] # Nil
        /\ t.index[u] < t.index[b]
        /\ \A z \in Node : Holds(ord, z) /\ z # b /\ Doms(ou, ord, t, z, b) => Doms(ou, ord, t, z, u)
UpOK(ou, inn, ord, t, d) ==
    /\ d \in [Node -> 0..Top]
    /\ d[ord[1]] = TopOf(inn, ord, t)
    /\ \A b \in Node : Holds(ord, b) => (d[b] = Top <=> VirtualTop(inn, ord, t) /\ Holds(t.roots, b))
    /\ \A b \in Node : Holds(ord, b) /\ b # ord[1] /\ d[b] # Nil => Parent(ou, ord, t, d, b)

\* What the sweep has done: every block passed has a dominator, and as long as none
\* was changed it is above every predecessor.
MeetsAll(ou, ord, d, b) ==
    \A p \in SlotsOf(ou) : Dest(ou, p) = b /\ d[p[1]] # Nil => Above(ord, d, Up(ord, d, b), p[1])
SweptOK(ou, ord, t, d, e) ==
    \A i \in 1..Len(ord) : i < e.at =>
        /\ d[ord[i]] # Nil
        /\ ~e.changed /\ ~Holds(t.roots, ord[i]) => MeetsAll(ou, ord, d, ord[i])

\* The intersection under way for the block b: the fingers are above all
\* predecessors seen, and what dominates b dominates them.
Found(d, e) == e.new # Nil /\ d[e.new] # Nil
JoinOK(ou, inn, ord, t, d, e, b) ==
    /\ e.new # Nil => e.new \in Node /\ Holds(ord, e.new)
    /\ e.rho # Nil => e.rho \in Node /\ Holds(ord, e.rho) /\ d[e.rho] # Nil /\ Found(d, e) /\ e.pred > 1
    /\ e.pred >= 1 /\ e.pred - 1 <= Len(inn[b])
    /\ \A i \in 1..(e.pred - 1) : d[inn[b][i][1]] # Nil =>
          /\ Found(d, e)
          /\ e.rho = Nil \/ i < e.pred - 1 => Above(ord, d, e.new, inn[b][i][1])
          /\ e.rho # Nil /\ i = e.pred - 1 => Above(ord, d, e.rho, inn[b][i][1])
    /\ \A z \in Node : Holds(ord, z) /\ z # b /\ Doms(ou, ord, t, z, b) =>
          /\ Found(d, e) => Doms(ou, ord, t, z, e.new)
          /\ e.rho # Nil => Doms(ou, ord, t, z, e.rho)

\* The state of a sweep
SweepRec == [at : Nat, pred : Nat, new : Nat, rho : Nat, changed : BOOLEAN]
SweepOK(ou, inn, ord, t, d, e) ==
    /\ e \in SweepRec
    /\ IF VirtualTop(inn, ord, t) THEN e.at >= 1 ELSE e.at >= 2
    /\ e.at <= Len(ord) + 1
    /\ UpOK(ou, inn, ord, t, d)
    /\ SweptOK(ou, ord, t, d, e)
    /\ IF e.at <= Len(ord) /\ d[ord[e.at]] # TopOf(inn, ord, t)
       THEN JoinOK(ou, inn, ord, t, d, e, ord[e.at])
       ELSE e = AtBlock(e.at, e.changed)

\* The dominators as they are left
IdomOK(ou, ord, t, d) ==
    \A c \in Node : Holds(ord, c) =>
        IF Holds(t.roots, c) THEN d[c] = Nil
        ELSE /\ d[c] \in Node /\ Holds(ord, d[c]) /\ d[c] # c
             /\ Doms(ou, ord, t, d[c], c)
             /\ \A z \in Node : Holds(ord, z) /\ z # c /\ Doms(ou, ord, t, z, c) => Doms(ou, ord, t, z, d[c])

\* What the dominators need of the finished tree
Structured(ou, inn, ord, t) ==
    /\ GraphOK(ou, inn, ord)
    /\ t.roots \in Seq(Node) /\ Len(t.roots) >= 1
    /\ ord[1] \in Node /\ Holds(ord, ord[1]) /\ Holds(t.roots, ord[1]) /\ t.index[ord[1]] = 0
    /\ \A b \in Node : Holds(ord, b) =>
          /\ t.index[b] \in 0..(Len(ord) - 1) /\ ord[t.index[b] + 1] = b
          /\ \/ Holds(t.roots, b)
             \/ \E p \in SlotsOf(ou) : Dest(ou, p) = b /\ t.index[p[1]] < t.index[b]

\* While the dominators are computed, and when they are
DomInv ==
    /\ pc = "sweep" => SweepOK(out, ins, order, tree, idom, sweep)
    /\ pc = "done" => IdomOK(out, order, tree, idom)

-----------------------------------------------------------------------------
\* The first block has index 0 and is a root; every other block is a root or has an
\* edge from an earlier one.
LEMMA StructuredFacts ==
    ASSUME NEW ou, NEW inn, NEW ord, NEW t, NEW lab,
           GraphOK(ou, inn, ord), TreeOK(ou, ord, t, lab), LabelFacts(ou, ord, t, lab)
    PROVE  Structured(ou, inn, ord, t)
<1>1. ord \in Seq(Node) /\ Len(ord) \in Nat /\ Holds(ord, Entry)
  BY LenProperties DEF GraphOK
<1>2. Len(ord) >= 1 /\ ord[1] \in Node /\ Holds(ord, ord[1])
  <2>1. PICK i \in 1..Len(ord) : ord[i] = Entry
    BY <1>1 DEF Holds
  <2>2. Len(ord) >= 1
    BY <1>1, <2>1
  <2> QED BY <1>1, <2>2, ElementOfSeq DEF Holds
<1>3. \A i, j \in 1..Len(ord) : ord[i] = ord[j] => i = j
  BY DEF GraphOK
<1>4. ASSUME NEW b \in Node, Holds(ord, b)
      PROVE  /\ t.index[b] \in 0..(Len(ord) - 1) /\ ord[t.index[b] + 1] = b
             /\ \/ Holds(t.roots, b)
                \/ \E p \in SlotsOf(ou) : Dest(ou, p) = b /\ t.index[p[1]] < t.index[b]
  <2>1. /\ t.index[b] \in 0..(Len(ord) - 1) /\ ord[t.index[b] + 1] = b
        /\ \/ Holds(t.roots, b)
           \/ \E p \in SlotsOf(ou) : Dest(ou, p) = b /\ "tree" \in lab[p[1]][p[2]]
    BY <1>4 DEF TreeOK
  <2>2. ASSUME NEW p \in SlotsOf(ou), Dest(ou, p) = b, "tree" \in lab[p[1]][p[2]]
        PROVE  t.index[p[1]] < t.index[b]
    <3>1. p[1] \in Node /\ Holds(ord, p[1])
      BY <2>2, SlotType
    <3>2. t.index[p[1]] \in Int /\ t.visit[p[1]] \in Int /\ t.visit[b] \in Int
      BY <1>4, <3>1 DEF TreeOK
    <3>3. t.visit[p[1]] < t.visit[b] /\ "back" \notin lab[p[1]][p[2]]
      BY <2>2, <3>2 DEF LabelFacts
    <3> QED BY <2>1, <2>2, <3>2, <3>3 DEF LabelFacts
  <2> QED BY <2>1, <2>2
<1>5. t.index[ord[1]] = 0
  <2>1. t.index[ord[1]] + 1 \in 1..Len(ord) /\ 1 \in 1..Len(ord)
    BY <1>1, <1>2, <1>4
  <2>2. t.index[ord[1]] + 1 = 1
    BY <1>2, <1>3, <1>4, <2>1
  <2> QED BY <1>2, <1>4, <2>2
<1>6. Holds(t.roots, ord[1])
  <2>1. ASSUME NEW p \in SlotsOf(ou) PROVE ~(t.index[p[1]] < 0)
    BY <2>1, SlotType, <1>1, <1>4
  <2> QED BY <1>2, <1>4, <1>5, <2>1
<1>7. t.roots \in Seq(Node) /\ Len(t.roots) >= 1
  BY DEF TreeOK, TreeRec
<1> QED BY <1>2, <1>4, <1>5, <1>6, <1>7 DEF Structured

\* Two blocks with the same index are one.
LEMMA IndexFacts ==
    ASSUME NEW ou, NEW inn, NEW ord, NEW t, Structured(ou, inn, ord, t),
           NEW b \in Node, Holds(ord, b)
    PROVE  /\ t.index[b] \in Nat /\ t.index[b] < Len(ord) /\ Len(ord) \in Nat
           /\ ord[t.index[b] + 1] = b /\ t.index[b] + 1 \in 1..Len(ord)
           /\ b # ord[1] => t.index[b] > 0
           /\ \A c \in Node : Holds(ord, c) /\ t.index[c] = t.index[b] => c = b
<1>1. Len(ord) \in Nat
  BY LenProperties DEF Structured, GraphOK
<1>2. t.index[b] \in 0..(Len(ord) - 1) /\ ord[t.index[b] + 1] = b
  BY DEF Structured
<1>3. \A c \in Node : Holds(ord, c) => ord[t.index[c] + 1] = c
  BY DEF Structured
<1> QED BY SMTT(30), <1>1, <1>2, <1>3

\* A block is somewhere in the list.
LEMMA ListedAt ==
    ASSUME NEW ou, NEW inn, NEW ord, NEW t, Structured(ou, inn, ord, t), NEW i \in 1..Len(ord)
    PROVE  ord[i] \in Node /\ Holds(ord, ord[i]) /\ t.index[ord[i]] = i - 1
<1>1. ord \in Seq(Node) /\ Len(ord) \in Nat /\ \A j, k \in 1..Len(ord) : ord[j] = ord[k] => j = k
  BY LenProperties DEF Structured, GraphOK
<1>2. ord[i] \in Node /\ Holds(ord, ord[i])
  BY <1>1, ElementOfSeq DEF Holds
<1>3. ord[t.index[ord[i]] + 1] = ord[i] /\ t.index[ord[i]] + 1 \in 1..Len(ord) /\ t.index[ord[i]] \in Nat
  BY <1>2, IndexFacts
<1>4. t.index[ord[i]] + 1 = i
  BY <1>1, <1>3
<1> QED BY <1>2, <1>3, <1>4

-----------------------------------------------------------------------------
\* What dominates a block comes before it: the blocks up to it are reached through
\* one another.
LEMMA DomsIndex ==
    ASSUME NEW ou, NEW inn, NEW ord, NEW t, Structured(ou, inn, ord, t),
           NEW z \in Node, Holds(ord, z), NEW c \in Node, Holds(ord, c), Doms(ou, ord, t, z, c)
    PROVE  t.index[z] <= t.index[c]
<1>1. t.index[z] \in Nat /\ t.index[c] \in Nat
  BY IndexFacts
<1>2. CASE z = ord[1]
  BY <1>1, <1>2 DEF Structured
<1>3. CASE z # ord[1]
  <2>1. PICK R \in SUBSET Node : Around(ou, ord, t, z, R) /\ c \notin R
    BY <1>3 DEF Doms
  <2> SUFFICES ASSUME t.index[c] < t.index[z] PROVE FALSE
    BY <1>1
  <2> DEFINE S == {i \in Nat : \E b \in Node : Holds(ord, b) /\ t.index[b] = i /\ i < t.index[z] /\ b \notin R}
  <2>2. t.index[c] \in S
    BY <1>1, <2>1
  <2>3. PICK i \in S : \A j \in S : i <= j
    <3>1. S \subseteq Nat /\ S # {}
      BY <2>2
    <3> HIDE DEF S
    <3> QED BY <3>1, LeastNumber
  <2>4. PICK b \in Node : Holds(ord, b) /\ t.index[b] = i /\ i < t.index[z] /\ b \notin R
    BY <2>3
  <2>5. b # z
    BY <2>4, <1>1
  <2>6. ~Holds(t.roots, b)
    BY <2>1, <2>4, <2>5 DEF Around
  <2>7. PICK p \in SlotsOf(ou) : Dest(ou, p) = b /\ t.index[p[1]] < t.index[b]
    BY <2>4, <2>6 DEF Structured
  <2>8. p[1] \in Node /\ Holds(ord, p[1])
    BY SlotType DEF Structured
  <2>9. t.index[p[1]] \in Nat
    BY <2>8, IndexFacts
  <2>10. p[1] \in R
    <3> SUFFICES ASSUME p[1] \notin R PROVE FALSE
      OBVIOUS
    <3>1. t.index[p[1]] \in S
      BY <1>1, <2>3, <2>4, <2>7, <2>8, <2>9
    <3>2. i <= t.index[p[1]]
      BY <2>3, <3>1
    <3> QED BY <2>3, <2>4, <2>7, <2>9, <3>2
  <2> QED BY <2>1, <2>4, <2>5, <2>7, <2>10 DEF Around
<1> QED BY <1>2, <1>3

\* What dominates a block dominates its predecessors.
LEMMA DomsPred ==
    ASSUME NEW ou, NEW ord, NEW t, NEW p \in SlotsOf(ou),
           NEW z, z # Dest(ou, p), Doms(ou, ord, t, z, Dest(ou, p))
    PROVE  Doms(ou, ord, t, z, p[1])
  BY DEF Doms, Around

\* Only the first block, which stands for the virtual root, dominates another root.
LEMMA DomsRoot ==
    ASSUME NEW ou, NEW ord, NEW t, NEW b \in Node, Holds(t.roots, b),
           NEW z, z # b, Doms(ou, ord, t, z, b)
    PROVE  z = ord[1]
  BY DEF Doms, Around

-----------------------------------------------------------------------------
\* Above is the reflexive and transitive closure of Up.
LEMMA AboveFacts ==
    ASSUME NEW ord, NEW d, NEW a
    PROVE  /\ Above(ord, d, a, a)
           /\ \A z : Above(ord, d, z, a) /\ d[z] # Nil => Above(ord, d, Up(ord, d, z), a)
           /\ \A y, z : Above(ord, d, y, a) /\ Above(ord, d, z, y) => Above(ord, d, z, a)
  BY DEF Above, UpShut

\* What is above a block and not the block is above its dominator.
LEMMA AboveSplit ==
    ASSUME NEW ord, NEW d, NEW a \in Node, d[a] # Nil, NEW z, z # a, Above(ord, d, z, a)
    PROVE  Above(ord, d, z, Up(ord, d, a))
<1> SUFFICES ASSUME NEW S \in SUBSET Node, Up(ord, d, a) \in S, UpShut(ord, d, S) PROVE z \in S
  BY DEF Above
<1>1. S \cup {a} \in SUBSET Node /\ a \in S \cup {a} /\ UpShut(ord, d, S \cup {a})
  BY DEF UpShut
<1>2. z \in S \cup {a}
  BY <1>1 DEF Above
<1> QED BY <1>2

\* What is above a block has a dominator and comes no later.
LEMMA AboveEarlier ==
    ASSUME NEW ou, NEW inn, NEW ord, NEW t, Structured(ou, inn, ord, t),
           NEW d, UpOK(ou, inn, ord, t, d),
           NEW a \in Node, Holds(ord, a), d[a] # Nil, NEW z, Above(ord, d, z, a)
    PROVE  z \in Node /\ Holds(ord, z) /\ d[z] # Nil /\ t.index[z] <= t.index[a]
<1> DEFINE S == {x \in Node : Holds(ord, x) /\ d[x] # Nil /\ t.index[x] <= t.index[a]}
<1>1. a \in S /\ S \in SUBSET Node
  BY IndexFacts
<1>2. ASSUME NEW x \in S PROVE Up(ord, d, x) \in S
  <2>1. CASE x = ord[1]
    <3>1. Up(ord, d, x) = ord[1]
      BY <2>1 DEF UpOK, Up, TopOf
    <3> QED BY <2>1, <3>1
  <2>2. CASE x # ord[1]
    <3>1. Parent(ou, ord, t, d, x)
      BY <2>2 DEF UpOK
    <3>2. /\ Up(ord, d, x) \in Node /\ Holds(ord, Up(ord, d, x)) /\ d[Up(ord, d, x)] # Nil
          /\ t.index[Up(ord, d, x)] < t.index[x]
      BY <3>1 DEF Parent
    <3>3. t.index[Up(ord, d, x)] \in Nat /\ t.index[x] \in Nat /\ t.index[a] \in Nat
      BY <3>2, IndexFacts
    <3> QED BY <3>2, <3>3
  <2> QED BY <2>1, <2>2
<1>3. z \in S
  <2> HIDE DEF S
  <2> QED BY <1>1, <1>2 DEF Above, UpShut
<1> QED BY <1>3

\* The first block is above every block that has a dominator.
LEMMA AboveHead ==
    ASSUME NEW ou, NEW inn, NEW ord, NEW t, Structured(ou, inn, ord, t),
           NEW d, UpOK(ou, inn, ord, t, d), NEW a \in Node, Holds(ord, a), d[a] # Nil
    PROVE  Above(ord, d, ord[1], a)
<1> SUFFICES ASSUME NEW S \in SUBSET Node, a \in S, UpShut(ord, d, S) PROVE ord[1] \in S
  BY DEF Above
<1> DEFINE K == {i \in Nat : \E x \in S : Holds(ord, x) /\ d[x] # Nil /\ t.index[x] = i}
<1>1. t.index[a] \in K
  BY IndexFacts
<1>2. PICK i \in K : \A j \in K : i <= j
  <2>1. K \subseteq Nat /\ K # {}
    BY <1>1
  <2> HIDE DEF K
  <2> QED BY <2>1, LeastNumber
<1>3. PICK x \in S : Holds(ord, x) /\ d[x] # Nil /\ t.index[x] = i
  BY <1>2
<1> SUFFICES ASSUME x # ord[1] PROVE FALSE
  OBVIOUS
<1>4. Parent(ou, ord, t, d, x)
  BY <1>3 DEF UpOK
<1>5. /\ Up(ord, d, x) \in Node /\ Holds(ord, Up(ord, d, x)) /\ d[Up(ord, d, x)] # Nil
      /\ t.index[Up(ord, d, x)] < t.index[x]
  BY <1>4 DEF Parent
<1>6. t.index[Up(ord, d, x)] \in Nat
  BY <1>5, IndexFacts
<1>7. Up(ord, d, x) \in S
  BY <1>3 DEF UpShut
<1>8. t.index[Up(ord, d, x)] \in K
  BY <1>5, <1>6, <1>7
<1> QED BY <1>2, <1>3, <1>5, <1>6, <1>8

\* Above a root are the root and the first block.
LEMMA AboveRoot ==
    ASSUME NEW ou, NEW inn, NEW ord, NEW t, Structured(ou, inn, ord, t),
           NEW d, UpOK(ou, inn, ord, t, d), NEW b \in Node, Holds(t.roots, b), Holds(ord, b),
           NEW z, Above(ord, d, z, b)
    PROVE  z = b \/ z = ord[1]
<1>1. ord[1] \in Node
  BY DEF Structured
<1>2. Up(ord, d, ord[1]) = ord[1]
  BY DEF UpOK, Up, TopOf
<1>3. Up(ord, d, b) = ord[1]
  <2>1. CASE VirtualTop(inn, ord, t)
    BY <2>1 DEF UpOK, Up
  <2>2. CASE ~VirtualTop(inn, ord, t)
    <3>1. b = ord[1]
      BY <2>2 DEF Structured, VirtualTop, Holds
    <3> QED BY <1>2, <3>1
  <2> QED BY <2>1, <2>2
<1>4. UpShut(ord, d, {b, ord[1]})
  BY <1>2, <1>3 DEF UpShut
<1> QED BY <1>1, <1>4 DEF Above

\* Without a virtual root the first block is the only root and has no way in.
LEMMA OneTop ==
    ASSUME NEW ou, NEW inn, NEW ord, NEW t, Structured(ou, inn, ord, t), ~VirtualTop(inn, ord, t)
    PROVE  /\ \A b : Holds(t.roots, b) => b = ord[1]
           /\ \A p \in SlotsOf(ou) : Dest(ou, p) # ord[1]
<1>1. Len(t.roots) = 1 /\ inn[ord[1]] = <<>>
  <2>1. t.roots \in Seq(Node) /\ Len(t.roots) >= 1
    BY DEF Structured
  <2>2. Len(t.roots) \in Nat
    BY <2>1, LenProperties
  <2>3. ~(Len(t.roots) > 1)
    BY DEF VirtualTop
  <2>4. inn[ord[1]] = <<>>
    BY DEF VirtualTop
  <2>5. Len(t.roots) = 1
    <3>1. \A n \in Nat : n >= 1 /\ ~(n > 1) => n = 1
      OBVIOUS
    <3> QED BY Zenon, <2>1, <2>2, <2>3, <3>1
  <2> QED BY <2>4, <2>5
<1>2. \A b : Holds(t.roots, b) => b = ord[1]
  BY <1>1 DEF Structured, Holds
<1>3. \A p \in SlotsOf(ou) : Dest(ou, p) # ord[1]
  BY SMTT(30), <1>1 DEF Structured, GraphOK, Holds
<1> QED BY <1>2, <1>3

-----------------------------------------------------------------------------
\* The operators of the module, over values
LEMMA TopFacts ==
    ASSUME Structured(out, ins, order, tree)
    PROVE  /\ HasVirtualRoot <=> VirtualTop(ins, order, tree)
           /\ TopBlock = TopOf(ins, order, tree)
           /\ \A b : b \in Range(tree.roots) <=> Holds(tree.roots, b)
  BY BlockFacts DEF HasVirtualRoot, VirtualTop, TopBlock, TopOf, Structured

\* Top is not a block.
LEMMA TopNotNode == Top \notin Node /\ Nil \notin Node /\ Top # Nil /\ Top \in Nat /\ Nil = 0 /\ \A b \in Node : b \in Nat
  BY SpanningTreeAssumption DEF Top, Node, Nil

\* A block whose dominator is not the top is no root; its predecessors are its
\* in-edges.
LEMMA SweptPreds ==
    ASSUME Structured(out, ins, order, tree), UpOK(out, ins, order, tree, idom),
           NEW b \in Node, Holds(order, b), idom[b] # TopOf(ins, order, tree)
    PROVE  /\ ~Holds(tree.roots, b)
           /\ Len(Preds(b)) = Len(ins[b]) /\ Len(ins[b]) \in Nat
           /\ \A i \in 1..Len(ins[b]) :
                 /\ Preds(b)[i] = ins[b][i][1] /\ ins[b][i][1] \in Node /\ Holds(order, ins[b][i][1])
                 /\ ins[b][i] \in SlotsOf(out) /\ Dest(out, ins[b][i]) = b
<1>1. ~Holds(tree.roots, b)
  <2>1. CASE VirtualTop(ins, order, tree)
    BY <2>1 DEF UpOK, TopOf
  <2>2. CASE ~VirtualTop(ins, order, tree)
    BY <2>2, OneTop DEF UpOK
  <2> QED BY <2>1, <2>2
<1> DEFINE s == [i \in DOMAIN ins[b] |-> ins[b][i][1]]
<1>2. Preds(b) = s \o <<>>
  BY <1>1, TopFacts DEF Preds
<1>3. GraphOK(out, ins, order) /\ ins[b] \in Seq(Node \X (1..MaxOut))
  BY DEF Structured, GraphOK
<1>4. DOMAIN ins[b] = 1..Len(ins[b]) /\ Len(ins[b]) \in Nat
  BY <1>3, LenProperties
<1>5. \A i \in 1..Len(ins[b]) :
         /\ ins[b][i] \in SlotsOf(out) /\ Dest(out, ins[b][i]) = b
         /\ ins[b][i][1] \in Node /\ Holds(order, ins[b][i][1])
  BY <1>3, SlotType DEF GraphOK
<1>6. s \in Seq(Node) /\ Len(s) = Len(ins[b]) /\ \A i \in 1..Len(ins[b]) : s[i] = ins[b][i][1]
  <2>1. s \in [1..Len(ins[b]) -> Node]
    BY <1>4, <1>5
  <2>2. s \in Seq(Node)
    BY <1>4, <2>1 DEF Seq
  <2>3. Len(s) = Len(ins[b])
    BY <1>4, <2>1, <2>2, LenProperties
  <2> QED BY <1>4, <2>2, <2>3
<1> HIDE DEF s
<1>7. s \o <<>> = s
  BY <1>6, ConcatEmptySeq
<1> QED BY <1>1, <1>2, <1>4, <1>5, <1>6, <1>7

\* At a block where nothing has been looked at the fingers have nothing to say.
LEMMA FreshJoin ==
    ASSUME NEW ou, NEW inn, NEW ord, NEW t, Structured(ou, inn, ord, t), NEW d,
           NEW at \in Nat, at >= 1, NEW ch \in BOOLEAN
    PROVE  /\ AtBlock(at, ch) \in SweepRec
           /\ at <= Len(ord) => JoinOK(ou, inn, ord, t, d, AtBlock(at, ch), ord[at])
<1> DEFINE e == AtBlock(at, ch)
<1>1. e \in SweepRec /\ e.at = at /\ e.pred = 1 /\ e.new = Nil /\ e.rho = Nil
  BY DEF AtBlock, SweepRec, Nil
<1>2. ASSUME at <= Len(ord) PROVE Len(inn[ord[at]]) \in Nat
  <2>1. Len(ord) \in Nat
    BY LenProperties DEF Structured, GraphOK
  <2>2. ord[at] \in Node
    BY <1>2, <2>1, ListedAt
  <2> QED BY <2>2, LenProperties DEF Structured, GraphOK
<1> HIDE DEF e
<1>3. at <= Len(ord) => JoinOK(ou, inn, ord, t, d, e, ord[at])
  BY <1>1, <1>2 DEF JoinOK, Found
<1> QED BY <1>1, <1>3 DEF e

\* So the sweep is right at a block it comes to when it was right before.
LEMMA NextBlock ==
    ASSUME NEW ou, NEW inn, NEW ord, NEW t, Structured(ou, inn, ord, t), NEW d,
           UpOK(ou, inn, ord, t, d),
           NEW at \in Nat, at <= Len(ord) + 1, NEW ch \in BOOLEAN,
           IF VirtualTop(inn, ord, t) THEN at >= 1 ELSE at >= 2,
           SweptOK(ou, ord, t, d, AtBlock(at, ch))
    PROVE  SweepOK(ou, inn, ord, t, d, AtBlock(at, ch))
<1>1. at >= 1
  OBVIOUS
<1>2. AtBlock(at, ch).at = at /\ AtBlock(at, ch).changed = ch
  BY DEF AtBlock
<1>3. /\ AtBlock(at, ch) \in SweepRec
      /\ at <= Len(ord) => JoinOK(ou, inn, ord, t, d, AtBlock(at, ch), ord[at])
  BY <1>1, FreshJoin
<1> QED BY <1>2, <1>3 DEF SweepOK

-----------------------------------------------------------------------------
(***************************************************************************)
(* The steps                                                                *)
(***************************************************************************)
\* The blocks below the top are right from the start.
LEMMA StartDominatorsDom ==
    ASSUME Structured(out, ins, order, tree), StartDominators
    PROVE  SweepOK(out, ins, order, tree, idom', sweep') /\ pc' = "sweep"
<1> DEFINE V == VirtualTop(ins, order, tree)
           T == TopOf(ins, order, tree)
           r == order[1]
<1>1. /\ idom' = [b \in Node |-> IF b = T \/ b \in (IF V THEN Range(tree.roots) ELSE Range(out[r])) THEN T ELSE Nil]
      /\ sweep' = AtBlock(IF V THEN 1 ELSE 2, FALSE) /\ pc' = "sweep"
  BY TopFacts DEF StartDominators, FirstSwept
<1>2. /\ r \in Node /\ Holds(order, r) /\ Holds(tree.roots, r) /\ tree.index[r] = 0
      /\ Len(order) \in Nat /\ 1 <= Len(order)
  <2>1. r \in Node /\ Holds(order, r) /\ Holds(tree.roots, r) /\ tree.index[r] = 0
    BY DEF Structured
  <2> QED BY <2>1, IndexFacts
<1>3. T = IF V THEN Top ELSE r
  BY DEF TopOf
<1>4. T \in 0..Top /\ T # Nil /\ Nil \in 0..Top
  BY <1>2, <1>3, SpanningTreeAssumption DEF Top, Node, Nil
<1>5. idom' \in [Node -> 0..Top] /\ \A b \in Node : idom'[b] \in {T, Nil}
  BY <1>1, <1>4
<1>6. idom'[r] = T
  <2>1. V => r \in Range(tree.roots)
    BY <1>2, TopFacts
  <2> QED BY <1>1, <1>2, <1>3, <2>1
<1>7. ASSUME NEW b \in Node, Holds(order, b)
      PROVE  idom'[b] = Top <=> V /\ Holds(tree.roots, b)
  BY <1>1, <1>2, <1>3, <1>7, TopFacts, TopNotNode
<1>8. ASSUME NEW b \in Node, Holds(order, b), b # r, idom'[b] # Nil
      PROVE  Parent(out, order, tree, idom', b)
  <2>1. Up(order, idom', b) = r
    BY <1>3, <1>5, <1>8 DEF Up
  <2>2. tree.index[r] < tree.index[b]
    BY <1>2, <1>8, IndexFacts
  <2>3. ASSUME NEW z \in Node, z # b, Doms(out, order, tree, z, b)
        PROVE  Doms(out, order, tree, z, r)
    <3>1. CASE V
      <4>1. Holds(tree.roots, b)
        BY <1>3, <1>5, <1>7, <1>8, <3>1
      <4>2. z = r
        BY <2>3, <4>1, DomsRoot
      <4> QED BY <4>2 DEF Doms
    <3>2. CASE ~V
      <4>1. b \in Range(out[r])
        BY <1>1, <1>3, <1>8, <3>2
      <4>2. PICK k \in 1..Len(out[r]) : out[r][k] = b
        <5>1. out[r] \in Seq(Node)
          BY <1>2 DEF Structured, GraphOK
        <5> QED BY <4>1, <5>1, BlockFacts DEF Holds
      <4>3. <<r, k>> \in SlotsOf(out) /\ Dest(out, <<r, k>>) = b
        <5>1. Len(out[r]) \in Nat /\ Len(out[r]) <= MaxOut
          BY <1>2, LenProperties DEF Structured, GraphOK
        <5>2. k \in 1..MaxOut /\ k <= Len(out[r])
          BY <5>1, SpanningTreeAssumption
        <5> QED BY <1>2, <4>2, <5>2 DEF SlotsOf, Dest
      <4> QED BY <2>3, <4>3, DomsPred
    <3> QED BY <3>1, <3>2
  <2> QED BY <1>2, <1>4, <1>6, <2>1, <2>2, <2>3 DEF Parent
<1>9. UpOK(out, ins, order, tree, idom')
  BY <1>5, <1>6, <1>7, <1>8 DEF UpOK
<1>10. SweptOK(out, order, tree, idom', AtBlock(IF V THEN 1 ELSE 2, FALSE))
  <2>1. AtBlock(IF V THEN 1 ELSE 2, FALSE).at = IF V THEN 1 ELSE 2
    BY DEF AtBlock
  <2>2. \A i \in 1..Len(order) : i < (IF V THEN 1 ELSE 2) => i = 1
    OBVIOUS
  <2> QED BY <1>2, <1>4, <1>6, <2>1, <2>2 DEF SweptOK
<1>11. SweepOK(out, ins, order, tree, idom', AtBlock(IF V THEN 1 ELSE 2, FALSE))
  <2>1. CASE V
    <3>1. SweptOK(out, order, tree, idom', AtBlock(1, FALSE))
      BY <1>10, <2>1
    <3>2. SweepOK(out, ins, order, tree, idom', AtBlock(1, FALSE))
      <4>1. /\ 1 \in Nat /\ 1 <= Len(order) + 1 /\ FALSE \in BOOLEAN
            /\ IF VirtualTop(ins, order, tree) THEN 1 >= 1 ELSE 1 >= 2
        BY <1>2, <2>1
      <4> QED BY Zenon, <1>9, <3>1, <4>1, NextBlock
    <3> QED BY <2>1, <3>2
  <2>2. CASE ~V
    <3>1. SweptOK(out, order, tree, idom', AtBlock(2, FALSE))
      BY <1>10, <2>2
    <3>2. SweepOK(out, ins, order, tree, idom', AtBlock(2, FALSE))
      <4>1. /\ 2 \in Nat /\ 2 <= Len(order) + 1 /\ FALSE \in BOOLEAN
            /\ IF VirtualTop(ins, order, tree) THEN 2 >= 1 ELSE 2 >= 2
        BY <1>2, <2>2
      <4> QED BY Zenon, <1>9, <3>1, <4>1, NextBlock
    <3> QED BY <2>2, <3>2
  <2> QED BY <2>1, <2>2
<1> QED BY <1>1, <1>11

\* The first block is above every predecessor of a block below it.
LEMMA SkipBlockDom ==
    ASSUME Structured(out, ins, order, tree), SweepOK(out, ins, order, tree, idom, sweep), SkipBlock
    PROVE  SweepOK(out, ins, order, tree, idom', sweep') /\ pc' = "sweep"
<1> DEFINE at == sweep.at
           b == order[at]
           T == TopOf(ins, order, tree)
<1>1. /\ at <= Len(order) /\ idom[b] = T /\ idom' = idom /\ pc' = "sweep"
      /\ sweep' = AtBlock(at + 1, sweep.changed)
  BY TopFacts DEF SkipBlock, Sweeping, Swept
<1>2. /\ at \in Nat /\ sweep.changed \in BOOLEAN /\ at >= 1
      /\ IF VirtualTop(ins, order, tree) THEN at >= 1 ELSE at >= 2
      /\ UpOK(out, ins, order, tree, idom) /\ SweptOK(out, order, tree, idom, sweep)
  BY DEF SweepOK, SweepRec
<1>3. Len(order) \in Nat
  BY LenProperties DEF Structured, GraphOK
<1>4. at \in 1..Len(order) /\ b \in Node /\ Holds(order, b)
  BY <1>1, <1>2, <1>3, ListedAt
<1>5. T # Nil
  BY TopNotNode DEF TopOf, Structured
<1>6. ASSUME ~Holds(tree.roots, b) PROVE MeetsAll(out, order, idom, b)
  <2>1. ~VirtualTop(ins, order, tree)
    <3> SUFFICES ASSUME VirtualTop(ins, order, tree) PROVE FALSE
      OBVIOUS
    <3>1. T = Top
      BY DEF TopOf
    <3> QED BY <1>1, <1>2, <1>4, <1>6, <3>1 DEF UpOK
  <2>2. Up(order, idom, b) = order[1]
    BY <1>1, <2>1, TopNotNode DEF TopOf, Up, Structured
  <2>3. \A p \in SlotsOf(out) : p[1] \in Node /\ Holds(order, p[1])
    BY SlotType DEF Structured
  <2> QED BY <1>2, <2>2, <2>3, AboveHead DEF MeetsAll
<1>7. SweptOK(out, order, tree, idom, AtBlock(at + 1, sweep.changed))
  <2>1. AtBlock(at + 1, sweep.changed).at = at + 1 /\ AtBlock(at + 1, sweep.changed).changed = sweep.changed
    BY DEF AtBlock
  <2>2. ASSUME NEW i \in 1..Len(order), i < at + 1
        PROVE  /\ idom[order[i]] # Nil
               /\ ~sweep.changed /\ ~Holds(tree.roots, order[i]) => MeetsAll(out, order, idom, order[i])
    <3>1. i < at \/ i = at
      BY <1>2, <2>2
    <3>2. CASE i = at
      BY <1>1, <1>5, <1>6, <3>2
    <3>3. CASE i < at
      BY <1>2, <3>3 DEF SweptOK
    <3> QED BY <3>1, <3>2, <3>3
  <2> QED BY <2>1, <2>2 DEF SweptOK
<1>8. SweepOK(out, ins, order, tree, idom, AtBlock(at + 1, sweep.changed))
  BY <1>1, <1>2, <1>3, <1>7, NextBlock
<1> QED BY <1>1, <1>8

\* The block the sweep is at, when its dominator is being computed
LEMMA SweptAt ==
    ASSUME Structured(out, ins, order, tree), SweepOK(out, ins, order, tree, idom, sweep),
           Sweeping, idom[Swept] # TopBlock
    PROVE  /\ sweep \in SweepRec /\ sweep.at \in 1..Len(order) /\ Len(order) \in Nat
           /\ Swept = order[sweep.at] /\ Swept \in Node /\ Holds(order, Swept)
           /\ tree.index[Swept] = sweep.at - 1
           /\ idom[Swept] # TopOf(ins, order, tree) /\ Swept # order[1]
           /\ UpOK(out, ins, order, tree, idom) /\ SweptOK(out, order, tree, idom, sweep)
           /\ JoinOK(out, ins, order, tree, idom, sweep, Swept)
<1>1. /\ sweep \in SweepRec /\ sweep.at \in Nat /\ sweep.at <= Len(order) /\ Swept = order[sweep.at]
      /\ idom[Swept] # TopOf(ins, order, tree)
  BY TopFacts DEF SweepOK, SweepRec, Sweeping, Swept
<1>2. sweep.at >= 1
  BY <1>1 DEF SweepOK
<1>3. Len(order) \in Nat
  BY LenProperties DEF Structured, GraphOK
<1>4. sweep.at \in 1..Len(order)
  BY <1>1, <1>2, <1>3
<1>5. Swept \in Node /\ Holds(order, Swept) /\ tree.index[Swept] = sweep.at - 1
  BY <1>1, <1>4, ListedAt
<1>6. /\ UpOK(out, ins, order, tree, idom) /\ SweptOK(out, order, tree, idom, sweep)
      /\ JoinOK(out, ins, order, tree, idom, sweep, Swept)
  BY <1>1 DEF SweepOK
<1>7. Swept # order[1]
  BY <1>1, <1>6 DEF UpOK
<1> QED BY <1>1, <1>3, <1>4, <1>5, <1>6, <1>7

\* When the fingers change and the block stays
LEMMA SameBlock ==
    ASSUME Structured(out, ins, order, tree), SweepOK(out, ins, order, tree, idom, sweep),
           Sweeping, idom[Swept] # TopBlock,
           NEW e \in SweepRec, e.at = sweep.at, e.changed = sweep.changed,
           JoinOK(out, ins, order, tree, idom, e, Swept)
    PROVE  SweepOK(out, ins, order, tree, idom, e)
<1>1. SweptOK(out, order, tree, idom, e)
  BY SweptAt DEF SweptOK
<1> QED BY <1>1, SweptAt DEF SweepOK

\* What dominates the block dominates the predecessor that comes in.
LEMMA NextPredecessorDom ==
    ASSUME Structured(out, ins, order, tree), SweepOK(out, ins, order, tree, idom, sweep), NextPredecessor
    PROVE  SweepOK(out, ins, order, tree, idom', sweep') /\ pc' = "sweep"
<1> DEFINE b == Swept
           k == sweep.pred
           c == ins[b][k][1]
           found == Found(idom, sweep)
           e == [sweep EXCEPT !.pred = k + 1, !.new = IF found THEN sweep.new ELSE c,
                              !.rho = IF found /\ idom[c] # Nil THEN c ELSE Nil]
<1>1. /\ Sweeping /\ idom[b] # TopBlock /\ sweep.rho = Nil /\ k <= Len(Preds(b))
      /\ idom' = idom /\ pc' = "sweep"
  BY DEF NextPredecessor, Sweeping
<1>2. /\ sweep \in SweepRec /\ b \in Node /\ Holds(order, b)
      /\ idom[b] # TopOf(ins, order, tree) /\ UpOK(out, ins, order, tree, idom)
      /\ JoinOK(out, ins, order, tree, idom, sweep, b)
  BY <1>1, SweptAt
<1>3. k \in Nat /\ k >= 1
  BY <1>2 DEF SweepRec, JoinOK
<1>4. /\ k \in 1..Len(ins[b]) /\ Len(ins[b]) \in Nat /\ Preds(b)[k] = c
      /\ c \in Node /\ Holds(order, c) /\ ins[b][k] \in SlotsOf(out) /\ Dest(out, ins[b][k]) = b
  BY <1>1, <1>2, <1>3, SweptPreds
<1>5. c # Top /\ c # Nil /\ c \in Nat
  BY <1>4, TopNotNode
<1>6. (sweep.new # Nil /\ Processed(sweep.new)) <=> found
  BY <1>2, TopNotNode DEF Processed, Found, JoinOK
<1>7. Processed(c) <=> idom[c] # Nil
  BY <1>5 DEF Processed
<1>8. sweep' = e
  BY <1>4, <1>6, <1>7 DEF NextPredecessor
<1> HIDE DEF c, k
<1>9. /\ e \in SweepRec /\ e.at = sweep.at /\ e.changed = sweep.changed /\ e.pred = k + 1
      /\ e.new = IF found THEN sweep.new ELSE c
      /\ e.rho = IF found /\ idom[c] # Nil THEN c ELSE Nil
  <2>1. sweep.new \in Nat /\ (IF found THEN sweep.new ELSE c) \in Nat
        /\ (IF found /\ idom[c] # Nil THEN c ELSE Nil) \in Nat /\ k + 1 \in Nat
    BY <1>2, <1>3, <1>5 DEF SweepRec, Nil
  <2> HIDE DEF found
  <2> QED BY <1>2, <2>1 DEF SweepRec
<1> HIDE DEF e
<1>10. Found(idom, e) <=> found \/ idom[c] # Nil
  BY <1>5, <1>9 DEF Found
<1>11. ASSUME NEW i \in 1..(e.pred - 1), idom[ins[b][i][1]] # Nil
       PROVE  /\ Found(idom, e)
              /\ e.rho = Nil \/ i < e.pred - 1 => Above(order, idom, e.new, ins[b][i][1])
              /\ e.rho # Nil /\ i = e.pred - 1 => Above(order, idom, e.rho, ins[b][i][1])
  <2>1. i = k \/ (i \in 1..(k - 1) /\ i < e.pred - 1)
    BY <1>3, <1>9, <1>11
  <2>2. CASE i = k
    <3>1. ins[b][i][1] = c /\ idom[c] # Nil
      BY <1>11, <2>2 DEF c
    <3>2. CASE found
      <4>1. e.rho = c
        BY <1>9, <3>1, <3>2
      <4> QED BY <1>3, <1>5, <1>9, <1>10, <2>2, <3>1, <3>2, <4>1, AboveFacts
    <3>3. CASE ~found
      BY <1>9, <1>10, <3>1, <3>3, AboveFacts
    <3> QED BY <3>2, <3>3
  <2>3. CASE i \in 1..(k - 1) /\ i < e.pred - 1
    <3>1. found /\ Above(order, idom, sweep.new, ins[b][i][1])
      BY <1>1, <1>2, <1>11, <2>3 DEF JoinOK, k
    <3> QED BY <1>3, <1>9, <1>10, <2>3, <3>1
  <2> QED BY <2>1, <2>2, <2>3
<1>12. ASSUME NEW z \in Node, Holds(order, z), z # b, Doms(out, order, tree, z, b)
       PROVE  /\ Found(idom, e) => Doms(out, order, tree, z, e.new)
              /\ e.rho # Nil => Doms(out, order, tree, z, e.rho)
  <2>1. Doms(out, order, tree, z, c)
    BY <1>4, <1>12, DomsPred DEF c
  <2>2. found => Doms(out, order, tree, z, sweep.new)
    BY <1>2, <1>12 DEF JoinOK
  <2> QED BY <1>9, <2>1, <2>2
<1>13. JoinOK(out, ins, order, tree, idom, e, b)
  <2>1. e.new # Nil => e.new \in Node /\ Holds(order, e.new)
    BY <1>2, <1>4, <1>9 DEF JoinOK
  <2>2. e.rho # Nil => e.rho \in Node /\ Holds(order, e.rho) /\ idom[e.rho] # Nil /\ Found(idom, e) /\ e.pred > 1
    BY <1>3, <1>4, <1>9, <1>10
  <2>3. e.pred >= 1 /\ e.pred - 1 <= Len(ins[b])
    BY <1>3, <1>4, <1>9
  <2> QED BY <1>11, <1>12, <2>1, <2>2, <2>3 DEF JoinOK
<1> QED BY <1>1, <1>8, <1>9, <1>13, SameBlock

\* What dominates both fingers comes no later than the earlier one: the later one may
\* go up without passing it.
LEMMA MoveFingerDom ==
    ASSUME Structured(out, ins, order, tree), SweepOK(out, ins, order, tree, idom, sweep), MoveFinger
    PROVE  SweepOK(out, ins, order, tree, idom', sweep') /\ pc' = "sweep"
<1> DEFINE b == Swept
           x == sweep.new
           y == sweep.rho
           i == tree.index[x]
           j == tree.index[y]
<1>1. pc = "sweep" /\ y # Nil /\ idom' = idom /\ pc' = "sweep"
  BY DEF MoveFinger
<1>2. Sweeping /\ idom[b] # TopBlock
  <2>1. sweep # AtBlock(sweep.at, sweep.changed)
    BY <1>1 DEF AtBlock
  <2> QED BY <1>1, <2>1, TopFacts DEF SweepOK, Sweeping, Swept
<1>3. /\ sweep \in SweepRec /\ b \in Node /\ Holds(order, b)
      /\ UpOK(out, ins, order, tree, idom)
      /\ JoinOK(out, ins, order, tree, idom, sweep, b)
  BY <1>2, SweptAt
<1>4. /\ x \in Node /\ Holds(order, x) /\ idom[x] # Nil
      /\ y \in Node /\ Holds(order, y) /\ idom[y] # Nil /\ sweep.pred > 1 /\ sweep.pred \in Nat
      /\ x # Top /\ y # Top
  BY <1>1, <1>3, TopNotNode DEF JoinOK, Found, SweepRec
<1>5. i \in Nat /\ j \in Nat /\ order[i + 1] = x /\ order[j + 1] = y /\ (i = j => x = y)
  BY SMTT(30), <1>4, IndexFacts
<1>6. ASSUME NEW u \in Node, Holds(order, u), idom[u] # Nil, tree.index[u] > 0
      PROVE  /\ order[IndexOf(idom[u]) + 1] = Up(order, idom, u)
             /\ Parent(out, order, tree, idom, u)
  <2>1. u # order[1]
    BY <1>6 DEF Structured
  <2>2. Parent(out, order, tree, idom, u)
    BY <1>3, <1>6, <2>1 DEF UpOK
  <2>3. CASE idom[u] = Top
    BY <2>2, <2>3 DEF IndexOf, Up
  <2>4. CASE idom[u] # Top
    <3>1. Up(order, idom, u) = idom[u] /\ idom[u] \in Node /\ Holds(order, idom[u])
      BY <2>2, <2>4 DEF Up, Parent
    <3>2. order[tree.index[idom[u]] + 1] = idom[u]
      BY SMTT(30), <3>1, IndexFacts
    <3> QED BY <2>2, <2>4, <3>1, <3>2 DEF IndexOf
  <2> QED BY <2>2, <2>3, <2>4
<1>7. sweep' = CASE i = j -> [sweep EXCEPT !.new = order[i + 1], !.rho = Nil]
                 [] i > j -> [sweep EXCEPT !.new = order[IndexOf(idom[order[i + 1]]) + 1]]
                 [] i < j -> [sweep EXCEPT !.rho = order[IndexOf(idom[order[j + 1]]) + 1]]
  BY <1>4 DEF MoveFinger, IndexOf
<1>8. Found(idom, sweep) /\ \A z \in Node : Holds(order, z) /\ z # b /\ Doms(out, order, tree, z, b) =>
         Doms(out, order, tree, z, x) /\ Doms(out, order, tree, z, y)
  BY <1>1, <1>3 DEF JoinOK
<1>9. \A n \in 1..(sweep.pred - 1) : idom[ins[b][n][1]] # Nil =>
         IF n < sweep.pred - 1 THEN Above(order, idom, x, ins[b][n][1])
                               ELSE Above(order, idom, y, ins[b][n][1])
  BY <1>1, <1>3, <1>4 DEF JoinOK
<1>10. sweep.pred >= 1 /\ sweep.pred - 1 <= Len(ins[b])
  BY <1>3 DEF JoinOK
<1> HIDE DEF x, y, i, j, b
<1>11. CASE i = j
  <2> DEFINE e == [sweep EXCEPT !.new = x, !.rho = Nil]
  <2>1. sweep' = e /\ y = x
    BY <1>5, <1>7, <1>11
  <2>2. /\ e \in SweepRec /\ e.at = sweep.at /\ e.changed = sweep.changed /\ e.pred = sweep.pred
        /\ e.new = x /\ e.rho = Nil
    BY <1>3, <1>4, TopNotNode DEF SweepRec
  <2> HIDE DEF e
  <2>3. Found(idom, e)
    BY <1>4, <2>2, TopNotNode DEF Found
  <2>4. JoinOK(out, ins, order, tree, idom, e, b)
    BY <1>4, <1>8, <1>9, <1>10, <2>1, <2>2, <2>3 DEF JoinOK
  <2> QED BY <1>1, <1>2, <2>1, <2>2, <2>4, SameBlock DEF b
<1>12. CASE i > j
  <2> DEFINE u == Up(order, idom, x)
             e == [sweep EXCEPT !.new = u]
  <2>1. i > 0 /\ i # j /\ ~(i < j)
    BY <1>5, <1>12
  <2>2. order[IndexOf(idom[x]) + 1] = u /\ Parent(out, order, tree, idom, x)
    BY <1>4, <1>6, <2>1 DEF i
  <2>3. sweep' = e
    BY <1>5, <1>7, <1>12, <2>1, <2>2
  <2>4. u \in Node /\ Holds(order, u) /\ idom[u] # Nil
        /\ \A z \in Node : Holds(order, z) /\ z # x /\ Doms(out, order, tree, z, x) => Doms(out, order, tree, z, u)
    BY <2>2 DEF Parent
  <2> HIDE DEF u
  <2>5. /\ e \in SweepRec /\ e.at = sweep.at /\ e.changed = sweep.changed /\ e.pred = sweep.pred
        /\ e.new = u /\ e.rho = y
    BY <1>3, <2>4, TopNotNode DEF SweepRec, y
  <2> HIDE DEF e
  <2>6. Found(idom, e)
    BY <2>4, <2>5, TopNotNode DEF Found
  <2>7. \A n \in 1..(sweep.pred - 1) : Above(order, idom, x, ins[b][n][1]) => Above(order, idom, u, ins[b][n][1])
    BY <1>4, AboveFacts DEF u
  <2>8. ASSUME NEW z \in Node, Holds(order, z), z # b, Doms(out, order, tree, z, b)
        PROVE  Doms(out, order, tree, z, u) /\ Doms(out, order, tree, z, y)
    <3>1. Doms(out, order, tree, z, x) /\ Doms(out, order, tree, z, y)
      BY <1>8, <2>8
    <3>2. tree.index[z] <= j
      BY <1>4, <2>8, <3>1, DomsIndex DEF j
    <3>3. z # x
      BY <1>5, <1>12, <3>2 DEF i
    <3> QED BY <2>4, <2>8, <3>1, <3>3
  <2>9. JoinOK(out, ins, order, tree, idom, e, b)
    <3>1. y # Nil
      BY <1>1 DEF y
    <3>2. \A n \in 1..(sweep.pred - 1) : idom[ins[b][n][1]] # Nil =>
             IF n < sweep.pred - 1 THEN Above(order, idom, u, ins[b][n][1])
                                   ELSE Above(order, idom, y, ins[b][n][1])
      BY <1>9, <2>7
    <3> QED BY <1>4, <1>10, <2>4, <2>5, <2>6, <2>8, <3>1, <3>2 DEF JoinOK
  <2> QED BY <1>1, <1>2, <2>3, <2>5, <2>9, SameBlock DEF b
<1>13. CASE i < j
  <2> DEFINE u == Up(order, idom, y)
             e == [sweep EXCEPT !.rho = u]
  <2>1. j > 0 /\ i # j /\ ~(i > j)
    BY <1>5, <1>13
  <2>2. order[IndexOf(idom[y]) + 1] = u /\ Parent(out, order, tree, idom, y)
    BY <1>4, <1>6, <2>1 DEF j
  <2>3. sweep' = e
    BY <1>5, <1>7, <1>13, <2>1, <2>2
  <2>4. u \in Node /\ Holds(order, u) /\ idom[u] # Nil
        /\ \A z \in Node : Holds(order, z) /\ z # y /\ Doms(out, order, tree, z, y) => Doms(out, order, tree, z, u)
    BY <2>2 DEF Parent
  <2> HIDE DEF u
  <2>5. /\ e \in SweepRec /\ e.at = sweep.at /\ e.changed = sweep.changed /\ e.pred = sweep.pred
        /\ e.new = x /\ e.rho = u
    BY <1>3, <2>4, TopNotNode DEF SweepRec, x
  <2> HIDE DEF e
  <2>6. Found(idom, e)
    BY <1>4, <2>5, TopNotNode DEF Found
  <2>7. \A n \in 1..(sweep.pred - 1) : Above(order, idom, y, ins[b][n][1]) => Above(order, idom, u, ins[b][n][1])
    BY <1>4, AboveFacts DEF u
  <2>8. ASSUME NEW z \in Node, Holds(order, z), z # b, Doms(out, order, tree, z, b)
        PROVE  Doms(out, order, tree, z, x) /\ Doms(out, order, tree, z, u)
    <3>1. Doms(out, order, tree, z, x) /\ Doms(out, order, tree, z, y)
      BY <1>8, <2>8
    <3>2. tree.index[z] <= i
      BY <1>4, <2>8, <3>1, DomsIndex DEF i
    <3>3. z # y
      BY <1>5, <1>13, <3>2 DEF j
    <3> QED BY <2>4, <2>8, <3>1, <3>3
  <2>9. JoinOK(out, ins, order, tree, idom, e, b)
    <3>1. u # Nil
      BY <2>4, TopNotNode
    <3>2. \A n \in 1..(sweep.pred - 1) : idom[ins[b][n][1]] # Nil =>
             IF n < sweep.pred - 1 THEN Above(order, idom, x, ins[b][n][1])
                                   ELSE Above(order, idom, u, ins[b][n][1])
      BY <1>9, <2>7
    <3> QED BY <1>4, <1>10, <2>4, <2>5, <2>6, <2>8, <3>1, <3>2 DEF JoinOK
  <2> QED BY <1>1, <1>2, <2>3, <2>5, <2>9, SameBlock DEF b
<1> QED BY <1>5, <1>11, <1>12, <1>13

\* A predecessor that comes earlier has a dominator by now, so what is set comes earlier.
LEMMA SetDominatorDom ==
    ASSUME Structured(out, ins, order, tree), SweepOK(out, ins, order, tree, idom, sweep), SetDominator
    PROVE  SweepOK(out, ins, order, tree, idom', sweep') /\ pc' = "sweep"
<1> DEFINE b == Swept
           at == sweep.at
           x == sweep.new
           T == TopOf(ins, order, tree)
<1>1. /\ Sweeping /\ idom[b] # TopBlock /\ sweep.rho = Nil /\ sweep.pred > Len(Preds(b))
      /\ idom' = [idom EXCEPT ![b] = x] /\ pc' = "sweep"
      /\ sweep' = AtBlock(at + 1, sweep.changed \/ idom[b] # x)
  BY DEF SetDominator, Sweeping
<1>2. /\ sweep \in SweepRec /\ at \in 1..Len(order) /\ Len(order) \in Nat
      /\ b = order[at] /\ b \in Node /\ Holds(order, b) /\ tree.index[b] = at - 1
      /\ idom[b] # T /\ b # order[1]
      /\ UpOK(out, ins, order, tree, idom) /\ SweptOK(out, order, tree, idom, sweep)
      /\ JoinOK(out, ins, order, tree, idom, sweep, b)
  BY <1>1, SweptAt
<1>3. /\ ~Holds(tree.roots, b) /\ Len(ins[b]) \in Nat /\ Len(Preds(b)) = Len(ins[b])
      /\ \A i \in 1..Len(ins[b]) : ins[b][i] \in SlotsOf(out) /\ Dest(out, ins[b][i]) = b
  BY SMTT(30), <1>2, SweptPreds
<1>4. idom \in [Node -> 0..Top] /\ idom[order[1]] = T
  BY <1>2 DEF UpOK
\* All predecessors are among those seen.
<1>5. ASSUME NEW p \in SlotsOf(out), Dest(out, p) = b, idom[p[1]] # Nil
      PROVE  Found(idom, sweep) /\ Above(order, idom, x, p[1])
  <2>1. PICK i \in 1..Len(ins[b]) : ins[b][i] = p
    BY <1>5 DEF Structured, GraphOK, Holds
  <2>2. sweep.pred \in Nat /\ i \in 1..(sweep.pred - 1)
    BY SMTT(30), <1>1, <1>2, <1>3 DEF SweepRec
  <2> QED BY <1>1, <1>2, <1>5, <2>1, <2>2 DEF JoinOK
\* One of them comes earlier and has a dominator.
<1>6. PICK p \in SlotsOf(out) : Dest(out, p) = b /\ tree.index[p[1]] < tree.index[b]
  BY <1>2, <1>3 DEF Structured
<1>7. p[1] \in Node /\ Holds(order, p[1]) /\ idom[p[1]] # Nil
  <2>1. p[1] \in Node /\ Holds(order, p[1])
    BY SlotType DEF Structured
  <2>2. /\ tree.index[p[1]] \in Nat /\ order[tree.index[p[1]] + 1] = p[1]
        /\ tree.index[p[1]] + 1 \in 1..Len(order)
    BY <2>1, IndexFacts
  <2>3. tree.index[p[1]] + 1 < at
    BY SMTT(30), <1>2, <1>6, <2>2
  <2> QED BY <1>2, <2>1, <2>2, <2>3 DEF SweptOK
<1>8. /\ x \in Node /\ Holds(order, x) /\ idom[x] # Nil /\ x # Nil /\ x # Top
      /\ tree.index[x] < tree.index[b]
  <2>1. Found(idom, sweep) /\ Above(order, idom, x, p[1])
    BY <1>5, <1>6, <1>7
  <2>2. x \in Node /\ Holds(order, x) /\ idom[x] # Nil /\ tree.index[x] <= tree.index[p[1]]
    BY <1>2, <1>7, <2>1, AboveEarlier
  <2>3. tree.index[x] \in Nat /\ tree.index[b] \in Nat /\ tree.index[p[1]] \in Nat
    BY SMTT(30), <1>2, <1>7, <2>2, IndexFacts
  <2> QED BY <1>6, <2>2, <2>3, TopNotNode
<1>9. Found(idom, sweep)
  BY <1>8 DEF Found
<1>10. \A z \in Node : Holds(order, z) /\ z # b /\ Doms(out, order, tree, z, b) => Doms(out, order, tree, z, x)
  BY <1>2, <1>9 DEF JoinOK
<1> HIDE DEF b, at, x, T
<1>11. /\ idom' \in [Node -> 0..Top] /\ idom'[b] = x
       /\ \A c \in Node : c # b => idom'[c] = idom[c]
       /\ \A c \in Node : idom[c] # Nil => idom'[c] # Nil
  <2>1. x \in 0..Top
    BY <1>8, SpanningTreeAssumption DEF Node, Top
  <2> QED BY <1>1, <1>2, <1>4, <1>8, <2>1
<1>12. ASSUME NEW c \in Node, Holds(order, c), c # order[1], idom'[c] # Nil
       PROVE  Parent(out, order, tree, idom', c)
  <2>1. CASE c = b
    <3>1. Up(order, idom', c) = x
      BY <1>8, <1>11, <2>1 DEF Up
    <3> QED BY <1>8, <1>10, <1>11, <2>1, <3>1 DEF Parent
  <2>2. CASE c # b
    <3>1. Parent(out, order, tree, idom, c)
      BY <1>2, <1>11, <1>12, <2>2 DEF UpOK
    <3>2. Up(order, idom', c) = Up(order, idom, c)
      BY <1>11, <2>2 DEF Up
    <3> QED BY <1>11, <3>1, <3>2 DEF Parent
  <2> QED BY <2>1, <2>2
<1>13. UpOK(out, ins, order, tree, idom')
  <2>1. idom'[order[1]] = T
    BY <1>2, <1>4, <1>11 DEF Structured
  <2>2. ASSUME NEW c \in Node, Holds(order, c)
        PROVE  idom'[c] = Top <=> VirtualTop(ins, order, tree) /\ Holds(tree.roots, c)
    <3>1. CASE c = b
      BY <1>3, <1>8, <1>11, <3>1 DEF b
    <3>2. CASE c # b
      BY <1>2, <1>11, <2>2, <3>2 DEF UpOK
    <3> QED BY <3>1, <3>2
  <2> QED BY <1>11, <1>12, <2>1, <2>2 DEF UpOK, T
<1> DEFINE ch == sweep.changed \/ idom[b] # x
           e == AtBlock(at + 1, ch)
<1>14. e.at = at + 1 /\ e.changed = ch /\ ch \in BOOLEAN
  BY <1>2 DEF AtBlock, SweepRec
<1>15. ASSUME ~ch PROVE idom' = idom
  BY <1>1, <1>4, <1>15
<1>16. ASSUME NEW i \in 1..Len(order), i < at + 1
       PROVE  /\ idom'[order[i]] # Nil
              /\ ~ch /\ ~Holds(tree.roots, order[i]) => MeetsAll(out, order, idom', order[i])
  <2>1. order[i] \in Node
    BY ListedAt
  <2>2. CASE i = at
    <3>1. order[i] = b
      BY <1>2, <2>2 DEF b, at
    <3>2. ASSUME ~ch PROVE MeetsAll(out, order, idom, b)
      <4>1. Up(order, idom, b) = x
        BY <1>8, <3>2 DEF Up
      <4> QED BY <1>5, <4>1 DEF MeetsAll
    <3> QED BY <1>8, <1>11, <1>15, <3>1, <3>2
  <2>3. CASE i < at
    <3>1. /\ idom[order[i]] # Nil
          /\ ~sweep.changed /\ ~Holds(tree.roots, order[i]) => MeetsAll(out, order, idom, order[i])
      BY <1>2, <2>3 DEF SweptOK, at
    <3> QED BY <1>11, <1>15, <2>1, <3>1
  <2> QED BY <1>2, <1>16, <2>2, <2>3 DEF at
<1>17. SweptOK(out, order, tree, idom', e)
  BY <1>14, <1>16 DEF SweptOK
<1>18. SweepOK(out, ins, order, tree, idom', e)
  <2>1. /\ at + 1 \in Nat /\ at + 1 <= Len(order) + 1
        /\ IF VirtualTop(ins, order, tree) THEN at + 1 >= 1 ELSE at + 1 >= 2
    BY <1>2 DEF at
  <2> HIDE DEF ch
  <2> QED BY <1>13, <1>14, <1>17, <2>1, NextBlock
<1> QED BY <1>1, <1>18 DEF b, at, x

\* After a sweep that changed nothing what is above a block dominates it: the blocks it
\* is not above are closed.
LEMMA AboveDoms ==
    ASSUME NEW ou, NEW inn, NEW ord, NEW t, Structured(ou, inn, ord, t),
           NEW d, NEW e, UpOK(ou, inn, ord, t, d), SweptOK(ou, ord, t, d, e),
           ~e.changed, e.at > Len(ord), e.at \in Nat,
           NEW c \in Node, Holds(ord, c), NEW z \in Node, Above(ord, d, z, c)
    PROVE  Doms(ou, ord, t, z, c)
<1> SUFFICES ASSUME z # ord[1] PROVE \E R \in SUBSET Node : Around(ou, ord, t, z, R) /\ c \notin R
  BY DEF Doms
<1> DEFINE R == {b \in Node : Holds(ord, b) => ~Above(ord, d, z, b)}
<1>1. Len(ord) \in Nat
  BY LenProperties DEF Structured, GraphOK
<1>2. ASSUME NEW b \in Node, Holds(ord, b)
      PROVE  d[b] # Nil /\ (~Holds(t.roots, b) => MeetsAll(ou, ord, d, b))
  <2>1. t.index[b] + 1 \in 1..Len(ord) /\ ord[t.index[b] + 1] = b
    BY <1>2, IndexFacts
  <2>2. t.index[b] + 1 < e.at
    BY <1>1, <2>1
  <2> QED BY <2>1, <2>2 DEF SweptOK
<1>3. ASSUME NEW b \in Node, Holds(t.roots, b), b # z PROVE b \in R
  BY <1>3, AboveRoot
<1>4. ASSUME NEW p \in SlotsOf(ou), p[1] \in R, Dest(ou, p) # z PROVE Dest(ou, p) \in R
  <2> DEFINE a == Dest(ou, p)
  <2>1. a \in Node /\ Holds(ord, a) /\ p[1] \in Node /\ Holds(ord, p[1])
    BY SlotType DEF Structured
  <2>2. CASE Holds(t.roots, a)
    BY <1>3, <1>4, <2>1, <2>2
  <2>3. CASE ~Holds(t.roots, a)
    <3>1. d[a] # Nil /\ d[p[1]] # Nil /\ MeetsAll(ou, ord, d, a)
      BY <1>2, <2>1, <2>3
    <3>2. Above(ord, d, Up(ord, d, a), p[1])
      BY <3>1 DEF MeetsAll
    <3>3. ~Above(ord, d, z, p[1])
      BY <1>4, <2>1
    <3>4. ~Above(ord, d, z, a)
      BY <1>4, <2>1, <3>1, <3>2, <3>3, AboveFacts, AboveSplit
    <3> QED BY <2>1, <3>4
  <2> QED BY <2>2, <2>3
<1>5. ord[1] \in Node /\ Holds(t.roots, ord[1])
  BY DEF Structured
<1>6. R \in SUBSET Node /\ c \notin R
  OBVIOUS
<1> HIDE DEF R
<1>7. Around(ou, ord, t, z, R)
  BY <1>3, <1>4, <1>5 DEF Around
<1> QED BY <1>6, <1>7

\* Another sweep starts with all that is known, or the dominators are right.
LEMMA EndSweepDom ==
    ASSUME Structured(out, ins, order, tree), SweepOK(out, ins, order, tree, idom, sweep), EndSweep
    PROVE  \/ pc' = "sweep" /\ SweepOK(out, ins, order, tree, idom', sweep')
           \/ pc' = "done" /\ IdomOK(out, order, tree, idom')
<1>1. /\ pc = "sweep" /\ sweep.at > Len(order)
      /\ sweep' = AtBlock(IF VirtualTop(ins, order, tree) THEN 1 ELSE 2, FALSE)
      /\ sweep.changed => pc' = "sweep" /\ idom' = idom
      /\ ~sweep.changed => /\ pc' = "done"
                           /\ idom' = [b \in Node |-> IF idom[b] = Top \/ b = TopOf(ins, order, tree) THEN Nil ELSE idom[b]]
  BY TopFacts DEF EndSweep, FirstSwept
<1>2. /\ UpOK(out, ins, order, tree, idom) /\ SweptOK(out, order, tree, idom, sweep)
      /\ sweep.at \in Nat /\ sweep.changed \in BOOLEAN
  BY DEF SweepOK, SweepRec
<1>3. /\ order[1] \in Node /\ Holds(order, order[1]) /\ Holds(tree.roots, order[1])
      /\ Len(order) \in Nat /\ 1 <= Len(order)
  <2>1. order[1] \in Node /\ Holds(order, order[1]) /\ Holds(tree.roots, order[1])
    BY DEF Structured
  <2> QED BY <2>1, IndexFacts
<1>4. CASE sweep.changed
  <2> DEFINE f == IF VirtualTop(ins, order, tree) THEN 1 ELSE 2
  <2>1. /\ f \in Nat /\ f <= Len(order) + 1 /\ FALSE \in BOOLEAN
        /\ IF VirtualTop(ins, order, tree) THEN f >= 1 ELSE f >= 2
        /\ \A i \in 1..Len(order) : i < f => i = 1
    BY <1>3
  <2> HIDE DEF f
  <2>2. SweptOK(out, order, tree, idom, AtBlock(f, FALSE))
    <3>1. AtBlock(f, FALSE).at = f
      BY DEF AtBlock
    <3>2. idom[order[1]] # Nil
      BY <1>2, <1>3, TopNotNode DEF UpOK, TopOf
    <3> QED BY <1>3, <2>1, <3>1, <3>2 DEF SweptOK
  <2>3. SweepOK(out, ins, order, tree, idom, AtBlock(f, FALSE))
    BY Zenon, <1>2, <2>1, <2>2, NextBlock
  <2> QED BY <1>1, <1>4, <2>3 DEF f
<1>5. CASE ~sweep.changed
  <2>1. ASSUME NEW c \in Node, Holds(order, c), Holds(tree.roots, c) PROVE idom'[c] = Nil
    <3>1. idom[c] = Top \/ c = TopOf(ins, order, tree)
      <4>1. CASE VirtualTop(ins, order, tree)
        BY <1>2, <2>1, <4>1 DEF UpOK
      <4>2. CASE ~VirtualTop(ins, order, tree)
        BY <2>1, <4>2, OneTop DEF TopOf
      <4> QED BY <4>1, <4>2
    <3> QED BY <1>1, <1>5, <3>1
  <2>2. ASSUME NEW c \in Node, Holds(order, c), ~Holds(tree.roots, c)
        PROVE  /\ idom'[c] \in Node /\ Holds(order, idom'[c]) /\ idom'[c] # c
               /\ Doms(out, order, tree, idom'[c], c)
               /\ \A z \in Node : Holds(order, z) /\ z # c /\ Doms(out, order, tree, z, c)
                     => Doms(out, order, tree, z, idom'[c])
    <3>1. c # order[1] /\ c # Top /\ c # TopOf(ins, order, tree)
      BY <1>3, <2>2, TopNotNode DEF TopOf
    <3>2. idom[c] # Top
      BY <1>2, <2>2 DEF UpOK
    <3>3. idom'[c] = idom[c] /\ Up(order, idom, c) = idom[c]
      BY <1>1, <1>5, <3>1, <3>2 DEF Up
    <3>4. idom[c] # Nil
      <4>1. tree.index[c] + 1 \in 1..Len(order) /\ order[tree.index[c] + 1] = c
        BY <2>2, IndexFacts
      <4>2. tree.index[c] + 1 < sweep.at
        BY <1>1, <1>2, <1>3, <4>1
      <4> QED BY <1>2, <4>1, <4>2 DEF SweptOK
    <3>5. Parent(out, order, tree, idom, c)
      BY <1>2, <2>2, <3>1, <3>4 DEF UpOK
    <3>6. /\ idom[c] \in Node /\ Holds(order, idom[c]) /\ tree.index[idom[c]] < tree.index[c]
          /\ \A z \in Node : Holds(order, z) /\ z # c /\ Doms(out, order, tree, z, c)
                => Doms(out, order, tree, z, idom[c])
      BY <3>3, <3>5 DEF Parent
    <3>7. idom[c] # c
      <4>1. tree.index[c] \in Nat
        BY <2>2, IndexFacts
      <4> QED BY <3>6, <4>1
    <3>8. Above(order, idom, idom[c], c)
      BY Zenon, <3>3, <3>4, AboveFacts
    <3>9. Doms(out, order, tree, idom[c], c)
      BY <1>1, <1>2, <1>5, <2>2, <3>6, <3>8, AboveDoms
    <3> QED BY <3>3, <3>6, <3>7, <3>9
  <2> QED BY <1>1, <1>5, <2>1, <2>2 DEF IdomOK
<1> QED BY <1>2, <1>4, <1>5

-----------------------------------------------------------------------------
\* The blocks found without z are those some set around z leaves out.
LEMMA AwayFacts ==
    ASSUME Structured(out, ins, order, tree), NEW z \in Node, NEW c \in Node
    PROVE  Doms(out, order, tree, z, c) <=>
             c \notin ReachFrom({order[1]} \cup (IF z = order[1] THEN {} ELSE Range(tree.roots) \ {order[1]}), {z}, Edges)
<1> DEFINE S == {order[1]} \cup (IF z = order[1] THEN {} ELSE Range(tree.roots) \ {order[1]})
<1>1. GraphOK(out, ins, order) /\ order[1] \in Node /\ Holds(tree.roots, order[1])
  BY DEF Structured
<1>2. Edges = SlotsOf(out) /\ \A p : Target(p) = Dest(out, p)
  BY <1>1, EdgesFacts, SlotFacts
<1>3. CASE z = order[1]
  <2>1. {} \in SUBSET Node /\ S \ {z} \subseteq {} /\ Closed({}, {z}, Edges)
    BY <1>3 DEF Closed
  <2>2. c \notin ReachFrom(S, {z}, Edges)
    <3> HIDE DEF S
    <3> QED BY <2>1 DEF ReachFrom
  <2> QED BY <1>3, <2>2 DEF Doms
<1>4. CASE z # order[1]
  <2>1. \A b : b \in S <=> (b = order[1] \/ Holds(tree.roots, b))
    BY <1>4, TopFacts
  <2>2. ASSUME NEW R \in SUBSET Node
        PROVE  (S \ {z} \subseteq R /\ Closed(R, {z}, Edges)) <=> Around(out, order, tree, z, R)
    <3>1. S \ {z} \subseteq R <=> \A b \in Node : (b = order[1] \/ Holds(tree.roots, b)) /\ b # z => b \in R
      <4>1. \A b : b \in S => b \in Node
        <5>1. tree.roots \in Seq(Node)
          BY DEF Structured
        <5>2. \A b : Holds(tree.roots, b) => b \in Node
          BY <5>1, ElementOfSeq DEF Holds
        <5> QED BY <1>1, <2>1, <5>2
      <4> HIDE DEF S
      <4> QED BY <2>1, <4>1
    <3>2. Closed(R, {z}, Edges) <=> \A p \in SlotsOf(out) : p[1] \in R /\ Dest(out, p) # z => Dest(out, p) \in R
      BY <1>2 DEF Closed
    <3> HIDE DEF S
    <3> QED BY <3>1, <3>2 DEF Around
  <2>3. c \notin ReachFrom(S, {z}, Edges) <=> \E R \in SUBSET Node : Around(out, order, tree, z, R) /\ c \notin R
    <3> HIDE DEF S
    <3> QED BY <2>2 DEF ReachFrom
  <2> QED BY <1>4, <2>3 DEF Doms
<1> QED BY <1>3, <1>4

\* The property, from what is proved about the values
LEMMA DominatorsFromInv ==
    ASSUME SpanInv, DomInv
    PROVE  DominatorsRight
<1> SUFFICES ASSUME pc = "done" PROVE DominatorsRight
  BY DEF DominatorsRight, Done
<1> DEFINE top == order[1]
           others == Range(tree.roots) \ {top}
           away == [b \in Blocks |-> ReachFrom({top} \cup (IF b = top THEN {} ELSE others), {b}, Edges)]
           dom(b, c) == c \notin away[b]
           strict(c) == {b \in Blocks \ {c} : dom(b, c)}
<1>1. Structured(out, ins, order, tree) /\ IdomOK(out, order, tree, idom)
  BY StructuredFacts DEF SpanInv, DomInv
<1>2. \A b : b \in Blocks <=> b \in Node /\ Holds(order, b)
  <2>1. order \in Seq(Node)
    BY <1>1 DEF Structured, GraphOK
  <2>2. \A b : Holds(order, b) => b \in Node
    BY <2>1, ElementOfSeq DEF Holds
  <2> QED BY <2>1, <2>2, BlockFacts DEF Blocks
<1>3. ASSUME NEW b \in Blocks, NEW c \in Blocks PROVE dom(b, c) <=> Doms(out, order, tree, b, c)
  <2>1. away[b] = ReachFrom({top} \cup (IF b = top THEN {} ELSE others), {b}, Edges)
    OBVIOUS
  <2> HIDE DEF away
  <2> QED BY <1>1, <1>2, <2>1, AwayFacts
<1> HIDE DEF dom
<1>4. ASSUME NEW c \in Blocks
      PROVE  IF c \in Range(tree.roots) THEN idom[c] = Nil
             ELSE idom[c] \in strict(c) /\ \A b \in strict(c) : b = idom[c] \/ dom(b, idom[c])
  <2>1. c \in Range(tree.roots) <=> Holds(tree.roots, c)
    BY <1>1, TopFacts
  <2>2. CASE Holds(tree.roots, c)
    BY <1>1, <1>2, <2>1, <2>2 DEF IdomOK
  <2>3. CASE ~Holds(tree.roots, c)
    <3>1. /\ idom[c] \in Blocks /\ idom[c] # c /\ Doms(out, order, tree, idom[c], c)
          /\ \A z \in Blocks : z # c /\ Doms(out, order, tree, z, c) => Doms(out, order, tree, z, idom[c])
      BY <1>1, <1>2, <2>3 DEF IdomOK
    <3> QED BY <1>3, <2>1, <2>3, <3>1
  <2> QED BY <2>2, <2>3
<1> QED BY <1>4 DEF DominatorsRight, dom

\* The steps of CalcForwardDominator keep DomInv.
LEMMA SweepsDom ==
    ASSUME SpanInv, DomInv, Sweeps
    PROVE  DomInv'
<1>1. out' = out /\ ins' = ins /\ order' = order /\ tree' = tree /\ pc \in {"dominators", "sweep"}
  <2>1. CASE StartDominators
    BY <2>1 DEF StartDominators, graph
  <2>2. CASE SkipBlock
    BY <2>2 DEF SkipBlock, Sweeping, graph
  <2>3. CASE NextPredecessor
    BY <2>3 DEF NextPredecessor, Sweeping, graph
  <2>4. CASE MoveFinger
    BY <2>4 DEF MoveFinger, graph
  <2>5. CASE SetDominator
    BY <2>5 DEF SetDominator, Sweeping, graph
  <2>6. CASE EndSweep
    BY <2>6 DEF EndSweep, graph
  <2> QED BY <2>1, <2>2, <2>3, <2>4, <2>5, <2>6 DEF Sweeps
<1>2. Structured(out, ins, order, tree)
  BY <1>1, StructuredFacts DEF SpanInv
<1>3. ~StartDominators => SweepOK(out, ins, order, tree, idom, sweep)
  BY DEF Sweeps, SkipBlock, NextPredecessor, MoveFinger, SetDominator, EndSweep, Sweeping, DomInv
<1>4. \/ pc' = "sweep" /\ SweepOK(out, ins, order, tree, idom', sweep')
      \/ pc' = "done" /\ IdomOK(out, order, tree, idom')
  BY <1>2, <1>3, StartDominatorsDom, SkipBlockDom, NextPredecessorDom, MoveFingerDom, SetDominatorDom,
     EndSweepDom DEF Sweeps
<1> QED BY <1>1, <1>4 DEF DomInv

\* Each step keeps DomInv.
LEMMA NextDom ==
    ASSUME SpanInv, DomInv, [Next]_vars
    PROVE  DomInv'
<1>1. CASE Sweeps
  BY <1>1, SweepsDom
<1>2. CASE Settled \/ UNCHANGED vars
  BY <1>2 DEF Settled, vars, DomInv
<1>3. CASE RemoveUnreachableBlocks /\ ~BlocksUnreachable
  BY SMTT(30), <1>3 DEF RemoveUnreachableBlocks, DomInv
<1>4. ASSUME PickRoot \/ Walk \/ EndPass \/ FindIrreducible \/ EndAttempt \/ CalcLoop \/ EndCalcLoop
      PROVE  pc' # "sweep" /\ pc' # "done"
  BY <1>4 DEF PickRoot, Walk, EndPass, FindIrreducible, EndAttempt, CalcLoop, EndCalcLoop
<1>5. ASSUME (\E b \in Node, k \in 1..2 : RemoveBranch(b, k)) \/ (RemoveUnreachableBlocks /\ BlocksUnreachable)
      PROVE  pc' = "tree"
  BY <1>5 DEF RemoveBranch, RemoveUnreachableBlocks, Restructure
<1> QED BY <1>1, <1>2, <1>3, <1>4, <1>5 DEF Next, Sweeps, DomInv

\* While CalcForwardDominator runs, what dominates a block is above it in the tree of
\* dominators computed so far; when a sweep changes nothing the converse holds too.
THEOREM DominatorsInvariant == Spec => []DomInv
<1>1. Init => DomInv
  BY DEF Init, DomInv
<1>2. SpanInv /\ DomInv /\ [Next]_vars => DomInv'
  BY NextDom
<1> QED BY <1>1, <1>2, SpanInvariant, PTL DEF Spec

\* CalcForwardDominator leaves every block its immediate dominator, also when several
\* roots share index 0 with the first block.
THEOREM DominatorsStayRight == Spec => []DominatorsRight
<1>1. SpanInv /\ DomInv => DominatorsRight
  BY DominatorsFromInv
<1> QED BY <1>1, SpanInvariant, DominatorsInvariant, PTL
=============================================================================
