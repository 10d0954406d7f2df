------------------------------ MODULE DomMerge ------------------------------
(***************************************************************************)
(* Where a storage location needs MULTIEQUALs: the augmented dominator     *)
(* tree of Bilardi and Pingali (heritage.go BuildADT) and the search in it *)
(* (CalcMultiequals, visitIncr), and the definition they implement, the    *)
(* iterated dominance frontier.                                            *)
(*                                                                         *)
(* Blocks are 0..n-1 in reverse post-order, block 0 the entry.  A graph is *)
(* the sequence of predecessors of every block, in in-edge order.          *)
(***************************************************************************)
EXTENDS Integers, SequencesExt

Nodes(preds) == DOMAIN preds
LastNode(preds) == Max(Nodes(preds))
Succs(preds, b) == {c \in Nodes(preds) : b \in ToSet(preds[c])}

-----------------------------------------------------------------------------
(* Dominators, by definition *)

RECURSIVE ReachFrom(_, _, _)
ReachFrom(preds, d, R) ==
    LET N == R \cup {c \in Nodes(preds) \ {d} : ToSet(preds[c]) \cap R # {}}
    IN IF N = R THEN R ELSE ReachFrom(preds, d, N)

\* Blocks reached from the entry on paths that avoid block d.
Avoiding(preds, d) == ReachFrom(preds, d, {0} \ {d})

\* doms[b]: the blocks that dominate b.
Dominators(preds) ==
    LET avoid == [d \in Nodes(preds) |-> Avoiding(preds, d)]
    IN [b \in Nodes(preds) |-> {d \in Nodes(preds) : b \notin avoid[d]}]
\* The immediate dominator: the strict dominator with the most dominators.
ImmedDom(preds) ==
    LET doms == Dominators(preds)
    IN [b \in Nodes(preds) |-> IF b = 0 THEN -1 ELSE CHOOSE d \in doms[b] : doms[b] = doms[d] \cup {b}]

Frontier(preds, doms, X) ==
    {v \in Nodes(preds) : \E x \in X : /\ \E p \in ToSet(preds[v]) : x \in doms[p]
                                       /\ x \notin doms[v] \ {v}}
RECURSIVE Iterate(_, _, _, _)
Iterate(preds, doms, X, F) ==
    LET G == Frontier(preds, doms, X \cup F) IN IF G = F THEN F ELSE Iterate(preds, doms, X, G)
\* The iterated dominance frontier of X.
IteratedFrontier(preds, X) == Iterate(preds, Dominators(preds), X, {})

-----------------------------------------------------------------------------
(* BuildADT *)

Ascending(S, n) == SelectSeq([k \in 1..n + 1 |-> k - 1], LAMBDA b : b \in S)

BuildADT(preds, idom) ==
    LET n == LastNode(preds)
        all == Nodes(preds)
        child == [i \in all |-> Ascending({b \in all : idom[b] = i}, n)]
        depth[b \in all] == IF b = 0 THEN 0 ELSE depth[idom[b]] + 1
        \* The up-edges <<from, to>>, in order of the target's dominator.
        into(v) == LET us == SelectSeq(preds[v], LAMBDA u : u # idom[v])
                   IN [e \in DOMAIN us |-> <<us[e], v>>]
        ups == FlattenSeq([i \in 1..n + 1 |-> FlattenSeq([k \in DOMAIN child[i - 1] |-> into(child[i - 1][k])])])
        count(P(_)) == Len(SelectSeq(ups, P))
        b(i) == count(LAMBDA e : e[1] = i)
        t(i) == count(LAMBDA e : idom[e[2]] = i)
        \* Bottom-up, children first: a, z and the boundary nodes; the last
        \* node's record comes first in the sequence.
        sum(done, i, field) == FoldLeft(LAMBDA acc, c : acc + done[n + 1 - c][field], 0, child[i])
        walk == FoldLeft(LAMBDA done, i :
                  LET ai == b(i) - t(i) + sum(done, i, "a")
                      zi == 1 + sum(done, i, "z")
                      bound == child[i] = <<>> \/ zi > ai + 1
                  IN Append(done, [a |-> ai, z |-> IF bound THEN 1 ELSE zi, bound |-> bound]),
                  <<>>, Reverse(Ascending(all, n)))
        boundary == {i \in all : walk[n + 1 - i].bound}
        \* The nearest boundary node above.
        skip[i \in all] == IF i = 0 THEN -1 ELSE IF idom[i] \in boundary THEN idom[i] ELSE skip[idom[i]]
        chain[k \in all \cup {-1}] == IF k = -1 THEN {} ELSE {k} \cup chain[skip[k]]
        reached(k, e) == k \in chain[e[1]] /\ \A j \in chain[e[1]] : j >= k => j > idom[e[2]]
        augment(k) == SelectSeq(ups, LAMBDA e : reached(k, e))
    IN [child |-> child, depth |-> [i \in all |-> depth[i]], boundary |-> boundary, idom |-> idom,
        augment |-> [k \in all |-> [e \in 1..Len(augment(k)) |-> augment(k)[e][2]]]]

-----------------------------------------------------------------------------
(* CalcMultiequals *)

\* PriorityQueue: the deepest block first, of those the last one in.
Deepest(adt, q) == CHOOSE k \in DOMAIN q : \A l \in DOMAIN q :
    adt.depth[q[l]] < adt.depth[q[k]] \/ (adt.depth[q[l]] = adt.depth[q[k]] /\ l <= k)

Met(acc, v) ==
    [merged |-> IF v \in ToSet(acc.merged) THEN acc.merged ELSE Append(acc.merged, v),
     mark |-> acc.mark \cup {v},
     q |-> IF v \in acc.mark THEN acc.q ELSE Append(acc.q, v)]

\* Only the entries in front of the first one whose dominator is not above
\* qnode are taken.
RECURSIVE visitIncr(_, _, _, _)
visitIncr(adt, acc, qnode, vnode) ==
    LET far == SelectInSeq(adt.augment[vnode], LAMBDA v : adt.idom[v] >= qnode)
        stop == IF far = 0 THEN Len(adt.augment[vnode]) + 1 ELSE far
        here == FoldLeft(Met, acc, SubSeq(adt.augment[vnode], 1, stop - 1))
    IN IF vnode \in adt.boundary THEN here
       ELSE FoldLeft(LAMBDA a, c : IF c \in a.mark THEN a ELSE visitIncr(adt, a, qnode, c), here, adt.child[vnode])

RECURSIVE drainQueue(_, _)
drainQueue(adt, acc) ==
    IF acc.q = <<>> THEN acc.merged
    ELSE LET k == Deepest(adt, acc.q)
         IN drainQueue(adt, visitIncr(adt, [acc EXCEPT !.q = RemoveAt(@, k)], acc.q[k], acc.q[k]))

\* The blocks that need a MULTIEQUAL for a location written in the blocks of
\* the sequence writes; the entry block counts as a write.
CalcMultiequals(adt, writes) ==
    LET seeds == FoldLeft(LAMBDA acc, b : IF b \in ToSet(acc) THEN acc ELSE Append(acc, b), <<>>, Append(writes, 0))
    IN drainQueue(adt, [merged |-> <<>>, mark |-> ToSet(seeds), q |-> seeds])
=============================================================================
