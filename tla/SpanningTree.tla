---------------------------- MODULE SpanningTree ----------------------------
(***************************************************************************)
(* BlockGraph.StructureLoops (pkg/pcode/block_graph.go): the depth-first     *)
(* spanning tree and its edge labels, the irreducible edges, the loop edges  *)
(* and the immediate dominators; and the removal of unreachable blocks that  *)
(* trusts its result (Funcdata.RemoveUnreachableBlocks).                     *)
(*                                                                         *)
(* A behaviour builds a graph (bridge.Build), structures it, severs a        *)
(* branch as ActionDeterminedBranch does, structures it again and runs       *)
(* ActionUnreachable.  The depth-first searches take one edge per step, the   *)
(* dominator iteration one predecessor or one move of a finger.              *)
(***************************************************************************)
EXTENDS Integers, FiniteSets, SequencesExt

CONSTANTS
    N,          \* number of blocks
    MaxOut,     \* largest number of out-edges of a block
    MaxEdges    \* largest number of edges

ASSUME SpanningTreeAssumption == N \in Nat \ {0} /\ MaxOut \in Nat /\ MaxEdges \in Nat

Node == 1..N
Entry == 1      \* the block bridge.Build flags BlockFlagEntryPoint
Nil == 0
Top == N + 1    \* the virtual root of CalcForwardDominator

VARIABLES
    out,      \* FlowBlock.outEdges: targets
    ins,      \* FlowBlock.inEdges: <<source, slot of the source>>
    order,    \* BlockGraph.blocks
    label,    \* labels of the out-edges (module FlowBlock shows the halves agree)
    pc,       \* which part of StructureLoops is under way
    stage,    \* what happened to the graph so far
    tree,     \* the locals of findSpanningTree and the fields it computes
    irr,      \* the locals of StructureLoops and findIrreducible
    idom,     \* FlowBlock.immedDom
    sweep       \* the locals of CalcForwardDominator

graph == <<out, ins, stage>>
vars == <<out, ins, order, label, pc, stage, tree, irr, idom, sweep>>

SpanLabel == {"tree", "forward", "cross", "back", "loop", "irreducible"}
Blocks == Range(order)
Slots == {p \in Node \X (1..MaxOut) : p[2] <= Len(out[p[1]])}
Target(p) == out[p[1]][p[2]]
Labelled(l) == {p \in Slots : l \in label[p[1]][p[2]]}

-----------------------------------------------------------------------------
(***************************************************************************)
(* Reference definitions over the edges of the graph.                       *)
(***************************************************************************)
\* No edge leads out of R, except into avoid.
Closed(R, avoid, edges) == \A p \in edges : p[1] \in R /\ Target(p) \notin avoid => Target(p) \in R

\* What can be reached from the blocks in S without passing through avoid: the
\* least closed set.
ReachFrom(S, avoid, edges) ==
    LET closed == {R \in SUBSET Node : S \ avoid \subseteq R /\ Closed(R, avoid, edges)}
    IN  {b \in Node : \A R \in closed : b \in R}

Reachable == ReachFrom({Entry}, {}, Slots)
Acyclic(edges) == \A b \in Node : b \notin ReachFrom({Target(p) : p \in {q \in edges : q[1] = b}}, {}, edges)

-----------------------------------------------------------------------------
\* The i-th smallest number of K, and what a list has in T, in its order
Nth(K, i) == CHOOSE k \in K : Cardinality({j \in K : j <= k}) = i
Keep(s, T) ==
    LET K == {k \in DOMAIN s : s[k] \in T}
    IN  [i \in 1..Cardinality(K) |-> s[Nth(K, i)]]

Swap(s, i, j) == [s EXCEPT ![i] = s[j], ![j] = s[i]]

\* The roots findSpanningTree starts with: the blocks without in-edges, the first
\* of them last.
InitialRoots(ord, inn) ==
    LET r == Keep(ord, {b \in Node : inn[b] = <<>>})
    IN  IF r = <<>> THEN <<ord[1]>> ELSE Swap(r, 1, Len(r))

NoLabels(ou) == [b \in Node |-> [k \in DOMAIN ou[b] |-> {}]]

\* A pass of findSpanningTree begins: reset() and the clearing of the labels.
FreshTree(roots, home, again) ==
    [visit |-> [b \in Node |-> -1], index |-> [b \in Node |-> -1],
     desc |-> [b \in Node |-> 0], pre |-> <<>>, rpost |-> <<>>, stack |-> <<>>,
     roots |-> roots, at |-> 0, home |-> home, extra |-> FALSE, again |-> again]

NewTree(ord, inn) == LET r == InitialRoots(ord, inn) IN FreshTree(r, Len(r), FALSE)
NewIrr == [attempt |-> 1, found |-> FALSE, rebuild |-> FALSE, x |-> 0,
           copy |-> [b \in Node |-> b], path |-> <<>>, seen |-> {}]
MaxAttempts == 8
\* The sweep comes to the block at position at, in its list of predecessors at pred;
\* new is newIdom, and rho the finger that walks up to meet it.
AtBlock(at, changed) == [at |-> at, pred |-> 1, new |-> Nil, rho |-> Nil, changed |-> changed]

OutLists == UNION {[1..n -> Node] : n \in 0..MaxOut}
\* In-edges are added block by block.
InLists(ou) == [t \in Node |->
    LET sources == {b \in Node : t \in Range(ou[b])}
    IN  [i \in 1..Cardinality(sources) |->
            LET b == Nth(sources, i) IN <<b, CHOOSE k \in DOMAIN ou[b] : ou[b][k] = t>>]]

\* addCFGEdges: no two edges between the same blocks, and flow was followed from
\* the entry, so every block can be reached.  The entry may have in-edges.
Init ==
    /\ out \in [Node -> {l \in OutLists : IsInjective(l)}]
    /\ FoldFunction(LAMBDA l, n : Len(l) + n, 0, out) <= MaxEdges
    /\ Reachable = Node
    /\ ins = InLists(out)
    /\ order = [i \in Node |-> i]
    /\ label = NoLabels(out)
    /\ pc = "tree" /\ stage = "built"
    /\ tree = NewTree(order, ins)
    /\ irr = NewIrr
    /\ idom = [b \in Node |-> Nil] /\ sweep = AtBlock(1, FALSE)

AddLabels(p, ls) == [label EXCEPT ![p[1]][p[2]] = @ \cup ls]

\* The start of StructureLoops on a graph that has changed
Restructure(ou, inn, ord) ==
    /\ out' = ou /\ ins' = inn /\ order' = ord
    /\ label' = NoLabels(ou)
    /\ pc' = "tree"
    /\ tree' = NewTree(ord, inn)
    /\ irr' = NewIrr
    /\ UNCHANGED <<idom, sweep>>

-----------------------------------------------------------------------------
(***************************************************************************)
(* findSpanningTree                                                         *)
(***************************************************************************)
Visit(t, b) == [t EXCEPT !.visit[b] = Len(t.pre), !.pre = Append(@, b), !.desc[b] = 1,
                         !.stack = Append(@, [bl |-> b, edge |-> 0])]

\* The next root: roots already visited are dropped from the list; when none is
\* left the first unvisited block becomes an extra root.
PickRoot ==
    /\ pc = "tree" /\ tree.stack = <<>> /\ Len(tree.pre) < Len(order)
    /\ LET unseen == {b \in Node : tree.visit[b] = -1}
           done == SubSeq(tree.roots, 1, tree.at)
           left == {i \in tree.at + 1..Len(tree.roots) : tree.roots[i] \in unseen}
           kept == IF left = {} THEN <<>> ELSE SubSeq(tree.roots, Nth(left, 1), Len(tree.roots))
           roots == done \o (IF kept = <<>> THEN <<Keep(order, unseen)[1]>> ELSE kept)
       IN  tree' = Visit([tree EXCEPT !.roots = roots, !.at = @ + 1,
                                      !.extra = @ \/ kept = <<>>], roots[tree.at + 1])
    /\ UNCHANGED <<graph, order, label, pc, irr, idom, sweep>>

\* Mutant: every edge to an earlier block of the preorder is taken for a back edge.
SeenLabelByVisit(t, b, c) == IF t.visit[c] <= t.visit[b] THEN {"back", "loop"} ELSE {"forward"}

\* Mutant: a back edge is not also a loop edge.
SeenLabelNoLoop(t, b, c) == IF t.index[c] = -1 THEN {"back"}
                            ELSE IF t.visit[b] < t.visit[c] THEN {"forward"} ELSE {"cross"}

\* The label of an edge to a block already visited
SeenLabel(t, b, c) == IF t.index[c] = -1 THEN {"back", "loop"}
                      ELSE IF t.visit[b] < t.visit[c] THEN {"forward"} ELSE {"cross"}

\* The top block has no edge left: it gets the next index from the end.
Finish(t) ==
    LET b == Last(t.stack).bl
        below == Front(t.stack)
    IN  [t EXCEPT !.stack = below,
                  !.index[b] = Len(order) - Len(t.rpost) - 1,
                  !.rpost = <<b>> \o @,
                  !.desc = IF below = <<>> THEN t.desc
                           ELSE [t.desc EXCEPT ![Last(below).bl] = @ + t.desc[b]]]

\* Mutant: the edge counter of the block is not advanced past a visited child.
WalkStuck ==
    /\ pc = "tree" /\ tree.stack # <<>>
    /\ LET b == Last(tree.stack).bl
           k == Last(tree.stack).edge + 1
           t == [tree EXCEPT !.stack[Len(tree.stack)].edge = k]
       IN  IF k > Len(out[b]) THEN tree' = Finish(tree) /\ label' = label
           ELSE IF tree.visit[out[b][k]] = -1
           THEN tree' = Visit(t, out[b][k]) /\ label' = AddLabels(<<b, k>>, {"tree"})
           ELSE tree' = tree /\ label' = AddLabels(<<b, k>>, SeenLabel(tree, b, out[b][k]))
    /\ UNCHANGED <<graph, order, pc, irr, idom, sweep>>

\* One turn of the depth-first walk: the next out-edge of the top block.
\* Irreducible edges would be skipped, but the pass has just cleared that label.
Walk ==
    /\ pc = "tree" /\ tree.stack # <<>>
    /\ LET b == Last(tree.stack).bl
           k == Last(tree.stack).edge + 1
           t == [tree EXCEPT !.stack[Len(tree.stack)].edge = k]
       IN  IF k > Len(out[b]) THEN tree' = Finish(tree) /\ label' = label
           ELSE IF "irreducible" \in label[b][k] THEN tree' = t /\ label' = label
           ELSE IF tree.visit[out[b][k]] = -1
           THEN tree' = Visit(t, out[b][k]) /\ label' = AddLabels(<<b, k>>, {"tree"})
           ELSE tree' = t /\ label' = AddLabels(<<b, k>>, SeenLabel(tree, b, out[b][k]))
    /\ UNCHANGED <<graph, order, pc, irr, idom, sweep>>

\* All blocks are numbered.  Extra roots cost a second pass, with the head of the
\* graph moved to the end of the list so that it is numbered last, that is first.
EndPass ==
    /\ pc = "tree" /\ tree.stack = <<>> /\ Len(tree.pre) = Len(order)
    /\ LET last == Len(tree.roots)
       IN  IF tree.extra /\ ~tree.again
           THEN /\ tree' = FreshTree(Swap(tree.roots, tree.home, last), tree.home, TRUE)
                /\ label' = NoLabels(out)
                /\ UNCHANGED <<order, pc, irr>>
           ELSE /\ tree' = [tree EXCEPT !.roots = Swap(@, 1, last)]
                /\ order' = tree.rpost
                /\ irr' = [irr EXCEPT !.x = Len(order), !.copy = [b \in Node |-> b]]
                /\ pc' = "irreducible" /\ label' = label
    /\ UNCHANGED <<graph, idom, sweep>>

-----------------------------------------------------------------------------
(***************************************************************************)
(* findIrreducible, calcLoop                                                *)
(***************************************************************************)

\* y is in the subtree of x
InSpan(x, y) == tree.visit[x] <= tree.visit[y] /\ tree.visit[y] < tree.visit[x] + tree.desc[x]

\* The edges into the blocks of S that are not irreducible
InEdgesOf(S) == {p \in Slots : Target(p) \in S /\ "irreducible" \notin label[p[1]][p[2]]}

\* The blocks that reach a back edge of x inside x's subtree, collapsed by copymap
ReachUnder(x) ==
    LET base == {irr.copy[p[1]] : p \in {q \in Labelled("back") : Target(q) = x /\ q[1] # x}}
        more(S) == {irr.copy[p[1]] : p \in InEdgesOf(S)}
        full == {S \in SUBSET Node : base \subseteq S /\ \A y \in more(S) : InSpan(x, y) /\ y # x => y \in S}
    IN  {b \in Node : \A S \in full : b \in S}

\* One head x, from the last of the preorder to the first
FindIrreducible ==
    /\ pc = "irreducible" /\ irr.x > 0
    /\ \E under \in {ReachUnder(tree.pre[irr.x])} :
       LET x == tree.pre[irr.x]
           bad == {p \in InEdgesOf(under) : ~InSpan(x, irr.copy[p[1]])}
           isTree(p) == "tree" \in label[p[1]][p[2]]
       IN  /\ label' = [b \in Node |-> [k \in DOMAIN out[b] |->
                 IF <<b, k>> \notin bad THEN label[b][k]
                 ELSE {"irreducible"} \cup
                      (label[b][k] \ (IF isTree(<<b, k>>) THEN {} ELSE {"cross", "forward"}))]]
           /\ irr' = [irr EXCEPT !.x = @ - 1, !.found = @ \/ bad # {},
                                 !.rebuild = @ \/ \E p \in bad : isTree(p),
                                 !.copy = [b \in Node |-> IF b \in under THEN x ELSE irr.copy[b]]]
    /\ UNCHANGED <<graph, order, pc, tree, idom, sweep>>

\* The end of an attempt of StructureLoops.  A tree edge that was irreducible
\* forces another attempt, seven times at most.
EndAttempt ==
    /\ pc = "irreducible" /\ irr.x = 0
    /\ LET cleared == [b \in Node |-> [k \in DOMAIN out[b] |-> label[b][k] \cap {"irreducible"}]]
       IN  IF irr.rebuild /\ irr.attempt < MaxAttempts
           THEN /\ tree' = NewTree(order, ins)
                /\ label' = NoLabels(out)
                /\ irr' = [irr EXCEPT !.attempt = @ + 1, !.rebuild = FALSE]
                /\ pc' = "tree"
           ELSE /\ label' = IF irr.rebuild THEN cleared ELSE label
                /\ pc' = IF irr.found THEN "calcLoop" ELSE "dominators"
                /\ irr' = [irr EXCEPT !.path = <<[bl |-> order[1], edge |-> 0]>>, !.seen = {order[1]}]
                /\ tree' = tree
    /\ UNCHANGED <<graph, order, idom, sweep>>

\* calcLoop: one turn of its depth-first walk; an edge to a block on the path
\* becomes a loop edge.
CalcLoop ==
    /\ pc = "calcLoop" /\ irr.path # <<>>
    /\ LET b == Last(irr.path).bl
           k == Last(irr.path).edge + 1
           next == [irr EXCEPT !.path[Len(irr.path)].edge = k]
           onPath == {irr.path[i].bl : i \in DOMAIN irr.path}
       IN  IF k > Len(out[b]) THEN irr' = [irr EXCEPT !.path = Front(@)] /\ label' = label
           ELSE IF "loop" \in label[b][k] THEN irr' = next /\ label' = label
           ELSE IF out[b][k] \in onPath
           THEN irr' = next /\ label' = AddLabels(<<b, k>>, {"loop"})
           ELSE /\ irr' = IF out[b][k] \in irr.seen THEN next
                          ELSE [next EXCEPT !.path = Append(@, [bl |-> out[b][k], edge |-> 0]),
                                            !.seen = @ \cup {out[b][k]}]
                /\ label' = label
    /\ UNCHANGED <<graph, order, pc, tree, idom, sweep>>

EndCalcLoop ==
    /\ pc = "calcLoop" /\ irr.path = <<>>
    /\ pc' = "dominators"
    /\ UNCHANGED <<graph, order, label, tree, irr, idom, sweep>>

-----------------------------------------------------------------------------
(***************************************************************************)
(* CalcForwardDominator                                                     *)
(***************************************************************************)
\* A virtual root stands above several roots, and above a root with in-edges.
HasVirtualRoot == Len(tree.roots) > 1 \/ ins[order[1]] # <<>>
TopBlock == IF HasVirtualRoot THEN Top ELSE order[1]

\* Without a virtual root the sweeps begin behind the root.
FirstSwept == IF HasVirtualRoot THEN 1 ELSE 2

StartDominators ==
    /\ pc = "dominators"
    /\ idom' = [b \in Node |->
                  IF b = TopBlock \/ b \in (IF HasVirtualRoot THEN Range(tree.roots) ELSE Range(out[order[1]]))
                  THEN TopBlock ELSE Nil]
    /\ sweep' = AtBlock(FirstSwept, FALSE)
    /\ pc' = "sweep"
    /\ UNCHANGED <<graph, order, label, tree, irr>>

\* The virtual root's index field is never set: it shares index 0 with the
\* first block.
IndexOf(b) == IF b = Top THEN 0 ELSE tree.index[b]

\* The in-edges of b, then the edge of the virtual root into a root
Preds(b) == [i \in DOMAIN ins[b] |-> ins[b][i][1]]
            \o (IF HasVirtualRoot /\ b \in Range(tree.roots) THEN <<Top>> ELSE <<>>)

Processed(c) == c = Top \/ idom[c] # Nil

\* A sweep goes over the blocks in reverse post-order.
Sweeping == pc = "sweep" /\ sweep.at <= Len(order)
Swept == order[sweep.at]

\* Blocks right below the top stay there.
SkipBlock ==
    /\ Sweeping /\ idom[Swept] = TopBlock
    /\ sweep' = AtBlock(sweep.at + 1, sweep.changed)
    /\ UNCHANGED <<graph, order, label, pc, tree, irr, idom>>

\* Mutant: only the first predecessor with a dominator counts.
NextPredecessorFirst ==
    /\ Sweeping /\ idom[Swept] # TopBlock
    /\ sweep.rho = Nil /\ sweep.pred <= Len(Preds(Swept))
    /\ LET found == sweep.new # Nil /\ Processed(sweep.new)
       IN  sweep' = [sweep EXCEPT !.pred = @ + 1, !.new = IF found THEN @ ELSE Preds(Swept)[sweep.pred]]
    /\ UNCHANGED <<graph, order, label, pc, tree, irr, idom>>

\* The first predecessor with a dominator (or else the last of all) is the first
\* choice; each later one with a dominator is intersected with what there is.
NextPredecessor ==
    /\ Sweeping /\ idom[Swept] # TopBlock
    /\ sweep.rho = Nil /\ sweep.pred <= Len(Preds(Swept))
    /\ LET c == Preds(Swept)[sweep.pred]
           found == sweep.new # Nil /\ Processed(sweep.new)
       IN  sweep' = [sweep EXCEPT !.pred = @ + 1,
                              !.new = IF found THEN @ ELSE c,
                              !.rho = IF found /\ Processed(c) THEN c ELSE Nil]
    /\ UNCHANGED <<graph, order, label, pc, tree, irr, idom>>

\* The finger at the higher index goes up the dominator tree until both meet.  A finger
\* is a position: from a root it goes to the first block, not to the virtual root.
MoveFinger ==
    /\ pc = "sweep" /\ sweep.rho # Nil
    /\ LET i == IndexOf(sweep.new)
           j == IndexOf(sweep.rho)
           up(k) == order[IndexOf(idom[order[k + 1]]) + 1]
       IN  sweep' = CASE i = j -> [sweep EXCEPT !.new = order[i + 1], !.rho = Nil]
                    [] i > j -> [sweep EXCEPT !.new = up(i)]
                    [] i < j -> [sweep EXCEPT !.rho = up(j)]
    /\ UNCHANGED <<graph, order, label, pc, tree, irr, idom>>

\* All predecessors of the block have been looked at.
SetDominator ==
    /\ Sweeping /\ idom[Swept] # TopBlock
    /\ sweep.rho = Nil /\ sweep.pred > Len(Preds(Swept))
    /\ idom' = [idom EXCEPT ![Swept] = sweep.new]
    /\ sweep' = AtBlock(sweep.at + 1, sweep.changed \/ idom[Swept] # sweep.new)
    /\ UNCHANGED <<graph, order, label, pc, tree, irr>>

\* Another sweep if this one changed a dominator; the virtual root is dropped.
EndSweep ==
    /\ pc = "sweep" /\ sweep.at > Len(order)
    /\ sweep' = AtBlock(FirstSwept, FALSE)
    /\ IF sweep.changed THEN UNCHANGED <<pc, idom>>
       ELSE /\ pc' = "done"
            /\ idom' = [b \in Node |-> IF idom[b] = Top \/ b = TopBlock THEN Nil ELSE idom[b]]
    /\ UNCHANGED <<graph, order, label, tree, irr>>

-----------------------------------------------------------------------------
(***************************************************************************)
(* What happens to the graph between two structurings                       *)
(***************************************************************************)
\* Without the edge at slot p: the later slots of both its blocks slide down.
CutEdge(g, p) ==
    LET b == p[1]
        k == p[2]
        slide(e) == IF e[1] = b /\ e[2] > k THEN <<b, e[2] - 1>> ELSE e
        t == g.out[b][k]
        cutIns == [g.ins EXCEPT ![t] = Keep(@, Slots \ {p})]
    IN  [out |-> [g.out EXCEPT ![b] = RemoveAt(@, k)],
         ins |-> [c \in Node |-> [i \in DOMAIN cutIns[c] |-> slide(cutIns[c][i])]]]

\* ActionDeterminedBranch -> RemoveBranch: a conditional branch on a constant
RemoveBranch(b, k) ==
    /\ pc = "done" /\ stage = "built"
    /\ b \in Blocks /\ Len(out[b]) = 2
    /\ \E g \in {CutEdge([out |-> out, ins |-> ins], <<b, k>>)} : Restructure(g.out, g.ins, order)
    /\ stage' = "cut"

\* Mutant: the comparison is off by one.
BlocksUnreachableLate == Len(tree.roots) > 2

\* Funcdata.StructureReset: several roots mean unreachable blocks.
BlocksUnreachable == Len(tree.roots) > 1

\* ActionUnreachable -> RemoveUnreachableBlocks(_, FALSE): the out-edges of the
\* blocks the entry cannot reach are severed and the blocks removed.
RemoveUnreachableBlocks ==
    /\ pc = "done" /\ stage \in {"built", "cut"}
    /\ stage' = "settled"
    /\ IF ~BlocksUnreachable THEN UNCHANGED <<out, ins, order, label, pc, tree, irr, idom, sweep>>
       ELSE \E live \in {Reachable} :
                Restructure([b \in Node |-> IF b \in live THEN out[b] ELSE <<>>],
                            [b \in Node |-> Keep(ins[b], {e \in Slots : e[1] \in live})],
                            Keep(order, live))

\* Nothing left to do
Settled == pc = "done" /\ stage = "settled" /\ UNCHANGED vars

Next ==
    \/ PickRoot \/ Walk \/ EndPass
    \/ FindIrreducible \/ EndAttempt \/ CalcLoop \/ EndCalcLoop
    \/ StartDominators
    \/ SkipBlock \/ NextPredecessor \/ MoveFinger \/ SetDominator \/ EndSweep
    \/ \E b \in Node, k \in 1..2 : RemoveBranch(b, k)
    \/ RemoveUnreachableBlocks
    \/ Settled

Spec == Init /\ [][Next]_vars
FairSpec == Spec /\ WF_vars(Next)

-----------------------------------------------------------------------------
(***************************************************************************)
(* Properties                                                               *)
(***************************************************************************)
Done == pc = "done"
Edges == {p \in Slots : p[1] \in Blocks}
Position(b) == CHOOSE i \in DOMAIN order : order[i] = b

\* FindSpanningTree promises that the entry gets index 0; it does when the entry
\* has no in-edges, whatever blocks lost their last way in.
EntryFirst == Done /\ ins[Entry] = <<>> => order[1] = Entry

\* The blocks end up in a reverse post-order and the back edges are exactly the
\* edges that go up in it, also after a second pass over a changed root list.
ReversePostorder ==
    pc # "tree" =>
            /\ \A b \in Blocks : order[tree.index[b] + 1] = b
            /\ \A p \in Edges : "back" \in label[p[1]][p[2]] <=> Position(p[1]) >= Position(Target(p))

\* The order of the blocks is right: the entry first, loops against it.
OrderRight == EntryFirst /\ ReversePostorder

\* Without its loop edges the graph has no cycle (calcLoop's promise): structuring
\* and heritage walk it as a DAG.
LoopsCut == Done => Acyclic(Edges \ Labelled("loop"))

\* Without its irreducible edges the graph is reducible: every back edge goes to a
\* block that dominates its source; and a graph that was reducible has none.
IrreducibleCut ==
    Done /\ Len(tree.roots) = 1 =>
        LET E == Edges \ Labelled("irreducible")
            dominates(b, c, F) == b = c \/ c \notin ReachFrom({tree.roots[1]}, {b}, F)
            reducible(F) == \A p \in F \cap Labelled("back") : dominates(Target(p), p[1], F)
        IN  /\ reducible(E)
            /\ reducible(Edges) => E = Edges

\* The labels cut what they promise to cut.
LabelsCut == LoopsCut /\ IrreducibleCut

\* Each block's immediate dominator is the reference one; where there are several
\* roots the first stands in for the virtual root they share its index with.
DominatorsRight ==
    Done => LET top == order[1]
                others == Range(tree.roots) \ {top}
                away == [b \in Blocks |-> ReachFrom({top} \cup (IF b = top THEN {} ELSE others), {b}, Edges)]
                dom(b, c) == c \notin away[b]
                strict(c) == {b \in Blocks \ {c} : dom(b, c)}
            IN  \A c \in Blocks :
                  IF c \in Range(tree.roots) THEN idom[c] = Nil
                  ELSE idom[c] \in strict(c) /\ \A b \in strict(c) : b = idom[c] \/ dom(b, idom[c])

\* RemoveUnreachableBlocks leaves exactly the blocks the entry reaches, trusting
\* the number of roots; it can when the entry has no in-edges.
DeadRemoved == Done /\ stage = "settled" /\ ins[Entry] = <<>> => Blocks = Reachable

\* Every structuring ends: the root picking, the walks and the dominator sweeps.
Terminates == <>(Done /\ stage = "settled")

====
