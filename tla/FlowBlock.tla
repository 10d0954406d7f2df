------------------------------ MODULE FlowBlock ------------------------------
(***************************************************************************)
(* The bidirectional edge lists of the control-flow graph                   *)
(* (pkg/pcode/flowblock.go, block_graph.go) and the block-removing          *)
(* operations of Funcdata built on them (funcdata.go,                       *)
(* funcdata_donothing.go).                                                  *)
(*                                                                         *)
(* An edge exists twice: as an entry of the source's outEdges and as an     *)
(* entry of the target's inEdges.  Each half holds the slot of the other    *)
(* one (ReverseIndex), so deleting a slot must renumber the mirrors of all  *)
(* the slots that slide down.  Slots are 1-based here, 0-based in the code. *)
(*                                                                         *)
(* Operations with a loop (RemoveBlock, removeFromFlow, spliceOutput) are   *)
(* run one loop iteration per step; `task' is the program counter of the    *)
(* operation under way and every other operation waits for it.              *)
(***************************************************************************)
EXTENDS Integers, FiniteSets, SequencesExt

CONSTANTS
    Block,       \* the FlowBlocks that may ever exist
    SpanLabel,   \* edge labels owned by the spanning tree (tree, back, loop ...)
    DefaultSwitch, \* the label of a switch's default edge
    CreateFlags, \* the flags a block may be created with
    MaxEdges     \* bound on the number of edges AddEdge may build up to

ASSUME FlowBlockAssumption ==
    /\ MaxEdges \in Nat
    /\ DefaultSwitch \notin SpanLabel
    /\ CreateFlags \subseteq {"switch_out", "entry_point"}

VARIABLES
    blocks,      \* BlockGraph.blocks, as a set: the members of the graph
    inEdges,     \* FlowBlock.inEdges of every block
    outEdges,    \* FlowBlock.outEdges of every block
    flags,       \* FlowBlock.flags
    task         \* the looping operation under way

vars == <<blocks, inEdges, outEdges, flags, task>>

Label == SpanLabel \cup {DefaultSwitch}

\* The block flags the operations here read or write
BlockFlag == {"flip_path", "switch_out", "unstructured_targ", "entry_point"}

\* BlockEdge
Edge == [label : SUBSET Label, point : Block, rev : Nat]

Idle == [op |-> "idle"]

\* by is the operation, op where it is; bl is the block it works on, to the block
\* that gets its edges; was is the graph before the operation.
Graph == [in : [Block -> Seq(Edge)], out : [Block -> Seq(Edge)]]
Task == [by : {"RemoveDoNothingBlock", "spliceBlockBasic", "removeFromFlowSplit", "RemoveBlock"},
         op : {"bypassOut", "bypassIn", "move", "detach", "reset"},
         bl : Block, to : Block, was : Graph]

graph == [in |-> inEdges, out |-> outEdges]

TypeOK ==
    /\ blocks \subseteq Block
    /\ graph \in Graph
    /\ flags \in [Block -> SUBSET BlockFlag]
    /\ task \in {Idle} \cup Task

-----------------------------------------------------------------------------
(***************************************************************************)
(* Edge surgery, as functions from graphs to graphs.                        *)
(***************************************************************************)

\* FlowBlock.halfDeleteInEdge: slot k of b's in-list is dropped, the later
\* slots slide down, and the mirror of each slid slot is decremented.
HalfDeleteIn(g, b, k) ==
    [in  |-> [g.in EXCEPT ![b] = RemoveAt(g.in[b], k)],
     out |-> [s \in Block |-> [j \in 1..Len(g.out[s]) |->
                IF \E m \in (k+1)..Len(g.in[b]) :
                        g.in[b][m].point = s /\ g.in[b][m].rev = j
                THEN [g.out[s][j] EXCEPT !.rev = @ - 1]
                ELSE g.out[s][j]]]]

\* Mutant: the slid slots are not renumbered in their mirrors.
HalfDeleteOutNoFix(g, b, k) ==
    [out |-> [g.out EXCEPT ![b] = RemoveAt(g.out[b], k)], in |-> g.in]

\* FlowBlock.halfDeleteOutEdge
HalfDeleteOut(g, b, k) ==
    [out |-> [g.out EXCEPT ![b] = RemoveAt(g.out[b], k)],
     in  |-> [s \in Block |-> [j \in 1..Len(g.in[s]) |->
                IF \E m \in (k+1)..Len(g.out[b]) :
                        g.out[b][m].point = s /\ g.out[b][m].rev = j
                THEN [g.in[s][j] EXCEPT !.rev = @ - 1]
                ELSE g.in[s][j]]]]

\* FlowBlock.AddInEdge
AddInEdge(g, b, src, lab) ==
    LET e(p, r) == [label |-> lab, point |-> p, rev |-> r]
    IN  [in  |-> [g.in EXCEPT ![b] = Append(@, e(src, Len(g.out[src]) + 1))],
         out |-> [g.out EXCEPT ![src] = Append(@, e(b, Len(g.in[b]) + 1))]]

\* FlowBlock.RemoveInEdge: the source's half goes first.
RemoveInEdge(g, b, k) ==
    LET e == g.in[b][k]
    IN  HalfDeleteIn(HalfDeleteOut(g, e.point, e.rev), b, k)

\* FlowBlock.RemoveOutEdge: the target's half goes first.
RemoveOutEdge(g, b, k) ==
    LET e == g.out[b][k]
    IN  HalfDeleteOut(HalfDeleteIn(g, e.point, e.rev), b, k)

\* FlowBlock.ReplaceInEdge: in-slot k of b keeps its place, its source changes.
ReplaceInEdge(g, b, k, src) ==
    LET e == g.in[b][k]
        h == HalfDeleteOut(g, e.point, e.rev)
    IN  [in  |-> [h.in EXCEPT ![b][k] =
                    [label |-> e.label, point |-> src, rev |-> Len(h.out[src]) + 1]],
         out |-> [h.out EXCEPT ![src] =
                    Append(@, [label |-> e.label, point |-> b, rev |-> k])]]

\* FlowBlock.ReplaceOutEdge: out-slot k of b keeps its place, its target changes.
ReplaceOutEdge(g, b, k, tgt) ==
    LET e == g.out[b][k]
        h == HalfDeleteIn(g, e.point, e.rev)
    IN  [out |-> [h.out EXCEPT ![b][k] =
                    [label |-> e.label, point |-> tgt, rev |-> Len(h.in[tgt]) + 1]],
         in  |-> [h.in EXCEPT ![tgt] =
                    Append(@, [label |-> e.label, point |-> b, rev |-> k])]]

\* FlowBlock.replaceEdgesThru: the source of in-slot i flows straight into the
\* target of out-slot o.  Each surviving half keeps its own label.
ReplaceEdgesThru(g, b, i, o) ==
    LET e == g.in[b][i]
        f == g.out[b][o]
        h == [out |-> [g.out EXCEPT ![e.point][e.rev] =
                          [label |-> @.label, point |-> f.point, rev |-> f.rev]],
              in  |-> [g.in EXCEPT ![f.point][f.rev] =
                          [label |-> @.label, point |-> e.point, rev |-> e.rev]]]
    IN  HalfDeleteOut(HalfDeleteIn(h, b, i), b, o)

\* FlowBlock.SwapEdges on the edge lists: out-slots 1 and 2 change places and
\* their mirrors are renumbered.
SwapOut(g, b) ==
    LET e == g.out[b][1]
        f == g.out[b][2]
    IN  [out |-> [g.out EXCEPT ![b][1] = f, ![b][2] = e],
         in  |-> [g.in EXCEPT ![f.point][f.rev].rev = 1, ![e.point][e.rev].rev = 2]]

\* The labels that f, a function on out-slots, gives to the slots in P.
Labels(f, P) == UNION {f[p] : p \in P \cap DOMAIN f}

\* Mutant: only the out half is cleared.
RelabelOutOnly(g, drop, add) ==
    LET here(t, j) == {p \in DOMAIN add : g.out[p[1]][p[2]].point = t /\ g.out[p[1]][p[2]].rev = j}
    IN  [out |-> [b \in Block |-> [k \in DOMAIN g.out[b] |->
                    [g.out[b][k] EXCEPT !.label =
                        (@ \ Labels(drop, {<<b, k>>})) \cup Labels(add, {<<b, k>>})]]],
         in  |-> [t \in Block |-> [j \in DOMAIN g.in[t] |->
                    [g.in[t][j] EXCEPT !.label = @ \cup Labels(add, here(t, j))]]]]

\* FlowBlock.ClearOutEdgeFlag for the out-slots in the domain of drop, then
\* SetOutEdgeFlag for those in the domain of add: on the out-slot and on the
\* half its ReverseIndex names.
Relabel(g, drop, add) ==
    LET here(t, j) == {p \in (DOMAIN drop) \cup (DOMAIN add) :
                          g.out[p[1]][p[2]].point = t /\ g.out[p[1]][p[2]].rev = j}
    IN  [out |-> [b \in Block |-> [k \in DOMAIN g.out[b] |->
                    [g.out[b][k] EXCEPT !.label =
                        (@ \ Labels(drop, {<<b, k>>})) \cup Labels(add, {<<b, k>>})]]],
         in  |-> [t \in Block |-> [j \in DOMAIN g.in[t] |->
                    [g.in[t][j] EXCEPT !.label =
                        (@ \ Labels(drop, here(t, j))) \cup Labels(add, here(t, j))]]]]

\* FlowBlock.GetInIndex / GetOutIndex: the first slot of b facing other.
SlotsIn(g, b, other)  == {i \in 1..Len(g.in[b]) : g.in[b][i].point = other}
SlotsOut(g, b, other) == {i \in 1..Len(g.out[b]) : g.out[b][i].point = other}

\* The edge lists without their slot numbers: who is connected where, in order.
Points(es) == [i \in DOMAIN es |-> es[i].point]

\* The number of edges of the graph.
EdgeCount == FoldFunction(LAMBDA es, n : Len(es) + n, 0, outEdges)

-----------------------------------------------------------------------------
Init ==
    /\ blocks = {}
    /\ inEdges = [b \in Block |-> <<>>]
    /\ outEdges = [b \in Block |-> <<>>]
    /\ flags = [b \in Block |-> {}]
    /\ task = Idle

Becomes(g) == inEdges' = g.in /\ outEdges' = g.out

\* BlockGraph.NewBlockBasicInGraph, and the flags its creator sets.
NewBlock(b, fl) ==
    /\ task = Idle
    /\ b \notin blocks
    /\ blocks' = blocks \cup {b}
    /\ flags' = [flags EXCEPT ![b] = fl]
    /\ UNCHANGED <<inEdges, outEdges, task>>

\* An operation on the edges of the graph that runs to completion at once.
EdgeOp(g) == task = Idle /\ Becomes(g) /\ UNCHANGED <<blocks, task>>

\* BlockGraph.AddEdge; every edge of the basic-block graph starts unlabelled.
AddEdge(src, b) ==
    /\ src \in blocks /\ b \in blocks
    /\ EdgeCount < MaxEdges
    /\ EdgeOp(AddInEdge(graph, b, src, {}))
    /\ UNCHANGED flags

\* BlockGraph.RemoveEdge: the first in-slot of b that comes from src, if any.
RemoveEdge(src, b) ==
    /\ SlotsIn(graph, b, src) # {}
    /\ EdgeOp(RemoveInEdge(graph, b, Min(SlotsIn(graph, b, src))))
    /\ UNCHANGED flags

\* BlockGraph.MoveOutEdge, as PushBranch and NodeJoinCreateBlock call it: on a
\* block that ends in a CBRANCH.
MoveOutEdge(b, k, new) ==
    /\ k \in DOMAIN outEdges[b] /\ new \in blocks
    /\ "switch_out" \notin flags[b]
    /\ LET e == outEdges[b][k] IN EdgeOp(ReplaceInEdge(graph, e.point, e.rev, new))
    /\ UNCHANGED flags

\* FlowBlock.ReplaceOutEdge, as collapse and nodeSplitBlockEdge call it
RetargetOutEdge(b, k, new) ==
    /\ k \in DOMAIN outEdges[b] /\ new \in blocks
    /\ EdgeOp(ReplaceOutEdge(graph, b, k, new))
    /\ UNCHANGED flags

\* FlowBlock.SwapEdges
SwapEdges(b) ==
    /\ Len(outEdges[b]) = 2
    /\ EdgeOp(SwapOut(graph, b))
    /\ flags' = [flags EXCEPT ![b] = (@ \ {"flip_path"}) \cup ({"flip_path"} \ @)]

\* FlowBlock.ForceFalseEdge: out-slot 1 must lead to out0.
ForceFalseEdge(b, out0) ==
    /\ outEdges[b] # <<>> /\ outEdges[b][1].point # out0
    /\ SwapEdges(b)

DefaultOuts(b) == {p \in {b} \X DOMAIN outEdges[b] : DefaultSwitch \in outEdges[b][p[2]].label}

\* FlowBlock.SetDefaultSwitch, called for the switch block of a jump table: the
\* out-edges of b lose the label, on both halves, before out-edge k gets it.
SetDefaultSwitch(b, k) ==
    /\ "switch_out" \in flags[b]
    /\ k \in DOMAIN outEdges[b]
    /\ EdgeOp(Relabel(graph, [p \in DefaultOuts(b) |-> {DefaultSwitch}],
                             [p \in {<<b, k>>} |-> {DefaultSwitch}]))
    /\ UNCHANGED flags

-----------------------------------------------------------------------------
(***************************************************************************)
(* The operations that remove a block.                                      *)
(***************************************************************************)

Start(by, op, b, to) == task' = [by |-> by, op |-> op, bl |-> b, to |-> to, was |-> graph]
Goto(op) == task' = [task EXCEPT !.op = op]

\* Mutant: ActionDoNothing does not set a block that loops to itself apart.
RemoveDoNothingBlockSelf(b) ==
    /\ task = Idle
    /\ b \in blocks
    /\ Len(outEdges[b]) = 1 /\ inEdges[b] # <<>>
    /\ Start("RemoveDoNothingBlock", "bypassOut", b, outEdges[b][1].point)
    /\ UNCHANGED <<blocks, inEdges, outEdges, flags>>

\* Funcdata.RemoveDoNothingBlock, called by ActionDoNothing on a block with one
\* out-edge that is not an edge to itself.
RemoveDoNothingBlock(b) ==
    /\ task = Idle
    /\ b \in blocks
    /\ Len(outEdges[b]) = 1 /\ inEdges[b] # <<>>
    /\ outEdges[b][1].point # b
    /\ Start("RemoveDoNothingBlock", "bypassOut", b, outEdges[b][1].point)
    /\ UNCHANGED <<blocks, inEdges, outEdges, flags>>

\* BlockGraph.removeFromFlow, outer loop: cut the last out-edge and remember
\* its target.
BypassOut ==
    /\ task.op = "bypassOut"
    /\ LET b == task.bl
           last == Len(outEdges[b])
       IN  IF last > 0
           THEN /\ Becomes(RemoveOutEdge(graph, b, last))
                /\ task' = [task EXCEPT !.op = "bypassIn", !.to = outEdges[b][last].point]
           ELSE Goto("detach") /\ UNCHANGED <<inEdges, outEdges>>
    /\ UNCHANGED <<blocks, flags>>

\* BlockGraph.removeFromFlow, inner loop: the first in-edge is retargeted.
BypassIn ==
    /\ task.op = "bypassIn"
    /\ LET b == task.bl
       IN  IF inEdges[b] # <<>>
           THEN /\ Becomes(ReplaceOutEdge(graph, inEdges[b][1].point,
                                          inEdges[b][1].rev, task.to))
                /\ UNCHANGED task
           ELSE Goto("bypassOut") /\ UNCHANGED <<inEdges, outEdges>>
    /\ UNCHANGED <<blocks, flags>>

\* Funcdata.spliceBlockBasic / BlockGraph.spliceOutput: b absorbs its only
\* successor, whose only predecessor it is.
SpliceBlockBasic(b) ==
    /\ task = Idle
    /\ Len(outEdges[b]) = 1
    /\ LET o == outEdges[b][1].point
       IN  /\ Len(inEdges[o]) = 1
           /\ "entry_point" \notin flags[o] /\ "switch_out" \notin flags[b]
           /\ Becomes(RemoveOutEdge(graph, b, 1))
           /\ flags' = [flags EXCEPT ![b] =
                   (@ \cap {"unstructured_targ", "entry_point"})
                        \cup (flags[o] \cap {"switch_out"})]
           /\ Start("spliceBlockBasic", "move", b, o)
    /\ UNCHANGED blocks

\* Mutant: the last out-edge of the absorbed block moves first.
SpliceMoveLast ==
    /\ task.op = "move"
    /\ LET o == task.to
           n == Len(outEdges[o])
       IN  IF n > 0 /\ o # task.bl
           THEN /\ Becomes(ReplaceInEdge(graph, outEdges[o][n].point,
                                         outEdges[o][n].rev, task.bl))
                /\ UNCHANGED task
           ELSE /\ task' = [task EXCEPT !.op = "detach", !.bl = o, !.to = task.bl]
                /\ UNCHANGED <<inEdges, outEdges>>
    /\ UNCHANGED <<blocks, flags>>

\* BlockGraph.spliceOutput's loop: the first out-edge of the absorbed block
\* moves to the end of the absorbing one's.
SpliceMove ==
    /\ task.op = "move"
    /\ LET o == task.to
       IN  IF outEdges[o] # <<>> /\ o # task.bl
           THEN /\ Becomes(ReplaceInEdge(graph, outEdges[o][1].point,
                                         outEdges[o][1].rev, task.bl))
                /\ UNCHANGED task
           ELSE /\ task' = [task EXCEPT !.op = "detach", !.bl = o, !.to = task.bl]
                /\ UNCHANGED <<inEdges, outEdges>>
    /\ UNCHANGED <<blocks, flags>>

\* Funcdata.removeFromFlowSplit: a block with two ways in and two ways out, whose
\* CBRANCH ConditionalExecution has emptied, is wired through: in-slot 1 to
\* out-slot 2 (swap) or to out-slot 1.
RemoveFromFlowSplit(b, swap) ==
    /\ task = Idle
    /\ "switch_out" \notin flags[b]
    /\ Len(inEdges[b]) = 2 /\ Len(outEdges[b]) = 2
    /\ LET h == ReplaceEdgesThru(graph, b, IF swap THEN 1 ELSE 2, 2)
       IN  Becomes(ReplaceEdgesThru(h, b, 1, 1))
    /\ Start("removeFromFlowSplit", "detach", b, b)
    /\ UNCHANGED <<blocks, flags>>

\* BlockGraph.RemoveBlock, for a block severed with whatever edges it has
RemoveBlock(b) ==
    /\ task = Idle
    /\ b \in blocks
    /\ Start("RemoveBlock", "detach", b, b)
    /\ UNCHANGED <<blocks, inEdges, outEdges, flags>>

\* Mutant: only the out-edges are removed before the block is dropped.
DetachOutOnly ==
    /\ task.op = "detach"
    /\ LET b == task.bl
       IN  IF outEdges[b] # <<>>
           THEN /\ Becomes(RemoveOutEdge(graph, b, Len(outEdges[b])))
                /\ UNCHANGED <<blocks, task>>
           ELSE /\ blocks' = blocks \ {b}
                /\ Goto("reset")
                /\ UNCHANGED <<inEdges, outEdges>>
    /\ UNCHANGED flags

\* BlockGraph.RemoveBlock's loops: out-edges from the last, then in-edges from
\* the last, then the membership.
Detach ==
    /\ task.op = "detach"
    /\ LET b == task.bl
       IN  IF outEdges[b] # <<>>
           THEN /\ Becomes(RemoveOutEdge(graph, b, Len(outEdges[b])))
                /\ UNCHANGED <<blocks, task>>
           ELSE IF inEdges[b] # <<>>
           THEN /\ Becomes(RemoveInEdge(graph, b, Len(inEdges[b])))
                /\ UNCHANGED <<blocks, task>>
           ELSE /\ blocks' = blocks \ {b}
                /\ Goto("reset")
                /\ UNCHANGED <<inEdges, outEdges>>
    /\ UNCHANGED flags

\* Every out-slot of the graph
OutSlots == UNION {{b} \X DOMAIN outEdges[b] : b \in Block}

\* Funcdata.StructureReset, as far as the edges go: every spanning-tree label is
\* cleared on both halves and the new ones are set through SetOutEdgeFlag.
\* Which edges get which label is the subject of module SpanningTree.
StructureReset(lab) ==
    /\ task.op = "reset"
    /\ Becomes(Relabel(graph, [p \in OutSlots |-> SpanLabel], lab))
    /\ task' = Idle
    /\ UNCHANGED <<blocks, flags>>

Next ==
    \/ \E b \in Block :
        \/ \E fl \in SUBSET CreateFlags : NewBlock(b, fl)
        \/ SwapEdges(b)
        \/ RemoveDoNothingBlock(b)
        \/ SpliceBlockBasic(b)
        \/ RemoveBlock(b)
        \/ \E swap \in BOOLEAN : RemoveFromFlowSplit(b, swap)
        \/ \E src \in Block : RemoveEdge(src, b) \/ ForceFalseEdge(b, src)
        \/ \E src \in Block : AddEdge(src, b)
        \/ \E k \in DOMAIN outEdges[b] :
            \/ \E new \in Block : MoveOutEdge(b, k, new) \/ RetargetOutEdge(b, k, new)
            \/ SetDefaultSwitch(b, k)
    \/ BypassOut \/ BypassIn \/ SpliceMove \/ Detach
    \/ \E lab \in [OutSlots -> SUBSET SpanLabel] : StructureReset(lab)

\* The code is sequential: an operation that has begun runs on.
Loops == BypassOut \/ BypassIn \/ SpliceMove \/ Detach
Spec == Init /\ [][Next]_vars /\ WF_vars(Loops)

-----------------------------------------------------------------------------
(***************************************************************************)
(* Properties                                                               *)
(***************************************************************************)

\* Every half-edge names its mirror and the mirror names it back: what every
\* operation relies on when it follows ReverseIndex.
MirrorIn ==
    \A b \in Block : \A k \in 1..Len(inEdges[b]) :
        LET e == inEdges[b][k]
        IN  /\ e.rev \in 1..Len(outEdges[e.point])
            /\ outEdges[e.point][e.rev].point = b
            /\ outEdges[e.point][e.rev].rev = k

MirrorOut ==
    \A b \in Block : \A k \in 1..Len(outEdges[b]) :
        LET e == outEdges[b][k]
        IN  /\ e.rev \in 1..Len(inEdges[e.point])
            /\ inEdges[e.point][e.rev].point = b
            /\ inEdges[e.point][e.rev].rev = k

Mirror == MirrorIn /\ MirrorOut

\* A block outside the graph has no edge, in or out: RemoveBlock leaves no half
\* behind, in its own lists or (with Mirror) in those of another block.
NoDangling == \A b \in Block \ blocks : inEdges[b] = <<>> /\ outEdges[b] = <<>>

\* Both halves of an edge agree on the spanning-tree labels whenever no
\* operation is under way: IsLoopIn reads one half, IsLoopOut the other, and
\* replaceEdgesThru joins halves of different edges.
SpanAgree ==
    task = Idle =>
        \A b \in Block : \A k \in DOMAIN outEdges[b] :
            LET e == outEdges[b][k]
            IN  inEdges[e.point][e.rev].label \cap SpanLabel = e.label \cap SpanLabel

\* Only a switch block has a default edge, and it has one ("a switch has exactly
\* one", SetDefaultSwitch), also after edges were moved between blocks.
OneDefault ==
    task = Idle =>
        \A b \in Block :
            LET D == {k \in DOMAIN outEdges[b] : DefaultSwitch \in outEdges[b][k].label}
            IN  Cardinality(D) <= 1 /\ (D # {} => "switch_out" \in flags[b])

\* The labels are sound: see SpanAgree and OneDefault.
LabelsAgree == SpanAgree /\ OneDefault

\* Removing a do-nothing block drops its slot from the in-slots of its successor,
\* keeps the others in their order and appends the block's own predecessors in
\* theirs: the order in which blockRemoveInternal rewrites the inputs of the
\* successor's MULTIEQUALs.  Out slots (true/false, case order) do not move.
BypassKept ==
    task.op = "bypassIn" /\ task'.op = "bypassOut" =>
        LET was == task.was
            b == task.bl
            succ == was.out[b][1].point
        IN  succ # b =>
            /\ Points(inEdges[succ]) =
                  RemoveAt(Points(was.in[succ]), was.out[b][1].rev) \o Points(was.in[b])
            /\ \A o \in Block \ {b} : Points(outEdges[o]) =
                   [k \in DOMAIN was.out[o] |->
                       IF was.out[o][k].point = b THEN succ ELSE was.out[o][k].point]

\* Splicing hands the absorbed block's out-edges to the absorbing one in their
\* order, and no target sees its in-slots move.
SpliceKept ==
    task.op = "move" /\ task'.op = "detach" /\ task.to # task.bl =>
        LET was == task.was
            b == task.bl
            o == task.to
        IN  /\ Points(outEdges[b]) = Points(was.out[o])
            /\ \A t \in Block \ {o} : Points(inEdges[t]) =
                   [k \in DOMAIN was.in[t] |->
                       IF was.in[t][k].point = o THEN b ELSE was.in[t][k].point]

\* Splitting the flow through a block pairs its in-edges with its out-edges one
\* to one and moves no slot of another block.
SplitWired ==
    \A b \in Block, swap \in BOOLEAN :
        RemoveFromFlowSplit(b, swap) /\ SlotsIn(graph, b, b) = {} =>
            LET pair(i) == IF swap THEN 3 - i ELSE i
            IN  \A o \in Block \ {b} :
                /\ Points(inEdges'[o]) = [k \in DOMAIN inEdges[o] |->
                       IF inEdges[o][k].point = b
                       THEN inEdges[b][pair(inEdges[o][k].rev)].point
                       ELSE inEdges[o][k].point]
                /\ Points(outEdges'[o]) = [k \in DOMAIN outEdges[o] |->
                       IF outEdges[o][k].point = b
                       THEN outEdges[b][pair(outEdges[o][k].rev)].point
                       ELSE outEdges[o][k].point]

\* Rewiring around a block moves no slot the data flow depends on, whichever
\* operation does it.
RewiringKeepsSlots == [][BypassKept /\ SpliceKept /\ SplitWired]_vars

\* Every step of a removal leaves less to do, so the operation ends.
\* removeFromFlow would spin for ever on a block whose only way out is itself,
\* moving its in-edges back onto it; its callers have to rule that out.
RemovalsShrink ==
    [][LET b == task.bl
           fewer(es, c) == Len(es'[c]) < Len(es[c])
       IN  /\ task.op = "bypassOut" => fewer(outEdges, b) \/ task'.op = "detach"
           /\ task.op = "bypassIn" => \/ fewer(inEdges, b) /\ Len(outEdges'[b]) = Len(outEdges[b])
                                      \/ task'.op = "bypassOut"
           /\ task.op = "move" => fewer(outEdges, task.to) \/ task'.op = "detach"
           /\ task.op = "detach" => fewer(outEdges, b) \/ fewer(inEdges, b) \/ task'.op = "reset"]_vars

=============================================================================
