---------------------------- MODULE MCFlowBlock ----------------------------
EXTENDS FlowBlock, TLC

Symmetry == Permutations(Block)

\* Only graphs without labels reach MaxEdges edges; with a spanning-tree label
\* they have one less, and next to a switch two blocks and two edges.
Switches == \E b \in Block : "switch_out" \in flags[b]
Labelled == \E p \in OutSlots : outEdges[p[1]][p[2]].label # {}
Smaller ==
    /\ Switches => Cardinality(blocks) <= 2 /\ EdgeCount <= 2
    /\ Labelled => EdgeCount < MaxEdges
=============================================================================
