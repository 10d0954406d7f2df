----------------------------- MODULE MCSSAGraph -----------------------------
EXTENDS SSAGraph, TLC

CONSTANTS o1, o2, v1, v2, c1, c2

\* Interchangeable varnodes and ops
Symmetry == Permutations(Op \ CallOp) \cup Permutations(Varnode \ (Constant \cup AutoLive \cup LockedInput))
            \cup Permutations(Constant \ SpaceBase)

=============================================================================
