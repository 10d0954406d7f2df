---------------------------- MODULE MCTranslate ----------------------------
(***************************************************************************)
(* Code tables for model checking TranslateSpec, with a pool of 3 contexts *)
(* and a hash table of 4 entries, so that addresses compete for both.      *)
(***************************************************************************)
EXTENDS TranslateSpec

O == [k |-> "op"]
Rel(l) == [k |-> "rel", id |-> l]
Label(l) == [k |-> "label", id |-> l]
Build(ct) == [k |-> "build", ct |-> ct]
Delay == [k |-> "delay"]
Unimpl == [k |-> "unimpl"]

Ct(labels, ops) == [labels |-> labels, ops |-> ops]

Insn(len, delay, ct) == [len |-> len, delay |-> delay, handles |-> TRUE, ct |-> ct]
NoHandles(len, ct) == [Insn(len, 0, ct) EXCEPT !.handles = FALSE]

One == Ct(0, <<O>>)
Skip == Ct(1, <<Rel(0), O, Label(0)>>)
Loop == Ct(1, <<Label(0), O, Rel(0)>>)

\* Operands with a label 0 of their own inside an operand with one, under a
\* root so short that the pool reserved for it is too small: it grows twice,
\* behind branches that wait for their labels.
Nested == Ct(0, <<Build(Ct(1, <<Rel(0), Build(Skip), Build(Loop), Label(0)>>))>>)
Deep == Ct(2, <<Rel(1), Build(Ct(1, <<Build(Skip), Label(0), Rel(0)>>)), Label(1), Rel(1)>>)

\* No delay slots: more addresses than contexts, an address nothing can be
\* decoded at behind the last, operands that do not resolve, a refused
\* template and a branch to a label no template sets.
Straight ==
    {0 :> Insn(1, 0, Nested) @@ 1 :> Insn(2, 0, One) @@ 3 :> Insn(1, 0, Deep)
        @@ 4 :> x @@ 5 :> Insn(1, 0, Skip) :
     x \in {NoHandles(1, One), Insn(1, 0, Ct(1, <<O, Rel(0)>>)),
            Insn(1, 0, Ct(0, <<O, Unimpl>>))}}

\* Delay slots of one and of two instructions, the slots inside a template
\* with labels, in no more addresses than the pool has contexts. The delay slot
\* of the first table has more bytes than are asked for; behind it an
\* instruction uses a delay slot of no bytes. The last table ends with an
\* instruction without length.
Delayed ==
    {0 :> Insn(1, 1, Ct(1, <<Rel(0), Delay, O, Label(0)>>))
        @@ 1 :> Insn(2, 0, Skip) @@ 3 :> Insn(1, 0, Ct(0, <<Delay, O>>)),
     0 :> Insn(1, 2, Ct(1, <<Delay, Rel(0), Label(0)>>))
        @@ 1 :> Insn(1, 0, Loop) @@ 2 :> NoHandles(1, One),
     0 :> Insn(1, 2, Ct(1, <<Rel(0), Build(Ct(1, <<Delay, Rel(0), Label(0)>>)), O, Label(0)>>))
        @@ 1 :> Insn(1, 0, Loop) @@ 2 :> Insn(1, 0, Skip),
     0 :> Insn(1, 2, Ct(0, <<Delay, O>>)) @@ 1 :> Insn(1, 0, One) @@ 2 :> Insn(0, 0, One)}

MCPrograms == Straight \cup Delayed

\* One delay slot in more addresses than the pool of the code, which holds 8
\* contexts; this table is checked with the pool and the window of the code.
MCDelayedFar ==
    {[a \in 0 .. 8 |->
        CASE a = 1 -> Insn(1, 1, Ct(0, <<Delay, O>>))
          [] a = 2 -> Insn(1, 0, Ct(0, <<O, O>>))
          [] OTHER -> Insn(1, 0, One)]}
=============================================================================
