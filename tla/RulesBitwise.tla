--------------------------- MODULE RulesBitwise ---------------------------
(***************************************************************************)
(* The rules over INT_AND, INT_OR, INT_XOR and INT_NEGATE of the analysis  *)
(* pool (rules_bitwise.go, rules_copy.go, rules_misc.go,                   *)
(* rules_ghidra_port.go), one action for each rule.  RuleHumptyOr factors  *)
(* what RuleAndDistribute distributes, so whether the pool comes to rest   *)
(* depends on their guards.                                                *)
(***************************************************************************)
EXTENDS RulesCore

RuleOrMask(i) ==
    LET o == g.op[i]
    IN /\ o.code = "INT_OR"
       /\ \E k \in {1, 2} : /\ IsAllOnes(o.in[k]) /\ (k = 2 => ~IsAllOnes(o.in[1]))
                            /\ g' = SetOp(g, i, "COPY", <<o.in[k]>>)

AndMasks(o) == And(NZMask(g, o.in[1]), NZMask(g, o.in[2]))
AndIsZero(o) == AndMasks(o) = 0 \/ And(AndMasks(o), o.cons) = 0
AndIsCover(o) == AndMasks(o) = NZMask(g, o.in[1]) /\ IsConstant(o.in[2])

RuleAndMask(i) ==
    LET o == g.op[i]
    IN /\ o.code = "INT_AND"
       /\ \/ AndIsZero(o) /\ g' = SetOp(g, i, "COPY", <<Const(0, o.size)>>)
          \/ ~AndIsZero(o) /\ AndIsCover(o) /\ g' = SetOp(g, i, "COPY", <<o.in[1]>>)

RuleOrConsume(i) ==
    LET o == g.op[i]
        unused(k) == And(o.cons, NZMask(g, o.in[k])) = 0
    IN /\ o.code \in {"INT_OR", "INT_XOR"}
       /\ \/ unused(1) /\ g' = SetOp(g, i, "COPY", <<o.in[2]>>)
          \/ ~unused(1) /\ unused(2) /\ g' = SetOp(g, i, "COPY", <<o.in[1]>>)

RuleOrCollapse(i) ==
    LET o == g.op[i]
    IN /\ o.code = "INT_OR" /\ IsConstant(o.in[2])
       /\ Or(NZMask(g, o.in[1]), o.in[2][2]) = o.in[2][2]
       /\ g' = SetOp(g, i, "COPY", <<o.in[2]>>)

LumpedConst(code, c, d) ==
    CASE code = "INT_AND" -> And(c, d) [] code = "INT_OR" -> Or(c, d) [] code = "INT_XOR" -> Xor(c, d)

RuleAndOrLump(i) ==
    LET o == g.op[i]
        op2 == g.op[o.in[1][2]]
        base == op2.in[1]
    IN /\ o.code \in {"INT_AND", "INT_OR", "INT_XOR"} /\ IsConstant(o.in[2])
       /\ DefinedBy(g, o.in[1], o.code) /\ IsConstant(op2.in[2]) /\ ~IsFree(base)
       /\ g' = SetOp(g, i, o.code, <<base, Const(LumpedConst(o.code, o.in[2][2], op2.in[2][2]), SizeOf(g, base))>>)

\* Op i is the INT_NEGATE, the op rewritten one of its readers.
RuleNegateIdentity(i) ==
    LET v == In(g, i, 1)
        s == SizeOf(g, v)
    IN /\ g.op[i].code = "INT_NEGATE"
       /\ \E r \in Readers(g, Out(i)) :
             /\ g.op[r[1]].code \in {"INT_AND", "INT_OR", "INT_XOR"} /\ In(g, r[1], 3 - r[2]) = v
             /\ g' = SetOp(g, r[1], "COPY",
                           <<Const(IF g.op[r[1]].code = "INT_AND" THEN 0 ELSE maskForSize(s), s)>>)

\* An alignment mask 1..10..0 over an addition.
RuleHighOrderAnd(i) ==
    LET o == g.op[i]
        val == o.in[2][2]
        size == o.in[2][3]
        add == o.in[1][2]
        addop == g.op[add]
        aligned(v) == And(NZMask(g, v), val) = NZMask(g, v)
        inner(k) == addop.in[3 - k]
        fits(k) == /\ aligned(addop.in[k]) /\ DefinedBy(g, inner(k), "INT_ADD")
                   /\ LoneDescend(g, inner(k)) = add
                   /\ IsConstant(In(g, inner(k)[2], 2)) /\ aligned(In(g, inner(k)[2], 1))
    IN /\ o.code = "INT_AND" /\ IsConstant(o.in[2]) /\ DefinedBy(g, o.in[1], "INT_ADD")
       /\ Or(Wrap(val - 1), val) = maskForSize(size)
       /\ \/ /\ IsConstant(addop.in[2]) /\ ~IsFree(addop.in[1]) /\ aligned(addop.in[1])
             /\ g' = SetOp(g, i, "INT_ADD", <<addop.in[1], Const(And(val, addop.in[2][2]), size)>>)
          \/ /\ ~IsConstant(addop.in[2]) /\ LoneDescend(g, o.in[1]) = i
             /\ \E k \in {1, 2} :
                   /\ fits(k) /\ (k = 2 => ~fits(1))
                   /\ LET j == inner(k)[2]
                          h == SetIn(g, j, 2, Const(And(val, In(g, j, 2)[2]), size))
                      IN g' = SetOp(h, i, "COPY", <<o.in[1]>>)

\* Whether AND distributes over the OR in slot k, and to which gain.
Distributes(i, k) ==
    LET o == g.op[i]
        other == o.in[3 - k]
        omask == NZMask(g, other)
        orop == g.op[o.in[k][2]]
        half(n) == NZMask(g, orop.in[n])
    IN /\ DefinedBy(g, o.in[k], "INT_OR") /\ omask # 0 /\ omask # maskForSize(o.size)
       /\ \E n \in {1, 2} :
             And(half(n), omask) = 0 \/ (IsConstant(other) /\ And(half(n), omask) = half(n))

RuleAndDistribute(i) ==
    LET o == g.op[i]
    IN /\ o.code = "INT_AND"
       /\ \E k \in {1, 2} :
             /\ Distributes(i, k) /\ (k = 2 => ~Distributes(i, 1))
             /\ LET orop == g.op[o.in[k][2]]
                    h1 == NewOpBefore(g, i, "INT_AND", o.size, <<orop.in[1], o.in[3 - k]>>)
                    h2 == NewOpBefore(h1, i, "INT_AND", o.size, <<orop.in[2], o.in[3 - k]>>)
                IN g' = SetOp(h2, i, "INT_OR", <<Out(NewId(g)), Out(NewId(h1))>>)

\* The guards that keep RuleAndDistribute from undoing RuleHumptyOr.
HumptyGuard(a, b, c) ==
    \A v \in {b, c} :
       /\ And(NZMask(g, v), NZMask(g, a)) # 0
       /\ IsConstant(a) => And(NZMask(g, v), NZMask(g, a)) # NZMask(g, v)

RuleHumptyOr(i) ==
    LET o == g.op[i]
        x == g.op[o.in[1][2]]
        y == g.op[o.in[2][2]]
        \* The slots of the operand shared by the two ANDs, in the code's order:
        \* one varnode, which no constant is, since OpSetInput copies a constant
        \* that is already read.
        match(p) == x.in[p[1]] = y.in[p[2]] /\ ~IsConstant(x.in[p[1]])
        order == <<<<1, 1>>, <<1, 2>>, <<2, 1>>, <<2, 2>>>>
    IN /\ o.code = "INT_OR" /\ DefinedBy(g, o.in[1], "INT_AND") /\ DefinedBy(g, o.in[2], "INT_AND")
       /\ \E n \in 1..4 :
             /\ match(order[n]) /\ \A m \in 1..n - 1 : ~match(order[m])
             /\ LET a == x.in[order[n][1]]
                    b == x.in[3 - order[n][1]]
                    c == y.in[3 - order[n][2]]
                    total == Or(b[2], c[2])
                    s == SizeOf(g, a)
                    h == NewOpBefore(g, i, "INT_OR", s, <<b, c>>)
                IN \/ /\ IsConstant(b) /\ IsConstant(c) /\ total = maskForSize(s)
                      /\ g' = SetOp(g, i, "COPY", <<a>>)
                   \/ /\ IsConstant(b) /\ IsConstant(c) /\ total # maskForSize(s)
                      /\ g' = SetOp(g, i, "INT_AND", <<a, Const(total, s)>>)
                   \/ /\ ~(IsConstant(b) /\ IsConstant(c)) /\ HumptyGuard(a, b, c)
                      /\ g' = SetOp(h, i, "INT_AND", <<a, Out(NewId(g))>>)

-----------------------------------------------------------------------------
BitRules(i) ==
    \/ RuleOrMask(i) \/ RuleAndMask(i) \/ RuleOrConsume(i) \/ RuleOrCollapse(i) \/ RuleAndOrLump(i)
    \/ RuleNegateIdentity(i) \/ RuleHighOrderAnd(i) \/ RuleAndDistribute(i) \/ RuleHumptyOr(i)
=============================================================================
