--------------------------- MODULE RulesCompare ---------------------------
(***************************************************************************)
(* The rules of the analysis pool over integer comparisons: comparisons    *)
(* with the extreme constants, with zero, with a moved constant, and the   *)
(* signed comparisons rebuilt from overflow flags (rules_bool.go,          *)
(* rules_bitwise.go, rules_misc.go, rules_ghidra_port.go,                  *)
(* rules_undistribute.go, prefer_complement.go).                           *)
(***************************************************************************)
EXTENDS RulesCore

negateConst(v) == Const(truncateToSize(Wrap(-v[2]), v[3]), v[3])
Lowest(s) == Const(0, s)
Highest(s) == Const(maskForSize(s), s)

\* A comparison with the lowest or the highest unsigned value is always the
\* same or an (in)equality.
extremalCompare(i, code, opc, always) ==
    LET o == g.op[i]
        k == IF IsConstant(o.in[1]) THEN 1 ELSE 2
        low == o.in[k] = Lowest(o.in[k][3])
        keep == IF (k = 1) = low THEN always = 0 ELSE always # 0
    IN /\ o.code = code /\ IsConstant(o.in[k]) /\ (low \/ IsAllOnes(o.in[k]))
       /\ g' = IF keep THEN SetOp(g, i, opc, o.in) ELSE SetOp(g, i, "COPY", <<Const(always, 1)>>)

RuleLess2Zero(i) == extremalCompare(i, "INT_LESS", "INT_NOTEQUAL", 0)
RuleLessEqual2Zero(i) == extremalCompare(i, "INT_LESSEQUAL", "INT_EQUAL", 1)

\* Mutant: V < 1 becomes V <= 0, which RuleIntLessEqual turns back.
LessOneKept(i) ==
    LET o == g.op[i]
    IN /\ o.code = "INT_LESS" /\ IsConst(o.in[2], 1)
       /\ g' = SetOp(g, i, "INT_LESSEQUAL", <<o.in[1], Const(0, SizeOf(g, o.in[1]))>>)
RuleLessOne(i) ==
    LET o == g.op[i]
    IN /\ o.code = "INT_LESS" /\ IsConst(o.in[2], 1)
       /\ g' = SetOp(g, i, "INT_EQUAL", <<o.in[1], Const(0, SizeOf(g, o.in[1]))>>)

\* Whether the constant in slot k can be moved by one without wrapping.
NoWrap(code, k, v) ==
    v[2] # IF code = "INT_SLESSEQUAL" THEN (IF k = 1 THEN signBit(v[3]) ELSE signBit(v[3]) - 1)
           ELSE (IF k = 1 THEN 0 ELSE maskForSize(v[3]))

\* replaceLessequal: c <= V is c - 1 < V, and V <= c is V < c + 1.
RuleIntLessEqual(i) ==
    LET o == g.op[i]
        k == IF IsConstant(o.in[1]) THEN 1 ELSE 2
        v == o.in[k]
        moved == Const(truncateToSize(Wrap(v[2] + (IF k = 1 THEN -1 ELSE 1)), v[3]), v[3])
    IN /\ o.code \in {"INT_LESSEQUAL", "INT_SLESSEQUAL"} /\ IsConstant(v) /\ NoWrap(o.code, k, v)
       /\ g' = SetIn(SetOp(g, i, IF o.code = "INT_LESSEQUAL" THEN "INT_LESS" ELSE "INT_SLESS", o.in), i, k, moved)

RuleCarryElim(i) ==
    LET o == g.op[i]
    IN /\ o.code = "INT_CARRY" /\ IsConstant(o.in[2]) /\ ~IsFree(o.in[1])
       /\ g' = IF o.in[2][2] = 0 THEN SetOp(g, i, "COPY", <<Const(0, 1)>>)
               ELSE SetOp(g, i, "INT_LESSEQUAL", <<negateConst(o.in[2]), o.in[1]>>)

-----------------------------------------------------------------------------
(* Signed comparison with zero *)

\* The operand of a sum that supplies its high bit alone, 0 if there is none.
sless2ZeroHiBit(o) ==
    LET hi == signBit(SizeOf(g, o.in[1]))
        alone(k) == NZMask(g, o.in[k]) = hi
        clean(k) == alone(k) \/ And(NZMask(g, o.in[k]), hi) = 0
    IN IF ~(o.code \in {"INT_ADD", "INT_OR", "INT_XOR"} /\ clean(1) /\ clean(2)) THEN 0
       ELSE IF alone(1) THEN 1
       ELSE IF alone(2) THEN 2
       ELSE 0

\* -1 s< v if c = 1, v s< 0 if c = 2.
SignTest(c, v) == LET s == SizeOf(g, v) IN IF c = 1 THEN <<Highest(s), v>> ELSE <<v, Lowest(s)>>

RuleSLess2Zero(i) ==
    LET o == g.op[i]
        c == IF IsConstant(o.in[1]) THEN 1 ELSE 2
        x == o.in[3 - c]
        feed == g.op[x[2]]
        hb == sless2ZeroHiBit(feed)
        hv == feed.in[hb]
        a == feed.in[1]
        isBool == IsWritten(a) /\ Code(g, a) \in BoolCodes
    IN /\ o.code = "INT_SLESS" /\ IsConstant(o.in[c]) /\ IsWritten(x)
       /\ o.in[c][2] = (IF c = 1 THEN maskForSize(o.in[c][3]) ELSE 0)
       /\ \/ /\ hb # 0
             /\ g' = IF c = 1 THEN SetOp(g, i, "INT_EQUAL", <<Const(0, SizeOf(g, hv)), hv>>)
                     ELSE SetOp(g, i, "INT_NOTEQUAL", <<hv, o.in[2]>>)
          \/ /\ feed.code = "SUBPIECE" /\ ~IsFree(a) /\ SizeOf(g, x) + feed.in[2][2] = SizeOf(g, a)
             /\ g' = SetOp(g, i, o.code, SignTest(c, a))
          \/ /\ feed.code = "INT_NEGATE" /\ ~IsFree(a)
             /\ g' = SetOp(g, i, o.code, SignTest(3 - c, a))
          \/ /\ feed.code = "INT_AND" /\ ~IsFree(a) /\ LoneDescend(g, x) # 0
             /\ IsConstant(feed.in[2]) /\ signbitNegative(feed.in[2][2], SizeOf(g, a))
             /\ g' = SetIn(g, i, 3 - c, a)
          \/ /\ feed.code = "PIECE" /\ ~IsFree(a)
             /\ g' = SetOp(g, i, o.code, SignTest(c, a))
          \/ /\ feed.code = "INT_LEFT" /\ c = 1 /\ IsConst(feed.in[2], o.in[1][3] * ByteBits - 1) /\ isBool
             /\ g' = SetOp(g, i, "BOOL_NEGATE", <<a>>)

-----------------------------------------------------------------------------
(* Equalities *)

Equality == {"INT_EQUAL", "INT_NOTEQUAL"}

\* V + c == 0 is V == -c, and V + W * -1 == 0 is V == W.
RuleEqual2Zero(i) ==
    LET o == g.op[i]
        z == IF IsZero(o.in[1]) THEN 1 ELSE 2
        addvn == o.in[3 - z]
        addop == g.op[addvn[2]]
        n == IF DefinedBy(g, addop.in[1], "INT_MULT") THEN 1 ELSE 2
        mult == g.op[addop.in[n][2]]
    IN /\ o.code \in Equality /\ IsZero(o.in[z])
       /\ ReadOnlyBy(g, addvn, BoolCodes) /\ DefinedBy(g, addvn, "INT_ADD")
       /\ \/ /\ IsConstant(addop.in[2])
             /\ g' = SetOp(g, i, o.code, <<addop.in[1], negateConst(addop.in[2])>>)
          \/ /\ ~IsConstant(addop.in[2]) /\ DefinedBy(g, addop.in[n], "INT_MULT")
             /\ IsConstant(mult.in[2]) /\ mult.in[2][2] = maskForSize(SizeOf(g, mult.in[1]))
             /\ g' = SetOp(g, i, o.code, <<addop.in[3 - n], mult.in[1]>>)

RuleEqual2Constant(i) ==
    LET o == g.op[i]
        lhs == o.in[1]
        cvn == o.in[2]
        leftop == g.op[lhs[2]]
        a == leftop.in[1]
        newconst ==
            CASE leftop.code = "INT_ADD" -> truncateToSize(Wrap(cvn[2] - leftop.in[2][2]), cvn[3])
              [] leftop.code = "INT_MULT" -> truncateToSize(Wrap(-cvn[2]), leftop.in[2][3])
              [] leftop.code = "INT_NEGATE" -> truncateToSize(Flip(cvn[2]), SizeOf(g, lhs))
    IN /\ o.code \in Equality /\ IsConstant(cvn) /\ IsWritten(lhs) /\ ~IsLive(g, lhs)
       /\ leftop.code \in {"INT_ADD", "INT_MULT", "INT_NEGATE"} /\ ~IsFree(a)
       /\ leftop.code # "INT_NEGATE" => IsConstant(leftop.in[2])
       /\ leftop.code = "INT_MULT" => IsAllOnes(leftop.in[2])
       /\ \A r \in Readers(g, lhs) :
             r[1] = i \/ (g.op[r[1]].code \in Equality /\ IsConstant(In(g, r[1], 2)))
       /\ g' = SetOp(g, i, o.code, <<a, Const(newconst, SizeOf(g, a))>>)

RuleXorCollapse(i) ==
    LET o == g.op[i]
        xorop == g.op[o.in[1][2]]
        xorvn == xorop.in[2]
    IN /\ o.code \in Equality /\ IsConstant(o.in[2]) /\ DefinedBy(g, o.in[1], "INT_XOR")
       /\ LoneDescend(g, o.in[1]) # 0 /\ ~IsFree(xorop.in[1])
       /\ \/ /\ ~IsConstant(xorvn) /\ o.in[2][2] = 0
             /\ g' = SetOp(g, i, o.code, <<xorop.in[1], xorvn>>)
          \/ /\ IsConstant(xorvn) /\ xorvn[2] # 0
             /\ g' = SetOp(g, i, o.code, <<xorop.in[1], Const(Xor(o.in[2][2], xorvn[2]), o.in[2][3])>>)

-----------------------------------------------------------------------------
(* Signed comparisons rebuilt from the overflow of their difference *)

\* Equal varnodes or equal constants (functionalEqualityLevel0 = 0).
SameLeaf(v, w) == v = w
functionalEquality(v, w) ==
    LET o == g.op[v[2]]
        p == g.op[w[2]]
        pairs(q) == \A k \in DOMAIN o.in : SameLeaf(o.in[k], p.in[q[k]])
    IN \/ SameLeaf(v, w)
       \/ /\ IsWritten(v) /\ IsWritten(w) /\ SizeOf(g, v) = SizeOf(g, w)
          /\ o.code = p.code /\ Len(o.in) = Len(p.in)
          /\ pairs(<<1, 2>>) \/ (o.code \in Commutative /\ pairs(<<2, 1>>))

\* The leaves of a sum with their coefficients (addExpression.gather).
RECURSIVE gather(_, _, _)
gather(v, coeff, depth) ==
    LET o == g.op[v[2]]
        below == IF IsConstant(o.in[2]) THEN depth ELSE depth - 1
    IN IF DefinedBy(g, v, "INT_ADD") /\ below >= 0
       THEN gather(o.in[1], coeff, below) \o gather(o.in[2], coeff, below)
       ELSE IF DefinedBy(g, v, "INT_MULT") /\ IsConstant(o.in[2])
       THEN gather(o.in[1], truncateToSize(Wrap(coeff * o.in[2][2]), SizeOf(g, v)), depth)
       ELSE <<<<v, coeff>>>>

\* An addExpression: the sum of the constants and the first two terms.
addExpression(leaves) ==
    LET terms == SelectSeq(leaves, LAMBDA l : ~IsConstant(l[1]))
    IN [constval |-> FoldLeft(LAMBDA acc, l : IF IsConstant(l[1])
                                              THEN truncateToSize(Wrap(acc + l[2] * l[1][2]), l[1][3]) ELSE acc,
                              0, leaves),
        terms |-> SubSeq(terms, 1, IF Len(terms) < 2 THEN Len(terms) ELSE 2)]

isEquivalent(e, f) ==
    LET same(m, n) == e.terms[m][2] = f.terms[n][2] /\ functionalEquality(e.terms[m][1], f.terms[n][1])
    IN /\ e.constval = f.constval /\ Len(e.terms) = Len(f.terms)
       /\ \/ Len(e.terms) = 1 /\ same(1, 1)
          \/ Len(e.terms) = 2 /\ ((same(1, 1) /\ same(2, 2)) \/ (same(1, 2) /\ same(2, 1)))

\* Compare a with b in the reader of overflow flag i that (un)equals the sign
\* of the sum given by the leaves, 0 s< sum or sum s< 0.
RebuildCompare(i, leaves, a, b) ==
    \E r \in Readers(g, Out(i)) :
       LET comp == g.op[r[1]]
           cvn == IF comp.in[1] = Out(i) THEN comp.in[2] ELSE comp.in[1]
           sign == g.op[cvn[2]]
           z == IF IsZero(sign.in[1]) THEN 1 ELSE 2
           xvn == sign.in[3 - z]
           slots(first) == IF first = 1 THEN <<a, b>> ELSE <<b, a>>
       IN /\ comp.code \in Equality /\ DefinedBy(g, cvn, "INT_SLESS")
          /\ IsZero(sign.in[z]) /\ IsWritten(xvn)
          /\ isEquivalent(addExpression(leaves), addExpression(gather(xvn, 1, 1)))
          /\ g' = IF comp.code = "INT_NOTEQUAL" THEN SetOp(g, r[1], "INT_SLESS", slots(3 - z))
                  ELSE SetOp(g, r[1], "INT_SLESSEQUAL", slots(z))

\* The coefficient of the subtrahend.
MinusOne(b) == maskForSize(SizeOf(g, b))

RuleSborrow(i) ==
    LET o == g.op[i]
        a == o.in[1]
        b == o.in[2]
        depth == Bool(IsConstant(a) \/ IsConstant(b))
    IN /\ o.code = "INT_SBORROW"
       /\ \/ IsZero(b) /\ g' = SetOp(g, i, "COPY", <<Const(0, 1)>>)
          \/ ~IsZero(b) /\ RebuildCompare(i, gather(a, 1, depth) \o gather(b, MinusOne(b), depth), a, b)

RuleScarry(i) ==
    LET o == g.op[i]
        c == IF IsConstant(o.in[2]) THEN 2 ELSE 1
        b == o.in[c]
        a == o.in[3 - c]
    IN /\ o.code = "INT_SCARRY"
       /\ \/ (IsZero(o.in[1]) \/ IsZero(o.in[2])) /\ g' = SetOp(g, i, "COPY", <<Const(0, 1)>>)
          \/ /\ ~IsZero(o.in[1]) /\ ~IsZero(o.in[2]) /\ IsConstant(b) /\ (c = 1 => b[2] # signBit(b[3]))
             /\ RebuildCompare(i, gather(a, 1, 1) \o gather(b, 1, 1), a, negateConst(b))

-----------------------------------------------------------------------------
CompareRules(i) ==
    \/ RuleLess2Zero(i) \/ RuleLessEqual2Zero(i) \/ RuleLessOne(i) \/ RuleIntLessEqual(i) \/ RuleCarryElim(i)
    \/ RuleSLess2Zero(i) \/ RuleEqual2Zero(i) \/ RuleEqual2Constant(i) \/ RuleXorCollapse(i)
    \/ RuleSborrow(i) \/ RuleScarry(i)
=============================================================================
