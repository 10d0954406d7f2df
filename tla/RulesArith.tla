---------------------------- MODULE RulesArith ----------------------------
(***************************************************************************)
(* The arithmetic rules of rules_arith.go, one action for each rule; an    *)
(* action is enabled where the rule's apply returns 1.  Any op of the      *)
(* block may be visited next: the order of ActionPool is the subject of    *)
(* RulePool.  The analysis pool and the cleanup pool hold different rules  *)
(* and never run together.                                                 *)
(***************************************************************************)
EXTENDS RulesCore

\* PcodeOp.IsCseMatch
IsCseMatch(h, v, w) ==
    /\ IsWritten(v) /\ IsWritten(w)
    /\ LET a == h.op[v[2]]
           b == h.op[w[2]]
       IN /\ a.size = b.size /\ a.code = b.code /\ a.code # "COPY"
          /\ \A k \in DOMAIN a.in :
                a.in[k] = b.in[k] \/ (IsConstant(a.in[k]) /\ IsConst(b.in[k], a.in[k][2]))

RuleTrivialArith(i) ==
    LET o == g.op[i]
        same == {"INT_EQUAL", "INT_SLESSEQUAL", "INT_LESSEQUAL"}
        differ == {"INT_NOTEQUAL", "INT_SLESS", "INT_LESS", "BOOL_XOR", "INT_XOR"}
        idem == {"INT_AND", "INT_OR", "BOOL_AND", "BOOL_OR"}
    IN /\ o.code \in same \cup differ \cup idem
       /\ o.in[1] = o.in[2] \/ IsCseMatch(g, o.in[1], o.in[2])
       /\ g' = SetOp(g, i, "COPY", << IF o.code \in idem THEN o.in[1]
                                      ELSE Const(Bool(o.code \in same), o.size) >>)

RuleSub2Add(i) ==
    LET o == g.op[i]
        s == SizeOf(g, o.in[2])
    IN /\ o.code = "INT_SUB"
       /\ g' = SetOp(NewOpBefore(g, i, "INT_MULT", s, <<o.in[2], Const(maskForSize(s), s)>>),
                     i, "INT_ADD", <<o.in[1], Out(NewId(g))>>)

Rule2Comp2Mult(i) ==
    LET o == g.op[i]
        s == SizeOf(g, o.in[1])
    IN /\ o.code = "INT_2COMP"
       /\ g' = SetOp(g, i, "INT_MULT", <<o.in[1], Const(maskForSize(s), s)>>)

evaluateBinaryConst(code, a, b, s) ==
    IF code = "INT_MULT" THEN truncateToSize(Wrap(a * b), s) ELSE truncateToSize(Wrap(a + b), s)

\* The shift count at which RuleShift2Mult gives up: half the word, 32 of 64.
ShiftCutoff == WordBits \div 2

RuleShift2Mult(i) ==
    LET o == g.op[i]
        arith == {"INT_ADD", "INT_SUB", "INT_MULT"}
    IN /\ o.code = "INT_LEFT" /\ IsConstant(o.in[2])
       /\ LET shift == truncateToSize(o.in[2][2], o.in[2][3]) IN
          /\ shift < ShiftCutoff
          /\ Code(g, o.in[1]) \in arith \/ \E r \in Readers(g, Out(i)) : g.op[r[1]].code \in arith
          /\ g' = SetOp(g, i, "INT_MULT", <<o.in[1], Const(Shl(1, shift), o.size)>>)

\* (sub2 op c1) op c0, both constants folded one level down.
AddMultMain(i) ==
    LET o == g.op[i]
        sub == g.op[o.in[1][2]]
        c0 == o.in[2]
    IN /\ IsConstant(sub.in[2]) /\ ~IsFree(sub.in[1])
       /\ g' = SetOp(g, i, o.code,
                     <<sub.in[1], Const(evaluateBinaryConst(o.code, c0[2], sub.in[2][2], c0[3]), c0[3])>>)

\* ((base + c1) + other) + c0 with a spacebase input below.
AddMultBase(i) ==
    LET o == g.op[i]
        sub == g.op[o.in[1][2]]
        c0 == o.in[2]
        fits(k) == LET other == sub.in[k]
                       sub2 == sub.in[3 - k]
                   IN /\ ~IsFree(other) /\ DefinedBy(g, sub2, "INT_ADD")
                      /\ IsConstant(In(g, sub2[2], 2))
                      /\ IsSpacebase(g, In(g, sub2[2], 1))
    IN /\ o.code = "INT_ADD" /\ ~IsConstant(sub.in[2])
       /\ \E k \in {1, 2} :
             /\ fits(k) /\ (k = 2 => ~fits(1))
             /\ LET base == g.op[sub.in[3 - k][2]]
                    val == evaluateBinaryConst(o.code, c0[2], base.in[2][2], c0[3])
                IN g' = SetOp(NewOpBefore(g, i, "INT_ADD", c0[3], <<base.in[1], Const(val, c0[3])>>),
                              i, "INT_ADD", <<Out(NewId(g)), sub.in[k]>>)

RuleAddMultCollapse(i) ==
    LET o == g.op[i]
    IN /\ o.code \in {"INT_ADD", "INT_MULT"} /\ IsConstant(o.in[2]) /\ DefinedBy(g, o.in[1], o.code)
       /\ AddMultMain(i) \/ AddMultBase(i)

RuleNegateNegate(i) ==
    LET o == g.op[i]
        v == o.in[1]
    IN /\ o.code = "INT_NEGATE"
       /\ \/ DefinedBy(g, v, "INT_NEGATE") /\ g' = SetOp(g, i, "COPY", <<In(g, v[2], 1)>>)
          \/ IsConstant(v) /\ g' = SetOp(g, i, "COPY", <<Const(truncateToSize(Flip(v[2]), o.size), o.size)>>)

RuleIdentityEl(i) ==
    LET o == g.op[i]
        val == truncateToSize(o.in[2][2], o.in[2][3])
    IN /\ o.code \in {"INT_ADD", "INT_XOR", "INT_OR", "BOOL_XOR", "BOOL_OR", "INT_MULT"}
       /\ IsConstant(o.in[2])
       /\ \/ o.code # "INT_MULT" /\ val = 0 /\ g' = SetOp(g, i, "COPY", <<o.in[1]>>)
          \/ o.code = "INT_MULT" /\ val = 1 /\ g' = SetOp(g, i, "COPY", <<o.in[1]>>)
          \/ o.code = "INT_MULT" /\ val = 0 /\ g' = SetOp(g, i, "COPY", <<o.in[2]>>)

-----------------------------------------------------------------------------
(* Cleanup pool *)

RuleMultNegOne(i) ==
    LET o == g.op[i]
    IN /\ o.code = "INT_MULT"
       /\ \/ IsAllOnes(o.in[1]) /\ g' = SetOp(g, i, "INT_2COMP", <<o.in[2]>>)
          \/ ~IsAllOnes(o.in[1]) /\ IsAllOnes(o.in[2]) /\ g' = SetOp(g, i, "INT_2COMP", <<o.in[1]>>)

\* The type gate (a TYPE_UINT constant that is not printed as a character and
\* is no named value) may hold or not: the action may be taken or not.
RuleAddUnsigned(i) ==
    LET o == g.op[i]
        c == o.in[2]
        sa == (c[3] * ByteBits * 3) \div 4
        quarter == Shl(Shr(maskForSize(c[3]), sa), sa)
    IN /\ o.code = "INT_ADD" /\ IsConstant(c)
       /\ And(c[2], quarter) = quarter
       /\ g' = SetOp(g, i, "INT_SUB", <<o.in[1], Const(truncateToSize(Wrap(Flip(c[2]) + 1), c[3]), c[3])>>)

Rule2Comp2Sub(i) ==
    LET lone == LoneDescend(g, Out(i))
    IN /\ g.op[i].code = "INT_2COMP" /\ lone # 0 /\ g.op[lone].code = "INT_ADD"
       /\ g' = OpDestroy(SetOp(g, lone, "INT_SUB",
                               <<CHOOSE v \in ToSet(g.op[lone].in) : v # Out(i), In(g, i, 1)>>), i)

RuleSubRight(i) ==
    LET o == g.op[i]
        a == o.in[1]
        c == o.in[2][2]
        bits == SizeOf(g, a) * ByteBits
        lone == LoneDescend(g, Out(i))
        lumps == /\ lone # 0 /\ g.op[lone].code \in {"INT_RIGHT", "INT_SRIGHT"}
                 /\ IsConstant(In(g, lone, 2)) /\ o.size + c = SizeOf(g, a)
        d == c * ByteBits + truncateToSize(In(g, lone, 2)[2], In(g, lone, 2)[3])
    IN /\ o.code = "SUBPIECE" /\ c # 0
       /\ \/ /\ ~lumps
             /\ g' = SetOp(NewOpBefore(g, i, "INT_RIGHT", SizeOf(g, a), <<a, Const(c * ByteBits, 1)>>),
                           i, "SUBPIECE", <<Out(NewId(g)), Const(0, 1)>>)
          \/ /\ lumps
             /\ ~(d >= bits /\ g.op[lone].code = "INT_RIGHT")
             /\ LET h == OpDestroy(g, i)
                    dd == IF d >= bits THEN bits - 1 ELSE d
                IN g' = SetOp(NewOpBefore(h, lone, g.op[lone].code, SizeOf(g, a), <<a, Const(dd, 1)>>),
                              lone, "SUBPIECE", <<Out(NewId(g)), Const(0, 1)>>)

-----------------------------------------------------------------------------
ArithRules(i) ==
    \/ RuleTrivialArith(i) \/ RuleSub2Add(i) \/ Rule2Comp2Mult(i) \/ RuleShift2Mult(i)
    \/ RuleAddMultCollapse(i) \/ RuleNegateNegate(i) \/ RuleIdentityEl(i)

CleanupRules(i) == RuleMultNegOne(i) \/ RuleAddUnsigned(i) \/ Rule2Comp2Sub(i) \/ RuleSubRight(i)
=============================================================================
