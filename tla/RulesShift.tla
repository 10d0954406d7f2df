---------------------------- MODULE RulesShift ----------------------------
(***************************************************************************)
(* The rules over INT_LEFT, INT_RIGHT, INT_SRIGHT and multiplications by   *)
(* powers of two (rules_bitwise.go, rules_misc.go, rules_ghidra_port.go),  *)
(* one action for each rule, beside the bitwise rules they feed: shifts    *)
(* become masks and masks move through shifts.                             *)
(***************************************************************************)
EXTENDS RulesBitwise

IsPow2(n) == n # 0 /\ n = Pow2[leastSigBitSet(n)]
\* Op o shifts by a constant; a multiplication by a power of two shifts left.
ShiftsByConst(o) == IsConstant(o.in[2]) /\ (o.code = "INT_MULT" => IsPow2(o.in[2][2]))
Amount(o) == IF o.code = "INT_MULT" THEN leastSigBitSet(o.in[2][2]) ELSE o.in[2][2]
Direction(o) == IF o.code = "INT_MULT" THEN "INT_LEFT" ELSE o.code
Moved(dir, m, sa) == IF dir = "INT_LEFT" THEN Shl(m, sa) ELSE Shr(m, sa)

RuleTrivialShift(i) ==
    LET o == g.op[i]
        sa == o.in[2][2]
        s == SizeOf(g, o.in[1])
    IN /\ o.code \in Shift /\ IsConstant(o.in[2])
       /\ \/ sa = 0 /\ g' = SetOp(g, i, "COPY", <<o.in[1]>>)
          \/ sa >= s * ByteBits /\ o.code # "INT_SRIGHT" /\ g' = SetOp(g, i, "COPY", <<Const(0, s)>>)

\* The least significant bit of any multiplier bounds how far it shifts.
RuleShiftBitops(i) ==
    LET o == g.op[i]
        v == o.in[1]
        bitop == g.op[v[2]]
        left == o.code \in {"INT_LEFT", "INT_MULT"}
        sa == CASE o.code = "SUBPIECE" -> o.in[2][2] * ByteBits
                [] o.code = "INT_MULT" -> leastSigBitSet(o.in[2][2])
                [] OTHER -> o.in[2][2]
        gone(k) == And(Moved(IF left THEN "INT_LEFT" ELSE "INT_RIGHT", NZMask(g, bitop.in[k]), sa), maskForSize(o.size)) = 0
    IN /\ o.code \in {"INT_LEFT", "INT_RIGHT", "SUBPIECE", "INT_MULT"} /\ IsConstant(o.in[2]) /\ sa # -1
       /\ Code(g, v) \in {"INT_AND", "INT_OR", "INT_XOR"} \cup (IF left THEN {"INT_MULT", "INT_ADD"} ELSE {})
       /\ \E k \in {1, 2} :
             /\ gone(k) /\ (k = 2 => ~gone(1))
             /\ g' = SetIn(g, i, 1, IF bitop.code \in {"INT_MULT", "INT_AND"} THEN Const(0, SizeOf(g, v))
                                    ELSE bitop.in[3 - k])

RuleRightShiftAnd(i) ==
    LET o == g.op[i]
        andop == g.op[o.in[1][2]]
        root == andop.in[1]
        sa == o.in[2][2]
    IN /\ o.code \in {"INT_RIGHT", "INT_SRIGHT"} /\ IsConstant(o.in[2])
       /\ DefinedBy(g, o.in[1], "INT_AND") /\ IsConstant(andop.in[2]) /\ ~IsFree(root)
       /\ Shr(andop.in[2][2], sa) = Shr(maskForSize(SizeOf(g, root)), sa)
       /\ g' = SetIn(g, i, 1, root)

\* Whether the mask in the other slot moves through the shift in slot k, m
\* being the mask as it is before the shift.
Separates(orvn, other, m) ==
    LET orop == g.op[orvn[2]]
        low == NZMask(g, orop.in[2])
        high == Shl(NZMask(g, orop.in[1]), SizeOf(g, orop.in[2]) * ByteBits)
        half(n) == NZMask(g, orop.in[n])
    IN \/ /\ DefinedBy(g, orvn, "INT_OR")
          /\ \E n \in {1, 2} : And(half(n), m) = 0 \/ (IsConstant(other) /\ And(half(n), m) = half(n))
       \/ DefinedBy(g, orvn, "PIECE") /\ (And(low, m) = 0 \/ And(high, m) = 0)

Commutes(i, k) ==
    LET o == g.op[i]
        v == o.in[k]
        sh == g.op[v[2]]
        sa == sh.in[2][2]
        other == o.in[3 - k]
        left == Code(g, v) = "INT_LEFT"
        full == maskForSize(o.size)
        before == IF left THEN Shr(NZMask(g, other), sa) ELSE Shl(NZMask(g, other), sa)
    IN /\ Code(g, v) \in {"INT_LEFT", "INT_RIGHT"} /\ IsConstant(sh.in[2])
       /\ IF left THEN ~(Shl(full, sa) # 0 /\ NZMask(g, other) = 1) ELSE Shr(full, sa) # NZMask(g, other)
       /\ before \notin {0, full}
       /\ (left /\ IsConstant(other) /\ LoneDescend(g, v) = i) \/ Separates(sh.in[1], other, before)

RuleAndCommute(i) ==
    LET o == g.op[i]
    IN /\ o.code = "INT_AND"
       /\ \E k \in {1, 2} :
             /\ Commutes(i, k) /\ (k = 2 => ~Commutes(i, 1))
             /\ LET sh == g.op[o.in[k][2]]
                    back == IF sh.code = "INT_LEFT" THEN "INT_RIGHT" ELSE "INT_LEFT"
                    h1 == NewOpBefore(g, i, back, o.size, <<o.in[3 - k], sh.in[2]>>)
                    h2 == NewOpBefore(h1, i, "INT_AND", o.size, <<sh.in[1], Out(NewId(g))>>)
                IN g' = SetOp(h2, i, sh.code, <<Out(NewId(h1)), sh.in[2]>>)

\* Mutant: a shift back to the left leaves the low bits alone.
CancelsToCopy(i) ==
    LET o == g.op[i]
        sec == g.op[o.in[1][2]]
    IN /\ o.code \in {"INT_LEFT", "INT_RIGHT"} /\ Code(g, o.in[1]) \in {"INT_LEFT", "INT_RIGHT"}
       /\ o.code # sec.code /\ o.in[2] = sec.in[2] /\ IsConstant(o.in[2])
       /\ g' = SetOp(g, i, "COPY", <<sec.in[1]>>)
\* Two shifts in a row: the same way they add up, the other way they cancel
\* into a mask.
RuleDoubleShift(i) ==
    LET o == g.op[i]
        codes == {"INT_LEFT", "INT_RIGHT", "INT_MULT"}
        sec == g.op[o.in[1][2]]
        size == SizeOf(g, o.in[1])
        full == maskForSize(size)
        sa1 == Amount(o)
        sa2 == Amount(sec)
        kept == IF Direction(o) = "INT_LEFT" THEN And(Shl(full, sa2), full) ELSE Shr(full, sa2)
        h == NewOpBefore(g, i, "INT_AND", size, <<sec.in[1], Const(kept, size)>>)
    IN /\ o.code \in codes /\ Code(g, o.in[1]) \in codes /\ ShiftsByConst(o) /\ ShiftsByConst(sec)
       /\ \/ /\ Direction(o) = Direction(sec) /\ sa1 + sa2 < size * ByteBits
             /\ g' = SetOp(g, i, Direction(o), <<sec.in[1], Const(sa1 + sa2, 4)>>)
          \/ /\ Direction(o) = Direction(sec) /\ sa1 + sa2 >= size * ByteBits
             /\ g' = SetOp(g, i, "COPY", <<Const(0, size)>>)
          \/ /\ Direction(o) # Direction(sec) /\ sa1 = sa2
             /\ Direction(o) = "INT_LEFT" => LoneDescend(g, o.in[1]) # 0
             /\ g' = SetOp(g, i, "INT_AND", <<sec.in[1], Const(kept, size)>>)
          \/ /\ Direction(o) = "INT_RIGHT" /\ Direction(sec) = "INT_LEFT" /\ sa1 < sa2
             /\ g' = SetOp(h, i, "INT_LEFT", <<Out(NewId(g)), Const(sa2 - sa1, 4)>>)
          \/ /\ Direction(o) = "INT_RIGHT" /\ Direction(sec) = "INT_LEFT" /\ sa1 > sa2
             /\ g' = SetOp(h, i, "INT_RIGHT", <<Out(NewId(g)), Const(sa1 - sa2, 4)>>)

RuleDoubleArithShift(i) ==
    LET o == g.op[i]
        sec == g.op[o.in[1][2]]
        most == o.size * ByteBits - 1
        sum == sec.in[2][2] + o.in[2][2]
    IN /\ o.code = "INT_SRIGHT" /\ IsConstant(o.in[2]) /\ DefinedBy(g, o.in[1], "INT_SRIGHT")
       /\ IsConstant(sec.in[2]) /\ ~IsFree(sec.in[1]) /\ sum > 0
       /\ g' = SetOp(g, i, "INT_SRIGHT", <<sec.in[1], Const(IF sum > most THEN most ELSE sum, 4)>>)

RuleConcatShift(i) ==
    LET o == g.op[i]
        concat == g.op[o.in[1][2]]
        main == concat.in[1]
        low == SizeOf(g, concat.in[2]) * ByteBits
        rest == o.in[2][2] - low
        ext == IF o.code = "INT_RIGHT" THEN "INT_ZEXT" ELSE "INT_SEXT"
        h == NewOpBefore(g, i, ext, SizeOf(g, o.in[1]), <<main>>)
    IN /\ o.code \in {"INT_RIGHT", "INT_SRIGHT"} /\ IsConstant(o.in[2]) /\ DefinedBy(g, o.in[1], "PIECE")
       /\ ~IsFree(main)
       /\ \/ rest = 0 /\ g' = SetOp(g, i, ext, <<main>>)
          \/ rest > 0 /\ g' = SetOp(h, i, o.code, <<Out(NewId(g)), Const(rest, SizeOf(g, o.in[2]))>>)

RuleLeftRight(i) ==
    LET o == g.op[i]
        left == o.in[1][2]
        sa == o.in[2][2]
        size == SizeOf(g, o.in[1]) - sa \div ByteBits
        cut == SetOp(NewOutput(g, left, size), left, "SUBPIECE", <<In(g, left, 1), Const(0, SizeOf(g, In(g, left, 2)))>>)
    IN /\ o.code \in {"INT_RIGHT", "INT_SRIGHT"} /\ IsConstant(o.in[2]) /\ DefinedBy(g, o.in[1], "INT_LEFT")
       /\ IsConst(In(g, left, 2), sa) /\ sa % ByteBits = 0 /\ size \in {1, 2, 4, 8}
       /\ LoneDescend(g, o.in[1]) = i
       /\ g' = SetOp(cut, i, IF o.code = "INT_SRIGHT" THEN "INT_SEXT" ELSE "INT_ZEXT", <<o.in[1]>>)

\* The constant of an (in)equality moves through the shift it is compared to.
RuleShiftCompare(i) ==
    LET o == g.op[i]
        v == o.in[1]
        j == v[2]
        sh == g.op[j]
        left == sh.code \in {"INT_LEFT", "INT_MULT"}
        sa == IF sh.code \in {"INT_MULT", "INT_DIV"} THEN leastSigBitSet(sh.in[2][2]) ELSE sh.in[2][2]
        main == sh.in[1]
        nz == NZMask(g, main)
        full == maskForSize(SizeOf(g, v))
        c == o.in[2][2]
        s == o.in[2][3]
        alone == LoneDescend(g, v) = i
        lossless == Shr(And(Shl(nz, sa), full), sa) = nz
        h == NewOpBefore(g, j, "INT_AND", s, <<main, Const(Pow2[SizeOf(g, v) * ByteBits - sa] - 1, s)>>)
    IN /\ o.code \in {"INT_EQUAL", "INT_NOTEQUAL"} /\ IsConstant(o.in[2])
       /\ Code(g, v) \in {"INT_LEFT", "INT_RIGHT", "INT_MULT", "INT_DIV"} /\ IsConstant(sh.in[2])
       /\ sh.code \in {"INT_MULT", "INT_DIV"} => IsPow2(sh.in[2][2])
       /\ sa # 0 /\ ~IsFree(main) /\ (~left => alone)
       /\ \/ /\ left /\ Shl(Shr(c, sa), sa) = c /\ lossless
             /\ g' = SetOp(g, i, o.code, <<main, Const(Shr(c, sa), s)>>)
          \/ /\ left /\ Shl(Shr(c, sa), sa) = c /\ ~lossless /\ alone
             /\ g' = SetOp(h, i, o.code, <<Out(NewId(g)), Const(Shr(c, sa), s)>>)
          \/ /\ ~left /\ Shl(Shr(nz, sa), sa) = nz /\ Shr(And(Shl(c, sa), full), sa) = c
             /\ g' = SetOp(g, i, o.code, <<main, Const(And(Shl(c, sa), full), s)>>)

\* The shift extracts the sign bit.
TakesSign(o) == IsConst(o.in[2], SizeOf(g, o.in[1]) * ByteBits - 1) /\ ~IsFree(o.in[1])

RuleSignShift(i) ==
    LET o == g.op[i]
        s == SizeOf(g, o.in[1])
        h == NewOpBefore(g, i, "INT_SRIGHT", s, o.in)
        wanted(r) == \/ g.op[r[1]].code \in {"INT_EQUAL", "INT_NOTEQUAL"} /\ IsConstant(In(g, r[1], 2))
                     \/ g.op[r[1]].code \in {"INT_ADD", "INT_MULT"}
    IN /\ o.code = "INT_RIGHT" /\ TakesSign(o) /\ \E r \in Readers(g, Out(i)) : wanted(r)
       /\ g' = SetOp(h, i, "INT_MULT", <<Out(NewId(g)), Const(maskForSize(s), s)>>)

\* Every comparison of the extracted sign with 0 or -1 is rewritten at once.
RuleTestSign(i) ==
    LET o == g.op[i]
        v == o.in[1]
        s == SizeOf(g, v)
        tests == {r[1] : r \in {q \in Readers(g, Out(i)) :
                    /\ g.op[q[1]].code \in {"INT_EQUAL", "INT_NOTEQUAL"}
                    /\ IsConst(In(g, q[1], 2), 0) \/ IsAllOnes(In(g, q[1], 2))}}
        positive(j) == IsZero(In(g, j, 2)) = (g.op[j].code = "INT_EQUAL")
        changed(j) == IF positive(j) THEN [code |-> "INT_SLESSEQUAL", in |-> <<Const(0, s), v>>]
                      ELSE [code |-> "INT_SLESS", in |-> <<v, Const(0, s)>>]
    IN /\ o.code = "INT_SRIGHT" /\ TakesSign(o) /\ tests # {}
       /\ g' = [g EXCEPT !.op = [j \in DOMAIN g.op |->
                  IF j \in tests THEN [g.op[j] EXCEPT !.code = changed(j).code, !.in = changed(j).in] ELSE g.op[j]]]

RuleShiftAnd(i) ==
    LET o == g.op[i]
        andop == g.op[o.in[1][2]]
        root == andop.in[1]
        sa == Amount(o)
        moved(m) == And(Moved(Direction(o), m, sa), IF o.code = "INT_RIGHT" THEN Ones ELSE maskForSize(SizeOf(g, root)))
        nz == moved(NZMask(g, root))
    IN /\ o.code \in {"INT_RIGHT", "INT_LEFT", "INT_MULT"} /\ ShiftsByConst(o) /\ (o.code = "INT_MULT" => sa > 0)
       /\ DefinedBy(g, o.in[1], "INT_AND") /\ IsConstant(andop.in[2]) /\ ~IsFree(root)
       /\ And(moved(andop.in[2][2]), nz) = nz
       /\ g' = SetIn(g, i, 1, root)

-----------------------------------------------------------------------------
ShiftRules(i) ==
    \/ RuleTrivialShift(i) \/ RuleShiftBitops(i) \/ RuleRightShiftAnd(i) \/ RuleAndCommute(i)
    \/ RuleDoubleShift(i) \/ RuleDoubleArithShift(i) \/ RuleConcatShift(i) \/ RuleLeftRight(i)
    \/ RuleShiftCompare(i) \/ RuleSignShift(i) \/ RuleTestSign(i) \/ RuleShiftAnd(i)
=============================================================================
