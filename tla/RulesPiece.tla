---------------------------- MODULE RulesPiece ----------------------------
(***************************************************************************)
(* The rules over values of several widths: extensions, truncations        *)
(* (SUBPIECE) and concatenations (PIECE) (rules_ext.go, rules_copy.go,     *)
(* rules_bitwise.go, rules_misc.go, rules_ghidra_port.go,                  *)
(* rules_undistribute.go), one action for each rule, beside the shift and  *)
(* bitwise rules.  The outputs that double-precision analysis marks are    *)
(* not modelled: RuleSubCommute and RuleSubNormal leave those alone.       *)
(***************************************************************************)
EXTENDS RulesShift

Bits(s) == s * ByteBits
Ext == {"INT_ZEXT", "INT_SEXT"}

-----------------------------------------------------------------------------
(* Extensions *)

RulePiece2Zext(i) ==
    LET o == g.op[i]
    IN o.code = "PIECE" /\ IsZero(o.in[1]) /\ g' = SetOp(g, i, "INT_ZEXT", <<o.in[2]>>)

RulePiece2Sext(i) ==
    LET o == g.op[i]
        sh == g.op[o.in[1][2]]
    IN /\ o.code = "PIECE" /\ DefinedBy(g, o.in[1], "INT_SRIGHT") /\ sh.in[1] = o.in[2]
       /\ IsConst(sh.in[2], Bits(SizeOf(g, o.in[2])) - 1)
       /\ g' = SetOp(g, i, "INT_SEXT", <<o.in[2]>>)

\* The slot of a comparison that holds a zero extension, the second first.
ZextSlot(o) == IF DefinedBy(g, o.in[2], "INT_ZEXT") THEN 2 ELSE IF DefinedBy(g, o.in[1], "INT_ZEXT") THEN 1 ELSE 0
\* Op o with the extension in slot k and the constant c beside it narrowed.
Narrowed(o, k, v, c) == [n \in {1, 2} |-> IF n = k THEN v ELSE Const(c, SizeOf(g, v))]

RuleZextEliminate(i) ==
    LET o == g.op[i]
        k == ZextSlot(o)
        v == In(g, o.in[k][2], 1)
        c == o.in[3 - k][2]
    IN /\ o.code \in {"INT_EQUAL", "INT_NOTEQUAL", "INT_LESS", "INT_LESSEQUAL"} /\ k # 0
       /\ IsConstant(o.in[3 - k]) /\ LoneDescend(g, o.in[k]) = i /\ Shr(c, Bits(SizeOf(g, v))) = 0
       /\ g' = SetOp(g, i, o.code, Narrowed(o, k, v, c))

Unsigned(code) == IF code = "INT_SLESS" THEN "INT_LESS" ELSE "INT_LESSEQUAL"

RuleSlessToLess(i) ==
    LET o == g.op[i]
    IN /\ o.code \in {"INT_SLESS", "INT_SLESSEQUAL"}
       /\ \A k \in {1, 2} : ~signbitNegative(NZMask(g, o.in[k]), SizeOf(g, o.in[1]))
       /\ g' = SetOp(g, i, Unsigned(o.code), o.in)

RuleZextSless(i) ==
    LET o == g.op[i]
        k == ZextSlot(o)
        v == In(g, o.in[k][2], 1)
        c == o.in[3 - k][2]
    IN /\ o.code \in {"INT_SLESS", "INT_SLESSEQUAL"} /\ k # 0
       /\ IsConstant(o.in[3 - k]) /\ Shr(c, Bits(SizeOf(g, v)) - 1) = 0
       /\ g' = SetOp(g, i, Unsigned(o.code), Narrowed(o, k, v, c))

RuleConcatZext(i) ==
    LET o == g.op[i]
        hi == In(g, o.in[1][2], 1)
        lo == o.in[2]
        h == NewOpBefore(g, i, "PIECE", SizeOf(g, hi) + SizeOf(g, lo), <<hi, lo>>)
    IN /\ o.code = "PIECE" /\ DefinedBy(g, o.in[1], "INT_ZEXT") /\ ~IsFree(hi) /\ ~IsFree(lo)
       /\ g' = SetOp(h, i, "INT_ZEXT", <<Out(NewId(g))>>)

RuleZextCommute(i) ==
    LET o == g.op[i]
        v == In(g, o.in[1][2], 1)
        h == NewOpBefore(g, i, "INT_RIGHT", SizeOf(g, v), <<v, o.in[2]>>)
    IN /\ o.code = "INT_RIGHT" /\ DefinedBy(g, o.in[1], "INT_ZEXT") /\ ~IsFree(v)
       /\ g' = SetOp(h, i, "INT_ZEXT", <<Out(NewId(g))>>)

RuleZextShiftZext(i) ==
    LET o == g.op[i]
        v == o.in[1]
        sh == g.op[v[2]]
        root == In(g, sh.in[1][2], 1)
        h == NewOpBefore(g, i, "INT_ZEXT", o.size, <<root>>)
    IN /\ o.code = "INT_ZEXT"
       /\ \/ /\ DefinedBy(g, v, "INT_ZEXT") /\ ~IsFree(sh.in[1]) /\ LoneDescend(g, v) = i
             /\ g' = SetIn(g, i, 1, sh.in[1])
          \/ /\ DefinedBy(g, v, "INT_LEFT") /\ IsConstant(sh.in[2]) /\ DefinedBy(g, sh.in[1], "INT_ZEXT")
             /\ ~IsFree(root) /\ sh.in[2][2] <= Bits(SizeOf(g, sh.in[1]) - SizeOf(g, root))
             /\ g' = SetOp(h, i, "INT_LEFT", <<Out(NewId(g)), Const(sh.in[2][2], 4)>>)

\* A truncation extended back to its old width is a mask.
RuleSubZext(i) ==
    LET o == g.op[i]
        j == o.in[1][2]                  \* the truncation, or the shift above it
        m == g.op[j].in[1][2]            \* the truncation below the shift
        base == g.op[j].in[1]
        off == g.op[j].in[2]
        deep == g.op[m].in[1]
        masked(h, v, c) == SetOp(h, i, "INT_AND", <<v, Const(c, o.size)>>)
        shift(h, v, n) == SetOp(NewOutput(h, j, o.size), j, "INT_RIGHT", <<v, Const(n, SizeOf(g, off))>>)
    IN /\ o.code = "INT_ZEXT"
       /\ \/ /\ DefinedBy(g, o.in[1], "SUBPIECE") /\ ~IsFree(base) /\ SizeOf(g, base) = o.size /\ IsZero(off)
             /\ g' = masked(g, base, maskForSize(SizeOf(g, o.in[1])))
          \/ /\ DefinedBy(g, o.in[1], "SUBPIECE") /\ ~IsFree(base) /\ SizeOf(g, base) = o.size /\ ~IsZero(off)
             /\ LoneDescend(g, o.in[1]) = i
             /\ g' = masked(shift(g, base, Bits(off[2])), o.in[1], maskForSize(SizeOf(g, o.in[1])))
          \/ /\ DefinedBy(g, o.in[1], "INT_RIGHT") /\ IsConstant(off) /\ DefinedBy(g, base, "SUBPIECE")
             /\ ~IsFree(deep) /\ SizeOf(g, deep) = o.size
             /\ LoneDescend(g, base) = j /\ LoneDescend(g, o.in[1]) = i
             /\ g' = masked(shift(g, deep, off[2] + Bits(g.op[m].in[2][2])), o.in[1],
                            Shr(maskForSize(SizeOf(g, base)), off[2]))

\* A zero-extended boolean times -1, and the op that reads the product.
RuleBoolZext(i) ==
    LET o == g.op[i]
        b1 == o.in[1]
        m == LoneDescend(g, Out(i))
        a == LoneDescend(g, Out(m))
        act == g.op[a]
        size == g.op[m].size
        c == act.in[2][2]
        minusOne(v) == DefinedBy(g, v, "INT_MULT") /\ IsAllOnes(In(g, v[2], 2))
        negated == NewOpBefore(g, i, "BOOL_NEGATE", 1, <<b1>>)
        v2 == IF act.in[1] = Out(m) THEN act.in[2] ELSE act.in[1]
        z2 == In(g, v2[2], 1)
        b2 == In(g, z2[2], 1)
        joined == CASE act.code = "INT_AND" -> "BOOL_AND" [] act.code = "INT_OR" -> "BOOL_OR" [] OTHER -> "BOOL_XOR"
        h1 == NewOpBefore(g, a, joined, 1, <<b1, b2>>)
        h2 == NewOpBefore(h1, a, "INT_ZEXT", size, <<Out(NewId(g))>>)
    IN /\ o.code = "INT_ZEXT" /\ IsBoolLike(g, b1)
       /\ m # 0 /\ minusOne(Out(m)) /\ a # 0
       /\ \/ /\ act.code = "INT_ADD" /\ IsConst(act.in[2], 1)
             /\ g' = SetOp(SetIn(negated, i, 1, Out(NewId(g))), a, "COPY", <<Out(i)>>)
          \/ /\ act.code \in {"INT_EQUAL", "INT_NOTEQUAL"} /\ IsConstant(act.in[2]) /\ c \in {0, maskForSize(size)}
             /\ g' = SetOp(g, a, act.code, <<b1, Const(Bool(c # 0), 1)>>)
          \/ /\ act.code \in {"INT_AND", "INT_OR", "INT_XOR"} /\ minusOne(v2) /\ DefinedBy(g, z2, "INT_ZEXT")
             /\ IsBoolLike(g, b2)
             /\ g' = SetOp(h2, a, "INT_MULT", <<Out(NewId(h1)), Const(maskForSize(size), size)>>)

-----------------------------------------------------------------------------
(* Truncations *)

RuleDoubleSub(i) ==
    LET o == g.op[i]
        inner == g.op[o.in[1][2]]
    IN /\ o.code = "SUBPIECE" /\ DefinedBy(g, o.in[1], "SUBPIECE")
       /\ g' = SetOp(g, i, "SUBPIECE", <<inner.in[1], Const(o.in[2][2] + inner.in[2][2], 4)>>)

RuleSubExtComm(i) ==
    LET o == g.op[i]
        ext == g.op[o.in[1][2]]
        v == ext.in[1]
        s == SizeOf(g, v)
        cut == o.in[2][2]
        h == NewOpBefore(g, i, "SUBPIECE", s - cut, <<v, Const(cut, SizeOf(g, o.in[2]))>>)
    IN /\ o.code = "SUBPIECE" /\ Code(g, o.in[1]) \in Ext /\ ~IsFree(v)
       /\ \/ o.size + cut <= s /\ s # o.size /\ g' = SetIn(g, i, 1, v)
          \/ o.size + cut <= s /\ s = o.size /\ g' = SetOp(g, i, "COPY", <<v>>)
          \/ o.size + cut > s /\ cut = 0 /\ g' = SetOp(g, i, ext.code, <<v>>)
          \/ o.size + cut > s /\ cut \in 1..s - 1 /\ g' = SetOp(h, i, ext.code, <<Out(NewId(g))>>)

RuleSubCancel(i) ==
    LET o == g.op[i]
        ext == g.op[o.in[1][2]]
        v == ext.in[1]
        far == SizeOf(g, v)
        off == o.in[2][2]
    IN /\ o.code = "SUBPIECE"
       /\ \/ /\ DefinedBy(g, o.in[1], "INT_AND") /\ off = 0 /\ IsConst(ext.in[2], maskForSize(o.size)) /\ ~IsFree(v)
             /\ g' = SetIn(g, i, 1, v)
          \/ /\ Code(g, o.in[1]) \in Ext /\ off = 0 /\ ~IsFree(v)
             /\ g' = CASE o.size = far -> SetOp(g, i, "COPY", <<v>>)
                       [] o.size < far -> SetIn(g, i, 1, v)
                       [] OTHER -> SetOp(g, i, ext.code, <<v>>)
          \/ /\ DefinedBy(g, o.in[1], "INT_ZEXT") /\ off # 0 /\ far <= off
             /\ g' = SetOp(g, i, "COPY", <<Const(0, o.size)>>)

\* sub(v >> n, c): whole bytes of the shift move into the truncation.
RuleSubNormal(i) ==
    LET o == g.op[i]
        sh == g.op[o.in[1][2]]
        v == sh.in[1]
        n == sh.in[2][2]
        c == o.in[2][2]
        s == SizeOf(g, v)
        bytes == n \div ByteBits
        past == bytes + c + o.size > s
        rest == s - c - bytes
        extends == past /\ n = Bits(bytes) /\ rest > 0 /\ onesCount(rest) = 1
        k == IF past THEN s - c - o.size ELSE bytes
        n2 == n - Bits(k)
        cut(size, at) == NewOpBefore(g, i, "SUBPIECE", size, <<v, Const(at, 4)>>)
        most == IF sh.code = "INT_SRIGHT" THEN Bits(o.size) - 1 ELSE Bits(o.size)
    IN /\ o.code = "SUBPIECE" /\ Code(g, o.in[1]) \in {"INT_RIGHT", "INT_SRIGHT"}
       /\ IsConstant(sh.in[2]) /\ ~IsFree(v)
       /\ ~(n + Bits(c) + Bits(o.size) < Bits(s) /\ n # Bits(bytes))
       /\ \/ /\ extends
             /\ g' = SetOp(cut(rest, c + bytes), i, IF sh.code = "INT_SRIGHT" THEN "INT_SEXT" ELSE "INT_ZEXT",
                           <<Out(NewId(g))>>)
          \/ ~extends /\ n2 = 0 /\ g' = SetOp(g, i, "SUBPIECE", <<v, Const(c + k, 4)>>)
          \/ /\ ~extends /\ n2 # 0
             /\ g' = SetOp(cut(o.size, c + k), i, sh.code,
                           <<Out(NewId(g)), Const(IF n2 >= Bits(o.size) THEN most ELSE n2, 4)>>)

Division == {"INT_REM", "INT_DIV", "INT_SREM", "INT_SDIV"}
ExtOf(code) == IF code \in {"INT_SREM", "INT_SDIV"} THEN "INT_SEXT" ELSE "INT_ZEXT"
\* Operand v of a division is an extension of the kind it needs.
Extended(o, v) == DefinedBy(g, v, ExtOf(o.code))
ExtIn(v) == In(g, v[2], 1)

\* The truncation o commutes with the op that computes its input.
SubCommutes(o) ==
    LET long == g.op[o.in[1][2]]
        off == o.in[2][2]
        x == long.in[1]
        y == long.in[2]
        small == And(y[2], maskForSize(o.size))
        back == IF ExtOf(long.code) = "INT_SEXT" THEN signExtendSize(small, o.size, SizeOf(g, o.in[1])) ELSE small
    IN CASE long.code = "INT_LEFT" -> off = 0 /\ Code(g, x) \in {"INT_ZEXT", "PIECE"}
         [] long.code \in Division ->
              /\ off = 0 /\ Extended(long, x) /\ SizeOf(g, ExtIn(x)) <= o.size
              /\ \/ IsWritten(y) /\ Extended(long, y) /\ SizeOf(g, ExtIn(y)) <= o.size
                 \/ IsConstant(y) /\ y[2] = back
         [] long.code = "INT_ADD" -> off = 0 /\ ~IsSpacebase(g, x)
         [] long.code = "INT_MULT" -> off = 0
         [] OTHER -> long.code \in {"INT_NEGATE", "INT_XOR", "INT_AND", "INT_OR"}

\* The SUBPIECE disappears and its output moves to the op it truncated; here
\* op i takes the code and the place of that op.
SubCommuted(i) ==
    LET o == g.op[i]
        j == o.in[1][2]
        long == g.op[j]
        cut(h, v) == NewOpBefore(h, j, "SUBPIECE", o.size, <<v, Const(o.in[2][2], 4)>>)
        h1 == cut(g, long.in[1])
        h2 == cut(h1, long.in[2])
        one == Len(long.in) = 1 \/ long.code = "INT_LEFT" \/ (long.in[1] = long.in[2] /\ ~IsConstant(long.in[1]))
        ins == [n \in DOMAIN long.in |->
                  IF n = 1 THEN Out(NewId(g))
                  ELSE IF long.code = "INT_LEFT" THEN long.in[2]
                  ELSE IF one THEN Out(NewId(g)) ELSE Out(NewId(h1))]
        h == SetOp(IF one THEN h1 ELSE h2, i, long.code, ins)
        moved == [h EXCEPT !.order = LET rest == SelectSeq(@, LAMBDA n : n # i)
                                     IN [n \in DOMAIN rest |-> IF rest[n] = j THEN i ELSE rest[n]]]
    IN OpDestroy(moved, j)

\* The extensions below a division cancel partly: the division moves to the
\* wider of the two operands.
CancelExtensions(i) ==
    LET o == g.op[i]
        j == o.in[1][2]
        long == g.op[j]
        v(k) == ExtIn(long.in[k])
        s(k) == SizeOf(g, v(k))
        wide == IF s(1) < s(2) THEN 2 ELSE 1
        narrow == long.in[3 - wide]
        divided(h, ins) == SetOp(NewOutput(h, j, s(wide)), j, long.code, ins)
    IN /\ LoneDescend(g, o.in[1]) = i /\ ~IsFree(v(wide))
       /\ \/ s(1) = s(2) /\ ~IsFree(v(3 - wide)) /\ g' = divided(g, <<v(1), v(2)>>)
          \/ /\ s(1) # s(2) /\ LoneDescend(g, narrow) = j
             /\ g' = divided(NewOutput(g, narrow[2], s(wide)),
                             [n \in {1, 2} |-> IF n = wide THEN v(wide) ELSE narrow])

RuleSubCommute(i) ==
    LET o == g.op[i]
        v == o.in[1]
        long == g.op[v[2]]
        next == LoneDescend(g, Out(i))
        partial == /\ long.code \in Division /\ o.in[2][2] = 0
                   /\ \A k \in {1, 2} : Extended(long, long.in[k])
                   /\ \E k \in {1, 2} : SizeOf(g, ExtIn(long.in[k])) > o.size
    IN /\ o.code = "SUBPIECE" /\ IsWritten(v)
       /\ \/ partial /\ CancelExtensions(i)
          \/ /\ ~partial /\ SubCommutes(o) /\ LoneDescend(g, v) = i
             /\ ~(o.in[2][2] = 0 /\ next # 0 /\ g.op[next].code = "INT_ZEXT" /\ g.op[next].size = SizeOf(g, v))
             /\ g' = SubCommuted(i)

-----------------------------------------------------------------------------
(* Concatenations and masks *)

RuleConcatZero(i) ==
    LET o == g.op[i]
        h == NewOpBefore(g, i, "INT_ZEXT", o.size, <<o.in[1]>>)
    IN /\ o.code = "PIECE" /\ IsZero(o.in[2])
       /\ g' = SetOp(h, i, "INT_LEFT", <<Out(NewId(g)), Const(Bits(SizeOf(g, o.in[2])), 4)>>)

RuleHumptyDumpty(i) ==
    LET o == g.op[i]
        x == g.op[o.in[1][2]]
        y == g.op[o.in[2][2]]
        root == x.in[1]
    IN /\ o.code = "PIECE" /\ DefinedBy(g, o.in[1], "SUBPIECE") /\ DefinedBy(g, o.in[2], "SUBPIECE")
       /\ root = y.in[1] /\ ~IsConstant(root) /\ x.in[2][2] = y.in[2][2] + y.size
       /\ g' = IF y.in[2][2] = 0 /\ x.size + y.size = SizeOf(g, root) THEN SetOp(g, i, "COPY", <<root>>)
               ELSE SetOp(g, i, "SUBPIECE", <<root, Const(y.in[2][2], SizeOf(g, y.in[2]))>>)

RuleDumptyHump(i) ==
    LET o == g.op[i]
        piece == g.op[o.in[1][2]]
        lows == SizeOf(g, piece.in[2])
        low == o.in[2][2] < lows
        v == IF low THEN piece.in[2] ELSE piece.in[1]
        off == IF low THEN o.in[2][2] ELSE o.in[2][2] - lows
    IN /\ o.code = "SUBPIECE" /\ DefinedBy(g, o.in[1], "PIECE") /\ (low => off + o.size <= lows)
       /\ g' = IF off = 0 /\ o.size = SizeOf(g, v) THEN SetOp(g, i, "COPY", <<v>>)
               ELSE SetOp(g, i, "SUBPIECE", <<v, Const(off, 4)>>)

\* The mask beside the PIECE in slot k clears its high or its low half.
ClearsHigh(o, k) ==
    LET p == g.op[o.in[k][2]]
    IN And(NZMask(g, p.in[1]), Shr(NZMask(g, o.in[3 - k]), Bits(SizeOf(g, p.in[2])))) = 0
AndPieceApplies(o, k) ==
    LET p == g.op[o.in[k][2]]
        other == NZMask(g, o.in[3 - k])
    IN /\ DefinedBy(g, o.in[k], "PIECE") /\ other \notin {0, maskForSize(o.size)}
       /\ IF ClearsHigh(o, k) THEN ~IsZero(p.in[1])
          ELSE And(NZMask(g, p.in[2]), other) = 0 /\ ~IsConstant(p.in[2])

RuleAndPiece(i) ==
    LET o == g.op[i]
    IN /\ o.code = "INT_AND"
       /\ \E k \in {1, 2} :
             /\ AndPieceApplies(o, k) /\ (k = 2 => ~AndPieceApplies(o, 1))
             /\ LET p == g.op[o.in[k][2]]
                    h == IF ClearsHigh(o, k) THEN NewOpBefore(g, i, "INT_ZEXT", o.size, <<p.in[2]>>)
                         ELSE NewOpBefore(g, i, "PIECE", o.size, <<p.in[1], Const(0, SizeOf(g, p.in[2]))>>)
                IN g' = SetIn(h, i, k, Out(NewId(g)))

RuleAndZext(i) ==
    LET o == g.op[i]
        d == g.op[o.in[1][2]]
        root == IF d.code = "PIECE" THEN d.in[2] ELSE d.in[1]
    IN /\ o.code = "INT_AND" /\ Code(g, o.in[1]) \in {"INT_SEXT", "PIECE"}
       /\ ~IsFree(root) /\ IsConst(o.in[2], maskForSize(SizeOf(g, root)))
       /\ g' = SetOp(g, i, "INT_ZEXT", <<root>>)

\* A test of masked bits moves to the value before it was cut or extended.
RuleAndCompare(i) ==
    LET o == g.op[i]
        j == o.in[1][2]
        andop == g.op[j]
        sub == g.op[andop.in[1][2]]
        base == sub.in[1]
        c == andop.in[2][2]
        wide == IF sub.code = "SUBPIECE" THEN Shl(c, Bits(sub.in[2][2])) ELSE And(c, maskForSize(SizeOf(g, base)))
        s == SizeOf(g, base)
        h == NewOpBefore(g, j, "INT_AND", s, <<base, Const(wide, s)>>)
    IN /\ o.code \in {"INT_EQUAL", "INT_NOTEQUAL"} /\ IsZero(o.in[2]) /\ DefinedBy(g, o.in[1], "INT_AND")
       /\ IsConstant(andop.in[2]) /\ Code(g, andop.in[1]) \in {"SUBPIECE", "INT_ZEXT"}
       /\ c # maskForSize(SizeOf(g, o.in[1])) /\ ~IsFree(base)
       /\ g' = SetOp(h, i, o.code, <<Out(NewId(g)), Const(0, s)>>)

\* A constant mask on one half moves behind the concatenation.
LogicHalf(o, k) ==
    LET l == g.op[o.in[k][2]]
    IN /\ Code(g, o.in[k]) \in {"INT_OR", "INT_XOR", "INT_AND"} /\ IsConstant(l.in[2])
       /\ ~IsFree(l.in[1]) /\ ~IsFree(o.in[3 - k])
RuleConcatCommute(i) ==
    LET o == g.op[i]
    IN /\ o.code = "PIECE"
       /\ \E k \in {1, 2} :
             /\ LogicHalf(o, k) /\ (k = 2 => ~LogicHalf(o, 1))
             /\ LET l == g.op[o.in[k][2]]
                    ins == [n \in {1, 2} |-> IF n = k THEN l.in[1] ELSE o.in[n]]
                    low == SizeOf(g, ins[2])
                    half == IF k = 1 THEN Shl(l.in[2][2], Bits(low)) ELSE l.in[2][2]
                    other == IF k = 1 THEN maskForSize(low) ELSE Shl(maskForSize(SizeOf(g, ins[1])), Bits(low))
                    c == IF l.code = "INT_AND" THEN Or(half, other) ELSE half
                    h == NewOpBefore(g, i, "PIECE", o.size, ins)
                IN g' = SetOp(h, i, l.code, <<Out(NewId(g)), Const(c, o.size)>>)

\* zext(v) & zext(w), or two values shifted by the same amount.
RuleBitUndistribute(i) ==
    LET o == g.op[i]
        x == g.op[o.in[1][2]]
        y == g.op[o.in[2][2]]
        v == x.in[1]
        w == y.in[1]
        h == NewOpBefore(g, i, o.code, SizeOf(g, v), <<v, w>>)
    IN /\ o.code \in {"INT_AND", "INT_OR", "INT_XOR"} /\ IsWritten(o.in[1]) /\ IsWritten(o.in[2])
       /\ x.code = y.code /\ x.code \in Ext \cup Shift /\ ~IsFree(v) /\ ~IsFree(w)
       /\ \/ x.code \in Ext /\ SizeOf(g, v) = SizeOf(g, w) /\ g' = SetOp(h, i, x.code, <<Out(NewId(g))>>)
          \/ /\ x.code \in Shift /\ x.in[2][1] = y.in[2][1] /\ x.in[2][2] = y.in[2][2]
             /\ g' = SetOp(h, i, x.code, <<Out(NewId(g)), x.in[2]>>)

-----------------------------------------------------------------------------
ExtRules(i) ==
    \/ RulePiece2Zext(i) \/ RulePiece2Sext(i) \/ RuleZextEliminate(i) \/ RuleSlessToLess(i) \/ RuleZextSless(i)
    \/ RuleConcatZext(i) \/ RuleZextCommute(i) \/ RuleZextShiftZext(i) \/ RuleSubZext(i) \/ RuleBoolZext(i)
PieceRules(i) ==
    \/ RuleDoubleSub(i) \/ RuleSubExtComm(i) \/ RuleSubCancel(i) \/ RuleSubNormal(i) \/ RuleSubCommute(i)
    \/ RuleConcatZero(i) \/ RuleHumptyDumpty(i) \/ RuleDumptyHump(i) \/ RuleAndPiece(i) \/ RuleAndZext(i)
    \/ RuleAndCompare(i) \/ RuleConcatCommute(i) \/ RuleBitUndistribute(i)
=============================================================================
