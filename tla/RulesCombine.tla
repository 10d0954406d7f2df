---------------------------- MODULE RulesCombine ----------------------------
(***************************************************************************)
(* The rules that recognize one operation in several: a three-way compare, *)
(* the two halves of a concatenation, the terms of a sum, the bits of a    *)
(* population count (rules_misc.go, rules_ghidra_port.go,                  *)
(* rule_popcountboolxor.go), one action for each.                          *)
(***************************************************************************)
EXTENDS RulesShift, RulesCompare

DefOf(v) == g.op[v[2]]
ZextOf(v) == DefinedBy(g, v, "INT_ZEXT")
CopyOf(i, v) == g' = SetOp(g, i, "COPY", <<v>>)

-----------------------------------------------------------------------------
(* Three-way compares: zext(a < b) + zext(a <= b) - 1 *)

\* The two extensions op o sums with -1, in any association; the -1 may be missing.
ThreeWaySums(o) ==
    LET v == o.in[1]
        w == o.in[2]
        sums(x) == DefinedBy(g, x, "INT_ADD")
        minusOne(x) == sums(x) /\ IsAllOnes(DefOf(x).in[2])
    IN {t \in {[z1 |-> DefOf(v).in[1], z2 |-> DefOf(v).in[2], partial |-> FALSE] : n \in IF IsAllOnes(w) /\ sums(v) THEN {1} ELSE {}}
          \cup {[z1 |-> v, z2 |-> w, partial |-> TRUE] : n \in IF ZextOf(v) /\ ZextOf(w) THEN {1} ELSE {}}
          \cup {[z1 |-> DefOf(v).in[1], z2 |-> w, partial |-> FALSE] : n \in IF minusOne(v) /\ ZextOf(w) THEN {1} ELSE {}}
          \cup {[z1 |-> v, z2 |-> DefOf(w).in[1], partial |-> FALSE] : n \in IF ZextOf(v) /\ minusOne(w) THEN {1} ELSE {}} :
        ZextOf(t.z1) /\ ZextOf(t.z2)}

\* Which of the comparisons l and e is the strict one when the other allows
\* equality, as l <= e or as l < e + 1; none when they do not match.
CompareEquivalence(l, e) ==
    LET two == e.code = l.code
        a1 == l.in[1]
        a2 == e.in[1]
        b1 == l.in[2]
        b2 == e.in[2]
        next(v, w) == Wrap(v[2] + 1) = w[2]
        moved == two /\ a1 # a2
        strict == IF moved THEN (IF next(a2, a1) THEN {l} ELSE IF next(a1, a2) THEN {e} ELSE {}) ELSE {l}
    IN IF \/ l.code \notin {"INT_LESS", "INT_SLESS"} \/ e.code \notin {l.code, l.code \o "EQUAL"}
          \/ a1 # a2 /\ ~(IsConstant(a1) /\ IsConstant(a2))
          \/ (b1 # b2 \/ IsConstant(b1)) /\ ~(IsConstant(b1) /\ IsConstant(b2) /\ b1 # b2 /\ two /\ ~moved)
       THEN {}
       ELSE IF b1 # b2 THEN (IF next(b1, b2) THEN {l} ELSE IF next(b2, b1) THEN {e} ELSE {})
       ELSE IF two /\ ~moved THEN {} ELSE strict

detectThreeWay(o) ==
    UNION {LET first == DefOf(In(g, t.z1[2], 1))
               second == DefOf(In(g, t.z2[2], 1))
               less == IF first.code \in {"INT_LESS", "INT_SLESS"} THEN <<first, second>> ELSE <<second, first>>
           IN {[less |-> l, partial |-> t.partial] : l \in CompareEquivalence(less[1], less[2])} :
           t \in {t \in ThreeWaySums(o) : IsWritten(In(g, t.z1[2], 1)) /\ IsWritten(In(g, t.z2[2], 1))}}

\* The comparison `n code (a <=> b)', the constant n in the slot side, as a number.
ThreeWayForm(n, side, code) ==
    ((n + 1) * 2 + side - 1) * 4 +
    (CASE code = "INT_SLESS" -> 0 [] code = "INT_SLESSEQUAL" -> 1 [] code = "INT_EQUAL" -> 2 [] code = "INT_NOTEQUAL" -> 3)

RuleThreeWayCompare(i) ==
    LET o == g.op[i]
        side == IF IsConstant(o.in[1]) THEN 1 ELSE 2
        c == o.in[side]
        n == IF IsAllOnes(c) /\ c[2] > 2 THEN -1 ELSE c[2]
    IN /\ o.code \in {"INT_SLESS", "INT_SLESSEQUAL", "INT_EQUAL", "INT_NOTEQUAL"}
       /\ IsConstant(c) /\ n \in -1..2 /\ DefinedBy(g, o.in[3 - side], "INT_ADD")
       /\ \E t \in detectThreeWay(DefOf(o.in[3 - side])) :
             LET form == ThreeWayForm(n - Bool(t.partial), side, o.code)
                 b == t.less.in[1]
                 a == t.less.in[2]
                 strict == t.less.code
                 orEqual == strict \o "EQUAL"
                 become(code, v, w) == g' = SetOp(g, i, code, <<v, w>>)
             IN /\ t.partial => n # -1
                /\ \/ form \in {1, 21} /\ become("INT_EQUAL", Const(0, 1), Const(0, 1))
                   \/ form \in {4, 16} /\ become("INT_NOTEQUAL", Const(0, 1), Const(0, 1))
                   \/ form \in {2, 5, 6, 12} /\ become(strict, a, b)
                   \/ form \in {13, 19, 20, 23} /\ become(orEqual, a, b)
                   \/ form \in {8, 17, 18, 22} /\ become(strict, b, a)
                   \/ form \in {0, 3, 7, 9} /\ become(orEqual, b, a)
                   \/ form \in {10, 14} /\ become("INT_EQUAL", a, b)
                   \/ form \in {11, 15} /\ become("INT_NOTEQUAL", a, b)

-----------------------------------------------------------------------------
(* Exclusive ors, zero tests *)

RuleXorSwap(i) ==
    LET o == g.op[i]
        kept == {<<k, l>> \in {1, 2} \X {1, 2} :
                   /\ DefinedBy(g, o.in[k], "INT_XOR") /\ DefOf(o.in[k]).in[3 - l] = o.in[3 - k]
                   /\ ~IsFree(DefOf(o.in[k]).in[l])}
    IN /\ o.code = "INT_XOR"
       /\ \E p \in kept : (\A q \in kept : p[1] <= q[1]) /\ CopyOf(i, DefOf(o.in[p[1]]).in[p[2]])

\* lzcount(V) >> log2(bits of V) is V == 0.
RuleLzcountShiftBool(i) ==
    LET v == g.op[i].in[1]
        size == SizeOf(g, v)
    IN /\ g.op[i].code = "LZCOUNT" /\ onesCount(size * ByteBits) = 1
       /\ \E r \in Readers(g, Out(i)) :
             LET o == g.op[r[1]]
                 h == NewOpBefore(g, r[1], "INT_EQUAL", 1, <<v, Const(0, size)>>)
             IN /\ o.code \in {"INT_RIGHT", "INT_SRIGHT"} /\ r[2] = 1 /\ IsConstant(o.in[2]) /\ Shr(size * ByteBits, o.in[2][2]) = 1
                /\ g' = SetOp(h, r[1], IF o.size = 1 THEN "COPY" ELSE "INT_ZEXT", <<Out(NewId(g))>>)

\* (V | W) == 0 is V == 0 && W == 0, when every reader tests against zero.
RuleOrCompare(i) ==
    LET o == g.op[i]
        tests == {r[1] : r \in Readers(g, Out(i))}
        split(h, j) ==
          LET n == NewId(h)
              code == h.op[j].code
              zero(k) == NewOpBefore(h, j, code, 1, <<o.in[k], Const(0, o.size)>>)
              both == NewOpBefore(zero(1), j, code, 1, <<o.in[2], Const(0, o.size)>>)
          IN SetOp(both, j, IF code = "INT_EQUAL" THEN "BOOL_AND" ELSE "BOOL_OR", <<Out(n), Out(n + 1)>>)
    IN /\ o.code = "INT_OR" /\ tests # {} /\ ReadOnlyBy(g, Out(i), Equality)
       /\ \A j \in tests : IsZero(In(g, j, 2))
       /\ ~IsFree(o.in[1]) /\ ~IsFree(o.in[2])
       /\ g' = FoldLeft(split, g, SetToSeq(tests))

-----------------------------------------------------------------------------
(* Concatenations *)

\* (ext(V) << 8*sizeof(W)) + zext(W) is concat(V, W).
RuleShiftPiece(i) ==
    LET o == g.op[i]
        k == IF DefinedBy(g, o.in[1], "INT_LEFT") THEN 1 ELSE 2
        shift == DefOf(o.in[k])
        low == DefOf(o.in[3 - k])
        ext == DefOf(shift.in[1])
        hi == ext.in[1]
        sa == shift.in[2][2]
        width == sa + SizeOf(g, hi) * ByteBits
        loVal == low.in[1]
        sign == DefOf(hi)
        half == sign.in[1]
        Matches ==
          /\ o.code \in {"INT_OR", "INT_XOR", "INT_ADD"} /\ IsWritten(o.in[1]) /\ IsWritten(o.in[2])
          /\ shift.code = "INT_LEFT" /\ IsConstant(shift.in[2]) /\ Code(g, shift.in[1]) \in {"INT_ZEXT", "INT_SEXT"}
          /\ IsFree(hi) => SizeOf(g, hi) >= WordBytes
          /\ width <= o.size * ByteBits
        \* The high half is the sign of the low half of the other operand.
        Sign ==
          /\ low.code # "INT_ZEXT"
          /\ DefinedBy(g, hi, "INT_SRIGHT") /\ DefinedBy(g, half, "SUBPIECE")
          /\ DefOf(half).in = <<o.in[3 - k], DefOf(half).in[2]>> /\ IsZero(DefOf(half).in[2])
          /\ IsConst(sign.in[2], SizeOf(g, half) * ByteBits - 1)
          /\ Shr(NZMask(g, o.in[3 - k]), sa) = 0 /\ sa = ByteBits * SizeOf(g, half)
          /\ g' = SetOp(g, i, "INT_SEXT", <<half>>)
        Concat ==
          /\ low.code = "INT_ZEXT" /\ ~IsFree(loVal) /\ sa = ByteBits * SizeOf(g, loVal)
          /\ g' = IF width = o.size * ByteBits THEN SetOp(g, i, "PIECE", <<hi, loVal>>)
                  ELSE SetOp(NewOpBefore(g, i, "PIECE", width \div ByteBits, <<hi, loVal>>), i, ext.code, <<Out(NewId(g))>>)
    IN Matches /\ (Sign \/ Concat)

\* concat(V, zext(W) << 8n) with W at the top is concat(concat(V, W), 0).
RuleConcatLeftShift(i) ==
    LET o == g.op[i]
        shift == DefOf(o.in[2])
        w == DefOf(shift.in[1]).in[1]
        sa == shift.in[2][2]
        size == SizeOf(g, o.in[1]) + SizeOf(g, w)
    IN /\ o.code = "PIECE" /\ DefinedBy(g, o.in[2], "INT_LEFT") /\ IsConstant(shift.in[2]) /\ sa % ByteBits = 0
       /\ ZextOf(shift.in[1]) /\ ~IsFree(w) /\ ~IsFree(o.in[1])
       /\ sa \div ByteBits + SizeOf(g, w) = SizeOf(g, shift.in[1])
       /\ g' = SetOp(NewOpBefore(g, i, "PIECE", size, <<o.in[1], w>>), i, "PIECE", <<Out(NewId(g)), Const(0, o.size - size)>>)

\* sub(V << 8n, c) is sub(V, c - n).
RuleShiftSub(i) ==
    LET o == g.op[i]
        shift == DefOf(o.in[1])
        v == shift.in[1]
        n == shift.in[2][2]
        c == o.in[2][2] - n \div ByteBits
    IN /\ o.code = "SUBPIECE" /\ DefinedBy(g, o.in[1], "INT_LEFT") /\ IsConstant(shift.in[2])
       /\ n % ByteBits = 0 /\ ~IsFree(v) /\ c >= 0 /\ c + o.size <= SizeOf(g, v)
       /\ g' = SetOp(g, i, "SUBPIECE", <<v, Const(c, SizeOf(g, o.in[2]))>>)

\* The piece of the concatenations under v that holds the size bytes above trunc.
RECURSIVE PieceHolding(_, _, _)
PieceHolding(v, trunc, size) ==
    LET high == trunc >= SizeOf(g, DefOf(v).in[2])
        part == DefOf(v).in[IF high THEN 1 ELSE 2]
        rest == IF high THEN trunc - SizeOf(g, DefOf(v).in[2]) ELSE trunc
    IN IF size + rest > SizeOf(g, part) THEN {}
       ELSE IF SizeOf(g, part) = size \/ ~DefinedBy(g, part, "PIECE") THEN {[vn |-> part, trunc |-> rest]}
       ELSE PieceHolding(part, rest, size)

\* OpDestroyRecursive: op i, and the ops that only it read.
RECURSIVE DestroyRecursive(_, _)
DestroyRecursive(h, i) ==
    LET alone == {v \in ToSet(h.op[i].in) : IsWritten(v) /\ LoneDescend(h, v) # 0}
    IN FoldLeft(LAMBDA acc, v : DestroyRecursive(acc, v[2]), OpDestroy(h, i), SetToSeq(alone))
TotalReplace(h, v, w) ==
    [h EXCEPT !.op = [j \in DOMAIN h.op |-> [h.op[j] EXCEPT !.in = [k \in DOMAIN @ |-> IF @[k] = v THEN w ELSE @[k]]]]]

\* A truncation of a concatenation reads the piece (cleanup).  A value read
\* outside the block is auto-live.
RuleDumptyHumpLate(i) ==
    LET o == g.op[i]
        piece == o.in[1]
    IN /\ o.code = "SUBPIECE" /\ DefinedBy(g, piece, "PIECE")
       /\ \E p \in PieceHolding(piece, o.in[2][2], o.size) :
             LET v == IF DefinedBy(g, p.vn, "COPY") THEN DefOf(p.vn).in[1] ELSE p.vn
                 h == IF o.size # SizeOf(g, v) THEN SetOp(g, i, "SUBPIECE", <<v, Const(p.trunc, 4)>>)
                      ELSE IF i \in g.live THEN SetOp(g, i, "COPY", <<v>>)
                      ELSE TotalReplace(g, Out(i), v)
                 gone == IF o.size = SizeOf(g, v) /\ i \notin g.live THEN i ELSE piece[2]
             IN g' = IF Readers(h, Out(gone)) = {} /\ gone \notin h.live THEN DestroyRecursive(h, gone) ELSE h

-----------------------------------------------------------------------------
(* Terms of a sum *)

Leaf(v) == ~IsWritten(v) \/ LoneDescend(g, v) = 0
\* v is (V + W) * c, read once, and the sum read only here.
ScaledSum(v) ==
    /\ DefinedBy(g, v, "INT_MULT") /\ IsConstant(DefOf(v).in[2])
    /\ DefinedBy(g, DefOf(v).in[1], "INT_ADD") /\ LoneDescend(g, DefOf(v).in[1]) # 0

\* The terms of the sums on the stack, each with the slot that reads it and
\* the product (0: none) its sum is multiplied in.
RECURSIVE TermsUnder(_)
TermsUnder(stack) ==
    IF stack = <<>> THEN <<>>
    ELSE LET top == Last(stack)
             sub(v) == IF DefinedBy(g, v, "INT_ADD") THEN <<[op |-> v[2], mult |-> top.mult]>>
                       ELSE <<[op |-> DefOf(v).in[1][2], mult |-> v[2]]>>
             inner(v) == ~Leaf(v) /\ (DefinedBy(g, v, "INT_ADD") \/ ScaledSum(v))
             term(k) == [op |-> top.op, slot |-> k, vn |-> In(g, top.op, k), mult |-> top.mult]
             here(k) == IF inner(In(g, top.op, k)) THEN <<>> ELSE <<term(k)>>
             below(k) == IF inner(In(g, top.op, k)) THEN sub(In(g, top.op, k)) ELSE <<>>
         IN here(1) \o here(2) \o TermsUnder(Front(stack) \o below(1) \o below(2))

Scaled(v) == DefinedBy(g, v, "INT_MULT") /\ IsConstant(DefOf(v).in[2])
BaseOf(v) == IF Scaled(v) THEN DefOf(v).in[1] ELSE v
CoeffOf(v) == IF Scaled(v) THEN DefOf(v).in[2][2] ELSE 1
\* Terms of one base stand together, constants last; among equals the order stays.
TermRank(t) == IF IsConstant(t.vn) THEN 10000 ELSE BaseOf(t.vn)[2] + (IF IsWritten(BaseOf(t.vn)) THEN 100 ELSE 0)
SortTerms(terms) ==
    FoldLeft(LAMBDA acc, r : acc \o SelectSeq(terms, LAMBDA t : TermRank(t) = r), <<>>,
             SetToSortSeq({TermRank(terms[n]) : n \in DOMAIN terms}, <))

\* (V + W) * c, op m, becomes V * c + W * c.
distributeIntMultAdd(h, m) ==
    LET add == h.op[In(h, m, 1)[2]]
        c == In(h, m, 2)[2]
        s == h.op[m].size
        times(k, p) ==
          IF IsConstant(add.in[k]) THEN [h |-> p, vn |-> Const(truncateToSize(Wrap(c * add.in[k][2]), s), s)]
          ELSE [h |-> NewOpBefore(p, m, "INT_MULT", s, <<add.in[k], Const(c, s)>>), vn |-> Out(NewId(p))]
        first == times(1, h)
        second == times(2, first.h)
    IN SetOp(second.h, m, "INT_ADD", <<first.vn, second.vn>>)

\* Two terms of one base become one.
Joined2(s, t) ==
    LET v == BaseOf(t.vn)
        size == SizeOf(g, v)
        c == And(Wrap(CoeffOf(s.vn) + CoeffOf(t.vn)), maskForSize(size))
        h == SetIn(g, s.op, s.slot, Const(0, size))
    IN IF c = 0 THEN SetIn(h, t.op, t.slot, Const(0, size))
       ELSE SetIn(NewOpBefore(h, t.op, "INT_MULT", size, <<v, Const(c, size)>>), t.op, t.slot, Out(NewId(h)))

RuleCollectTerms(i) ==
    LET out == LoneDescend(g, Out(i))
        Pair(seq, n) == ~IsConstant(seq[n].vn) /\ BaseOf(seq[n - 1].vn) = BaseOf(seq[n].vn)
        Lump(seq) ==
          LET nonzero == {n \in DOMAIN seq : IsConstant(seq[n].vn) /\ seq[n].mult = 0 /\ ~IsZero(seq[n].vn)}
              first == CHOOSE n \in nonzero : \A m \in nonzero : n <= m
              size == SizeOf(g, seq[first].vn)
              sum == And(Wrap(FoldSet(LAMBDA n, acc : acc + seq[n].vn[2], 0, nonzero)), maskForSize(size))
              cleared(h, n) == IF n <= first \/ seq[n].mult # 0 THEN h ELSE SetIn(h, seq[n].op, seq[n].slot, Const(0, size))
          IN /\ Cardinality(nonzero) > 1
             /\ g' = SetIn(FoldLeft(cleared, g, [n \in DOMAIN seq |-> n]), seq[first].op, seq[first].slot, Const(sum, size))
    IN /\ g.op[i].code = "INT_ADD" /\ (out # 0 => g.op[out].code # "INT_ADD")
       /\ \E seq \in {SortTerms(TermsUnder(<<[op |-> i, mult |-> 0]>>))} :
             \/ \E n \in {n \in 2..Len(seq) : Pair(seq, n)} :
                   /\ \A m \in 2..n - 1 : ~Pair(seq, m)
                   /\ g' = IF seq[n - 1].mult # 0 THEN distributeIntMultAdd(g, seq[n - 1].mult)
                           ELSE IF seq[n].mult # 0 THEN distributeIntMultAdd(g, seq[n].mult)
                           ELSE Joined2(seq[n - 1], seq[n])
             \/ (\A n \in 2..Len(seq) : ~Pair(seq, n)) /\ Lump(seq)

-----------------------------------------------------------------------------
(* Parities *)

\* The boolean that is bit n of v, as a set; a constant one as a constant.
RECURSIVE popcountBooleanResult(_, _)
popcountBooleanResult(v, n) ==
    LET o == DefOf(v)
        has(w) == Shr(NZMask(g, w), n) % 2 = 1
        const2 == IsConstant(o.in[2])
        a == o.in[1]
        b == o.in[2]
    IN IF IsConstant(v) THEN {Const(1, 1) : k \in {1} \cap {Shr(v[2], n) % 2}}
       ELSE IF ~IsWritten(v) THEN {}
       ELSE IF n = 0 /\ SizeOf(g, v) = 1 /\ NZMask(g, v) = 1 THEN {v}
       ELSE CASE o.code = "INT_AND" /\ const2 -> popcountBooleanResult(a, n)
              [] o.code \in {"INT_XOR", "INT_OR"} /\ has(a) /\ ~has(b) -> popcountBooleanResult(a, n)
              [] o.code \in {"INT_XOR", "INT_OR"} /\ ~has(a) /\ has(b) -> popcountBooleanResult(b, n)
              [] o.code \in {"INT_ZEXT", "INT_SEXT"} /\ n < SizeOf(g, a) * ByteBits -> popcountBooleanResult(a, n)
              [] o.code = "SUBPIECE" -> popcountBooleanResult(a, n + b[2] * ByteBits)
              [] o.code = "PIECE" /\ n >= SizeOf(g, b) * ByteBits -> popcountBooleanResult(a, n - SizeOf(g, b) * ByteBits)
              [] o.code = "PIECE" /\ n < SizeOf(g, b) * ByteBits -> popcountBooleanResult(b, n)
              [] o.code = "INT_LEFT" /\ const2 /\ b[2] <= n -> popcountBooleanResult(a, n - b[2])
              [] o.code \in {"INT_RIGHT", "INT_SRIGHT"} /\ const2 /\ n + b[2] < SizeOf(g, a) * ByteBits ->
                   popcountBooleanResult(a, n + b[2])
              [] OTHER -> {}

\* popcount((b1 << m) | (b2 << n)) & 1 is b1 ^ b2.
RulePopcountBoolXor(i) ==
    LET v == g.op[i].in[1]
        nz == NZMask(g, v)
        n == onesCount(nz)
    IN /\ g.op[i].code = "POPCOUNT" /\ IsWritten(v) /\ n \in {1, 2}
       /\ \E r \in Readers(g, Out(i)), b1 \in popcountBooleanResult(v, leastSigBitSet(nz)), b2 \in popcountBooleanResult(v, mostSigBitSet(nz)) :
             /\ g.op[r[1]].code = "INT_AND" /\ g.op[r[1]].in[2] = Const(1, 1)
             /\ IF n = 1 THEN ~IsConstant(b1) /\ g' = SetOp(g, r[1], "COPY", <<b1>>)
                ELSE ~(IsConstant(b1) /\ IsConstant(b2)) /\ g' = SetOp(g, r[1], "INT_XOR", <<b1, b2>>)

CombineRules(i) ==
    \/ RuleThreeWayCompare(i) \/ RuleXorSwap(i) \/ RuleLzcountShiftBool(i) \/ RuleOrCompare(i)
    \/ RuleShiftPiece(i) \/ RuleConcatLeftShift(i) \/ RuleShiftSub(i)
    \/ RulePopcountBoolXor(i)
=============================================================================
