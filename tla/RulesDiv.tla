------------------------------ MODULE RulesDiv ------------------------------
(***************************************************************************)
(* The rules that recover divisions and remainders from the multiplications *)
(* and shifts a compiler makes of them (rules_divmod.go,                    *)
(* rule_divtermadd.go, rules_ghidra_port.go), one action for each.          *)
(***************************************************************************)
EXTENDS RulesShift

AllOf(v) == SizeOf(g, v) * ByteBits
BitLen(n) == mostSigBitSet(n) + 1

\* v is base s>> (bits of base - 1): all copies of the sign.
IsSignOf(v, base) == DefinedBy(g, v, "INT_SRIGHT") /\ In(g, v[2], 1) = base /\ IsConst(In(g, v[2], 2), AllOf(base) - 1)
\* {base} if v is such a sign.
SignBases(v) == IF DefinedBy(g, v, "INT_SRIGHT") /\ IsSignOf(v, In(g, v[2], 1)) THEN {In(g, v[2], 1)} ELSE {}
\* v is -1 times something.
IsNegated(v) == DefinedBy(g, v, "INT_MULT") /\ IsAllOnes(In(g, v[2], 2))
ReadersAt(v, code) == {r \in Readers(g, v) : g.op[r[1]].code = code}
\* The smallest element of {1, 2} in S, as a set.
First(S) == IF 1 \in S THEN {1} ELSE S
\* {base} if v adds base and the negated sign of base: base rounded to even.
SignExtForms(v) ==
    LET o == g.op[v[2]]
        ks == {k \in {1, 2} : IsNegated(o.in[k]) /\ IsSignOf(In(g, o.in[k][2], 1), o.in[3 - k])}
    IN IF DefinedBy(g, v, "INT_ADD") THEN {o.in[3 - k] : k \in First(ks)} ELSE {}

\* Mutant: the rule is registered for the unsigned divisions as well.
PositiveDivAll(i) ==
    LET o == g.op[i]
    IN /\ o.code \in Divide
       /\ \A k \in {1, 2} : And(NZMask(g, o.in[k]), signBit(o.size)) = 0
       /\ g' = SetOp(g, i, IF o.code \in {"INT_DIV", "INT_SDIV"} THEN "INT_DIV" ELSE "INT_REM", o.in)
RulePositiveDiv(i) ==
    LET o == g.op[i]
    IN /\ o.code \in {"INT_SDIV", "INT_SREM"}
       /\ \A k \in {1, 2} : And(NZMask(g, o.in[k]), signBit(o.size)) = 0
       /\ g' = SetOp(g, i, IF o.code = "INT_SDIV" THEN "INT_DIV" ELSE "INT_REM", o.in)

-----------------------------------------------------------------------------
(* Multiplication by a reciprocal *)

\* The divisor whose reciprocal is coeff / 2^n for every x of xsize bits, 0 if none.
calcMagicDivisor(n, coeff, xsize) ==
    LET y == coeff - 1
        power == 2^n
        q0 == power \div y
        r0 == power % y
        up == r0 >= q0
        q == IF up THEN q0 + 1 ELSE q0
        r == IF up THEN r0 - y + q ELSE r0
        denom == q - r + (IF up THEN q ELSE 0)
    IN IF n >= 2 * WordBits \/ xsize <= 0 \/ coeff <= 1 \/ q0 > Ones \/ y < q0 \/ (up /\ r >= q) \/ denom <= 0
          \/ power \div denom <= 2^xsize - 1
       THEN 0 ELSE q

\* The forms op i matches: sub(ext(V) * c, d) >> e, where the truncation or the
\* shift may be missing.
DivForms(i) ==
    LET o == g.op[i]
        shifted == o.code \in {"INT_RIGHT", "INT_SRIGHT"}
        mid == IF shifted THEN o.in[1] ELSE Out(i)
        cuts == Code(g, mid) = "SUBPIECE"
        sub == g.op[mid[2]]
        mult == IF cuts THEN sub.in[1] ELSE mid
        n == (IF shifted THEN o.in[2][2] ELSE 0) + (IF cuts THEN sub.in[2][2] * ByteBits ELSE 0)
        k == IF IsConstant(In(g, mult[2], 1)) THEN 1 ELSE 2
        coeff == In(g, mult[2], k)
        v == In(g, mult[2], 3 - k)
        code == Code(g, v)
        x == In(g, v[2], 1)
        xsize == IF code = "INT_SEXT" THEN AllOf(x) ELSE BitLen(NZMask(g, IF code = "INT_ZEXT" THEN x ELSE v))
        ext == IF code = "INT_SEXT" THEN code ELSE "INT_ZEXT"
        mismatch == shifted /\ ((ext = "INT_ZEXT" /\ o.code = "INT_SRIGHT") \/ (ext = "INT_SEXT" /\ o.code = "INT_RIGHT"))
    IN IF /\ o.code \in {"INT_RIGHT", "INT_SRIGHT", "SUBPIECE"}
          /\ shifted => IsWritten(o.in[1]) /\ IsConstant(o.in[2])
          /\ cuts => SizeOf(g, mid) + sub.in[2][2] = SizeOf(g, mult)
          /\ DefinedBy(g, mult, "INT_MULT") /\ IsConstant(coeff) /\ IsWritten(v)
          /\ code # "INT_SEXT" => xsize # 0 /\ 2 * xsize <= AllOf(v)
          /\ code \in {"INT_ZEXT", "INT_SEXT"} => ~IsFree(x)
          /\ mismatch => o.size * ByteBits - n = xsize
       THEN {[base |-> IF code \in {"INT_ZEXT", "INT_SEXT"} /\ SizeOf(g, v) # o.size THEN x ELSE v,
              n |-> n, coeff |-> coeff[2], xsize |-> xsize, ext |-> ext]}
       ELSE {}

\* A truncation waits when a shift of it is, or may become, a form as well.
checkDivOptOverlap(i) ==
    g.op[i].code = "SUBPIECE" /\ \E r \in ReadersAt(Out(i), "INT_RIGHT") \cup ReadersAt(Out(i), "INT_SRIGHT") :
        ~IsConstant(In(g, r[1], 2)) \/ DivForms(r[1]) # {}

\* The varnodes that hold v, through copies.
RECURSIVE CopiesOf(_, _)
CopiesOf(h, S) ==
    LET T == S \cup {Out(r[1]) : r \in {r \in UNION {Readers(h, v) : v \in S} : h.op[r[1]].code = "COPY"}}
    IN IF T = S THEN S ELSE CopiesOf(h, T)
\* Shifts that extract the sign of the quotient extract it from the dividend.
moveSignBitExtraction(h, i, w) ==
    LET from == CopiesOf(h, {Out(i)} \cup (IF h.op[i].code = "INT_SRIGHT" THEN {In(h, i, 1)} ELSE {}))
        signs(j) == /\ h.op[j].code \in {"INT_RIGHT", "INT_SRIGHT"} /\ In(h, j, 1) \in from
                    /\ IsConst(In(h, j, 2), h.op[i].size * ByteBits - 1)
    IN [h EXCEPT !.op = [j \in DOMAIN h.op |-> IF signs(j) THEN [h.op[j] EXCEPT !.in[1] = w] ELSE h.op[j]]]

\* The quotient at size s, in the place of op i: a signed one is corrected by
\* the sign.
Quotient(h, i, form, v, s, divisor) ==
    LET d == NewId(h)
        two == NewOpBefore(NewOpBefore(h, i, "INT_SDIV", s, <<v, Const(divisor, s)>>), i,
                           "INT_SRIGHT", s, <<v, Const(s * ByteBits - 1, s)>>)
    IN IF form.ext = "INT_ZEXT" THEN SetOp(h, i, "INT_DIV", <<v, Const(divisor, s)>>)
       ELSE SetOp(two, i, "INT_ADD", <<Out(d), Out(d + 1)>>)

RuleDivOpt(i) ==
    \E form \in DivForms(i) :
       LET o == g.op[i]
           v == form.base
           s == SizeOf(g, v)
           divisor == calcMagicDivisor(form.n, form.coeff, form.xsize - Bool(form.ext = "INT_SEXT"))
           new == NewId(g)
           moved(h, j, w) == IF form.ext = "INT_SEXT" THEN moveSignBitExtraction(h, j, w) ELSE h
       IN /\ ~checkDivOptOverlap(i) /\ divisor # 0
          /\ g' = CASE s < o.size ->
                         LET h == moved(NewOpBefore(g, i, form.ext, o.size, <<v>>), i, Out(new))
                         IN Quotient(h, i, form, Out(new), o.size, divisor)
                    [] s > o.size ->
                         LET h == SetOp(NewOpBefore(g, i, "INT_ADD", s, <<v, v>>), i, "SUBPIECE", <<Out(new), Const(0, 4)>>)
                         IN Quotient(moved(h, new, v), new, form, v, s, divisor)
                    [] OTHER -> Quotient(moved(g, i, v), i, form, v, s, divisor)

-----------------------------------------------------------------------------
(* Quotients by powers of two, chains of quotients *)

\* (base - (base s>> all)) s>> 1, the minus a product with -1.
RuleSignDiv2(i) ==
    LET o == g.op[i]
    IN /\ o.code = "INT_SRIGHT" /\ IsConst(o.in[2], 1)
       /\ \E base \in SignExtForms(o.in[1]) :
             ~IsFree(base) /\ g' = SetOp(g, i, "INT_SDIV", <<base, Const(2, SizeOf(g, base))>>)

absoluteConst(v, s) == IF signbitNegative(v, s) THEN truncateToSize(Wrap(-v), s) ELSE v

\* Mutant: two divisors are joined whatever their product.
ChainOverflows(val1, val2, o) == truncateToSize(Wrap(val1 * val2), o.size) # 0
\* Whether the product of two divisors is one itself.
ChainFits(val1, val2, o) ==
    /\ truncateToSize(Wrap(val1 * val2), o.size) # 0
    /\ BitLen(absoluteConst(val1, o.size)) + BitLen(absoluteConst(val2, o.size)) + 2
          <= o.size * ByteBits - (IF o.code = "INT_SDIV" THEN 2 ELSE 0)

RuleDivChain(i) ==
    LET o == g.op[i]
        first == g.op[o.in[1][2]]
        shifted == first.code = "INT_RIGHT"
        val1 == IF shifted THEN Shl(1, first.in[2][2]) ELSE first.in[2][2]
        val2 == o.in[2][2]
    IN /\ o.code \in {"INT_DIV", "INT_SDIV"} /\ IsConstant(o.in[2])
       /\ IsWritten(o.in[1]) /\ LoneDescend(g, o.in[1]) # 0
       /\ first.code = o.code \/ (o.code = "INT_DIV" /\ shifted)
       /\ IsConstant(first.in[2]) /\ (shifted => first.in[2][2] < WordBits) /\ ~IsFree(first.in[1])
       /\ ChainFits(val1, val2, o)
       /\ g' = SetOp(g, i, o.code, <<first.in[1], Const(truncateToSize(Wrap(val1 * val2), o.size), o.size)>>)

-----------------------------------------------------------------------------
(* Signs of extended values *)

RuleSignForm(i) ==
    LET o == g.op[i]
        base == In(g, o.in[1][2], 1)
    IN /\ o.code = "SUBPIECE" /\ DefinedBy(g, o.in[1], "INT_SEXT")
       /\ o.in[2][2] >= SizeOf(g, base) /\ ~IsFree(base)
       /\ g' = SetOp(g, i, "INT_SRIGHT", <<base, Const(AllOf(base) - 1, 4)>>)

\* The sign of the high part of sext(base) * other is the sign of base when
\* other is no larger than base and not negative.
RuleSignForm2(i) ==
    LET o == g.op[i]
        cut == g.op[o.in[1][2]]
        mult == g.op[cut.in[1][2]]
        s == SizeOf(g, o.in[1])
        wide == SizeOf(g, cut.in[1])
    IN /\ o.code = "INT_SRIGHT" /\ IsConst(o.in[2], AllOf(o.in[1]) - 1)
       /\ DefinedBy(g, o.in[1], "SUBPIECE") /\ cut.in[2][2] + s = wide /\ DefinedBy(g, cut.in[1], "INT_MULT")
       /\ \E k \in First({k \in {1, 2} : DefinedBy(g, mult.in[k], "INT_SEXT")}) :
             LET base == In(g, mult.in[k][2], 1)
                 other == mult.in[3 - k]
             IN /\ ~IsFree(base) /\ SizeOf(g, base) = s
                /\ IF IsConstant(other) THEN other[2] <= maskForSize(s) /\ 2 * s <= wide
                   ELSE DefinedBy(g, other, "INT_ZEXT") /\ SizeOf(g, In(g, other[2], 1)) + s <= wide
                /\ g' = SetIn(g, i, 1, base)

-----------------------------------------------------------------------------
(* Remainders: the op that adds or subtracts becomes one *)

Remainder(r, base, n, code) == g' = SetOp(g, r, code, <<base, Const(n, SizeOf(g, base))>>)

RuleModOpt(i) ==
    LET o == g.op[i]
        base == o.in[1]
        d == o.in[2][2]
        code == IF o.code = "INT_SDIV" THEN "INT_SREM" ELSE "INT_REM"
    IN /\ o.code \in {"INT_DIV", "INT_SDIV"} /\ IsConstant(o.in[2]) /\ ~IsFree(base)
       /\ \E m \in ReadersAt(Out(i), "INT_MULT") :
             LET scale == In(g, m[1], 3 - m[2])
             IN /\ IsConstant(scale)
                /\ \E r \in Readers(g, Out(m[1])) :
                      LET root == g.op[r[1]]
                      IN /\ \/ root.code = "INT_SUB" /\ root.in = <<base, Out(m[1])>> /\ scale[2] = d
                            \/ root.code = "INT_ADD" /\ scale[2] = truncateToSize(Wrap(-d), SizeOf(g, Out(m[1])))
                               /\ base \in {root.in[1], root.in[2]}
                         /\ Remainder(r[1], base, d, code)

\* v is sub(w, c) if cut, or w itself.
Uncut(v, cut, c) == IF ~cut THEN {v} ELSE IF DefinedBy(g, v, "SUBPIECE") /\ IsConst(In(g, v[2], 2), c) THEN {In(g, v[2], 1)} ELSE {}

\* ((base + (sign >> bits-n)) & 2^n-1) - (sign >> bits-n), the sum made at
\* full size or at a smaller one.
RuleSignMod2nOpt(i) ==
    LET o == g.op[i]
        sa == o.in[2][2]
    IN /\ o.code = "INT_RIGHT" /\ IsConstant(o.in[2])
       /\ \E base \in SignBases(o.in[1]), m \in ReadersAt(Out(i), "INT_MULT") :
             LET n == AllOf(base) - sa
                 product == Out(m[1])
                 root == LoneDescend(g, product)
                 masked == In(g, root, IF In(g, root, 1) = product THEN 2 ELSE 1)
                 cut == Code(g, masked) # "INT_AND"
                 and == IF cut THEN In(g, masked[2], 1) ELSE masked
                 sum == g.op[In(g, and[2], 1)[2]]
                 small == IF cut THEN SizeOf(g, and) ELSE SizeOf(g, base)
             IN /\ ~IsFree(base) /\ n # 0 /\ n < WordBits
                /\ IsAllOnes(In(g, m[1], 2)) /\ root # 0 /\ g.op[root].code = "INT_ADD"
                /\ cut => DefinedBy(g, masked, "INT_ZEXT") /\ DefinedBy(g, and, "INT_AND")
                /\ IsConst(In(g, and[2], 2), Pow2[n] - 1) /\ DefinedBy(g, In(g, and[2], 1), "INT_ADD")
                /\ \E k \in First({k \in {1, 2} : base \in Uncut(sum.in[k], cut, 0)}) :
                      LET sh == g.op[sum.in[3 - k][2]]
                      IN /\ DefinedBy(g, sum.in[3 - k], "INT_RIGHT") /\ IsConstant(sh.in[2])
                         /\ sh.in[2][2] + (SizeOf(g, base) - small) * ByteBits = sa
                         /\ \E e \in SignBases(sh.in[1]) : base \in Uncut(e, cut, small)
                /\ Remainder(root, base, Pow2[n], "INT_SREM")

\* ((base - sign) & 1) + sign, the difference made at full size or smaller.
RuleSignMod2Opt(i) ==
    LET o == g.op[i]
        sum == g.op[o.in[1][2]]
    IN /\ o.code = "INT_AND" /\ IsConst(o.in[2], 1) /\ DefinedBy(g, o.in[1], "INT_ADD")
       /\ \E k \in First({k \in {1, 2} : IsNegated(sum.in[k])}) :
             LET sign == In(g, sum.in[k][2], 1)
                 other == sum.in[3 - k]
             IN \E near \in SignBases(sign) :
                   LET cut == near # other
                       top == SizeOf(g, In(g, sign[2], 1)) - SizeOf(g, sign)
                   IN \E base \in IF cut THEN Uncut(sign, TRUE, top) \cap Uncut(other, TRUE, 0) ELSE {near} :
                         LET ext == LoneDescend(g, Out(i))
                             narrow == Out(IF cut THEN ext ELSE i)
                         IN /\ ~IsFree(base) /\ (cut => ext # 0 /\ g.op[ext].code = "INT_ZEXT")
                            /\ \E r \in ReadersAt(narrow, "INT_ADD") :
                                  /\ base \in SignBases(In(g, r[1], 3 - r[2]))
                                  /\ Remainder(r[1], base, 2, "INT_SREM")

\* base - ((base - sign) & -2^n).
RuleSignMod2nOpt2(i) ==
    LET o == g.op[i]
        and == g.op[o.in[1][2]]
        npow == truncateToSize(Wrap(Flip(and.in[2][2]) + 1), and.size)
    IN /\ o.code = "INT_MULT" /\ IsAllOnes(o.in[2]) /\ DefinedBy(g, o.in[1], "INT_AND")
       /\ IsConstant(and.in[2]) /\ IsPow2(npow) /\ npow # 1
       /\ \E base \in SignExtForms(and.in[1]), r \in ReadersAt(Out(i), "INT_ADD") :
             /\ ~IsFree(base) /\ In(g, r[1], 3 - r[2]) = base
             /\ Remainder(r[1], base, npow, "INT_SREM")

\* (x + (sign >> bits-n)) & -2^n is x s/ 2^n * 2^n.
RuleSignNearMult(i) ==
    LET o == g.op[i]
        sum == g.op[o.in[1][2]]
        right(v) == DefinedBy(g, v, "INT_RIGHT") /\ IsConstant(In(g, v[2], 2))
    IN /\ o.code = "INT_AND" /\ IsConstant(o.in[2]) /\ DefinedBy(g, o.in[1], "INT_ADD")
       /\ \E k \in First({k \in {1, 2} : right(sum.in[k])}) :
             LET x == sum.in[3 - k]
                 s == SizeOf(g, sum.in[k])
                 sh == g.op[sum.in[k][2]]
                 n == s * ByteBits - sh.in[2][2]
             IN /\ ~IsFree(x) /\ sh.in[2][2] > 0 /\ n > 0
                /\ And(Shl(maskForSize(s), n), maskForSize(s)) = o.in[2][2] /\ IsSignOf(sh.in[1], x)
                /\ g' = SetOp(NewOpBefore(g, i, "INT_SDIV", s, <<x, Const(Pow2[n], s)>>), i,
                              "INT_MULT", <<Out(NewId(g)), Const(Pow2[n], s)>>)

-----------------------------------------------------------------------------
(* Sums that a multiplier of one bit more would have made *)

\* The multiplier plus 2^n.
DivTermConst(v, n, s) == IF IsConstant(v) /\ n < WordBits THEN {truncateToSize(Wrap(v[2] + Pow2[n]), s)} ELSE {}

\* Op r becomes the low part of (ext * c) >> n, computed in front of op i.
TermAdded(i, r, ext, c, code, n) ==
    LET s == SizeOf(g, ext)
        new == NewId(g)
        two == NewOpBefore(NewOpBefore(g, i, "INT_MULT", s, <<ext, Const(c, s)>>), i, code, s, <<Out(new), Const(n, 4)>>)
    IN g' = SetOp(two, r, "SUBPIECE", <<Out(new + 1), Const(0, 4)>>)

\* sub(ext(V) * c, b) >> d + V.
RuleDivTermAdd(i) ==
    LET o == g.op[i]
        shifted == o.code # "SUBPIECE"
        cut == IF shifted THEN g.op[o.in[1][2]] ELSE o
        n == (IF shifted THEN o.in[2][2] ELSE 0) + cut.in[2][2] * ByteBits
        mult == g.op[cut.in[1][2]]
        ext == mult.in[1]
    IN /\ o.code \in {"SUBPIECE", "INT_RIGHT", "INT_SRIGHT"}
       /\ shifted => DefinedBy(g, o.in[1], "SUBPIECE") /\ IsConstant(o.in[2])
       /\ cut.size + cut.in[2][2] = SizeOf(g, cut.in[1]) /\ n < 2 * WordBits
       /\ DefinedBy(g, cut.in[1], "INT_MULT") /\ IsWritten(ext)
       /\ <<Code(g, ext), o.code>> \notin {<<"INT_ZEXT", "INT_SRIGHT">>, <<"INT_SEXT", "INT_RIGHT">>}
       /\ \E c \in DivTermConst(mult.in[2], n, SizeOf(g, ext)), r \in ReadersAt(Out(i), "INT_ADD") :
             /\ In(g, ext[2], 1) \in {In(g, r[1], 1), In(g, r[1], 2)}
             /\ TermAdded(i, r[1], ext, c, IF shifted THEN o.code ELSE "INT_RIGHT", n)

\* W + ((V - W) >> 1) with W = sub(zext(V) * c, d).
RuleDivTermAdd2(i) ==
    LET o == g.op[i]
        diff == g.op[o.in[1][2]]
    IN /\ o.code = "INT_RIGHT" /\ IsConst(o.in[2], 1) /\ DefinedBy(g, o.in[1], "INT_ADD")
       /\ \E k \in First({k \in {1, 2} : IsNegated(diff.in[k])}) :
             LET x == diff.in[3 - k]
                 z == In(g, diff.in[k][2], 1)
                 cut == g.op[z[2]]
                 n == cut.in[2][2] * ByteBits
                 mult == g.op[cut.in[1][2]]
                 ext == mult.in[1]
             IN /\ DefinedBy(g, z, "SUBPIECE") /\ cut.in[2][2] + cut.size = SizeOf(g, cut.in[1])
                /\ DefinedBy(g, cut.in[1], "INT_MULT") /\ DefinedBy(g, ext, "INT_ZEXT") /\ In(g, ext[2], 1) = x
                /\ \E c \in DivTermConst(mult.in[2], n, SizeOf(g, ext)), r \in ReadersAt(Out(i), "INT_ADD") :
                      /\ z \in {In(g, r[1], 1), In(g, r[1], 2)}
                      /\ TermAdded(i, r[1], ext, c, "INT_RIGHT", n + 1)

DivRules(i) ==
    \/ RulePositiveDiv(i) \/ RuleDivOpt(i) \/ RuleSignDiv2(i) \/ RuleDivChain(i)
    \/ RuleSignForm(i) \/ RuleSignForm2(i) \/ RuleModOpt(i) \/ RuleSignMod2nOpt(i)
    \/ RuleSignMod2Opt(i) \/ RuleSignMod2nOpt2(i) \/ RuleSignNearMult(i)
    \/ RuleDivTermAdd(i) \/ RuleDivTermAdd2(i)
=============================================================================
