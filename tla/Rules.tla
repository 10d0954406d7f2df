------------------------------- MODULE Rules -------------------------------
(***************************************************************************)
(* The rules in their two pools (action.go): oppool1 of the main loop and  *)
(* cleanup behind it.  A rule of one family meets the blocks that the      *)
(* other families of its pool make.                                        *)
(***************************************************************************)
EXTENDS RulesArith, RulesBool, RulesPiece, RulesDiv, RulesCombine

CONSTANT Disabled \* rules switched off by name (RuleBase.SetDisable)

AnalysisRules(i) ==
    \/ Core(i) \/ ArithRules(i) \/ BitRules(i) \/ CompareRules(i) \/ BoolRules(i)
    \/ ShiftRules(i) \/ ExtRules(i) \/ PieceRules(i) \/ DivRules(i) \/ CombineRules(i)
    \/ "collect_terms" \notin Disabled /\ RuleCollectTerms(i)

Analysis == g.pool = "oppool1" /\ \E i \in Ids(g) : AnalysisRules(i) /\ Rewritten
Cleanup == g.pool = "cleanup" /\ \E i \in Ids(g) : (CleanupRules(i) \/ RuleDumptyHumpLate(i)) /\ Rewritten

Next == Analysis \/ Cleanup \/ Removal \/ CalcNZMask
Spec == ExprInit /\ [][Next]_vars

-----------------------------------------------------------------------------
(* Where rules are known to change a value: a rewrite of op i for which its *)
(* rule does not check what the rewrite needs.                              *)

Top(v) == signBit(SizeOf(g, v))
NotSigned(v) == signbitNegative(v[2], v[3])
\* The values v takes for the inputs of the block.
Values(v) == IF IsConstant(v) THEN {v[2]} ELSE IF IsWritten(v) THEN ToSet(Tables(g)[v[2]]) ELSE ToSet(InputRow(g, v[2]) \o <<>>)
\* n times the extended value v leaves the word of v.
ProductLeaves(n, v, code) ==
    LET s == SizeOf(g, v)
    IN \E x \in Values(v) \ {Undef} :
          IF code = "INT_SEXT" THEN n * signedVal(x, s) \notin -signBit(s) .. signBit(s) - 1 ELSE n * x > maskForSize(s)

\* An unsigned divisor is taken for the absolute value of a signed one.
ChainOverreach(i) == RuleDivChain(i) /\ g.op[i].code = "INT_DIV" /\ (NotSigned(g.op[i].in[2]) \/ NotSigned(DefOf(g.op[i].in[1]).in[2]))

\* The product with the reciprocal leaves its word, a signed quotient gets a
\* negative divisor, or a sign taken earlier is now taken of a value made later.
OptOverreach(i) ==
    LET o == g.op[i]
        mult == IF DefinedBy(g, o.in[1], "SUBPIECE") THEN DefOf(DefOf(o.in[1]).in[1]) ELSE DefOf(o.in[1])
        place(j) == CHOOSE p \in DOMAIN g.order : g.order[p] = j
    IN /\ RuleDivOpt(i)
       /\ \E form \in DivForms(i), v \in {v \in ToSet(mult.in) : IsWritten(v)} :
             LET s == SizeOf(g, form.base)
                 divisor == calcMagicDivisor(form.n, form.coeff, form.xsize - 1)
             IN \/ ProductLeaves(form.coeff, v, form.ext)
                \/ form.ext = "INT_SEXT" /\ signbitNegative(divisor, IF s < o.size THEN o.size ELSE s)
                \/ form.ext = "INT_SEXT" /\ s < o.size /\ \E r \in Readers(g, o.in[1]) : place(r[1]) < place(i)

\* The term does not fit into the multiplier: the product leaves its word.
TermLeaves(cut, n) ==
    LET mult == DefOf(cut.in[1])
        ext == mult.in[1]
    IN ProductLeaves(mult.in[2][2] + Pow2[n], ext, Code(g, ext))
TermOverreach(i) ==
    LET o == g.op[i]
        cut == IF o.code = "SUBPIECE" THEN o ELSE DefOf(o.in[1])
        shift == IF o.code = "SUBPIECE" THEN 0 ELSE o.in[2][2]
    IN \/ RuleDivTermAdd(i) /\ TermLeaves(cut, shift + cut.in[2][2] * ByteBits)
       \/ /\ RuleDivTermAdd2(i)
          /\ \E k \in {k \in {1, 2} : IsNegated(cut.in[k])} :
                LET z == DefOf(DefOf(cut.in[k]).in[1]) IN TermLeaves(z, z.in[2][2] * ByteBits)

\* The factor that leaves the sign alone may be zero, or the sign is cut wider
\* than its value.
SignOverreach(i) ==
    LET from == DefOf(g.op[i].in[1]) IN
    \/ RuleSignForm2(i) /\ \E v \in ToSet(DefOf(from.in[1]).in) : Code(g, v) # "INT_SEXT" /\ 0 \in Values(v)
    \/ RuleSignForm(i) /\ g.op[i].size > SizeOf(g, from.in[1])

\* A remainder by more than 2, of a sum with all copies of the sign.
RemainderOverreach(i) == RuleSignMod2nOpt2(i) /\ DefOf(g.op[i].in[1]).in[2][2] # maskForSize(g.op[i].size) - 1

\* Tests against different constants, one of them for equality as well, or
\* on either side of the signed wrap.
CompareOverreach(i) ==
    /\ RuleThreeWayCompare(i)
    /\ \E v \in {v \in ToSet(g.op[i].in) : IsWritten(v)} : \E t \in ThreeWaySums(DefOf(v)), k \in {1, 2} :
          LET l == DefOf(In(g, t.z1[2], 1))
              e == DefOf(In(g, t.z2[2], 1))
          IN /\ IsConstant(l.in[k]) /\ IsConstant(e.in[k]) /\ l.in[k] # e.in[k]
             /\ l.code # e.code \/ (l.code = "INT_SLESS" /\ NotSigned(l.in[k]) # NotSigned(e.in[k]))

\* An arithmetic shift that copies a masked sign bit.
ShiftOverreach(i) == RuleRightShiftAnd(i) /\ g.op[i].code = "INT_SRIGHT" /\ ~NotSigned(DefOf(g.op[i].in[1]).in[2])

\* The integer minimum is negated.
CarryOverreach(i) == RuleScarry(i) /\ \E k \in {1, 2} : IsConst(g.op[i].in[k], Top(g.op[i].in[k]))

\* Both operands supply the sign, and one of them is tested.
ZeroOverreach(i) ==
    /\ RuleSLess2Zero(i)
    /\ \E x \in ToSet(g.op[i].in) : IsWritten(x) /\ \A k \in DOMAIN DefOf(x).in : NZMask(g, DefOf(x).in[k]) = Top(x)

Overreach(i) ==
    \/ ChainOverreach(i) \/ OptOverreach(i) \/ TermOverreach(i) \/ SignOverreach(i) \/ RemainderOverreach(i)
    \/ CompareOverreach(i) \/ ShiftOverreach(i) \/ CarryOverreach(i) \/ ZeroOverreach(i)

\* No other rewrite of a rule changes what a block computes, whatever rules went
\* before, as long as the masks are sound and nothing has been changed yet
\* (the apply functions of the rules).
StepsKeepValue ==
    [][\/ \A h \in {g'} : Computes(h)
       \/ \E i \in Ids(g) : Overreach(i)
       \/ ~(SameValue /\ MasksSound)]_vars
=============================================================================
