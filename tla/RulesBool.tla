----------------------------- MODULE RulesBool -----------------------------
(***************************************************************************)
(* The rules of the analysis pool over boolean connectives: negations are  *)
(* pushed into comparisons or distributed, connectives that share an       *)
(* operand are factored (rules_bool.go, rules_undistribute.go,             *)
(* rules_misc.go), with the matcher of boolean expressions they use        *)
(* (expression.go BooleanMatch).                                           *)
(***************************************************************************)
EXTENDS RulesCompare

\* The opcode of the negated op, and whether its operands are swapped.
getBooleanFlip ==
    [INT_EQUAL |-> "INT_NOTEQUAL", INT_NOTEQUAL |-> "INT_EQUAL", INT_LESS |-> "INT_LESSEQUAL",
     INT_LESSEQUAL |-> "INT_LESS", INT_SLESS |-> "INT_SLESSEQUAL", INT_SLESSEQUAL |-> "INT_SLESS",
     BOOL_NEGATE |-> "COPY"]
Reordered == {"INT_LESS", "INT_LESSEQUAL", "INT_SLESS", "INT_SLESSEQUAL"}
Flipped(o) == [o EXCEPT !.code = getBooleanFlip[@], !.in = IF o.code \in Reordered THEN <<@[2], @[1]>> ELSE @]

-----------------------------------------------------------------------------
(* The matcher: "same", "comp" (complementary) or "none" *)

Opposite(m) == CASE m = "same" -> "comp" [] m = "comp" -> "same" [] OTHER -> m
varnodeSame(v, w) == v = w \/ (IsConstant(v) /\ IsConstant(w) /\ v[2] = w[2])

\* c < V and V < c + 1.
sameOpComplement(o, p) ==
    LET k == IF IsConstant(o.in[2]) THEN 2 ELSE 1
        lo == IF k = 1 THEN o.in[1][2] ELSE p.in[1][2]
        hi == IF k = 1 THEN p.in[2][2] ELSE o.in[2][2]
        s == o.in[k][3]
    IN /\ o.code \in {"INT_LESS", "INT_SLESS"} /\ IsConstant(o.in[k]) /\ IsConstant(p.in[3 - k])
       /\ varnodeSame(o.in[3 - k], p.in[k])
       /\ Wrap(lo + 1) = hi
       /\ o.code = "INT_LESS" => hi # 0
       /\ o.code = "INT_SLESS" => ~(signbitNegative(hi, s) /\ ~signbitNegative(lo, s))

\* What the matches of the operands say of two connectives.
PairMatch(c, d, m, n) ==
    CASE "none" \in {m, n} -> "none"
      [] c = d /\ m = "same" /\ n = "same" -> "same"
      [] c = d /\ c = "BOOL_XOR" -> IF m = n THEN "same" ELSE "comp"
      [] c # d /\ m = "comp" /\ n = "comp" -> "comp"
      [] OTHER -> "none"

RECURSIVE BoolEvaluate(_, _, _)
BoolEvaluate(v, w, depth) ==
    LET o == g.op[v[2]]
        p == g.op[w[2]]
        straight == BoolEvaluate(o.in[1], p.in[1], depth - 1)
        crossed == BoolEvaluate(o.in[1], p.in[2], depth - 1)
    IN CASE v = w /\ ~IsConstant(v) -> "same"
         [] DefinedBy(g, v, "BOOL_NEGATE") -> Opposite(BoolEvaluate(o.in[1], w, depth))
         [] DefinedBy(g, w, "BOOL_NEGATE") -> Opposite(BoolEvaluate(v, p.in[1], depth))
         [] ~(Code(g, v) \in BoolCodes /\ Code(g, w) \in BoolCodes) -> "none"
         [] depth # 0 /\ o.code \in Logical ->
              IF ~(p.code = o.code \/ {o.code, p.code} = {"BOOL_AND", "BOOL_OR"}) THEN "none"
              ELSE IF straight # "none"
              THEN PairMatch(o.code, p.code, straight, BoolEvaluate(o.in[2], p.in[2], depth - 1))
              ELSE IF crossed = "none" THEN "none"
              ELSE PairMatch(o.code, p.code, crossed, BoolEvaluate(o.in[2], p.in[1], depth - 1))
         [] o.code = p.code ->
              IF \A k \in {1, 2} : varnodeSame(o.in[k], p.in[k]) THEN "same"
              ELSE IF sameOpComplement(o, p) THEN "comp" ELSE "none"
         [] OTHER ->
              IF /\ p.code \in DOMAIN getBooleanFlip /\ getBooleanFlip[p.code] = o.code
                 /\ \A k \in {1, 2} : varnodeSame(o.in[k], Flipped(p).in[k])
              THEN "comp" ELSE "none"

-----------------------------------------------------------------------------
(* Constants and negations *)

RuleTrivialBool(i) ==
    LET o == g.op[i]
        k == IF IsConstant(o.in[2]) THEN 2 ELSE 1
        val == o.in[k][2]
        lhs == o.in[3 - k]
    IN /\ o.code \in Logical /\ IsConstant(o.in[k]) /\ val <= 1
       /\ g' = CASE o.code = "BOOL_AND" /\ val = 0 -> SetOp(g, i, "COPY", <<Const(0, o.size)>>)
                 [] o.code = "BOOL_OR" /\ val = 1 -> SetOp(g, i, "COPY", <<Const(1, o.size)>>)
                 [] o.code = "BOOL_XOR" /\ val = 1 -> SetOp(g, i, "BOOL_NEGATE", <<lhs>>)
                 [] OTHER -> SetOp(g, i, "COPY", <<lhs>>)

\* The op under the negations is flipped in place, the negations become copies.
RuleBoolNegate(i) ==
    LET vn == In(g, i, 1)
        negates == {r[1] : r \in Readers(g, vn)}
    IN /\ g.op[i].code = "BOOL_NEGATE" /\ IsWritten(vn)
       /\ ReadOnlyBy(g, vn, {"BOOL_NEGATE"}) /\ Code(g, vn) \in DOMAIN getBooleanFlip
       /\ g' = [g EXCEPT !.op = [j \in DOMAIN @ |-> CASE j = vn[2] -> Flipped(@[j])
                                                       [] j \in negates -> [@[j] EXCEPT !.code = "COPY"]
                                                       [] OTHER -> @[j]]]

\* A boolean compared with 0 or 1.
RuleBooleanNegate(i) ==
    LET o == g.op[i]
        negate == (o.code = "INT_NOTEQUAL") = (o.in[2][2] = 1)
    IN /\ o.code \in Equality /\ IsConstant(o.in[2]) /\ o.in[2][2] \in {0, 1} /\ Code(g, o.in[1]) \in BoolCodes
       /\ g' = SetOp(g, i, IF negate THEN "BOOL_NEGATE" ELSE "COPY", <<o.in[1]>>)

\* De Morgan.
RuleNotDistribute(i) ==
    LET comp == g.op[In(g, i, 1)[2]]
        h1 == NewOpBefore(g, i, "BOOL_NEGATE", 1, <<comp.in[1]>>)
        h2 == NewOpBefore(h1, i, "BOOL_NEGATE", 1, <<comp.in[2]>>)
    IN /\ g.op[i].code = "BOOL_NEGATE" /\ Code(g, In(g, i, 1)) \in {"BOOL_AND", "BOOL_OR"}
       /\ g' = SetOp(h2, i, IF comp.code = "BOOL_AND" THEN "BOOL_OR" ELSE "BOOL_AND",
                     <<Out(NewId(g)), Out(NewId(h1))>>)

RuleBxor2NotEqual(i) ==
    g.op[i].code = "BOOL_XOR" /\ g' = SetOp(g, i, "INT_NOTEQUAL", g.op[i].in)

RuleLogic2Bool(i) ==
    LET o == g.op[i]
    IN /\ o.code \in {"INT_AND", "INT_OR", "INT_XOR"} /\ o.size = 1
       /\ IsBoolLike(g, o.in[1]) /\ IsBoolLike(g, o.in[2])
       /\ g' = SetOp(g, i, CASE o.code = "INT_AND" -> "BOOL_AND" [] o.code = "INT_OR" -> "BOOL_OR"
                             [] o.code = "INT_XOR" -> "BOOL_XOR", o.in)

-----------------------------------------------------------------------------
(* Connectives over comparisons of the same operands *)

\* The slot of op i that holds a comparison with one of the opcodes, slot 1
\* first; the other slot holds the (in)equality.
LessSlot(i, codes) == IF Code(g, In(g, i, 1)) \in codes THEN 1 ELSE 2
SameOperands(o, p) == o.in = p.in \/ o.in = <<p.in[2], p.in[1]>>

RuleLessEqual(i) ==
    LET k == LessSlot(i, {"INT_LESS", "INT_SLESS"})
        less == g.op[In(g, i, k)[2]]
        eq == g.op[In(g, i, 3 - k)[2]]
    IN /\ g.op[i].code = "BOOL_OR" /\ Code(g, In(g, i, k)) \in {"INT_LESS", "INT_SLESS"}
       /\ Code(g, In(g, i, 3 - k)) \in Equality /\ SameOperands(less, eq)
       /\ g' = IF eq.code = "INT_NOTEQUAL" THEN SetOp(g, i, "COPY", <<In(g, i, 3 - k)>>)
               ELSE SetOp(g, i, IF less.code = "INT_LESS" THEN "INT_LESSEQUAL" ELSE "INT_SLESSEQUAL", less.in)

RuleLessNotEqualBoolAnd(i) ==
    LET k == LessSlot(i, {"INT_LESSEQUAL", "INT_SLESSEQUAL"})
        less == g.op[In(g, i, k)[2]]
        neq == g.op[In(g, i, 3 - k)[2]]
    IN /\ g.op[i].code = "BOOL_AND" /\ Code(g, In(g, i, k)) \in {"INT_LESSEQUAL", "INT_SLESSEQUAL"}
       /\ DefinedBy(g, In(g, i, 3 - k), "INT_NOTEQUAL") /\ SameOperands(less, neq)
       /\ g' = SetOp(g, i, IF less.code = "INT_LESSEQUAL" THEN "INT_LESS" ELSE "INT_SLESS", less.in)

-----------------------------------------------------------------------------
(* Factoring a shared operand *)

\* The operands of the two connectives op i reads, and the pair of positions
\* that match first in the code's order (1 or 2 with 3 or 4), <<>> if none.
Operands(i) == g.op[In(g, i, 1)[2]].in \o g.op[In(g, i, 2)[2]].in
Connectives(i) == <<Code(g, In(g, i, 1)), Code(g, In(g, i, 2))>>
PairOrder == <<<<1, 3>>, <<1, 4>>, <<2, 3>>, <<2, 4>>>>
Match(i, p) == BoolEvaluate(Operands(i)[p[1]], Operands(i)[p[2]], 1)
FirstMatch(i) ==
    LET hits == SelectSeq(PairOrder, LAMBDA p : Match(i, p) # "none")
    IN IF hits = <<>> THEN <<>> ELSE hits[1]
\* Op i reads two of AND, OR, without constants, that share an operand.
Shares(i) ==
    /\ \A c \in ToSet(Connectives(i)) : c \in {"BOOL_AND", "BOOL_OR"}
    /\ \A v \in ToSet(Operands(i)) : ~IsFree(v)
    /\ FirstMatch(i) # <<>>

RuleBooleanDedup(i) ==
    LET central == g.op[i].code
        c == Connectives(i)
        p == FirstMatch(i)
        flip == Match(i, p) = "comp"
        a == Operands(i)[p[1]]
        rest == <<Operands(i)[3 - p[1]], Operands(i)[7 - p[2]]>>
        built(final, fa, combine) ==
            SetOp(NewOpBefore(g, i, combine, 1, rest), i, final, <<fa, Out(NewId(g))>>)
    IN /\ central \in {"BOOL_AND", "BOOL_OR"} /\ Shares(i)
       /\ \/ /\ flip /\ c = <<central, central>>
             /\ g' = SetOp(g, i, "COPY", <<Const(Bool(central = "BOOL_OR"), 1)>>)
          \/ /\ flip /\ central = "BOOL_OR" /\ c[1] # c[2]
             /\ g' = built("BOOL_OR", IF c[1] = "BOOL_OR" THEN a ELSE Operands(i)[p[2]], "BOOL_OR")
          \/ ~flip /\ c[1] = c[2] /\ g' = built(c[1], a, central)

\* Which operands count negated: those of an OR, and the right one of a pair
\* that matches as complement.
Negated(i) ==
    LET c == Connectives(i)
        p == FirstMatch(i)
    IN [n \in 1..4 |-> (c[(n + 1) \div 2] = "BOOL_OR") # (n = p[2] /\ Match(i, p) = "comp")]

RuleBooleanUndistribute(i) ==
    LET c == Connectives(i)
        p == FirstMatch(i)
        neg == Negated(i)
        ors == Cardinality({n \in 1..2 : c[n] = "BOOL_OR"})
        central == (g.op[i].code = "INT_EQUAL") # (ors = 1)
        b == 3 - p[1]
        d == 7 - p[2]
        a == Operands(i)[p[1]]
        negA == neg[p[1]] # central
        equal == (central # neg[b]) # neg[d]
        h1 == IF negA THEN NewOpBefore(g, i, "BOOL_NEGATE", 1, <<a>>) ELSE g
        h2 == NewOpBefore(h1, i, IF equal THEN "INT_EQUAL" ELSE "INT_NOTEQUAL", 1, <<Operands(i)[b], Operands(i)[d]>>)
    IN /\ g.op[i].code \in Equality /\ Shares(i) /\ neg[p[1]] = neg[p[2]]
       /\ g' = SetOp(h2, i, IF central THEN "BOOL_OR" ELSE "BOOL_AND",
                     <<IF negA THEN Out(NewId(g)) ELSE a, Out(NewId(h1))>>)

-----------------------------------------------------------------------------
BoolRules(i) ==
    \/ RuleTrivialBool(i) \/ RuleBoolNegate(i) \/ RuleBooleanNegate(i) \/ RuleNotDistribute(i)
    \/ RuleBxor2NotEqual(i) \/ RuleLogic2Bool(i) \/ RuleLessEqual(i) \/ RuleLessNotEqualBoolAnd(i)
    \/ RuleBooleanDedup(i) \/ RuleBooleanUndistribute(i)
=============================================================================
