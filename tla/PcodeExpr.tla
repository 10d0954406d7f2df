----------------------------- MODULE PcodeExpr -----------------------------
(***************************************************************************)
(* The p-code expressions that the simplification rules rewrite: one basic *)
(* block of single-assignment ops, the emulation that gives each op its    *)
(* value (opbehavior.go), the non-zero masks (pcodeop.go getNZMaskLocal,   *)
(* funcdata.go CalcNZMask) and the edits of Funcdata a rule is written     *)
(* with.  The modules Rules* add the rules, one action for each.           *)
(*                                                                         *)
(* A byte has ByteBits bits and a machine word WordBytes bytes; the code   *)
(* has 8 and 8.  Every shift, mask and width below is written with these   *)
(* two parameters where the code writes 8 and 64.                          *)
(***************************************************************************)
EXTENDS Integers, Sequences, FiniteSets, SequencesExt
B == INSTANCE Bitwise

CONSTANTS ByteBits,   \* bits in a byte
          WordBytes,  \* bytes in a uint64
          Programs,   \* the blocks to start from: their pool, input varnodes and ops
          MaxRewrites \* rewrites a block may take per op before the pool is idle

ASSUME ExprAssumption ==
    /\ ByteBits \in Nat \ {0} /\ WordBytes \in Nat \ {0}
    /\ \A p \in Programs : p.pool \in {"oppool1", "cleanup"} /\ p.inputs \in Seq([size : 1..WordBytes, base : BOOLEAN, read : BOOLEAN])

VARIABLES g,     \* the block: the pool it is in, its inputs, its ops, their order,
                 \* the ops read outside it, and whether CalcNZMask ran
          want,  \* what the ops read outside the block compute at the start
          steps  \* rewrites so far, removals of unread ops apart

vars == <<g, want, steps>>

-----------------------------------------------------------------------------
(* Words *)

WordBits == ByteBits * WordBytes
Pow2 == [n \in 0..WordBits |-> 2^n]
Ones == 2^WordBits - 1
Word == 0..Ones
AndTable == [a \in Word |-> [b \in Word |-> B!&(a, b)]]

And(a, b) == AndTable[a][b]
Or(a, b) == a + b - And(a, b)
Xor(a, b) == a + b - 2 * And(a, b)
Flip(a) == Ones - a
Wrap(a) == a % 2^WordBits
Shl(a, n) == IF n >= WordBits THEN 0 ELSE (a * Pow2[n]) % 2^WordBits
Shr(a, n) == IF n >= WordBits THEN 0 ELSE a \div Pow2[n]
Bool(p) == IF p THEN 1 ELSE 0

maskForSize(s) == IF s >= WordBytes THEN Ones ELSE Pow2[s * ByteBits] - 1
signBit(s) == Pow2[s * ByteBits - 1]
truncateToSize(v, s) == And(v, maskForSize(s))
signbitNegative(v, s) == And(v, signBit(s)) # 0
signedVal(v, s) == IF signbitNegative(v, s) THEN v - Pow2[s * ByteBits] ELSE v
signExtendSize(v, si, so) ==
    IF signbitNegative(v, si) /\ si < so THEN Or(v, maskForSize(so) - maskForSize(si)) ELSE v
mostSigBitSet(v) == CHOOSE n \in -1..WordBits - 1 : Shr(v, n + 1) = 0 /\ (n = -1 \/ Shr(v, n) # 0)
leastSigBitSet(v) ==
    IF v = 0 THEN -1 ELSE CHOOSE n \in 0..WordBits - 1 : Shr(v, n) % 2 = 1 /\ v % Pow2[n] = 0
coveringMask(v) == Pow2[mostSigBitSet(v) + 1] - 1
onesCount(v) == Cardinality({n \in 0..WordBits - 1 : Shr(v, n) % 2 = 1})

-----------------------------------------------------------------------------
(* Ops and varnodes.  A varnode is a constant <<"c", value, size>>, an     *)
(* input <<"v", index>> or the output <<"o", id>> of an op.                *)

Const(v, s) == <<"c", v, s>>
Var(n) == <<"v", n>>
Out(i) == <<"o", i>>
Op(code, size, ins) == [code |-> code, size |-> size, in |-> ins, nz |-> Ones, cons |-> Ones]

Unary == {"COPY", "INT_ZEXT", "INT_SEXT", "INT_2COMP", "INT_NEGATE", "BOOL_NEGATE", "POPCOUNT", "LZCOUNT"}
Compare == {"INT_EQUAL", "INT_NOTEQUAL", "INT_SLESS", "INT_SLESSEQUAL", "INT_LESS", "INT_LESSEQUAL",
            "INT_CARRY", "INT_SCARRY", "INT_SBORROW"}
Logical == {"BOOL_XOR", "BOOL_AND", "BOOL_OR"}
Divide == {"INT_DIV", "INT_SDIV", "INT_REM", "INT_SREM"}
Arith == {"INT_ADD", "INT_SUB", "INT_MULT", "INT_AND", "INT_OR", "INT_XOR"} \cup Divide
Shift == {"INT_LEFT", "INT_RIGHT", "INT_SRIGHT"}

\* What an op without a value for its inputs computes (errEvaluation).
Undef == -1

evaluateUnary(code, so, si, a) ==
    CASE code \in {"COPY", "INT_ZEXT"} -> a
      [] code = "INT_SEXT" -> signExtendSize(a, si, so)
      [] code = "INT_2COMP" -> And(Flip(Wrap(a - 1)), maskForSize(si))
      [] code = "INT_NEGATE" -> And(Flip(a), maskForSize(si))
      [] code = "BOOL_NEGATE" -> Xor(a, 1)
      [] code = "POPCOUNT" -> onesCount(a)
      [] code = "LZCOUNT" -> si * ByteBits - 1 - mostSigBitSet(a)

evaluateCompare(code, si, a, b) ==
    LET bit(x) == Shr(x, si * ByteBits - 1) % 2
        sum == Wrap(a + b)
        diff == Wrap(a - b)
    IN CASE code = "INT_EQUAL" -> Bool(a = b)
         [] code = "INT_NOTEQUAL" -> Bool(a # b)
         [] code = "INT_SLESS" -> IF bit(a) # bit(b) THEN bit(a) ELSE Bool(a < b)
         [] code = "INT_SLESSEQUAL" -> IF bit(a) # bit(b) THEN bit(a) ELSE Bool(a <= b)
         [] code = "INT_LESS" -> Bool(a < b)
         [] code = "INT_LESSEQUAL" -> Bool(a <= b)
         [] code = "INT_CARRY" -> Bool(a > And(sum, maskForSize(si)))
         [] code = "INT_SCARRY" -> Bool(bit(a) = bit(b) /\ bit(sum) # bit(a))
         [] code = "INT_SBORROW" -> Bool(bit(a) # bit(diff) /\ bit(diff) = bit(b))

evaluateArith(code, so, a, b) ==
    CASE code \in {"INT_AND", "BOOL_AND"} -> And(a, b)
      [] code \in {"INT_OR", "BOOL_OR"} -> Or(a, b)
      [] code \in {"INT_XOR", "BOOL_XOR"} -> Xor(a, b)
      [] code = "INT_ADD" -> And(Wrap(a + b), maskForSize(so))
      [] code = "INT_SUB" -> And(Wrap(a - b), maskForSize(so))
      [] code = "INT_MULT" -> And(Wrap(a * b), maskForSize(so))

evaluateDivide(code, so, si, a, b) ==
    LET sa == signedVal(a, si)
        sb == signedVal(b, si)
        mag(x) == IF x < 0 THEN -x ELSE x
        quot == (mag(sa) \div mag(sb)) * (IF sa * sb < 0 THEN -1 ELSE 1)
    IN CASE b = 0 -> Undef
         [] code = "INT_DIV" -> a \div b
         [] code = "INT_REM" -> a % b
         [] code = "INT_SDIV" -> And(Wrap(quot), maskForSize(so))
         [] code = "INT_SREM" -> And(Wrap(sa - sb * quot), maskForSize(so))

evaluateShift(code, so, si, a, b) ==
    LET m == maskForSize(so)
        over == b >= so * ByteBits
    IN CASE code = "INT_LEFT" -> IF over THEN 0 ELSE And(Shl(a, b), m)
         [] code = "INT_RIGHT" -> IF over THEN 0 ELSE Shr(And(a, m), b)
         [] code = "INT_SRIGHT" /\ signbitNegative(a, si) ->
              IF over THEN m ELSE Or(Shr(a, b), Xor(Shr(maskForSize(si), b), maskForSize(si)))
         [] OTHER -> IF over THEN 0 ELSE Shr(a, b)

evaluateBinary(code, so, si, a, b) ==
    CASE code \in Compare -> evaluateCompare(code, si, a, b)
      [] code \in Divide -> evaluateDivide(code, so, si, a, b)
      [] code \in Shift -> evaluateShift(code, so, si, a, b)
      [] code = "PIECE" -> Or(Shl(a, (so - si) * ByteBits), b)
      [] code = "SUBPIECE" -> IF b >= WordBytes THEN 0 ELSE And(Shr(a, b * ByteBits), maskForSize(so))
      [] OTHER -> evaluateArith(code, so, a, b)

Ids(h) == ToSet(h.order)
In(h, i, k) == h.op[i].in[k]
SizeOf(h, v) == CASE v[1] = "c" -> v[3] [] v[1] = "v" -> h.inputs[v[2]].size [] OTHER -> h.op[v[2]].size

(* The assignments of values to the inputs some op reads, numbered: a      *)
(* spacebase input is aligned.  Tables gives what each op computes under   *)
(* each of them.                                                           *)
Count(v) == IF v.read THEN Pow2[(v.size - Bool(v.base)) * ByteBits] ELSE 1
Weight(ins, n) == FoldLeft(LAMBDA acc, v : acc * Count(v), 1, SubSeq(ins, 1, n))
Cases(h) == 1..Weight(h.inputs, Len(h.inputs))
InputRow(h, n) ==
    LET v == h.inputs[n]
        step == Weight(h.inputs, n - 1)
        unit == Pow2[Bool(v.base) * ByteBits]
    IN [a \in Cases(h) |-> (((a - 1) \div step) % Count(v)) * unit]

\* Concatenation makes TLC evaluate a row once instead of at every use.
Row(f) == f \o <<>>

\* The rows of the block's ops, computed in block order: what is read before it
\* is computed has no value.
Tables(h) ==
    LET all == Cases(h)
        row(acc, v) == CASE v[1] = "c" -> [a \in all |-> v[2]]
                         [] v[1] = "v" -> InputRow(h, v[2])
                         [] OTHER -> acc[v[2]]
        eval(acc, i) ==
            LET o == h.op[i]
                si == SizeOf(h, o.in[1])
                t1 == Row(row(acc, o.in[1]))
                t2 == Row(row(acc, o.in[2]))
            IN IF o.code \in Unary
               THEN [a \in all |-> IF t1[a] = Undef THEN Undef ELSE evaluateUnary(o.code, o.size, si, t1[a])]
               ELSE [a \in all |-> IF t1[a] = Undef \/ t2[a] = Undef THEN Undef
                                     ELSE evaluateBinary(o.code, o.size, si, t1[a], t2[a])]
    IN FoldLeft(LAMBDA acc, i : [acc EXCEPT ![i] = Row(eval(acc, i))], [i \in DOMAIN h.op |-> [a \in all |-> Undef]], h.order)

-----------------------------------------------------------------------------
(* Non-zero masks *)

\* The non-zero mask a varnode carries.  An input has all bits until
\* CalcNZMask narrows it.
NZMask(h, v) ==
    CASE v[1] = "c" -> v[2]
      [] v[1] = "o" -> h.op[v[2]].nz
      [] OTHER -> LET i == h.inputs[v[2]] IN
                  IF h.calc THEN maskForSize(i.size) - Bool(i.base) * maskForSize(1) ELSE Ones

\* The mask of a product, from the spans of set bits of the factors.
productMask(a, b, s) ==
    LET w == s * ByteBits
        la == leastSigBitSet(a)
        lb == leastSigBitSet(b)
        na == mostSigBitSet(a) - la + 1
        nb == mostSigBitSet(b) - lb + 1
        total == na + nb - Bool(na = 1 \/ nb = 1)
        span == IF total < w THEN Shr(maskForSize(s), w - total) ELSE maskForSize(s)
    IN IF a = 0 \/ b = 0 \/ la + lb >= w THEN 0 ELSE And(Shl(span, la + lb), maskForSize(s))

\* Mutant: the carry out of a sum's set bits is forgotten.
CarryForgotten(a, b, full) == And(Or(a, b), full)
\* The mask of a sum: a carry reaches one bit above the set bits.
sumMask(a, b, full) ==
    IF a = full THEN full
    ELSE IF And(a, b) = 0 THEN And(Or(a, b), full)
    ELSE And(Or(Or(a, b), Shl(Or(a, b), 1)), full)

getNZMaskLocal(h, i) ==
    LET o == h.op[i]
        s == o.size
        full == maskForSize(s)
        m1 == NZMask(h, o.in[1])
        m2 == NZMask(h, o.in[2])
        s1 == SizeOf(h, o.in[1])
        const2 == o.in[2][1] = "c"
        c == o.in[2][2]
    IN CASE o.code \in Compare \cup Logical \cup {"BOOL_NEGATE"} -> 1
         [] o.code \in {"COPY", "INT_ZEXT"} -> m1
         [] o.code = "INT_SEXT" ->
              IF signbitNegative(m1, s1) THEN And(Or(m1, Ones - maskForSize(s1)), full)
              ELSE And(m1, maskForSize(s1))
         [] o.code \in {"INT_XOR", "INT_OR"} -> IF m1 = full THEN full ELSE Or(m1, m2)
         [] o.code = "INT_AND" -> And(m1, m2)
         [] o.code \in Shift /\ ~const2 -> full
         [] o.code = "INT_LEFT" -> And(Shl(m1, c), full)
         [] o.code = "INT_RIGHT" -> Shr(m1, c)
         [] o.code = "INT_SRIGHT" ->
              IF And(m1, signBit(s)) = 0 THEN Shr(m1, c) ELSE Or(Shr(m1, c), Xor(Shr(full, c), full))
         [] o.code = "INT_DIV" ->
              IF const2 /\ m2 # 0 THEN Shr(coveringMask(m1), mostSigBitSet(m2)) ELSE coveringMask(m1)
         [] o.code = "INT_REM" -> coveringMask(Wrap(m2 - 1))
         [] o.code = "POPCOUNT" -> And(coveringMask(onesCount(m1)), full)
         [] o.code = "LZCOUNT" -> And(coveringMask(s1 * ByteBits), full)
         [] o.code = "SUBPIECE" -> IF c >= WordBytes THEN 0 ELSE And(Shr(m1, c * ByteBits), full)
         [] o.code = "PIECE" -> Or(Shl(m1, SizeOf(h, o.in[2]) * ByteBits), m2)
         [] o.code = "INT_MULT" -> productMask(m1, m2, s)
         [] o.code = "INT_ADD" -> sumMask(m1, m2, full)
         [] OTHER -> full

\* CalcNZMask over a block without MULTIEQUALs: a post-order walk, which in
\* a single-assignment block visits definitions before their readers.
Masked(h) ==
    FoldLeft(LAMBDA acc, i : [acc EXCEPT !.op[i].nz = getNZMaskLocal(acc, i)],
             [h EXCEPT !.calc = TRUE], h.order)

-----------------------------------------------------------------------------
(* Queries and edits.  Each edit takes a block and returns a block.        *)

IsConstant(v) == v[1] = "c"
IsWritten(v) == v[1] = "o"
IsFree(v) == v[1] = "c"
IsSpacebase(h, v) == v[1] = "v" /\ h.inputs[v[2]].base
IsConst(v, n) == IsConstant(v) /\ v[2] = n
IsZero(v) == IsConst(v, 0)
IsAllOnes(v) == IsConstant(v) /\ v[2] = maskForSize(v[3])
Code(h, v) == IF IsWritten(v) THEN h.op[v[2]].code ELSE "none"
DefinedBy(h, v, code) == Code(h, v) = code
Readers(h, v) == UNION {{<<i, k>> : k \in {k \in DOMAIN h.op[i].in : In(h, i, k) = v}} : i \in Ids(h)}
IsLive(h, v) == IsWritten(v) /\ v[2] \in h.live
\* The only reader of v, 0 if there are several or it is outside the block.
LoneDescend(h, v) ==
    IF Cardinality(Readers(h, v)) = 1 /\ ~IsLive(h, v) THEN (CHOOSE r \in Readers(h, v) : TRUE)[1] ELSE 0
\* Every reader of v has one of the opcodes.
ReadOnlyBy(h, v, codes) == ~IsLive(h, v) /\ \A r \in Readers(h, v) : h.op[r[1]].code \in codes
BoolCodes == (Compare \cup Logical \cup {"BOOL_NEGATE"})
IsBoolLike(h, v) == (IsConstant(v) /\ v[2] \in {0, 1}) \/ Code(h, v) \in BoolCodes

SetOp(h, i, code, ins) == [h EXCEPT !.op[i].code = code, !.op[i].in = ins]
SetIn(h, i, k, v) == [h EXCEPT !.op[i].in[k] = v]
\* Mutant: the new op goes behind op i.
InsertedAfter(h, i, code, size, ins) ==
    LET p == CHOOSE q \in DOMAIN h.order : h.order[q] = i
    IN [h EXCEPT !.op = Append(@, Op(code, size, ins)), !.order = InsertAt(@, p + 1, Len(h.op) + 1)]
\* A new op with a unique output, put in the block in front of op i.
NewOpBefore(h, i, code, size, ins) ==
    LET p == CHOOSE q \in DOMAIN h.order : h.order[q] = i
    IN [h EXCEPT !.op = Append(@, Op(code, size, ins)), !.order = InsertAt(@, p, Len(h.op) + 1)]
NewId(h) == Len(h.op) + 1
\* Op i gets a new output varnode of another size.
NewOutput(h, i, size) == [h EXCEPT !.op[i].size = size, !.op[i].nz = Ones, !.op[i].cons = Ones]
OpDestroy(h, i) == [h EXCEPT !.order = SelectSeq(@, LAMBDA j : j # i), !.op[i] = Op("dead", 1, <<>>)]

-----------------------------------------------------------------------------
(* Behaviour common to every family of rules *)

\* The block as heritage leaves it, one rule pool pass about to start.  Its
\* ops carry, in cons, the bits that the rest of the function reads.
ExprInit ==
    \E p \in Programs :
       LET read == UNION {ToSet(p.ops[i].in) : i \in DOMAIN p.ops} IN
       /\ g = [pool |-> p.pool, inputs |-> p.inputs, op |-> p.ops, order |-> [n \in 1..Len(p.ops) |-> n], calc |-> FALSE,
               start |-> Len(p.ops), live |-> {i \in DOMAIN p.ops : Out(i) \notin read}]
       /\ want = [i \in g.live |-> Tables(g)[i]]
       /\ steps = 0

CalcNZMask == ~g.calc /\ g' = Masked(g) /\ UNCHANGED <<want, steps>>
Rewritten == steps' = steps + 1 /\ UNCHANGED want

-----------------------------------------------------------------------------
(* Properties common to every family of rules *)

\* The operand sizes each opcode asks for.
SizesFit(h, i) ==
    LET o == h.op[i]
        s(k) == SizeOf(h, o.in[k])
    IN CASE o.code \in {"COPY", "INT_2COMP", "INT_NEGATE", "BOOL_NEGATE"} -> s(1) = o.size
         [] o.code \in {"INT_ZEXT", "INT_SEXT"} -> s(1) < o.size
         [] o.code \in {"POPCOUNT", "LZCOUNT"} -> TRUE
         [] o.code \in Compare -> s(1) = s(2) /\ o.size = 1
         [] o.code \in Arith \cup Logical -> s(1) = o.size /\ s(2) = o.size
         [] o.code \in Shift -> s(1) = o.size
         [] o.code = "PIECE" -> s(1) + s(2) = o.size
         [] o.code = "SUBPIECE" -> IsConstant(o.in[2]) /\ o.in[2][2] + o.size <= s(1)

\* Type invariant: the ops read outside the block are still in it, every op of the block has the number of operands its
\* opcode takes, at the sizes the opcode takes them (a rule that replaces an
\* operand by one of another width leaves a malformed op behind).
TypeOK ==
    /\ g.live \subseteq Ids(g)
    /\ \A i \in Ids(g) :
          /\ Len(g.op[i].in) = IF g.op[i].code \in Unary THEN 1 ELSE 2
          /\ SizesFit(g, i)

\* Every op reads only values computed earlier in the block: a rule that
\* inserts an op, or moves an operand, keeps definitions in front of uses.
DefBeforeUse ==
    \A p \in DOMAIN g.order : \A v \in ToSet(g.op[g.order[p]].in) :
       IsWritten(v) => \E q \in 1..p - 1 : g.order[q] = v[2]

\* Each op keeps its shape and its place: see TypeOK and DefBeforeUse.
WellFormed == TypeOK /\ DefBeforeUse

\* Each op of block h that is read outside it computes, for every input, what
\* it computed at the start, in every bit that its readers use (Consumed).
Computes(h) ==
    LET t == Tables(h) IN
    \A i \in h.live : \A a \in Cases(h) :
       want[i][a] # Undef => /\ t[i][a] # Undef
                             /\ And(Xor(t[i][a], want[i][a]), h.op[i].cons) = 0

\* Rules preserve the program: after any sequence of rewrites each op read
\* outside the block computes what it computed at the start.
SameValue == Computes(g)

\* A mask computed by CalcNZMask stays a sound bound on the value while rules
\* rewrite the block around it without recomputing it.
MasksSound ==
    g.calc =>
       LET t == Tables(g) IN
       \A i \in Ids(g) : \A a \in Cases(g) : t[i][a] # Undef => And(t[i][a], Flip(g.op[i].nz)) = 0

\* The pool comes to rest: in any order of visits at most MaxRewrites rules
\* apply for each op of the block before none does.  Two rules that undo each other, or a rule that
\* re-creates what it removed, would keep the pool (rule_repeatapply) busy
\* forever and pass every bound.
Settles == steps <= MaxRewrites * g.start
=============================================================================
