------------------------------ MODULE MCRules ------------------------------
EXTENDS Rules

\* The inputs of a block: both of two bytes, the second the frame pointer or
\* not; both of one byte; two bytes and one.
Input(s, b) == [size |-> s, base |-> b, read |-> FALSE]
Based == <<Input(2, FALSE), Input(2, TRUE)>>
Wide == <<Input(2, FALSE), Input(2, FALSE)>>
Narrow == <<Input(1, FALSE), Input(1, FALSE)>>
Mixed == <<Input(2, FALSE), Input(1, FALSE)>>
\* The inputs with the ones that an op of the block reads marked.
Marked(ins, ops) ==
    [n \in DOMAIN ins |-> [ins[n] EXCEPT !.read = \E i \in DOMAIN ops : Var(n) \in ToSet(ops[i].in)]]
For(pool, ins, codes) == {[pool |-> pool, inputs |-> Marked(ins, p), ops |-> p] : p \in codes}
With(ins, codes) == For("oppool1", ins, codes)

-----------------------------------------------------------------------------
(* Arith *)
Terms == {Var(1), Var(2)} \cup {Const(n, 2) : n \in {0, 3, 15}}
Firsts ==
    {Op(c, 2, <<v, w>>) : c \in {"INT_ADD", "INT_SUB", "INT_MULT", "INT_LEFT"}, v \in {Var(1), Var(2)}, w \in Terms \ {Const(0, 2)}}
      \cup {Op(c, 2, <<Var(1)>>) : c \in {"INT_2COMP", "INT_NEGATE"}}
Seconds(n) ==
    {Op(c, 2, <<Out(n), w>>) : c \in {"INT_ADD", "INT_MULT"}, w \in Terms \cup {Out(n)}}
      \cup {Op(c, 2, <<Out(n), w>>) : c \in {"INT_SUB", "INT_LEFT", "INT_XOR"}, w \in {Var(1), Const(3, 2), Out(n)}}
      \cup {Op(c, 2, <<w, Out(n)>>) : c \in {"INT_ADD", "INT_SUB"}, w \in {Var(1), Const(3, 2)}}
      \cup {Op(c, 2, <<Out(n)>>) : c \in {"INT_2COMP", "INT_NEGATE"}}
ArithPrograms ==
    {<<o, p>> : o \in Firsts, p \in Seconds(1)}
      \cup {<<o, o, p>> : o \in {Op("INT_ADD", 2, <<Var(1), Var(2)>>), Op("INT_NEGATE", 2, <<Var(1)>>)},
                          p \in {Op("INT_OR", 2, <<Out(1), Out(2)>>), Op("INT_SLESS", 1, <<Out(1), Out(2)>>)}}
      \cup {<<Op("INT_ADD", 2, <<Var(2), Const(m, 2)>>), Op("INT_ADD", 2, v), Op("INT_ADD", 2, <<Out(2), Const(n, 2)>>)>> :
              m \in {1, 3, 7}, n \in {0, 1, 5}, v \in {<<Out(1), Var(1)>>, <<Var(1), Out(1)>>, <<Out(1), Out(1)>>}}

Ends == {Op("INT_ADD", 2, <<Out(1), w>>) : w \in Terms \cup {Out(1)}}
          \cup {Op("INT_ADD", 2, <<w, Out(1)>>) : w \in Terms}
          \cup {Op("INT_2COMP", 2, <<Out(1)>>)}
CleanupPrograms ==
    {<<o, p>> : o \in Firsts \cup {Op("INT_AND", 2, <<Var(1), Const(3, 2)>>)}, p \in Ends}
      \cup {<<Op("INT_MULT", 2, <<Const(15, 2), Var(1)>>), p>> : p \in Ends}
      \cup {<<Op("SUBPIECE", 1, <<Var(1), Const(c, 1)>>), Op(s, 1, <<Out(1), w>>)>> :
              c \in {0, 1}, s \in {"INT_RIGHT", "INT_SRIGHT", "INT_LEFT"}, w \in {Out(1)} \cup {Const(n, 1) : n \in 0..3}}

-----------------------------------------------------------------------------
(* Bitwise *)
Masks == {Const(n, 2) : n \in {3, 12, 15}}
Operands2 == {Var(1), Var(2)} \cup Masks
Consumed(o) == {o, [o EXCEPT !.cons = 3]}
Codes == {"INT_AND", "INT_OR", "INT_XOR"}

Chains ==
    {<<o, p>> :
       o \in {Op(c, 2, <<Var(1), w>>) : c \in Codes \cup {"INT_ADD"}, w \in Operands2} \cup {Op("INT_NEGATE", 2, <<Var(1)>>)},
       p \in UNION {Consumed(Op(c, 2, v)) : c \in Codes,
                    v \in {<<Out(1), w>> : w \in Operands2} \cup {<<w, Out(1)>> : w \in Masks}}}

\* (x & m) | (y & n), and ((x & m) | y) & n.
Merges ==
    {<<Op("INT_AND", 2, <<Var(1), m>>), Op("INT_AND", 2, <<v, n>>), Op("INT_OR", 2, <<Out(1), Out(2)>>)>> :
       m \in {Const(3, 2), Const(7, 2), Var(2)}, n \in {Const(12, 2), Const(6, 2)}, v \in {Var(1), Var(2)}}
      \cup {<<Op("INT_AND", 2, <<Var(1), Const(m, 2)>>), Op("INT_OR", 2, <<Out(1), Var(2)>>),
              Op("INT_AND", 2, <<Out(2), w>>)>> : m \in {3, 7}, w \in {Const(3, 2), Const(6, 2), Var(1)}}

\* Sums under an alignment mask.
Aligned ==
    {<<Op("INT_AND", 2, <<Var(1), Const(12, 2)>>), Op("INT_AND", 2, <<Var(2), Const(12, 2)>>),
       Op("INT_ADD", 2, <<Out(1), Const(n, 2)>>), Op("INT_ADD", 2, v), Op("INT_AND", 2, <<Out(4), Const(12, 2)>>)>> :
       n \in {3, 5}, v \in {<<Out(2), Out(3)>>, <<Out(3), Out(2)>>, <<Out(3), Const(4, 2)>>}}

\* Sums of narrow values, and two masked values that share a narrow operand.
SharedMasks ==
    {<<Op("INT_AND", 2, <<Var(1), Const(3, 2)>>), Op("INT_ADD", 2, <<Out(1), v>>), Op("INT_AND", 2, <<Out(2), Const(7, 2)>>)>> :
       v \in {Out(1), Const(3, 2)}}
      \cup {<<Op("INT_AND", 2, <<Var(1), Const(3, 2)>>), Op("INT_AND", 2, v), Op("INT_AND", 2, <<Var(2), Var(1)>>),
              Op("INT_OR", 2, <<Out(2), Out(3)>>)>> : v \in {<<Var(2), Out(1)>>, <<Out(1), Var(2)>>}}

BitPrograms == Chains \cup Merges \cup Aligned \cup SharedMasks

-----------------------------------------------------------------------------
(* Compare *)
C2(n) == Const(n, 2)
X(code, v, w) == Op(code, 2, <<v, w>>)
Test(code, v, w) == Op(code, 1, <<v, w>>)
Relations == {"INT_EQUAL", "INT_NOTEQUAL", "INT_LESS", "INT_LESSEQUAL", "INT_SLESS", "INT_SLESSEQUAL", "INT_CARRY"}

\* An input against every constant, in both slots.
Direct ==
    {<<Test(c, Var(1), C2(n))>> : c \in Relations \cup {"INT_SCARRY", "INT_SBORROW"}, n \in 0..15}
      \cup {<<Test(c, C2(n), Var(1))>> : c \in Relations \cup {"INT_SCARRY"}, n \in 0..15}

\* A computed value against the constants a rule looks for.
Feeds ==
    {X(c, Var(1), w) : c \in {"INT_ADD", "INT_XOR"}, w \in {Var(2), C2(8), C2(5)}}
      \cup {X("INT_AND", Var(1), C2(n)) : n \in {8, 12}}
      \cup {X("INT_MULT", Var(1), C2(15)), Op("INT_NEGATE", 2, <<Var(1)>>)}
Computed ==
    {<<f, Test(c, Out(1), C2(n))>> : f \in Feeds, c \in {"INT_EQUAL", "INT_SLESS", "INT_SLESSEQUAL"}, n \in {0, 3, 15}}
      \cup {<<f, Test(c, C2(n), Out(1))>> : f \in Feeds, c \in {"INT_NOTEQUAL", "INT_SLESS"}, n \in {0, 15}}

\* Signs of pieces, of shifted flags and of sums of masked values.
Signs ==
    {<<f, Test("INT_SLESS", v[1], v[2])>> :
       f \in {Op("SUBPIECE", 1, <<Var(1), Const(n, 1)>>) : n \in {0, 1}},
       v \in {<<Out(1), Const(0, 1)>>, <<Const(3, 1), Out(1)>>}}
      \cup {<<Op("PIECE", 4, <<Var(1), Var(2)>>), Test("INT_SLESS", v[1], v[2])>> :
              v \in {<<Out(1), Const(0, 4)>>, <<Const(255, 4), Out(1)>>}}
      \cup {<<Test("INT_LESS", Var(1), Var(2)), Op("INT_LEFT", 1, <<Out(1), Const(1, 1)>>), Test("INT_SLESS", v[1], v[2])>> :
              v \in {<<Out(2), Const(0, 1)>>, <<Const(3, 1), Out(2)>>}}
      \cup {<<X("INT_AND", Var(1), C2(m)), X("INT_AND", Var(2), C2(n)), X(c, Out(1), Out(2)), Test("INT_SLESS", v[1], v[2])>> :
              c \in {"INT_ADD", "INT_XOR"}, m \in {7, 8}, n \in {3, 7}, v \in {<<Out(3), C2(0)>>, <<C2(15), Out(3)>>}}

\* The flags a signed comparison leaves: overflow (un)equal to sign.
Flags(b) ==
    {<<X("INT_MULT", b, C2(15)), X("INT_ADD", Var(1), Out(1)), Test("INT_SLESS", v[1], v[2]),
       Test("INT_SBORROW", Var(1), b), Test(c, Out(3), Out(4))>> :
       v \in {<<Out(2), C2(0)>>, <<C2(0), Out(2)>>}, c \in Equality}
Borrows == Flags(Var(2)) \cup Flags(C2(3))
Carry(n, w) ==
    {<<X("INT_ADD", Var(1), C2(n)), Test("INT_SLESS", v[1], v[2]), Test("INT_SCARRY", w[1], w[2]), Test(c, Out(3), Out(2))>> :
       v \in {<<Out(1), C2(0)>>, <<C2(0), Out(1)>>}, c \in Equality}
Carries == UNION {Carry(n, <<Var(1), C2(n)>>) \cup Carry(n, <<C2(n), Var(1)>>) : n \in {3, 15}}

\* Equality tests of a difference, and of a narrow sum.
Differences ==
    {<<X("INT_MULT", Var(2), C2(15)), X("INT_ADD", v[1], v[2]), Test("INT_EQUAL", Out(2), C2(0))>> :
       v \in {<<Var(1), Out(1)>>, <<Out(1), Var(1)>>}} \cup
    {<<X("INT_AND", Var(1), C2(3)), X("INT_ADD", Out(1), w), Test("INT_EQUAL", Out(2), C2(0))>> : w \in {Out(1), C2(3)}}

ComparePrograms == Direct \cup Computed \cup Signs \cup Borrows \cup Carries \cup Differences

HiBitPrograms ==
    {<<X("INT_AND", Var(1), C2(8)), X("INT_AND", Var(2), C2(8)), X(c, Out(1), Out(2)), Test("INT_SLESS", Out(3), C2(0))>> :
       c \in {"INT_ADD", "INT_OR", "INT_XOR"}}

-----------------------------------------------------------------------------
(* Bool *)
C1(n) == Const(n, 1)
Bin(code, v, w) == Op(code, 1, <<v, w>>)
Not(v) == Op("BOOL_NEGATE", 1, <<v>>)
Connective == {"BOOL_AND", "BOOL_OR", "BOOL_XOR"}

\* Comparisons of the same operands, and their connectives.
Tests == {Bin(c, Var(1), Var(2)) : c \in {"INT_LESS", "INT_LESSEQUAL", "INT_SLESS", "INT_EQUAL", "INT_NOTEQUAL"}}
Pairs ==
    {<<s, t, Bin(c, Out(1), Out(2))>> : s, t \in Tests, c \in {"BOOL_AND", "BOOL_OR"}}
      \cup {<<Bin("INT_SLESSEQUAL", Var(1), Var(2)), Bin("INT_NOTEQUAL", Var(2), Var(1)), Bin("BOOL_AND", v[1], v[2])>> :
              v \in {<<Out(1), Out(2)>>, <<Out(2), Out(1)>>}}
      \cup {<<Bin("INT_LESS", Var(1), Var(2)), Bin(c, Out(1), w)>> :
              c \in Connective \cup {"INT_AND", "INT_OR", "INT_XOR", "INT_EQUAL", "INT_NOTEQUAL"}, w \in {C1(0), C1(1)}}

\* Negations over shared and unshared values.
Negations ==
    {<<s, Not(Out(1)), t>> : s \in Tests, t \in {Not(Out(2)), Not(Out(1)), Bin("BOOL_AND", Out(1), Out(2)), Bin("INT_ADD", Out(2), Var(1))}}
      \cup {<<Bin("INT_LESS", Var(1), C1(2)), Bin("INT_EQUAL", Var(1), Var(2)), Bin(c, Out(1), Out(2)), Not(Out(3))>> :
              c \in Connective}

\* (A con B) con (A' con C1), where A' is A, its negation or its complement.
Others == {<<Bin("INT_LESS", Var(1), C1(2)), Bin("INT_SLESS", Var(1), Var(2)), Bin("INT_EQUAL", Var(2), C1(1)), a>> :
             a \in {Not(Out(1)), Bin("INT_LESS", C1(1), Var(1)), Bin("INT_LESS", C1(2), Var(1)), Bin("INT_LESSEQUAL", C1(2), Var(1))}}
SharedTests ==
    {o \o <<Bin(c, x[1], x[2]), Bin(d, y[1], y[2]), Bin(e, Out(5), Out(6))>> :
       o \in Others, c, d \in {"BOOL_AND", "BOOL_OR"}, e \in {"BOOL_AND", "BOOL_OR", "INT_EQUAL", "INT_NOTEQUAL"},
       x \in {<<Out(1), Out(2)>>}, y \in {<<Out(4), Out(3)>>, <<Out(3), Out(1)>>}}
\* Connectives whose operands are connectives.
Nested ==
    {<<Bin("INT_LESS", Var(1), Var(2)), Bin("INT_SLESS", Var(1), Var(2)), Bin(c, Out(1), Out(2)), Not(Out(1)), Not(Out(2)),
       Bin(d, Out(5), Out(4)), Bin("BOOL_AND", Out(3), Out(1)), Bin("BOOL_AND", Out(6), Out(2)), Bin("BOOL_OR", Out(7), Out(8))>> :
       c \in Connective, d \in Connective}

BoolPrograms == Pairs \cup Negations \cup SharedTests \cup Nested

-----------------------------------------------------------------------------
(* Shift *)
Amounts == {Const(n, 4) : n \in {1, 2}}
Shifted(v) == {Op(c, 2, <<v, n>>) : c \in Shift, n \in Amounts}
                \cup {Op("INT_MULT", 2, <<v, Const(n, 2)>>) : n \in {2, 6}}
Masked2(v) == {Op(c, 2, <<v, Const(n, 2)>>) : c \in {"INT_AND", "INT_OR"}, n \in {3, 12, 14, 8}}

\* Shifts over shifts, masks over shifts, shifts over masks.
Twice ==
    {<<o, p>> : o \in Shifted(Var(1)), p \in Shifted(Out(1)) \cup Masked2(Out(1))}
      \cup {<<o, p>> : o \in Masked2(Var(1)) \cup {Op("INT_ADD", 2, <<Var(1), Const(12, 2)>>)},
                       p \in Shifted(Out(1)) \cup {Op("SUBPIECE", 1, <<Out(1), Const(1, 4)>>)}}

\* The left shift of a pair has a second reader.
SharedShift ==
    {<<Op("INT_LEFT", 2, <<Var(1), Const(2, 4)>>), Op(c, 2, <<Out(1), Const(2, 4)>>),
       Op("INT_OR", 2, <<Out(1), Const(1, 2)>>)>> : c \in {"INT_RIGHT", "INT_SRIGHT"}}

\* Comparisons of a shifted value, and of the extracted sign.
Compared ==
    {<<o, Op(c, 1, <<Out(1), Const(n, 2)>>)>> :
       o \in Shifted(Var(1)) \cup {Op("INT_DIV", 2, <<Var(1), Const(4, 2)>>)},
       c \in {"INT_EQUAL", "INT_NOTEQUAL"}, n \in {0, 1, 4, 15}}
      \cup {<<Op("INT_AND", 2, <<Var(1), Const(m, 2)>>), Op(c, 2, <<Out(1), Const(n, 2)>>),
              Op("INT_EQUAL", 1, <<Out(2), Const(4, 2)>>)>> :
              m \in {3, 12}, c \in {"INT_LEFT", "INT_RIGHT", "INT_DIV"}, n \in {1, 2}}
      \cup {<<Op(c, 2, <<Var(1), Const(3, 4)>>), Op("INT_ADD", 2, <<Out(1), Const(1, 2)>>),
              Op("INT_NOTEQUAL", 1, <<Out(1), Const(n, 2)>>), Op("INT_EQUAL", 1, <<Out(1), Const(0, 2)>>)>> :
              c \in {"INT_RIGHT", "INT_SRIGHT"}, n \in {0, 15}}

\* Shifts of concatenations and of disjunctions under a mask.
ShiftedPieces ==
    {<<Op("PIECE", 2, <<Var(2), Var(2)>>), Op(c, 2, <<Out(1), Const(n, 4)>>)>> :
       c \in {"INT_RIGHT", "INT_SRIGHT"}, n \in {1, 2, 3}}
      \cup {<<Op("PIECE", 2, <<Var(2), Var(2)>>), Op(c, 2, <<Out(1), Const(n, 4)>>), Op("INT_AND", 2, <<Out(2), Const(m, 2)>>)>> :
              c \in {"INT_LEFT", "INT_RIGHT"}, n \in {1, 2}, m \in {1, 3, 12}}
      \cup {<<Op("INT_ZEXT", 2, <<Var(2)>>), Op("INT_LEFT", 2, <<Var(1), Const(2, 4)>>), Op("INT_OR", 2, <<Out(1), Out(2)>>),
              Op(c, 2, <<Out(3), Const(1, 4)>>), Op("INT_AND", 2, v)>> :
              c \in {"INT_LEFT", "INT_RIGHT"}, v \in {<<Out(4), Out(1)>>, <<Const(2, 2), Out(4)>>}}

\* A shift by the whole width or by nothing.
Extreme == {<<Op(c, 2, <<Var(1), Const(n, 4)>>)>> : c \in Shift, n \in {0, 4, 5}}

\* An arithmetic shift by the width of a masked value.
SaturatedPrograms == {<<Op("INT_AND", 2, <<Var(1), Const(m, 2)>>), Op("INT_SRIGHT", 2, <<Out(1), Const(n, 4)>>)>> :
                        m \in {7, 8}, n \in {3, 4}}

ShiftPrograms == Twice \cup SharedShift \cup Compared \cup ShiftedPieces \cup Extreme

-----------------------------------------------------------------------------
(* Piece *)
\* x has two bytes, y one.
C4(n) == Const(n, 4)
ExtY(c, s) == Op(c, s, <<Var(2)>>)
Sub(v, off, s) == Op("SUBPIECE", s, <<v, C4(off)>>)
\* Every way to take one byte or two out of a value of s bytes.
Cuts(v, s) == {Sub(v, p[1], p[2]) : p \in {q \in (0..s - 1) \X (1..s - 1) : q[1] + q[2] <= s}}

\* A truncation of an extension, a concatenation, a shift, a mask or a sum.
Truncated ==
    {<<o, p>> : o \in {Op("INT_ZEXT", 3, <<Var(1)>>), Op("PIECE", 3, <<Var(1), Var(2)>>)}, p \in Cuts(Out(1), 3)}
      \cup {<<Op("INT_SEXT", 3, <<Var(1)>>), p>> : p \in Cuts(Out(1), 3) \ {Sub(Out(1), 2, 1)}}
      \cup {<<o, p>> : o \in {Op(c, 2, <<Var(1), C4(n)>>) : c \in Shift, n \in {1, 2, 3}}
                               \cup {Op(c, 2, <<Var(1), Const(n, 2)>>) : c \in {"INT_AND", "INT_ADD", "INT_MULT"}, n \in {3, 6}}
                               \cup {Op("INT_NEGATE", 2, <<Var(1)>>)},
                       p \in Cuts(Out(1), 2)}

\* A truncation extended again, with a shift between, or used a second time.
Restored ==
    {<<Sub(Var(1), off, 1), Op(c, 2, <<Out(1)>>)>> : off \in {0, 1}, c \in Ext}
      \cup {<<Sub(Var(1), off, 1), Op("INT_RIGHT", 1, <<Out(1), C4(1)>>), Op("INT_ZEXT", 2, <<Out(2)>>)>> : off \in {0, 1}}
      \cup {<<Sub(Var(1), 1, 1), Op("INT_ZEXT", 2, <<Out(1)>>), Op("INT_NEGATE", 1, <<Out(1)>>)>>}
      \cup {<<Sub(Var(1), 1, 1), Sub(Var(1), 0, 1), Op("PIECE", 2, v)>> : v \in {<<Out(1), Out(2)>>, <<Out(2), Out(1)>>}}
      \cup {<<Op("PIECE", 3, <<Var(1), Var(2)>>), Sub(Out(1), 1, 2), Sub(Out(2), off, 1)>> : off \in {0, 1}}
      \cup {<<Op("PIECE", 4, <<Var(1), Var(1)>>), Sub(Out(1), 3, 1), Sub(Out(1), off, 1), Op("PIECE", 2, <<Out(2), Out(3)>>)>> :
              off \in {1, 2}}

\* Extensions under shifts, masks, comparisons and each other.
Widened ==
    {<<ExtY(c, 2), p>> : c \in Ext,
       p \in {Op("INT_RIGHT", 2, <<Out(1), C4(1)>>), Op("INT_AND", 2, <<Out(1), Const(3, 2)>>),
              Op("INT_AND", 2, <<Out(1), Const(6, 2)>>), Op("PIECE", 3, <<Out(1), Var(2)>>), Op("INT_ZEXT", 3, <<Out(1)>>)}
             \cup {Op(k, 1, v) : k \in {"INT_EQUAL", "INT_LESS", "INT_SLESS", "INT_SLESSEQUAL"},
                                 v \in {<<Out(1), Const(1, 2)>>, <<Const(3, 2), Out(1)>>, <<Out(1), Var(1)>>, <<Out(1), Const(12, 2)>>}}}
      \cup {<<ExtY("INT_ZEXT", 2), Op("INT_LEFT", 2, <<Out(1), C4(n)>>), Op("INT_ZEXT", 3, <<Out(2)>>)>> : n \in {1, 2, 3}}
      \cup {<<ExtY("INT_ZEXT", 2), Op("INT_AND", 2, <<Out(1), Const(n, 2)>>), Op("INT_EQUAL", 1, <<Out(2), Const(0, 2)>>)>> : n \in {1, 12}}
      \cup {<<Sub(Var(1), off, 1), Op("INT_AND", 1, <<Out(1), Const(2, 1)>>), Op("INT_NOTEQUAL", 1, <<Out(2), Const(0, 1)>>)>> :
              off \in {0, 1}}

\* Concatenations of computed halves, under a mask.
Joined ==
    {<<Op("PIECE", 2, v)>> : v \in {<<Const(0, 1), Var(2)>>, <<Var(2), Const(0, 1)>>}}
      \cup {<<Op(c, 1, <<Var(2), Const(n, 1)>>), Op("PIECE", 2, v)>> :
              c \in {"INT_AND", "INT_OR", "INT_XOR", "INT_SRIGHT"}, n \in {1, 2}, v \in {<<Out(1), Var(2)>>, <<Var(2), Out(1)>>}}
      \cup {<<Op("PIECE", 2, <<Var(2), Var(2)>>), Op("INT_AND", 2, v)>> :
              v \in {<<Out(1), Const(3, 2)>>, <<Out(1), Const(12, 2)>>, <<Const(2, 2), Out(1)>>, <<Out(1), Const(6, 2)>>}}
      \cup {<<o, p, Op(c, 2, <<Out(1), Out(2)>>)>> : c \in {"INT_AND", "INT_XOR"},
              o \in {ExtY("INT_ZEXT", 2), Op("INT_RIGHT", 2, <<Var(1), C4(1)>>)},
              p \in {ExtY("INT_ZEXT", 2), Op("INT_RIGHT", 2, <<Var(1), C4(1)>>), ExtY("INT_SEXT", 2)}}

\* Truncated divisions of extended values.
Divided ==
    {<<Op(e, s, <<Var(2)>>), Op(f, s, <<w>>), Op(c, s, <<Out(1), Out(2)>>), Sub(Out(3), 0, n)>> :
       e \in Ext, f \in Ext, s \in {3}, w \in {Var(1), Var(2)}, c \in {"INT_DIV", "INT_SREM"}, n \in {1, 2}}
      \cup {<<Op(e, 2, <<Var(2)>>), Op(c, 2, <<Out(1), Const(n, 2)>>), Sub(Out(2), 0, 1)>> :
              e \in Ext, c \in {"INT_REM", "INT_SDIV"}, n \in {2, 14}}

      \cup {<<Op("INT_ZEXT", 4, <<Var(1)>>), Op("INT_ZEXT", 4, <<Var(1)>>), Op("INT_REM", 4, <<Out(1), Out(2)>>), Sub(Out(3), 0, 1)>>}

\* A cut above a sign-extended value must take as many bytes as that value has:
\* RuleSignForm shifts the value itself, whatever the width of the cut.
Wideners == ({"INT_ZEXT", "INT_SEXT"} \X {Var(1), Var(2)}) \ {<<"INT_SEXT", Var(2)>>}
\* Four bytes shifted, cut and joined; a cut through an operation of two extended values.
Deep ==
    {<<Op("PIECE", 4, <<Var(1), Var(1)>>), Op(c, 4, <<Out(1), C4(n)>>), p>> : c \in Shift, n \in {1, 4},
       p \in {Sub(Out(2), d[1], d[2]) : d \in {<<0, 1>>, <<0, 2>>, <<1, 2>>, <<2, 2>>}}}
      \cup {<<Op("PIECE", 4, <<Var(1), Var(1)>>), Op(c, 4, <<Out(1), C4(n)>>), Sub(Out(2), 2, 1)>> : c \in {"INT_LEFT", "INT_RIGHT"}, n \in {1, 4}}
      \cup {<<Op("INT_SEXT", 4, <<Var(1)>>), Op(c, 4, <<Out(1), C4(n)>>), p>> : c \in Shift, n \in {1, 4},
              p \in {Sub(Out(2), d[1], d[2]) : d \in {<<0, 2>>, <<2, 2>>}}}
      \cup {<<Op(e, 3, <<Var(1)>>), Op(f, 3, <<w>>), Op(c, 3, <<Out(1), Out(2)>>), Sub(Out(3), 0, 1)>> :
              e, f \in Ext, w \in {Var(1), Var(2)}, c \in {"INT_ADD", "INT_MULT", "INT_AND"}}
      \cup {<<Op(e, 3, <<Var(1)>>), Op(f[1], 3, <<f[2]>>), Op(c, 3, <<Out(1), Out(2)>>), Sub(Out(3), 1, 2)>> :
              e \in Ext, f \in Wideners, c \in {"INT_ADD", "INT_MULT", "INT_AND"}}

\* Booleans extended and multiplied by -1.
Booleans ==
    {<<Op("INT_EQUAL", 1, <<Var(2), Const(1, 1)>>), Op("INT_ZEXT", 2, <<Out(1)>>), Op("INT_MULT", 2, <<Out(2), Const(15, 2)>>),
       Op(c, IF c = "INT_ADD" THEN 2 ELSE 1, <<Out(3), Const(n, 2)>>)>> :
       c \in {"INT_ADD", "INT_EQUAL", "INT_NOTEQUAL"}, n \in {0, 1, 15}}
      \cup {<<Op("INT_LESS", 1, <<Var(2), Const(2, 1)>>), Op("INT_EQUAL", 1, <<Var(1), Const(3, 2)>>),
              Op("INT_ZEXT", 2, <<Out(1)>>), Op("INT_ZEXT", 2, <<Out(2)>>),
              Op("INT_MULT", 2, <<Out(3), Const(15, 2)>>), Op("INT_MULT", 2, <<Out(4), Const(15, 2)>>),
              Op(c, 2, <<Out(5), Out(6)>>)>> : c \in {"INT_AND", "INT_OR", "INT_XOR"}}

PiecePrograms == Truncated \cup Restored \cup Widened \cup Joined \cup Divided \cup Deep \cup Booleans

-----------------------------------------------------------------------------
(* Div *)
Sign(v, s) == Op("INT_SRIGHT", s, <<v, C4(s * ByteBits - 1)>>)
Minus(v, s) == Op("INT_MULT", s, <<v, Const(2^(s * ByteBits) - 1, s)>>)
Sum(v, w, s) == Op("INT_ADD", s, <<v, w>>)
Right(c, v, n, s) == Op(c, s, <<v, C4(n)>>)

\* The high part of an extended value times a reciprocal, shifted or not,
\* corrected by the sign or not.
Reciprocals ==
    {<<Op("INT_ZEXT", 4, <<Var(1)>>), Op("INT_MULT", 4, <<Out(1), Const(c, 4)>>), Sub(Out(2), 2, 2), Right(r, Out(3), n, 2)>> :
       c \in 2..15, r \in {"INT_RIGHT", "INT_SRIGHT"}, n \in {1, 2}}
      \cup {<<Op(e, 4, <<Var(1)>>), Op("INT_MULT", 4, <<Out(1), Const(c, 4)>>), Sub(Out(2), 2, 2), Right(r, Out(3), n, 2)>> :
       e \in Ext, c \in {17, 20, 26, 43, 52, 103, 171, 205}, r \in {"INT_RIGHT", "INT_SRIGHT"}, n \in {1, 3}}
      \cup {<<Op("INT_ZEXT", 4, <<Var(1)>>), Op("INT_MULT", 4, <<Out(1), Const(c, 4)>>), Right("INT_RIGHT", Out(2), n, 4)>> : c \in {11, 13}, n \in {5, 6}}
      \cup {<<Op("INT_SEXT", 4, <<Var(1)>>), Op("INT_MULT", 4, <<Out(1), Const(c, 4)>>), Sub(Out(2), 2, 2), Right("INT_SRIGHT", Out(3), n, 2),
              Right(r, v, 3, 2), Minus(Out(5), 2), Sum(Out(4), Out(6), 2)>> :
              c \in {3, 6, 7, 11, 12, 15}, n \in {0, 1}, r \in {"INT_SRIGHT"}, v \in {Var(1), Out(4)}}
      \cup {<<Op("INT_SEXT", 4, <<Var(2)>>), Op("INT_MULT", 4, <<Out(1), Const(11, 4)>>), Sub(Out(2), 2, 2), Right(r, Out(3), 3, 2),
              Right("INT_SRIGHT", Out(3), 1, 2), Sum(Out(5), Out(4), 2)>> : r \in {"INT_RIGHT", "INT_SRIGHT"}}
      \cup {<<Op("INT_ZEXT", 3, <<Var(2)>>), Op("INT_MULT", 3, <<Out(1), Const(6, 3)>>), Sub(Out(2), 1, 2)>>}
      \cup {<<Op(e, 4, <<Var(1)>>), Op("INT_MULT", 4, <<Out(1), Const(c, 4)>>), Sub(Out(2), 2, 2), Sum(v[1], v[2], 2)>> :
              e \in Ext, c \in {3, 9}, v \in {<<Var(1), Out(3)>>, <<Out(3), Var(1)>>}}
\* Sums with the multiplied value, narrow or as wide as it comes.
NarrowSums ==
    {<<X("INT_AND", Var(1), C2(3)), Op(e, 4, <<Out(1)>>), Op("INT_MULT", 4, <<Out(2), Const(9, 4)>>), Sub(Out(3), 2, 2), Right(r, Out(4), 1, 2), Sum(Out(1), Out(5), 2)>> :
       e \in Ext, r \in {"INT_RIGHT", "INT_SRIGHT"}}
      \cup {<<Op(e, 4, <<Var(1)>>), Op("INT_MULT", 4, <<Out(1), Const(9, 4)>>), Sub(Out(2), 2, 2), Right(r, Out(3), 1, 2), Sum(Var(1), Out(4), 2)>> :
              e \in Ext, r \in {"INT_RIGHT", "INT_SRIGHT"}}
      \cup {<<X("INT_AND", Var(1), C2(m)), Op("INT_ZEXT", 4, <<Out(1)>>), Op("INT_MULT", 4, <<Out(2), Const(5, 4)>>), Sub(Out(3), 2, 2), Minus(Out(4), 2),
              Sum(Out(1), Out(5), 2), Right("INT_RIGHT", Out(6), 1, 2), Sum(Out(4), Out(7), 2)>> : m \in {7, 15}}
      \cup {<<Op("PIECE", 4, <<Var(1), Var(1)>>), Op("INT_MULT", 4, <<Out(1), Const(c, 4)>>), Sub(Out(2), 2, 2), Sum(Var(1), Out(3), 2)>> : c \in {3, 9}}

\* Quotients and remainders by powers of two, and what resembles them.
PowersOfTwo ==
    {<<Sign(Var(1), 2), Minus(Out(1), 2), Sum(v[1], v[2], 2), Right("INT_SRIGHT", Out(3), n, 2)>> :
       v \in {<<Var(1), Out(2)>>, <<Out(2), Var(1)>>}, n \in {1, 2}}
      \cup {<<Sign(Var(1), 2), Right("INT_RIGHT", Out(1), sa, 2), Sum(Var(1), Out(2), 2), X("INT_AND", Out(3), C2(m)), Minus(Out(2), 2), Sum(Out(4), Out(5), 2)>> :
              sa \in {1, 2, 3}, m \in {1, 3, 7}}
      \cup {<<Sign(Var(1), 2), Minus(Out(1), 2), Sum(Var(1), Out(2), 2), X("INT_AND", Out(3), C2(m)), Sum(Out(4), Out(1), 2)>> : m \in {1, 3}}
      \cup {<<Sign(Var(1), 2), Minus(Out(1), 2), Sum(Var(1), Out(2), 2), X("INT_AND", Out(3), C2(m)), Minus(Out(4), 2), Sum(Var(1), Out(5), 2)>> :
              m \in {8, 12, 14, 15}}
      \cup {<<Sign(Var(1), 2), Right("INT_RIGHT", Out(1), sa, 2), Sum(Var(1), Out(2), 2), X("INT_AND", Out(3), C2(m))>> : sa \in {1, 2, 3}, m \in {14, 12, 8}}
      \cup {<<Sign(Var(1), 2), Sub(Var(1), 0, 1), Sub(Out(1), 1, 1), Right("INT_RIGHT", Out(3), 1, 1), Sum(Out(2), Out(4), 1),
              Op("INT_AND", 1, <<Out(5), C1(1)>>), Op("INT_ZEXT", 2, <<Out(6)>>), Right("INT_RIGHT", Out(1), 3, 2), Minus(Out(8), 2), Sum(Out(7), Out(9), 2)>>}

\* Quotients of quotients, times their divisor, and signs of products.
Quotients ==
    {<<X(c, Var(1), C2(m)), X(d, Out(1), C2(n))>> : c \in {"INT_DIV", "INT_SDIV", "INT_RIGHT"}, d \in {"INT_DIV", "INT_SDIV"}, m \in {1, 2, 3}, n \in {2, 3, 14}}
      \cup {<<Op(e, 3, <<Var(1)>>), Op(c, 3, <<Out(1), Const(m, 3)>>), Op(c, 3, <<Out(2), Const(n, 3)>>)>> :
              e \in Ext, c \in {"INT_DIV", "INT_SDIV"}, m \in {2, 3, 62}, n \in {2, 3, 61, 62}}
      \cup {<<X(c, Var(1), C2(m)), X("INT_MULT", Out(1), C2(k)), X("INT_ADD", Var(1), Out(2))>> : c \in {"INT_DIV", "INT_SDIV"}, m \in {3, 13}, k \in {3, 13}}
      \cup {<<X(c, Var(1), C2(3)), X("INT_MULT", Out(1), C2(3)), X("INT_SUB", Var(1), Out(2))>> : c \in {"INT_DIV", "INT_SDIV"}}
      \cup {<<X("INT_AND", Var(1), C2(m)), X(c, Out(1), C2(3))>> : m \in {7, 12}, c \in {"INT_SDIV", "INT_SREM"}}
      \cup {<<Op("INT_SEXT", 4, <<Var(1)>>), Op("INT_MULT", 4, <<Out(1), Const(k, 4)>>), Sub(Out(2), 2, 2), Sign(Out(3), 2)>> : k \in {5, 11}}
      \cup {<<Op("INT_SEXT", 4, <<Var(1)>>), Op("INT_OR", 1, <<Var(2), C1(1)>>), Op("INT_ZEXT", 4, <<Out(2)>>), Op("INT_MULT", 4, v), Sub(Out(4), 2, 2), Sign(Out(5), 2)>> :
              v \in {<<Out(1), Out(3)>>, <<Out(3), Out(1)>>}}
      \cup {<<Op("INT_SEXT", 4, <<Var(1)>>), Op("INT_ZEXT", 4, <<Var(2)>>), Op("INT_MULT", 4, v), Sub(Out(3), 2, 2), Sign(Out(4), 2)>> :
              v \in {<<Out(1), Out(2)>>, <<Out(2), Out(1)>>}}
      \cup {<<Op("INT_SEXT", 4, <<Var(1)>>), Sub(Out(1), 2, n)>> : n \in {1, 2}} \cup {<<Op("INT_SEXT", 4, <<Var(2)>>), Sub(Out(1), 1, 2)>>}

DivPrograms == Reciprocals \cup NarrowSums \cup PowersOfTwo \cup Quotients

-----------------------------------------------------------------------------
(* Combine *)
Zext(v, s) == Op("INT_ZEXT", s, <<v>>)
\* The sum of the two tests l and e of a three-way compare, in each association, against n.
ThreeWay(l, e, code, n, side) ==
    LET test(k) == Op(code, 1, IF side = 1 THEN <<C2(n), Out(k)>> ELSE <<Out(k), C2(n)>>)
        four == <<l, e, Zext(Out(1), 2), Zext(Out(2), 2)>>
    IN {four \o <<Sum(Out(3), Out(4), 2), Sum(Out(5), C2(15), 2), test(6)>>,
        four \o <<Sum(Out(3), C2(15), 2), Sum(Out(5), Out(4), 2), test(6)>>,
        four \o <<Sum(Out(4), C2(15), 2), Sum(Out(3), Out(5), 2), test(6)>>,
        four \o <<Sum(Out(3), Out(4), 2), test(5)>>}
ThreeWays ==
    UNION {ThreeWay(Bin(c, Var(1), Var(2)), Bin(c \o "EQUAL", Var(1), Var(2)), t, n, side) :
             c \in {"INT_SLESS", "INT_LESS"}, t \in {"INT_SLESS", "INT_SLESSEQUAL", "INT_EQUAL", "INT_NOTEQUAL"}, n \in {0, 1, 2, 15}, side \in {1, 2}}
      \cup UNION {ThreeWay(p[1], p[2], "INT_EQUAL", n, 2) : n \in {0, 1, 15},
             p \in {<<Bin("INT_LESS", Var(1), C1(1)), Bin("INT_LESS", Var(1), C1(2))>>, <<Bin("INT_LESS", Var(1), C1(3)), Bin("INT_LESS", Var(1), C1(2))>>,
                    <<Bin("INT_LESS", C1(1), Var(2)), Bin("INT_LESSEQUAL", C1(2), Var(2))>>, <<Bin("INT_SLESS", Var(1), C1(1)), Bin("INT_SLESS", Var(1), C1(2))>>,
                    <<Bin("INT_LESS", C1(2), Var(1)), Bin("INT_LESS", C1(1), Var(1))>>, <<Bin("INT_SLESS", C1(0), Var(1)), Bin("INT_SLESS", C1(1), Var(1))>>}}

Both(v, w) == {<<v, w>>, <<w, v>>}
ZeroTests ==
    {<<Bin("INT_XOR", Var(1), Var(2)), Op("INT_XOR", 1, p)>> : p \in Both(Out(1), Var(1)) \cup Both(Out(1), Var(2))}
      \cup {<<Op("LZCOUNT", p[1], <<Var(1)>>), Op(p[2], p[1], <<Out(1), C4(1)>>)>> : p \in {<<1, "INT_RIGHT">>, <<2, "INT_RIGHT">>, <<2, "INT_SRIGHT">>}}
      \cup {<<Bin("INT_OR", Var(1), Var(2)), Bin(c, Out(1), C1(0)), Bin(d, Out(1), C1(0))>> : c, d \in Equality}

\* A high part shifted above a low one, in two bytes and in three; the high
\* part the sign of the low one; a shifted value cut or joined.
Pieces ==
    {<<Op(e, s, <<Var(1)>>), Op("INT_LEFT", s, <<Out(1), C4(2)>>), Zext(Var(2), s), Op(c, s, p)>> :
       e \in Ext, s \in {2, 3}, c \in {"INT_OR", "INT_XOR", "INT_ADD"}, p \in Both(Out(2), Out(3))}
      \cup {<<Op("PIECE", 2, <<Var(1), Var(2)>>), X("INT_AND", Out(1), C2(3)), Sub(Out(2), 0, 1), Op("INT_SRIGHT", 1, <<Out(3), C4(1)>>),
              Zext(Out(4), 2), Op("INT_LEFT", 2, <<Out(5), C4(2)>>), Op("INT_OR", 2, p)>> : p \in Both(Out(2), Out(6))}
      \cup {<<Zext(Var(2), 2), Op("INT_LEFT", 2, <<Out(1), C4(n)>>), Op("PIECE", 3, <<Var(1), Out(2)>>)>> : n \in {1, 2}}
      \cup {<<Op("PIECE", 2, <<Var(1), Var(2)>>), Op("INT_LEFT", 2, <<Out(1), C4(n)>>), Sub(Out(2), c, 1)>> : n \in {1, 2}, c \in {0, 1}}
LatePieces ==
    {<<Op("COPY", 1, <<Var(1)>>), Op("PIECE", 2, <<Out(1), Var(2)>>), Op("PIECE", 3, <<Out(2), Var(1)>>), p>> : p \in Cuts(Out(3), 3)}
      \cup {<<Op("COPY", 1, <<Var(1)>>), Op("PIECE", 2, <<Out(1), Var(2)>>), Op("PIECE", 3, <<Out(2), Var(1)>>), Sub(Out(3), c, 1),
              Op("INT_NEGATE", 1, <<Out(4)>>)>> : c \in {0, 1, 2}}

\* Sums of equal and of scaled terms.
Add1(v, w) == Bin("INT_ADD", v, w)
Times(v, n) == Bin("INT_MULT", v, C1(n))
Sums ==
    {<<Add1(Var(1), Var(2)), Op("INT_ADD", 1, p)>> : p \in Both(Out(1), Var(1)) \cup Both(Out(1), Var(2))}
      \cup {<<Times(Var(1), m), Add1(Out(1), Var(2)), Op("INT_ADD", 1, p)>> : m \in {2, 3}, p \in Both(Out(2), Var(1))}
      \cup {<<Times(Var(1), m), Times(Var(1), 2), Add1(Out(1), Out(2)), Add1(Out(3), Var(2))>> : m \in {2, 3}}
      \cup {<<Add1(Var(1), C1(m)), Add1(Var(2), C1(n)), Add1(Out(1), Out(2))>> : m \in {1, 3}, n \in {2, 1}}
      \cup {<<Add1(Var(1), v), Times(Out(1), m), Op("INT_ADD", 1, p)>> : v \in {Var(2), C1(1)}, m \in {2, 3}, p \in Both(Out(2), Var(1)) \cup Both(Out(2), C1(1))}

\* The parity of one or two shifted booleans.
Parities ==
    {<<Bin("INT_LESS", Var(1), Var(2)), Bin("INT_EQUAL", Var(1), Var(2)), Op("INT_LEFT", 1, <<Out(1), C4(1)>>), Op(c, 1, p),
       Op("POPCOUNT", 1, <<Out(4)>>), Op("INT_AND", 1, <<Out(5), C1(1)>>)>> :
       c \in {"INT_OR", "INT_XOR"}, p \in Both(Out(3), Out(2)) \cup {<<Out(3), C1(1)>>}}
      \cup {<<Bin("INT_LESS", Var(1), Var(2)), Op(e, 2, <<Out(1)>>), Op("INT_LEFT", 2, <<Out(2), C4(n)>>), Op("INT_RIGHT", 2, <<Out(3), C4(1)>>),
              Op("POPCOUNT", 1, <<Out(4)>>), Op("INT_AND", 1, <<Out(5), C1(1)>>)>> : e \in Ext, n \in {0, 1, 3}}
      \cup {<<Bin("INT_LESS", Var(1), Var(2)), Bin("INT_EQUAL", Var(1), Var(2)), Op("PIECE", 2, <<Out(1), Out(2)>>), p,
              Op("POPCOUNT", 1, <<Out(4)>>), Op("INT_AND", 1, <<Out(5), C1(1)>>)>> :
              p \in {X("INT_AND", Out(3), C2(5)), X("INT_AND", Out(3), C2(4)), Sub(Out(3), 1, 1)}}

CombinePrograms == ThreeWays \cup ZeroTests \cup Pieces \cup Sums \cup Parities
-----------------------------------------------------------------------------
AnalysisPrograms ==
    With(Based, ArithPrograms \cup BitPrograms) \cup With(Wide, ComparePrograms)
      \cup With(Narrow, BoolPrograms) \cup With(Mixed, ShiftPrograms \cup PiecePrograms)
BlocksForCleanup == For("cleanup", Based, CleanupPrograms)
AllBlocks == AnalysisPrograms \cup BlocksForCleanup
CombineBlocks == With(Narrow, CombinePrograms) \cup For("cleanup", Narrow, LatePieces)
StaleBlocks == With(Wide, {<<X("INT_AND", Var(1), C2(12)), X("INT_AND", Var(2), C2(12)), Sum(Out(1), C2(4), 2), Sum(Out(2), C2(3), 2), Sum(Out(4), Out(3), 2), X("INT_AND", Out(5), C2(12))>>})
MinimumBlocks == With(Wide, Carry(8, <<Var(1), C2(8)>>) \cup Carry(8, <<C2(8), Var(1)>>) \cup HiBitPrograms)
RecoverBlocks == With(Mixed, DivPrograms \cup SaturatedPrograms) \cup CombineBlocks \cup MinimumBlocks \cup StaleBlocks

\* x - ((x - sign) & -4), the remainder of rules_divmod_test.go.
RemainderBlocks ==
    With(Wide, {<<Sign(Var(1), 2), Minus(Out(1), 2), Sum(Var(1), Out(2), 2), X("INT_AND", Out(3), C2(12)), Minus(Out(4), 2), Sum(Out(5), Var(1), 2)>>})
=============================================================================
