---------------------------- MODULE HeritageGraph ----------------------------
(***************************************************************************)
(* The function a heritage pass edits and the edits it makes: creating     *)
(* varnodes and ops, placing ops in blocks, and bringing the reads, writes *)
(* and inputs of a range to the size of the range (funcdata.go,            *)
(* heritage.go).                                                           *)
(*                                                                         *)
(* A function f has                                                        *)
(*   f.vn   varnodes: range, defining op (0: none), input, active          *)
(*          (ActiveHeritage) and mask (WriteMask) flags;                   *)
(*   f.op   ops: code, inputs, output (0: none), the loc its output stood  *)
(*          for when it was made, cut (SUBPIECE) and cause (INDIRECT); rd  *)
(*          lists the locations a program op reads;                        *)
(*   f.blk  the op ids of every block, in order.                           *)
(* Constants are not varnodes here: the truncation of a SUBPIECE, the      *)
(* cause of an INDIRECT and the input of an INDIRECT creation are fields.  *)
(* -n is the constant 0 of n bytes that dead-code removal puts in a read.  *)
(***************************************************************************)
EXTENDS HeritageRanges, Steps

NoLoc == At("none", 0, 0)

Ids(s) == 1..Len(s)
\* The ids of the set, of 1..n, in the order of their creation.
InOrder(S, n) == SelectSeq([k \in 1..n |-> k], LAMBDA x : x \in S)
\* The ops of the function; a program op that dead-code removal destroyed keeps
\* its place with code "dead", so that the program can still be run.
Live(f) == {o \in UNION {ToSet(f.blk[b]) : b \in DOMAIN f.blk} : f.op[o].code # "dead"}
BlockOf(f, o) == CHOOSE b \in DOMAIN f.blk : o \in ToSet(f.blk[b])
IsWritten(f, v) == f.vn[v].def # 0
SizeOf(f, v) == IF v < 0 THEN -v ELSE f.vn[v].size
IsHeritageKnown(f, v) == v < 0 \/ f.vn[v].def # 0 \/ f.vn[v].input
Readers(f, v) == {o \in Ids(f.op) : \E k \in DOMAIN f.op[o].in : f.op[o].in[k] = v}
HasNoDescend(f, v) == Readers(f, v) = {}
SlotOf(f, o, v) == SelectInSeq(f.op[o].in, LAMBDA x : x = v)

-----------------------------------------------------------------------------
(* Varnodes and ops *)

Varnode(r, def) == [sp |-> r.sp, off |-> r.off, size |-> r.size, def |-> def, input |-> FALSE, active |-> FALSE, mask |-> FALSE]
FreeAt(r) == Varnode(r, 0)
ActiveAt(r, def) == [Varnode(r, def) EXCEPT !.active = TRUE]
OpRec(code, in, loc) ==
    [code |-> code, in |-> in, out |-> 0, loc |-> RangeOf(loc), cut |-> 0, cause |-> 0, rd |-> <<>>, ret |-> FALSE]
Subpiece(v, whole, r) == [OpRec("SUBPIECE", <<v>>, r) EXCEPT !.cut = r.off - whole.off]

LastOp(f) == Len(f.op)
LastVn(f) == Len(f.vn)
NewVarnode(f, vn) == [f EXCEPT !.vn = Append(@, vn)]
Active(f, vs) == Each(LAMBDA g, v : [g EXCEPT !.vn[v].active = TRUE], f, InOrder(vs, LastVn(f)))
Masked(f, vs) == Each(LAMBDA g, v : [g EXCEPT !.vn[v].mask = TRUE], f, InOrder(vs, LastVn(f)))
\* A new op whose output is a new varnode, and one that defines the free varnode v.
NewOpOut(f, op, r) ==
    [f EXCEPT !.op = Append(@, [op EXCEPT !.out = LastVn(f) + 1]), !.vn = Append(@, Varnode(r, LastOp(f) + 1))]
NewOpDefining(f, op, v) ==
    [f EXCEPT !.op = Append(@, [op EXCEPT !.out = v]), !.vn[v].def = LastOp(f) + 1]

\* A free varnode at r made an input of the function.
NewInput(f, r) == NewVarnode(f, [FreeAt(r) EXCEPT !.input = TRUE])
FindVarnodeInput(f, r) == {v \in Ids(f.vn) : f.vn[v].input /\ RangeOf(f.vn[v]) = r}

-----------------------------------------------------------------------------
(* Placing an op in a block *)

PlaceAt(f, o, b, k) == [f EXCEPT !.blk[b] = InsertAt(@, k, o)]
CodeAt(f, b, k) == IF k \in DOMAIN f.blk[b] THEN f.op[f.blk[b][k]].code ELSE "none"
Position(f, b, o) == SelectInSeq(f.blk[b], LAMBDA x : x = o)
\* The first position from k up, or the last one down to k, that does not
\* cross an op of that code.
PastCode(f, b, k, code) == Min({j \in k..Len(f.blk[b]) + 1 : CodeAt(f, b, j) # code})
BeforeCode(f, b, k, code) == Max({j \in 1..k : CodeAt(f, b, j - 1) # code})

OpInsertBegin(f, o, b) ==
    PlaceAt(f, o, b, IF f.op[o].code = "MULTIEQUAL" THEN 1 ELSE PastCode(f, b, 1, "MULTIEQUAL"))
\* Any op but an INDIRECT goes in front of the INDIRECTs attached to follow.
OpInsertBefore(f, o, follow) ==
    LET b == BlockOf(f, follow)
        k == Position(f, b, follow)
    IN PlaceAt(f, o, b, IF f.op[o].code = "INDIRECT" THEN k ELSE BeforeCode(f, b, k, "INDIRECT"))
\* After an INDIRECT means after the op that causes it.
OpInsertAfter(f, o, prev) ==
    LET p == IF f.op[prev].code = "INDIRECT" /\ f.op[prev].cause \in Live(f) THEN f.op[prev].cause ELSE prev
        b == BlockOf(f, p)
    IN PlaceAt(f, o, b, PastCode(f, b, Position(f, b, p) + 1, "MULTIEQUAL"))
\* The op made last, put before or after another, or at the head of the entry block.
LastBefore(e, follow) == Then(e, LAMBDA f : OpInsertBefore(f, LastOp(f), follow))
LastAfter(e, prev) == Then(e, LAMBDA f : OpInsertAfter(f, LastOp(f), prev))
LastAtEntry(e) == Then(e, LAMBDA f : OpInsertBegin(f, LastOp(f), 0))

\* An INDIRECT that carries a value of r past op o, or creates one.
NewIndirectOp(f, o, r) ==
    LET n == LastVn(f)
        ind == [OpRec("INDIRECT", <<n + 1>>, r) EXCEPT !.cause = o, !.out = n + 2]
    IN LastBefore([f EXCEPT !.vn = @ \o <<ActiveAt(r, 0), ActiveAt(r, LastOp(f) + 1)>>, !.op = Append(@, ind)], o)
NewIndirectCreation(f, o, r) == LastBefore(NewOpOut(f, [OpRec("INDIRECT", <<>>, r) EXCEPT !.cause = o], r), o)
\* Op o reads one more varnode, made just now.
AppendInput(f, o, v, r) == [f EXCEPT !.op[o].in = Append(@, v), !.op[o].rd = Append(@, r)]
AppendRead(f, o, r) == AppendInput(NewVarnode(f, ActiveAt(r, 0)), o, LastVn(f) + 1, r)

-----------------------------------------------------------------------------
(* Collect *)

StatusOrder(f, v) == IF f.vn[v].input THEN 0 ELSE IF f.vn[v].def # 0 THEN 1 ELSE 2
\* The order of the varnode bank.
LocBefore(f, v, w) ==
    LET a == f.vn[v]
        b == f.vn[w]
    IN \/ a.off < b.off
       \/ a.off = b.off /\ a.size < b.size
       \/ a.off = b.off /\ a.size = b.size /\ StatusOrder(f, v) < StatusOrder(f, w)
       \/ a.off = b.off /\ a.size = b.size /\ StatusOrder(f, v) = StatusOrder(f, w) /\ v < w
LocSorted(f, vs) == SortSeq(InOrder(vs, LastVn(f)), LAMBDA v, w : LocBefore(f, v, w))

Collect(f, r) ==
    Then({v \in Ids(f.vn) : Overlap(f.vn[v], r) /\ ~f.vn[v].mask}, LAMBDA vs :
         [reads |-> LocSorted(f, {v \in vs : ~IsHeritageKnown(f, v) /\ ~HasNoDescend(f, v)}),
          writes |-> LocSorted(f, {v \in vs : IsWritten(f, v)}),
          inputs |-> LocSorted(f, {v \in vs : f.vn[v].input})])
Participants(got) == ToSet(got.reads) \cup ToSet(got.writes) \cup ToSet(got.inputs)
MaxWriteSize(f, ws) == Max({f.vn[ws[k]].size : k \in DOMAIN ws} \cup {0})

-----------------------------------------------------------------------------
(* One size for a range *)

\* The smaller read v becomes a SUBPIECE of a new read of the whole range.
normalizeReadSize(f, v, r) ==
    LET big == LastVn(f) + 1
        o == CHOOSE x \in Readers(f, v) : TRUE
        g == [f EXCEPT !.vn = Append([@ EXCEPT ![v].mask = TRUE], FreeAt(r))]
    IN LastBefore(NewOpDefining(g, Subpiece(big, r, f.vn[v]), v), o)

\* The rest of the range around a smaller write, at def: created by a call
\* that may change it (keeps are the ranges calls leave alone), else cut from a
\* new read of the whole range.
RestOfRange(f, def, r, piece, keeps) ==
    IF piece.size = 0 THEN f
    ELSE IF f.op[def].code = "call" /\ ~\E e \in keeps : Inside(piece, e) THEN NewIndirectCreation(f, def, piece)
    ELSE LastBefore(NewOpOut(NewVarnode(f, ActiveAt(r, 0)), Subpiece(LastVn(f) + 1, r, piece), piece), def)
Concat(f, high, low, r, after) == LastAfter(NewOpOut(f, OpRec("PIECE", <<high, low>>, r), r), after)

\* The smaller write v is concatenated with the rest of the range; the result
\* is the write renaming sees.
normalizeWriteSize(f, v, r, keeps) ==
    LET vn == f.vn[v]
        high == At(r.sp, End(vn), End(r) - End(vn))
        low == At(r.sp, r.off, vn.off - r.off)
        least == At(r.sp, r.off, End(vn) - r.off)
        lower(f2) == IF low.size = 0 THEN f2 ELSE Concat(f2, v, LastVn(f2), least, vn.def)
        upper(f3, mostvn) ==
            LET mid == IF low.size = 0 THEN v ELSE LastVn(f3)
            IN IF high.size = 0 THEN [f |-> f3, v |-> mid]
               ELSE [f |-> Concat(f3, mostvn, mid, r, f3.vn[mid].def), v |-> LastVn(f3) + 1]
    IN Then(RestOfRange([f EXCEPT !.vn[v].mask = TRUE], vn.def, r, high, keeps), LAMBDA f1 :
       Then(RestOfRange(f1, vn.def, r, low, keeps), LAMBDA f2 :
       Then(lower(f2), LAMBDA f3 : upper(f3, LastVn(f1)))))

\* Every smaller read and write; rs and ws are the reads and writes to use afterwards.
normalizeRange(f, r, reads, writes, keeps) ==
    LET read(acc, v) ==
            IF acc.f.vn[v].size >= r.size \/ Cardinality(Readers(acc.f, v)) # 1 THEN [acc EXCEPT !.rs = Append(@, v)]
            ELSE [acc EXCEPT !.f = normalizeReadSize(@, v, r), !.rs = Append(@, LastVn(acc.f) + 1)]
        write(acc, v) ==
            IF acc.f.vn[v].size >= r.size THEN [acc EXCEPT !.ws = Append(@, v)]
            ELSE Then(normalizeWriteSize(acc.f, v, r, keeps), LAMBDA n : [acc EXCEPT !.f = n.f, !.ws = Append(@, n.v)])
    IN Each(write, Each(read, [f |-> f, rs |-> <<>>, ws |-> <<>>], reads), writes)

-----------------------------------------------------------------------------
(* Concatenating and cutting *)

\* A chain of PIECEs over vs (in address order) that defines v, before op o,
\* or at the head of the entry block when o is 0.
concatPieces(f, vs, o, v) ==
    LET n == Len(vs) - 1
        \* acc: the function, the value so far and the op that made it
        link(acc, k) ==
            LET whole == At("unique", 0, acc.f.vn[acc.low].size + acc.f.vn[vs[k + 1]].size)
                rec == OpRec("PIECE", <<vs[k + 1], acc.low>>, whole)
                made == IF k = n THEN NewOpDefining(acc.f, rec, v) ELSE NewOpOut(acc.f, rec, whole)
            IN [f |-> IF o # 0 THEN LastBefore(made, o)
                      ELSE IF k > 1 THEN LastAfter(made, acc.prev) ELSE LastAtEntry(made),
                low |-> LastVn(acc.f) + 1, prev |-> LastOp(acc.f) + 1]
    IN Each(link, [f |-> f, low |-> vs[1], prev |-> 0], [k \in 1..n |-> k]).f

\* Each piece a SUBPIECE of v, after op prev, or at the head of the entry block.
splitPieces(f, pieces, prev, whole, v) ==
    LET cut(acc, p) ==
            LET made == NewOpOut(acc.f, Subpiece(v, whole, p), p)
            IN [f |-> IF acc.prev # 0 THEN LastAfter(made, acc.prev) ELSE LastAtEntry(made), prev |-> LastOp(acc.f) + 1]
    IN Each(cut, [f |-> f, prev |-> prev], pieces).f

\* The inputs of r (in address order) and the gaps between them.
RECURSIVE FillInputs(_, _, _, _, _)
FillInputs(f, r, ins, cur, done) ==
    LET gap == At(r.sp, cur, (IF ins = <<>> THEN End(r) ELSE f.vn[Head(ins)].off) - cur)
    IN IF cur >= End(r) THEN [f |-> f, vs |-> done]
       ELSE IF gap.size > 0 THEN Then(NewInput(f, gap), LAMBDA g : FillInputs(g, r, ins, End(gap), Append(done, LastVn(g))))
       ELSE FillInputs(f, r, Tail(ins), cur + f.vn[Head(ins)].size, Append(done, Head(ins)))
guardInput(f, r, ins) ==
    IF ins = <<>> \/ (Len(ins) = 1 /\ f.vn[ins[1]].size = r.size) THEN f
    ELSE Then(FillInputs(f, r, ins, r.off, <<>>), LAMBDA fill :
           IF Len(fill.vs) = 1 THEN fill.f
           ELSE Then(NewVarnode(Masked(fill.f, ToSet(fill.vs)), ActiveAt(r, 0)), LAMBDA g :
                     concatPieces(g, fill.vs, 0, LastVn(g))))

refineRead(f, v, pieces) ==
    LET n == LastVn(f)
        m == Len(pieces)
        o == CHOOSE x \in Readers(f, v) : TRUE
        g == [f EXCEPT !.vn = @ \o [k \in 1..m |-> FreeAt(pieces[k])] \o <<FreeAt(At("unique", 0, f.vn[v].size))>>]
    IN IF m = 0 \/ Cardinality(Readers(f, v)) # 1 THEN f
       ELSE Then(concatPieces(g, [k \in 1..m |-> n + k], o, n + m + 1), LAMBDA h :
                 [h EXCEPT !.op[o].in[SlotOf(f, o, v)] = n + m + 1])
\* The definition writes a unique; its pieces and all readers are cut from that.
ReplaceReads(f, v, w) ==
    Each(LAMBDA g, o : [g EXCEPT !.op[o].in = [k \in DOMAIN @ |-> IF @[k] = v THEN w ELSE @[k]]], f, InOrder(Readers(f, v), LastOp(f)))
refineWrite(f, v, pieces) ==
    LET d == f.vn[v].def
        u == LastVn(f) + 1
        g == [f EXCEPT !.vn = Append([@ EXCEPT ![v] = FreeAt(NoLoc)], Varnode(At("unique", 0, f.vn[v].size), d)),
                       !.op[d].out = u]
    IN IF pieces = <<>> THEN f ELSE splitPieces(ReplaceReads(g, v, u), pieces, d, f.vn[v], u)
refineInput(f, v, pieces) ==
    IF pieces = <<>> THEN f ELSE splitPieces([f EXCEPT !.vn[v].mask = TRUE], pieces, 0, f.vn[v], v)
=============================================================================
