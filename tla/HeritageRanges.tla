--------------------------- MODULE HeritageRanges ---------------------------
(***************************************************************************)
(* The address ranges of a heritage pass: the disjoint cover of everything *)
(* heritaged so far (LocationMap), the ranges this pass works on           *)
(* (TaskList), and the refinement that cuts a range along the boundaries   *)
(* of the varnodes in it (heritage_types.go, heritage.go).                 *)
(*                                                                         *)
(* A range is a record with sp, off and size (bytes); spaces are           *)
(* little-endian.                                                          *)
(***************************************************************************)
EXTENDS Integers, SequencesExt

At(sp, off, size) == [sp |-> sp, off |-> off, size |-> size]
RangeOf(r) == At(r.sp, r.off, r.size)
Bytes(r) == r.off..r.off + r.size - 1
End(r) == r.off + r.size
Overlap(r, s) == r.sp = s.sp /\ Bytes(r) \cap Bytes(s) # {}
Inside(r, s) == r.sp = s.sp /\ Bytes(r) \subseteq Bytes(s)

-----------------------------------------------------------------------------
(* LocationMap: a set of disjoint ranges, each with the pass that made it. *)

\* The map with range r of this pass merged in, the entry r is now part of
\* and how it met older passes: 0 not at all, 1 partly, 2 r lies in an old entry.
LocationAdd(map, r, pass) ==
    LET met == {e \in map : Overlap(e, r)}
        low == Min({e.off : e \in met} \cup {r.off})
        high == Max({End(e) : e \in met} \cup {End(r)})
        old == {e.pass : e \in met} \cup {pass}
        merged == At(r.sp, low, high - low) @@ [pass |-> Min(old)]
    IN IF \E e \in met : Inside(r, e)
       THEN LET e == CHOOSE e \in met : Inside(r, e)
            IN [map |-> map, entry |-> e, code |-> IF e.pass < pass THEN 2 ELSE 0]
       ELSE [map |-> (map \ met) \cup {merged}, entry |-> merged,
             code |-> IF merged.pass < pass THEN 1 ELSE 0]

FindPass(map, r, pass) ==
    IF \E e \in map : e.sp = r.sp /\ r.off \in Bytes(e)
    THEN (CHOOSE e \in map : e.sp = r.sp /\ r.off \in Bytes(e)).pass
    ELSE pass

-----------------------------------------------------------------------------
(* TaskList: a task is a range with flags, a subset of {"new", "old"}. *)

\* Only the last task is looked at; the new one extends it when it starts in it.
TaskAdd(tasks, r, flags) ==
    LET n == Len(tasks)
        last == tasks[n]
    IN IF n > 0 /\ last.sp = r.sp /\ r.off \in Bytes(last)
       THEN [tasks EXCEPT ![n].size = Max({@, End(r) - last.off}), ![n].flags = @ \cup flags]
       ELSE Append(tasks, RangeOf(r) @@ [flags |-> flags])

-----------------------------------------------------------------------------
(* Refinement: refine[d] is the size of the piece that starts at byte d of *)
(* the range, 0 where no piece starts.                                     *)

\* The byte positions inside r where a varnode of the set starts or ends.
Boundaries(r, vns) ==
    UNION {{v.off - r.off, End(v) - r.off} : v \in {w \in vns : Inside(w, r)}} \ {0, r.size}

PartitionSizes(r, cuts) ==
    [d \in 0..r.size - 1 |-> IF d \in cuts \cup {0} THEN Min({c \in cuts \cup {r.size} : c > d}) - d ELSE 0]

\* A 1-byte and a 3-byte neighbour become one piece of 4.
RECURSIVE remove13Refinement(_, _, _)
remove13Refinement(refine, pos, lastsize) ==
    LET cursize == refine[pos]
    IN IF pos \notin DOMAIN refine THEN refine
       ELSE IF {lastsize, cursize} = {1, 3}
            THEN remove13Refinement([refine EXCEPT ![pos - lastsize] = 4], pos + cursize, 4)
            ELSE remove13Refinement(refine, pos + cursize, cursize)

\* The pieces of range v under the refinement of r, <<>> when v is one piece.
RECURSIVE Pieces(_, _, _, _)
Pieces(r, refine, v, pos) ==
    IF pos >= End(v) THEN <<>>
    ELSE LET cut == Min({refine[pos - r.off], End(v) - pos})
         IN <<At(v.sp, pos, cut)>> \o Pieces(r, refine, v, pos + cut)
splitByRefinement(r, refine, v) ==
    IF refine[v.off - r.off] >= v.size THEN <<>> ELSE Pieces(r, refine, v, v.off)
=============================================================================
