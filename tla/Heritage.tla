------------------------------ MODULE Heritage ------------------------------
(***************************************************************************)
(* SSA construction (heritage.go): the passes of Heritage.Heritage over    *)
(* the spaces of a function, each collecting the ranges to work on,        *)
(* guarding, normalizing and refining every range, placing MULTIEQUALs and *)
(* renaming; between two passes a LOAD may turn out to read a known        *)
(* location and dead code is removed; a request for a restart starts over  *)
(* with a longer dead-code delay.                                          *)
(*                                                                         *)
(* At the end the program and its SSA form run side by side along every    *)
(* path of bounded length.                                                 *)
(***************************************************************************)
EXTENDS HeritageGraph, DomMerge

CONSTANTS Graphs,       \* name -> the predecessors of every block
          Programs,     \* the functions to start from: [graph, f]
          Spaces,       \* the heritaged spaces, in order
          Delay,        \* pass a space is first heritaged in, per space
          SpaceSize,    \* bytes of every space
          Unaffected, Killed,   \* ranges a call leaves alone, or kills
          Params, Ret,          \* storage of parameters and (at most one) return value
          AutoKilled,           \* a call kills the return storage whatever its effect
          Persist,              \* ranges that outlive the function
          MaxPass,      \* passes before the walk starts
          MaxSteps      \* blocks on a walked path

VARIABLES fun,      \* the function: its graph, f as it is and start as it was read
          cover,    \* LocationMap of everything heritaged
          task,     \* TaskList of the pass
          cur,      \* the task being placed
          ranges,   \* the ranges of the pass to be renamed
          pass,
          info,     \* per space: dead code was removed, a warning was issued
          delays,   \* per space: dead-code delay (kept across a restart)
          restart,  \* a restart was requested
          pc,       \* "collect", "place", "rename", "between", "walk"
          run       \* the walk

vars == <<fun, cover, task, cur, ranges, pass, info, delays, restart, pc, run>>

Adt == [g \in DOMAIN Graphs |-> BuildADT(Graphs[g], ImmedDom(Graphs[g]))]
Preds == Graphs[fun.graph]

Effect(r) == IF \E e \in Unaffected : Inside(r, e) THEN "unaffected"
             ELSE IF \E e \in Killed : Inside(r, e) THEN "killed" ELSE "unknown"

-----------------------------------------------------------------------------
(* Guards *)

OpsOf(f, code) == InOrder({o \in Live(f) : f.op[o].code = code}, LastOp(f))

\* The range properly contains the return storage, or meets it otherwise.
ContainsRet(r) == \E s \in Ret : Inside(s, r) /\ r.size > s.size
MeetsRet(r) == \E s \in Ret : Overlap(s, r)
TrialMeets(trials, o, r) == \E t \in trials : t[1] = o /\ Overlap(t[2], r)

\* The return storage and the bytes around it created by the call and
\* concatenated to the range; only the last piece is a write of the range.
guardOutputOverlap(f, call, r, ret) ==
    LET front == At(r.sp, r.off, ret.off - r.off)
        back == At(r.sp, End(ret), End(r) - End(ret))
        least == At(r.sp, r.off, End(ret) - r.off)
        withFront(f1) ==
            IF front.size = 0 THEN f1
            ELSE Then(NewIndirectCreation(f1, LastOp(f1), front), LAMBDA g : Concat(g, LastVn(f1), LastVn(g), least, call))
        withBack(f3) ==
            IF back.size = 0 THEN f3
            ELSE Then(NewIndirectCreation(f3, call, back), LAMBDA g :
                      Concat(g, LastVn(g), LastVn(f3), r, IF front.size = 0 THEN call ELSE LastOp(f3)))
    IN Then(Then(Then(NewIndirectCreation(f, call, ret), withFront), withBack), LAMBDA g :
            [g EXCEPT !.vn[LastVn(g)].active = TRUE, !.pieces = @ \cup (LastVn(f) + 1..LastVn(g) - 1)])

\* The return value, the parameter and the effect of one call on the range.
OutputOverlaps(f, o, r) == \E s \in Ret : ContainsRet(r) /\ ~TrialMeets(f.tout, o, At(r.sp, s.off, r.size))
guardCallOutput(f, o, r) ==
    LET ret == CHOOSE s \in Ret : TRUE
    IN IF OutputOverlaps(f, o, r) THEN [guardOutputOverlap(f, o, r, ret) EXCEPT !.tout = @ \cup {<<o, ret>>}]
       ELSE IF MeetsRet(r) /\ ~ContainsRet(r) /\ ~TrialMeets(f.tout, o, r) THEN [f EXCEPT !.tout = @ \cup {<<o, r>>}]
       ELSE f
guardCallParam(f, o, r) ==
    IF (\E p \in Params : Inside(r, p) /\ r.off = p.off) /\ ~TrialMeets(f.tin, o, r)
    THEN [AppendRead(f, o, r) EXCEPT !.tin = @ \cup {<<o, r>>}]
    ELSE f
guardCallEffect(f, o, r, effect) ==
    CASE effect = "unaffected" -> f
      [] effect = "killed" -> Then(NewIndirectCreation(f, o, r), LAMBDA g : [g EXCEPT !.vn[LastVn(g)].active = TRUE])
      [] effect = "unknown" -> NewIndirectOp(f, o, r)
guardCall(f, o, r) ==
    IF f.op[o].out # 0 /\ RangeOf(f.vn[f.op[o].out]) = r THEN f
    ELSE Then(Then(guardCallOutput(f, o, r), LAMBDA g : guardCallParam(g, o, r)), LAMBDA g :
              guardCallEffect(g, o, r, IF OutputOverlaps(f, o, r) THEN "unaffected"
                                         ELSE IF AutoKilled /\ MeetsRet(r) THEN "killed" ELSE Effect(r)))
guardCalls(f, r) == Each(LAMBDA g, o : guardCall(g, o, r), f, OpsOf(f, "call"))

\* Every RETURN reads the return storage at the range.
guardReturn(f, o, r) ==
    LET ret == CHOOSE s \in Ret : TRUE
        whole == LastVn(f) + 1
    IN IF ContainsRet(r)
       THEN Then(LastBefore(NewOpOut(NewVarnode(f, ActiveAt(r, 0)), Subpiece(whole, r, ret), ret), o), LAMBDA g :
                 AppendInput(g, o, LastVn(g), ret))
       ELSE AppendRead(f, o, r)
guardReturns(f, r) == IF MeetsRet(r) THEN Each(LAMBDA g, o : guardReturn(g, o, r), f, OpsOf(f, "return")) ELSE f
\* A copy of a persistent range into itself before every RETURN.
ReturnCopy(f, o, r) ==
    LET n == LastVn(f)
        copy == [OpRec("COPY", <<n + 1>>, r) EXCEPT !.ret = TRUE, !.rd = <<r>>, !.out = n + 2]
    IN LastBefore([f EXCEPT !.vn = @ \o <<ActiveAt(r, 0), ActiveAt(r, LastOp(f) + 1)>>, !.op = Append(@, copy)], o)
guardReturnsPersist(f, r) ==
    IF \E p \in Persist : Inside(r, p) THEN Each(LAMBDA g, o : ReturnCopy(g, o, r), f, OpsOf(f, "return")) ELSE f
guardStores(f, r) ==
    Each(LAMBDA g, o : NewIndirectOp(g, o, r), f, SelectSeq(OpsOf(f, "store"), LAMBDA o : f.op[o].loc.sp = r.sp))
Guarded(f, r) ==
    Then(Then(Then(guardCalls(f, r), LAMBDA g : guardReturns(g, r)), LAMBDA g : guardReturnsPersist(g, r)), LAMBDA g :
         guardStores(g, r))

-----------------------------------------------------------------------------
(* Collecting the ranges of a pass *)

Worth(f, v) == IsWritten(f, v) \/ ~HasNoDescend(f, v) \/ f.vn[v].input

\* One varnode of the space: its range joins the cover and, unless it is in
\* SSA form and lies in an old range, becomes a task.
SkipsOld(f, v, code) == code = 2    \* mutant: free reads of an old range too
Skipped(f, v, code) == code = 2 /\ (IsHeritageKnown(f, v) \/ HasNoDescend(f, v))
Scanned(f, sp, acc, v) ==
    LET flags(code) == CASE code = 0 -> {"new"} [] code = 1 -> {"new", "old"} [] code = 2 -> {"old"}
        warn(code) == code # 0 /\ ~IsHeritageKnown(f, v) /\ ~Skipped(f, v, code) /\ info[sp].removed
    IN Then(LocationAdd(acc.cover, RangeOf(f.vn[v]), pass), LAMBDA add :
            [cover |-> add.map, task |-> IF Skipped(f, v, add.code) THEN acc.task ELSE TaskAdd(acc.task, add.entry, flags(add.code)),
             warn |-> IF warn(add.code) THEN acc.warn \cup {sp} ELSE acc.warn])
ScanSpace(f, acc, sp) ==
    IF pass < Delay[sp] THEN acc
    ELSE Each(LAMBDA a, v : Scanned(f, sp, a, v), acc, LocSorted(f, {v \in Ids(f.vn) : f.vn[v].sp = sp /\ Worth(f, v)}))

\* bumpDeadcodeDelay: one more pass of delay, unless one is in place already.
CollectRanges ==
    /\ pc = "collect"
    /\ \E got \in {Each(LAMBDA a, sp : ScanSpace(fun.f, a, sp), [cover |-> cover, task |-> <<>>, warn |-> {}], Spaces)} :
       LET bump == {sp \in got.warn : delays[sp] = Delay[sp]}
       IN /\ cover' = got.cover
          /\ task' = got.task
          /\ info' = [sp \in DOMAIN info |-> [info[sp] EXCEPT !.warned = @ \/ sp \in got.warn]]
          /\ delays' = [sp \in DOMAIN delays |-> IF sp \in bump THEN Delay[sp] + 1 ELSE delays[sp]]
          /\ restart' = (restart \/ bump # {})
    /\ cur' = 1
    /\ ranges' = {}
    /\ pc' = "place"
    /\ UNCHANGED <<fun, pass, run>>

-----------------------------------------------------------------------------
(* Placing one range *)

\* The task cut along the common refinement of everything in it.
Cuts(f, t, got) == Boundaries(t, {f.vn[v] : v \in Participants(got)})
NeedsRefinement(f, t, got) == t.size > 4 /\ MaxWriteSize(f, got.writes) < t.size /\ Cuts(f, t, got) # {}
refineAll(f, t, got, refine) ==
    LET pieces(v) == splitByRefinement(t, refine, f.vn[v])
    IN Each(LAMBDA g, v : refineInput(g, v, pieces(v)),
            Each(LAMBDA g, v : refineWrite(g, v, pieces(v)),
                 Each(LAMBDA g, v : refineRead(g, v, pieces(v)), f, got.reads), got.writes), got.inputs)
refinement(f, t, got) ==
    LET sizes == PartitionSizes(t, Cuts(f, t, got))
        kept == {e \in cover : ~(e.sp = t.sp /\ t.off \in Bytes(e))}
        add(m, p) == LocationAdd(m, p, FindPass(cover, t, pass)).map
    IN Then(remove13Refinement(sizes, sizes[0], sizes[0]), LAMBDA refine :
       Then(Pieces(t, refine, t, t.off), LAMBDA parts :
            [f |-> refineAll(f, t, got, refine), cover |-> Each(add, kept, parts),
             parts |-> [k \in DOMAIN parts |-> parts[k] @@ [flags |-> t.flags]]]))

NeverCovered(f, writes, r) == FALSE    \* mutant
coveredByEarlierPass(f, writes, r) ==
    \E v \in ToSet(writes) : /\ f.op[f.vn[v].def].code \in {"MULTIEQUAL", "INDIRECT"} \/ f.op[f.vn[v].def].ret
                             /\ f.vn[v].size >= r.size

\* Nothing to link: an empty range, or one an earlier pass covered.
Idle(got, t) == got.reads = <<>> /\ ((got.writes = <<>> /\ got.inputs = <<>>) \/ "old" \in t.flags)

placeMultiequals(f, r, got) ==
    LET blocks == [k \in DOMAIN got.writes |-> BlockOf(f, f.vn[got.writes[k]].def)]
        phi(g, b) ==
            LET op == [OpRec("MULTIEQUAL", [k \in DOMAIN Preds[b] |-> 0], r) EXCEPT !.out = LastVn(g) + 1]
            IN [g EXCEPT !.vn = Append(@, ActiveAt(r, LastOp(g) + 1)), !.op = Append(@, op), !.blk[b] = <<LastOp(g) + 1>> \o @]
    IN Each(LAMBDA g, b : IF Len(Preds[b]) < 2 THEN g ELSE phi(g, b),
            Active(f, Participants(got)), CalcMultiequals(Adt[fun.graph], blocks))

\* The task loop's body for a range that is not refined any more, in the order
\* of the code: inputs, sizes, guards, a second look with the writes the
\* guards made, sizes, MULTIEQUALs.
LinkGuarded(f, r, t, norm, before) ==
    Then(Collect(f, r), LAMBDA got :
    Then([got EXCEPT !.writes = norm.ws \o SelectSeq(@, LAMBDA v : v \notin before \cup f.pieces)], LAMBDA all :
         IF Idle(all, t) THEN [f |-> f, ranges |-> {}]
         ELSE Then(normalizeRange(f, r, all.reads, all.writes, Unaffected), LAMBDA n :
                   [f |-> placeMultiequals(n.f, r, [all EXCEPT !.reads = n.rs, !.writes = n.ws]), ranges |-> {r}])))
Placed(f, t) ==
    LET r == RangeOf(t)
        new(got) == "new" \in t.flags /\ ~coveredByEarlierPass(f, got.writes, r)
    IN Then(Collect(f, r), LAMBDA got :
         IF Idle(got, t) THEN [f |-> f, ranges |-> {}]
         ELSE Then(normalizeRange(guardInput(f, r, got.inputs), r, got.reads, got.writes, Unaffected), LAMBDA norm :
              Then(ToSet(Collect(norm.f, r).writes), LAMBDA before :
              Then(IF new(got) THEN Guarded(norm.f, r) ELSE norm.f, LAMBDA g : LinkGuarded(g, r, t, norm, before)))))

PlaceTask ==
    /\ pc = "place"
    /\ cur <= Len(task)
    /\ LET t == task[cur]
           whole == [f |-> fun.f, cover |-> cover, parts |-> <<t>>]
       IN \E got \in {Collect(fun.f, t)} :
          \E ref \in {IF NeedsRefinement(fun.f, t, got) THEN refinement(fun.f, t, got) ELSE whole} :
          \E p \in {Placed(ref.f, ref.parts[1])} :
             /\ task' = SubSeq(task, 1, cur - 1) \o ref.parts \o SubSeq(task, cur + 1, Len(task))
             /\ cover' = ref.cover
             /\ fun' = [fun EXCEPT !.f = p.f]
             /\ ranges' = ranges \cup p.ranges
    /\ cur' = cur + 1
    /\ UNCHANGED <<pass, info, delays, restart, pc, run>>

-----------------------------------------------------------------------------
(* Renaming *)

Key(vn) == <<vn.sp, vn.off>>
InRenameRanges(vn) == \E r \in ranges : vn.sp = r.sp /\ vn.off \in Bytes(r)
EmptyStacks == [k \in UNION {{sp} \X (0..SpaceSize - 1) : sp \in ToSet(Spaces)} |-> <<>>]

\* The stack of a location with no reaching definition holds its input.
PushedInput(acc, vn) ==
    [f |-> NewInput(acc.f, vn), stk |-> [acc.stk EXCEPT ![Key(vn)] = <<LastVn(acc.f) + 1>> \o @]]
WithInput(acc, vn) ==
    LET found == FindVarnodeInput(acc.f, RangeOf(vn))
    IN IF acc.stk[Key(vn)] # <<>> THEN acc
       ELSE IF found # {} THEN [acc EXCEPT !.stk[Key(vn)] = <<Min(found)>>]
       ELSE PushedInput(acc, vn)

\* Slot k of op o reads the top of its stack, the value below when the top is
\* an INDIRECT caused by o itself.
CausedByNone(f, v, o) == FALSE    \* mutant: the effect of a call reaches its own reads
CausedBy(f, v, o) == f.vn[v].def # 0 /\ f.op[f.vn[v].def].code = "INDIRECT" /\ f.op[f.vn[v].def].cause = o
RenameRead(acc, o, k) ==
    LET vn == acc.f.vn[acc.f.op[o].in[k]]
        link(a, n) == [a EXCEPT !.f.op[o].in[k] = a.stk[Key(vn)][Len(a.stk[Key(vn)]) - n]]
    IN Then(WithInput(acc, vn), LAMBDA a :
            IF ~CausedBy(a.f, Last(a.stk[Key(vn)]), o) THEN link(a, 0)
            ELSE IF Len(a.stk[Key(vn)]) > 1 THEN link(a, 1)
            ELSE Then(PushedInput(a, vn), LAMBDA a2 : link(a2, 1)))

IsFreeRead(f, v) == v # 0 /\ ~IsHeritageKnown(f, v) /\ InRenameRanges(f.vn[v])
RenameReads(acc, o) ==
    IF acc.f.op[o].code = "MULTIEQUAL" THEN acc
    ELSE Each(LAMBDA a, k : IF IsFreeRead(a.f, a.f.op[o].in[k]) THEN RenameRead(a, o, k) ELSE a,
              acc, [k \in DOMAIN acc.f.op[o].in |-> k])
\* log remembers, for every push, the stack's length before it.
RenameWrite(acc, out) ==
    LET vn == acc.f.vn[out]
    IN IF out = 0 THEN acc
       ELSE IF ~vn.active THEN acc
       ELSE IF ~InRenameRanges(vn) THEN [acc EXCEPT !.f.vn[out].active = FALSE]
       ELSE [acc EXCEPT !.f.vn[out].active = FALSE, !.stk[Key(vn)] = Append(@, out),
                        !.log = Append(@, <<Key(vn), Len(acc.stk[Key(vn)])>>)]
RenameOp(acc, o) ==
    Then(RenameReads([f |-> acc.f, stk |-> acc.stk], o), LAMBDA a : RenameWrite(a @@ [log |-> acc.log], acc.f.op[o].out))

\* The slot of every MULTIEQUAL of a successor that stands for this block.
FillSlot(acc, o, k) ==
    LET vn == acc.f.vn[acc.f.op[o].out]
    IN IF acc.f.op[o].in[k] # 0 \/ ~InRenameRanges(vn) THEN acc
       ELSE Then(WithInput(acc, vn), LAMBDA a : [a EXCEPT !.f.op[o].in[k] = Last(a.stk[Key(vn)])])
FillSuccessors(acc, b) ==
    LET phis(c) == SelectSeq(acc.f.blk[c], LAMBDA o : acc.f.op[o].code = "MULTIEQUAL")
        edges(c) == InOrder({k \in DOMAIN Preds[c] : Preds[c][k] = b}, Len(Preds[c]))
        into(a, c) == Each(LAMBDA x, o : Each(LAMBDA y, k : FillSlot(y, o, k), x, edges(c)), a, phis(c))
    IN Each(into, acc, InOrder(Succs(Preds, b), LastNode(Preds)))

\* The block, its successors' slots, its children in the dominator tree; then
\* the stacks are cut back to the length they had before the block's writes.
RECURSIVE renameRecurse(_, _)
renameRecurse(acc, b) ==
    Then(Each(RenameOp, acc @@ [log |-> <<>>], acc.f.blk[b]), LAMBDA walk :
    Then(FillSuccessors([f |-> walk.f, stk |-> walk.stk], b), LAMBDA filled :
    Then(Each(renameRecurse, filled, Adt[fun.graph].child[b]), LAMBDA done :
         [done EXCEPT !.stk = Each(LAMBDA st, e : [st EXCEPT ![e[1]] = SubSeq(@, 1, e[2])], @, Reverse(walk.log))])))

Rename ==
    /\ pc = "place"
    /\ cur > Len(task)
    /\ fun' = IF ranges = {} THEN fun ELSE [fun EXCEPT !.f = renameRecurse([f |-> fun.f, stk |-> EmptyStacks], 0).f]
    /\ pass' = pass + 1
    /\ pc' = "deadcode"
    /\ UNCHANGED <<cover, task, cur, ranges, info, delays, restart, run>>

-----------------------------------------------------------------------------
(* Dead code *)

deadRemovalAllowed(sp) == sp = "unique" \/ pass > delays[sp]

\* What the def of v consumes of its input k when the bytes c of v are consumed.
ConsumedOf(f, v, k, c) ==
    LET op == f.op[f.vn[v].def]
        low == SizeOf(f, op.in[2])
    IN CASE op.code = "PIECE" -> IF k = 2 THEN c \cap (0..low - 1) ELSE {j - low : j \in {i \in c : i >= low}}
         [] op.code = "SUBPIECE" -> {j + op.cut : j \in c}
         [] op.code \in {"COPY", "INDIRECT", "MULTIEQUAL"} -> c
         [] OTHER -> IF c = {} THEN {} ELSE 0..f.vn[op.in[k]].size - 1

\* consume[v]: the consumed bytes of v, and "reached" once anything was pushed.
Propagated(f, consume) ==
    LET feeds(v, w, k) == /\ f.vn[w].def # 0 /\ f.op[f.vn[w].def].code # "call" /\ consume[w].reached
                          /\ k \in DOMAIN f.op[f.vn[w].def].in /\ f.op[f.vn[w].def].in[k] = v
        use(v, from) == [reached |-> consume[v].reached \/ from # {},
                         c |-> consume[v].c \cup UNION {ConsumedOf(f, e[1], e[2], consume[e[1]].c) : e \in from}]
    IN [v \in Ids(f.vn) |-> Then({<<w, k>> \in Ids(f.vn) \X (1..3) : feeds(v, w, k)}, LAMBDA from : use(v, from))]
RECURSIVE Propagate(_, _)
Propagate(f, consume) ==
    Then(Propagated(f, consume), LAMBDA next : IF next = consume THEN consume ELSE Propagate(f, next))

\* Sinks: everything in a space whose dead code must stay, what ops without
\* an output and calls read, and what a return copy keeps.
Sink(f, v) ==
    \/ f.vn[v].sp # "none" /\ ~deadRemovalAllowed(f.vn[v].sp)
    \/ f.vn[v].def # 0 /\ f.op[f.vn[v].def].ret
    \/ \E o \in Readers(f, v) : f.op[o].out = 0 \/ f.op[o].code = "call" \/ f.op[o].ret
computeConsumed(f) ==
    Propagate(f, [v \in Ids(f.vn) |-> [reached |-> Sink(f, v), c |-> IF Sink(f, v) THEN 0..f.vn[v].size - 1 ELSE {}]])

OpDestroy(f, o) ==
    LET f1 == [f EXCEPT !.op[o].in = <<>>, !.op[o].out = 0, !.op[o].rd = <<>>, !.vn[f.op[o].out] = FreeAt(NoLoc)]
    IN IF f.op[o].code = "op" THEN [f1 EXCEPT !.op[o].code = "dead"]
       ELSE [f1 EXCEPT !.blk[BlockOf(f, o)] = SelectSeq(@, LAMBDA x : x # o)]
\* A varnode nothing reaches goes with its op (a call only loses its output);
\* one that is reached but whose bytes are never used is replaced by 0.
RemoveDead(f, v, use) ==
    LET d == f.vn[v].def
    IN Then(IF use.reached THEN ReplaceReads(f, v, -f.vn[v].size) ELSE f, LAMBDA g :
            IF g.op[d].code = "call" THEN [g EXCEPT !.op[d].out = 0, !.vn[v] = FreeAt(NoLoc)] ELSE OpDestroy(g, d))

DeadCode ==
    /\ pc = "deadcode"
    /\ \E use \in {computeConsumed(fun.f)} :
       \E dead \in {{v \in Ids(fun.f.vn) : fun.f.vn[v].def # 0 /\ deadRemovalAllowed(fun.f.vn[v].sp) /\ use[v].c = {}}} :
          /\ fun' = [fun EXCEPT !.f = Each(LAMBDA g, v : RemoveDead(g, v, use[v]), @, InOrder(dead, LastVn(@)))]
          /\ info' = [sp \in DOMAIN info |-> [info[sp] EXCEPT !.removed = @ \/ \E v \in dead : fun.f.vn[v].sp = sp]]
    /\ pc' = "pool"
    /\ UNCHANGED <<cover, task, cur, ranges, pass, delays, restart, run>>

-----------------------------------------------------------------------------
(* Between two passes *)

\* RuleLoadVarnode: the address of a LOAD is known, it reads the location.
ResolveLoad(o) ==
    /\ pc = "pool"
    /\ o \in Live(fun.f) /\ fun.f.op[o].code = "load"
    /\ fun' = [fun EXCEPT !.f = AppendInput(NewVarnode([@ EXCEPT !.op[o].code = "use"], FreeAt(@.op[o].loc)), o,
                                            LastVn(@) + 1, @.op[o].loc)]
    /\ UNCHANGED <<cover, task, cur, ranges, pass, info, delays, restart, pc, run>>

NextPass ==
    /\ pc = "pool"
    /\ pass < MaxPass
    /\ pc' = "collect"
    /\ UNCHANGED <<fun, cover, task, cur, ranges, pass, info, delays, restart, run>>

Fresh == [sp \in ToSet(Spaces) |-> [removed |-> FALSE, warned |-> FALSE]]
\* The function is decompiled again from the start, once, with the new delays.
Restart ==
    /\ pc = "pool"
    /\ pass = MaxPass
    /\ restart /\ run.restarts = 0
    /\ fun' = [fun EXCEPT !.f = fun.start]
    /\ cover' = {} /\ task' = <<>> /\ cur' = 1 /\ ranges' = {} /\ pass' = 0
    /\ info' = Fresh
    /\ restart' = FALSE
    /\ pc' = "collect"
    /\ run' = [run EXCEPT !.restarts = 1]
    /\ UNCHANGED delays
-----------------------------------------------------------------------------
(* The walk: bytes are tokens <<op, space, byte, step>>, the write they come *)
(* from; mem is what the program's memory holds, env what the SSA form says. *)

Token(o, r, step) == [j \in 1..r.size |-> <<o, r.sp, r.off + j - 1, step>>]
Value(f, env, v) ==
    IF v = 0 THEN <<"unfilled">> ELSE IF v < 0 THEN [j \in 1..-v |-> "zero"]
    ELSE IF f.vn[v].input THEN Token(0, f.vn[v], 0) ELSE env[v]
RECURSIVE Culprit(_, _)
Culprit(f, o) == IF f.op[o].code = "INDIRECT" THEN Culprit(f, f.op[o].cause) ELSE o

Writes(f, o, sp, a) ==
    LET op == f.op[o]
    IN \/ op.code \in {"op", "dead", "call"} /\ op.loc.sp = sp /\ a \in Bytes(op.loc)
       \/ op.code = "call" /\ Effect(At(sp, a, 1)) # "unaffected"
       \/ op.code = "store" /\ op.loc.sp = sp
Step(f, w, o, edge) ==
    LET op == f.op[o]
        val(k) == Value(f, w.env, op.in[k])
        out == CASE op.code = "PIECE" -> val(2) \o val(1)
                 [] op.code = "SUBPIECE" -> SubSeq(val(1), op.cut + 1, op.cut + f.vn[op.out].size)
                 [] op.code = "COPY" -> val(1)
                 [] op.code = "MULTIEQUAL" -> Value(f, w.env0, op.in[edge])
                 [] OTHER -> Token(Culprit(f, o), op.loc, w.step)
        held(r) == [j \in 1..r.size |-> w.mem[r.sp][r.off + j - 1]]
        wrong == {op.rd[k].sp : k \in {i \in DOMAIN op.rd : /\ op.in[i] = 0 \/ IsHeritageKnown(f, op.in[i])
                                                          /\ val(i) # held(op.rd[i])}}
    IN [w EXCEPT !.bad = @ \cup wrong,
                 !.env = IF op.out = 0 THEN @ ELSE [@ EXCEPT ![op.out] = out],
                 !.mem = [sp \in DOMAIN @ |-> [a \in DOMAIN @[sp] |-> IF Writes(f, o, sp, a) THEN <<o, sp, a, w.step>> ELSE @[sp][a]]]]

NotWalking == [restarts |-> 0, b |-> -1, from |-> -1, step |-> 0, bad |-> {}, env |-> <<>>, mem |-> <<>>]
StartWalk ==
    /\ pc = "pool"
    /\ pass = MaxPass
    /\ ~(restart /\ run.restarts = 0)
    /\ pc' = "walk"
    /\ run' = [run EXCEPT !.b = 0, !.step = 1, !.env = [v \in Ids(fun.f.vn) |-> <<>>],
                          !.mem = [sp \in ToSet(Spaces) |-> [a \in 0..SpaceSize - 1 |-> <<0, sp, a, 0>>]]]
    /\ UNCHANGED <<fun, cover, task, cur, ranges, pass, info, delays, restart>>

\* The block is executed and control goes to one of its successors.
WalkBlock ==
    /\ pc = "walk"
    /\ run.b # -1
    /\ LET edge == SelectInSeq(Preds[run.b], LAMBDA p : p = run.from)
           next == IF run.step = MaxSteps THEN {} ELSE Succs(Preds, run.b)
       IN \E w \in {Each(LAMBDA a, o : Step(fun.f, a, o, edge), run @@ [env0 |-> run.env], fun.f.blk[run.b])} :
          \E c \in IF next = {} THEN {-1} ELSE next :
            run' = [restarts |-> run.restarts, b |-> c, from |-> run.b, step |-> run.step + 1, bad |-> w.bad,
                    env |-> IF c = -1 THEN <<>> ELSE w.env, mem |-> IF c = -1 THEN <<>> ELSE w.mem]
    /\ UNCHANGED <<fun, cover, task, cur, ranges, pass, info, delays, restart, pc>>

Finished == pc = "walk" /\ run.b = -1 /\ UNCHANGED vars

-----------------------------------------------------------------------------
Init ==
    /\ \E p \in Programs : fun = [graph |-> p.graph, f |-> p.f, start |-> p.f]
    /\ cover = {} /\ task = <<>> /\ cur = 1 /\ ranges = {}
    /\ pass = 0
    /\ info = Fresh
    /\ delays = Delay
    /\ restart = FALSE
    /\ pc = "collect"
    /\ run = NotWalking

Next ==
    \/ CollectRanges
    \/ PlaceTask
    \/ Rename
    \/ DeadCode
    \/ \E o \in Ids(fun.f.op) : ResolveLoad(o)
    \/ NextPass
    \/ Restart
    \/ StartWalk
    \/ WalkBlock
    \/ Finished

Spec == Init /\ [][Next]_vars

-----------------------------------------------------------------------------
(* Properties *)

\* Every read of the SSA form (program reads, call and return trials, return
\* copies) sees, on every path, the bytes the program's memory holds there,
\* whatever the sizes of the writes around it, the guards, the refinement and
\* the pass that linked it; where dead-code removal was too early for a read
\* that turned up later, the space has been warned about
\* (Heritage.Heritage, renameRecurse, bumpDeadcodeDelay).
ReadsAgree == \A sp \in run.bad : info[sp].warned

\* After renaming nothing is left free in a space that has been heritaged: every
\* read is linked and every MULTIEQUAL slot filled.
AllLinked ==
    pc = "deadcode" => \A o \in Live(fun.f) : \A k \in DOMAIN fun.f.op[o].in :
        LET v == fun.f.op[o].in[k] IN v # 0 /\ (IsHeritageKnown(fun.f, v) \/ pass <= Delay[fun.f.vn[v].sp])

\* A call is never guarded twice for the same range (guardCalls): a range that
\* turns up again in a later pass has its INDIRECTs.
GuardedOnce ==
    \A o1, o2 \in Live(fun.f) :
        LET a == fun.f.op[o1] b == fun.f.op[o2]
        IN (o1 # o2 /\ a.code = "INDIRECT" /\ b.code = "INDIRECT" /\ a.cause = b.cause) => a.loc # b.loc
=============================================================================
