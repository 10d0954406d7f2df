------------------------------ MODULE Translate ------------------------------
(***************************************************************************)
(* One instruction through the SLEIGH translator: TranslateInstructionAt   *)
(* (src/pkg/sla/engine.go), TranslateSubtable (translate.go), the builder  *)
(* that walks p-code templates (builder.go, builder_delay.go) and the      *)
(* staging area the built ops are kept in until they are emitted           *)
(* (rawBuildState in discache.go), over the context pool of DisCache.      *)
(*                                                                         *)
(* A template is [labels |-> n, ops |-> sequence]; an op template is       *)
(*   [k |-> "op"]               an ordinary op: an input and an output     *)
(*   [k |-> "rel", id |-> l]    a branch to label l of its own template    *)
(*   [k |-> "label", id |-> l]  LABELBUILD                                 *)
(*   [k |-> "build", ct |-> t]  BUILD of the operand with template t       *)
(*   [k |-> "delay"]            DELAY_SLOT                                 *)
(*   [k |-> "unimpl"]           a template the lowering refuses.           *)
(* An issued op keeps what its lowering read of the context it was built   *)
(* in (inst_start, inst_next, inst_next2) and a view of the varnode pool.  *)
(* CROSSBUILD and named sections are not modelled.                         *)
(***************************************************************************)
EXTENDS DisCache, Sequences, FiniteSets, TLC

CONSTANTS
    Programs,       \* the code tables a run starts from
    DefaultPool,    \* defaultVarnodePoolSize (600 in the code)
    PoolGrowth,     \* the floor of a growth of the pool (100 in the code)
    OffsetModulus   \* 2^bits of the varnode a branch offset is kept in

ASSUME StagingAssumption ==
    {DefaultPool, PoolGrowth, OffsetModulus} \subseteq Nat \ {0}

ASSUME ProgramAssumption ==
    \A p \in Programs :
       /\ DOMAIN p \subseteq Nat
       /\ \A a \in DOMAIN p :
             /\ p[a].len \in Nat /\ p[a].delay \in Nat /\ p[a].handles \in BOOLEAN
             /\ Len(p[a].ct.ops) \in Nat

VARIABLES
    code,   \* what decoding finds: never changes
    cache,  \* the context pool
    raw,    \* rawBuildState
    job,    \* the instruction being translated
    done    \* the outcome of the last translation

vars == <<code, cache, raw, job, done>>

Idle == [phase |-> "idle"]

-----------------------------------------------------------------------------
(* The staging area.  `pools` holds every array the varnode pool had during *)
(* this build, the current one last: an op that still views an older array  *)
(* does not see what is written to the current one.                         *)

EmptyRaw(cap) ==
    [cap |-> cap, pools |-> << <<>> >>, issued |-> <<>>, refs |-> {},
     labels |-> <<>>]

\* Mutant: the labels of the last build stay.
ResetKeepsLabels(r, hint) == [EmptyRaw(IF r.cap < DefaultPool THEN DefaultPool ELSE r.cap) EXCEPT !.labels = r.labels]

\* reset: the pool keeps its capacity, or gets the one the hint asks for.
Reset(r, hint) ==
    LET want == IF 3 * hint < DefaultPool THEN DefaultPool ELSE 3 * hint
    IN  EmptyRaw(IF r.cap < want THEN want ELSE r.cap)

Pool(r) == r.pools[Len(r.pools)]

\* Mutant: ops issued before a growth keep their view of the old array.
ViewsOldArray(issued, gen) == issued

\* rebindIssuedAfterExpand: every issued op views the new array.
Rebound(issued, gen) ==
    [i \in DOMAIN issued |-> [issued[i] EXCEPT !.gen = gen]]

\* ensureVarnodeCapacity
Grown(r, extra) ==
    LET need == Len(Pool(r)) + extra
        more == need - r.cap
    IN  IF need <= r.cap THEN r
        ELSE [r EXCEPT !.cap = @ + (IF more < PoolGrowth THEN PoolGrowth ELSE more),
                       !.pools = Append(@, Pool(r)),
                       !.issued = Rebound(@, Len(r.pools) + 1)]

\* AppendRawBuild of one lowered op: its varnodes, the op, its label reference.
Issued(r, rec, varnodes, isRel) ==
    LET g == Grown(r, Len(varnodes))
        start == Len(Pool(g)) + 1
    IN  [g EXCEPT !.pools[Len(g.pools)] = @ \o varnodes,
                  !.issued = Append(@, [rec |-> rec, start |-> start, gen |-> Len(g.pools)]),
                  !.refs = IF isRel
                           THEN @ \cup {[slot |-> start, at |-> Len(g.issued)]}
                           ELSE @]

\* resolveRelatives needs a label for every reference, then writes distances.
Resolvable(r) == \A ref \in r.refs : Pool(r)[ref.slot] \in DOMAIN r.labels

Distance(r, ref) ==
    ((r.labels[Pool(r)[ref.slot]] + OffsetModulus) - ref.at) % OffsetModulus

ResolveRelatives(r) ==
    [r EXCEPT !.pools[Len(r.pools)] =
        [i \in DOMAIN @ |->
            IF \E ref \in r.refs : ref.slot = i
            THEN Distance(r, CHOOSE ref \in r.refs : ref.slot = i)
            ELSE @[i]]]

\* EmitRawBuildTo: copies of the issued ops, in order.
Emitted(r) ==
    [i \in DOMAIN r.issued |->
        LET op == r.issued[i]
        IN  [op.rec EXCEPT !.off = r.pools[op.gen][op.start]]]

-----------------------------------------------------------------------------
(* The builder.  A frame is one Build: the slot its walker stands on, the   *)
(* ops left, the label base to restore and, for the first Build of a delay  *)
(* slot, the loop of delaySlotFromWalker it is part of.                     *)

NoLoop == [need |-> 0]

Frame(slot, ct, base, loop) ==
    [slot |-> slot, ops |-> ct.ops, base |-> base, loop |-> loop]

Top == job.stack[Len(job.stack)]

\* Build on entry: a fresh range of labels above every range handed out.
Entered(j, slot, ct, loop) ==
    [j EXCEPT !.stack = Append(@, Frame(slot, ct, j.base, loop)),
              !.base = j.count,
              !.count = @ + ct.labels]

\* The job with the top frame past its next op.
Advanced == [job EXCEPT !.stack[Len(job.stack)].ops = Tail(@)]

\* The pool slots this translation obtained, with the address asked for.
Got(j, slot, a) == [j EXCEPT !.got = @ \cup {<<slot, a>>}]

\* The address WithN2addr asks for, when it asks for one.
GotN2(j, c, s) ==
    LET ctx == c.list[s]
        a == pcodeFallthroughAddr(ctx)
    IN  IF ctx.n2 # None \/ ~ctx.lazy THEN j
        ELSE Got(j, ObtainContext(c, a, Disassembly, code).slot, a)

\* Every way out of TranslateSubtable unpins, and a build that has begun ends
\* with the staging area cleared.
Finish(c, outcome) ==
    /\ cache' = [c EXCEPT !.pin = None]
    /\ raw' = IF job.phase = "build" THEN Reset(raw, 0) ELSE raw
    /\ job' = Idle
    /\ done' = outcome
    /\ UNCHANGED code

Fail(c) == Finish(c, [addr |-> job.addr, ok |-> FALSE])

\* TranslateInstructionAt: obtain the context for p-code and pin it.
TranslateInstructionAt(a) ==
    LET r == ObtainPcodeContext(cache, a, code) IN
    /\ job = Idle
    /\ IF r.ok
       THEN /\ cache' = [r.cache EXCEPT !.pin = r.slot]
            /\ job' = [phase |-> "delays", addr |-> a, slot |-> r.slot,
                       fall |-> r.cache.list[r.slot].len, bytes |-> 0,
                       stack |-> <<>>, base |-> 0, count |-> 0,
                       got |-> {<<r.slot, a>>}]
            /\ done' = None
       ELSE /\ cache' = r.cache
            /\ done' = [addr |-> a, ok |-> FALSE]
            /\ UNCHANGED job
    /\ UNCHANGED <<code, raw>>

\* prepareDelaySlotContexts: one turn of its loop.
PrepareDelaySlot ==
    LET ctx == cache.list[job.slot]
        a == ctx.addr + job.fall
        r == ObtainPcodeContext(cache, a, code)
        len == r.cache.list[r.slot].len
    IN  /\ job.phase = "delays"
        /\ job.bytes < ctx.delay
        /\ IF r.ok /\ len > 0
           THEN /\ cache' = r.cache
                /\ job' = Got([job EXCEPT !.fall = @ + len, !.bytes = @ + len], r.slot, a)
                /\ UNCHANGED <<code, raw, done>>
           ELSE Fail(r.cache)

\* Mutant: delay slots are taken to end with the bytes asked for.
behindBytes(ctx, fall) == ctx.addr + ctx.len + ctx.delay

\* The next address of an instruction whose delay slots end `fall` behind it.
behindSlots(ctx, fall) == ctx.addr + fall

\* The loop is over: the next address moves past the delay slots, the
\* runtime context is read once and the root template is entered.
EnterBuild ==
    LET ctx == cache.list[job.slot]
        c == IF ctx.delay = 0 THEN cache
             ELSE [cache EXCEPT !.list[job.slot].naddr = behindSlots(ctx, job.fall)]
        ct == code[ctx.addr].ct
    IN  /\ job.phase = "delays"
        /\ job.bytes >= ctx.delay
        /\ cache' = WithN2addr(c, job.slot, code)
        /\ job' = Entered([GotN2(job, c, job.slot) EXCEPT !.phase = "build"],
                          job.slot, ct, NoLoop)
        /\ raw' = Reset(raw, Len(ct.ops))
        /\ UNCHANGED <<code, done>>

\* The next op template of the walk has kind k.
AtOp(k) ==
    /\ job.phase = "build"
    /\ Top.ops # <<>>
    /\ Head(Top.ops).k = k

\* dumpToRawCache: lower an op in the runtime context of its walker, stage it.
\* translateRuntimeContext reads the address and the next address before it
\* asks for the one after.
Dump(k) ==
    LET s == Top.slot
        c == WithN2addr(cache, s, code)
        ctx == cache.list[s]
        rec == [inst |-> ctx.addr, next |-> ctx.naddr, n2 |-> c.list[s].n2, off |-> 0]
        varnodes == IF k = "rel" THEN <<job.base + Head(Top.ops).id>> ELSE <<0, 0>>
    IN  /\ AtOp(k)
        /\ cache' = c
        /\ raw' = Issued(raw, rec, varnodes, k = "rel")
        /\ job' = GotN2(Advanced, cache, s)
        /\ UNCHANGED <<code, done>>

\* Lowering reads the runtime context before it refuses the template.
LowerRefused ==
    /\ AtOp("unimpl")
    /\ Fail(WithN2addr(cache, Top.slot, code))

\* SetLabel: the label stands for the next op to be issued.
SetLabel ==
    /\ AtOp("label")
    /\ raw' = [raw EXCEPT !.labels =
                  (job.base + Head(Top.ops).id :> Len(raw.issued)) @@ @]
    /\ job' = Advanced
    /\ UNCHANGED <<code, cache, done>>

\* appendBuildFromWalker: the template of an operand, in the same context.
AppendBuild ==
    LET ct == Head(Top.ops).ct IN
    /\ AtOp("build")
    /\ job' = Entered(Advanced, Top.slot, ct, NoLoop)
    /\ UNCHANGED <<code, cache, raw, done>>

\* One turn of delaySlotFromWalker: build the instruction `loop` has reached.
BuildDelayed(j, loop) ==
    LET a == loop.start + loop.fall
        r == RequireOrObtain(cache, a, code)
        ct == code[a].ct
    IN  IF r.ok /\ r.cache.list[r.slot].len > 0
        THEN /\ job' = Got(Entered(j, r.slot, ct, loop), r.slot, a)
             /\ UNCHANGED <<code, cache, raw, done>>
        ELSE Fail(r.cache)

\* DelaySlot: the walker's own context is looked up by its address.
DelaySlot ==
    LET src == cache.list[Top.slot] IN
    /\ AtOp("delay")
    /\ IF ~HasPcode(cache, src.addr) THEN Fail(cache)
       ELSE IF src.delay = 0
       THEN job' = Advanced /\ UNCHANGED <<code, cache, raw, done>>
       ELSE IF src.len = 0 THEN Fail(cache)
       ELSE BuildDelayed(Advanced, [start |-> src.addr, fall |-> src.len,
                                    need |-> src.delay])

\* A Build returns to the one that called it, or the delay-slot loop takes
\* the length of the context it built and goes on.
LeaveBuild ==
    LET len == cache.list[Top.slot].len
        popped == [job EXCEPT !.stack = SubSeq(@, 1, Len(@) - 1), !.base = Top.base]
        loop == [Top.loop EXCEPT !.fall = @ + len, !.need = @ - len]
    IN  /\ job.phase = "build"
        /\ Top.ops = <<>>
        /\ Len(job.stack) > 1
        /\ IF Top.loop = NoLoop
           THEN job' = popped /\ UNCHANGED <<code, cache, raw, done>>
           ELSE IF len = 0 THEN Fail(cache)
           ELSE IF Top.loop.need > len THEN BuildDelayed(popped, loop)
           ELSE job' = popped /\ UNCHANGED <<code, cache, raw, done>>

\* leaveRawBuild of the root: resolve, emit, and the engine reports.
ResolveAndEmit ==
    /\ job.phase = "build"
    /\ Top.ops = <<>>
    /\ Len(job.stack) = 1
    /\ IF Resolvable(raw)
       THEN Finish(cache,
                   [addr |-> job.addr, ok |-> TRUE,
                    next |-> cache.list[job.slot].naddr,
                    ops |-> Emitted(ResolveRelatives(raw))])
       ELSE Fail(cache)

-----------------------------------------------------------------------------

Init ==
    /\ code \in Programs
    /\ cache = EmptyCache
    /\ raw = EmptyRaw(0)
    /\ job = Idle
    /\ done = None

\* The steps of a translation that has begun.
Work ==
    \/ PrepareDelaySlot
    \/ EnterBuild
    \/ Dump("op")
    \/ Dump("rel")
    \/ LowerRefused
    \/ SetLabel
    \/ AppendBuild
    \/ DelaySlot
    \/ LeaveBuild
    \/ ResolveAndEmit

Next ==
    \/ \E a \in DOMAIN code : TranslateInstructionAt(a)
    \/ Work

\* A translation is one call on one goroutine: once begun it takes its steps.
\* Nobody has to ask for another.
Fairness == WF_vars(Work)

Spec == Init /\ [][Next]_vars /\ Fairness

-----------------------------------------------------------------------------
(* Properties *)

\* The delay slots of the instruction at a end at e: instructions one behind the
\* other lead from its own end to e, and no more of them than its delay bytes ask
\* for: each is begun before those are had.
DelaySlotsEnd(a, e) ==
    LET first == a + code[a].len
        enough == first + code[a].delay
    IN  /\ e >= enough
        /\ \E T \in SUBSET DOMAIN code :
              /\ first \in T
              /\ \A t \in T : /\ t < enough
                             /\ code[t].len > 0
                             /\ t + code[t].len \in T \cup {e}

\* e is where the instruction at a ends, or where its delay slots do.
NextExact(a, e) == e = a + code[a].len \/ DelaySlotsEnd(a, e)

\* n, when known, is where the instruction behind the one at a ends: behind its
\* own bytes, for GetN2addr looks past no delay slot (instruction_context.go).
AfterNextExact(a, n) ==
    LET next == a + code[a].len
    IN  n # None => next \in DOMAIN code /\ n = next + code[next].len

\* A context past decoding holds the decode of its own address, never what
\* is left of the instruction its slot served before (the reset in
\* ObtainParserContext, Resolve in resolve.go).
ContextsOwnDecode ==
    \A s \in Slots :
       LET ctx == cache.list[s] IN
       ctx # None /\ ctx.state >= Disassembly =>
          /\ ctx.addr \in DOMAIN code
          /\ ctx.len = code[ctx.addr].len
          /\ ctx.delay = code[ctx.addr].delay
          /\ ctx.state = Pcode => code[ctx.addr].handles

\* The next address of a context past decoding is exact, not only behind it:
\* moved by the delay slots of its own instruction, however many bytes the last
\* of them has, and by no more (prepareDelaySlotContexts, TranslateSubtable).
NextAddressExact ==
    \A s \in Slots :
       LET ctx == cache.list[s] IN
       ctx # None /\ ctx.state >= Disassembly => NextExact(ctx.addr, ctx.naddr)

\* The context of the instruction being translated survives its own build,
\* whatever its delay slots and the look-ups of next instructions take from the
\* pool (PinContext in discache.go), so that the address after next it is given is
\* its own, and an answer goes on exactly behind its last delay slot, if it has any.
RootSurvives ==
    /\ job # Idle =>
          LET root == cache.list[job.slot] IN
          /\ cache.pin = job.slot
          /\ root.addr = job.addr
          /\ root.state = Pcode
          /\ AfterNextExact(root.addr, root.n2)
    /\ done # None /\ done.ok =>
          LET insn == code[done.addr]
          IN  IF insn.delay = 0 THEN done.next = done.addr + insn.len
              ELSE DelaySlotsEnd(done.addr, done.next)

\* Contexts obtained for at most Reuse different addresses during one
\* translation are not handed to another address before it ends
\* (DisassemblyCache.ObtainParserContext, PinContext in discache.go).
ReuseWindow ==
    job # Idle /\ Cardinality({g[2] : g \in job.got}) <= Reuse =>
       \A g \in job.got : cache.list[g[1]].addr = g[2]

\* Wherever the varnode pool has moved to in the middle of a build, every op
\* issued so far views it there, each in varnodes of its own, and a branch that
\* waits for its label is one of them (ensureVarnodeCapacity,
\* rebindIssuedAfterExpand and resolveRelatives in discache.go).
StagingSound ==
    /\ Len(Pool(raw)) <= raw.cap
    /\ \A i \in DOMAIN raw.issued :
          /\ raw.issued[i].gen = Len(raw.pools)
          /\ raw.issued[i].start \in 1..Len(Pool(raw))
          /\ \A k \in 1..i - 1 : raw.issued[k].start < raw.issued[i].start
    /\ \A ref \in raw.refs :
          /\ ref.at + 1 \in DOMAIN raw.issued
          /\ raw.issued[ref.at + 1].start = ref.slot
=============================================================================
