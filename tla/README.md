# TLA+ models of gosleigh

gosleigh is a Go port of Ghidra's SLEIGH engine and decompiler. It lifts machine
code to p-code through compiled SLEIGH specifications, turns a function into SSA
form, simplifies it with a few hundred rewriting rules, recovers variables, types
and control structure, and prints C. This directory holds TLA+ models of the parts
that carry its core logic, the TLC runs that check them on small instances and the
TLAPS proofs of what holds for every instance.

`PROJECT.json` is the index: components, runs, mutants, the source lines behind each
definition, hazards, findings and theorems. Line numbers below refer to `src/`.

## 1. Inventory

| Component | State | Operations | Talks to | What is hard, what makes it correct |
| --- | --- | --- | --- | --- |
| CFG edges, `pkg/pcode/flowblock.go`, `block_graph.go`, `funcdata_donothing.go` | `inEdges`, `outEdges` of each block, each half with the slot of the other; labels; block flags | add, remove, redirect, swap, label edges; splice, bypass, split, remove blocks | every action that changes flow; MULTIEQUAL inputs follow the in-slots | slots slide when an edge goes; loops edit the list they walk. The halves name each other, nothing points to a removed block, slots move only as the data-flow side assumes |
| Graph structuring, `block_graph.go`, `funcdata.go` | block order, spanning tree, edge labels, dominators | `StructureLoops`, `RemoveUnreachableBlocks` | actions read the labels and `immedDom` until the next reset | retries, re-rooted walks, cached root counts. Order, labels and dominators match their definitions; dead blocks go |
| Def-use graph, `funcdata.go`, `varnode_bank.go`, `varnode_ssa.go`, `pcodeop_bank.go` | ops, varnodes, `inputs`/`descend`, `output`/`def`, op lists | create, link, unlink, replace, destroy, clean up | every rule and action | compound operations of several link edits; snapshots of lists that are edited. Both sides of each link agree between any two calls; nothing linked is freed |
| Rule pool, `action.go` `ActionPool` | cursor (op and SeqNum), rule index, counts | `Perform`, `Apply`, `processOp`, `Reset` | calls rules that destroy and create ops around the cursor | stale cursor, opcode changes mid-list, breakpoints. It stops, exactly at a fixpoint |
| Action tree, `action.go` | status, count, child index of each action, restarts | `Perform`, `Apply`, `Reset`, restart | `bridge` drives it, a host resumes it after a break | resumption through nested frames. Interrupted and uninterrupted runs do the same |
| Rules, `rules_*.go`, `prefer_complement.go` and others | none of their own | one `ApplyOp` per rule | def-use graph, masks of `CalcNZMask` | any order of rules, inverse pairs in one pool, extremes of the word. Values, widths, order and masks survive; the pool comes to rest |
| SLEIGH translator, `pkg/sla` `discache.go`, `translate.go`, `builder.go` | circular pool of parser contexts with a hash and a pin, staging area with a varnode pool, label scopes | translate one instruction: obtain, promote, build, resolve labels, emit | `bridge` asks for instructions in any order; a build re-enters the pool | contexts recycled under a walker, pool growth mid-build. The cache is invisible |
| Context database, `backend.go`, `load_context.go` | context values per address range | commit, look up | translator | commits of one instruction change how another decodes |
| Driver, `pkg/bridge`, `pkg/decomp` | visited instructions, block starts, restart state | follow flow, build the CFG, run, restart | translator, action tree | overlapping instructions, late block starts, restarts with kept state |
| Heritage, `heritage*.go` | passes, disjoint cover, phi placement, renaming stacks | `Heritage.heritage` per pass | def-use graph, dominators | incremental passes over partly renamed code. Every read gets the value the program reads |
| Consumed bits and dead code, ranges and value sets, jump tables | worklists, masks, intervals | push, pull back, widen | rules, structuring | wrap-around intervals, termination of widening |
| Cover, merge, types, prototypes, symbols, structure recovery, printing | covers, high variables, type lattice, trials, structured blocks, token stream | merge, propagate, restructure, collapse, emit | later actions | interference, monotonicity, line-breaking scan |
| Address and join spaces, loaders, specs, commands | join table, parsed images | look up, read | all | join table is shared by goroutines |

A `Funcdata` is worked on by one goroutine from beginning to end; the pipeline is
sequential. The interleavings that matter are those of operations and callbacks on
shared structures: rules around the pool's cursor, look-ups inside a build, edits
inside a walk. Locks guard caches only (`discache.go:16`, `join.go:41`,
`typefactory.go:15`, `load_context.go:58`). Nothing is persisted, so there are no
crash-recovery hazards.

Parts without a model are listed in `PROJECT.json` with the reason.

## 2. Modules

```
SeqLemmas ──┬─ FlowBlockProofs ── FlowLabelProofs     (extend FlowBlock)
            ├─ SSAGraphProofs                         (extends SSAGraph)
            ├─ SpanningTreeProofs                     (extends SpanningTree)
            ├─ RulePoolProofs                         (extends RulePool)
            ├─ ActionTreeProofs                       (extends ActionTreeResume)
            └─ TranslateProofs                        (extends Translate)
FlowBlock ── MCFlowBlock        SSAGraph ── MCSSAGraph
SpanningTree ── MCSpanningTree  RulePool ── MCRulePool
ActionTree ── ActionTreeResume (implements UninterruptedRun) ── ActionTreeRun ── MCActionTree
PcodeExpr ── RulesCore ── RulesArith, RulesBitwise, RulesCompare, RulesBool, RulesShift,
                          RulesPiece, RulesDiv, RulesCombine ── Rules ── MCRules
DisCache ── Translate ── TranslateSpec (implements AtomicTranslator) ── MCTranslate
HeritageRanges ── HeritageGraph ──┬─ Heritage ── MCHeritage
Steps ────────────┘     DomMerge ─┘
```

Definitions carry the name of the code they model where TLA+ allows it. Slots and
positions are 1-based, the code's are 0-based. Operators introduced by a comment
`Mutant:` are defective versions of the definition that follows; no specification
uses them.

**FlowBlock.** `inEdges` and `outEdges` map a block to its list of
`[label, point, rev]`, as `BlockEdge`. The edge surgery (`HalfDeleteIn` ...
`ReplaceEdgesThru`, `SwapOut`, `Relabel`) are functions from graphs to graphs, each
a method of `FlowBlock`; they are atomic in the code as well. The operations of
`Funcdata` and `BlockGraph` that loop over edges while editing them
(`RemoveDoNothingBlock`, `spliceBlockBasic`, `removeFromFlowSplit`, `RemoveBlock`)
are a `task` that takes one step per turn of its loop and remembers the graph the
operation started from, `task.was`. The ops of a block are left out; what is kept of
them is the order of slots.

**SpanningTree.** A behaviour builds any small graph, runs `StructureLoops`
(spanning tree, irreducible edges, loop edges, dominators), severs one branch as
`ActionDeterminedBranch` does, structures again and removes unreachable blocks. The
depth-first searches take one edge per step, the dominator iteration one predecessor or
one move of a finger. The reference definitions (reachability, dominance, acyclicity)
are stated over the edges alone. What can be reached, and the body of a loop head that `findIrreducible` collects
with a worklist, are least closed sets: the order of the worklist decides nothing.

**RulePool, ActionTree, ActionTreeResume, UninterruptedRun, ActionTreeRun.** `ActionPool` and the action classes of
`action.go`, with the call stack explicit. What a rule matches is abstract in
`RulePool`: `can` holds the applications that would have an effect, a step of a rule
may destroy, take out, create or retype ops on either side of the cursor and change
`can`, within `Budget`. In `ActionTree` the leaves have a plan of changes and restart
requests. `UninterruptedRun` is the abstract specification: the tree performed without
breakpoints, statuses or a call stack, with a frame for each action that is active (its
mode, its next child, its changes so far and before this round). `ActionTreeResume`
maps `ActionTree` to it, `BreaksUnnoticed`: an action on the stack is where `Perform`
is; one that a breakpoint unwound is where its status says it stopped
(`breakstarthit` before `Apply`, `mid` inside it, `actionbreak` at the end of its
round), also while the host holds control; stopping and going back down are stutters.
`Reference` in `ActionTreeRun` is the same run once more as a structured program,
which gives the whole trace and the result.

**SSAGraph.** `inputs`/`descend` and `output`/`def` are the two sides of reads and
writes. A descend list is kept as the number of entries of each op, since its order
decides nothing here. An operation made of several calls (`OpSwapInput`,
`TotalReplace`, `OpDestroyRecursive` ...) leaves them in `todo`, one per step, so the
invariants also hold between any two calls. `OpSetInput` copies a constant that is
read already, and `LinksInBank` covers `ClearDeadVarnodes`, `DeleteVarnode` and
`DestroyVarnodeRecursive`.

**PcodeExpr and Rules\*.** A block of single-assignment ops in `g`; `evaluateUnary`
and `evaluateBinary` give ops their values as `opbehavior.go` does, `CalcNZMask` and
`getNZMaskLocal` their masks; `SetOp`, `SetIn`, `NewOpBefore`, `OpDestroy` are the
edits rules are made of. Each rule is an action with its guard and its edit; the
families follow the source files, `RulesDiv` recovers divisions and remainders and
`RulesCombine` recognizes one operation in several ops (three-way compares, sums of
terms, shifted pieces, parities). `Rules` puts them into their two pools. A byte has
`ByteBits` bits and a word `WordBytes` bytes; every 8 and 64 of the code is written
with them. The `precis` flags of varnodes are not modelled. `Disabled` names rules
switched off, as `RuleBase.SetDisable` does; section 6 says why the run `rules`
disables `collect_terms`.

**DisCache, Translate, TranslateSpec, AtomicTranslator.** `DisCache` is the pool of
parser contexts: list, hash, cursor, pin, promotion through the parse states and the
lazy look-up of `inst_next2`, which takes contexts out of the same pool. `Translate`
is one instruction through `TranslateInstructionAt`: the delay slots are prepared,
templates are walked with `BUILD`, labels and `DELAY_SLOT`, ops are staged with their
varnodes in a pool that moves when it grows, labels are resolved, ops emitted. What
decoding finds is a table. `AtomicTranslator` is the abstract specification: an
address is asked for and later answered with what its code means, or with a failure,
and every request is answered. `TranslateSpec` maps a translation under way to an
address asked for and forgets the cache, the staging area and the job;
`CacheTransparent` is the refinement, fairness included. As in the code, the address
after next of an instruction with delay slots is computed from its own length: the
comment at `instruction_context.go:41` calls this a known gap, and the abstract
specification follows the code there. Left out: CROSSBUILD, named sections, context
commits, the `contexts` and `rawOps` maps (filled or read by tests only) and emitters
that fail.

**Heritage, HeritageGraph, HeritageRanges, DomMerge.** `HeritageRanges` is the
disjoint cover and the refinement of ranges, `HeritageGraph` the function and the
edits of a pass on it (guards, normalization of reads and writes, MULTIEQUALs),
`DomMerge` the augmented dominator tree and the search for merge points. `Heritage`
runs the passes over the spaces with their delays, collects and places tasks, renames,
resolves late loads from the stack, removes dead code between the passes, and starts
over when a restart is asked for. At the end the program and its SSA form run side by
side along every path of bounded length. `Steps` binds intermediate graphs to names.
Left out: join pieces, load guards, stack placeholders, locked stack returns,
big-endian spaces, and operations on single bits of the consumed masks.

## 3. Runs

| Run | Instance | Shows |
| --- | --- | --- |
| `edges` | 3 blocks, 4 edges, one loop label, symmetric blocks | `Mirror`, `NoDangling` after every step of every operation; `LabelsAgree`: between operations both halves of an edge carry the same spanning-tree labels and only a switch block has a default edge; `RewiringKeepsSlots`: where the slots of all blocks end up, as `blockRemoveInternal`, `spliceBlockBasic` and `ConditionalExecution` rely on; `RemovalsShrink`: the loops that feed each other end |
| `spanning` | 4 blocks, at most 2 out-edges each, 5 edges, each structured twice | `OrderRight`, `LabelsCut`, `DominatorsRight`, `DeadRemoved` against definitions over the edges alone; `Terminates` |
| `pool` | 2 SeqNums, 2 opcodes sharing a rule, a disabled rule, a break, budget 2 | `PoolAtRest`: a finished pool is at a fixpoint, without dead ops, and returns the number of applications; `NoRuleOnDead`; `Terminates` |
| `actions` | a six-action universal action, every subset of its breakpoints, two restart requests | `BreaksUnnoticed`: interrupted anywhere and resumed, the tree takes the steps of a run without breakpoints; `TraceRight`, `RestartsBounded`, `Terminates` |
| `rules` | over 4000 blocks of 1 to 9 ops, 2-bit bytes, 4-byte words | `WellFormed` (widths, definition before use), `SameValue`, `MasksSound`, `Settles` |
| `recover` | over 700 blocks: divisions, remainders and combined operations as compilers write them, and what only resembles them | `StepsKeepValue`: no rewrite changes a value, but for the nine kinds that `Overreach` names; `Settles` |
| `signed_remainder` | one block, from a test of the repository | violation, see section 6 |
| `ssa` | 2 ops of 2 slots, 2 varnodes, 2 constants | `LinksMirrored`, `ConstantReadOnce`, `NothingLinkedDies`, `QueuedUnread`: recursive destruction queues an op only when all its readers go before it; `ReplacesAll` |
| `translate` | 3 contexts, 4 hash entries, 7 code tables | `CacheTransparent`: the pool, the staging area and the nesting are invisible; `NextAddressExact`: next addresses, exactly; `ContextsOwnDecode`, `RootSurvives`, `StagingSound` |
| `delay_slot_recycled` | the code's 8 contexts and 256 entries, 9 addresses | violation, see section 6 |
| `heritage` | 952 programs over a diamond, a loop and an irreducible graph | `ReadsAgree`: every read of the SSA form yields what the program reads, on every path; `AllLinked`, `GuardedOnce` |
| `entry_loop` | functions whose first block is a loop head | violation, see section 6 |

Each property has a mutant in `PROJECT.json`: a plausible defect of the code under
which the same run finds the property violated.

**Bounds.** Edges: three blocks allow self-loops, parallel edges, two-block cycles
and a bystander, and four edges put two parallel edges next to a loop. The constraint
`Smaller` of `MCFlowBlock` stops graphs with a spanning-tree label one edge earlier,
and graphs with a switch block at two blocks and two edges, because each label doubles
the states per half-edge; the proofs cover every size. Spanning tree: four blocks with
five edges include nested and crossing loops, irreducible ones, and blocks that a
severed branch cuts off as a cycle. Pool: with two SeqNums an op can be made or
destroyed before, at and behind the cursor. Rules: 2-bit bytes keep bytes, sign bits
and carries apart; a 4-byte word is the widest value, so 1-byte and 2-byte operands
meet truncation and extension inside it, and every input value of a block is tried.
Rules may fire in any order and on any op, which covers the pool's order and more;
one consequence is that a shift by zero only appears in one-op blocks, because in
the pool `RuleTrivialShift` has always removed it before. `MaxRewrites` bounds the
rewrites per op by 6: `Settles` says a block rests before. Def-use: two slots on two
ops give an op reading one varnode twice and two readers; fresh varnodes for the
copies of constants are bounded, so this run does not check for deadlock. Spacebase
constants, address-forced varnodes, locked inputs and call ops appear in the proofs
only. Translator: tables with five addresses make contexts and hash entries contested;
the varnode pool starts at 4 and grows by 2 so that it moves twice within a build.
Offsets of branches are kept modulo 256. Heritage: three passes are one more than the
delays of the spaces call for, five blocks of a path enter a loop twice.

Deadlock is not checked where the system may stop: the edge and def-use operations
(no call is always possible within the bounds) and the rules (a settled block).

**Fairness.** All of this code is sequential and no step waits for another party:
once called, it goes on. `RulePool`, `ActionTree` and `SpanningTree` therefore assume
weak fairness of `Next`, where a host that resumes after a breakpoint is part of
`Next`. `FlowBlock` assumes it for the turns of loops under way (`Loops`) and
`Translate` for the steps of a translation under way (`Work`), not for what callers
may or may not request; `AtomicTranslator` promises that what is asked is answered,
never that anything is asked.

## 4. Proofs

Checked by TLAPS for every value of the constants. Each module assumes only the named
assumptions of the module it extends (`FlowBlockAssumption`, `SSAGraphAssumption`,
`SpanningTreeAssumption`, `RulePoolAssumption`, `ActionTreeAssumption`,
`TreeAssumption`, `PoolAssumption`, `StagingAssumption`, `ProgramAssumption`): parameters
are numbers, lists name existing rules or actions, the root of an action tree is nobody's
child and every other action belongs to one group in one place (`AddAction` is given a
new action wherever the code builds a tree, and `Clone` copies whole ones), a pool has
two contexts at least, a code table gives lengths and delay bytes as naturals. TLC evaluates each on its run. The
properties were checked by TLC on the runs above before they were proved.

**FlowBlockProofs**: `TypeCorrect`, `EdgesMirrored`, `RemovedIsDetached`. An edge
operation is two or three half-edits, and between them one slot on each side has no
mirror. The argument is therefore about graphs mirrored except at given slots
(`MirroredBut`): each surgery lemma says which slots an edit leaves without a mirror
and where the others have moved, and the last edit leaves none. `IndInv` is the
conjunction of the three properties, which need each other, and of the fact that a
bypass or a splice under way still works towards a block of the graph; without it the
next turn could hang an edge on a removed block.

**FlowLabelProofs** goes on from `IndInv` to the three other properties of the edges.
* `LabelsStayTogether` (`LabelsAgree`). Within a removal the two halves of an edge do
  carry different labels, since `replaceEdgesThru` joins halves of different edges; the
  property holds when the operation has ended with its structure reset. `LabelInv` adds
  `HalvesOK` to `IndInv`: a default flag on the in-half of an edge is on its out-half too
  (`Paired` with `Covers`: an operation that rebuilds the out-half from the in-half
  makes no new default edge), the halves agree between operations (`Agree`), default
  edges leave switch blocks only, one each (`DefaultsOK`), and while a splice moves
  edges one of its two blocks has none (`MoveOK`).
* `RemovalsEnd` (`RemovalsShrink`). The two loops of `removeFromFlow` would feed each
  other if the block had a way out to itself; `BypassOK` says it keeps none.
* `RewiringKeepsOrder` (`RewiringKeepsSlots`). The result of a loop is compared with
  the graph before it, so the invariant has to say what every turn has done so far.
  `RewireOK` relates the graph to `task.was`: with n edges moved (`BypassRun`,
  `Splicing`) every slot of every other block is the old one, the removed one or one
  that slid; each turn takes n to n + 1 and at the last turn the relation is the
  property. `removeFromFlowSplit` is two joins through a block with two ins and outs,
  proved on one side (`Thru`, `TwoJoins`) and mirrored for the other (`Flip`).

**SSAGraphProofs**: `SSATypeCorrect`, `ReadsMirrored`, `WritesMirrored` (together
`Mirrored`), `ConstantsUnshared`, `LinksStayInBank`, `BlocksHoldAliveOps` (together
`LinkedLive`). `IndInv` joins `ReadInv` (for each varnode and op, the descend count is
the number of slots of the op that read it; banks; constants), `WriteInv` (output, def
and the written flag), `BlockOpsAlive`, `NewOpsBare` (an op that does not exist yet
has no slots) and `TodoOK` (the calls an operation still has to make name existing
ops, slots and varnodes, so that the operation may continue from any intermediate
state).

The last part of the module proves `QueueHoldsUnread` (`QueuedUnread`) and the action
property `ReplaceLeavesNoReader` (`ReplacesAll`). Both are about a list of calls worked off while the graph changes, so `CallsInv` adds
to `IndInv` that all pending calls belong to one operation (`OneOperation`) and that
the snapshot `TotalReplace` walks still counts what is left in the descend list
(`SnapshotInv`): the last visit then takes the last reader.

**SpanningTreeProofs**: `OrderStaysRight` (`OrderRight`), `LabelsStayCut` (`LabelsCut`),
`DeadStaysRemoved` (`DeadRemoved`), `NeverRebuilds` and `DominatorsStayRight`
(`DominatorsRight`). The first four speak of the result of
three depth-first walks over a graph that is edited between them, so the inductive
invariant `SpanInv` has to say what each walk has found so far.
* `GraphOK`: the edge lists mirror each other and run between listed blocks; no block
  is listed twice and the entry is. `HistoryOK`: before anything was severed every block
  is reachable; while the entry has no in-edge, or nothing was severed yet, it is the
  first of the list; after the removal an entry without in-edges reaches the whole list.
* `PassOK` holds while `findSpanningTree` runs. `Numbers`: preorder and postorder count
  the visited and the finished blocks, each once. `StackOK`, `Spans`: the blocks on the
  stack are exactly the visited unfinished ones, in order, and the subtrees (visit
  number and descendant count) are nested intervals, complete when the block is
  finished. `EdgesOK`: each explored edge has the one label its two intervals call
  for. `RootsOK`, `RootList`: what is visited hangs on a root through tree edges, the
  first roots have no in-edges, and the second pass ends with the head. `LiveOK`: when no
  live block leads to the entry, it is finished after all of them, which puts it first.
* `TreeOK`, `LabelFacts`, `LiveHead` are what is left of this when the walk has ended:
  indices and positions agree, the back edges are those that do not go forward in the
  order, and they lead to ancestors.
* `HeadsOK` holds while `findIrreducible` goes through the heads from the last of the
  preorder to the first: each head done has a `Body`, a set of blocks below it that
  contains the sources of its back edges and that only itself and the head lead into,
  counting the edges not yet cut. So on the edges that are left a path into the body
  passes the head (`Reduces`). In a graph where all back edges went to dominators the
  body is left by no such path, so nothing is cut. The tree path from the head to a
  block of the body stays in the body, hence no tree edge enters it from elsewhere:
  `rebuild` is never set, and the second to eighth attempt of `StructureLoops` and the
  clearing of labels between them are never executed (`NeverRebuilds`).
* `CutOK` keeps the conclusion while loop edges and dominators are computed; every
  back edge is a loop edge as well, and what is left goes forward in the order.

`DeadStaysRemoved` follows from the roots: if the entry has no in-edge and the walk had
one root, that root is the entry and all blocks are reachable, so skipping the removal
is right; otherwise the removal keeps what is reachable, and structuring what is left
does not change the set.

`DominatorsStayRight` has an invariant of its own, `DomInv` (`DominatorsInvariant`), over
the tree of dominators while it is computed. Two halves meet at the end.
* Nothing that dominates is lost (`UpOK`, `JoinOK`): the provisional dominator of a block
  comes earlier in the order, and whatever strictly dominates the block dominates it.
  This is a fact of each block alone, so setting one dominator does not disturb it for
  the blocks further down. It holds for both fingers at every move: a dominator comes no
  later than what it dominates (`DomsIndex`, by the tree edges of the walk), hence no
  later than the earlier finger, and the later finger can go up without passing it.
* Nothing that does not dominate is kept (`SweptOK`): as long as a sweep has changed
  nothing, the dominator of each block passed is above all its predecessors. After a
  sweep without changes the blocks that z is not above are then closed but for z
  (`AboveDoms`), so what is above a block dominates it.

Virtual root and first block share index 0; the proof reads the first block for both
(`Up`), which loses nothing because only it can dominate another root (`DomsRoot`).

**RulePoolProofs**: `PoolTypeCorrect`, `PoolRests` (`PoolAtRest`), `RulesSeeLiveOps`
(`NoRuleOnDead`). That a finished pool is at a fixpoint is a statement about the whole
last round. `QuietInv` makes it inductive: as long as the round has counted no change,
every op behind the cursor, and every rule of the current op before the rule index,
has nothing to do. `CursorInv` ties op, SeqNum and opcode of the cursor together after
rules that destroy or retype the op, `StatusInv` the counters to the status a break
point leaves.

**ActionTreeProofs**: `TreeTypeCorrect`, `TreeInvariant`, `RestartsAreBounded`
(`RestartsBounded`). A resumed call goes down the path of interrupted actions, so the
bound needs the path: the stack starts at the root and only there (`StackInv`), an
open restart group is left by breakpoints only (`RootInv`), and the number of clears
is the restart counter while requests are open (`CountInv`).

The second half of the module proves the refinement, `BreaksGoUnnoticed`
(`BreaksUnnoticed`), with `ResumeInvariant`. What has to be shown is that the statuses
left by a breakpoint describe one interrupted run and nothing else. `ResumeInv` says so:
an action that stopped is the child its group will come back to, and that group has
itself stopped inside `Apply` or is being performed (`StoppedIn`); the stack holds no
action twice and each action on it is the child the one below is at (`Distinct`,
`Chain`); only an action on the stack is between two rounds (`RepeatOn`); one that
stopped before `Apply` has counted nothing (`FreshEntry`); what the status of the top
action can be at each point of `Perform` (`TopOK`); and a restart group that is through
has no stopped child (`EndOK`), without which a last resumption could find an action in
the middle of nothing. A step changes the frame of the top action (`TopStep`), of the
child put on the stack (`PushStep`) or of the two actions a return joins (`PopStep`);
these lemmas say that all other frames stay, and each action then is a step of
`UninterruptedRun` or a stutter.

**TranslateProofs**: `ContextsHoldTheirDecode` (`ContextsOwnDecode`),
`NextAddressStaysExact` (`NextAddressExact`), `RootContextSurvives` (`RootSurvives`),
`StagedOpsViewThePool` (`StagingSound`). `BuildInv` adds to the first three what a look-up in the
middle of a build relies on: the hash table names existing contexts, a context that
still waits for the address after next has p-code and so knows where it ends, every
frame of the builder stands on a context that exists (`StackOK`), and once the build
has begun the root's next address is where its delay slots end (`PastDelays`). That is
said without recursion: a set of instructions, each begun before the delay bytes were
had, leads from the end of the instruction to its next address (`DelaySlotsEnd`).
While the slots are prepared `DelaySlotsLead` holds of those met so far, and each turn
of the loop adds the instruction at its end. `AtomicTranslator` counts the same slots
one by one, and the run compares the two. The pool
changes in four ways only, so the lemmas on it say what they preserve (`Moved`, with the
decode and the address after next of the pinned context) and
what they answer (`Obtained`), and each action is a few of them in a row. `RawOK` is
the staging area with the starts of issued ops in order. `ReuseWindow` is no theorem:
contexts of delay slots are not pinned, and the run `delay_slot_recycled` refutes it.

`SeqLemmas` holds what they share: what `RemoveAt`, `InsertAt`, `Append` and updates do
to lists, how the number of matching slots changes with them, least numbers.

**Only model-checked.**
* Liveness: `Terminates`, and the answering half of `CacheTransparent`; fairness is
  beyond the prover. `Settles` bounds the rewrites of whole blocks of ops.
* Properties whose reference is recursive, where a proof needs induction over data:
  `TraceRight` (the structured run; `BreaksUnnoticed` proves the steps it is made of),
  `SameValue`, `StepsKeepValue`, `MasksSound`, `WellFormed` (evaluation of a block, bit operations),
  `CacheTransparent` (templates within templates, chains of delay slots) and all of
  `Heritage`.

## 5. Hazards

`PROJECT.json` lists where this code can go wrong in ways its tests hardly reach, and
the properties aimed at each. Two are not covered: `ClearDeadOps` drops ops from the
bank without unlinking them (`action_nodejoin.go:70`), and three places swap or clear
input slots past `OpSetInput` (`prefer_complement.go:253`, `action_fold_flags.go:144`,
`rules_ext.go:555`).

## 6. Findings

* `delay_slot_recycled`: only the root instruction's context is pinned. A delay-slot
  context found by a hash hit may be next in the pool; the `inst_next2` look-up of
  its first op recycles it, and the ops behind that one are lowered at the address of
  the following instruction, whose length the delay-slot loop then takes. The recycled
  context also keeps an address after next that was looked up for another instruction.
* `signed_remainder`: `RuleSignMod2nOpt2` with the sign form accepts every 2^n, though
  subtracting the sign rounds towards zero for 2 only. `rules_divmod_test.go:176` builds
  `x - ((x - sign) & -4)` and expects the remainder by 4; for x = -3 the expression is 1.
* `entry_loop`: block 0 never gets a MULTIEQUAL and `bridge.Build` prepends no empty
  entry block. A location written in a loop whose head is the first block of the
  function is read there as the function input on every iteration.

Observations met while modelling. The rewrites that change a value are spelled out in
`Rules`, one operator each, and collected in `Overreach`; `StepsKeepValue` says that
there is no other in the blocks of `recover`, and every one of them occurs there: TLC
finds `StepsKeepValue` violated when any of them is taken out of `Overreach`. What is
done to a block after one of them is not judged. The run `rules` keeps to blocks without
them, so that `SameValue` can be asked of whole sequences of rewrites.

* `RuleCollectTerms` moves constants without updating masks. In
  `((y&~3)+3) + ((x&~3)+4) & ~3` (`StaleBlocks`) a mask from before the move then removes
  bits that are set. The run `rules` therefore disables it; in `recover` it is enabled,
  and `StepsKeepValue` speaks of rewrites made while the masks are sound.
* Divisions: `RuleDivChain` takes the absolute value of an unsigned divisor with the
  top bit set (`ChainOverreach`); `RuleDivOpt` does not check that the product fits its
  word, its signed form accepts a magic divisor above the signed maximum, and
  `moveSignBitExtraction` may make an earlier op read the quotient, which is defined later
  (`OptOverreach`); `RuleDivTermAdd(2)` drops the carry of its sum (`TermOverreach`);
  `RuleSignForm2` meets a multiplier that may be zero, and `RuleSignForm` makes an
  INT_SRIGHT whose width differs from its operand's (`SignOverreach`);
  `RuleSignMod2nOpt2`, as above (`RemainderOverreach`).
* Comparisons: `threeWayCompareEquivalence` accepts `c1 < b` with `c2 <= b` for
  different constants, and signed constants at the wrap (`CompareOverreach`); `RuleScarry`
  excludes the integer minimum in slot 0 only, and `RuleTermOrder` moves it to slot 1
  (`CarryOverreach`); `sless2ZeroHiBit` (`rules_bool.go:582`) answers with input 0 also
  when both operands supply the sign (`ZeroOverreach`).
* Bits: `RuleRightShiftAnd` (`rules_bitwise.go:306`) drops a mask under a saturated
  arithmetic shift (`ShiftOverreach`); `RuleAndMask` looks at slot 1 only, the comment
  at `rules_copy.go:428` says either slot.
* Structuring: `RemoveUnreachableBlocks` returns early unless the last structuring saw
  several roots. When the entry is a loop head and the other block of the loop goes
  dead, that block is the only one without in-edges: it becomes the single root, keeps
  its place in the graph and is numbered 0. `DeadRemoved` leaves that case out. With
  several roots `immedDom` does not tell the virtual root from block 0. After
  `replaceEdgesThru` the two halves of an edge keep different labels until the next
  structure reset.
* Heritage: where a call reads a location that it kills and nothing has written, the
  INDIRECT-cause path of `renameRecurse` (`heritage.go:942`) makes an input without
  `FindVarnodeInput`, so a location may be two inputs of the function. The programs
  `Targets` reach that path; both inputs stand for the same bytes and `ReadsAgree` holds.
* `NodeSplit` returns without splitting on redundant in-edges while
  `ActionReturnSplit` still counts a change; `bridge.Decompile` restarts at most once;
  `translateRuntimeContext` reads addresses before the `inst_next2` look-up.
* Comments the code has outgrown: `condexe.go:31`, `deadcode_consume.go:10` and `:22`,
  `RuleMultiCollapse` at `rules_copy.go:293`, "Dormant" at `guardReturns`.

## 7. Plan

In order of importance:

1. Theorems: the graph part of `Heritage` (`GuardedOnce`, `AllLinked`), once its pass
   is split into steps as the dominators were.
2. Merging paths: the rules on MULTIEQUAL (collapse, push and pull, conditional move,
   predicates), `ConditionalExecution`, node joining and splitting, as phi surgery over
   a graph with values.
3. `FlowFollow`: the driver's worklist of addresses, block starts and CFG edges
   (`bridge.go`, `collectInstructions`, `addCFGEdges`), composed with
   `AtomicTranslator`, and the restart loop of `decompile.go`.
4. `Cover` and `Merge`: covers against liveness, merging against interference.
5. `Collapse` of structured blocks on `FlowBlock` graphs.
6. Double precision, sub-variable flow, lane division: replaced graphs against values.
7. `CircleRange` against sets of values, jump tables, `ActionDatabase`, `ParamActive`,
   type propagation, pretty-printing, CROSSBUILD, context commits, the shared join table.
