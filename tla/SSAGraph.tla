------------------------------ MODULE SSAGraph ------------------------------
(***************************************************************************)
(* The def-use graph of a function: ops, varnodes and the links between     *)
(* them (funcdata.go, varnode_bank.go, varnode_ssa.go, pcodeop_bank.go).    *)
(*                                                                         *)
(* A read is recorded twice, in the op's input slot and in the varnode's    *)
(* list of readers (descend, one entry per reading slot), and so is a       *)
(* write, in the op's output and the varnode's def.  All the rewriting code *)
(* goes through the operations below to keep the two sides in step.         *)
(*                                                                         *)
(* The order of a descend list decides nothing here, so a list is the       *)
(* number of entries each op has in it.  Slots are 1-based, 0-based in the  *)
(* code.  `todo' holds the calls the operation under way still has to make; *)
(* every other operation waits for it to be empty.                          *)
(***************************************************************************)
EXTENDS Integers, FiniteSets, SequencesExt

CONSTANTS
    Op,          \* the PcodeOps that may ever exist
    Varnode,     \* the Varnodes that may ever exist
    Constant,    \* those in the constant space
    SpaceBase,   \* the constants flagged spacebase: the ones several ops may read
    AutoLive,    \* varnodes flagged addrforce or autolive_hold
    LockedInput, \* varnodes flagged locked_input
    CallOp,      \* calls and sources of indirect effects
    MaxInput,    \* bound on the input slots of an op
    Nil

ASSUME SSAGraphAssumption ==
    /\ Constant \subseteq Varnode
    /\ SpaceBase \subseteq Constant
    /\ Nil \notin Varnode \cup Op
    /\ MaxInput \in Nat

VARIABLES
    bank,     \* PcodeOpBank: the list every op is on
    inBlock,  \* the ops linked into a basic block
    inputs,   \* PcodeOp.inputs
    output,   \* PcodeOp.output
    status,   \* the input and written flags of a varnode, and whether the bank has it
    def,      \* Varnode.def
    descend,  \* Varnode.descend
    todo      \* the calls still to be made by the operation under way

vars == <<bank, inBlock, inputs, output, status, def, descend, todo>>

opVars == <<bank, inBlock>>
readVars == <<inputs, descend>>
writeVars == <<output, def>>

Call == [call : {"set"}, op : Op, vn : Varnode, slot : 1..MaxInput]
   \cup [call : {"replace"}, left : [Op -> Nat], old : Varnode, vn : Varnode]
   \cup [call : {"destroy"}, op : Op, root : BOOLEAN]

TypeOK ==
    /\ bank \in [Op -> {"new", "dead", "alive", "gone"}]
    /\ inBlock \subseteq Op
    /\ inputs \in [Op -> Seq(Varnode \cup {Nil})]
    /\ output \in [Op -> Varnode \cup {Nil}]
    /\ status \in [Varnode -> {"new", "free", "input", "written", "gone"}]
    /\ def \in [Varnode -> Op \cup {Nil}]
    /\ descend \in [Varnode -> [Op -> Nat]]
    /\ todo \in Seq(Call)

-----------------------------------------------------------------------------
InBank(v) == status[v] \in {"free", "input", "written"}

\* The op is in the op bank: the rewriting code holds only such ops.
Exists(o) == bank[o] \in {"dead", "alive"}

Slots(o) == 1..Len(inputs[o])

HasNoDescend(v) == \A o \in Op : descend[v][o] = 0

\* Varnode.LoneDescend # nil: one entry, of one op
LoneDescend(v) == \E o \in Op : descend[v] = [p \in Op |-> IF p = o THEN 1 ELSE 0]

\* Mutant: the list is emptied of the op.
EraseDescendAll(d, v, o) == IF v = Nil THEN d ELSE [d EXCEPT ![v][o] = 0]

\* One entry of o leaves v's list, if there is one.
EraseDescend(d, v, o) ==
    IF v = Nil THEN d ELSE [d EXCEPT ![v][o] = IF @ = 0 THEN 0 ELSE @ - 1]

AddDescend(d, v, o) == [d EXCEPT ![v][o] = @ + 1]

\* Mutant: a constant is shared by its readers.
StoredShared(d, v, c) == c = v

\* c is the varnode OpSetInput really stores for v when d are the descend lists:
\* a constant that is already read gets a fresh copy, unless it is a spacebase.
Stored(d, v, c) ==
    IF v \in Constant \ SpaceBase /\ \E o \in Op : d[v][o] # 0
    THEN c \in Constant \ SpaceBase /\ status[c] = "new"
    ELSE c = v

\* The links OpSetInput makes when slot i of o holds something other than v.
SetSlot(o, v, i) ==
    \E c \in Varnode :
        /\ Stored(descend, v, c)
        /\ inputs' = [inputs EXCEPT ![o][i] = c]
        /\ descend' = AddDescend(EraseDescend(descend, inputs[o][i], o), c, o)
        /\ status' = IF c = v THEN status ELSE [status EXCEPT ![c] = "free"]

-----------------------------------------------------------------------------
(***************************************************************************)
(* Creation.                                                                *)
(***************************************************************************)
NewVarnode(v) ==
    /\ status[v] = "new"
    /\ status' = [status EXCEPT ![v] = "free"]
    /\ UNCHANGED <<opVars, readVars, writeVars, todo>>

\* The op has no output yet: NewVarnodeOut and NewUniqueOut unlink nothing.
NewVarnodeOut(o, v) ==
    /\ Exists(o)
    /\ output[o] = Nil
    /\ status[v] = "new"
    /\ v \notin Constant
    /\ status' = [status EXCEPT ![v] = "written"]
    /\ def' = [def EXCEPT ![v] = o]
    /\ output' = [output EXCEPT ![o] = v]
    /\ UNCHANGED <<opVars, readVars, todo>>

SetInputVarnode(v) ==
    /\ status[v] = "free"
    /\ v \notin Constant
    /\ status' = [status EXCEPT ![v] = "input"]
    /\ UNCHANGED <<opVars, readVars, writeVars, todo>>

NewOp(o, n) ==
    /\ bank[o] = "new"
    /\ bank' = [bank EXCEPT ![o] = "dead"]
    /\ inputs' = [inputs EXCEPT ![o] = [i \in 1..n |-> Nil]]
    /\ UNCHANGED <<inBlock, output, def, status, descend, todo>>

-----------------------------------------------------------------------------
(***************************************************************************)
(* Outputs.                                                                 *)
(***************************************************************************)

\* What OpUnsetOutput leaves of the outputs, the defs and the flags.  A written
\* varnode becomes free and stays in the bank.
Unwritten(o) ==
    [output |-> [output EXCEPT ![o] = Nil],
     def    |-> IF output[o] = Nil THEN def ELSE [def EXCEPT ![output[o]] = Nil],
     status |-> IF output[o] = Nil \/ status[output[o]] # "written" THEN status
                ELSE [status EXCEPT ![output[o]] = "free"]]

\* The op's own output and the op that defined v let go before v is linked.  The
\* bank asks for a free varnode by then, so v is not a function input.
OpSetOutput(o, v) ==
    /\ Exists(o)
    /\ status[v] \in {"free", "written"}
    /\ v \notin Constant
    /\ output[o] # v
    /\ output' = [p \in Op |-> IF p = o THEN v ELSE IF p = def[v] THEN Nil ELSE output[p]]
    /\ def' = [x \in Varnode |-> IF x = v THEN o ELSE IF x = output[o] THEN Nil ELSE def[x]]
    /\ status' = [x \in Varnode |-> IF x = v THEN "written"
                                    ELSE IF x = output[o] THEN "free" ELSE status[x]]
    /\ UNCHANGED <<opVars, readVars, todo>>

OpUnsetOutput(o) ==
    /\ Exists(o)
    /\ output[o] # Nil
    /\ output' = Unwritten(o).output
    /\ def' = Unwritten(o).def
    /\ status' = Unwritten(o).status
    /\ UNCHANGED <<opVars, readVars, todo>>

-----------------------------------------------------------------------------
(***************************************************************************)
(* Inputs.                                                                  *)
(***************************************************************************)
OpSetInput(o, v, i) ==
    /\ Exists(o)
    /\ InBank(v)
    /\ i \in Slots(o)
    /\ inputs[o][i] # v
    /\ SetSlot(o, v, i)
    /\ UNCHANGED <<opVars, writeVars, todo>>

OpUnsetInput(o, i) ==
    /\ Exists(o)
    /\ i \in Slots(o)
    /\ inputs[o][i] # Nil
    /\ inputs' = [inputs EXCEPT ![o][i] = Nil]
    /\ descend' = EraseDescend(descend, inputs[o][i], o)
    /\ UNCHANGED <<opVars, writeVars, status, todo>>

OpRemoveInput(o, i) ==
    /\ Exists(o)
    /\ i \in Slots(o)
    /\ inputs' = [inputs EXCEPT ![o] = RemoveAt(@, i)]
    /\ descend' = EraseDescend(descend, inputs[o][i], o)
    /\ UNCHANGED <<opVars, writeVars, status, todo>>

\* PcodeOp.InsertInput, then OpSetInput
OpInsertInput(o, v, i) ==
    /\ Exists(o)
    /\ InBank(v)
    /\ Len(inputs[o]) < MaxInput
    /\ i \in 1..(Len(inputs[o]) + 1)
    /\ inputs' = [inputs EXCEPT ![o] = InsertAt(@, i, Nil)]
    /\ todo' = <<[call |-> "set", op |-> o, vn |-> v, slot |-> i]>>
    /\ UNCHANGED <<opVars, writeVars, descend, status>>

\* Both varnodes are read first, then set with OpSetInput one after the other.
OpSwapInput(o, i, j) ==
    /\ Exists(o)
    /\ {i, j} \subseteq Slots(o)
    /\ i # j
    /\ inputs[o][i] # Nil /\ inputs[o][j] # Nil
    /\ todo' = <<[call |-> "set", op |-> o, vn |-> inputs[o][j], slot |-> i],
                 [call |-> "set", op |-> o, vn |-> inputs[o][i], slot |-> j]>>
    /\ UNCHANGED <<opVars, readVars, writeVars, status>>

\* What OpUnsetInput on every slot of o leaves of the descend lists.
Unread(o) ==
    [v \in Varnode |-> [descend[v] EXCEPT ![o] =
        LET n == Cardinality({i \in Slots(o) : inputs[o][i] = v})
        IN  IF @ < n THEN 0 ELSE @ - n]]

\* replaceInputs: all slots are unset, then the list is resized and filled.
OpSetAllInput(o, vs) ==
    /\ Exists(o)
    /\ \A i \in DOMAIN vs : InBank(vs[i])
    /\ inputs' = [inputs EXCEPT ![o] = [i \in DOMAIN vs |-> Nil]]
    /\ descend' = Unread(o)
    /\ todo' = [i \in DOMAIN vs |-> [call |-> "set", op |-> o, vn |-> vs[i], slot |-> i]]
    /\ UNCHANGED <<opVars, writeVars, status>>

\* The OpSetInput call of an operation under way
SetNext ==
    /\ todo # <<>>
    /\ Head(todo).call = "set"
    /\ todo' = Tail(todo)
    /\ LET t == Head(todo)
       IN  IF inputs[t.op][t.slot] = t.vn
           THEN UNCHANGED <<readVars, status>>
           ELSE SetSlot(t.op, t.vn, t.slot)
    /\ UNCHANGED <<opVars, writeVars>>

\* Mutant: every reading op is visited once.
TotalReplaceOnce(old, v) ==
    /\ InBank(old) /\ InBank(v)
    /\ ~HasNoDescend(old)
    /\ todo' = <<[call |-> "replace", old |-> old, vn |-> v,
                  left |-> [o \in Op |-> IF descend[old][o] = 0 THEN 0 ELSE 1]]>>
    /\ UNCHANGED <<opVars, readVars, writeVars, status>>

\* TotalReplace takes a snapshot of old's readers, and visits an op once per entry.
TotalReplace(old, v) ==
    /\ InBank(old) /\ InBank(v)
    /\ ~HasNoDescend(old)
    /\ todo' = <<[call |-> "replace", left |-> descend[old], old |-> old, vn |-> v]>>
    /\ UNCHANGED <<opVars, readVars, writeVars, status>>

\* The snapshot without one entry of o, any order standing for the list's
Visited(t, o) ==
    LET left == [t.left EXCEPT ![o] = @ - 1]
    IN  IF \A p \in Op : left[p] = 0 THEN <<>> ELSE <<[t EXCEPT !.left = left]>>

\* The slot GetSlot finds for old in o's inputs: the first one
SlotOf(o, old) == CHOOSE i \in Slots(o) :
    inputs[o][i] = old /\ \A j \in 1..(i - 1) : inputs[o][j] # old

\* One reader: the first slot that still holds old is unset and set to v.
ReplaceNext ==
    /\ todo # <<>>
    /\ Head(todo).call = "replace"
    /\ \E o \in Op :
        LET t == Head(todo)
            erased == EraseDescend(descend, t.old, o)
        IN  /\ t.left[o] > 0
            /\ todo' = Visited(t, o)
            /\ IF \A i \in Slots(o) : inputs[o][i] # t.old
               THEN UNCHANGED <<readVars, status>>
               ELSE \E c \in Varnode :
                      /\ Stored(erased, t.vn, c)
                      /\ inputs' = [inputs EXCEPT ![o][SlotOf(o, t.old)] = c]
                      /\ descend' = AddDescend(erased, c, o)
                      /\ status' = IF c = t.vn THEN status ELSE [status EXCEPT ![c] = "free"]
    /\ UNCHANGED <<opVars, writeVars>>

-----------------------------------------------------------------------------
(***************************************************************************)
(* Insertion and removal.                                                   *)
(***************************************************************************)

\* OpInsertBegin, OpInsertEnd, OpInsertBefore, OpInsertAfter: the position in
\* the block apart, an op off the alive list joins it and a block.
OpInsert(o) ==
    /\ bank[o] = "dead"
    /\ bank' = [bank EXCEPT ![o] = "alive"]
    /\ inBlock' = inBlock \cup {o}
    /\ UNCHANGED <<readVars, writeVars, status, todo>>

\* The links stay: the op is about to be inserted elsewhere.
OpUninsert(o) ==
    /\ bank[o] = "alive"
    /\ bank' = [bank EXCEPT ![o] = "dead"]
    /\ inBlock' = inBlock \ {o}
    /\ UNCHANGED <<readVars, writeVars, status, todo>>

\* The whole of Funcdata.OpDestroy
Destroy(o) ==
    /\ inBlock' = inBlock \ {o}
    /\ output' = Unwritten(o).output
    /\ def' = Unwritten(o).def
    /\ status' = Unwritten(o).status
    /\ inputs' = [inputs EXCEPT ![o] = [i \in Slots(o) |-> Nil]]
    /\ descend' = Unread(o)
    /\ bank' = [bank EXCEPT ![o] = "gone"]

OpDestroy(o) ==
    /\ Exists(o)
    /\ Destroy(o)
    /\ UNCHANGED todo

OpDestroyRecursive(o) ==
    /\ Exists(o)
    /\ todo' = <<[call |-> "destroy", op |-> o, root |-> TRUE]>>
    /\ UNCHANGED <<opVars, readVars, writeVars, status>>

\* Mutant: any written input is followed, read by others or not.
FollowedAnyReader(v) ==
    v # Nil /\ status[v] = "written" /\ v \notin AutoLive /\ def[v] \notin CallOp

\* The worklist goes on to the op that defines v.
Followed(v) ==
    /\ v # Nil
    /\ status[v] = "written"
    /\ v \notin AutoLive
    /\ LoneDescend(v)
    /\ def[v] \notin CallOp

\* An op of the worklist: the ops that alone feed it join at the end, slot by
\* slot, and it is destroyed.
DestroyNext ==
    /\ todo # <<>>
    /\ Head(todo).call = "destroy"
    /\ LET o == Head(todo).op
       IN  /\ \E fed \in BoundedSeq(1..MaxInput, MaxInput) :
                 /\ \A k, m \in DOMAIN fed : k < m => fed[k] < fed[m]
                 /\ Range(fed) = {i \in Slots(o) : Followed(inputs[o][i])}
                 /\ todo' = Tail(todo) \o [k \in DOMAIN fed |->
                       [call |-> "destroy", op |-> def[inputs[o][fed[k]]], root |-> FALSE]]
           /\ Destroy(o)

DestroyVarnodeRecursive(v) ==
    /\ InBank(v)
    /\ v \notin AutoLive
    /\ HasNoDescend(v)
    /\ IF status[v] = "written"
       THEN /\ todo' = <<[call |-> "destroy", op |-> def[v], root |-> TRUE]>>
            /\ UNCHANGED status
       ELSE /\ status' = [status EXCEPT ![v] = "gone"]
            /\ UNCHANGED todo
    /\ UNCHANGED <<opVars, readVars, writeVars>>

\* The bank asks its callers for a free varnode nothing reads.
DeleteVarnode(v) ==
    /\ status[v] = "free"
    /\ HasNoDescend(v)
    /\ status' = [status EXCEPT ![v] = "gone"]
    /\ UNCHANGED <<opVars, readVars, writeVars, todo>>

\* Mutant: free varnodes go whether they are read or not.
ClearDeadVarnodesRead ==
    /\ status' = [v \in Varnode |->
          IF status[v] = "free" \/ (status[v] = "input" /\ HasNoDescend(v) /\ v \notin LockedInput)
          THEN "gone" ELSE status[v]]
    /\ UNCHANGED <<opVars, readVars, writeVars, todo>>

\* An unread input that is not locked becomes free, an unread free varnode goes.
ClearDeadVarnodes ==
    /\ status' = [v \in Varnode |->
          IF /\ HasNoDescend(v)
             /\ status[v] = "free" \/ (status[v] = "input" /\ v \notin LockedInput)
          THEN "gone" ELSE status[v]]
    /\ UNCHANGED <<opVars, readVars, writeVars, todo>>

\* The ops on the dead list leave the bank; nothing is unlinked.
ClearDeadOps ==
    /\ bank' = [o \in Op |-> IF bank[o] = "dead" THEN "gone" ELSE bank[o]]
    /\ UNCHANGED <<inBlock, readVars, writeVars, status, todo>>

-----------------------------------------------------------------------------
Init ==
    /\ bank = [o \in Op |-> "new"]
    /\ inBlock = {}
    /\ inputs = [o \in Op |-> <<>>]
    /\ output = [o \in Op |-> Nil]
    /\ status = [v \in Varnode |-> "new"]
    /\ def = [v \in Varnode |-> Nil]
    /\ descend = [v \in Varnode |-> [o \in Op |-> 0]]
    /\ todo = <<>>

Create ==
    \/ \E v \in Varnode : NewVarnode(v) \/ SetInputVarnode(v)
    \/ \E o \in Op, v \in Varnode : NewVarnodeOut(o, v)
    \/ \E o \in Op, n \in 0..MaxInput : NewOp(o, n)

Write == \E o \in Op : OpUnsetOutput(o) \/ \E v \in Varnode : OpSetOutput(o, v)

Read ==
    \/ \E o \in Op, i \in 1..MaxInput :
          \/ OpUnsetInput(o, i)
          \/ OpRemoveInput(o, i)
          \/ \E v \in Varnode : OpSetInput(o, v, i) \/ OpInsertInput(o, v, i)
          \/ \E j \in 1..MaxInput : OpSwapInput(o, i, j)
    \/ \E o \in Op, vs \in BoundedSeq(Varnode, MaxInput) : OpSetAllInput(o, vs)
    \/ \E old, v \in Varnode : TotalReplace(old, v)

Removal ==
    \/ \E o \in Op : OpInsert(o) \/ OpUninsert(o) \/ OpDestroy(o) \/ OpDestroyRecursive(o)
    \/ \E v \in Varnode : DestroyVarnodeRecursive(v) \/ DeleteVarnode(v)
    \/ ClearDeadVarnodes
    \/ ClearDeadOps

Next ==
    \/ todo = <<>> /\ (Create \/ Write \/ Read \/ Removal)
    \/ SetNext
    \/ ReplaceNext
    \/ DestroyNext

Spec == Init /\ [][Next]_vars

-----------------------------------------------------------------------------
\* A varnode's list of readers has one entry of an op for every input slot of the
\* op that holds the varnode.  LoneDescend, HasNoDescend and dead-code removal
\* decide by the list what may be thrown away, the printer reads the slots.
DescendMirrorsInputs ==
    \A v \in Varnode, o \in Op :
        descend[v][o] = Cardinality({i \in Slots(o) : inputs[o][i] = v})

\* An op's output names the op as its def, a varnode's def has it as its output,
\* and a varnode is flagged written exactly when it has a def, through OpSetOutput
\* taking a varnode away from another op.
DefMirrorsOutput ==
    /\ \A o \in Op : output[o] # Nil => def[output[o]] = o
    /\ \A v \in Varnode : def[v] # Nil => output[def[v]] = v
    /\ \A v \in Varnode : status[v] = "written" <=> def[v] # Nil

\* The links of ops and varnodes mirror each other, both ways.
LinksMirrored == DescendMirrorsInputs /\ DefMirrorsOutput

\* A constant that is not a spacebase is read in one slot at most, whatever is
\* swapped, replaced or set over an earlier constant: a shared constant would take
\* one data-type for all its uses.
ConstantReadOnce ==
    \A o, p \in Op : \A i \in Slots(o), j \in Slots(p) :
        inputs[o][i] \in Constant \ SpaceBase /\ inputs[o][i] = inputs[p][j]
        => o = p /\ i = j

\* What an op reads or writes is in the varnode bank: the clean-up passes never
\* destroy a varnode an op still points to.
LinksInBank ==
    \A o \in Op : /\ \A i \in Slots(o) : inputs[o][i] # Nil => InBank(inputs[o][i])
                  /\ output[o] # Nil => InBank(output[o])

\* Only ops on the alive list are linked into a block, where they would be printed.
BlockOpsAlive == \A o \in inBlock : bank[o] = "alive"

\* Nothing that is linked was destroyed.
NothingLinkedDies == LinksInBank /\ BlockOpsAlive

\* OpDestroyRecursive queues an op only when everything that reads its output is
\* destroyed before its turn comes.
QueuedUnread ==
    \A k \in DOMAIN todo :
        todo[k].call = "destroy" /\ ~todo[k].root /\ output[todo[k].op] # Nil
        => /\ \A o \in Op : descend[output[todo[k].op]][o] > 0
                              => \E m \in 1..(k - 1) : todo[m].op = o
           /\ output[todo[k].op] \notin AutoLive

\* The last call of TotalReplace leaves the old varnode without readers, also when
\* an op reads it in several slots or the new one is a constant that gets copied.
ReplacesAll ==
    [][ todo # <<>> /\ todo' = <<>> =>
          LET t == Head(todo)
          IN  t.call = "replace" /\ t.old # t.vn => \A o \in Op : descend'[t.old][o] = 0 ]_vars

=============================================================================
