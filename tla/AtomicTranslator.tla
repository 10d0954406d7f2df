-------------------------- MODULE AtomicTranslator --------------------------
(***************************************************************************)
(* What the translator promises its callers: an address is asked for and   *)
(* is answered with what its code means, or with a failure.  The meaning   *)
(* of an instruction needs no cache: the ops of its template with every    *)
(* BUILD replaced by the operand's ops and DELAY_SLOT by the ops of the    *)
(* instructions behind it, branches as distances.                          *)
(***************************************************************************)
EXTENDS Naturals, Sequences, SequencesExt

CONSTANTS None, Programs, OffsetModulus

VARIABLES
    code,   \* the code table, see DisCache: never changes
    asked,  \* the address being translated, or None
    done    \* the last answer, or None

avars == <<code, asked, done>>

\* The addresses of the delay slots of the instruction at a, from `fall` on; an
\* instruction without length does not fill one.
RECURSIVE DelayFrom(_, _, _)
DelayFrom(a, fall, need) ==
    IF need <= 0 \/ a + fall \notin DOMAIN code THEN <<>>
    ELSE IF code[a + fall].len = 0 THEN <<>>
    ELSE LET len == code[a + fall].len
         IN  <<a + fall>> \o DelayFrom(a, fall + len, IF len > need THEN 0 ELSE need - len)

DelaySlots(a) == DelayFrom(a, code[a].len, code[a].delay)
DelayBytes(a) ==
    FoldSeq(LAMBDA d, sum : sum + code[d].len, 0, DelaySlots(a))

Decodes(a) == a \in DOMAIN code /\ code[a].handles

\* The instructions translating a reads.
Whole(a) ==
    Decodes(a) /\ \A i \in 1..Len(DelaySlots(a)) : Decodes(DelaySlots(a)[i])
       /\ DelayBytes(a) >= code[a].delay

NextOf(a) == a + code[a].len + DelayBytes(a)
Next2Of(a) ==
    LET n == a + code[a].len IN IF n \in DOMAIN code THEN n + code[n].len ELSE None

\* The ops and labels of a template in order; a label belongs to the scope,
\* that is the place in the tree of templates, it was written in.
RECURSIVE Items(_, _, _)
Items(a, ct, scope) ==
    FlattenSeq([i \in DOMAIN ct.ops |->
        LET o == ct.ops[i]
            slots == DelaySlots(a)
        IN  CASE o.k = "build" -> Items(a, o.ct, Append(scope, i))
              [] o.k = "delay" ->
                   FlattenSeq([n \in DOMAIN slots |->
                       Items(slots[n], code[slots[n]].ct, scope \o <<i, n>>)])
              [] OTHER -> <<[a |-> a, scope |-> scope, op |-> o]>>])

IsLabel(item) == item.op.k = "label"
Before(items, i) == Cardinality({n \in 1..i - 1 : ~IsLabel(items[n])})

\* The position of the label that the branch `item` names in its own scope.
Labelled(items, item) ==
    {n \in DOMAIN items : /\ IsLabel(items[n])
                          /\ items[n].scope = item.scope
                          /\ items[n].op.id = item.op.id}

ItemsOf(a) == Items(a, code[a].ct, <<>>)

Translatable(a) ==
    /\ Whole(a)
    /\ LET items == ItemsOf(a)
       IN  \A i \in DOMAIN items :
              /\ items[i].op.k # "unimpl"
              /\ items[i].op.k = "rel" => Labelled(items, items[i]) # {}

OpOf(items, i) ==
    LET item == items[i]
        a == item.a
    IN  [inst |-> a, next |-> NextOf(a), n2 |-> Next2Of(a),
         off |-> IF item.op.k # "rel" THEN 0
                 ELSE ((Before(items, Max(Labelled(items, item))) + OffsetModulus)
                         - Before(items, i)) % OffsetModulus]

Reference(a) ==
    LET items == ItemsOf(a)
        ops == {i \in DOMAIN items : ~IsLabel(items[i])}
    IN  [n \in 1..Cardinality(ops) |->
            OpOf(items, CHOOSE i \in ops : Before(items, i) = n - 1)]

Outcome(a) ==
    IF Translatable(a)
    THEN [addr |-> a, ok |-> TRUE, next |-> NextOf(a), ops |-> Reference(a)]
    ELSE [addr |-> a, ok |-> FALSE]

-----------------------------------------------------------------------------

Init == code \in Programs /\ asked = None /\ done = None

Ask(a) ==
    /\ asked = None
    /\ asked' = a
    /\ done' = None
    /\ UNCHANGED code

Answer ==
    /\ asked # None
    /\ asked' = None
    /\ done' = Outcome(asked)
    /\ UNCHANGED code

\* An address that does not even decode is refused at once.
Refuse(a) ==
    /\ asked = None
    /\ ~Translatable(a)
    /\ done' = Outcome(a)
    /\ UNCHANGED <<code, asked>>

Next ==
    \/ \E a \in DOMAIN code : Ask(a) \/ Refuse(a)
    \/ Answer

\* Whatever is asked for is answered.
Answered == asked # None ~> asked = None

Spec == Init /\ [][Next]_avars /\ Answered
=============================================================================
