------------------------------ MODULE RulePool ------------------------------
(***************************************************************************)
(* ActionPool (pkg/pcode/action.go): the rules of a pool are applied to      *)
(* every op of the function in SeqNum order, again and again until a whole   *)
(* traversal changes nothing.  While it walks, the rules it calls destroy     *)
(* ops, take them out of their block (they stay in the bank as dead ops      *)
(* until the walk meets them), create ops before and behind the cursor and    *)
(* change opcodes; a breakpoint on a rule leaves the walk in the middle, to   *)
(* be resumed by the next Perform.                                          *)
(*                                                                         *)
(* What a rule matches is abstract: can holds the pairs of an op and a rule  *)
(* for which ApplyOp would do something.                                     *)
(***************************************************************************)
EXTENDS Integers, FiniteSets, Sequences

CONSTANTS
    MaxSeq,     \* SeqNums are 1..MaxSeq
    Code,       \* opcodes
    perOp,      \* ActionPool.perOp: the rules of each opcode, in order
    Disabled,   \* rules with RuleTypeDisable
    Breaks,     \* rules with an action breakpoint
    Budget      \* bound on the applications that come up while the rules run

Op == 1..MaxSeq
Rule == UNION {{perOp[c][i] : i \in DOMAIN perOp[c]} : c \in Code}

ASSUME RulePoolAssumption ==
    /\ MaxSeq \in Nat /\ Budget \in Nat
    /\ DOMAIN perOp = Code /\ \A c \in Code : perOp[c] \in Seq(Rule)
    /\ Disabled \subseteq Rule /\ Breaks \subseteq Rule

NoOp == 0       \* a nil currentOp; also smaller than every SeqNum

VARIABLES
    ops,        \* PcodeOpBank.sorted
    dead,       \* the ops of the bank with PcodeOpDead
    used,       \* SeqNums handed out so far: uniqID is never reset
    code,       \* opcode of every op
    can,        \* the rule applications that would have an effect
    pool,       \* ActionPool: currentOp, currentSeq, ruleIndex, and processOp's local opcode
    act,        \* ActionBase: status, count, lcount
    pc,         \* where Perform is
    messages,   \* errors reported by emitActionMessage, counted
    applied,    \* the sum of the rules' countApply
    fuel        \* what may still come up

bank == <<ops, dead, used, code>>
vars == <<ops, dead, used, code, can, pool, act, pc, messages, applied, fuel>>

IsDead(op) == op \notin ops \/ op \in dead

Init ==
    /\ ops \in (SUBSET Op) \ {{}}
    /\ dead \in SUBSET ops
    /\ used = ops
    /\ code \in [Op -> Code]
    /\ can \in SUBSET (ops \X Rule)
    /\ pool = [op |-> NoOp, seq |-> NoOp, rule |-> 0, code |-> CHOOSE c \in Code : TRUE]
    /\ act = [status |-> "start", count |-> 0, lcount |-> 0]
    /\ pc = "called"
    /\ messages = 0 /\ applied = 0 /\ fuel = Budget

-----------------------------------------------------------------------------

\* PcodeOpBank.NextAfter: the first op at or after seq, after it when strict.
NextAfter(seq, strict) ==
    LET S == {o \in ops : o > seq \/ (o = seq /\ ~strict)}
    IN  IF S = {} THEN NoOp ELSE CHOOSE o \in S : \A p \in S : o <= p

\* Perform, up to its call of Apply, and Apply up to its loop: a traversal starts
\* over, or resumes at the op it was interrupted at.
Perform ==
    /\ pc = "called"
    /\ act' = IF act.status = "start" THEN [act EXCEPT !.count = 0, !.lcount = 0]
              ELSE IF act.status = "repeat" THEN [act EXCEPT !.lcount = act.count]
              ELSE act
    /\ pool' = IF act.status = "mid"
               THEN [pool EXCEPT !.op = NextAfter(pool.seq, FALSE)]
               ELSE [pool EXCEPT !.op = NextAfter(NoOp, TRUE), !.seq = NextAfter(NoOp, TRUE), !.rule = 0]
    /\ pc' = "op"
    /\ UNCHANGED <<bank, can, messages, applied, fuel>>

\* processOp on a dead op: opDeadAndGone destroys it and the cursor moves on.
SkipDead ==
    /\ pc = "op" /\ pool.op # NoOp /\ IsDead(pool.op)
    /\ ops' = ops \ {pool.op} /\ dead' = dead \ {pool.op}
    /\ pool' = [pool EXCEPT !.seq = pool.op, !.rule = 0, !.op = NextAfter(pool.op, TRUE)]
    /\ UNCHANGED <<used, code, can, act, pc, messages, applied, fuel>>

EnterOp ==
    /\ pc = "op" /\ pool.op # NoOp /\ ~IsDead(pool.op)
    /\ pool' = [pool EXCEPT !.seq = pool.op, !.code = code[pool.op]]
    /\ pc' = "rules"
    /\ UNCHANGED <<bank, can, act, messages, applied, fuel>>

RulesLeft == pool.rule < Len(perOp[pool.code])
TheRule == perOp[pool.code][pool.rule + 1]

\* A rule that is disabled, or that finds nothing to do
TryRule ==
    /\ pc = "rules" /\ RulesLeft
    /\ TheRule \in Disabled \/ <<pool.op, TheRule>> \notin can
    /\ pool' = [pool EXCEPT !.rule = @ + 1]
    /\ UNCHANGED <<bank, can, act, pc, messages, applied, fuel>>

\* Mutant: the index goes on in the list of the new opcode.
AfterChangeOn(p, c) == [p EXCEPT !.code = c]

\* The opcode changed under the loop: it starts over with the new opcode's rules.
AfterChange(p, c) == [p EXCEPT !.code = c, !.rule = 0]

\* A rule that changes the opcode but returns 0; processOp reports it and goes on.
SilentChange(c) ==
    /\ pc = "rules" /\ RulesLeft /\ TheRule \notin Disabled
    /\ <<pool.op, TheRule>> \notin can /\ c # pool.code /\ fuel > 0
    /\ code' = [code EXCEPT ![pool.op] = c]
    /\ pool' = AfterChange([pool EXCEPT !.rule = @ + 1], c)
    /\ messages' = messages + 1 /\ fuel' = fuel - 1
    /\ UNCHANGED <<ops, dead, used, can, act, pc, applied>>

\* Mutant: the loop does not look whether the rule destroyed the op.
LoopAfterAny(isdead) == "rules"

\* A dead op ends the loop over the rules.
LoopAfter(isdead) == IF isdead THEN "leave" ELSE "rules"

\* Perform, when Apply returns a negative result
StatusAtBreak == "mid"

\* ApplyOp returns 1: the rule destroys the ops gone, takes the ops out of their
\* block, creates an op, sets its op's opcode, and makes other rules applicable.
ApplyRule(gone, out, new, c, more) ==
    LET op == pool.op
        r == TheRule
    IN  /\ pc = "rules" /\ RulesLeft /\ r \notin Disabled
        /\ <<op, r>> \in can /\ (fuel = 0 => more = {})
        /\ gone \cap out = {}
        /\ ops' = (ops \ gone) \cup new
        /\ dead' = (dead \ gone) \cup out
        /\ used' = used \cup new
        /\ code' = [code EXCEPT ![op] = c]
        /\ can' = {a \in (can \ {<<op, r>>}) \cup more : a[1] \in ops'}
        /\ act' = [act EXCEPT !.count = @ + 1, !.status = IF r \in Breaks THEN StatusAtBreak ELSE @]
        /\ LET p == [pool EXCEPT !.rule = @ + 1]
               isdead == op \in gone \cup out
           IN  IF r \in Breaks THEN pc' = "broken" /\ pool' = p
               ELSE /\ pc' = LoopAfter(isdead)
                    /\ pool' = IF ~isdead /\ c # pool.code THEN AfterChange(p, c) ELSE p
        /\ applied' = applied + 1 /\ messages' = messages
        /\ fuel' = fuel - Cardinality(more)

\* The end of processOp: the cursor moves to the first op behind its SeqNum.
CursorAfter(p) == [p EXCEPT !.rule = 0, !.op = NextAfter(p.seq, TRUE)]

Leave ==
    /\ pc = "leave" \/ (pc = "rules" /\ ~RulesLeft)
    /\ pool' = CursorAfter(pool)
    /\ pc' = "op"
    /\ UNCHANGED <<bank, can, act, messages, applied, fuel>>

\* The host calls Perform again after a breakpoint.
Resume ==
    /\ pc = "broken"
    /\ pc' = "called"
    /\ UNCHANGED <<bank, can, pool, act, messages, applied, fuel>>

\* Mutant: lcount is not looked at.
RepeatEver == act.count > 0

\* Perform repeats Apply (ActionRuleRepeatApply) while it changed something.
Repeat == act.lcount < act.count

\* Apply returned 0
EndApply ==
    /\ pc = "op" /\ pool.op = NoOp
    /\ act' = [act EXCEPT !.status = IF Repeat THEN "repeat" ELSE "start"]
    /\ pc' = IF Repeat THEN "called" ELSE "finished"
    /\ UNCHANGED <<bank, can, pool, messages, applied, fuel>>

Finished == pc = "finished" /\ UNCHANGED vars

\* One op is destroyed, one taken out, one created and one application enabled at
\* most: more in one go are several applications.
AtMostOne(S) == {{}} \cup {{x} : x \in S}

Next ==
    \/ Perform \/ SkipDead \/ EnterOp \/ TryRule \/ Leave \/ Resume \/ EndApply \/ Finished
    \/ \E c \in Code : SilentChange(c)
    \/ \E gone \in AtMostOne(ops \ dead), out \in AtMostOne(ops \ dead), new \in AtMostOne(Op \ used),
          c \in Code, more \in AtMostOne(Op \X Rule) : ApplyRule(gone, out, new, c, more)

Spec == Init /\ [][Next]_vars
FairSpec == Spec /\ WF_vars(Next)

-----------------------------------------------------------------------------

\* Type invariant.
TypeOK ==
    /\ ops \subseteq used /\ used \subseteq Op /\ dead \subseteq ops
    /\ code \in [Op -> Code] /\ can \subseteq Op \X Rule
    /\ pool \in [op : Op \cup {NoOp}, seq : Op \cup {NoOp}, rule : Nat, code : Code]
    /\ act \in [status : {"start", "repeat", "mid"}, count : Nat, lcount : Nat]
    /\ pc \in {"called", "op", "rules", "leave", "broken", "finished"}
    /\ messages \in Nat /\ applied \in Nat /\ fuel \in Nat

\* When Perform returns, no enabled rule has anything left to do on any op:
\* whatever the rules created, destroyed or retyped around the cursor, and
\* wherever breakpoints interrupted the walk.
Fixpoint ==
    pc = "finished" =>
        \A o \in ops \ dead : \A i \in DOMAIN perOp[code[o]] :
            perOp[code[o]][i] \in Disabled \/ <<o, perOp[code[o]][i]>> \notin can

\* Ops taken out of their block are destroyed by the time Perform returns.
DeadCollected == pc = "finished" => dead = {}

\* Perform returns the number of applications since it was first called, the ones
\* before a breakpoint included: the enclosing group repeats on that number.
ReturnsTotal == pc = "finished" => act.count = applied

\* What the enclosing group relies on when Perform has returned.
PoolAtRest == Fixpoint /\ DeadCollected /\ ReturnsTotal

\* No rule is handed an op that an earlier rule of the same visit destroyed.
NoRuleOnDead == pc = "rules" => ~IsDead(pool.op)

\* Perform returns when the rules can only be applied finitely often.
Terminates == <>(pc = "finished")
=============================================================================
