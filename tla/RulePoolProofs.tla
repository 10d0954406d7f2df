--------------------------- MODULE RulePoolProofs ---------------------------
(***************************************************************************)
(* Proofs about RulePool, for any number of ops, any rules and opcodes and   *)
(* any breakpoints.  What a finished Perform promises, that no rule is left  *)
(* with anything to do, is not inductive: rules change the function on both  *)
(* sides of the cursor.  The invariant that is says what holds of the ops    *)
(* behind the cursor as long as the traversal under way has applied no rule; *)
(* a traversal that has applied one is repeated.                            *)
(***************************************************************************)
EXTENDS RulePool, SeqLemmas

\* The rules 1..n of op's opcode find nothing to do on it.
QuietTo(op, n) ==
    \A i \in DOMAIN perOp[code[op]] :
        i <= n => perOp[code[op]][i] \in Disabled \/ <<op, perOp[code[op]][i]>> \notin can

Settled(op) == op \notin dead /\ QuietTo(op, Len(perOp[code[op]]))

\* The ops the traversal has left behind
Behind(op) ==
    CASE pc = "op" -> pool.op = NoOp \/ op < pool.op
      [] pc = "rules" -> op < pool.op
      [] pc = "finished" -> TRUE
      [] OTHER -> FALSE

\* No rule was applied in this traversal.
Unchanged == act.count = act.lcount

CursorInv ==
    /\ pc = "op" /\ pool.op # NoOp => pool.op \in ops
    /\ pc = "rules" => /\ pool.op \in ops \ dead
                       /\ pool.seq = pool.op
                       /\ pool.code = code[pool.op]

StatusInv ==
    /\ act.lcount <= act.count
    /\ act.count = applied
    /\ act.status = "mid" => ~Unchanged
    /\ pc = "leave" => ~Unchanged
    /\ pc = "broken" => act.status = "mid"
    /\ pc = "called" /\ act.status = "start" => applied = 0
    /\ pc = "finished" => Unchanged

QuietInv ==
    Unchanged => /\ \A op \in ops : Behind(op) => Settled(op)
                 /\ pc = "op" => pool.rule = 0
                 /\ pc = "rules" => QuietTo(pool.op, pool.rule)

IndInv == TypeOK /\ CursorInv /\ StatusInv /\ QuietInv

-----------------------------------------------------------------------------

\* What a rule's number in the list of an opcode stands for.
LEMMA RulesOfCode ==
    ASSUME RulePoolAssumption, NEW c \in Code
    PROVE  /\ perOp[c] \in Seq(Rule) /\ Len(perOp[c]) \in Nat
           /\ DOMAIN perOp[c] = 1..Len(perOp[c])
           /\ \A i \in 1..Len(perOp[c]) : perOp[c][i] \in Rule
<1>1. perOp[c] \in Seq(Rule)
  BY DEF RulePoolAssumption
<1> QED BY <1>1, LenProperties, ElementOfSeq

\* PcodeOpBank.NextAfter finds the nearest op in SeqNum order, if there is one.
LEMMA NextAfterFacts ==
    ASSUME RulePoolAssumption, ops \subseteq Op, NEW s \in Nat, NEW strict \in BOOLEAN,
           NEW n, n = NextAfter(s, strict)
    PROVE  /\ n \in Op \cup {NoOp}
           /\ n # NoOp => n \in ops /\ n >= s /\ (strict => n > s)
           /\ \A o \in ops : o > s => n # NoOp /\ n <= o
<1> DEFINE S == {o \in ops : o > s \/ (o = s /\ ~strict)}
<1>0. Op \subseteq Nat /\ \A o \in Op : o # 0
  BY DEF Op, RulePoolAssumption
<1>1. n = IF S = {} THEN NoOp ELSE CHOOSE o \in S : \A p \in S : o <= p
  BY DEF NextAfter
<1>2. S \subseteq Nat /\ S \subseteq ops
  BY <1>0
<1>3. S # {} => n \in S /\ \A p \in S : n <= p
  <2> SUFFICES ASSUME S # {} PROVE n \in S /\ \A p \in S : n <= p
    OBVIOUS
  <2> HIDE DEF S
  <2>1. \E m \in S : \A p \in S : m <= p
    BY <1>2, LeastNumber
  <2> QED BY <1>1, <2>1
<1>4. CASE S = {}
  <2>1. n = NoOp /\ \A o \in ops : ~(o > s)
    BY <1>1, <1>4
  <2> QED BY <2>1 DEF NoOp
<1>5. CASE S # {}
  <2>1. n \in ops /\ n \in Nat /\ n # 0 /\ (n > s \/ (n = s /\ ~strict))
    BY <1>0, <1>3, <1>5
  <2>2. \A o \in ops : o > s => n <= o
    BY <1>3, <1>5
  <2> QED BY <2>1, <2>2 DEF NoOp
<1> QED BY <1>4, <1>5

-----------------------------------------------------------------------------

LEMMA InitInv ==
    ASSUME RulePoolAssumption, Init
    PROVE  IndInv
<1>1. Code # {}
  <2>1. PICK o \in ops : TRUE
    BY DEF Init
  <2> QED BY <2>1 DEF Init
<1>2. (CHOOSE c \in Code : TRUE) \in Code
  BY <1>1
<1>3. TypeOK
  BY <1>2 DEF Init, TypeOK, NoOp, RulePoolAssumption
<1>4. CursorInv /\ StatusInv
  BY DEF Init, CursorInv, StatusInv, Unchanged
<1>5. QuietInv
  BY DEF Init, QuietInv, Behind
<1> QED BY <1>3, <1>4, <1>5 DEF IndInv

LEMMA PerformInv ==
    ASSUME RulePoolAssumption, IndInv, Perform
    PROVE  IndInv'
<1> USE DEF IndInv
<1>0. /\ ops \subseteq Op /\ pool.seq \in Nat /\ NoOp \in Nat
      /\ pool \in [op : Op \cup {NoOp}, seq : Op \cup {NoOp}, rule : Nat, code : Code]
      /\ act \in [status : {"start", "repeat", "mid"}, count : Nat, lcount : Nat]
  BY DEF TypeOK, NoOp, Op, RulePoolAssumption
<1>1. PICK m : m = NextAfter(pool.seq, FALSE)
  OBVIOUS
<1>2. PICK f : f = NextAfter(NoOp, TRUE)
  OBVIOUS
<1>3. /\ m \in Op \cup {NoOp} /\ (m # NoOp => m \in ops)
  BY <1>0, <1>1, NextAfterFacts
<1>4. /\ f \in Op \cup {NoOp} /\ (f # NoOp => f \in ops)
      /\ \A o \in ops : o > NoOp => f # NoOp /\ f <= o
  BY <1>0, <1>2, NextAfterFacts
<1>5. /\ pc = "called" /\ pc' = "op" /\ UNCHANGED <<ops, dead, used, code, can, messages, applied, fuel>>
      /\ act' = IF act.status = "start" THEN [act EXCEPT !.count = 0, !.lcount = 0]
                ELSE IF act.status = "repeat" THEN [act EXCEPT !.lcount = act.count]
                ELSE act
      /\ pool' = IF act.status = "mid" THEN [pool EXCEPT !.op = m]
                 ELSE [pool EXCEPT !.op = f, !.seq = f, !.rule = 0]
  BY <1>1, <1>2 DEF Perform, bank
<1>6. act' \in [status : {"start", "repeat", "mid"}, count : Nat, lcount : Nat]
  BY <1>0, <1>5
<1>7. pool' \in [op : Op \cup {NoOp}, seq : Op \cup {NoOp}, rule : Nat, code : Code]
  BY <1>0, <1>3, <1>4, <1>5
<1>8. TypeOK'
  BY <1>5, <1>6, <1>7 DEF TypeOK
<1>9. CursorInv'
  BY <1>0, <1>3, <1>4, <1>5 DEF CursorInv
<1>10. StatusInv'
  BY <1>0, <1>5 DEF StatusInv, Unchanged
<1>11. QuietInv'
  <2>1. CASE act.status = "mid"
    <3>1. ~Unchanged'
      BY <1>5, <2>1 DEF StatusInv, Unchanged
    <3> QED BY <3>1 DEF QuietInv
  <2>2. CASE act.status # "mid"
    <3>1. pool'.op = f /\ pool'.rule = 0
      BY <1>0, <1>5, <2>2
    <3>2. ASSUME NEW o \in ops PROVE ~(f = NoOp \/ o < f)
      <4>1. o > NoOp /\ o \in Nat
        BY <1>0 DEF NoOp, Op, RulePoolAssumption
      <4>2. f # NoOp /\ f <= o /\ f \in Nat
        BY <1>4, <4>1 DEF NoOp, Op, RulePoolAssumption
      <4> QED BY <4>1, <4>2
    <3> QED BY <1>5, <3>1, <3>2 DEF QuietInv, Behind
  <2> QED BY <2>1, <2>2
<1> QED BY <1>8, <1>9, <1>10, <1>11

LEMMA SkipDeadInv ==
    ASSUME RulePoolAssumption, IndInv, SkipDead
    PROVE  IndInv'
<1> USE DEF IndInv
<1>0. /\ ops \subseteq Op /\ NoOp \notin Op /\ Op \subseteq Nat
      /\ pool \in [op : Op \cup {NoOp}, seq : Op \cup {NoOp}, rule : Nat, code : Code]
      /\ pool.op \in Op
  BY DEF TypeOK, NoOp, Op, RulePoolAssumption, SkipDead
<1>1. PICK n : n = NextAfter(pool.op, TRUE)
  OBVIOUS
<1>2. /\ n \in Op \cup {NoOp} /\ (n # NoOp => n \in ops /\ n > pool.op)
      /\ \A o \in ops : o > pool.op => n # NoOp /\ n <= o
  BY <1>0, <1>1, NextAfterFacts
<1>3. /\ pc = "op" /\ pc' = "op" /\ UNCHANGED <<used, code, can, act, messages, applied, fuel>>
      /\ ops' = ops \ {pool.op} /\ dead' = dead \ {pool.op}
      /\ pool' = [pool EXCEPT !.seq = pool.op, !.rule = 0, !.op = n]
  BY <1>1 DEF SkipDead
<1>4. /\ pool' \in [op : Op \cup {NoOp}, seq : Op \cup {NoOp}, rule : Nat, code : Code]
      /\ pool'.op = n /\ pool'.rule = 0
  BY <1>0, <1>2, <1>3
<1>5. TypeOK'
  BY <1>3, <1>4 DEF TypeOK
<1>6. CursorInv'
  BY <1>0, <1>2, <1>3, <1>4 DEF CursorInv
<1>7. StatusInv' /\ (Unchanged' => Unchanged)
  BY <1>3 DEF StatusInv, Unchanged
<1>8. ASSUME NEW o \in ops', Behind(o)', Unchanged PROVE Settled(o)'
  <2>1. o \in ops /\ o # pool.op /\ o \in Nat /\ pool.op \in Nat
    BY <1>0, <1>3
  <2>2. n = NoOp \/ o < n
    BY <1>3, <1>4, <1>8 DEF Behind
  <2>3. n = NoOp \/ n \in Nat
    BY <1>0, <1>2
  <2>4. o < pool.op
    BY <1>2, <2>1, <2>2, <2>3
  <2>5. Behind(o)
    BY <1>3, <2>4 DEF Behind
  <2>6. Settled(o)
    BY <1>8, <2>1, <2>5 DEF QuietInv
  <2> QED BY <1>3, <2>6 DEF Settled, QuietTo
<1>9. QuietInv'
  BY <1>3, <1>4, <1>7, <1>8 DEF QuietInv
<1> QED BY <1>5, <1>6, <1>7, <1>9

LEMMA EnterOpInv ==
    ASSUME RulePoolAssumption, IndInv, EnterOp
    PROVE  IndInv'
<1> USE DEF IndInv
<1>1. /\ pc = "op" /\ pc' = "rules" /\ pool.op # NoOp /\ pool.op \in ops \ dead
      /\ UNCHANGED <<ops, dead, used, code, can, act, messages, applied, fuel>>
      /\ pool' = [pool EXCEPT !.seq = pool.op, !.code = code[pool.op]]
  BY DEF EnterOp, IsDead, bank
<1>2. /\ pool \in [op : Op \cup {NoOp}, seq : Op \cup {NoOp}, rule : Nat, code : Code]
      /\ pool.op \in Op /\ code[pool.op] \in Code
  BY <1>1 DEF TypeOK
<1>3. /\ pool' \in [op : Op \cup {NoOp}, seq : Op \cup {NoOp}, rule : Nat, code : Code]
      /\ pool'.op = pool.op /\ pool'.seq = pool.op /\ pool'.code = code[pool.op] /\ pool'.rule = pool.rule
  BY <1>1, <1>2
<1>4. TypeOK'
  BY <1>1, <1>3 DEF TypeOK
<1>5. CursorInv'
  BY <1>1, <1>3 DEF CursorInv
<1>6. StatusInv' /\ (Unchanged' <=> Unchanged)
  BY <1>1 DEF StatusInv, Unchanged
<1>7. ASSUME Unchanged PROVE pool.rule = 0
  BY <1>1, <1>7 DEF QuietInv
<1>8. QuietInv'
  <2> SUFFICES ASSUME Unchanged PROVE QuietInv'
    BY <1>6 DEF QuietInv
  <2>1. ASSUME NEW o \in ops, o < pool.op PROVE Settled(o)'
    <3>1. Settled(o)
      BY <1>1, <2>1 DEF QuietInv, Behind
    <3>2. UNCHANGED <<dead, code, can>>
      BY <1>1
    <3> QED BY ONLY <3>1, <3>2 DEF Settled, QuietTo
  <2>2. \A i \in DOMAIN perOp[code[pool.op]] : ~(i <= 0)
    BY <1>2, RulesOfCode
  <2>3. QuietTo(pool.op, pool.rule)'
    BY <1>1, <1>3, <1>7, <2>2 DEF QuietTo
  <2> QED BY <1>1, <1>3, <2>1, <2>3 DEF QuietInv, Behind
<1> QED BY <1>4, <1>5, <1>6, <1>8

LEMMA TryRuleInv ==
    ASSUME RulePoolAssumption, IndInv, TryRule
    PROVE  IndInv'
<1> USE DEF IndInv
<1>1. /\ pc = "rules" /\ pc' = "rules" /\ pool.rule < Len(perOp[pool.code])
      /\ TheRule \in Disabled \/ <<pool.op, TheRule>> \notin can
      /\ UNCHANGED <<ops, dead, used, code, can, act, messages, applied, fuel>>
      /\ pool' = [pool EXCEPT !.rule = @ + 1]
  BY DEF TryRule, RulesLeft, bank
<1>2. pool \in [op : Op \cup {NoOp}, seq : Op \cup {NoOp}, rule : Nat, code : Code]
  BY DEF TypeOK
<1>3. /\ pool' \in [op : Op \cup {NoOp}, seq : Op \cup {NoOp}, rule : Nat, code : Code]
      /\ pool'.op = pool.op /\ pool'.seq = pool.seq /\ pool'.code = pool.code
      /\ pool'.rule = pool.rule + 1
  BY <1>1, <1>2
<1>4. TypeOK'
  BY <1>1, <1>3 DEF TypeOK
<1>5. CursorInv'
  BY <1>1, <1>3 DEF CursorInv
<1>6. StatusInv' /\ (Unchanged' <=> Unchanged)
  BY <1>1 DEF StatusInv, Unchanged
<1>7. ASSUME Unchanged PROVE QuietTo(pool.op, pool.rule + 1)
  <2>1. QuietTo(pool.op, pool.rule) /\ pool.code = code[pool.op]
    BY <1>1, <1>7 DEF QuietInv, CursorInv
  <2>2. \A i \in DOMAIN perOp[code[pool.op]] : i <= pool.rule + 1 => i <= pool.rule \/ i = pool.rule + 1
    BY <1>2, <2>1, RulesOfCode
  <2> QED BY <1>1, <2>1, <2>2 DEF QuietTo, TheRule
<1>8. QuietInv'
  BY <1>1, <1>3, <1>6, <1>7 DEF QuietInv, Behind, Settled, QuietTo
<1> QED BY <1>4, <1>5, <1>6, <1>8

LEMMA SilentChangeInv ==
    ASSUME RulePoolAssumption, IndInv, NEW c \in Code, SilentChange(c)
    PROVE  IndInv'
<1> USE DEF IndInv
<1>1. /\ pc = "rules" /\ pc' = "rules" /\ fuel > 0
      /\ code' = [code EXCEPT ![pool.op] = c]
      /\ pool' = [[pool EXCEPT !.rule = @ + 1] EXCEPT !.code = c, !.rule = 0]
      /\ messages' = messages + 1 /\ fuel' = fuel - 1
      /\ UNCHANGED <<ops, dead, used, can, act, applied>>
  BY DEF SilentChange, AfterChange
<1>2. /\ pool \in [op : Op \cup {NoOp}, seq : Op \cup {NoOp}, rule : Nat, code : Code]
      /\ code \in [Op -> Code] /\ ops \subseteq Op /\ pool.op \in ops \ dead /\ pool.seq = pool.op
      /\ fuel \in Nat /\ messages \in Nat
  BY <1>1 DEF TypeOK, CursorInv
<1>3. /\ pool' \in [op : Op \cup {NoOp}, seq : Op \cup {NoOp}, rule : Nat, code : Code]
      /\ pool'.op = pool.op /\ pool'.seq = pool.seq /\ pool'.code = c /\ pool'.rule = 0
  BY <1>1, <1>2
<1>4. code' \in [Op -> Code] /\ code'[pool.op] = c /\ \A o \in Op : o # pool.op => code'[o] = code[o]
  BY <1>1, <1>2
<1>5. TypeOK'
  <2>1. messages' \in Nat /\ fuel' \in Nat
    BY <1>1, <1>2
  <2> QED BY <1>1, <1>3, <1>4, <2>1 DEF TypeOK
<1>6. CursorInv'
  BY <1>1, <1>2, <1>3, <1>4 DEF CursorInv
<1>7. StatusInv' /\ (Unchanged' <=> Unchanged)
  BY <1>1 DEF StatusInv, Unchanged
<1>8. ASSUME Unchanged, NEW o \in ops, o < pool.op PROVE Settled(o)'
  <2>1. Settled(o)
    BY <1>1, <1>8 DEF QuietInv, Behind
  <2>2. code'[o] = code[o]
    <3>1. o # pool.op
      BY <1>2, <1>8 DEF Op, RulePoolAssumption
    <3> QED BY <1>2, <1>4, <1>8, <3>1
  <2>3. UNCHANGED <<dead, can>>
    BY <1>1
  <2> QED BY ONLY <2>1, <2>2, <2>3 DEF Settled, QuietTo
<1>9. \A i \in DOMAIN perOp[c] : ~(i <= 0)
  BY RulesOfCode
<1>10. QuietInv'
  <2>1. QuietTo(pool.op, 0)'
    BY <1>3, <1>4, <1>9 DEF QuietTo
  <2> QED BY <1>1, <1>3, <1>7, <1>8, <2>1 DEF QuietInv, Behind, QuietTo
<1> QED BY <1>5, <1>6, <1>7, <1>10

LEMMA LeaveInv ==
    ASSUME RulePoolAssumption, IndInv, Leave
    PROVE  IndInv'
<1> USE DEF IndInv
<1>0. /\ ops \subseteq Op /\ NoOp \notin Op /\ Op \subseteq Nat /\ NoOp \in Nat
      /\ pool \in [op : Op \cup {NoOp}, seq : Op \cup {NoOp}, rule : Nat, code : Code]
      /\ pool.seq \in Nat
  BY DEF TypeOK, NoOp, Op, RulePoolAssumption
<1>1. PICK n : n = NextAfter(pool.seq, TRUE)
  OBVIOUS
<1>2. /\ n \in Op \cup {NoOp} /\ (n # NoOp => n \in ops /\ n > pool.seq)
      /\ \A o \in ops : o > pool.seq => n # NoOp /\ n <= o
  BY <1>0, <1>1, NextAfterFacts
<1>3. /\ pc = "leave" \/ (pc = "rules" /\ ~(pool.rule < Len(perOp[pool.code])))
      /\ pc' = "op" /\ UNCHANGED <<ops, dead, used, code, can, act, messages, applied, fuel>>
      /\ pool' = [pool EXCEPT !.rule = 0, !.op = n]
  BY <1>1 DEF Leave, RulesLeft, CursorAfter, bank
<1>4. /\ pool' \in [op : Op \cup {NoOp}, seq : Op \cup {NoOp}, rule : Nat, code : Code]
      /\ pool'.op = n /\ pool'.rule = 0
  BY <1>0, <1>2, <1>3
<1>5. TypeOK'
  BY <1>3, <1>4 DEF TypeOK
<1>6. CursorInv'
  BY <1>0, <1>2, <1>3, <1>4 DEF CursorInv
<1>7. StatusInv' /\ (Unchanged' <=> Unchanged)
  BY <1>3 DEF StatusInv, Unchanged
<1>8. ASSUME NEW o \in ops, Behind(o)', Unchanged PROVE Settled(o)
  <2>1. pc = "rules" /\ ~(pool.rule < Len(perOp[pool.code]))
    BY <1>3, <1>8 DEF StatusInv
  <2>2. pool.op \in ops \ dead /\ pool.seq = pool.op /\ pool.code = code[pool.op] /\ pool.op \in Nat
    BY <1>0, <2>1 DEF CursorInv
  <2>3. n = NoOp \/ o < n
    BY <1>3, <1>4, <1>8 DEF Behind
  <2>4. o <= pool.op
    <3>1. o \in Nat /\ (n = NoOp \/ n \in Nat)
      BY <1>0, <1>2
    <3> QED BY <1>2, <2>2, <2>3, <3>1
  <2>5. CASE o < pool.op
    BY <1>8, <2>1, <2>5 DEF QuietInv, Behind
  <2>6. CASE o = pool.op
    <3>1. QuietTo(pool.op, pool.rule)
      BY <1>8, <2>1 DEF QuietInv
    <3>2. pool.code \in Code /\ pool.rule \in Nat
      BY <1>0
    <3>3. \A i \in DOMAIN perOp[pool.code] : i <= pool.rule
      BY <2>1, <3>2, RulesOfCode
    <3> QED BY <2>2, <2>6, <3>1, <3>3 DEF Settled, QuietTo
  <2> QED BY <1>0, <2>2, <2>4, <2>5, <2>6
<1>9. QuietInv'
  BY <1>3, <1>4, <1>7, <1>8 DEF QuietInv, Settled, QuietTo
<1> QED BY <1>5, <1>6, <1>7, <1>9

LEMMA ResumeInv ==
    ASSUME IndInv, Resume
    PROVE  IndInv'
<1>1. /\ pc = "broken" /\ pc' = "called"
      /\ UNCHANGED <<ops, dead, used, code, can, pool, act, messages, applied, fuel>>
  BY DEF Resume, bank
<1>2. TypeOK' /\ CursorInv'
  BY <1>1 DEF IndInv, TypeOK, CursorInv
<1>3. StatusInv'
  BY <1>1 DEF IndInv, StatusInv, Unchanged
<1>4. QuietInv'
  BY <1>1 DEF QuietInv, Behind
<1> QED BY <1>2, <1>3, <1>4 DEF IndInv

LEMMA EndApplyInv ==
    ASSUME IndInv, EndApply
    PROVE  IndInv'
<1> USE DEF IndInv
<1>1. /\ pc = "op" /\ pool.op = NoOp
      /\ act' = [act EXCEPT !.status = IF act.lcount < act.count THEN "repeat" ELSE "start"]
      /\ pc' = IF act.lcount < act.count THEN "called" ELSE "finished"
      /\ UNCHANGED <<ops, dead, used, code, can, pool, messages, applied, fuel>>
  BY DEF EndApply, Repeat, bank
<1>2. act \in [status : {"start", "repeat", "mid"}, count : Nat, lcount : Nat]
  BY DEF TypeOK
<1>3. /\ act' \in [status : {"start", "repeat", "mid"}, count : Nat, lcount : Nat]
      /\ act'.count = act.count /\ act'.lcount = act.lcount
      /\ act'.status = IF act.lcount < act.count THEN "repeat" ELSE "start"
  BY <1>1, <1>2
<1>4. TypeOK'
  BY <1>1, <1>3 DEF TypeOK
<1>5. CursorInv'
  BY <1>1 DEF CursorInv
<1>6. StatusInv'
  BY <1>1, <1>2, <1>3 DEF StatusInv, Unchanged
<1>7. QuietInv'
  <2>1. CASE act.lcount < act.count
    <3>1. ~Unchanged'
      BY <1>2, <1>3, <2>1 DEF Unchanged
    <3> QED BY <3>1 DEF QuietInv
  <2>2. CASE ~(act.lcount < act.count)
    <3>1. Unchanged' => Unchanged
      BY <1>3 DEF Unchanged
    <3>2. ASSUME Unchanged, NEW o \in ops PROVE Settled(o)
      BY <1>1, <3>2 DEF QuietInv, Behind
    <3> QED BY <1>1, <2>2, <3>1, <3>2 DEF QuietInv, Settled, QuietTo
  <2> QED BY <2>1, <2>2
<1> QED BY <1>4, <1>5, <1>6, <1>7

\* A set with at most one element has a cardinality.
LEMMA AtMostOneSize ==
    ASSUME NEW S, NEW T \in AtMostOne(S)
    PROVE  T \subseteq S /\ Cardinality(T) \in {0, 1}
<1>1. CASE T = {}
  BY <1>1, FS_EmptySet
<1>2. CASE \E x \in S : T = {x}
  BY <1>2, FS_Singleton
<1> QED BY <1>1, <1>2 DEF AtMostOne

LEMMA ApplyRuleInv ==
    ASSUME RulePoolAssumption, IndInv,
           NEW gone \in AtMostOne(ops \ dead), NEW out \in AtMostOne(ops \ dead),
           NEW new \in AtMostOne(Op \ used), NEW c \in Code, NEW more \in AtMostOne(Op \X Rule),
           ApplyRule(gone, out, new, c, more)
    PROVE  IndInv'
<1> USE DEF IndInv
<1> DEFINE broken == TheRule \in Breaks
           isdead == pool.op \in gone \cup out
<1>0. /\ gone \subseteq ops \ dead /\ out \subseteq ops \ dead /\ new \subseteq Op \ used
      /\ more \subseteq Op \X Rule /\ Cardinality(more) \in {0, 1}
  BY AtMostOneSize
<1>1. /\ pc = "rules" /\ (fuel = 0 => more = {}) /\ gone \cap out = {}
      /\ ops' = (ops \ gone) \cup new /\ dead' = (dead \ gone) \cup out
      /\ used' = used \cup new /\ code' = [code EXCEPT ![pool.op] = c]
      /\ messages' = messages /\ applied' = applied + 1 /\ fuel' = fuel - Cardinality(more)
      /\ act' = [act EXCEPT !.count = @ + 1, !.status = IF broken THEN "mid" ELSE @]
  BY DEF ApplyRule, StatusAtBreak
<1>2. can' \subseteq can \cup more
  BY DEF ApplyRule
<1>3. /\ pc' = IF broken THEN "broken" ELSE IF isdead THEN "leave" ELSE "rules"
      /\ pool' = IF ~broken /\ ~isdead /\ c # pool.code
                 THEN [[pool EXCEPT !.rule = @ + 1] EXCEPT !.code = c, !.rule = 0]
                 ELSE [pool EXCEPT !.rule = @ + 1]
  BY DEF ApplyRule, LoopAfter, AfterChange
<1> HIDE DEF broken, isdead
<1>4. /\ ops \subseteq used /\ used \subseteq Op /\ dead \subseteq ops /\ code \in [Op -> Code]
      /\ can \subseteq Op \X Rule /\ messages \in Nat /\ applied \in Nat /\ fuel \in Nat
  BY DEF TypeOK
<1>5. pool.op \in ops \ dead /\ pool.seq = pool.op /\ pool.code = code[pool.op]
  BY <1>1 DEF CursorInv
<1>6. /\ act' \in [status : {"start", "repeat", "mid"}, count : Nat, lcount : Nat]
      /\ act'.count = act.count + 1 /\ act'.lcount = act.lcount
      /\ broken => act'.status = "mid"
      /\ ~broken => act'.status = act.status
  <2>1. act \in [status : {"start", "repeat", "mid"}, count : Nat, lcount : Nat]
    BY DEF TypeOK
  <2>2. PICK st \in {"start", "repeat", "mid"} :
          /\ act' = [[act EXCEPT !.count = @ + 1] EXCEPT !.status = st]
          /\ broken => st = "mid"
          /\ ~broken => st = act.status
    <3>1. CASE broken
      BY <1>1, <3>1
    <3>2. CASE ~broken
      BY <1>1, <2>1, <3>2
    <3> QED BY <3>1, <3>2
  <2>3. act.count \in Nat /\ act.lcount \in Nat
    BY <2>1
  <2>4. act'.count = act.count + 1 /\ act'.lcount = act.lcount /\ act'.status = st
    BY <2>1, <2>2
  <2>5. act' \in [status : {"start", "repeat", "mid"}, count : Nat, lcount : Nat]
    <3>1. act' = [status |-> st, count |-> act.count + 1, lcount |-> act.lcount]
      BY <2>1, <2>2
    <3> QED BY <2>3, <3>1
  <2> QED BY <2>2, <2>4, <2>5
<1>7. /\ pool' \in [op : Op \cup {NoOp}, seq : Op \cup {NoOp}, rule : Nat, code : Code]
      /\ pool'.op = pool.op /\ pool'.seq = pool.seq
      /\ pc' = "rules" => pool'.code = c
  <2>1. pool \in [op : Op \cup {NoOp}, seq : Op \cup {NoOp}, rule : Nat, code : Code] /\ c \in Code
    BY DEF TypeOK
  <2>2. CASE ~broken /\ ~isdead /\ c # pool.code
    <3>1. pool' = [[pool EXCEPT !.rule = pool.rule + 1] EXCEPT !.code = c, !.rule = 0]
      BY <1>3, <2>2
    <3> QED BY ONLY <2>1, <3>1
  <2>3. CASE ~(~broken /\ ~isdead /\ c # pool.code)
    <3>1. pool' = [pool EXCEPT !.rule = pool.rule + 1]
      BY <1>3, <2>3
    <3>2. pc' = "rules" => c = pool.code
      BY <1>3, <2>3
    <3> QED BY ONLY <2>1, <3>1, <3>2
  <2> QED BY <2>2, <2>3
<1>8. TypeOK'
  <2>1. ops' \subseteq used' /\ used' \subseteq Op /\ dead' \subseteq ops'
    BY <1>0, <1>1, <1>4
  <2>2. code' \in [Op -> Code] /\ can' \subseteq Op \X Rule
    BY <1>0, <1>1, <1>2, <1>4
  <2>3. fuel' \in Nat
    <3>1. CASE fuel = 0
      <4>1. Cardinality(more) = 0
        BY <1>1, <3>1, FS_EmptySet
      <4> QED BY <1>1, <3>1, <4>1
    <3>2. CASE fuel # 0
      BY <1>0, <1>1, <1>4, <3>2
    <3> QED BY <3>1, <3>2
  <2>4. messages' \in Nat /\ applied' \in Nat
    BY <1>1, <1>4
  <2>5. pc' \in {"called", "op", "rules", "leave", "broken", "finished"}
    BY <1>3
  <2> QED BY <1>6, <1>7, <2>1, <2>2, <2>3, <2>4, <2>5 DEF TypeOK
<1>9. ASSUME pc' = "rules" PROVE pool.op \in ops' \ dead' /\ code'[pool.op] = c
  <2>1. ~isdead
    BY <1>3, <1>9
  <2>2. pool.op \notin gone /\ pool.op \notin out
    BY <2>1 DEF isdead
  <2> QED BY <1>1, <1>4, <1>5, <2>2
<1>10. CursorInv'
  BY <1>3, <1>5, <1>7, <1>9 DEF CursorInv
<1>11. ~Unchanged' /\ StatusInv'
  <2>1. act.lcount <= act.count /\ act.count = applied
    BY DEF StatusInv
  <2>2. act.lcount \in Nat /\ act.count \in Nat
    BY DEF TypeOK
  <2>3. ~Unchanged' /\ act'.lcount <= act'.count /\ act'.count = applied'
    BY <1>1, <1>6, <2>1, <2>2 DEF Unchanged
  <2> QED BY <1>3, <1>6, <2>3 DEF StatusInv
<1>12. QuietInv'
  BY <1>11 DEF QuietInv
<1> QED BY <1>8, <1>10, <1>11, <1>12

LEMMA StutterInv ==
    ASSUME IndInv, UNCHANGED vars
    PROVE  IndInv'
<1>1. UNCHANGED <<ops, dead, used, code, can, pool, act, pc, messages, applied, fuel>>
  BY DEF vars
<1>2. TypeOK' /\ CursorInv'
  BY <1>1 DEF IndInv, TypeOK, CursorInv
<1>3. StatusInv'
  BY <1>1 DEF IndInv, StatusInv, Unchanged
<1>4. QuietInv'
  BY <1>1 DEF IndInv, QuietInv, Unchanged, Behind, Settled, QuietTo
<1> QED BY <1>2, <1>3, <1>4 DEF IndInv

\* The invariant holds in every reachable state: no step of Perform, of a rule or
\* of the host that calls Perform again leaves it.
THEOREM PoolInvariant == Spec => []IndInv
<1>1. Init => IndInv
  BY InitInv, RulePoolAssumption
<1>2. IndInv /\ [Next]_vars => IndInv'
  <2> SUFFICES ASSUME IndInv, [Next]_vars PROVE IndInv'
    OBVIOUS
  <2>1. CASE Perform
    BY <2>1, PerformInv, RulePoolAssumption
  <2>2. CASE SkipDead
    BY <2>2, SkipDeadInv, RulePoolAssumption
  <2>3. CASE EnterOp
    BY <2>3, EnterOpInv, RulePoolAssumption
  <2>4. CASE TryRule
    BY <2>4, TryRuleInv, RulePoolAssumption
  <2>5. CASE Leave
    BY <2>5, LeaveInv, RulePoolAssumption
  <2>6. CASE Resume
    BY <2>6, ResumeInv
  <2>7. CASE EndApply
    BY <2>7, EndApplyInv
  <2>8. CASE \E c \in Code : SilentChange(c)
    BY <2>8, SilentChangeInv, RulePoolAssumption
  <2>9. CASE \E gone \in AtMostOne(ops \ dead), out \in AtMostOne(ops \ dead), new \in AtMostOne(Op \ used),
                c \in Code, more \in AtMostOne(Op \X Rule) : ApplyRule(gone, out, new, c, more)
    BY <2>9, ApplyRuleInv, RulePoolAssumption
  <2>10. CASE Finished
    BY <2>10, StutterInv DEF Finished
  <2>11. CASE UNCHANGED vars
    BY <2>11, StutterInv
  <2> QED BY <2>1, <2>2, <2>3, <2>4, <2>5, <2>6, <2>7, <2>8, <2>9, <2>10, <2>11 DEF Next
<1> QED BY <1>1, <1>2, PTL DEF Spec

\* Every variable keeps its type; the bank never hands out a SeqNum twice.
THEOREM PoolTypeCorrect == Spec => []TypeOK
<1>1. IndInv => TypeOK
  BY DEF IndInv
<1> QED BY <1>1, PoolInvariant, PTL

\* When Perform returns, no enabled rule has anything left to do on any op, no op
\* is left dead in the bank, and the number it returns counts every application.
THEOREM PoolRests == Spec => []PoolAtRest
<1>1. IndInv => PoolAtRest
  <2> SUFFICES ASSUME IndInv, pc = "finished" PROVE PoolAtRest
    BY DEF PoolAtRest, Fixpoint, DeadCollected, ReturnsTotal
  <2>1. Unchanged /\ act.count = applied
    BY DEF IndInv, StatusInv
  <2>2. \A o \in ops : Settled(o)
    BY <2>1 DEF IndInv, QuietInv, Behind
  <2>3. dead = {}
    BY <2>2 DEF IndInv, TypeOK, Settled
  <2>4. ASSUME NEW o \in ops \ dead, NEW i \in DOMAIN perOp[code[o]]
        PROVE  perOp[code[o]][i] \in Disabled \/ <<o, perOp[code[o]][i]>> \notin can
    <3>1. code[o] \in Code
      BY DEF IndInv, TypeOK
    <3>2. i <= Len(perOp[code[o]])
      BY <3>1, RulesOfCode, RulePoolAssumption
    <3> QED BY <2>2, <2>4, <3>2 DEF Settled, QuietTo
  <2> QED BY <2>1, <2>3, <2>4 DEF PoolAtRest, Fixpoint, DeadCollected, ReturnsTotal
<1> QED BY <1>1, PoolInvariant, PTL

\* No rule is handed an op that an earlier rule of the same visit destroyed.
THEOREM RulesSeeLiveOps == Spec => []NoRuleOnDead
<1>1. IndInv => NoRuleOnDead
  BY DEF IndInv, CursorInv, NoRuleOnDead, IsDead
<1> QED BY <1>1, PoolInvariant, PTL
=============================================================================
