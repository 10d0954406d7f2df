-------------------------- MODULE ActionTreeProofs --------------------------
(***************************************************************************)
(* Proofs about ActionTree, for any tree, flags, breakpoints and number of    *)
(* restarts.  RestartsBounded speaks of a finished run; the invariant says    *)
(* how long the root cannot have been left: curStart is -1 only when its      *)
(* Apply has come to an end, and until then every way up is a breakpoint.    *)
(* That breakpoints go unnoticed needs to know where the next Perform will     *)
(* find each action that stopped: at the child its group is at, and so up to   *)
(* the root or to an action that is being performed (ResumeInv).              *)
(***************************************************************************)
EXTENDS ActionTreeResume, SeqLemmas

\* The stack is a path from the root, and only the root is at its bottom.
StackInv ==
    /\ stack = <<>> <=> pc \in {"idle", "finished"}
    /\ stack # <<>> => stack[1] = Root
    /\ \A i \in 2..Len(stack) : stack[i] # Root
    /\ pc \in {"restart", "restarted"} => Len(stack) = 1
    /\ pc = "leaf" => Top \in Leaf

\* The restart group has not come to its end.
Open == starts # -1

\* How restarts and requests are counted
CountInv ==
    /\ Open => fd.clears = starts /\ fd.warned = 0
    /\ fd.clears <= MaxRestarts
    /\ ~Open => (fd.warned = 1 <=> fd.pending)

\* Outside a jump table's recovery, an open restart group is left by breakpoints only.
RootInv ==
    /\ Open /\ ~fd.jumptable =>
        /\ act[Root].status \notin {"end", "actionbreak"}
        /\ pc # "finished"
        /\ Len(stack) = 1 => pc \notin {"after", "tail"} /\ (pc = "return" => res = -1)
    /\ ~Open => Len(stack) <= 1 /\ pc \notin {"leaf", "group", "restarted"}

IndInv == TypeOK /\ StackInv /\ CountInv /\ RootInv

-----------------------------------------------------------------------------

\* The top of a stack, and what is below it
LEMMA StackFacts ==
    ASSUME NEW S, NEW s \in Seq(S), s # <<>>
    PROVE  /\ Len(s) \in Nat /\ Len(s) >= 1 /\ Last(s) = s[Len(s)] /\ Last(s) \in S
           /\ Front(s) \in Seq(S) /\ Len(Front(s)) = Len(s) - 1
           /\ \A i \in 1..(Len(s) - 1) : Front(s)[i] = s[i]
           /\ Front(s) = <<>> <=> Len(s) = 1
<1>1. Len(s) \in Nat /\ Len(s) # 0 /\ \A i \in 1..Len(s) : s[i] \in S
  BY LenProperties, ElementOfSeq, EmptySeq
<1>2. \A i \in 1..(Len(s) - 1) : s[i] \in S
  BY <1>1
<1>3. Front(s) \in Seq(S) /\ Len(Front(s)) = Len(s) - 1 /\ \A i \in 1..(Len(s) - 1) : Front(s)[i] = s[i]
  <2> DEFINE k == Len(s) - 1
             t == SubSeq(s, 1, k)
  <2>1. k \in Int /\ k >= 0 /\ \A i \in 1..k : s[i] \in S
    BY <1>1, <1>2
  <2> HIDE DEF k
  <2>2. /\ t \in Seq(S) /\ Len(t) = IF 1 <= k THEN k - 1 + 1 ELSE 0
        /\ \A i \in 1..(k - 1 + 1) : t[i] = s[1 + i - 1]
    BY <2>1, SubSeqProperties
  <2>3. Front(s) = t
    BY DEF Front, k
  <2> HIDE DEF t
  <2>4. Len(t) = k /\ \A i \in 1..k : t[i] = s[i]
    BY <2>1, <2>2
  <2> QED BY <2>2, <2>3, <2>4 DEF k
<1>4. Front(s) = <<>> <=> Len(Front(s)) = 0
  BY <1>3, EmptySeq
<1> QED BY <1>1, <1>3, <1>4 DEF Last

\* Only the root is the bottom of the stack, so it is the top exactly when alone.
LEMMA TopFacts ==
    ASSUME ActionTreeAssumption, TypeOK, StackInv, stack # <<>>
    PROVE  \E d \in Nat : /\ d = Len(stack) /\ d >= 1
                          /\ Top \in Node /\ (Top = Root <=> d = 1)
<1>1. stack \in Seq(Node)
  BY DEF TypeOK
<1>2. PICK d \in Nat : d = Len(stack) /\ d >= 1 /\ Top = stack[d] /\ Top \in Node
  BY <1>1, StackFacts DEF Top
<1>3. stack[1] = Root /\ \A i \in 2..d : stack[i] # Root
  BY <1>2 DEF StackInv
<1>4. d # 1 => d \in 2..d
  BY <1>2
<1>5. Top = Root <=> d = 1
  BY <1>2, <1>3, <1>4
<1> QED BY <1>2, <1>5

LEMMA InitInv ==
    ASSUME ActionTreeAssumption, Init
    PROVE  IndInv
<1>1. TypeOK
  <2>1. act \in [Node -> ActionState]
    BY DEF Init, ActionState
  <2>2. brk \in [Node -> SUBSET BreakFlag]
    BY DEF Init
  <2>3. starts \in -1..MaxRestarts /\ fd \in [pending : BOOLEAN, jumptable : BOOLEAN, clears : Nat, warned : Nat]
    BY DEF Init, ActionTreeAssumption
  <2>4. stack \in Seq(Node) /\ trace \in Seq(Leaf) /\ pc = "idle" /\ res = 0
    BY DEF Init
  <2>5. plan \in [Leaf -> Nat] /\ asks \in Nat
    BY DEF Init, ActionTreeAssumption
  <2> QED BY <2>1, <2>2, <2>3, <2>4, <2>5 DEF TypeOK
<1>2. stack = <<>> /\ Len(stack) = 0 /\ pc = "idle" /\ starts = 0
  BY DEF Init
<1>3. StackInv
  BY <1>2 DEF StackInv
<1>4. fd.clears = 0 /\ fd.warned = 0
  BY DEF Init
<1>5. CountInv
  BY <1>2, <1>4 DEF CountInv, Open, ActionTreeAssumption
<1>6. act[Root].status = "start"
  BY DEF Init, ActionTreeAssumption
<1>7. RootInv
  BY <1>2, <1>6 DEF RootInv, Open
<1> QED BY <1>1, <1>3, <1>5, <1>7 DEF IndInv

LEMMA CallInv ==
    ASSUME ActionTreeAssumption, IndInv, Call
    PROVE  IndInv'
<1>1. /\ stack' = <<Root>> /\ pc' = "perform"
      /\ UNCHANGED <<act, brk, starts, fd, res, plan, asks, trace, script>>
  BY DEF Call, host
<1>2. stack' \in Seq(Node) /\ Len(stack') = 1 /\ stack'[1] = Root /\ stack' # <<>>
  BY <1>1 DEF ActionTreeAssumption
<1>3. TypeOK'
  BY <1>1, <1>2 DEF IndInv, TypeOK
<1>4. StackInv'
  BY <1>1, <1>2 DEF StackInv
<1>5. CountInv'
  BY <1>1 DEF IndInv, CountInv, Open
<1>6. RootInv'
  BY <1>1, <1>2 DEF IndInv, RootInv, Open
<1> QED BY <1>3, <1>4, <1>5, <1>6 DEF IndInv

LEMMA PerformInv ==
    ASSUME ActionTreeAssumption, IndInv, Perform
    PROVE  IndInv'
<1> USE DEF IndInv
<1> DEFINE n == Top
           a == IF act[n].status = "start" THEN [act[n] EXCEPT !.count = 0] ELSE act[n]
           stop == a.status = "start" /\ StartBreak(n)
           r == IF stop THEN [a EXCEPT !.status = "breakstarthit"]
                ELSE [BeforeApply(a) EXCEPT !.state = IF a.status = "mid" THEN @ ELSE 1]
<1>1. /\ pc = "perform" /\ a.status \notin {"end", "actionbreak"}
      /\ act' = [act EXCEPT ![n] = r]
      /\ brk' = brk \/ brk' = Cleared(n, "tempstart")
      /\ stop => pc' = "return" /\ res' = -1
      /\ ~stop => /\ pc' = IF n \in Leaf THEN "leaf" ELSE IF n = Root THEN "restart" ELSE "group"
                  /\ res' = res
      /\ UNCHANGED <<starts, fd, stack, plan, asks, trace, script>>
  BY DEF Perform, Return, StatusAtStartBreak, host
<1>2. PICK d \in Nat : d = Len(stack) /\ d >= 1 /\ n \in Node /\ (n = Root <=> d = 1)
  BY <1>1, TopFacts DEF StackInv
<1>3. a \in ActionState
  BY Zenon, <1>2 DEF TypeOK, ActionState
<1> HIDE DEF a
<1>4. r \in ActionState /\ r.status \notin {"end", "actionbreak"}
  <2>1. CASE stop
    <3>1. r = [status |-> "breakstarthit", count |-> a.count, lcount |-> a.lcount, state |-> a.state]
      BY <1>3, <2>1 DEF ActionState
    <3> QED BY <1>3, <3>1 DEF ActionState
  <2>2. CASE ~stop /\ a.status = "mid"
    <3>1. r = [status |-> a.status, count |-> a.count, lcount |-> a.lcount, state |-> a.state]
      BY <1>3, <2>2 DEF BeforeApply, ActionState
    <3> QED BY <1>1, <1>3, <3>1 DEF ActionState
  <2>3. CASE ~stop /\ a.status # "mid"
    <3>1. r = [status |-> a.status, count |-> a.count, lcount |-> a.count, state |-> 1]
      BY <1>3, <2>3 DEF BeforeApply, ActionState
    <3> QED BY <1>1, <1>3, <3>1 DEF ActionState
  <2> QED BY <2>1, <2>2, <2>3
<1> HIDE DEF r, stop, n
<1>5. act' \in [Node -> ActionState] /\ act'[n] = r /\ \A m \in Node : m # n => act'[m] = act[m]
  BY <1>1, <1>2, <1>4 DEF TypeOK
<1>6. brk' \in [Node -> SUBSET BreakFlag]
  BY Zenon, <1>1, <1>2 DEF TypeOK, Cleared
<1>7. TypeOK'
  BY <1>1, <1>5, <1>6 DEF TypeOK
<1>8. Root \notin Leaf
  BY DEF Leaf
<1>9. StackInv'
  BY <1>1, <1>2, <1>8 DEF StackInv, Top, n
<1>10. CountInv'
  BY <1>1 DEF CountInv, Open
<1>11. RootInv'
  <2>1. act'[Root].status \in {"end", "actionbreak"} => act[Root].status \in {"end", "actionbreak"}
    BY <1>4, <1>5 DEF ActionTreeAssumption
  <2>2. ASSUME Open', ~fd'.jumptable
        PROVE  /\ act'[Root].status \notin {"end", "actionbreak"}
               /\ pc' # "finished"
               /\ Len(stack') = 1 => pc' \notin {"after", "tail"} /\ (pc' = "return" => res' = -1)
    <3>1. act[Root].status \notin {"end", "actionbreak"}
      BY <1>1, <2>2 DEF RootInv, Open
    <3>2. pc' \in {"return", "leaf", "restart", "group"} /\ (pc' = "return" => res' = -1)
      BY <1>1
    <3> QED BY <2>1, <3>1, <3>2
  <2>3. ASSUME ~Open' PROVE Len(stack') <= 1 /\ pc' \notin {"leaf", "group", "restarted"}
    <3>0. ~Open
      BY <1>1, <2>3 DEF Open
    <3>1. n = Root /\ n \notin Leaf
      BY <3>0, <1>1, <1>2, <1>8, <2>3 DEF RootInv, Open
    <3> QED BY <1>1, <1>2, <3>0, <3>1 DEF RootInv
  <2> QED BY <2>2, <2>3 DEF RootInv
<1> QED BY <1>7, <1>9, <1>10, <1>11

\* The steps inside one Perform: the stack stays, no action state changes but
\* possibly the top one's.
LEMMA LocalStep ==
    ASSUME ActionTreeAssumption, IndInv, stack # <<>>,
           NEW r \in ActionState, act' = [act EXCEPT ![Top] = r],
           brk' \in [Node -> SUBSET BreakFlag], UNCHANGED <<starts, fd, stack, plan, asks, trace>>,
           pc' \in {"perform", "after", "tail", "return"}, res' \in Nat \cup {-1},
           Open /\ ~fd.jumptable /\ Top = Root =>
               /\ r.status \notin {"end", "actionbreak"}
               /\ pc' \notin {"after", "tail"} /\ (pc' = "return" => res' = -1)
    PROVE  IndInv'
<1> USE DEF IndInv
<1>1. PICK d \in Nat : d = Len(stack) /\ d >= 1 /\ Top \in Node /\ (Top = Root <=> d = 1)
  BY TopFacts
<1>2. act' \in [Node -> ActionState] /\ act'[Top] = r /\ \A m \in Node : m # Top => act'[m] = act[m]
  BY <1>1 DEF TypeOK
<1>3. TypeOK'
  BY <1>2 DEF TypeOK
<1>4. StackInv'
  <2>1. stack' = stack /\ pc' \notin {"idle", "finished", "restart", "restarted", "leaf"}
    OBVIOUS
  <2> QED BY <2>1 DEF StackInv
<1>5. CountInv'
  BY DEF CountInv, Open
<1>6. ASSUME Open', ~fd'.jumptable
      PROVE  /\ act'[Root].status \notin {"end", "actionbreak"}
             /\ pc' # "finished"
             /\ Len(stack') = 1 => pc' \notin {"after", "tail"} /\ (pc' = "return" => res' = -1)
  <2>1. Open /\ ~fd.jumptable /\ Root \in Node
    BY <1>6 DEF Open, ActionTreeAssumption
  <2>2. act[Root].status \notin {"end", "actionbreak"}
    BY <2>1 DEF RootInv
  <2> QED BY <1>1, <1>2, <2>1, <2>2
<1>7. ASSUME ~Open' PROVE Len(stack') <= 1 /\ pc' \notin {"leaf", "group", "restarted"}
  BY <1>7 DEF RootInv, Open
<1> QED BY <1>3, <1>4, <1>5, <1>6, <1>7 DEF RootInv

LEMMA PerformEndInv ==
    ASSUME ActionTreeAssumption, IndInv, PerformEnd
    PROVE  IndInv'
<1>1. /\ pc = "perform" /\ act[Top].status = "end" /\ res' = 0 /\ pc' = "return"
      /\ UNCHANGED <<act, brk, starts, fd, stack, plan, asks, trace, script>>
  BY DEF PerformEnd, Return, host
<1>2. stack # <<>> /\ Top \in Node
  BY <1>1, TopFacts DEF IndInv, StackInv
<1>3. act[Top] \in ActionState /\ act' = [act EXCEPT ![Top] = act[Top]]
      /\ brk' \in [Node -> SUBSET BreakFlag]
  BY <1>1, <1>2 DEF IndInv, TypeOK
<1>4. Open /\ ~fd.jumptable => Top # Root
  BY <1>1 DEF IndInv, RootInv
<1> QED BY <1>1, <1>2, <1>3, <1>4, LocalStep

LEMMA PerformBreakInv ==
    ASSUME ActionTreeAssumption, IndInv, PerformBreak
    PROVE  IndInv'
<1>1. /\ pc = "perform" /\ act[Top].status = "actionbreak" /\ pc' = "tail"
      /\ UNCHANGED <<act, brk, starts, fd, stack, res, plan, asks, trace, script>>
  BY DEF PerformBreak, host
<1>2. stack # <<>> /\ Top \in Node
  BY <1>1, TopFacts DEF IndInv, StackInv
<1>3. act[Top] \in ActionState /\ act' = [act EXCEPT ![Top] = act[Top]]
      /\ brk' \in [Node -> SUBSET BreakFlag] /\ res' \in Nat \cup {-1}
  BY <1>1, <1>2 DEF IndInv, TypeOK
<1>4. Open /\ ~fd.jumptable => Top # Root
  BY <1>1 DEF IndInv, RootInv
<1> QED BY <1>1, <1>2, <1>3, <1>4, LocalStep

LEMMA AfterInv ==
    ASSUME ActionTreeAssumption, IndInv, After
    PROVE  IndInv'
<1> DEFINE stop == act[Top].lcount < act[Top].count /\ ActionBreak(Top)
<1>1. /\ pc = "after"
      /\ stop => /\ act' = SetStatus(Top, "actionbreak") /\ brk' = Cleared(Top, "tempaction")
                 /\ res' = -1 /\ pc' = "return"
      /\ ~stop => pc' = "tail" /\ UNCHANGED <<act, brk, res>>
      /\ UNCHANGED <<starts, fd, stack, plan, asks, trace, script>>
  BY DEF After, Return, host
<1> HIDE DEF stop
<1>2. stack # <<>>
  BY <1>1 DEF IndInv, StackInv
<1>3. PICK d \in Nat : d = Len(stack) /\ d >= 1 /\ Top \in Node /\ (Top = Root <=> d = 1)
  BY <1>2, TopFacts DEF IndInv
<1>4. ~(Open /\ ~fd.jumptable /\ Top = Root)
  BY <1>1, <1>3 DEF IndInv, RootInv
<1>5. brk' \in [Node -> SUBSET BreakFlag] /\ res' \in Nat \cup {-1} /\ pc' \in {"tail", "return"}
  BY Zenon, <1>1, <1>3 DEF IndInv, TypeOK, Cleared
<1>6. act[Top] \in ActionState
  BY <1>3 DEF IndInv, TypeOK
<1>7. \E r \in ActionState : act' = [act EXCEPT ![Top] = r]
  <2>1. CASE stop
    <3>1. [act[Top] EXCEPT !.status = "actionbreak"] \in ActionState
      BY <1>6 DEF ActionState
    <3>2. act' = [act EXCEPT ![Top] = [act[Top] EXCEPT !.status = "actionbreak"]]
      BY <1>1, <1>3, <2>1 DEF SetStatus, IndInv, TypeOK
    <3> QED BY <3>1, <3>2
  <2>2. CASE ~stop
    <3>1. act' = [act EXCEPT ![Top] = act[Top]]
      BY <1>1, <1>3, <2>2 DEF IndInv, TypeOK
    <3> QED BY <1>6, <3>1
  <2> QED BY <2>1, <2>2
<1> QED BY <1>1, <1>2, <1>4, <1>5, <1>7, LocalStep

LEMMA PerformTailInv ==
    ASSUME ActionTreeAssumption, IndInv, PerformTail
    PROVE  IndInv'
<1> DEFINE again == act[Top].lcount < act[Top].count /\ "repeat" \in Flags[Top]
           st == IF again THEN "repeat" ELSE StatusAtEnd(Top, act[Top].count)
<1>1. /\ pc = "tail" /\ act' = SetStatus(Top, st)
      /\ again => pc' = "perform" /\ res' = res
      /\ ~again => pc' = "return" /\ res' = act[Top].count
      /\ UNCHANGED <<brk, starts, fd, stack, plan, asks, trace, script>>
  BY DEF PerformTail, Return, host
<1> HIDE DEF again
<1>2. stack # <<>>
  BY <1>1 DEF IndInv, StackInv
<1>3. PICK d \in Nat : d = Len(stack) /\ d >= 1 /\ Top \in Node /\ (Top = Root <=> d = 1)
  BY <1>2, TopFacts DEF IndInv
<1>4. ~(Open /\ ~fd.jumptable /\ Top = Root)
  BY <1>1, <1>3 DEF IndInv, RootInv
<1>5. act[Top] \in ActionState /\ act[Top].count \in Nat
  BY <1>3 DEF IndInv, TypeOK, ActionState
<1>6. brk' \in [Node -> SUBSET BreakFlag] /\ res' \in Nat \cup {-1} /\ pc' \in {"perform", "return"}
  BY <1>1, <1>5 DEF IndInv, TypeOK
<1>7. st \in {"repeat", "end", "start"}
  BY DEF StatusAtEnd
<1> HIDE DEF st
<1>8. [act[Top] EXCEPT !.status = st] \in ActionState
  BY <1>5, <1>7 DEF ActionState
<1>9. act' = [act EXCEPT ![Top] = [act[Top] EXCEPT !.status = st]]
  BY <1>1, <1>3 DEF SetStatus, IndInv, TypeOK
<1> QED BY <1>1, <1>2, <1>4, <1>6, <1>8, <1>9, LocalStep

LEMMA ApplyLeafInv ==
    ASSUME ActionTreeAssumption, IndInv, ApplyLeaf
    PROVE  IndInv'
<1> USE DEF IndInv
<1> DEFINE n == Top
           changes == plan[n] > 0
           ask == n = Asker /\ asks > 0
<1>1. /\ pc = "leaf" /\ pc' = "after" /\ trace' = Append(trace, n)
      /\ act' = [act EXCEPT ![n].count = IF changes THEN @ + 1 ELSE @]
      /\ plan' = [plan EXCEPT ![n] = IF changes THEN @ - 1 ELSE @]
      /\ asks' = IF ask THEN asks - 1 ELSE asks
      /\ fd' = [fd EXCEPT !.pending = @ \/ ask]
      /\ UNCHANGED <<brk, starts, stack, res, script>>
  BY DEF ApplyLeaf
<1>2. PICK d \in Nat : d = Len(stack) /\ d >= 1 /\ n \in Node /\ (n = Root <=> d = 1)
  BY <1>1, TopFacts DEF StackInv
<1>3. n \in Leaf /\ n # Root /\ d # 1
  BY <1>1, <1>2 DEF StackInv, Leaf
<1>4. act[n] \in ActionState /\ plan[n] \in Nat /\ asks \in Nat
  BY <1>2, <1>3 DEF TypeOK
<1> HIDE DEF n
<1>5. act' \in [Node -> ActionState] /\ act'[Root] = act[Root]
  <2> DEFINE k == IF changes THEN act[n].count + 1 ELSE act[n].count
  <2>0. k \in Nat
    BY <1>4 DEF ActionState
  <2>3. act' = [act EXCEPT ![n] = [act[n] EXCEPT !.count = k]]
    BY <1>1, <1>2 DEF TypeOK
  <2> HIDE DEF k
  <2>1. [act[n] EXCEPT !.count = k] \in ActionState
    BY <1>4, <2>0 DEF ActionState
  <2>2. act' = [act EXCEPT ![n] = [act[n] EXCEPT !.count = k]]
    BY <2>3
  <2> QED BY <1>2, <1>3, <2>1, <2>2 DEF TypeOK, ActionTreeAssumption
<1>6. plan' \in [Leaf -> Nat] /\ asks' \in Nat
  <2> DEFINE left == IF changes THEN plan[n] - 1 ELSE plan[n]
  <2>1. left \in Nat
    BY <1>4
  <2>2. plan' = [plan EXCEPT ![n] = left]
    BY <1>1
  <2> HIDE DEF left
  <2>3. plan' \in [Leaf -> Nat]
    BY <1>3, <2>1, <2>2 DEF TypeOK
  <2>4. asks' \in Nat
    BY <1>1, <1>4
  <2> QED BY <2>3, <2>4
<1>7. /\ fd' \in [pending : BOOLEAN, jumptable : BOOLEAN, clears : Nat, warned : Nat]
      /\ fd'.jumptable = fd.jumptable /\ fd'.clears = fd.clears /\ fd'.warned = fd.warned
  <2>1. fd \in [pending : BOOLEAN, jumptable : BOOLEAN, clears : Nat, warned : Nat]
    BY DEF TypeOK
  <2>2. PICK p \in BOOLEAN : fd' = [fd EXCEPT !.pending = p]
    BY <1>1, <2>1
  <2> QED BY <2>1, <2>2
<1>8. trace' \in Seq(Leaf)
  <2>1. trace \in Seq(Leaf)
    BY DEF TypeOK
  <2> QED BY <1>1, <1>3, <2>1, AppendProperties
<1>9. TypeOK'
  BY <1>1, <1>5, <1>6, <1>7, <1>8 DEF TypeOK
<1>10. Open
  BY <1>1 DEF RootInv
<1>11. StackInv'
  BY <1>1 DEF StackInv
<1>12. CountInv'
  BY <1>1, <1>7, <1>10 DEF CountInv, Open
<1>13. RootInv'
  <2>1. Open' /\ Len(stack') # 1 /\ pc' = "after"
    BY <1>1, <1>2, <1>3, <1>10 DEF Open
  <2>2. ~fd.jumptable => act[Root].status \notin {"end", "actionbreak"}
    BY <1>10 DEF RootInv
  <2> QED BY <1>5, <1>7, <2>1, <2>2 DEF RootInv
<1> QED BY <1>9, <1>11, <1>12, <1>13

LEMMA ApplyGroupInv ==
    ASSUME ActionTreeAssumption, IndInv, ApplyGroup
    PROVE  IndInv'
<1> USE DEF IndInv
<1> DEFINE n == Top
           i == act[n].state
           kid == Kids[n][i]
<1>1. /\ pc = "group" /\ UNCHANGED <<act, brk, starts, fd, res, plan, asks, trace, script>>
      /\ i <= Len(Kids[n]) => stack' = Append(stack, kid) /\ pc' = "perform"
      /\ ~(i <= Len(Kids[n])) =>
            stack' = stack /\ pc' = IF n = Root THEN "restarted" ELSE "after"
  BY DEF ApplyGroup, host
<1>2. PICK d \in Nat : d = Len(stack) /\ d >= 1 /\ n \in Node /\ (n = Root <=> d = 1)
  BY <1>1, TopFacts DEF StackInv
<1>3. i \in Nat \ {0} /\ Kids[n] \in Seq(Node \ {Root})
  <2>1. act[n] \in ActionState
    BY <1>2 DEF TypeOK
  <2> QED BY <1>2, <2>1 DEF ActionState, ActionTreeAssumption
<1>4. Open
  BY <1>1 DEF RootInv
<1>5. CountInv'
  BY <1>1 DEF CountInv, Open
<1>6. ~fd.jumptable => act[Root].status \notin {"end", "actionbreak"}
  BY <1>4 DEF RootInv
<1>7. stack \in Seq(Node)
  BY DEF TypeOK
<1> HIDE DEF n, i
<1>8. CASE i <= Len(Kids[n])
  <2>1. kid \in Node \ {Root}
    <3>1. Len(Kids[n]) \in Nat
      BY <1>3, LenProperties
    <3>2. i \in 1..Len(Kids[n])
      BY <1>3, <1>8, <3>1
    <3> QED BY <1>3, <3>2, ElementOfSeq
  <2> HIDE DEF kid
  <2>2. /\ stack' \in Seq(Node) /\ Len(stack') = d + 1 /\ stack'[d + 1] = kid
        /\ \A j \in 1..d : stack'[j] = stack[j]
    <3>1. stack' = Append(stack, kid) /\ kid \in Node
      BY <1>1, <1>8, <2>1
    <3>2. /\ Append(stack, kid) \in Seq(Node) /\ Len(Append(stack, kid)) = Len(stack) + 1
          /\ Append(stack, kid)[Len(stack) + 1] = kid
          /\ \A j \in 1..Len(stack) : Append(stack, kid)[j] = stack[j]
      BY <1>7, <3>1, AppendProperties
    <3> QED BY ONLY <1>2, <3>1, <3>2
  <2>3. TypeOK'
    BY <1>1, <1>8, <2>2 DEF TypeOK
  <2>4. StackInv'
    <3>1. stack' # <<>> /\ stack'[1] = Root
      BY <1>1, <1>2, <2>2 DEF StackInv
    <3>2. ASSUME NEW j \in 2..Len(stack') PROVE stack'[j] # Root
      <4>1. CASE j <= d
        BY <1>2, <2>2, <3>2, <4>1 DEF StackInv
      <4>2. CASE j = d + 1
        BY <2>1, <2>2, <4>2
      <4> QED BY <2>2, <3>2, <4>1, <4>2
    <3> QED BY <1>1, <1>8, <3>1, <3>2 DEF StackInv
  <2>5. RootInv'
    <3>1. Open' /\ Len(stack') # 1 /\ pc' = "perform"
      BY <1>1, <1>2, <1>4, <1>8, <2>2 DEF Open
    <3> QED BY <1>1, <1>6, <3>1 DEF RootInv
  <2> QED BY <1>5, <2>3, <2>4, <2>5
<1>9. CASE ~(i <= Len(Kids[n]))
  <2>1. stack' = stack /\ (n = Root => pc' = "restarted") /\ (n # Root => pc' = "after")
    BY <1>1, <1>9
  <2>2. TypeOK'
    BY <1>1, <2>1 DEF TypeOK
  <2>3. StackInv'
    BY <1>1, <1>2, <2>1 DEF StackInv
  <2>4. RootInv'
    <3>1. Open' /\ pc' \in {"restarted", "after"} /\ (Len(stack') = 1 => pc' = "restarted")
      BY <1>1, <1>2, <1>4, <2>1 DEF Open
    <3> QED BY <1>1, <1>6, <3>1 DEF RootInv
  <2> QED BY <1>5, <2>2, <2>3, <2>4
<1> QED BY <1>8, <1>9

LEMMA ApplyRestartInv ==
    ASSUME ActionTreeAssumption, IndInv, ApplyRestart
    PROVE  IndInv'
<1> USE DEF IndInv
<1>1. /\ pc = "restart" /\ (starts = -1 => pc' = "after") /\ (starts # -1 => pc' = "group")
      /\ UNCHANGED <<act, brk, starts, fd, stack, res, plan, asks, trace, script>>
  BY DEF ApplyRestart, host
<1>2. TypeOK'
  BY <1>1 DEF TypeOK
<1>3. StackInv'
  BY <1>1 DEF StackInv
<1>4. CountInv'
  BY <1>1 DEF CountInv, Open
<1>5. RootInv'
  BY <1>1 DEF RootInv, Open
<1> QED BY <1>2, <1>3, <1>4, <1>5

\* Reset keeps the counts.
LEMMA FreshFacts ==
    ASSUME NEW a \in ActionState
    PROVE  Fresh(a) \in ActionState /\ Fresh(a).status = "start"
<1>1. PICK one \in Nat \ {0} : one = 1
  OBVIOUS
<1>2. PICK b \in ActionState : b = [a EXCEPT !.status = "start"]
  BY DEF ActionState
<1>3. b.status = "start"
  BY <1>2 DEF ActionState
<1>4. [b EXCEPT !.state = one] \in ActionState
  BY DEF ActionState
<1>5. [b EXCEPT !.state = one].status = b.status
  BY DEF ActionState
<1>6. Fresh(a) = [b EXCEPT !.state = one]
  BY <1>1, <1>2 DEF Fresh
<1> QED BY <1>3, <1>4, <1>5, <1>6

LEMMA RestartInv ==
    ASSUME ActionTreeAssumption, IndInv, Restart
    PROVE  IndInv'
<1> USE DEF IndInv
<1>0. /\ pc = "restarted" /\ UNCHANGED <<brk, stack, res, plan, asks, trace, script>>
  BY DEF Restart, host
<1>1. Open /\ starts \in 0..MaxRestarts /\ MaxRestarts \in Nat /\ fd.clears = starts /\ fd.warned = 0
      /\ fd \in [pending : BOOLEAN, jumptable : BOOLEAN, clears : Nat, warned : Nat]
  BY <1>0 DEF RootInv, CountInv, Open, TypeOK, ActionTreeAssumption
<1>2. StackInv' /\ pc' \in {"after", "group"}
  <2>1. pc' \in {"after", "group"}
    BY DEF Restart
  <2> QED BY <1>0, <2>1 DEF StackInv
<1>3. CASE ~fd.pending
  <2>1. starts' = -1 /\ pc' = "after" /\ UNCHANGED <<act, fd>>
    BY <1>3 DEF Restart
  <2>2. TypeOK'
    BY <1>0, <1>1, <2>1 DEF TypeOK
  <2>3. CountInv'
    BY <1>1, <1>3, <2>1 DEF CountInv, Open
  <2>4. RootInv'
    <3>1. ~Open' /\ Len(stack') = 1 /\ pc' = "after"
      BY <1>0, <2>1 DEF Open, StackInv
    <3> QED BY <3>1 DEF RootInv
  <2> QED BY <1>2, <2>2, <2>3, <2>4
<1>4. CASE fd.pending /\ fd.jumptable
  <2>1. pc' = "after" /\ UNCHANGED <<act, fd, starts>>
    BY <1>4 DEF Restart
  <2>2. TypeOK'
    BY <1>0, <2>1 DEF TypeOK
  <2>3. CountInv'
    BY <2>1 DEF CountInv, Open
  <2>4. RootInv'
    BY <1>0, <1>1, <1>4, <2>1 DEF RootInv, Open
  <2> QED BY <1>2, <2>2, <2>3, <2>4
<1>5. CASE fd.pending /\ ~fd.jumptable /\ TooMany(starts + 1)
  <2>1. starts' = -1 /\ pc' = "after" /\ fd' = [fd EXCEPT !.warned = @ + 1] /\ act' = act
    BY <1>5 DEF Restart
  <2>2. fd' \in [pending : BOOLEAN, jumptable : BOOLEAN, clears : Nat, warned : Nat]
        /\ fd'.pending = fd.pending /\ fd'.clears = fd.clears /\ fd'.warned = 1
    BY SMTT(30), <1>1, <2>1
  <2>3. TypeOK'
    BY SMTT(30), <1>0, <1>1, <2>1, <2>2 DEF TypeOK
  <2>4. CountInv'
    BY <1>1, <1>5, <2>1, <2>2 DEF CountInv, Open
  <2>5. RootInv'
    <3>1. ~Open' /\ Len(stack') = 1 /\ pc' = "after"
      BY <1>0, <2>1 DEF Open, StackInv
    <3> QED BY <3>1 DEF RootInv
  <2> QED BY <1>2, <2>3, <2>4, <2>5
<1>6. CASE fd.pending /\ ~fd.jumptable /\ ~TooMany(starts + 1)
  <2>1. /\ starts' = starts + 1 /\ pc' = "group"
        /\ fd' = [fd EXCEPT !.pending = FALSE, !.clears = @ + 1]
        /\ act' = [n \in Node |-> Fresh(act[n])]
    BY <1>6 DEF Restart
  <2>2. fd' \in [pending : BOOLEAN, jumptable : BOOLEAN, clears : Nat, warned : Nat]
        /\ fd'.clears = fd.clears + 1 /\ fd'.warned = 0
    <3>1. fd' = [pending |-> FALSE, jumptable |-> fd.jumptable, clears |-> fd.clears + 1, warned |-> fd.warned]
      BY <1>1, <2>1
    <3> QED BY <1>1, <3>1
  <2>3. act' \in [Node -> ActionState] /\ act'[Root].status = "start"
    <3>1. ASSUME NEW n \in Node PROVE Fresh(act[n]) \in ActionState /\ Fresh(act[n]).status = "start"
      <4>1. act[n] \in ActionState
        BY DEF TypeOK
      <4> QED BY <4>1, FreshFacts
    <3> QED BY <2>1, <3>1 DEF ActionTreeAssumption
  <2>4. starts' \in 0..MaxRestarts
    BY <1>1, <1>6, <2>1 DEF TooMany
  <2>5. TypeOK'
    BY SMTT(30), <1>0, <2>1, <2>2, <2>3, <2>4 DEF TypeOK
  <2>6. CountInv'
    BY <1>1, <2>1, <2>2, <2>4 DEF CountInv, Open
  <2>7. RootInv'
    BY <1>1, <2>1, <2>3, <2>4 DEF RootInv, Open
  <2> QED BY <1>2, <2>5, <2>6, <2>7
<1> QED BY <1>3, <1>4, <1>5, <1>6

LEMMA ReturnedInv ==
    ASSUME ActionTreeAssumption, IndInv, Returned
    PROVE  IndInv'
<1> USE DEF IndInv
<1> DEFINE below == Front(stack)
           g == Last(below)
<1>1. /\ pc = "return" /\ stack' = below /\ UNCHANGED <<starts, fd, plan, asks, trace, script>>
  BY DEF Returned, host
<1>2. PICK d \in Nat : d = Len(stack) /\ d >= 1 /\ (Top = Root <=> d = 1)
  BY <1>1, TopFacts DEF StackInv
<1>3. /\ below \in Seq(Node) /\ Len(below) = d - 1 /\ (below = <<>> <=> d = 1)
      /\ \A i \in 1..(d - 1) : below[i] = stack[i]
  <2>1. stack \in Seq(Node) /\ stack # <<>>
    BY <1>1 DEF TypeOK, StackInv
  <2>2. /\ Front(stack) \in Seq(Node) /\ Len(Front(stack)) = Len(stack) - 1
        /\ \A i \in 1..(Len(stack) - 1) : Front(stack)[i] = stack[i]
        /\ Front(stack) = <<>> <=> Len(stack) = 1
    BY <2>1, StackFacts
  <2> QED BY ONLY <1>2, <2>2
<1>4. CountInv'
  BY <1>1 DEF CountInv, Open
<1>5. res \in Nat \cup {-1}
  BY DEF TypeOK
<1>6. CASE below = <<>>
  <2>1. pc' = (IF res < 0 THEN "idle" ELSE "finished") /\ UNCHANGED <<act, brk, res>>
    BY <1>6 DEF Returned
  <2>2. TypeOK'
    BY <1>1, <1>3, <2>1 DEF TypeOK
  <2>3. stack' = <<>> /\ Len(stack') = 0
    BY <1>1, <1>6
  <2>4. StackInv'
    BY <2>1, <2>3 DEF StackInv
  <2>5. RootInv'
    <3>1. ASSUME Open, ~fd.jumptable PROVE act[Root].status \notin {"end", "actionbreak"} /\ res = -1
      BY <1>1, <1>2, <1>3, <1>6, <3>1 DEF RootInv
    <3> QED BY <1>1, <2>1, <2>3, <3>1 DEF RootInv, Open
  <2> QED BY <1>4, <2>2, <2>4, <2>5
<1>7. CASE below # <<>>
  <2>1. g \in Node /\ Open /\ d # 1 /\ (g = Root => d - 1 = 1)
    <3>1. g = below[Len(below)] /\ g \in Node
      BY <1>3, <1>7, StackFacts
    <3>2. d # 1 /\ d - 1 \in 1..(d - 1)
      BY <1>2, <1>3, <1>7
    <3>3. g = stack[d - 1]
      BY <1>3, <3>1, <3>2
    <3>4. d - 1 # 1 => d - 1 \in 2..Len(stack)
      BY SMTT(30), <1>2, <3>2
    <3>5. \A i \in 2..Len(stack) : stack[i] # Root
      BY DEF StackInv
    <3>6. d - 1 # 1 => g # Root
      BY ONLY <3>3, <3>4, <3>5
    <3>7. Open
      BY <1>2, <3>2 DEF RootInv
    <3> QED BY ONLY <3>1, <3>2, <3>6, <3>7
  <2>2. act[g] \in ActionState /\ act \in [Node -> ActionState] /\ brk \in [Node -> SUBSET BreakFlag]
    BY <2>1 DEF TypeOK
  <2>3. /\ res < 0 => /\ act' = SetStatus(g, "mid")
                      /\ UNCHANGED <<brk, res, pc>>
        /\ ~(res < 0) /\ res > 0 /\ ActionBreak(g) =>
              /\ act' = [act EXCEPT ![g].count = @ + res, ![g].status = "mid", ![g].state = @ + 1]
              /\ brk' = Cleared(g, "tempaction") /\ res' = -1 /\ pc' = pc
        /\ ~(res < 0) /\ ~(res > 0 /\ ActionBreak(g)) =>
              /\ act' = [act EXCEPT ![g].count = @ + res, ![g].state = @ + 1]
              /\ pc' = "group" /\ UNCHANGED <<brk, res>>
    BY <1>7 DEF Returned, StateAtBreak
  <2> HIDE DEF below, g
  <2>4. /\ brk' \in [Node -> SUBSET BreakFlag] /\ res' \in Nat \cup {-1}
        /\ pc' = "group" \/ (pc' = "return" /\ res' = -1)
    <3>1. CASE res < 0
      BY <1>1, <1>5, <2>2, <2>3, <3>1
    <3>2. CASE ~(res < 0) /\ res > 0 /\ ActionBreak(g)
      <4>1. brk' = [brk EXCEPT ![g] = brk[g] \ {"tempaction"}]
        BY <2>3, <3>2 DEF Cleared
      <4>2. brk' \in [Node -> SUBSET BreakFlag]
        BY <2>1, <2>2, <4>1
      <4> QED BY <1>1, <2>3, <3>2, <4>2
    <3>3. CASE ~(res < 0) /\ ~(res > 0 /\ ActionBreak(g))
      BY <1>5, <2>2, <2>3, <3>3
    <3> QED BY <3>1, <3>2, <3>3
  <2>5. PICK r \in ActionState : /\ act' = [act EXCEPT ![g] = r]
                                 /\ r.status = "mid" \/ r.status = act[g].status
    <3>0. act[g].count \in Nat /\ act[g].lcount \in Nat /\ act[g].state \in Nat \ {0}
      BY <2>2 DEF ActionState
    <3>1. CASE res < 0
      <4>1. act' = [act EXCEPT ![g] = [act[g] EXCEPT !.status = "mid"]]
        BY <2>1, <2>2, <2>3, <3>1 DEF SetStatus
      <4>2. [act[g] EXCEPT !.status = "mid"] \in ActionState /\ [act[g] EXCEPT !.status = "mid"].status = "mid"
        BY <2>2 DEF ActionState
      <4> QED BY <4>1, <4>2
    <3>2. CASE ~(res < 0) /\ res > 0 /\ ActionBreak(g)
      <4> DEFINE r == [status |-> "mid", count |-> act[g].count + res,
                       lcount |-> act[g].lcount, state |-> act[g].state + 1]
      <4>1. act' = [act EXCEPT ![g] = r]
        BY SMTT(30), <2>1, <2>2, <2>3, <3>2 DEF ActionState
      <4>3. act[g].count + res \in Nat /\ act[g].state + 1 \in Nat \ {0} /\ act[g].lcount \in Nat
        BY SMTT(30), <1>5, <3>0, <3>2
      <4>2. r \in ActionState /\ r.status = "mid"
        BY <4>3 DEF ActionState
      <4> QED BY <4>1, <4>2
    <3>3. CASE ~(res < 0) /\ ~(res > 0 /\ ActionBreak(g))
      <4> DEFINE r == [status |-> act[g].status, count |-> act[g].count + res,
                       lcount |-> act[g].lcount, state |-> act[g].state + 1]
      <4>1. act' = [act EXCEPT ![g] = r]
        BY Zenon, <2>1, <2>2, <2>3, <3>3 DEF ActionState
      <4>3. act[g].count + res \in Nat /\ act[g].state + 1 \in Nat \ {0} /\ act[g].lcount \in Nat
        BY SMTT(30), <1>5, <3>0, <3>3
      <4>4. act[g].status \in {"start", "breakstarthit", "repeat", "mid", "end", "actionbreak"}
        BY <2>2 DEF ActionState
      <4>2. r \in ActionState /\ r.status = act[g].status
        BY <4>3, <4>4 DEF ActionState
      <4> QED BY <4>1, <4>2
    <3> QED BY <3>1, <3>2, <3>3
  <2>6. /\ act' \in [Node -> ActionState]
        /\ act'[Root].status = "mid" \/ act'[Root].status = act[Root].status
    BY <2>1, <2>2, <2>5 DEF ActionTreeAssumption
  <2>7. TypeOK'
    BY <1>1, <1>3, <2>4, <2>6 DEF TypeOK
  <2>8. StackInv'
    <3>1. stack' # <<>> /\ stack'[1] = Root
      <4>1. stack' = below /\ 1 \in 1..(d - 1)
        BY <1>1, <1>2, <2>1
      <4>2. stack[1] = Root
        BY <1>1 DEF StackInv
      <4> QED BY <1>3, <1>7, <4>1, <4>2
    <3>2. \A i \in 2..Len(stack') : stack'[i] # Root
      BY SMTT(30), <1>1, <1>2, <1>3 DEF StackInv
    <3> QED BY <2>4, <3>1, <3>2 DEF StackInv
  <2>9. RootInv'
    <3>1. Open'
      BY <1>1, <2>1 DEF Open
    <3>2. ~fd.jumptable => act[Root].status \notin {"end", "actionbreak"}
      BY <2>1 DEF RootInv
    <3> QED BY <1>1, <2>4, <2>6, <3>1, <3>2 DEF RootInv
  <2> QED BY <1>4, <2>7, <2>8, <2>9
<1> QED BY <1>6, <1>7

LEMMA StutterInv ==
    ASSUME IndInv, UNCHANGED vars
    PROVE  IndInv'
<1>1. UNCHANGED <<act, brk, starts, fd, stack, pc, res, plan, asks, trace>>
  BY DEF vars
<1>2. TypeOK'
  BY <1>1 DEF IndInv, TypeOK
<1>3. StackInv'
  BY <1>1 DEF IndInv, StackInv, Top
<1>4. CountInv' /\ RootInv'
  BY <1>1 DEF IndInv, CountInv, RootInv, Open
<1> QED BY <1>2, <1>3, <1>4 DEF IndInv

\* The invariant holds in every reachable state of every action tree.
THEOREM TreeInvariant == Spec => []IndInv
<1>1. Init => IndInv
  BY InitInv, ActionTreeAssumption
<1>2. IndInv /\ [Next]_vars => IndInv'
  <2> SUFFICES ASSUME IndInv, [Next]_vars PROVE IndInv'
    OBVIOUS
  <2> USE ActionTreeAssumption
  <2>1. CASE Call
    BY <2>1, CallInv
  <2>2. CASE Perform
    BY <2>2, PerformInv
  <2>3. CASE PerformEnd
    BY <2>3, PerformEndInv
  <2>4. CASE PerformBreak
    BY <2>4, PerformBreakInv
  <2>5. CASE ApplyLeaf
    BY <2>5, ApplyLeafInv
  <2>6. CASE ApplyGroup
    BY <2>6, ApplyGroupInv
  <2>7. CASE ApplyRestart
    BY <2>7, ApplyRestartInv
  <2>8. CASE Restart
    BY <2>8, RestartInv
  <2>9. CASE After
    BY <2>9, AfterInv
  <2>10. CASE PerformTail
    BY <2>10, PerformTailInv
  <2>11. CASE Returned
    BY <2>11, ReturnedInv
  <2>12. CASE Finished
    BY <2>12, StutterInv DEF Finished
  <2>13. CASE UNCHANGED vars
    BY <2>13, StutterInv
  <2> QED BY <2>1, <2>2, <2>3, <2>4, <2>5, <2>6, <2>7, <2>8, <2>9, <2>10, <2>11, <2>12, <2>13 DEF Next
<1> QED BY <1>1, <1>2, PTL DEF Spec

\* Every variable keeps its type; the stack always is a path that ends at an action.
THEOREM TreeTypeCorrect == Spec => []TypeOK
<1>1. IndInv => TypeOK
  BY DEF IndInv
<1> QED BY <1>1, TreeInvariant, PTL

\* The function is restarted at most maxRestarts times, and a run that ends with a
\* request left over has said so exactly once.
THEOREM RestartsAreBounded == Spec => []RestartsBounded
<1>1. IndInv => RestartsBounded
  BY DEF IndInv, CountInv, RootInv, RestartsBounded
<1> QED BY <1>1, TreeInvariant, PTL

-----------------------------------------------------------------------------
(***************************************************************************)
(* Breakpoints go unnoticed: ActionTree implements UninterruptedRun.          *)
(***************************************************************************)
On(stk, n) == \E i \in 1..Len(stk) : stk[i] = n
Under(stk, n) == \E i \in 1..(Len(stk) - 1) : stk[i] = n

\* ModeOf as a function of the state it depends on
Mode(stk, p, r, ac, n) ==
    IF Under(stk, n) THEN "apply"
    ELSE IF stk # <<>> /\ n = Last(stk) THEN TopMode(p, r, ac[n].status)
    ELSE IF n = Root /\ p = "finished" THEN "return"
    ELSE IF n = Root /\ p = "idle" THEN TopMode("perform", 0, ac[n].status)
    ELSE Stopped(ac[n].status)

HasNext(ac, g) == ac[g].state <= Len(Kids[g])
KidsOut(ac, n) == \A i \in 1..Len(Kids[n]) : Stopped(ac[Kids[n][i]].status) = "out"

\* No action is performed twice at a time.
Distinct(stk) == \A i, j \in 1..Len(stk) : stk[i] = stk[j] => i = j
\* Each action on the stack is the child the group below it is at.
Chain(stk, ac) ==
    \A i \in 1..(Len(stk) - 1) :
        HasNext(ac, stk[i]) /\ stk[i + 1] = Kids[stk[i]][ac[stk[i]].state] /\ ac[stk[i]].status # "end"
\* Only an action being performed is in the middle of its rounds without a break.
RepeatOn(stk, ac) == \A n \in Node : ac[n].status = "repeat" => On(stk, n)
\* An action that stopped is the child at which its group stopped, or is about to
\* find it.
StoppedIn(stk, p, r, ac) ==
    \A n \in Node \ {Root} : Stopped(ac[n].status) # "out" /\ ~On(stk, n) =>
        \E g \in Node : /\ HasNext(ac, g) /\ Kids[g][ac[g].state] = n
                        /\ ~Under(stk, g) /\ Mode(stk, p, r, ac, g) = "apply"
\* An action that stopped before its Apply has not counted anything yet.
FreshEntry(stk, p, r, ac) ==
    \A n \in Node : Mode(stk, p, r, ac, n) = "enter" /\ ac[n].status = "breakstarthit" => ac[n].count = 0

PathOK(stk, p, r, ac) ==
    Distinct(stk) /\ Chain(stk, ac) /\ RepeatOn(stk, ac) /\ StoppedIn(stk, p, r, ac) /\ FreshEntry(stk, p, r, ac)

\* What the status of the top action is at each point of Perform
TopOK(n, p, r, a) ==
    /\ p = "return" => IF r = -1 THEN Stopped(a.status) # "out" ELSE a.status \in {"start", "end"}
    /\ p \notin {"perform", "return"} => a.status # "end"
    /\ p = "group" => n \notin Leaf
    /\ p = "restarted" => a.state > Len(Kids[n])

\* A restart group that has come to its end has no stopped child.
EndOK(st, ac) == st = -1 => KidsOut(ac, Root)

ResumeInv ==
    /\ PathOK(stack, pc, res, act)
    /\ stack # <<>> => TopOK(Top, pc, res, act[Top])
    /\ EndOK(starts, act)

-----------------------------------------------------------------------------
\* The mode of an action depends on the stack, on what Perform does next and on the
\* status.
LEMMA ModeIs ==
    /\ \A n : ModeOf(n) = Mode(stack, pc, res, act, n)
    /\ \A n : ModeOf(n)' = Mode(stack', pc', res', act', n)
  BY DEF ModeOf, Mode, Below, Under, Top

\* The modes of the top action
LEMMA TopModes ==
    ASSUME NEW r \in Nat \cup {-1}, NEW s
    PROVE  /\ \A p \in {"leaf", "group", "restart", "restarted"} : TopMode(p, r, s) = "apply"
           /\ \A p \in {"after", "tail"} : TopMode(p, r, s) = "check"
           /\ r # -1 => TopMode("return", r, s) = "return"
           /\ TopMode("return", -1, s) = Stopped(s)
           /\ TopMode("perform", r, s) = IF Stopped(s) = "out" THEN "enter" ELSE Stopped(s)
  BY DEF TopMode

\* The modes of an action that stopped
LEMMA StoppedModes ==
    /\ Stopped("breakstarthit") = "enter" /\ Stopped("mid") = "apply"
    /\ Stopped("actionbreak") = "check"
    /\ \A s \in {"start", "repeat", "end"} : Stopped(s) = "out"
    /\ \A s : Stopped(s) # "return"
  BY DEF Stopped

\* Who is on a stack, and who is under its top
LEMMA OnFacts ==
    ASSUME NEW stk \in Seq(Node), Distinct(stk), stk # <<>>
    PROVE  /\ Last(stk) \in Node /\ ~Under(stk, Last(stk)) /\ On(stk, Last(stk))
           /\ \A n : On(stk, n) <=> Under(stk, n) \/ n = Last(stk)
<1>1. PICK d \in Nat : d = Len(stk) /\ d >= 1 /\ Last(stk) = stk[d] /\ Last(stk) \in Node
  BY StackFacts
<1>2. \A i \in 1..d : i \in 1..(d - 1) \/ i = d
  BY <1>1
<1>3. ~Under(stk, Last(stk))
  <2>1. ASSUME NEW i \in 1..(d - 1), stk[i] = stk[d] PROVE FALSE
    <3>1. i \in 1..d /\ d \in 1..d /\ i # d
      BY <1>1
    <3> QED BY <1>1, <2>1, <3>1 DEF Distinct
  <2> QED BY <1>1, <2>1 DEF Under
<1>4. \A n : On(stk, n) <=> Under(stk, n) \/ n = Last(stk)
  <2>1. d \in 1..d /\ \A i \in 1..(d - 1) : i \in 1..d
    BY <1>1
  <2> QED BY <1>1, <1>2, <2>1 DEF On, Under
<1> QED BY <1>1, <1>3, <1>4

\* The modes by the place on the stack
LEMMA ModeCases ==
    ASSUME NEW stk \in Seq(Node), Distinct(stk), stk # <<>>, NEW p, NEW r, NEW ac,
           p \notin {"idle", "finished"}
    PROVE  /\ Mode(stk, p, r, ac, Last(stk)) = TopMode(p, r, ac[Last(stk)].status)
           /\ \A n : Under(stk, n) => Mode(stk, p, r, ac, n) = "apply"
           /\ \A n : ~On(stk, n) => Mode(stk, p, r, ac, n) = Stopped(ac[n].status)
  BY OnFacts DEF Mode

\* The children of the top action are not on the stack, and the only one that may
\* have stopped is the one the action is at.
LEMMA KidsFacts ==
    ASSUME ActionTreeAssumption, TreeAssumption,
           NEW stk \in Seq(Node), stk # <<>>, stk[1] = Root, NEW p, NEW r, NEW ac \in [Node -> ActionState],
           p \notin {"idle", "finished"}, PathOK(stk, p, r, ac), NEW n, n = Last(stk)
    PROVE  /\ n \in Node
           /\ \A i \in 1..Len(Kids[n]) : Kids[n][i] \in Node \ {Root} /\ ~On(stk, Kids[n][i])
           /\ \A i \in 1..Len(Kids[n]) : Stopped(ac[Kids[n][i]].status) # "out"
                 => TopMode(p, r, ac[n].status) = "apply" /\ ac[n].state = i
<1>1. PICK d \in Nat : d = Len(stk) /\ d >= 1 /\ n = stk[d] /\ n \in Node
  BY StackFacts
<1>2. Distinct(stk) /\ Chain(stk, ac) /\ StoppedIn(stk, p, r, ac)
  BY DEF PathOK
<1>3. \A m \in Node : /\ Kids[m] \in Seq(Node \ {Root}) /\ Len(Kids[m]) \in Nat
                      /\ ac[m].state \in Nat \ {0}
  <2> SUFFICES ASSUME NEW m \in Node
               PROVE  /\ Kids[m] \in Seq(Node \ {Root}) /\ Len(Kids[m]) \in Nat
                      /\ ac[m].state \in Nat \ {0}
    OBVIOUS
  <2>1. Kids[m] \in Seq(Node \ {Root}) /\ ac[m] \in ActionState
    BY DEF ActionTreeAssumption
  <2> QED BY <2>1, LenProperties DEF ActionState
<1>4. \A i \in 1..Len(Kids[n]) : Kids[n][i] \in Node \ {Root}
  BY <1>1, <1>3, ElementOfSeq
<1>5. ASSUME NEW i \in 1..Len(Kids[n]), On(stk, Kids[n][i]) PROVE FALSE
  <2>1. PICK j \in 1..d : stk[j] = Kids[n][i]
    BY <1>1, <1>5 DEF On
  <2>2. j # 1
    BY <1>4, <2>1
  <2>3. j - 1 \in 1..(d - 1) /\ j - 1 + 1 = j /\ j - 1 \in 1..d /\ d \in 1..d /\ j - 1 # d
    BY SMTT(30), <1>1, <2>1, <2>2
  <2> DEFINE g == stk[j - 1]
             k == ac[g].state
  <2>4. g \in Node
    BY <1>1, <2>3, ElementOfSeq
  <2>5. k <= Len(Kids[g]) /\ stk[j] = Kids[g][k]
    BY <1>1, <1>2, <2>3 DEF Chain, HasNext
  <2>6. k \in 1..Len(Kids[g])
    BY SMTT(30), <1>3, <2>4, <2>5
  <2> HIDE DEF g, k
  <2>7. g = n
    <3>1. Kids[g][k] = Kids[n][i]
      BY <2>1, <2>5
    <3> QED BY <1>1, <1>5, <2>4, <2>6, <3>1 DEF TreeAssumption
  <2> QED BY <1>1, <1>2, <2>3, <2>7 DEF Distinct, g
<1>6. ASSUME NEW i \in 1..Len(Kids[n]), Stopped(ac[Kids[n][i]].status) # "out"
      PROVE  TopMode(p, r, ac[n].status) = "apply" /\ ac[n].state = i
  <2>1. PICK g \in Node : /\ HasNext(ac, g) /\ Kids[g][ac[g].state] = Kids[n][i]
                          /\ ~Under(stk, g) /\ Mode(stk, p, r, ac, g) = "apply"
    BY <1>2, <1>4, <1>5, <1>6 DEF StoppedIn
  <2>2. ac[g].state \in 1..Len(Kids[g])
    BY SMTT(30), <1>3, <2>1 DEF HasNext
  <2>3. g = n /\ ac[g].state = i
    BY SMTT(30), <1>1, <2>1, <2>2 DEF TreeAssumption
  <2>4. Mode(stk, p, r, ac, n) = TopMode(p, r, ac[n].status)
    BY SMTT(30), <1>2, ModeCases
  <2> QED BY <2>1, <2>3, <2>4
<1> QED BY <1>1, <1>4, <1>5, <1>6

\* Only the top action n changes, from ac to bc, while Perform goes on from p to q.
TopChange(stk, n, p, r, ac, q, s, bc) ==
    /\ stk \in Seq(Node) /\ stk # <<>> /\ stk[1] = Root /\ n = Last(stk)
    /\ ac \in [Node -> ActionState] /\ bc \in [Node -> ActionState]
    /\ \A m \in Node : m # n => bc[m] = ac[m]
    /\ p \notin {"idle", "finished"} /\ q \notin {"idle", "finished"}
    /\ PathOK(stk, p, r, ac)
    /\ \/ KidsOut(ac, n)
       \/ TopMode(q, s, bc[n].status) = "apply" /\ bc[n].state = ac[n].state
    /\ TopMode(q, s, bc[n].status) = "enter" /\ bc[n].status = "breakstarthit" => bc[n].count = 0

\* What that leaves alone
TopOnly(stk, n, p, r, ac, q, s, bc) ==
    /\ PathOK(stk, q, s, bc)
    /\ \A m \in Node : m # n => Mode(stk, q, s, bc, m) = Mode(stk, p, r, ac, m)
                                 /\ Mode(stk, q, s, bc, m) # "return"
    /\ Mode(stk, q, s, bc, n) = TopMode(q, s, bc[n].status)
    /\ Mode(stk, p, r, ac, n) = TopMode(p, r, ac[n].status)

\* Perform goes on without calling or returning: the other actions stay where they are.
LEMMA TopStep ==
    ASSUME ActionTreeAssumption, TreeAssumption, NEW stk, NEW n, NEW p, NEW r, NEW ac,
           NEW q, NEW s, NEW bc, TopChange(stk, n, p, r, ac, q, s, bc)
    PROVE  TopOnly(stk, n, p, r, ac, q, s, bc)
<1> USE DEF TopChange
<1>0. p \notin {"idle", "finished"} /\ q \notin {"idle", "finished"}
  OBVIOUS
<1>1. /\ Distinct(stk) /\ Chain(stk, ac) /\ RepeatOn(stk, ac)
      /\ StoppedIn(stk, p, r, ac) /\ FreshEntry(stk, p, r, ac)
  BY DEF PathOK
<1>2. n \in Node /\ ~Under(stk, n) /\ On(stk, n) /\ \A m : On(stk, m) <=> Under(stk, m) \/ m = n
  BY <1>1, OnFacts
<1>3. ASSUME NEW m \in Node, m # n
      PROVE  /\ Mode(stk, q, s, bc, m) = Mode(stk, p, r, ac, m) /\ Mode(stk, q, s, bc, m) # "return"
  <2>1. /\ Under(stk, m) => Mode(stk, q, s, bc, m) = "apply"
        /\ ~On(stk, m) => Mode(stk, q, s, bc, m) = Stopped(bc[m].status)
    BY <1>0, <1>2 DEF Mode
  <2>2. /\ Under(stk, m) => Mode(stk, p, r, ac, m) = "apply"
        /\ ~On(stk, m) => Mode(stk, p, r, ac, m) = Stopped(ac[m].status)
    BY <1>0, <1>2 DEF Mode
  <2>3. ~Under(stk, m) => ~On(stk, m) /\ bc[m] = ac[m]
    BY <1>2, <1>3
  <2> QED BY <2>1, <2>2, <2>3, StoppedModes
<1>4. /\ Mode(stk, q, s, bc, n) = TopMode(q, s, bc[n].status)
      /\ Mode(stk, p, r, ac, n) = TopMode(p, r, ac[n].status)
  BY SMTT(30), <1>0, <1>1, ModeCases
<1>5. Chain(stk, bc)
  <2>1. ASSUME NEW i \in 1..(Len(stk) - 1) PROVE stk[i] \in Node /\ bc[stk[i]] = ac[stk[i]]
    <3>1. Under(stk, stk[i])
      BY DEF Under
    <3>2. i \in 1..Len(stk)
      BY LenProperties
    <3>3. stk[i] \in Node
      BY <3>2, ElementOfSeq
    <3> QED BY <1>2, <3>1, <3>3
  <2> QED BY Zenon, <1>1, <2>1 DEF Chain, HasNext
<1>6. RepeatOn(stk, bc)
  BY <1>1, <1>2 DEF RepeatOn
<1>7. FreshEntry(stk, q, s, bc)
  BY ZenonT(60), <1>1, <1>3, <1>4 DEF FreshEntry
<1>8. ASSUME NEW m \in Node \ {Root}, Stopped(bc[m].status) # "out", ~On(stk, m)
      PROVE  \E g \in Node : /\ HasNext(bc, g) /\ Kids[g][bc[g].state] = m
                             /\ ~Under(stk, g) /\ Mode(stk, q, s, bc, g) = "apply"
  <2>1. Stopped(ac[m].status) # "out"
    BY <1>2, <1>8
  <2>2. PICK g \in Node : /\ HasNext(ac, g) /\ Kids[g][ac[g].state] = m
                          /\ ~Under(stk, g) /\ Mode(stk, p, r, ac, g) = "apply"
    BY <1>1, <1>8, <2>1 DEF StoppedIn
  <2>3. CASE g # n
    BY <1>3, <2>2, <2>3 DEF HasNext
  <2>4. CASE g = n
    <3>1. Len(Kids[n]) \in Nat /\ ac[n].state \in Nat \ {0}
      <4>1. Kids[n] \in Seq(Node \ {Root}) /\ ac[n] \in ActionState
        BY <1>2 DEF ActionTreeAssumption
      <4> QED BY <4>1, LenProperties DEF ActionState
    <3>2. ac[n].state \in 1..Len(Kids[n])
      BY <2>2, <2>4, <3>1 DEF HasNext
    <3>3. ~KidsOut(ac, n)
      BY <2>1, <2>2, <2>4, <3>2 DEF KidsOut
    <3>4. TopMode(q, s, bc[n].status) = "apply" /\ bc[n].state = ac[n].state
      BY <3>3
    <3> QED BY <1>4, <2>2, <2>4, <3>4 DEF HasNext
  <2> QED BY <2>3, <2>4
<1>9. PathOK(stk, q, s, bc)
  BY <1>1, <1>5, <1>6, <1>7, <1>8 DEF PathOK, StoppedIn
<1> QED BY <1>3, <1>4, <1>9 DEF TopOnly

\* What is known of the top action
LEMMA TopState ==
    ASSUME ActionTreeAssumption, TreeAssumption, IndInv, ResumeInv, pc \notin {"idle", "finished"}
    PROVE  /\ stack \in Seq(Node) /\ stack # <<>> /\ stack[1] = Root /\ Distinct(stack)
           /\ Top = Last(stack) /\ Top \in Node /\ act \in [Node -> ActionState] /\ act[Top] \in ActionState
           /\ TopOK(Top, pc, res, act[Top])
           /\ Frames[Top] = FrameAt(TopMode(pc, res, act[Top].status), act[Top], res)
           /\ KidsOut(act, Top) => \A m : TopMode(pc, res, act[Top].status) = m => Uninterrupted!Moves(Top, m)
<1>1. /\ stack \in Seq(Node) /\ stack # <<>> /\ stack[1] = Root /\ Distinct(stack)
      /\ act \in [Node -> ActionState] /\ PathOK(stack, pc, res, act)
  BY DEF IndInv, TypeOK, StackInv, ResumeInv, PathOK
<1>2. Top = Last(stack) /\ Top \in Node
  BY <1>1, OnFacts DEF Top
<1>3. TopOK(Top, pc, res, act[Top])
  BY <1>1 DEF ResumeInv
<1>4. \A m : ModeOf(m) = Mode(stack, pc, res, act, m)
  BY ModeIs
<1>5. ModeOf(Top) = TopMode(pc, res, act[Top].status)
  BY <1>1, <1>2, <1>4, ModeCases
<1>6. Frames[Top] = FrameAt(TopMode(pc, res, act[Top].status), act[Top], res)
  BY <1>2, <1>5 DEF Frames
<1>7. ASSUME KidsOut(act, Top), NEW m, TopMode(pc, res, act[Top].status) = m PROVE Uninterrupted!Moves(Top, m)
  <2>1. Frames[Top].mode = m
    BY <1>6, <1>7 DEF FrameAt
  <2>2. ASSUME NEW i \in DOMAIN Kids[Top] PROVE Frames[Kids[Top][i]].mode = "out"
    <3>1. Kids[Top] \in Seq(Node \ {Root})
      BY <1>2 DEF ActionTreeAssumption
    <3>2. i \in 1..Len(Kids[Top])
      BY <2>2, <3>1, LenProperties
    <3>3. Kids[Top][i] \in Node /\ ~On(stack, Kids[Top][i])
      BY <1>1, <1>2, <3>2, KidsFacts
    <3>4. ModeOf(Kids[Top][i]) = Stopped(act[Kids[Top][i]].status)
      <4> DEFINE x == Kids[Top][i]
      <4>1. ~Under(stack, x) /\ x # Last(stack)
        BY <1>1, <3>3, OnFacts
      <4>2. Mode(stack, pc, res, act, x) = Stopped(act[x].status)
        BY <4>1 DEF Mode
      <4> QED BY <1>4, <4>2
    <3>5. ModeOf(Kids[Top][i]) = "out"
      BY <1>7, <3>2, <3>4 DEF KidsOut
    <3> QED BY <3>3, <3>5 DEF Frames, FrameAt
  <2> QED BY <2>1, <2>2 DEF Uninterrupted!Moves
<1> QED BY <1>1, <1>2, <1>3, <1>6, <1>7

\* The children of the top action are not in the middle of anything, unless it is
\* applied and at a child that stopped.
LEMMA TopKids ==
    ASSUME ActionTreeAssumption, TreeAssumption, IndInv, ResumeInv, pc \notin {"idle", "finished"},
           TopMode(pc, res, act[Top].status) = "apply" =>
               \/ act[Top].state > Len(Kids[Top])
               \/ Stopped(act[Kids[Top][act[Top].state]].status) = "out"
    PROVE  KidsOut(act, Top)
<1>1. /\ stack \in Seq(Node) /\ stack # <<>> /\ stack[1] = Root /\ Top = Last(stack)
      /\ act \in [Node -> ActionState] /\ PathOK(stack, pc, res, act)
  BY TopState DEF ResumeInv
<1>2. SUFFICES ASSUME NEW i \in 1..Len(Kids[Top]), Stopped(act[Kids[Top][i]].status) # "out"
               PROVE  FALSE
  BY DEF KidsOut
<1>3. TopMode(pc, res, act[Top].status) = "apply" /\ act[Top].state = i
  BY SMTT(30), <1>1, <1>2, KidsFacts
<1>4. i <= Len(Kids[Top])
  <2>1. Kids[Top] \in Seq(Node \ {Root})
    BY <1>1, TopState DEF ActionTreeAssumption
  <2> QED BY <1>2, <2>1, LenProperties
<1> QED BY <1>2, <1>3, <1>4, LenProperties

\* A frame outside "return" does not depend on the value being returned.
LEMMA FrameFacts ==
    ASSUME NEW m, NEW a, NEW r
    PROVE  /\ FrameAt(m, a, r).mode = m
           /\ m # "return" => \A s : FrameAt(m, a, s) = FrameAt(m, a, r)
           /\ FrameAt("out", a, r) = Uninterrupted!Out
           /\ FrameAt("return", a, r) = Uninterrupted!Frame("return", 1, r, 0)
           /\ FrameAt("apply", a, r) = Uninterrupted!Frame("apply", a.state, a.count, a.lcount)
           /\ FrameAt("check", a, r) = Uninterrupted!Frame("check", a.state, a.count, a.lcount)
           /\ a.status = "repeat" => FrameAt("enter", a, r) = Uninterrupted!Frame("enter", 1, a.count, 0)
           /\ a.status # "repeat" => FrameAt("enter", a, r) = Uninterrupted!Frame("enter", 1, 0, 0)
  BY DEF FrameAt, Uninterrupted!Frame, Uninterrupted!Out

\* A step that changes the top action only, seen from the uninterrupted run
LEMMA LocalResume ==
    ASSUME ActionTreeAssumption, TreeAssumption, IndInv, ResumeInv,
           {pc, pc'} \cap {"idle", "finished"} = {}, stack' = stack,
           NEW b \in ActionState, act' = [act EXCEPT ![Top] = b],
           \/ KidsOut(act, Top)
           \/ TopMode(pc', res', b.status) = "apply" /\ b.state = act[Top].state,
           TopMode(pc', res', b.status) = "enter" /\ b.status = "breakstarthit" => b.count = 0,
           TopOK(Top, pc', res', b),
           starts' = -1 => starts = -1 \/ (Top = Root /\ KidsOut(act, Root))
    PROVE  /\ ResumeInv'
           /\ Frames' = [Frames EXCEPT ![Top] = FrameAt(TopMode(pc', res', b.status), b, res')]
<1>1. /\ stack \in Seq(Node) /\ stack # <<>> /\ stack[1] = Root /\ Top = Last(stack) /\ Top \in Node
      /\ act \in [Node -> ActionState] /\ PathOK(stack, pc, res, act)
  BY TopState DEF ResumeInv
<1>2. /\ act' \in [Node -> ActionState] /\ act'[Top] = b /\ \A m \in Node : m # Top => act'[m] = act[m]
  BY <1>1
<1> DEFINE p == pc
           q == pc'
           s == res'
           bc == act'
<1>3. \/ KidsOut(act, Top)
      \/ TopMode(q, s, bc[Top].status) = "apply" /\ bc[Top].state = act[Top].state
  BY <1>2
<1>4. TopMode(q, s, bc[Top].status) = "enter" /\ bc[Top].status = "breakstarthit" => bc[Top].count = 0
  BY <1>2
<1>5. bc \in [Node -> ActionState] /\ \A m \in Node : m # Top => bc[m] = act[m]
  BY <1>2
<1>6. p \notin {"idle", "finished"} /\ q \notin {"idle", "finished"} /\ PathOK(stack, p, res, act)
  BY <1>1
<1> HIDE DEF p, q, s, bc
<1>7. TopOnly(stack, Top, p, res, act, q, s, bc)
  <2>1. TopChange(stack, Top, p, res, act, q, s, bc)
    BY <1>1, <1>3, <1>4, <1>5, <1>6 DEF TopChange
  <2> QED BY <2>1, TopStep
<1>8. \A m \in Node : m # Top => ModeOf(m)' = ModeOf(m) /\ ModeOf(m) # "return"
  BY <1>7, ModeIs DEF TopOnly, p, q, s, bc
<1>9. Top' = Top
  BY DEF Top
<1>10. ASSUME NEW m \in Node
       PROVE  FrameAt(ModeOf(m)', act'[m], res')
                = IF m = Top THEN FrameAt(TopMode(pc', res', b.status), b, res')
                  ELSE FrameAt(ModeOf(m), act[m], res)
  <2>1. CASE m = Top
    <3>1. ModeOf(m)' = TopMode(pc', res', b.status)
      <4>1. ModeOf(m)' = Mode(stack', pc', res', act', m)
        BY ModeIs
      <4> QED BY <1>2, <1>7, <2>1, <4>1 DEF TopOnly, q, s, bc
    <3> QED BY <1>2, <2>1, <3>1
  <2>2. CASE m # Top
    BY <1>2, <1>8, <2>2, FrameFacts
  <2> QED BY <2>1, <2>2
<1>11. Frames' = [m \in Node |-> FrameAt(ModeOf(m)', act'[m], res')]
  BY DEF Frames
<1>12. Frames' = [Frames EXCEPT ![Top] = FrameAt(TopMode(pc', res', b.status), b, res')]
  BY <1>1, <1>10, <1>11 DEF Frames
<1>13. EndOK(starts, act) => EndOK(starts', act')
  <2> SUFFICES ASSUME EndOK(starts, act), starts' = -1 PROVE KidsOut(act', Root)
    BY DEF EndOK
  <2>1. Top = Root /\ KidsOut(act, Root)
    <3>1. CASE starts = -1
      <4>1. KidsOut(act, Root)
        BY <3>1 DEF EndOK
      <4>2. Len(stack) <= 1
        BY <3>1 DEF IndInv, RootInv, Open
      <4>3. Top = Root
        BY <1>1, <4>2, TopFacts DEF IndInv
      <4> QED BY <4>1, <4>3
    <3> QED BY <3>1
  <2>2. \A i \in 1..Len(Kids[Root]) : Kids[Root][i] \in Node \ {Root}
    <3>1. Kids[Root] \in Seq(Node \ {Root})
      BY DEF ActionTreeAssumption
    <3> QED BY <3>1, ElementOfSeq
  <2> QED BY <1>2, <2>1, <2>2 DEF KidsOut
<1>14. ResumeInv'
  <2>1. PathOK(stack', pc', res', act')
    BY <1>7 DEF TopOnly, q, s, bc
  <2>2. TopOK(Top', pc', res', act'[Top'])
    BY <1>2, <1>9
  <2>3. EndOK(starts', act')
    BY <1>13 DEF ResumeInv
  <2> QED BY <2>1, <2>2, <2>3 DEF ResumeInv
<1> QED BY <1>12, <1>14

\* What a step of the tree is in the uninterrupted run: a step or nothing
Resumes == ResumeInv' /\ [Uninterrupted!Next]_(Uninterrupted!uvars)

\* What is done with the function, when only the top action changes
LEMMA LocalOver ==
    ASSUME ActionTreeAssumption, TreeAssumption, IndInv, ResumeInv, pc \notin {"idle", "finished"},
           NEW b \in ActionState, act' = [act EXCEPT ![Top] = b]
    PROVE  /\ Top \in Over <=> act[Top].status = "end"
           /\ b.status = "end" => Over' = Over \cup {Top}
           /\ b.status # "end" /\ act[Top].status # "end" => Over' = Over
<1>1. Top \in Node /\ act \in [Node -> ActionState]
  BY TopState
<1>2. Over' = {m \in Node : act'[m].status = "end"}
  BY DEF Over
<1>3. \A m \in Node : act'[m] = IF m = Top THEN b ELSE act[m]
  BY <1>1
<1> QED BY <1>1, <1>2, <1>3 DEF Over

\* A step of the top action that its frame does not show
LEMMA LocalStutter ==
    ASSUME ActionTreeAssumption, TreeAssumption, IndInv, ResumeInv,
           {pc, pc'} \cap {"idle", "finished"} = {}, UNCHANGED <<stack, starts, fd, plan, asks, trace>>,
           NEW b \in ActionState, act' = [act EXCEPT ![Top] = b],
           \/ KidsOut(act, Top)
           \/ TopMode(pc', res', b.status) = "apply" /\ b.state = act[Top].state,
           TopMode(pc', res', b.status) = "enter" /\ b.status = "breakstarthit" => b.count = 0,
           TopOK(Top, pc', res', b),
           b.status # "end", act[Top].status # "end",
           FrameAt(TopMode(pc', res', b.status), b, res')
             = FrameAt(TopMode(pc, res, act[Top].status), act[Top], res)
    PROVE  Resumes
<1>1. pc \notin {"idle", "finished"} /\ stack' = stack /\ starts' = starts
  OBVIOUS
<1>2. /\ ResumeInv'
      /\ Frames' = [Frames EXCEPT ![Top] = FrameAt(TopMode(pc', res', b.status), b, res')]
  BY <1>1, LocalResume
<1>3. Frames[Top] = FrameAt(TopMode(pc, res, act[Top].status), act[Top], res)
  BY <1>1, TopState
<1>4. Frames' = Frames
  BY <1>2, <1>3 DEF Frames
<1>5. Over' = Over
  BY <1>1, LocalOver
<1> QED BY <1>2, <1>4, <1>5 DEF Resumes, Uninterrupted!uvars

\* The top action before a step: its mode by what Perform does next
LEMMA PerformModes ==
    ASSUME NEW a, a \in ActionState, NEW r
    PROVE  /\ a.status \in {"start", "repeat", "breakstarthit", "end"} => TopMode("perform", r, a.status) = "enter"
           /\ a.status = "mid" => TopMode("perform", r, a.status) = "apply"
           /\ a.status = "actionbreak" => TopMode("perform", r, a.status) = "check"
  BY StoppedModes DEF TopMode

\* Perform of an action that goes on to Apply: at a start breakpoint nothing happens,
\* back in the middle of an Apply nothing either; else a round begins.
LEMMA PerformResumes ==
    ASSUME ActionTreeAssumption, TreeAssumption, IndInv, ResumeInv, Perform
    PROVE  Resumes
<1> DEFINE n == Top
           c == act[n]
           a == IF c.status = "start" THEN [c EXCEPT !.count = 0] ELSE c
           stop == a.status = "start" /\ StartBreak(n)
           halt == [a EXCEPT !.status = StatusAtStartBreak]
           go == [BeforeApply(a) EXCEPT !.state = IF a.status = "mid" THEN @ ELSE 1]
           q == IF n \in Leaf THEN "leaf" ELSE IF n = Root THEN "restart" ELSE "group"
<1>1. pc = "perform" /\ pc \notin {"idle", "finished"} /\ UNCHANGED <<starts, fd, stack, plan, asks, trace, script>>
  BY DEF Perform, host
<1>2. /\ a.status \notin {"end", "actionbreak"}
      /\ stop => act' = [act EXCEPT ![n] = halt] /\ pc' = "return" /\ res' = -1
      /\ ~stop => act' = [act EXCEPT ![n] = go] /\ pc' = q /\ res' = res
  BY DEF Perform, Return
<1>3. /\ n \in Node /\ c \in ActionState /\ TopOK(n, pc, res, c)
      /\ Frames[n] = FrameAt(TopMode(pc, res, c.status), c, res)
      /\ KidsOut(act, n) => \A m : TopMode(pc, res, c.status) = m => Uninterrupted!Moves(n, m)
  BY <1>1, TopState
<1>4. /\ a \in ActionState /\ a.status = c.status /\ a.state = c.state /\ a.lcount = c.lcount
      /\ a.count = IF c.status = "start" THEN 0 ELSE c.count
  BY <1>3 DEF ActionState
<1>5. c.status \in {"start", "breakstarthit", "repeat", "mid"} /\ c.status # "end"
  BY <1>2, <1>3, <1>4 DEF ActionState
<1>6. /\ c.status # "mid" => TopMode(pc, res, c.status) = "enter"
      /\ c.status = "mid" => TopMode(pc, res, c.status) = "apply"
  BY <1>1, <1>3, <1>5, PerformModes
<1>7. c.status # "mid" => KidsOut(act, n)
  BY <1>1, <1>6, TopKids
<1>8. c.status = "breakstarthit" => c.count = 0
  <2>1. /\ stack \in Seq(Node) /\ stack # <<>> /\ Distinct(stack) /\ n = Last(stack)
        /\ FreshEntry(stack, pc, res, act)
    BY <1>1, TopState DEF ResumeInv, PathOK
  <2>2. Mode(stack, pc, res, act, n) = TopMode(pc, res, c.status)
    BY <1>1, <2>1, OnFacts DEF Mode
  <2> QED BY <1>3, <1>6, <2>1, <2>2 DEF FreshEntry
<1> HIDE DEF a, c, n
<1>9. CASE stop
  <2>1. /\ halt \in ActionState /\ halt.status = "breakstarthit" /\ halt.count = 0 /\ c.status = "start"
    BY <1>4, <1>9 DEF ActionState, StatusAtStartBreak
  <2>2. TopMode(pc', res', halt.status) = "enter"
    BY <1>2, <1>9, <2>1, StoppedModes DEF TopMode
  <2>3. TopOK(n, pc', res', halt)
    BY <1>2, <1>9, <2>1, StoppedModes DEF TopOK
  <2> HIDE DEF halt
  <2>4. FrameAt("enter", halt, res') = FrameAt("enter", c, res)
    <3>1. FrameAt("enter", halt, res') = Uninterrupted!Frame("enter", 1, 0, 0)
      BY <2>1, FrameFacts
    <3>2. FrameAt("enter", c, res) = Uninterrupted!Frame("enter", 1, 0, 0)
      BY <2>1, FrameFacts
    <3> QED BY <3>1, <3>2
  <2>5. {pc, pc'} \cap {"idle", "finished"} = {}
    BY <1>1, <1>2, <1>9
  <2>6. act' = [act EXCEPT ![Top] = halt] /\ KidsOut(act, Top) /\ TopOK(Top, pc', res', halt)
    BY <1>2, <1>7, <1>9, <2>1, <2>3 DEF n
  <2>7. /\ act[Top].status # "end"
        /\ FrameAt(TopMode(pc', res', halt.status), halt, res')
             = FrameAt(TopMode(pc, res, act[Top].status), act[Top], res)
    BY <1>6, <2>1, <2>2, <2>4 DEF n, c
  <2>8. halt.status # "end" /\ halt.count = 0
    BY <2>1
  <2> QED BY <1>1, <2>1, <2>5, <2>6, <2>7, <2>8, LocalStutter
<1>10. ASSUME ~stop
       PROVE  /\ go \in ActionState /\ go.status = c.status
              /\ c.status = "mid" => go = c
              /\ c.status # "mid" => go.state = 1 /\ go.count = a.count /\ go.lcount = a.count
              /\ TopMode(pc', res', go.status) = "apply"
              /\ TopOK(n, pc', res', go)
              /\ {pc, pc'} \cap {"idle", "finished"} = {}
  <2>0. PICK one \in Nat \ {0} : one = 1
    OBVIOUS
  <2>1. CASE c.status = "mid"
    <3>1. a = c
      BY <2>1 DEF a
    <3>2. go = c
      BY <1>3, <2>1, <3>1 DEF BeforeApply, ActionState
    <3> QED BY <1>1, <1>2, <1>3, <1>10, <2>1, <3>2 DEF TopMode, TopOK
  <2>2. CASE c.status # "mid"
    <3>1. go = [[a EXCEPT !.lcount = a.count] EXCEPT !.state = one]
      BY <1>4, <2>0, <2>2 DEF BeforeApply
    <3>2. /\ go \in ActionState /\ go.status = c.status
          /\ go.state = 1 /\ go.count = a.count /\ go.lcount = a.count
      BY Zenon, <1>4, <2>0, <3>1 DEF ActionState
    <3> HIDE DEF go
    <3> QED BY <1>1, <1>2, <1>5, <1>10, <2>2, <3>2 DEF TopMode, TopOK
  <2> QED BY <2>1, <2>2
<1>11. CASE ~stop /\ c.status = "mid"
  <2>1. act' = [act EXCEPT ![Top] = c] /\ res' = res /\ c \in ActionState
    BY <1>2, <1>3, <1>10, <1>11 DEF n
  <2>2. /\ TopMode(pc', res', c.status) = "apply" /\ c.state = act[Top].state
        /\ TopOK(Top, pc', res', c) /\ {pc, pc'} \cap {"idle", "finished"} = {}
    BY <1>10, <1>11 DEF n, c
  <2>3. /\ c.status # "end" /\ act[Top].status # "end"
        /\ FrameAt(TopMode(pc', res', c.status), c, res')
             = FrameAt(TopMode(pc, res, act[Top].status), act[Top], res)
    BY <1>6, <1>11, <2>1, <2>2 DEF n, c
  <2> QED BY <1>1, <2>1, <2>2, <2>3, LocalStutter
<1>12. CASE ~stop /\ c.status # "mid"
  <2> DEFINE f == FrameAt("apply", go, res')
  <2>1. /\ go \in ActionState /\ go.status = c.status /\ TopMode(pc', res', go.status) = "apply"
        /\ go.state = 1 /\ go.count = a.count /\ go.lcount = a.count
        /\ TopOK(n, pc', res', go) /\ {pc, pc'} \cap {"idle", "finished"} = {}
        /\ act' = [act EXCEPT ![n] = go] /\ KidsOut(act, n)
    BY <1>2, <1>7, <1>10, <1>12
  <2> HIDE DEF go
  <2>2. ResumeInv' /\ Frames' = [Frames EXCEPT ![Top] = f]
    <3>1. /\ act' = [act EXCEPT ![Top] = go] /\ KidsOut(act, Top) /\ TopOK(Top, pc', res', go)
          /\ stack' = stack /\ (starts' = -1 => starts = -1)
          /\ ~(TopMode(pc', res', go.status) = "enter")
      BY <1>1, <2>1 DEF n
    <3> QED BY <2>1, <3>1, LocalResume
  <2>3. Over' = Over /\ Top \notin Over
    <3>1. act' = [act EXCEPT ![Top] = go] /\ act[Top].status # "end" /\ go.status # "end"
      BY <1>5, <2>1 DEF n, c
    <3> QED BY <1>1, <2>1, <3>1, LocalOver
  <2>4. Frames[n] = FrameAt("enter", c, res) /\ Uninterrupted!Moves(n, "enter")
    BY <1>3, <1>6, <1>12, <2>1
  <2>5. Frames[n].count = a.count
    <3>1. Frames[n].count = IF c.status = "repeat" THEN c.count ELSE 0
      BY <2>4, FrameFacts DEF Uninterrupted!Frame
    <3> QED BY <1>4, <1>5, <1>8, <1>12, <3>1
  <2>6. f = Uninterrupted!Frame("apply", 1, Frames[n].count, Frames[n].count)
    BY <2>1, <2>5, FrameFacts
  <2>7. Uninterrupted!Enter(n)
    BY <1>1, <2>2, <2>3, <2>4, <2>6 DEF n, Uninterrupted!Enter
  <2> QED BY <1>3, <2>2, <2>7 DEF Resumes, Uninterrupted!Next
<1> QED BY <1>9, <1>11, <1>12

\* An action that is done is skipped.
LEMMA PerformEndResumes ==
    ASSUME ActionTreeAssumption, TreeAssumption, IndInv, ResumeInv, PerformEnd
    PROVE  Resumes
<1> DEFINE c == act[Top]
<1>1. /\ pc = "perform" /\ c.status = "end" /\ res' = 0 /\ pc' = "return"
      /\ UNCHANGED <<act, brk, starts, fd, stack, plan, asks, trace, script>>
  BY DEF PerformEnd, Return, host
<1>2. /\ Top \in Node /\ c \in ActionState /\ act \in [Node -> ActionState]
      /\ Frames[Top] = FrameAt(TopMode(pc, res, c.status), c, res)
      /\ KidsOut(act, Top) => \A m : TopMode(pc, res, c.status) = m => Uninterrupted!Moves(Top, m)
  BY <1>1, TopState
<1>3. TopMode(pc, res, c.status) = "enter" /\ TopMode(pc', res', c.status) = "return"
  BY <1>1, <1>2, PerformModes DEF TopMode
<1>4. KidsOut(act, Top)
  BY <1>1, <1>3, TopKids
<1>5. TopOK(Top, pc', res', c)
  BY <1>1 DEF TopOK
<1>6. act' = [act EXCEPT ![Top] = c] /\ {pc, pc'} \cap {"idle", "finished"} = {}
  BY <1>1, <1>2
<1> HIDE DEF c
<1>7. ResumeInv' /\ Frames' = [Frames EXCEPT ![Top] = FrameAt("return", c, 0)]
  BY Zenon, <1>1, <1>2, <1>3, <1>4, <1>5, <1>6, LocalResume
<1>8. Top \in Over /\ Over' = Over
  BY <1>1, <1>2 DEF Over, c
<1>9. Uninterrupted!Skip(Top)
  <2>1. FrameAt("return", c, 0) = Uninterrupted!Frame("return", 1, 0, 0)
    BY FrameFacts
  <2> QED BY <1>1, <1>2, <1>3, <1>4, <1>7, <1>8, <2>1 DEF Uninterrupted!Skip
<1> QED BY <1>2, <1>7, <1>9 DEF Resumes, Uninterrupted!Next

\* An action that stopped after its Apply is where it was.
LEMMA PerformBreakResumes ==
    ASSUME ActionTreeAssumption, TreeAssumption, IndInv, ResumeInv, PerformBreak
    PROVE  Resumes
<1> DEFINE c == act[Top]
<1>1. /\ pc = "perform" /\ c.status = "actionbreak" /\ pc' = "tail"
      /\ UNCHANGED <<act, brk, starts, fd, stack, res, plan, asks, trace, script>>
  BY DEF PerformBreak, host
<1>2. Top \in Node /\ c \in ActionState /\ act \in [Node -> ActionState]
  BY <1>1, TopState
<1>3. TopMode(pc, res, c.status) = "check" /\ TopMode(pc', res', c.status) = "check"
  BY <1>1, <1>2, PerformModes DEF TopMode
<1>4. KidsOut(act, Top)
  BY <1>1, <1>3, TopKids
<1>5. TopOK(Top, pc', res', c)
  BY <1>1 DEF TopOK
<1>6. act' = [act EXCEPT ![Top] = c] /\ {pc, pc'} \cap {"idle", "finished"} = {} /\ res' = res
  BY <1>1, <1>2
<1>7. FrameAt(TopMode(pc', res', c.status), c, res') = FrameAt(TopMode(pc, res, act[Top].status), act[Top], res)
  BY <1>3, <1>6
<1>8. act[Top].status # "end" /\ c.status # "end"
  BY <1>1
<1> HIDE DEF c
<1> QED BY <1>1, <1>2, <1>3, <1>4, <1>5, <1>6, <1>7, <1>8, LocalStutter

\* So is one that stops there.
LEMMA AfterResumes ==
    ASSUME ActionTreeAssumption, TreeAssumption, IndInv, ResumeInv, After
    PROVE  Resumes
<1> DEFINE c == act[Top]
           stop == act[Top].lcount < act[Top].count /\ ActionBreak(Top)
           b == IF stop THEN [act[Top] EXCEPT !.status = "actionbreak"] ELSE act[Top]
<1>1. /\ pc = "after"
      /\ stop => act' = SetStatus(Top, "actionbreak") /\ res' = -1 /\ pc' = "return"
      /\ ~stop => pc' = "tail" /\ act' = act /\ res' = res
      /\ UNCHANGED <<starts, fd, stack, plan, asks, trace, script>>
  BY DEF After, Return, host
<1>2. Top \in Node /\ c \in ActionState /\ act \in [Node -> ActionState] /\ TopOK(Top, pc, res, c)
  BY <1>1, TopState
<1>3. c.status # "end" /\ TopMode(pc, res, c.status) = "check"
  BY <1>1, <1>2 DEF TopOK, TopMode
<1>4. KidsOut(act, Top)
  BY <1>1, <1>3, TopKids
<1>5. /\ b \in ActionState /\ b.status # "end" /\ act' = [act EXCEPT ![Top] = b]
      /\ b.state = c.state /\ b.count = c.count /\ b.lcount = c.lcount /\ b.status # "end"
  <2>1. CASE stop
    BY <1>1, <1>2, <2>1 DEF ActionState, SetStatus
  <2>2. CASE ~stop
    BY <1>1, <1>2, <1>3, <2>2
  <2> QED BY <2>1, <2>2
<1>6. /\ TopMode(pc', res', b.status) = "check" /\ TopOK(Top, pc', res', b)
      /\ {pc, pc'} \cap {"idle", "finished"} = {}
  <2>1. CASE stop
    <3>1. b.status = "actionbreak"
      BY <1>2, <2>1 DEF ActionState
    <3> HIDE DEF b
    <3> QED BY <1>1, <2>1, <3>1, StoppedModes DEF TopMode, TopOK
  <2>2. CASE ~stop
    BY <1>1, <1>3, <2>2 DEF TopMode, TopOK
  <2> QED BY <2>1, <2>2
<1> HIDE DEF b, stop
<1>7. FrameAt(TopMode(pc', res', b.status), b, res') = FrameAt(TopMode(pc, res, c.status), c, res)
  <2>1. FrameAt("check", b, res') = Uninterrupted!Frame("check", b.state, b.count, b.lcount)
    BY FrameFacts
  <2> HIDE DEF c
  <2>2. FrameAt("check", c, res) = Uninterrupted!Frame("check", c.state, c.count, c.lcount)
    BY FrameFacts
  <2> QED BY <1>3, <1>5, <1>6, <2>1, <2>2
<1> QED BY <1>1, <1>3, <1>4, <1>5, <1>6, <1>7, LocalStutter

\* A round ends: another one, or the action is left.
LEMMA PerformTailResumes ==
    ASSUME ActionTreeAssumption, TreeAssumption, IndInv, ResumeInv, PerformTail
    PROVE  Resumes
<1> DEFINE n == Top
           c == act[n]
           again == c.lcount < c.count /\ "repeat" \in Flags[n]
           done == "once" \in Flags[n] \/ ("oneact" \in Flags[n] /\ c.count > 0)
           st == IF again THEN "repeat" ELSE StatusAtEnd(n, c.count)
           b == [c EXCEPT !.status = st]
<1>1. /\ pc = "tail" /\ act' = SetStatus(n, st)
      /\ again => pc' = "perform" /\ res' = res
      /\ ~again => pc' = "return" /\ res' = c.count
      /\ UNCHANGED <<starts, fd, stack, plan, asks, trace, script>>
  BY DEF PerformTail, Return, host
<1>2. /\ n \in Node /\ c \in ActionState /\ act \in [Node -> ActionState] /\ TopOK(n, pc, res, c)
      /\ Frames[n] = FrameAt(TopMode(pc, res, c.status), c, res)
      /\ KidsOut(act, n) => \A m : TopMode(pc, res, c.status) = m => Uninterrupted!Moves(n, m)
  BY <1>1, TopState
<1>3. c.status # "end" /\ TopMode(pc, res, c.status) = "check"
  BY <1>1, <1>2 DEF TopOK, TopMode
<1>4. KidsOut(act, n)
  BY <1>1, <1>3, TopKids
<1>5. st = IF again THEN "repeat" ELSE IF done THEN "end" ELSE "start"
  BY DEF StatusAtEnd
<1> HIDE DEF st, done
<1>6. /\ b \in ActionState /\ act' = [act EXCEPT ![n] = b]
      /\ b.status = st /\ b.state = c.state /\ b.count = c.count /\ b.lcount = c.lcount
      /\ c.count \in Nat
  BY <1>1, <1>2, <1>5 DEF ActionState, SetStatus
<1> HIDE DEF b
<1>7. Frames[n] = Uninterrupted!Frame("check", c.state, c.count, c.lcount) /\ Uninterrupted!Moves(n, "check")
  <2>1. FrameAt("check", c, res) = Uninterrupted!Frame("check", c.state, c.count, c.lcount)
    <3> HIDE DEF c
    <3> QED BY FrameFacts
  <2> QED BY <1>2, <1>3, <1>4, <2>1
<1>8. /\ TopMode(pc', res', b.status) = (IF again THEN "enter" ELSE "return")
      /\ TopOK(n, pc', res', b) /\ {pc, pc'} \cap {"idle", "finished"} = {}
      /\ b.status # "breakstarthit"
  <2>1. CASE again
    <3>1. b.status = "repeat"
      BY <1>5, <1>6, <2>1
    <3> QED BY <1>1, <2>1, <3>1, StoppedModes DEF TopMode, TopOK
  <2>2. CASE ~again
    <3>1. b.status \in {"start", "end"} /\ res' \in Nat /\ pc' = "return"
      BY <1>1, <1>5, <1>6, <2>2
    <3> QED BY <1>1, <2>2, <3>1 DEF TopMode, TopOK
  <2> QED BY <2>1, <2>2
<1> DEFINE f == FrameAt(TopMode(pc', res', b.status), b, res')
<1>9. f = Uninterrupted!Frame(IF again THEN "enter" ELSE "return", 1, c.count, 0)
  <2>1. CASE again
    <3>1. b.status = "repeat"
      BY <1>5, <1>6, <2>1
    <3>2. FrameAt("enter", b, res') = Uninterrupted!Frame("enter", 1, b.count, 0)
      BY <3>1, FrameFacts
    <3> QED BY <1>6, <1>8, <2>1, <3>2
  <2>2. CASE ~again
    <3>1. FrameAt("return", b, res') = Uninterrupted!Frame("return", 1, res', 0)
      BY FrameFacts
    <3> QED BY <1>1, <1>8, <2>2, <3>1
  <2> QED BY <2>1, <2>2
<1>10. ResumeInv' /\ Frames' = [Frames EXCEPT ![n] = f]
  <2> HIDE DEF f
  <2>1. f = FrameAt(TopMode(pc', res', b.status), b, res')
    BY DEF f
  <2> HIDE DEF c
  <2> QED BY <1>1, <1>4, <1>6, <1>8, <2>1, LocalResume
<1>11. Over' = IF ~again /\ done THEN Over \cup {n} ELSE Over
  <2>1. b.status = "end" <=> ~again /\ done
    BY <1>5, <1>6
  <2>2. pc \notin {"idle", "finished"}
    BY <1>1
  <2> QED BY <1>3, <1>6, <2>1, <2>2, LocalOver
<1> HIDE DEF f, again, c, n
<1>12. Frames[n].count = c.count /\ Frames[n].before = c.lcount
  BY <1>7 DEF Uninterrupted!Frame
<1>13. Uninterrupted!EndRound(n)
  <2>1. again <=> Frames[n].before < Frames[n].count /\ "repeat" \in Flags[n]
    BY <1>12 DEF again
  <2>2. done <=> "once" \in Flags[n] \/ ("oneact" \in Flags[n] /\ Frames[n].count > 0)
    BY <1>12 DEF done
  <2>3. Frames' = [Frames EXCEPT ![n] = Uninterrupted!Frame(IF again THEN "enter" ELSE "return", 1, Frames[n].count, 0)]
    BY <1>9, <1>10, <1>12
  <2> QED BY <1>1, <1>7, <1>11, <2>1, <2>2, <2>3 DEF Uninterrupted!EndRound
<1> QED BY <1>2, <1>10, <1>13 DEF Resumes, Uninterrupted!Next

\* A leaf is applied.
LEMMA ApplyLeafResumes ==
    ASSUME ActionTreeAssumption, TreeAssumption, IndInv, ResumeInv, ApplyLeaf
    PROVE  Resumes
<1> DEFINE n == Top
           c == act[n]
           changes == plan[n] > 0
           ask == n = Asker /\ asks > 0
           b == [c EXCEPT !.count = IF changes THEN c.count + 1 ELSE c.count]
<1>1. /\ pc = "leaf" /\ pc' = "after" /\ UNCHANGED <<starts, stack, res>>
      /\ trace' = Append(trace, n)
      /\ act' = [act EXCEPT ![n].count = IF changes THEN @ + 1 ELSE @]
      /\ plan' = [plan EXCEPT ![n] = IF changes THEN plan[n] - 1 ELSE plan[n]]
      /\ asks' = IF ask THEN asks - 1 ELSE asks
      /\ fd' = [fd EXCEPT !.pending = fd.pending \/ ask]
  BY DEF ApplyLeaf
<1>2. /\ n \in Node /\ c \in ActionState /\ act \in [Node -> ActionState] /\ TopOK(n, pc, res, c)
      /\ Frames[n] = FrameAt(TopMode(pc, res, c.status), c, res)
      /\ KidsOut(act, n) => \A m : TopMode(pc, res, c.status) = m => Uninterrupted!Moves(n, m)
  BY <1>1, TopState
<1>3. c.status # "end" /\ TopMode(pc, res, c.status) = "apply"
  BY <1>1, <1>2 DEF TopOK, TopMode
<1>4. n \in Leaf /\ KidsOut(act, n)
  BY <1>1 DEF IndInv, StackInv, Leaf, KidsOut
<1>5. /\ b \in ActionState /\ act' = [act EXCEPT ![n] = b]
      /\ b.status = c.status /\ b.state = c.state /\ b.lcount = c.lcount
      /\ b.count = IF changes THEN c.count + 1 ELSE c.count
  <2>1. act' = [act EXCEPT ![n] = b]
    BY <1>1
  <2>2. PICK k \in Nat : k = IF changes THEN c.count + 1 ELSE c.count
    BY SMTT(30), <1>2 DEF ActionState
  <2>3. b = [c EXCEPT !.count = k]
    BY <2>2
  <2> HIDE DEF b, changes
  <2> QED BY <1>2, <2>1, <2>2, <2>3 DEF ActionState
<1> HIDE DEF b, changes, ask
<1>6. /\ TopMode(pc', res', b.status) = "check" /\ TopOK(n, pc', res', b)
      /\ {pc, pc'} \cap {"idle", "finished"} = {}
  BY <1>1, <1>3, <1>5 DEF TopMode, TopOK
<1>7. FrameAt("check", b, res') = Uninterrupted!Frame("check", b.state, b.count, b.lcount)
  BY FrameFacts
<1> HIDE DEF c
<1>8. Frames[n] = Uninterrupted!Frame("apply", c.state, c.count, c.lcount) /\ Uninterrupted!Moves(n, "apply")
  BY <1>2, <1>3, <1>4, FrameFacts
<1>9. /\ Frames[n].at = c.state /\ Frames[n].count = c.count /\ Frames[n].before = c.lcount
  BY <1>8 DEF Uninterrupted!Frame
<1>10. ResumeInv' /\ Frames' = [Frames EXCEPT ![n] = FrameAt("check", b, res')]
  BY <1>1, <1>4, <1>5, <1>6, LocalResume
<1>11. Over' = Over
  <2>1. pc \notin {"idle", "finished"} /\ act[Top].status # "end" /\ b.status # "end"
    BY <1>1, <1>3, <1>5 DEF c
  <2> QED BY <1>5, <2>1, LocalOver
<1>12. Frames' = [Frames EXCEPT ![n] =
           Uninterrupted!Frame("check", Frames[n].at, IF changes THEN Frames[n].count + 1 ELSE Frames[n].count,
                               Frames[n].before)]
  BY <1>5, <1>7, <1>9, <1>10
<1>13. n \in Uninterrupted!Leaf
  BY <1>4 DEF Leaf, Uninterrupted!Leaf
<1> HIDE DEF n
<1>14. Uninterrupted!ApplyLeaf(n)
  BY <1>1, <1>8, <1>11, <1>12, <1>13 DEF Uninterrupted!ApplyLeaf, changes, ask
<1> QED BY <1>2, <1>10, <1>14 DEF Resumes, Uninterrupted!Next

\* An action whose Apply is left with nothing applied, from pc to the check of its
\* changes: its frame changes its mode.
LEMMA LocalCheck ==
    ASSUME ActionTreeAssumption, TreeAssumption, IndInv, ResumeInv,
           pc \in {"group", "restart", "restarted"}, pc' = "after", UNCHANGED <<stack, act, res>>,
           KidsOut(act, Top), starts' = -1 => starts = -1 \/ Top = Root
    PROVE  /\ ResumeInv' /\ Frames' = [Frames EXCEPT ![Top].mode = "check"] /\ Over' = Over
           /\ Top \in Node /\ Uninterrupted!Moves(Top, "apply") /\ Frames[Top].at = act[Top].state
<1> DEFINE c == act[Top]
<1>1. pc \notin {"idle", "finished"}
  OBVIOUS
<1>2. /\ Top \in Node /\ c \in ActionState /\ act \in [Node -> ActionState] /\ TopOK(Top, pc, res, c)
      /\ Frames[Top] = FrameAt(TopMode(pc, res, c.status), c, res)
      /\ KidsOut(act, Top) => \A m : TopMode(pc, res, c.status) = m => Uninterrupted!Moves(Top, m)
  BY <1>1, TopState
<1>3. /\ TopMode(pc, res, c.status) = "apply" /\ TopMode(pc', res', c.status) = "check"
      /\ TopOK(Top, pc', res', c) /\ c.status # "end"
  BY <1>2 DEF TopMode, TopOK
<1>4. act' = [act EXCEPT ![Top] = c] /\ {pc, pc'} \cap {"idle", "finished"} = {}
  BY <1>2
<1>5. Over' = Over
  BY DEF Over
<1> HIDE DEF c
<1>6. ResumeInv' /\ Frames' = [Frames EXCEPT ![Top] = FrameAt("check", c, res')]
  <2>1. stack' = stack /\ (starts' = -1 => starts = -1 \/ (Top = Root /\ KidsOut(act, Root)))
    OBVIOUS
  <2>2. ~(TopMode(pc', res', c.status) = "enter")
    BY <1>3
  <2> QED BY <1>2, <1>3, <1>4, <2>1, <2>2, LocalResume
<1>7. /\ Frames[Top] = Uninterrupted!Frame("apply", c.state, c.count, c.lcount)
      /\ FrameAt("check", c, res') = Uninterrupted!Frame("check", c.state, c.count, c.lcount)
  BY <1>2, <1>3, FrameFacts
<1>8. /\ [Frames[Top] EXCEPT !.mode = "check"] = FrameAt("check", c, res')
      /\ Frames[Top].at = c.state
  BY <1>7 DEF Uninterrupted!Frame
<1>9. Frames' = [Frames EXCEPT ![Top].mode = "check"]
  BY <1>6, <1>8
<1> QED BY <1>2, <1>3, <1>5, <1>6, <1>8, <1>9 DEF c

\* Nothing is applied after the last restart.
LEMMA ApplyRestartResumes ==
    ASSUME ActionTreeAssumption, TreeAssumption, IndInv, ResumeInv, ApplyRestart
    PROVE  Resumes
<1>1. /\ pc = "restart" /\ UNCHANGED <<act, brk, starts, fd, stack, res, plan, asks, trace, script>>
      /\ starts = -1 => pc' = "after"
      /\ starts # -1 => pc' = "group"
  BY DEF ApplyRestart, host
<1>2. Top = Root
  <2>1. stack # <<>> /\ Len(stack) = 1
    BY <1>1 DEF IndInv, StackInv
  <2> QED BY <2>1, TopFacts DEF IndInv
<1>3. CASE starts = -1
  <2>1. KidsOut(act, Top)
    BY <1>2, <1>3 DEF ResumeInv, EndOK
  <2>2. /\ ResumeInv' /\ Frames' = [Frames EXCEPT ![Top].mode = "check"] /\ Over' = Over
        /\ Uninterrupted!Moves(Top, "apply")
    BY SMTT(30), <1>1, <1>3, <2>1, LocalCheck
  <2>3. Uninterrupted!SkipRoot
    BY <1>1, <1>2, <1>3, <2>2 DEF Uninterrupted!SkipRoot
  <2> QED BY <2>2, <2>3 DEF Resumes, Uninterrupted!Next
<1>4. CASE starts # -1
  <2> DEFINE c == act[Top]
  <2>1. Top \in Node /\ c \in ActionState /\ act \in [Node -> ActionState] /\ TopOK(Top, pc, res, c)
    BY <1>1, TopState
  <2>2. /\ TopMode(pc, res, c.status) = "apply" /\ TopMode(pc', res', c.status) = "apply"
        /\ TopOK(Top, pc', res', c) /\ c.status # "end"
    BY <1>1, <1>2, <1>4, <2>1 DEF TopMode, TopOK, Leaf
  <2>3. act' = [act EXCEPT ![Top] = c] /\ {pc, pc'} \cap {"idle", "finished"} = {}
    BY <1>1, <1>4, <2>1
  <2>4. FrameAt(TopMode(pc', res', c.status), c, res') = FrameAt(TopMode(pc, res, act[Top].status), act[Top], res)
    BY <1>1, <2>2
  <2>5. act[Top].status # "end" /\ c.state = act[Top].state
    BY <2>2
  <2> HIDE DEF c
  <2> QED BY <1>1, <2>1, <2>2, <2>3, <2>4, <2>5, LocalStutter
<1> QED BY <1>3, <1>4

\* A group has performed its children.
LEMMA GroupEndResumes ==
    ASSUME ActionTreeAssumption, TreeAssumption, IndInv, ResumeInv, ApplyGroup,
           ~HasNext(act, Top)
    PROVE  Resumes
<1> DEFINE c == act[Top]
<1>1. /\ pc = "group" /\ pc' = (IF Top = Root THEN "restarted" ELSE "after")
      /\ UNCHANGED <<act, brk, starts, fd, stack, res, plan, asks, trace, script>>
  BY DEF ApplyGroup, HasNext, host
<1>2. Top \in Node /\ c \in ActionState /\ act \in [Node -> ActionState] /\ TopOK(Top, pc, res, c)
  BY <1>1, TopState
<1>3. c.state > Len(Kids[Top])
  <2>1. Kids[Top] \in Seq(Node \ {Root}) /\ c.state \in Nat
    BY <1>2 DEF ActionTreeAssumption, ActionState
  <2>2. Len(Kids[Top]) \in Nat
    BY <2>1, LenProperties
  <2> QED BY <2>1, <2>2 DEF HasNext
<1>4. KidsOut(act, Top)
  BY <1>1, <1>3, TopKids
<1>5. CASE Top # Root
  <2>1. /\ ResumeInv' /\ Frames' = [Frames EXCEPT ![Top].mode = "check"] /\ Over' = Over
        /\ Top \in Node /\ Uninterrupted!Moves(Top, "apply") /\ Frames[Top].at = act[Top].state
    BY <1>1, <1>4, <1>5, LocalCheck
  <2>2. Top \notin Uninterrupted!Leaf \cup {Root}
    BY <1>1, <1>2, <1>5 DEF TopOK, Leaf, Uninterrupted!Leaf
  <2>3. Uninterrupted!EndGroup(Top)
    BY <1>1, <1>3, <2>1, <2>2 DEF Uninterrupted!EndGroup
  <2> QED BY <2>1, <2>3 DEF Resumes, Uninterrupted!Next
<1>6. CASE Top = Root
  <2>1. /\ TopMode(pc, res, c.status) = "apply" /\ TopMode(pc', res', c.status) = "apply"
        /\ TopOK(Top, pc', res', c) /\ c.status # "end"
    BY <1>1, <1>2, <1>3, <1>6 DEF TopMode, TopOK
  <2>2. act' = [act EXCEPT ![Top] = c] /\ {pc, pc'} \cap {"idle", "finished"} = {}
    BY <1>1, <1>2, <1>6
  <2>3. FrameAt(TopMode(pc', res', c.status), c, res') = FrameAt(TopMode(pc, res, act[Top].status), act[Top], res)
    BY <1>1, <2>1
  <2>4. act[Top].status # "end" /\ c.state = act[Top].state
    BY <2>1
  <2> HIDE DEF c
  <2> QED BY <1>1, <1>2, <1>4, <2>1, <2>2, <2>3, <2>4, LocalStutter
<1> QED BY <1>5, <1>6

\* t is the stack stk with one more action.
Pushed(stk, k, t) ==
    /\ t \in Seq(Node) /\ t # <<>> /\ t[1] = stk[1] /\ Last(t) = k
    /\ Len(t) = Len(stk) + 1 /\ t[Len(stk) + 1] = k
    /\ \A i \in 1..Len(stk) : t[i] = stk[i]
    /\ \A m : Under(t, m) <=> On(stk, m)
    /\ \A m : On(t, m) <=> On(stk, m) \/ m = k

\* A stack with one more action
LEMMA PushFacts ==
    ASSUME NEW stk \in Seq(Node), stk # <<>>, NEW k \in Node
    PROVE  Pushed(stk, k, Append(stk, k))
<1> DEFINE t == Append(stk, k)
<1>1. PICK d \in Nat : d = Len(stk) /\ d >= 1
  BY StackFacts
<1>2. /\ t \in Seq(Node) /\ Len(t) = d + 1 /\ t[d + 1] = k
      /\ \A i \in 1..d : t[i] = stk[i]
  BY <1>1, AppendProperties
<1> HIDE DEF t
<1>3. t # <<>> /\ Last(t) = t[Len(t)]
  <2>1. Len(t) # 0
    BY <1>1, <1>2
  <2> QED BY <1>2, <2>1, StackFacts, EmptySeq
<1>4. 1 \in 1..d /\ d + 1 - 1 = d /\ d + 1 \in 1..(d + 1) /\ \A i \in 1..(d + 1) : i \in 1..d \/ i = d + 1
  BY <1>1
<1>5. \A i \in 1..d : i \in 1..(d + 1)
  BY <1>1
<1>6. \A m : Under(t, m) <=> On(stk, m)
  BY <1>1, <1>2, <1>4 DEF Under, On
<1>7. \A m : On(t, m) <=> On(stk, m) \/ m = k
  BY <1>1, <1>2, <1>4, <1>5 DEF On
<1>8. Pushed(stk, k, t)
  BY <1>1, <1>2, <1>3, <1>4, <1>6, <1>7 DEF Pushed
<1> QED BY <1>8 DEF t

\* A stack without its top
LEMMA PopFacts ==
    ASSUME NEW stk \in Seq(Node), Distinct(stk), Len(stk) >= 2, NEW t, t = Front(stk)
    PROVE  /\ t \in Seq(Node) /\ t # <<>> /\ t[1] = stk[1] /\ Last(t) = stk[Len(stk) - 1]
           /\ Len(t) = Len(stk) - 1 /\ Len(stk) - 1 \in 1..(Len(stk) - 1)
           /\ \A i \in 1..Len(t) : t[i] = stk[i]
           /\ \A m : On(t, m) <=> Under(stk, m)
           /\ \A m : On(t, m) <=> On(stk, m) /\ m # Last(stk)
           /\ Distinct(t)
<1>1. PICK d \in Nat : d = Len(stk) /\ d >= 2
  BY LenProperties
<1>2. stk # <<>> /\ 1 \in 1..(d - 1) /\ d - 1 \in 1..(d - 1) /\ \A i \in 1..(d - 1) : i \in 1..d
  BY <1>1, EmptySeq
<1>3. /\ t \in Seq(Node) /\ Len(t) = d - 1 /\ t # <<>>
      /\ \A i \in 1..(d - 1) : t[i] = stk[i]
  <2>1. /\ Front(stk) \in Seq(Node) /\ Len(Front(stk)) = Len(stk) - 1
        /\ \A i \in 1..(Len(stk) - 1) : Front(stk)[i] = stk[i]
        /\ Front(stk) = <<>> <=> Len(stk) = 1
    BY <1>2, StackFacts
  <2> QED BY <1>1, <2>1
<1>4. Last(t) = t[d - 1]
  BY Zenon, <1>3, StackFacts
<1>5. \A m : On(t, m) <=> Under(stk, m)
  BY <1>1, <1>3 DEF On, Under
<1>6. \A m : On(t, m) <=> On(stk, m) /\ m # Last(stk)
  BY <1>2, <1>5, OnFacts
<1>7. Distinct(t)
  BY SMTT(30), <1>1, <1>2, <1>3 DEF Distinct
<1> QED BY <1>1, <1>2, <1>3, <1>4, <1>5, <1>6, <1>7

\* The top group n performs its child k: only where k is changes.
PushOnly(stk, r, ac, n, k) ==
    /\ k \in Node /\ k # n /\ PathOK(Append(stk, k), "perform", r, ac)
    /\ \A m \in Node : m # k => Mode(Append(stk, k), "perform", r, ac, m) = Mode(stk, "group", r, ac, m)
    /\ Mode(stk, "group", r, ac, k) = Stopped(ac[k].status)
    /\ Mode(Append(stk, k), "perform", r, ac, k) = TopMode("perform", r, ac[k].status)
    /\ ac[k].status # "repeat"
    /\ Stopped(ac[k].status) # "out" => TopMode("perform", r, ac[k].status) = Stopped(ac[k].status)

\* A group performs the child k it is at.
LEMMA PushStep ==
    ASSUME ActionTreeAssumption, TreeAssumption,
           NEW stk \in Seq(Node), stk # <<>>, stk[1] = Root, NEW r, NEW ac \in [Node -> ActionState],
           PathOK(stk, "group", r, ac), NEW n, n = Last(stk), ac[n].status # "end", HasNext(ac, n),
           NEW k, k = Kids[n][ac[n].state]
    PROVE  PushOnly(stk, r, ac, n, k)
<1> DEFINE t == Append(stk, k)
<1> DEFINE p == "group"
           q == "perform"
<1>0. p \notin {"idle", "finished"} /\ q \notin {"idle", "finished"} /\ PathOK(stk, p, r, ac)
  OBVIOUS
<1>1. /\ Distinct(stk) /\ Chain(stk, ac) /\ RepeatOn(stk, ac)
      /\ StoppedIn(stk, p, r, ac) /\ FreshEntry(stk, p, r, ac)
  BY DEF PathOK
<1>2. /\ n \in Node /\ ~Under(stk, n) /\ On(stk, n) /\ \A m : On(stk, m) <=> Under(stk, m) \/ m = n
  BY <1>1, OnFacts
<1>3. /\ Len(Kids[n]) \in Nat /\ ac[n].state \in 1..Len(Kids[n])
  <2>1. Kids[n] \in Seq(Node \ {Root}) /\ ac[n] \in ActionState
    BY <1>2 DEF ActionTreeAssumption
  <2>2. Len(Kids[n]) \in Nat /\ ac[n].state \in Nat \ {0}
    BY <2>1, LenProperties DEF ActionState
  <2> QED BY SMTT(30), <2>2 DEF HasNext
<1>4. k \in Node /\ ~On(stk, k) /\ k # n
  BY Zenon, <1>0, <1>2, <1>3, KidsFacts
<1>5. /\ t \in Seq(Node) /\ t # <<>> /\ t[1] = stk[1] /\ Last(t) = k
      /\ Len(t) = Len(stk) + 1 /\ t[Len(stk) + 1] = k
      /\ \A i \in 1..Len(stk) : t[i] = stk[i]
      /\ \A m : Under(t, m) <=> On(stk, m)
      /\ \A m : On(t, m) <=> On(stk, m) \/ m = k
  <2>1. Pushed(stk, k, t)
    BY <1>4, PushFacts
  <2> QED BY <2>1 DEF Pushed
<1>6. PICK d \in Nat : d = Len(stk) /\ d >= 1 /\ stk[d] = n
  BY Zenon, StackFacts
<1> DEFINE old(m) == Mode(stk, p, r, ac, m)
           new(m) == Mode(t, q, r, ac, m)
<1>7. TopMode(p, r, ac[n].status) = "apply"
  BY DEF TopMode
<1>8. \A m : /\ On(stk, m) => old(m) = "apply" /\ new(m) = "apply"
             /\ ~On(stk, m) /\ m # k => old(m) = Stopped(ac[m].status) /\ new(m) = Stopped(ac[m].status)
  <2>1. \A m : On(stk, m) => old(m) = "apply"
    BY <1>0, <1>2, <1>7 DEF Mode
  <2>2. \A m : On(stk, m) => new(m) = "apply"
    BY <1>5 DEF Mode
  <2>3. \A m : ~On(stk, m) => old(m) = Stopped(ac[m].status)
    BY <1>0, <1>2 DEF Mode
  <2>4. \A m : ~On(stk, m) /\ m # k => new(m) = Stopped(ac[m].status)
    BY SMTT(30), <1>0, <1>5 DEF Mode
  <2> QED BY <2>1, <2>2, <2>3, <2>4
<1>9. old(k) = Stopped(ac[k].status) /\ new(k) = TopMode(q, r, ac[k].status)
  BY <1>0, <1>2, <1>4, <1>5 DEF Mode
<1>10. \A m \in Node : m # k => new(m) = old(m)
  BY <1>8
<1>11. Stopped(ac[k].status) # "out" => TopMode(q, r, ac[k].status) = Stopped(ac[k].status)
  BY DEF TopMode
<1>12. ac[k].status # "repeat"
  BY <1>1, <1>4 DEF RepeatOn
<1> HIDE DEF p, q, t, old, new
<1>13. Distinct(t)
  <2>1. \A i \in 1..d : t[i] = stk[i] /\ t[i] # k
    BY <1>4, <1>5, <1>6 DEF On
  <2>2. t[d + 1] = k /\ Len(t) = d + 1 /\ \A i \in 1..(d + 1) : i \in 1..d \/ i = d + 1
    BY <1>5, <1>6
  <2>3. \A i, j \in 1..d : stk[i] = stk[j] => i = j
    BY <1>1, <1>6 DEF Distinct
  <2> QED BY Zenon, <2>1, <2>2, <2>3 DEF Distinct
<1>14. Chain(t, ac)
  <2>1. Len(t) - 1 = d /\ t[d + 1] = k /\ t[d] = n
    BY <1>5, <1>6
  <2>2. ASSUME NEW i \in 1..d
        PROVE  HasNext(ac, t[i]) /\ t[i + 1] = Kids[t[i]][ac[t[i]].state] /\ ac[t[i]].status # "end"
    <3>1. CASE i = d
      BY <2>1, <3>1
    <3>2. CASE i # d
      <4>1. i \in 1..(Len(stk) - 1) /\ i \in 1..Len(stk) /\ i + 1 \in 1..Len(stk)
        BY <1>6, <3>2
      <4>2. t[i] = stk[i] /\ t[i + 1] = stk[i + 1]
        BY <1>5, <4>1
      <4> QED BY <1>1, <4>1, <4>2 DEF Chain
    <3> QED BY <3>1, <3>2
  <2> QED BY <2>1, <2>2 DEF Chain
<1>15. RepeatOn(t, ac)
  BY <1>1, <1>5 DEF RepeatOn
<1>16. FreshEntry(t, q, r, ac)
  <2>1. ASSUME NEW m \in Node, new(m) = "enter", ac[m].status = "breakstarthit" PROVE old(m) = "enter"
    <3>1. CASE m = k
      BY <1>9, <2>1, <3>1, StoppedModes
    <3> QED BY <1>10, <2>1, <3>1
  <2> QED BY <1>1, <2>1 DEF FreshEntry, old, new
<1>17. ASSUME NEW m \in Node \ {Root}, Stopped(ac[m].status) # "out", ~On(t, m)
       PROVE  \E g \in Node : /\ HasNext(ac, g) /\ Kids[g][ac[g].state] = m
                              /\ ~Under(t, g) /\ new(g) = "apply"
  <2>1. ~On(stk, m) /\ m # k
    BY <1>5, <1>17
  <2>2. PICK g \in Node : /\ HasNext(ac, g) /\ Kids[g][ac[g].state] = m
                          /\ ~Under(stk, g) /\ old(g) = "apply"
    BY <1>1, <1>17, <2>1 DEF StoppedIn, old
  <2>3. g # n
    BY <2>1, <2>2
  <2>4. ~Under(t, g)
    BY <1>2, <1>5, <2>2, <2>3
  <2>5. new(g) = "apply"
    <3>1. CASE g = k
      BY <1>9, <1>11, <2>2, <3>1
    <3> QED BY SMTT(30), <1>10, <2>2, <3>1
  <2> QED BY <2>2, <2>4, <2>5
<1>18. PathOK(t, q, r, ac)
  BY <1>13, <1>14, <1>15, <1>16, <1>17 DEF PathOK, StoppedIn, new
<1> QED BY <1>4, <1>9, <1>10, <1>11, <1>12, <1>18 DEF PushOnly, old, new, p, q, t

\* The top action n returns r to the group g below it, which goes on from there.
PopChange(stk, r, ac, q, s, bc, n, g) ==
    /\ stk \in Seq(Node) /\ Len(stk) >= 2 /\ n = Last(stk) /\ g = Last(Front(stk))
    /\ ac \in [Node -> ActionState] /\ bc \in [Node -> ActionState]
    /\ \A m \in Node : m # g => bc[m] = ac[m]
    /\ PathOK(stk, "return", r, ac) /\ TopOK(n, "return", r, ac[n])
    /\ r = -1 => bc[g].state = ac[g].state
    /\ q \notin {"idle", "finished"} /\ TopMode(q, s, bc[g].status) = "apply"

\* Only where n is changes.
PopOnly(stk, r, ac, q, s, bc, n, g) ==
    /\ PathOK(Front(stk), q, s, bc)
    /\ n \in Node /\ g \in Node /\ g # n
    /\ HasNext(ac, g) /\ Kids[g][ac[g].state] = n /\ ac[g].status # "end"
    /\ Mode(stk, "return", r, ac, g) = "apply" /\ Mode(Front(stk), q, s, bc, g) = "apply"
    /\ Mode(stk, "return", r, ac, n) = TopMode("return", r, ac[n].status)
    /\ Mode(Front(stk), q, s, bc, n) = Stopped(ac[n].status)
    /\ \A m \in Node : m # n => Mode(Front(stk), q, s, bc, m) = Mode(stk, "return", r, ac, m)
                                /\ Mode(stk, "return", r, ac, m) # "return"

\* An action returns to the group that performed it.
LEMMA PopStep ==
    ASSUME ActionTreeAssumption, TreeAssumption, NEW stk, NEW r \in Nat \cup {-1}, NEW ac, NEW q, NEW s, NEW bc,
           NEW n, NEW g, PopChange(stk, r, ac, q, s, bc, n, g)
    PROVE  PopOnly(stk, r, ac, q, s, bc, n, g)
<1> USE DEF PopChange
<1> DEFINE t == Front(stk)
           p == "return"
           old(m) == Mode(stk, p, r, ac, m)
           new(m) == Mode(t, q, s, bc, m)
<1>0. p \notin {"idle", "finished"} /\ stk # <<>>
  BY EmptySeq
<1>1. /\ Distinct(stk) /\ Chain(stk, ac) /\ RepeatOn(stk, ac)
      /\ StoppedIn(stk, p, r, ac) /\ FreshEntry(stk, p, r, ac)
  BY DEF PathOK
<1>2. /\ n \in Node /\ ~Under(stk, n) /\ On(stk, n) /\ \A m : On(stk, m) <=> Under(stk, m) \/ m = n
  BY <1>0, <1>1, OnFacts
<1>3. /\ t \in Seq(Node) /\ t # <<>> /\ Last(t) = stk[Len(stk) - 1]
      /\ Len(t) = Len(stk) - 1 /\ Len(stk) - 1 \in 1..(Len(stk) - 1)
      /\ \A i \in 1..Len(t) : t[i] = stk[i]
      /\ \A m : On(t, m) <=> Under(stk, m)
      /\ \A m : On(t, m) <=> On(stk, m) /\ m # n
      /\ Distinct(t)
  BY <1>1, PopFacts
<1>4. g \in Node /\ ~Under(t, g) /\ On(t, g) /\ \A m : On(t, m) <=> Under(t, m) \/ m = g
  BY <1>3, OnFacts
<1>5. Under(stk, g) /\ g # n
  BY <1>2, <1>3, <1>4
<1>6. PICK d \in Nat : d = Len(stk) /\ d >= 2 /\ stk[d] = n
  <2>1. Len(stk) \in Nat /\ Len(stk) >= 2
    BY LenProperties
  <2>2. Last(stk) = stk[Len(stk)]
    BY DEF Last
  <2> QED BY <2>1, <2>2
<1>7. HasNext(ac, g) /\ Kids[g][ac[g].state] = n /\ ac[g].status # "end"
  <2>1. d - 1 \in 1..(Len(stk) - 1) /\ g = stk[d - 1] /\ d - 1 + 1 = d
    BY <1>3, <1>6
  <2> QED BY <1>1, <1>6, <2>1 DEF Chain
<1>8. /\ \A m : Under(t, m) => old(m) = "apply" /\ new(m) = "apply"
      /\ old(g) = "apply" /\ new(g) = "apply"
      /\ \A m : ~On(stk, m) => old(m) = Stopped(ac[m].status) /\ new(m) = Stopped(bc[m].status)
      /\ old(n) = TopMode(p, r, ac[n].status) /\ new(n) = Stopped(bc[n].status)
  <2>1. \A m : Under(t, m) => Under(stk, m) /\ On(stk, m)
    BY <1>2, <1>3, <1>4
  <2>2. \A m : Under(t, m) => old(m) = "apply" /\ new(m) = "apply"
    BY <2>1 DEF Mode
  <2>3. old(g) = "apply" /\ old(n) = TopMode(p, r, ac[n].status)
    BY <1>0, <1>2, <1>5 DEF Mode
  <2>4. new(g) = "apply"
    BY <1>3, <1>4 DEF Mode
  <2>5. \A m : ~On(stk, m) => old(m) = Stopped(ac[m].status)
    BY <1>0, <1>2 DEF Mode
  <2>6. \A m : ~On(t, m) => new(m) = Stopped(bc[m].status)
    BY <1>3, <1>4 DEF Mode
  <2>7. ~On(t, n) /\ \A m : ~On(stk, m) => ~On(t, m)
    BY <1>3
  <2> QED BY <2>2, <2>3, <2>4, <2>5, <2>6, <2>7
<1>9. ASSUME NEW m \in Node, m # n PROVE new(m) = old(m) /\ old(m) # "return"
  <2>1. CASE m = g
    BY <1>8, <2>1
  <2>2. CASE Under(t, m)
    BY <1>8, <2>2
  <2>3. CASE m # g /\ ~Under(t, m)
    <3>1. ~On(stk, m) /\ bc[m] = ac[m]
      BY <1>3, <1>4, <1>9, <2>3
    <3>2. new(m) = Stopped(ac[m].status) /\ old(m) = Stopped(ac[m].status)
      BY <1>8, <3>1
    <3> HIDE DEF old, new
    <3> QED BY <3>2, StoppedModes
  <2> QED BY <2>1, <2>2, <2>3
<1>10. bc[n] = ac[n] /\ (r # -1 => Stopped(ac[n].status) = "out" /\ old(n) = "return")
       /\ (r = -1 => old(n) = Stopped(ac[n].status)) /\ ac[n].status # "repeat"
  <2>1. r # -1 => ac[n].status \in {"start", "end"}
    BY DEF TopOK
  <2>2. r = -1 => Stopped(ac[n].status) # "out"
    BY DEF TopOK
  <2>3. /\ r # -1 => TopMode(p, r, ac[n].status) = "return"
        /\ r = -1 => TopMode(p, r, ac[n].status) = Stopped(ac[n].status)
    BY TopModes
  <2> QED BY SMTT(30), <1>2, <1>5, <1>8, <2>1, <2>2, <2>3, StoppedModes
<1> HIDE DEF t, p, old, new
<1>11. Chain(t, bc)
  <2>1. ASSUME NEW i \in 1..(Len(t) - 1)
        PROVE  HasNext(bc, t[i]) /\ t[i + 1] = Kids[t[i]][bc[t[i]].state] /\ bc[t[i]].status # "end"
    <3>1. i \in 1..(Len(stk) - 1) /\ i \in 1..Len(t) /\ i + 1 \in 1..Len(t)
      BY <1>3, <1>6
    <3>2. t[i] = stk[i] /\ t[i + 1] = stk[i + 1] /\ t[i] \in Node
      BY <1>3, <3>1, ElementOfSeq
    <3>3. t[i] # g
      BY <1>4 DEF Under
    <3>4. bc[t[i]] = ac[t[i]]
      BY <3>2, <3>3
    <3>5. HasNext(ac, stk[i]) /\ stk[i + 1] = Kids[stk[i]][ac[stk[i]].state] /\ ac[stk[i]].status # "end"
      BY <1>1, <3>1 DEF Chain
    <3> QED BY <3>2, <3>4, <3>5 DEF HasNext
  <2> QED BY <2>1 DEF Chain
<1>12. RepeatOn(t, bc)
  <2>1. ASSUME NEW m \in Node, bc[m].status = "repeat", m # g PROVE On(t, m)
    BY <1>1, <1>3, <1>10, <2>1 DEF RepeatOn
  <2> QED BY <1>4, <2>1 DEF RepeatOn
<1>13. FreshEntry(t, q, s, bc)
  <2>1. ASSUME NEW m \in Node, new(m) = "enter", bc[m].status = "breakstarthit" PROVE bc[m].count = 0
    <3>1. m # g
      BY <1>8, <2>1
    <3>2. bc[m] = ac[m]
      BY <3>1
    <3>3. old(m) = "enter"
      BY <1>8, <1>9, <1>10, <2>1, StoppedModes
    <3> QED BY <1>1, <2>1, <3>2, <3>3 DEF FreshEntry, old
  <2> QED BY <2>1 DEF FreshEntry, new
<1>14. ASSUME NEW m \in Node \ {Root}, Stopped(bc[m].status) # "out", ~On(t, m)
       PROVE  \E h \in Node : /\ HasNext(bc, h) /\ Kids[h][bc[h].state] = m
                              /\ ~Under(t, h) /\ new(h) = "apply"
  <2>1. m # g /\ bc[m] = ac[m]
    BY <1>4, <1>14
  <2>2. CASE m = n
    <3>1. r = -1 /\ bc[g].state = ac[g].state
      BY <1>10, <1>14, <2>2
    <3> QED BY <1>4, <1>7, <1>8, <2>2, <3>1 DEF HasNext
  <2>3. CASE m # n
    <3>1. ~On(stk, m)
      BY <1>3, <1>14, <2>3
    <3>2. PICK h \in Node : /\ HasNext(ac, h) /\ Kids[h][ac[h].state] = m
                            /\ ~Under(stk, h) /\ old(h) = "apply"
      BY <1>1, <1>14, <2>1, <3>1 DEF StoppedIn, old
    <3>3. h # g /\ bc[h] = ac[h] /\ ~Under(t, h)
      BY <1>3, <1>4, <1>5, <3>2
    <3>4. new(h) = "apply"
      <4>1. CASE h = n
        BY <1>8, <1>10, <3>2, <4>1
      <4> QED BY <1>9, <3>2, <4>1
    <3> QED BY <3>2, <3>3, <3>4 DEF HasNext
  <2> QED BY <2>2, <2>3
<1>15. PathOK(t, q, s, bc)
  BY <1>3, <1>11, <1>12, <1>13, <1>14 DEF PathOK, StoppedIn, new
<1>16. new(n) = Stopped(ac[n].status) /\ old(n) = TopMode(p, r, ac[n].status)
  BY <1>8, <1>10
<1> QED BY <1>2, <1>4, <1>5, <1>7, <1>8, <1>9, <1>15, <1>16 DEF PopOnly, old, new, t, p

\* A group goes on with its next child: one that stopped is found where it was.
LEMMA DescendResumes ==
    ASSUME ActionTreeAssumption, TreeAssumption, IndInv, ResumeInv, ApplyGroup,
           HasNext(act, Top)
    PROVE  Resumes
<1>0. PICK n, k : n = Top /\ k = Kids[n][act[n].state]
  OBVIOUS
<1> DEFINE c == act[n]
           b == act[k]
<1>1. /\ pc = "group" /\ pc' = "perform" /\ stack' = Append(stack, k) /\ HasNext(act, n)
      /\ UNCHANGED <<act, brk, starts, fd, res, plan, asks, trace, script>>
  BY <1>0 DEF ApplyGroup, HasNext, host
<1>2. /\ stack \in Seq(Node) /\ stack # <<>> /\ stack[1] = Root /\ n = Last(stack)
      /\ n \in Node /\ act \in [Node -> ActionState] /\ TopOK(n, pc, res, c)
      /\ Frames[n] = FrameAt(TopMode(pc, res, c.status), c, res)
      /\ KidsOut(act, n) => \A m : TopMode(pc, res, c.status) = m => Uninterrupted!Moves(n, m)
  BY <1>0, <1>1, TopState
<1>3. c.status # "end" /\ n \notin Leaf /\ TopMode(pc, res, c.status) = "apply"
  BY <1>1, <1>2 DEF TopOK, TopMode
<1>4. PathOK(stack, "group", res, act)
  BY <1>1 DEF ResumeInv
<1>5. /\ k \in Node /\ k # n /\ PathOK(stack', "perform", res, act)
      /\ \A m \in Node : m # k => Mode(stack', "perform", res, act, m) = Mode(stack, "group", res, act, m)
      /\ Mode(stack, "group", res, act, k) = Stopped(b.status)
      /\ Mode(stack', "perform", res, act, k) = TopMode("perform", res, b.status)
      /\ b.status # "repeat"
      /\ Stopped(b.status) # "out" => TopMode("perform", res, b.status) = Stopped(b.status)
  <2>1. PushOnly(stack, res, act, n, k)
    <3>1. /\ stack \in Seq(Node) /\ stack # <<>> /\ stack[1] = Root /\ act \in [Node -> ActionState]
          /\ n = Last(stack) /\ act[n].status # "end" /\ HasNext(act, n) /\ k = Kids[n][act[n].state]
      BY <1>0, <1>1, <1>2, <1>3
    <3> QED BY ZenonT(60), <1>4, <3>1, PushStep
  <2> QED BY <1>1, <2>1 DEF PushOnly
<1>6. starts # -1
  BY <1>1 DEF IndInv, RootInv, Open
<1> HIDE DEF b, c
<1>7. ResumeInv'
  <2>1. PathOK(stack', pc', res', act')
    BY <1>1, <1>5
  <2>2. TopOK(Top', pc', res', act'[Top'])
    BY <1>1 DEF TopOK
  <2>3. EndOK(starts', act')
    BY <1>1, <1>6 DEF EndOK
  <2> QED BY <2>1, <2>2, <2>3 DEF ResumeInv
<1>8. /\ \A m \in Node : m # k => ModeOf(m)' = ModeOf(m)
      /\ ModeOf(k) = Stopped(b.status) /\ ModeOf(k)' = TopMode("perform", res, b.status)
  <2>1. \A m : ModeOf(m) = Mode(stack, "group", res, act, m)
    BY <1>1, ModeIs
  <2>2. \A m : ModeOf(m)' = Mode(stack', "perform", res, act, m)
    BY <1>1, ModeIs
  <2> QED BY <1>5, <2>1, <2>2
<1>9. /\ Frames' = [m \in Node |-> FrameAt(ModeOf(m)', act[m], res)]
      /\ Frames = [m \in Node |-> FrameAt(ModeOf(m), act[m], res)]
  BY <1>1 DEF Frames
<1>10. Over' = Over
  BY <1>1 DEF Over
<1>11. CASE Stopped(b.status) # "out"
  <2>1. \A m \in Node : ModeOf(m)' = ModeOf(m)
    BY <1>5, <1>8, <1>11
  <2>2. Frames' = Frames
    BY <1>9, <2>1
  <2> QED BY <1>1, <1>7, <1>10, <2>2 DEF Resumes, Uninterrupted!uvars
<1>12. CASE Stopped(b.status) = "out"
  <2>1. ModeOf(k)' = "enter"
    BY <1>8, <1>12 DEF TopMode
  <2>2. FrameAt(ModeOf(k)', act[k], res) = Uninterrupted!Frame("enter", 1, 0, 0)
    BY <1>5, <2>1, FrameFacts DEF b
  <2>3. Frames' = [Frames EXCEPT ![k] = Uninterrupted!Frame("enter", 1, 0, 0)]
    BY <1>5, <1>8, <1>9, <2>2
  <2>4. KidsOut(act, Top)
    BY <1>0, <1>1, <1>12, TopKids DEF b
  <2>5. Uninterrupted!Moves(n, "apply")
    BY <1>0, <1>2, <1>3, <2>4
  <2>6. Frames[n].at = c.state
    BY <1>2, <1>3, FrameFacts DEF Uninterrupted!Frame
  <2>7. c.state <= Len(Kids[n]) /\ k = Kids[n][c.state]
    BY <1>0, <1>1 DEF HasNext, c
  <2>8. n \notin Uninterrupted!Leaf
    BY <1>3 DEF Leaf, Uninterrupted!Leaf
  <2>9. Uninterrupted!Descend(n)
    BY <1>1, <1>6, <1>10, <2>3, <2>5, <2>6, <2>7, <2>8 DEF Uninterrupted!Descend
  <2> QED BY <1>2, <1>7, <2>9 DEF Resumes, Uninterrupted!Next
<1> QED BY <1>11, <1>12

\* The fields of a reset action
LEMMA FreshFields ==
    ASSUME NEW a \in ActionState
    PROVE  /\ Fresh(a) \in ActionState /\ Fresh(a).status = "start" /\ Fresh(a).state = 1
           /\ Fresh(a).count = a.count /\ Fresh(a).lcount = a.lcount
<1>1. PICK one \in Nat \ {0} : one = 1
  OBVIOUS
<1>2. Fresh(a) = [a EXCEPT !.status = "start", !.state = one]
  BY <1>1 DEF Fresh
<1> QED BY <1>1, <1>2, FreshFacts DEF ActionState

\* When nothing was performed or stopped, no action is anywhere but the top one.
LEMMA AllFresh ==
    ASSUME NEW stk \in Seq(Node), Len(stk) <= 1, NEW p, NEW r, NEW ac, \A n \in Node : ac[n].status = "start"
    PROVE  PathOK(stk, p, r, ac) /\ \A n \in Node : Stopped(ac[n].status) = "out"
<1>1. \A n \in Node : Stopped(ac[n].status) = "out" /\ ac[n].status \notin {"repeat", "breakstarthit"}
  BY StoppedModes
<1>2. /\ \A i, j \in 1..Len(stk) : i = j
      /\ \A i \in 1..(Len(stk) - 1) : FALSE
  <2>1. PICK d \in Nat : d = Len(stk) /\ d <= 1
    BY LenProperties
  <2> QED BY <2>1
<1> QED BY <1>1, <1>2 DEF PathOK, Distinct, Chain, RepeatOn, StoppedIn, FreshEntry

\* The restart group: the end, or everything from the beginning
LEMMA RestartResumes ==
    ASSUME ActionTreeAssumption, TreeAssumption, IndInv, ResumeInv, Restart
    PROVE  Resumes
<1> DEFINE left == fd.pending /\ ~fd.jumptable
           again == left /\ starts + 1 <= MaxRestarts
           c == act[Root]
<1>1. pc = "restarted" /\ UNCHANGED <<stack, res, plan, asks, trace>>
  BY DEF Restart, host
<1>2. /\ starts \in Int /\ starts >= -1 /\ starts # -1 /\ MaxRestarts \in Nat
      /\ fd \in [pending : BOOLEAN, jumptable : BOOLEAN, clears : Nat, warned : Nat]
  BY <1>1 DEF IndInv, TypeOK, RootInv, Open, ActionTreeAssumption
<1>3. /\ again => /\ starts' = starts + 1 /\ fd' = [fd EXCEPT !.pending = FALSE, !.clears = fd.clears + 1]
                  /\ act' = [n \in Node |-> Fresh(act[n])] /\ pc' = "group"
      /\ ~again => /\ pc' = "after" /\ act' = act
                   /\ starts' = (IF fd.pending /\ fd.jumptable THEN starts ELSE -1)
                   /\ fd' = IF left THEN [fd EXCEPT !.warned = fd.warned + 1] ELSE fd
  BY SMTT(30), <1>2 DEF Restart, TooMany
<1>4. /\ stack \in Seq(Node) /\ stack # <<>> /\ Len(stack) = 1 /\ Top = Root /\ Top = Last(stack)
  <2>1. stack \in Seq(Node) /\ stack # <<>> /\ Len(stack) = 1
    BY <1>1 DEF IndInv, TypeOK, StackInv
  <2> QED BY <2>1, TopFacts DEF IndInv, Top
<1>5. /\ Root \in Node /\ c \in ActionState /\ act \in [Node -> ActionState] /\ TopOK(Root, pc, res, c)
      /\ Frames[Root] = FrameAt(TopMode(pc, res, c.status), c, res)
      /\ KidsOut(act, Root) => \A m : TopMode(pc, res, c.status) = m => Uninterrupted!Moves(Root, m)
  BY <1>1, <1>4, TopState
<1>6. c.state > Len(Kids[Root]) /\ TopMode(pc, res, c.status) = "apply"
  BY <1>1, <1>5 DEF TopOK, TopMode
<1>7. KidsOut(act, Root)
  BY <1>1, <1>4, <1>6, TopKids
<1>8. Uninterrupted!Moves(Root, "apply") /\ Frames[Root] = Uninterrupted!Frame("apply", c.state, c.count, c.lcount)
  <2> HIDE DEF c
  <2> QED BY <1>5, <1>6, <1>7, FrameFacts
<1>9. Frames[Root].at = c.state
  BY <1>8 DEF Uninterrupted!Frame
<1>10. CASE ~again
  <2>1. /\ ResumeInv' /\ Frames' = [Frames EXCEPT ![Root].mode = "check"] /\ Over' = Over
    <3>1. pc' = "after" /\ UNCHANGED <<stack, act, res>> /\ KidsOut(act, Top)
          /\ (starts' = -1 => starts = -1 \/ Top = Root)
      BY <1>1, <1>3, <1>4, <1>7, <1>10
    <3> QED BY <1>1, <1>4, <3>1, LocalCheck
  <2> HIDE DEF c
  <2>2. Uninterrupted!EndRoot
    BY <1>1, <1>2, <1>3, <1>6, <1>8, <1>9, <1>10, <2>1 DEF Uninterrupted!EndRoot
  <2> QED BY <2>1, <2>2 DEF Resumes, Uninterrupted!Next
<1>11. CASE again
  <2>1. \A n \in Node : act'[n] = Fresh(act[n]) /\ act[n] \in ActionState
    BY <1>3, <1>5, <1>11
  <2>2. \A n \in Node : /\ act'[n].status = "start" /\ act'[n].state = 1 /\ act'[n].count = act[n].count
                        /\ act'[n].lcount = act[n].lcount
    BY <2>1, FreshFields
  <2>3. PathOK(stack', pc', res', act') /\ \A n \in Node : Stopped(act'[n].status) = "out"
    <3>1. stack' \in Seq(Node) /\ Len(stack') <= 1
      BY <1>1, <1>4
    <3> QED BY <2>2, <3>1, AllFresh
  <2>4. ResumeInv'
    <3>1. TopOK(Top', pc', res', act'[Top'])
      <4>1. Top' = Root
        BY <1>1, <1>4 DEF Top
      <4> QED BY <1>3, <1>5, <1>11, <2>2, <4>1 DEF TopOK, Leaf
    <3>2. EndOK(starts', act')
      BY <1>2, <1>3, <1>11 DEF EndOK
    <3> QED BY <2>3, <3>1, <3>2 DEF ResumeInv
  <2>5. ASSUME NEW n \in Node PROVE ModeOf(n)' = IF n = Root THEN "apply" ELSE "out"
    <3>1. ~Under(stack', n) /\ stack' # <<>> /\ Last(stack') = Root /\ pc' = "group"
      <4>1. Len(stack') - 1 = 0
        BY <1>1, <1>4
      <4> QED BY <1>1, <1>3, <1>4, <1>11, <4>1 DEF Under
    <3>2. Mode(stack', pc', res', act', n) = IF n = Root THEN "apply" ELSE "out"
      BY <2>3, <3>1 DEF Mode, TopMode
    <3> QED BY <3>2, ModeIs
  <2>6. Frames' = [n \in Node |-> IF n = Root THEN [Frames[n] EXCEPT !.at = 1] ELSE Uninterrupted!Out]
    <3>1. Frames' = [n \in Node |-> FrameAt(ModeOf(n)', act'[n], res')]
      BY DEF Frames
    <3>2. \A n \in Node : n # Root => FrameAt(ModeOf(n)', act'[n], res') = Uninterrupted!Out
      BY <2>5, FrameFacts
    <3>3. FrameAt("apply", act'[Root], res') = Uninterrupted!Frame("apply", 1, c.count, c.lcount)
      <4>1. FrameAt("apply", act'[Root], res')
              = Uninterrupted!Frame("apply", act'[Root].state, act'[Root].count, act'[Root].lcount)
        BY FrameFacts
      <4> QED BY <1>5, <2>2, <4>1
    <3>4. FrameAt(ModeOf(Root)', act'[Root], res') = Uninterrupted!Frame("apply", 1, c.count, c.lcount)
      BY <1>5, <2>5, <3>3
    <3>5. [Frames[Root] EXCEPT !.at = 1] = Uninterrupted!Frame("apply", 1, c.count, c.lcount)
      BY <1>8 DEF Uninterrupted!Frame
    <3> QED BY <3>1, <3>2, <3>4, <3>5
  <2>7. Over' = {}
    BY <2>2 DEF Over
  <2> HIDE DEF c
  <2>8. Uninterrupted!EndRoot
    BY <1>1, <1>2, <1>3, <1>6, <1>8, <1>9, <1>11, <2>6, <2>7 DEF Uninterrupted!EndRoot
  <2> QED BY <2>4, <2>8 DEF Resumes, Uninterrupted!Next
<1> QED BY <1>10, <1>11

\* The host performs the root, which is where it was.
LEMMA CallResumes ==
    ASSUME ActionTreeAssumption, TreeAssumption, IndInv, ResumeInv, Call
    PROVE  Resumes
<1>1. /\ pc = "idle" /\ pc' = "perform" /\ stack' = <<Root>>
      /\ UNCHANGED <<act, starts, fd, res, plan, asks, trace>>
  BY DEF Call, host
<1>2. /\ stack = <<>> /\ act \in [Node -> ActionState] /\ res \in Nat \cup {-1} /\ Root \in Node
  BY <1>1 DEF IndInv, TypeOK, StackInv, ActionTreeAssumption
<1>3. /\ RepeatOn(stack, act) /\ StoppedIn(stack, pc, res, act) /\ FreshEntry(stack, pc, res, act)
      /\ EndOK(starts, act)
  BY DEF ResumeInv, PathOK
<1>4. /\ stack' # <<>> /\ Last(stack') = Root /\ Len(stack') = 1 /\ Len(stack) = 0 /\ On(stack', Root)
  BY <1>1, <1>2 DEF Last, On
<1>5. \A m : ~Under(stack, m) /\ ~Under(stack', m) /\ ~On(stack, m)
  BY <1>4 DEF Under, On
<1>6. ASSUME NEW m \in Node PROVE Mode(stack', pc', res', act', m) = Mode(stack, pc, res, act, m)
  <2>1. TopMode("perform", res, act[m].status) = TopMode("perform", 0, act[m].status)
    BY DEF TopMode
  <2> QED BY <1>1, <1>2, <1>4, <1>5, <2>1 DEF Mode
<1>7. ResumeInv'
  <2>1. Distinct(stack') /\ Chain(stack', act')
    BY <1>4 DEF Distinct, Chain
  <2>2. RepeatOn(stack', act')
    BY <1>1, <1>3, <1>5 DEF RepeatOn
  <2>3. FreshEntry(stack', pc', res', act')
    BY <1>1, <1>3, <1>6 DEF FreshEntry
  <2>4. StoppedIn(stack', pc', res', act')
    <3> SUFFICES ASSUME NEW m \in Node \ {Root}, Stopped(act'[m].status) # "out"
                 PROVE  \E g \in Node : /\ HasNext(act', g) /\ Kids[g][act'[g].state] = m
                                        /\ ~Under(stack', g) /\ Mode(stack', pc', res', act', g) = "apply"
      BY DEF StoppedIn
    <3>1. PICK g \in Node : /\ HasNext(act, g) /\ Kids[g][act[g].state] = m
                            /\ Mode(stack, pc, res, act, g) = "apply"
      BY <1>1, <1>3, <1>5 DEF StoppedIn
    <3>2. Mode(stack', pc', res', act', g) = "apply"
      BY <1>6, <3>1
    <3> QED BY <1>1, <1>5, <3>1, <3>2
  <2>5. TopOK(Top', pc', res', act'[Top'])
    BY <1>1 DEF TopOK
  <2>6. EndOK(starts', act')
    BY <1>1, <1>3
  <2> QED BY <2>1, <2>2, <2>3, <2>4, <2>5, <2>6 DEF ResumeInv, PathOK
<1>8. \A m \in Node : ModeOf(m)' = ModeOf(m)
  BY <1>6, ModeIs
<1>9. Frames' = Frames /\ Over' = Over
  BY <1>1, <1>8 DEF Frames, Over
<1> QED BY <1>1, <1>7, <1>9 DEF Resumes, Uninterrupted!uvars

\* Perform of the root returns to the host: the root is where it stopped, or done.
LEMMA HostResumes ==
    ASSUME ActionTreeAssumption, TreeAssumption, IndInv, ResumeInv, Returned, Front(stack) = <<>>
    PROVE  Resumes
<1>1. /\ pc = "return" /\ stack' = <<>> /\ pc' = (IF res < 0 THEN "idle" ELSE "finished")
      /\ UNCHANGED <<act, res, starts, fd, plan, asks, trace>>
  BY DEF Returned, host
<1>2. /\ stack \in Seq(Node) /\ stack # <<>> /\ Top = Last(stack) /\ Top = Root /\ Len(stack) = 1
      /\ act \in [Node -> ActionState] /\ res \in Nat \cup {-1} /\ TopOK(Root, pc, res, act[Root])
  <2>1. stack \in Seq(Node) /\ stack # <<>>
    BY <1>1, TopState
  <2>2. Len(stack) = 1
    BY <2>1, StackFacts
  <2>3. Top = Root
    BY <2>1, <2>2, TopFacts DEF IndInv
  <2> QED BY <1>1, <2>1, <2>2, <2>3, TopState DEF IndInv, TypeOK
<1>3. /\ RepeatOn(stack, act) /\ StoppedIn(stack, pc, res, act) /\ FreshEntry(stack, pc, res, act)
      /\ EndOK(starts, act)
  BY DEF ResumeInv, PathOK
<1>4. Len(stack') = 0
  BY <1>1
<1>5. /\ \A m : ~Under(stack, m) /\ ~Under(stack', m) /\ ~On(stack', m)
      /\ \A m : On(stack, m) <=> m = Root
  <2>1. stack[1] = Root
    BY <1>2, StackFacts
  <2> QED BY <1>2, <1>4, <2>1 DEF Under, On
<1>6. /\ res # -1 => act[Root].status \in {"start", "end"}
      /\ res = -1 => Stopped(act[Root].status) # "out"
  BY <1>1, <1>2 DEF TopOK
<1>7. res < 0 <=> res = -1
  BY <1>2
<1>8. ASSUME NEW m \in Node PROVE Mode(stack', pc', res', act', m) = Mode(stack, pc, res, act, m)
  <2>1. CASE m # Root
    BY <1>1, <1>2, <1>5, <2>1 DEF Mode
  <2>2. CASE m = Root /\ res = -1
    <3>1. Mode(stack, pc, res, act, m) = Stopped(act[Root].status)
      BY <1>1, <1>2, <1>5, <2>2, TopModes DEF Mode
    <3>2. Mode(stack', pc', res', act', m) = TopMode("perform", 0, act[Root].status)
      BY <1>1, <1>5, <1>7, <2>2 DEF Mode
    <3>3. TopMode("perform", 0, act[Root].status) = Stopped(act[Root].status)
      BY <1>6, <2>2 DEF TopMode
    <3> QED BY <3>1, <3>2, <3>3
  <2>3. CASE m = Root /\ res # -1
    <3>1. Mode(stack, pc, res, act, m) = "return"
      BY <1>1, <1>2, <1>5, <2>3, TopModes DEF Mode
    <3>2. Mode(stack', pc', res', act', m) = "return"
      BY <1>1, <1>5, <1>7, <2>3 DEF Mode
    <3> QED BY <3>1, <3>2
  <2> QED BY <2>1, <2>2, <2>3
<1>9. ResumeInv'
  <2>1. Distinct(stack') /\ Chain(stack', act')
    BY <1>4 DEF Distinct, Chain
  <2>2. RepeatOn(stack', act')
    <3>1. act[Root].status # "repeat"
      BY <1>6, StoppedModes
    <3> QED BY <1>1, <1>3, <1>5, <3>1 DEF RepeatOn
  <2>3. FreshEntry(stack', pc', res', act')
    BY <1>1, <1>3, <1>8 DEF FreshEntry
  <2>4. StoppedIn(stack', pc', res', act')
    <3> SUFFICES ASSUME NEW m \in Node \ {Root}, Stopped(act'[m].status) # "out"
                 PROVE  \E g \in Node : /\ HasNext(act', g) /\ Kids[g][act'[g].state] = m
                                        /\ ~Under(stack', g) /\ Mode(stack', pc', res', act', g) = "apply"
      BY DEF StoppedIn
    <3>1. PICK g \in Node : /\ HasNext(act, g) /\ Kids[g][act[g].state] = m
                            /\ Mode(stack, pc, res, act, g) = "apply"
      BY <1>1, <1>3, <1>5 DEF StoppedIn
    <3>2. Mode(stack', pc', res', act', g) = "apply"
      BY <1>8, <3>1
    <3> QED BY <1>1, <1>5, <3>1, <3>2
  <2>5. EndOK(starts', act')
    BY <1>1, <1>3
  <2> QED BY <1>1, <2>1, <2>2, <2>3, <2>4, <2>5 DEF ResumeInv, PathOK
<1>10. \A m \in Node : ModeOf(m)' = ModeOf(m)
  BY <1>8, ModeIs
<1>11. Frames' = Frames /\ Over' = Over
  BY <1>1, <1>10 DEF Frames, Over
<1> QED BY <1>1, <1>9, <1>11 DEF Resumes, Uninterrupted!uvars

\* Two frames change.
LEMMA TwoFrames ==
    ASSUME NEW F, F = [m \in Node |-> F[m]], NEW H, H = [m \in Node |-> H[m]],
           NEW n \in Node, NEW g \in Node, n # g, NEW o, NEW x, NEW y, H[n] = o,
           H[g] = [[F[g] EXCEPT !.count = x] EXCEPT !.at = y],
           \A m \in Node : m # n /\ m # g => H[m] = F[m]
    PROVE  H = [F EXCEPT ![n] = o, ![g].count = x, ![g].at = y]
<1> DEFINE K == [F EXCEPT ![n] = o, ![g].count = x, ![g].at = y]
<1>1. K = [m \in Node |-> IF m = g THEN [[F[g] EXCEPT !.count = x] EXCEPT !.at = y] ELSE IF m = n THEN o ELSE F[m]]
  OBVIOUS
<1> QED BY <1>1

\* An action returns to its group: at a breakpoint nothing has happened, otherwise
\* the group counts the changes and goes on to its next child; so it does when it
\* stops at a breakpoint of its own.
LEMMA GroupResumes ==
    ASSUME ActionTreeAssumption, TreeAssumption, IndInv, ResumeInv, Returned, Front(stack) # <<>>
    PROVE  Resumes
<1>0. PICK n, g : n = Top /\ g = Last(Front(stack))
  OBVIOUS
<1> DEFINE stop == res > 0 /\ ActionBreak(g)
           c == act[g]
           up == [c EXCEPT !.status = "mid"]
           halt == [c EXCEPT !.count = c.count + res, !.status = "mid", !.state = c.state + 1]
           go == [c EXCEPT !.count = c.count + res, !.state = c.state + 1]
           b == IF res < 0 THEN up ELSE IF stop THEN halt ELSE go
<1>1. /\ pc = "return" /\ stack' = Front(stack) /\ UNCHANGED <<starts, fd, plan, asks, trace>>
      /\ res < 0 => act' = SetStatus(g, "mid") /\ res' = res /\ pc' = pc
      /\ ~(res < 0) /\ stop =>
            /\ act' = [act EXCEPT ![g].count = @ + res, ![g].status = "mid", ![g].state = @ + 1]
            /\ res' = -1 /\ pc' = pc
      /\ ~(res < 0) /\ ~stop =>
            act' = [act EXCEPT ![g].count = @ + res, ![g].state = @ + 1] /\ pc' = "group" /\ res' = res
  BY <1>0 DEF Returned, StateAtBreak, host
<1>2. /\ stack \in Seq(Node) /\ stack # <<>> /\ n = Last(stack) /\ n \in Node
      /\ act \in [Node -> ActionState] /\ TopOK(n, pc, res, act[n]) /\ Distinct(stack)
      /\ Frames[n] = FrameAt(TopMode(pc, res, act[n].status), act[n], res)
      /\ KidsOut(act, n) => \A m : TopMode(pc, res, act[n].status) = m => Uninterrupted!Moves(n, m)
  BY <1>0, <1>1, TopState
<1>3. Len(stack) >= 2 /\ res \in Nat \cup {-1} /\ PathOK(stack, "return", res, act)
  <2>1. Len(stack) \in Nat /\ Len(stack) >= 1 /\ Len(stack) # 1
    BY <1>2, StackFacts
  <2>2. Len(stack) >= 2
    <3>1. \A d \in Nat : d >= 1 /\ d # 1 => d >= 2
      OBVIOUS
    <3> QED BY <2>1, <3>1
  <2>3. res \in Nat \cup {-1}
    BY DEF IndInv, TypeOK
  <2>4. PathOK(stack, "return", res, act)
    BY <1>1 DEF ResumeInv
  <2> QED BY <2>2, <2>3, <2>4
<1>4. g \in Node /\ c \in ActionState
  <2>1. Front(stack) \in Seq(Node)
    BY <1>2, StackFacts
  <2>2. g \in Node
    BY <1>0, <2>1, StackFacts
  <2> QED BY <1>2, <2>2
<1>5. /\ res < 0 <=> res = -1
      /\ ~(res < 0) <=> res \in Nat
  BY <1>3
<1>6. /\ b \in ActionState /\ act' = [act EXCEPT ![g] = b]
      /\ b.lcount = c.lcount
      /\ res < 0 => b.status = "mid" /\ b.state = c.state /\ b.count = c.count
      /\ ~(res < 0) => b.state = c.state + 1 /\ b.count = c.count + res
      /\ ~(res < 0) /\ stop => b.status = "mid"
      /\ ~(res < 0) /\ ~stop => b.status = c.status
  <2>1. c.count \in Nat /\ c.state \in Nat \ {0}
    BY <1>4 DEF ActionState
  <2>2. CASE res < 0
    <3>1. b = up /\ act' = [act EXCEPT ![g] = up]
      BY <1>1, <2>2 DEF SetStatus
    <3>2. up \in ActionState /\ up.status = "mid" /\ up.state = c.state /\ up.count = c.count /\ up.lcount = c.lcount
      BY <1>4 DEF ActionState
    <3> HIDE DEF b, up, c
    <3> QED BY <2>2, <3>1, <3>2
  <2>3. CASE ~(res < 0)
    <3> HIDE DEF c
    <3>0. c.count + res \in Nat /\ c.state + 1 \in Nat \ {0}
      BY SMTT(30), <1>5, <2>1, <2>3
    <3>1. PICK k, i : k = c.count + res /\ i = c.state + 1 /\ k \in Nat /\ i \in Nat \ {0}
      BY <3>0
    <3>4. k \in Nat /\ i \in Nat \ {0}
      BY <3>1
    <3> USE DEF c
    <3>2. CASE stop
      <4>1. b = halt /\ act' = [act EXCEPT ![g] = halt]
        BY Zenon, <1>1, <1>4, <2>3, <3>2
      <4>2. halt = [c EXCEPT !.count = k, !.status = "mid", !.state = i]
        BY <3>1
      <4>3. halt \in ActionState /\ halt.status = "mid" /\ halt.state = i /\ halt.count = k /\ halt.lcount = c.lcount
        BY Zenon, <1>4, <3>4, <4>2 DEF ActionState
      <4> HIDE DEF b, halt, c, stop
      <4> QED BY <2>3, <3>1, <3>2, <4>1, <4>3
    <3>3. CASE ~stop
      <4>1. b = go /\ act' = [act EXCEPT ![g] = go]
        BY Zenon, <1>1, <1>4, <2>3, <3>3
      <4>2. go = [c EXCEPT !.count = k, !.state = i]
        BY <3>1
      <4>3. go \in ActionState /\ go.status = c.status /\ go.state = i /\ go.count = k /\ go.lcount = c.lcount
        BY Zenon, <1>4, <3>4, <4>2 DEF ActionState
      <4> HIDE DEF b, go, c, stop
      <4> QED BY <2>3, <3>1, <3>3, <4>1, <4>3
    <3> QED BY <3>2, <3>3
  <2> QED BY <2>2, <2>3
<1> HIDE DEF b
<1>7. /\ pc' \notin {"idle", "finished"} /\ TopMode(pc', res', b.status) = "apply"
      /\ b.status = "mid" \/ (b.status = c.status /\ pc' = "group")
      /\ pc' = "return" => res' = -1 /\ b.status = "mid"
      /\ pc' \in {"return", "group"} /\ ((res < 0 \/ ~stop) => res' = res)
  <2>1. CASE res < 0 \/ stop
    <3>1. pc' = "return" /\ res' = -1 /\ b.status = "mid"
      BY <1>1, <1>5, <1>6, <2>1
    <3> QED BY <1>1, <2>1, <3>1, StoppedModes DEF TopMode
  <2>2. CASE ~(res < 0) /\ ~stop
    <3>1. pc' = "group" /\ res' = res /\ b.status = c.status
      BY <1>1, <1>6, <2>2
    <3> QED BY <2>2, <3>1 DEF TopMode
  <2> QED BY <2>1, <2>2
<1>8. PICK q, s, ac : q = pc' /\ s = res' /\ ac = act'
  OBVIOUS
<1>9. PopOnly(stack, res, act, q, s, ac, n, g)
  <2>1. /\ ac \in [Node -> ActionState] /\ ac[g] = b
        /\ \A m \in Node : m # g => ac[m] = act[m]
    BY <1>2, <1>4, <1>6, <1>8
  <2>2. PopChange(stack, res, act, q, s, ac, n, g)
    <3>1. TopOK(n, "return", res, act[n]) /\ (res = -1 => ac[g].state = act[g].state)
      BY <1>1, <1>2, <1>5, <1>6, <2>1
    <3>2. q \notin {"idle", "finished"} /\ TopMode(q, s, ac[g].status) = "apply"
      BY <1>7, <1>8, <2>1
    <3> QED BY <1>0, <1>2, <1>3, <2>1, <3>1, <3>2 DEF PopChange
  <2> QED BY <1>3, <2>2, PopStep
<1>10. /\ g # n /\ HasNext(act, g) /\ Kids[g][c.state] = n /\ c.status # "end"
       /\ PathOK(stack', pc', res', act')
       /\ ModeOf(g) = "apply" /\ ModeOf(g)' = "apply"
       /\ ModeOf(n) = TopMode("return", res, act[n].status) /\ ModeOf(n)' = Stopped(act[n].status)
       /\ \A m \in Node : m # n => ModeOf(m)' = ModeOf(m) /\ ModeOf(m) # "return"
  <2>1. \A m : ModeOf(m) = Mode(stack, "return", res, act, m)
    BY <1>1, ModeIs
  <2>2. \A m : ModeOf(m)' = Mode(Front(stack), q, s, ac, m)
    BY <1>1, <1>8, ModeIs
  <2> QED BY <1>1, <1>4, <1>8, <1>9, <2>1, <2>2 DEF PopOnly
<1>11. b.status # "end"
  BY <1>7, <1>10
<1>12. Len(Kids[g]) \in Nat /\ c.state \in 1..Len(Kids[g]) /\ g \notin Leaf
  <2>1. Kids[g] \in Seq(Node \ {Root}) /\ c.state \in Nat \ {0}
    BY <1>4 DEF ActionTreeAssumption, ActionState
  <2>2. Len(Kids[g]) \in Nat /\ (Kids[g] = <<>> => Len(Kids[g]) = 0)
    BY <2>1, LenProperties
  <2>3. c.state <= Len(Kids[g])
    BY <1>10 DEF HasNext
  <2> HIDE DEF c
  <2>4. g \notin Leaf
    BY <2>1, <2>2, <2>3 DEF Leaf
  <2> QED BY <2>1, <2>2, <2>3, <2>4
<1> HIDE DEF c
<1>13. Over' = Over
  <2>1. \A m \in Node : act'[m].status = "end" <=> act[m].status = "end"
    BY <1>2, <1>4, <1>6, <1>10, <1>11 DEF c
  <2> QED BY <2>1 DEF Over
<1>14. ResumeInv'
  <2>1. Top' = g
    BY <1>0, <1>1 DEF Top
  <2>2. act'[g] = b
    BY <1>2, <1>4, <1>6
  <2>3. TopOK(g, pc', res', b)
    BY <1>7, <1>11, <1>12, StoppedModes DEF TopOK
  <2>4. starts # -1
    BY <1>3 DEF IndInv, RootInv, Open
  <2>5. EndOK(starts', act')
    BY <1>1, <2>4 DEF EndOK
  <2>6. TopOK(Top', pc', res', act'[Top'])
    BY <2>1, <2>2, <2>3
  <2> QED BY <1>10, <2>5, <2>6 DEF ResumeInv
<1>15. /\ Frames' = [m \in Node |-> FrameAt(ModeOf(m)', act'[m], res')]
       /\ Frames = [m \in Node |-> FrameAt(ModeOf(m), act[m], res)]
  BY DEF Frames
<1>16. /\ FrameAt("apply", b, res') = Uninterrupted!Frame("apply", b.state, b.count, b.lcount)
       /\ FrameAt("apply", c, res) = Uninterrupted!Frame("apply", c.state, c.count, c.lcount)
  BY FrameFacts
<1>17. \A m \in Node : m # g => act'[m] = act[m]
  BY <1>2, <1>6
<1>18. ASSUME NEW m \in Node, m # n, m # g
       PROVE  FrameAt(ModeOf(m)', act'[m], res') = FrameAt(ModeOf(m), act[m], res)
  <2>1. ModeOf(m)' = ModeOf(m) /\ ModeOf(m) # "return" /\ act'[m] = act[m]
    BY <1>10, <1>17, <1>18
  <2>2. \A x : FrameAt(ModeOf(m), act[m], x) = FrameAt(ModeOf(m), act[m], res)
    BY <2>1, FrameFacts
  <2> QED BY <2>1, <2>2
<1>19. act'[g] = b /\ act[g] = c /\ act'[n] = act[n]
  BY <1>2, <1>4, <1>6, <1>10, <1>17 DEF c
<1>20. CASE res < 0
  <2>1. res = -1 /\ res' = res
    BY <1>5, <1>7, <1>20
  <2>2. ModeOf(n)' = ModeOf(n)
    BY <1>10, <2>1 DEF TopMode
  <2>3. FrameAt("apply", b, res') = FrameAt("apply", c, res)
    BY <1>6, <1>16, <1>20
  <2>4. \A m \in Node : FrameAt(ModeOf(m)', act'[m], res') = FrameAt(ModeOf(m), act[m], res)
    BY <1>10, <1>18, <1>19, <2>1, <2>2, <2>3
  <2>5. Frames' = Frames
    BY <1>15, <2>4
  <2> QED BY <1>1, <1>13, <1>14, <2>5 DEF Resumes, Uninterrupted!uvars
<1>21. CASE ~(res < 0)
  <2>1. /\ ModeOf(n) = "return" /\ ModeOf(n)' = "out"
    <3>1. res # -1 /\ act[n].status \in {"start", "end"}
      BY <1>1, <1>2, <1>5, <1>21 DEF TopOK
    <3> QED BY SMTT(30), <1>3, <1>10, <3>1, StoppedModes, TopModes
  <2>2. /\ FrameAt("out", act[n], res') = Uninterrupted!Out
        /\ FrameAt("return", act[n], res) = Uninterrupted!Frame("return", 1, res, 0)
    BY FrameFacts
  <2>3. /\ Frames[n].count = res
        /\ Frames[g] = Uninterrupted!Frame("apply", c.state, c.count, c.lcount)
    BY <1>2, <1>4, <1>10, <1>15, <1>16, <1>19, <2>1, <2>2 DEF Uninterrupted!Frame
  <2>4. /\ Frames[g].mode = "apply" /\ Frames[g].at = c.state /\ Frames[g].count = c.count
    BY <2>3 DEF Uninterrupted!Frame
  <2>5. [[Frames[g] EXCEPT !.count = c.count + res] EXCEPT !.at = c.state + 1]
          = Uninterrupted!Frame("apply", c.state + 1, c.count + res, c.lcount)
    <3>1. PICK e, i, j, k, x, y : /\ e = Frames[g] /\ i = c.state /\ j = c.count /\ k = c.lcount
                                  /\ x = c.count + res /\ y = c.state + 1
      OBVIOUS
    <3>2. e = Uninterrupted!Frame("apply", i, j, k)
      BY <2>3, <3>1
    <3>3. [[e EXCEPT !.count = x] EXCEPT !.at = y] = Uninterrupted!Frame("apply", y, x, k)
      <4>1. [e EXCEPT !.count = x] = Uninterrupted!Frame("apply", i, x, k)
        BY SMTT(30), <3>2 DEF Uninterrupted!Frame
      <4>2. [Uninterrupted!Frame("apply", i, x, k) EXCEPT !.at = y] = Uninterrupted!Frame("apply", y, x, k)
        BY SMTT(30) DEF Uninterrupted!Frame
      <4> QED BY <4>1, <4>2
    <3> QED BY <3>1, <3>3
  <2>6. FrameAt("apply", b, res') = Uninterrupted!Frame("apply", c.state + 1, c.count + res, c.lcount)
    BY <1>6, <1>16, <1>21
  <2>7. Frames' = [Frames EXCEPT ![n] = Uninterrupted!Out, ![g].count = Frames[g].count + Frames[n].count,
                                 ![g].at = Frames[g].at + 1]
    <3>1. \A m \in Node : Frames'[m] = IF m = n THEN Uninterrupted!Out
                                       ELSE IF m = g THEN Uninterrupted!Frame("apply", c.state + 1, c.count + res, c.lcount)
                                       ELSE Frames[m]
      BY <1>10, <1>15, <1>18, <1>19, <2>1, <2>2, <2>6
    <3> DEFINE F == Frames
               H == Frames'
    <3>2. F = [m \in Node |-> F[m]] /\ H = [m \in Node |-> H[m]]
      BY <1>15
    <3>3. /\ H[n] = Uninterrupted!Out /\ n # g
          /\ H[g] = [[F[g] EXCEPT !.count = c.count + res] EXCEPT !.at = c.state + 1]
          /\ \A m \in Node : m # n /\ m # g => H[m] = F[m]
      BY <1>2, <1>4, <1>10, <2>5, <3>1
    <3> HIDE DEF F, H
    <3>4. H = [F EXCEPT ![n] = Uninterrupted!Out, ![g].count = c.count + res, ![g].at = c.state + 1]
      BY Zenon, <1>2, <1>4, <3>2, <3>3, TwoFrames
    <3> QED BY <2>3, <2>4, <3>4 DEF F, H
  <2>8. Uninterrupted!Moves(n, "return")
    <3>1. TopMode(pc, res, act[n].status) = "return"
      BY <1>1, <1>10, <2>1
    <3>2. KidsOut(act, n)
      <4>1. ~(TopMode(pc, res, act[Top].status) = "apply")
        BY <1>0, <3>1
      <4> QED BY <1>0, <1>1, <4>1, TopKids
    <3> QED BY <1>2, <3>1, <3>2
  <2>9. Frames[g].at <= Len(Kids[g]) /\ Kids[g][Frames[g].at] = n
    BY <1>10, <1>12, <2>4 DEF c
  <2>10. Uninterrupted!Return(g)
    BY <1>1, <1>13, <2>4, <2>7, <2>8, <2>9 DEF Uninterrupted!Return
  <2> QED BY <1>4, <1>14, <2>10 DEF Resumes, Uninterrupted!Next
<1> QED BY <1>20, <1>21

\* The tree starts where the uninterrupted run does.
LEMMA InitResumes ==
    ASSUME ActionTreeAssumption, Init
    PROVE  ResumeInv /\ Uninterrupted!Init
<1>1. /\ act = [n \in Node |-> [status |-> "start", count |-> 0, lcount |-> 0, state |-> 1]]
      /\ stack = <<>> /\ stack \in Seq(Node) /\ Len(stack) <= 1 /\ Len(stack) = 0 /\ pc = "idle" /\ starts = 0
      /\ fd.pending = FALSE /\ fd.clears = 0 /\ fd.warned = 0 /\ trace = <<>> /\ Root \in Node
  BY DEF Init, ActionTreeAssumption
<1>2. \A n \in Node : act[n].status = "start"
  BY <1>1
<1>3. PathOK(stack, pc, res, act) /\ \A n \in Node : Stopped(act[n].status) = "out"
  BY <1>1, <1>2, AllFresh
<1>4. ResumeInv
  BY <1>1, <1>3 DEF ResumeInv, EndOK
<1>5. ASSUME NEW n \in Node PROVE ModeOf(n) = IF n = Root THEN "enter" ELSE "out"
  <2>1. ~Below(n)
    BY <1>1 DEF Below
  <2> QED BY <1>1, <1>3, <2>1 DEF ModeOf, TopMode
<1>6. Frames = [n \in Node |-> IF n = Root THEN Uninterrupted!Frame("enter", 1, 0, 0) ELSE Uninterrupted!Out]
  <2>1. ASSUME NEW n \in Node
        PROVE  FrameAt(ModeOf(n), act[n], res) = IF n = Root THEN Uninterrupted!Frame("enter", 1, 0, 0) ELSE Uninterrupted!Out
    <3>1. act[n].status # "repeat"
      BY <1>2
    <3> QED BY <1>5, <3>1, FrameFacts
  <2> QED BY <2>1 DEF Frames
<1>7. Over = {}
  BY <1>2 DEF Over
<1> QED BY <1>1, <1>4, <1>6, <1>7 DEF Uninterrupted!Init

\* A step of the tree is a step of the uninterrupted run, or none.
LEMMA StepResumes ==
    ASSUME ActionTreeAssumption, TreeAssumption, IndInv, ResumeInv, [Next]_vars
    PROVE  Resumes
<1>1. CASE UNCHANGED vars
  <2>1. UNCHANGED <<act, starts, fd, stack, pc, res, plan, asks, trace>>
    BY <1>1 DEF vars
  <2>2. ResumeInv'
    BY <2>1 DEF ResumeInv, Top
  <2>3. \A m \in Node : ModeOf(m)' = ModeOf(m)
    BY <2>1, ModeIs
  <2>4. Frames' = Frames /\ Over' = Over
    BY <2>1, <2>3 DEF Frames, Over
  <2> QED BY <2>1, <2>2, <2>4 DEF Resumes, Uninterrupted!uvars
<1>2. CASE Call
  BY <1>2, CallResumes
<1>3. CASE Perform
  BY <1>3, PerformResumes
<1>4. CASE PerformEnd
  BY <1>4, PerformEndResumes
<1>5. CASE PerformBreak
  BY <1>5, PerformBreakResumes
<1>6. CASE ApplyLeaf
  BY <1>6, ApplyLeafResumes
<1>7. CASE ApplyGroup
  BY <1>7, DescendResumes, GroupEndResumes
<1>8. CASE ApplyRestart
  BY <1>8, ApplyRestartResumes
<1>9. CASE Restart
  BY <1>9, RestartResumes
<1>10. CASE After
  BY <1>10, AfterResumes
<1>11. CASE PerformTail
  BY <1>11, PerformTailResumes
<1>12. CASE Returned
  BY <1>12, HostResumes, GroupResumes
<1>13. CASE Finished
  BY <1>1, <1>13 DEF Finished
<1> QED BY <1>1, <1>2, <1>3, <1>4, <1>5, <1>6, <1>7, <1>8, <1>9, <1>10, <1>11, <1>12, <1>13 DEF Next

\* The action that stopped is always the child its group will come back to
\* (ActionBase.Perform, ActionGroup.Apply).
THEOREM ResumeInvariant == Spec => []ResumeInv
<1>1. Init => ResumeInv
  BY InitResumes, ActionTreeAssumption
<1>2. IndInv /\ ResumeInv /\ [Next]_vars => ResumeInv'
  BY StepResumes, ActionTreeAssumption, TreeAssumption DEF Resumes
<1> QED BY <1>1, <1>2, TreeInvariant, PTL DEF Spec

\* Breakpoints go unnoticed: the tree implements the uninterrupted run
\* (ActionBase.Perform, ActionGroup.Apply, ActionRestartGroup.Apply).
THEOREM BreaksGoUnnoticed == Spec => BreaksUnnoticed
<1>1. Init => Uninterrupted!Init
  BY InitResumes, ActionTreeAssumption
<1>2. IndInv /\ ResumeInv /\ [Next]_vars => [Uninterrupted!Next]_(Uninterrupted!uvars)
  BY StepResumes, ActionTreeAssumption, TreeAssumption DEF Resumes
<1> QED BY <1>1, <1>2, TreeInvariant, ResumeInvariant, PTL DEF Spec, BreaksUnnoticed, Uninterrupted!Spec
=============================================================================
