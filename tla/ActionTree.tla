----------------------------- MODULE ActionTree -----------------------------
(***************************************************************************)
(* The action engine (pkg/pcode/action.go): ActionBase.Perform, ActionGroup  *)
(* and ActionRestartGroup.  An action tree is performed by a host that may    *)
(* set breakpoints; at a breakpoint every Perform on the way up returns -1   *)
(* and the next Perform has to find its way back down by the status and      *)
(* state each action kept.                                                  *)
(*                                                                         *)
(* Leaf actions are abstract: plan says how many more of a leaf's            *)
(* applications change something, asks how often a leaf will request a       *)
(* restart.  trace records the applications, for ActionTreeRun to compare.    *)
(***************************************************************************)
EXTENDS Integers, FiniteSets, SequencesExt

CONSTANTS
    Node, Root,     \* the actions; Root is an ActionRestartGroup
    Kids,           \* ActionGroup.list of every action, empty for a leaf
    Flags,          \* the ActionRule flags: "repeat", "once", "oneact"
    Asker,          \* the leaf that requests restarts
    MaxRestarts,    \* ActionRestartGroup.maxRestarts
    MaxPlan,        \* largest number of changes a leaf makes
    MaxAsk,         \* largest number of restarts requested
    Break           \* the breakpoints that may be set

ASSUME ActionTreeAssumption ==
    /\ Root \in Node /\ Asker \in Node /\ Kids \in [Node -> Seq(Node \ {Root})]
    /\ DOMAIN Flags = Node /\ DOMAIN Break = Node
    /\ MaxRestarts \in Nat /\ MaxPlan \in Nat /\ MaxAsk \in Nat

Leaf == {n \in Node \ {Root} : Kids[n] = <<>>}

VARIABLES
    act,        \* ActionBase.status, count, lcount and ActionGroup.state
    brk,        \* ActionBase.breakpoint
    starts,     \* ActionRestartGroup.curStart
    fd,         \* Funcdata's action state: restartPending, jumptableRecovery, clears, warned
    stack,      \* the actions whose Perform is under way
    pc, res,    \* what the top one does next, and the value just returned
    plan, asks, \* what the leaves will do
    trace,      \* the leaf applications so far
    script      \* plan and asks as they were at the start

vars == <<act, brk, starts, fd, stack, pc, res, plan, asks, trace, script>>
host == <<plan, asks, trace, script>>

BreakFlag == {"start", "tempstart", "action", "tempaction"}

\* ActionBase.Reset, and ActionGroup.Reset's state
Fresh(a) == [a EXCEPT !.status = "start", !.state = 1]

\* A host resets the tree for the function and performs it (ActionDatabase.Run).
Init ==
    /\ act = [n \in Node |-> [status |-> "start", count |-> 0, lcount |-> 0, state |-> 1]]
    /\ brk \in {b \in [Node -> SUBSET BreakFlag] : \A n \in Node : b[n] \subseteq Break[n]}
    /\ starts = 0
    /\ \E jt \in BOOLEAN : fd = [pending |-> FALSE, jumptable |-> jt, clears |-> 0, warned |-> 0]
    /\ stack = <<>> /\ pc = "idle" /\ res = 0
    /\ plan \in [Leaf -> 0..MaxPlan] /\ asks \in 0..MaxAsk
    /\ trace = <<>> /\ script = [plan |-> plan, asks |-> asks]

-----------------------------------------------------------------------------
Top == Last(stack)
SetStatus(n, s) == [act EXCEPT ![n].status = s]

Call ==
    /\ pc = "idle"
    /\ stack' = <<Root>> /\ pc' = "perform"
    /\ UNCHANGED <<act, brk, starts, fd, res, host>>

\* Perform of the top action returns v.
Return(v) == res' = v /\ pc' = "return"

\* checkStartBreak, checkActionBreak: a temporary breakpoint is cleared.
StartBreak(n) == brk[n] \cap {"start", "tempstart"} # {}
ActionBreak(n) == brk[n] \cap {"action", "tempaction"} # {}
Cleared(n, f) == [brk EXCEPT ![n] = @ \ {f}]

\* Mutant: an action resumed in the middle of its Apply forgets the changes of the
\* round before the break.
BeforeApplyAgain(a) == [a EXCEPT !.lcount = a.count]

\* lcount is the count before this round of Apply.
BeforeApply(a) == IF a.status = "mid" THEN a ELSE [a EXCEPT !.lcount = a.count]

\* Mutant: an action that stopped before its Apply stops there again.
StatusAtStartBreakSame == "start"

\* The status that lets the next Perform pass the start breakpoint
StatusAtStartBreak == "breakstarthit"

\* The switch at the head of Perform's loop, for an action that goes on to Apply
Perform ==
    LET n == Top
        a == IF act[n].status = "start" THEN [act[n] EXCEPT !.count = 0] ELSE act[n]
    IN  /\ pc = "perform" /\ a.status \notin {"end", "actionbreak"}
        /\ IF a.status = "start" /\ StartBreak(n)
           THEN /\ act' = [act EXCEPT ![n] = [a EXCEPT !.status = StatusAtStartBreak]]
                /\ brk' = Cleared(n, "tempstart")
                /\ Return(-1)
           ELSE /\ act' = [act EXCEPT ![n] =
                     [BeforeApply(a) EXCEPT !.state = IF a.status = "mid" THEN @ ELSE 1]]
                /\ pc' = IF n \in Leaf THEN "leaf" ELSE IF n = Root THEN "restart" ELSE "group"
                /\ UNCHANGED <<brk, res>>
        /\ UNCHANGED <<starts, fd, stack, host>>

\* An action that is done with this function
PerformEnd ==
    /\ pc = "perform" /\ act[Top].status = "end"
    /\ Return(0)
    /\ UNCHANGED <<act, brk, starts, fd, stack, host>>

\* Mutant: an action stopped after its Apply applies again.
PerformBreakAgain ==
    /\ pc = "perform" /\ act[Top].status = "actionbreak"
    /\ pc' = IF Top \in Leaf THEN "leaf" ELSE "after"
    /\ UNCHANGED <<act, brk, starts, fd, stack, res, host>>

\* An action stopped after its Apply goes straight to the repeat logic.
PerformBreak ==
    /\ pc = "perform" /\ act[Top].status = "actionbreak"
    /\ pc' = "tail"
    /\ UNCHANGED <<act, brk, starts, fd, stack, res, host>>

\* Apply of a leaf: it changes something or not, and may request a restart.
ApplyLeaf ==
    LET n == Top
        changes == plan[n] > 0
    IN  /\ pc = "leaf"
        /\ trace' = Append(trace, n)
        /\ act' = [act EXCEPT ![n].count = IF changes THEN @ + 1 ELSE @]
        /\ plan' = [plan EXCEPT ![n] = IF changes THEN @ - 1 ELSE @]
        /\ LET ask == n = Asker /\ asks > 0
           IN  /\ asks' = IF ask THEN asks - 1 ELSE asks
               /\ fd' = [fd EXCEPT !.pending = @ \/ ask]
        /\ pc' = "after"
        /\ UNCHANGED <<brk, starts, stack, res, script>>

\* ActionGroup.Apply: the next child; when none is left Apply returns 0.
ApplyGroup ==
    LET n == Top
        i == act[n].state
    IN  /\ pc = "group"
        /\ IF i <= Len(Kids[n])
           THEN stack' = Append(stack, Kids[n][i]) /\ pc' = "perform"
           ELSE stack' = stack /\ pc' = IF n = Root THEN "restarted" ELSE "after"
        /\ UNCHANGED <<act, brk, starts, fd, res, host>>

\* ActionRestartGroup.Apply: nothing after the last restart
ApplyRestart ==
    /\ pc = "restart"
    /\ pc' = IF starts = -1 THEN "after" ELSE "group"
    /\ UNCHANGED <<act, brk, starts, fd, stack, res, host>>

\* Mutant: one restart too many.
TooManyPlus(k) == k > MaxRestarts + 1

\* The restarts are used up.
TooMany(k) == k > MaxRestarts

\* ActionRestartGroup.Apply after its group ran to the end
Restart ==
    /\ pc = "restarted"
    /\ IF ~fd.pending THEN starts' = -1 /\ pc' = "after" /\ UNCHANGED <<act, fd>>
       ELSE IF fd.jumptable THEN pc' = "after" /\ UNCHANGED <<act, fd, starts>>
       ELSE IF TooMany(starts + 1)
       THEN starts' = -1 /\ pc' = "after" /\ fd' = [fd EXCEPT !.warned = @ + 1] /\ act' = act
       ELSE /\ starts' = starts + 1
            /\ fd' = [fd EXCEPT !.pending = FALSE, !.clears = @ + 1]
            /\ act' = [n \in Node |-> Fresh(act[n])]
            /\ pc' = "group"
    /\ UNCHANGED <<brk, stack, res, host>>

\* Perform after Apply returned 0, up to the action breakpoint
After ==
    LET n == Top
    IN  /\ pc = "after"
        /\ IF act[n].lcount < act[n].count /\ ActionBreak(n)
           THEN /\ act' = SetStatus(n, "actionbreak")
                /\ brk' = Cleared(n, "tempaction")
                /\ Return(-1)
           ELSE pc' = "tail" /\ UNCHANGED <<act, brk, res>>
        /\ UNCHANGED <<starts, fd, stack, host>>

\* The status Perform leaves behind: may the action run again in this function?
StatusAtEnd(n, count) ==
    IF "once" \in Flags[n] \/ ("oneact" \in Flags[n] /\ count > 0) THEN "end" ELSE "start"

\* The repeat logic and the end of Perform
PerformTail ==
    LET n == Top
        again == act[n].lcount < act[n].count /\ "repeat" \in Flags[n]
    IN  /\ pc = "tail"
        /\ act' = SetStatus(n, IF again THEN "repeat" ELSE StatusAtEnd(n, act[n].count))
        /\ IF again THEN pc' = "perform" /\ res' = res ELSE Return(act[n].count)
        /\ UNCHANGED <<brk, starts, fd, stack, host>>

\* A group that breaks after a child has changed something is past that child.
StateAtBreak(i) == i + 1

\* Perform of the top action returned res to the group below it, or to the host.
Returned ==
    LET below == Front(stack)
        g == Last(below)
    IN  /\ pc = "return"
        /\ stack' = below
        /\ IF below = <<>>
           THEN pc' = (IF res < 0 THEN "idle" ELSE "finished") /\ UNCHANGED <<act, brk, res>>
           ELSE IF res < 0                               \* Apply and Perform return -1
           THEN act' = SetStatus(g, "mid") /\ UNCHANGED <<brk, res, pc>>
           ELSE IF res > 0 /\ ActionBreak(g)
           THEN /\ act' = [act EXCEPT ![g].count = @ + res, ![g].status = "mid",
                                      ![g].state = StateAtBreak(@)]
                /\ brk' = Cleared(g, "tempaction")
                /\ res' = -1 /\ pc' = pc
           ELSE /\ act' = [act EXCEPT ![g].count = @ + res, ![g].state = @ + 1]
                /\ pc' = "group" /\ UNCHANGED <<brk, res>>
        /\ UNCHANGED <<starts, fd, host>>

Finished == pc = "finished" /\ UNCHANGED vars

Next ==
    \/ Call \/ Perform \/ PerformEnd \/ PerformBreak \/ ApplyLeaf \/ ApplyGroup
    \/ ApplyRestart \/ Restart \/ After \/ PerformTail \/ Returned \/ Finished

Spec == Init /\ [][Next]_vars
FairSpec == Spec /\ WF_vars(Next)

-----------------------------------------------------------------------------

ActionState == [status : {"start", "breakstarthit", "repeat", "mid", "end", "actionbreak"},
                count : Nat, lcount : Nat, state : Nat \ {0}]

\* Type invariant.
TypeOK ==
    /\ act \in [Node -> ActionState]
    /\ brk \in [Node -> SUBSET BreakFlag]
    /\ starts \in -1..MaxRestarts
    /\ fd \in [pending : BOOLEAN, jumptable : BOOLEAN, clears : Nat, warned : Nat]
    /\ stack \in Seq(Node)
    /\ pc \in {"idle", "perform", "leaf", "group", "restart", "restarted", "after", "tail",
              "return", "finished"}
    /\ res \in Nat \cup {-1}
    /\ plan \in [Leaf -> Nat] /\ asks \in Nat /\ trace \in Seq(Leaf)

\* The function is restarted at most MaxRestarts times, and exceeding that is
\* reported exactly when a request is left over.
RestartsBounded ==
    /\ fd.clears <= MaxRestarts
    /\ pc = "finished" /\ ~fd.jumptable => (fd.warned = 1 <=> fd.pending)

\* Performing ends, if the host resumes after every breakpoint.
Terminates == <>(pc = "finished")
=============================================================================
