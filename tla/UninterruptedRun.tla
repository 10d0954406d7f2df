-------------------------- MODULE UninterruptedRun --------------------------
(***************************************************************************)
(* An action tree (pkg/pcode/action.go) performed from beginning to end: no   *)
(* breakpoints, no statuses, no way back into what was left.  An action is    *)
(* entered, applied in rounds, and hands the number of its changes to the     *)
(* group it belongs to.  Which action is to move follows from the frames: it  *)
(* is the one of the active ones that has no active child.                    *)
(***************************************************************************)
EXTENDS Integers, Sequences

CONSTANTS Node, Root, Kids, Flags, Asker, MaxRestarts   \* as in ActionTree

VARIABLES
    frame,      \* for each action where it is, its next child, its changes so far
                \* and its changes before this round
    over,       \* the actions that are done with this function
    starts, fd, plan, asks, trace   \* as in ActionTree

uvars == <<frame, over, starts, fd, plan, asks, trace>>

Leaf == {n \in Node \ {Root} : Kids[n] = <<>>}
Frame(mode, at, count, before) == [mode |-> mode, at |-> at, count |-> count, before |-> before]
Out == Frame("out", 1, 0, 0)

\* n is to move, and it is in the given mode.
Moves(n, mode) ==
    /\ frame[n].mode = mode
    /\ \A i \in DOMAIN Kids[n] : frame[Kids[n][i]].mode = "out"

Init ==
    /\ frame = [n \in Node |-> IF n = Root THEN Frame("enter", 1, 0, 0) ELSE Out]
    /\ over = {}
    /\ starts = 0
    /\ fd.pending = FALSE /\ fd.clears = 0 /\ fd.warned = 0
    /\ trace = <<>>

\* A round of Apply begins.
Enter(n) ==
    /\ Moves(n, "enter") /\ n \notin over
    /\ frame' = [frame EXCEPT ![n] = Frame("apply", 1, frame[n].count, frame[n].count)]
    /\ UNCHANGED <<over, starts, fd, plan, asks, trace>>

\* An action that is done is not applied and has changed nothing.
Skip(n) ==
    /\ Moves(n, "enter") /\ n \in over
    /\ frame' = [frame EXCEPT ![n] = Frame("return", 1, 0, 0)]
    /\ UNCHANGED <<over, starts, fd, plan, asks, trace>>

\* A leaf changes something or not, and may request a restart.
ApplyLeaf(n) ==
    LET changes == plan[n] > 0
        ask == n = Asker /\ asks > 0
    IN  /\ n \in Leaf /\ Moves(n, "apply")
        /\ trace' = Append(trace, n)
        /\ frame' = [frame EXCEPT ![n] =
              Frame("check", frame[n].at, IF changes THEN frame[n].count + 1 ELSE frame[n].count, frame[n].before)]
        /\ plan' = [plan EXCEPT ![n] = IF changes THEN plan[n] - 1 ELSE plan[n]]
        /\ asks' = IF ask THEN asks - 1 ELSE asks
        /\ fd' = [fd EXCEPT !.pending = fd.pending \/ ask]
        /\ UNCHANGED <<over, starts>>

\* A group performs its next child.
Descend(n) ==
    /\ n \notin Leaf /\ Moves(n, "apply") /\ (n = Root => starts # -1)
    /\ frame[n].at <= Len(Kids[n])
    /\ frame' = [frame EXCEPT ![Kids[n][frame[n].at]] = Frame("enter", 1, 0, 0)]
    /\ UNCHANGED <<over, starts, fd, plan, asks, trace>>

\* The child returns its changes to the group and the group goes on to the next.
Return(g) ==
    LET n == Kids[g][frame[g].at]
    IN  /\ frame[g].mode = "apply" /\ frame[g].at <= Len(Kids[g]) /\ Moves(n, "return")
        /\ frame' = [frame EXCEPT ![n] = Out, ![g].count = frame[g].count + frame[n].count,
                                  ![g].at = frame[g].at + 1]
        /\ UNCHANGED <<over, starts, fd, plan, asks, trace>>

\* A group has performed its children.
EndGroup(n) ==
    /\ n \notin Leaf \cup {Root} /\ Moves(n, "apply") /\ frame[n].at > Len(Kids[n])
    /\ frame' = [frame EXCEPT ![n].mode = "check"]
    /\ UNCHANGED <<over, starts, fd, plan, asks, trace>>

\* The restart group has: it starts from the beginning with nothing done, if that
\* was requested and the restarts are not used up.
EndRoot ==
    LET left == fd.pending /\ ~fd.jumptable
        again == left /\ starts + 1 <= MaxRestarts
    IN  /\ Moves(Root, "apply") /\ starts # -1 /\ frame[Root].at > Len(Kids[Root])
        /\ frame' = IF again
                    THEN [n \in Node |-> IF n = Root THEN [frame[n] EXCEPT !.at = 1] ELSE Out]
                    ELSE [frame EXCEPT ![Root].mode = "check"]
        /\ over' = IF again THEN {} ELSE over
        /\ starts' = IF again THEN starts + 1 ELSE IF fd.pending /\ fd.jumptable THEN starts ELSE -1
        /\ fd' = IF again THEN [fd EXCEPT !.pending = FALSE, !.clears = fd.clears + 1]
                 ELSE IF left THEN [fd EXCEPT !.warned = fd.warned + 1] ELSE fd
        /\ UNCHANGED <<plan, asks, trace>>

\* Nothing more after the last restart.
SkipRoot ==
    /\ Moves(Root, "apply") /\ starts = -1
    /\ frame' = [frame EXCEPT ![Root].mode = "check"]
    /\ UNCHANGED <<over, starts, fd, plan, asks, trace>>

\* The end of a round: another one, or the action is left.
EndRound(n) ==
    LET f == frame[n]
        again == f.before < f.count /\ "repeat" \in Flags[n]
        done == "once" \in Flags[n] \/ ("oneact" \in Flags[n] /\ f.count > 0)
    IN  /\ Moves(n, "check")
        /\ frame' = [frame EXCEPT ![n] = Frame(IF again THEN "enter" ELSE "return", 1, f.count, 0)]
        /\ over' = IF ~again /\ done THEN over \cup {n} ELSE over
        /\ UNCHANGED <<starts, fd, plan, asks, trace>>

Next ==
    \/ \E n \in Node : Enter(n) \/ Skip(n) \/ ApplyLeaf(n) \/ Descend(n) \/ Return(n)
                       \/ EndGroup(n) \/ EndRound(n)
    \/ EndRoot \/ SkipRoot

Spec == Init /\ [][Next]_uvars
=============================================================================
