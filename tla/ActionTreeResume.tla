-------------------------- MODULE ActionTreeResume --------------------------
(***************************************************************************)
(* ActionTree, whatever breakpoints stop it and wherever the host resumes     *)
(* it, does what UninterruptedRun does.  What a breakpoint leaves behind are   *)
(* the statuses of the actions it unwound; they say where each action still    *)
(* is in the run that was interrupted.                                       *)
(***************************************************************************)
EXTENDS ActionTree

\* Each action belongs to one group, in one place.
ASSUME TreeAssumption ==
    \A g, h \in Node : \A i \in 1..Len(Kids[g]), j \in 1..Len(Kids[h]) :
        Kids[g][i] = Kids[h][j] => g = h /\ i = j

\* Where an action that is not being performed stopped
Stopped(s) == CASE s = "breakstarthit" -> "enter"
                [] s = "mid" -> "apply"
                [] s = "actionbreak" -> "check"
                [] OTHER -> "out"

Below(n) == \E i \in 1..(Len(stack) - 1) : stack[i] = n

\* Where the action on top of the stack is, by what Perform does next
TopMode(p, r, s) ==
    CASE p \in {"leaf", "group", "restart", "restarted"} -> "apply"
      [] p \in {"after", "tail"} -> "check"
      [] p = "return" /\ r >= 0 -> "return"
      [] p = "perform" /\ Stopped(s) = "out" -> "enter"
      [] OTHER -> Stopped(s)

\* Where the action n is in the uninterrupted run; between two calls the host is
\* about to perform the root.
ModeOf(n) ==
    IF Below(n) THEN "apply"
    ELSE IF stack # <<>> /\ n = Top THEN TopMode(pc, res, act[n].status)
    ELSE IF n = Root /\ pc = "finished" THEN "return"
    ELSE IF n = Root /\ pc = "idle" THEN TopMode("perform", 0, act[n].status)
    ELSE Stopped(act[n].status)

\* The frame of an action in that mode
FrameAt(m, a, r) ==
    [mode |-> m,
     at |-> IF m \in {"apply", "check"} THEN a.state ELSE 1,
     count |-> CASE m \in {"apply", "check"} -> a.count
                 [] m = "enter" /\ a.status = "repeat" -> a.count
                 [] m = "return" -> r
                 [] OTHER -> 0,
     before |-> IF m \in {"apply", "check"} THEN a.lcount ELSE 0]

Frames == [n \in Node |-> FrameAt(ModeOf(n), act[n], res)]
Over == {n \in Node : act[n].status = "end"}

Uninterrupted == INSTANCE UninterruptedRun WITH frame <- Frames, over <- Over

-----------------------------------------------------------------------------

\* A breakpoint is never noticed by what runs: interrupted anywhere and resumed by
\* Perform, the tree takes the steps of a run without breakpoints; nothing is applied
\* twice, skipped or counted twice (ActionBase.Perform, ActionGroup.Apply).
BreaksUnnoticed == Uninterrupted!Spec
=============================================================================
