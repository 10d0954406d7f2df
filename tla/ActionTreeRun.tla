--------------------------- MODULE ActionTreeRun ---------------------------
(***************************************************************************)
(* What the action engine of ActionTree has to amount to: the same tree run   *)
(* as a structured program, without statuses, breakpoints or a stack.        *)
(***************************************************************************)
EXTENDS ActionTreeResume

\* A state s has the plan and asks left, the pending request, the actions that
\* are done and the trace.
RECURSIVE RunNode(_, _), RunKids(_, _, _), RunRounds(_, _, _), RunStarts(_, _, _)

RunLeaf(n, s) ==
    LET changes == s.plan[n] > 0
        ask == n = Asker /\ s.asks > 0
    IN  [s EXCEPT !.trace = Append(@, n), !.plan[n] = IF changes THEN @ - 1 ELSE @,
                  !.asks = IF ask THEN @ - 1 ELSE @, !.pending = @ \/ ask,
                  !.ret = IF changes THEN 1 ELSE 0]

\* The children from the i-th on, one after the other; ret is the sum.
RunKids(n, i, s) ==
    IF i > Len(Kids[n]) THEN [s EXCEPT !.ret = 0]
    ELSE LET t == RunNode(Kids[n][i], s)
             u == RunKids(n, i + 1, t)
         IN  [u EXCEPT !.ret = @ + t.ret]

\* Rounds of n while they change something, if it repeats
RunRounds(n, sum, s) ==
    LET t == IF n \in Leaf THEN RunLeaf(n, s) ELSE RunKids(n, 1, s)
    IN  IF t.ret > 0 /\ "repeat" \in Flags[n] THEN RunRounds(n, sum + t.ret, t)
        ELSE [t EXCEPT !.ret = sum + @]

RunNode(n, s) ==
    IF n \in s.done THEN [s EXCEPT !.ret = 0]
    ELSE LET t == RunRounds(n, 0, s)
         IN  [t EXCEPT !.done = IF "once" \in Flags[n] \/ ("oneact" \in Flags[n] /\ t.ret > 0)
                                THEN @ \cup {n} ELSE @]

\* The whole tree, with k restarts behind it
RunStarts(k, sum, s) ==
    LET t == RunKids(Root, 1, s)
    IN  IF t.pending /\ ~fd.jumptable /\ k < MaxRestarts
        THEN RunStarts(k + 1, sum + t.ret, [t EXCEPT !.pending = FALSE, !.done = {}])
        ELSE [t EXCEPT !.ret = sum + @]

Reference == RunStarts(0, 0, [plan |-> script.plan, asks |-> script.asks, pending |-> FALSE,
                              done |-> {}, trace |-> <<>>, ret |-> 0])

-----------------------------------------------------------------------------

\* However breakpoints interrupt it, a run applies the same leaf actions in the
\* same order as the structured program, and returns the same count.
TraceRight == pc = "finished" => trace = Reference.trace /\ res = Reference.ret
=============================================================================
