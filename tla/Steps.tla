------------------------------- MODULE Steps -------------------------------
(***************************************************************************)
(* Sequencing.  Code that edits a large value in steps, each reading the   *)
(* last one's result several times, is written with these: the value of    *)
(* every step is computed once and bound to a name.                        *)
(***************************************************************************)
LOCAL INSTANCE Integers
LOCAL INSTANCE Sequences

\* step(x) for the value x of e.
Then(e, step(_)) == CHOOSE y \in {step(x) : x \in {e}} : TRUE

\* step(... step(step(base, s[1]), s[2]) ..., s[n]).
Each(step(_, _), base, s) ==
    Then(s, LAMBDA q : LET go[k \in 0..Len(q)] ==
                              IF k = 0 THEN base ELSE Then(go[k - 1], LAMBDA x : step(x, q[k]))
                       IN go[Len(q)])
=============================================================================
