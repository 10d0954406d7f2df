---------------------------- MODULE MCActionTree ----------------------------
(***************************************************************************)
(* A universal action in miniature: a start action, a repeating loop with a   *)
(* repeating pool and an action that acts once, and a closing action.         *)
(***************************************************************************)
EXTENDS ActionTreeRun

MCNode == {"universal", "start", "mainloop", "pool", "infer", "stop"}
MCKids == [n \in MCNode |-> CASE n = "universal" -> <<"start", "mainloop", "stop">>
                              [] n = "mainloop" -> <<"pool", "infer">>
                              [] OTHER -> <<>>]
MCFlags == [n \in MCNode |-> CASE n \in {"universal", "start"} -> {"once"}
                               [] n \in {"mainloop", "pool"} -> {"repeat"}
                               [] n = "infer" -> {"oneact"}
                               [] OTHER -> {}]

\* Breakpoints on the loop and on one leaf
MCBreak == [n \in MCNode |-> CASE n = "mainloop" -> {"tempstart", "action"}
                               [] n = "pool" -> {"start", "tempaction"}
                               [] n = "infer" -> {"action"}
                               [] OTHER -> {}]
=============================================================================
