----------------------------- MODULE MCRulePool -----------------------------
(***************************************************************************)
(* RulePool with two opcodes that share a rule.                             *)
(***************************************************************************)
EXTENDS RulePool

Rules2 == [c \in {"ADD", "COPY"} |->
             IF c = "ADD" THEN <<"collapse", "order">> ELSE <<"propagate", "collapse">>]
=============================================================================
