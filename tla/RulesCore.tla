----------------------------- MODULE RulesCore -----------------------------
(***************************************************************************)
(* The rules of the analysis pool that every family of rules relies on:    *)
(* copies are read through, constants folded and put second, unread ops    *)
(* removed.  An action is enabled where the rule's apply returns 1, for    *)
(* whichever op of the block is visited: the order of visits is the        *)
(* subject of RulePool.                                                    *)
(***************************************************************************)
EXTENDS PcodeExpr

\* One COPY is read through, the first one in slot order.
RulePropagateCopy(i) ==
    LET o == g.op[i]
        copied == {k \in DOMAIN o.in : DefinedBy(g, o.in[k], "COPY")}
    IN \E k \in copied :
          /\ \A l \in copied : k <= l
          /\ g' = SetIn(g, i, k, In(g, o.in[k][2], 1))

Commutative == {"INT_EQUAL", "INT_NOTEQUAL", "INT_ADD", "INT_CARRY", "INT_SCARRY", "INT_XOR", "INT_AND",
                "INT_OR", "INT_MULT", "BOOL_XOR", "BOOL_AND", "BOOL_OR"}

RuleTermOrder(i) ==
    LET o == g.op[i]
    IN /\ o.code \in Commutative /\ IsConstant(o.in[1]) /\ ~IsConstant(o.in[2])
       /\ g' = SetOp(g, i, o.code, <<o.in[2], o.in[1]>>)

\* COPY is not collapsible; an op whose value is undefined stays.
RuleCollapseConstants(i) ==
    LET o == g.op[i]
        v == o.in[1]
        res == IF o.code \in Unary THEN evaluateUnary(o.code, o.size, v[3], v[2])
               ELSE evaluateBinary(o.code, o.size, v[3], v[2], o.in[2][2])
    IN /\ o.code # "COPY" /\ \A k \in DOMAIN o.in : IsConstant(o.in[k])
       /\ res # Undef
       /\ g' = SetOp(g, i, "COPY", <<Const(truncateToSize(res, o.size), o.size)>>)

RuleEarlyRemoval(i) ==
    /\ i \notin g.live /\ Readers(g, Out(i)) = {}
    /\ g' = OpDestroy(g, i)

Core(i) == RulePropagateCopy(i) \/ RuleTermOrder(i) \/ RuleCollapseConstants(i)
\* A removal shrinks the block: it is not counted as a rewrite.
Removal == g.pool = "oppool1" /\ (\E i \in Ids(g) : RuleEarlyRemoval(i)) /\ UNCHANGED <<want, steps>>
=============================================================================
