--------------------------- MODULE MCPlanExecutor ---------------------------
(***************************************************************************)
(* A small instance of PlanExecutor: plans of three steps with every shape *)
(* of dependency that validation lets through (none, an earlier step, both *)
(* earlier steps, an order that no step has), and plans in which two steps *)
(* have the same order.                                                    *)
(***************************************************************************)
EXTENDS PlanExecutor

MCDeps ==
  {[s \in 1..3 |-> CASE s = 1 -> one [] s = 2 -> two [] OTHER -> three] :
     one \in {{}, {0}}, two \in {{}, {1}, {0, 1}},
     three \in {{}, {1}, {2}, {1, 2}, {0, 2}}}

\* Orders that differ; the last step's two predecessors of one order; the last
\* two steps of one order.
MCOrders == {<<1, 2, 3>>, <<2, 2, 3>>, <<1, 3, 3>>}

MCShapes ==
  {plan \in
     {[order |-> order, deps |-> deps, conditional |-> [s \in 1..3 |-> lenient],
       auto |-> [s \in 1..3 |-> s # 2 \/ auto]] :
        order \in MCOrders, deps \in MCDeps, lenient \in BOOLEAN, auto \in BOOLEAN} :
   Validated(plan)}
=============================================================================
