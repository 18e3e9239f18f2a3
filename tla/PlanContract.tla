---------------------------- MODULE PlanContract ----------------------------
(***************************************************************************)
(* What the plan executor promises an operator, with no mention of rows,   *)
(* caches, coroutines or restarts.  A plan waits until it may start: if    *)
(* one of its steps needs approval, until the operator approved it.  Its   *)
(* steps are then taken in order, each only once every step it depends on  *)
(* is met.  A step is run at most once in each life of the process, it is  *)
(* met only after it was run, and what is met is never taken back nor run  *)
(* again.  The first step that is lost fails the plan; a plan whose steps  *)
(* are all met is completed; either is final.                              *)
(*                                                                         *)
(* A step is never passed over for a lost one: the plan has failed by      *)
(* then.  Steps that have the same order stand and fall together: the      *)
(* first of them is taken, and the others are never run.                   *)
(***************************************************************************)
EXTENDS Naturals

CONSTANTS
  Step,     \* the steps of the plan, natural numbers in the order they are
            \* taken; an order is written as the last step that has it
  Shapes    \* the plans that may be proposed

VARIABLES
  shape,        \* the plan: the order of each step, the orders it depends on,
                \* AUTO_FIX steps
  permission,   \* what became of the request for approval
  progress,     \* where the plan is
  standing,     \* "open", "met" or "lost" for each order
  effects,      \* how often each step was run
  lives         \* how many lives the process has had

vars == <<shape, permission, progress, standing, effects, lives>>

NeedsApproval == \E s \in Step : ~shape.auto[s]
Orders == {shape.order[s] : s \in Step}

\* It is the turn of s, and what s depends on is there.
Turn(s) == progress = "running" /\ standing[shape.order[s]] = "open"
           /\ \A t \in Step : t < s => standing[shape.order[t]] = "met"
Supplied(s) == \A d \in shape.deps[s] : d \in Orders /\ standing[d] = "met"

Init ==
  /\ shape \in Shapes
  /\ permission = "absent"
  /\ progress = "waiting"
  /\ standing = [s \in Step |-> "open"]
  /\ effects = [s \in Step |-> 0]
  /\ lives = 1

-----------------------------------------------------------------------------
\* The operator is asked, and answers, or the request lapses.
Ask ==
  /\ progress = "waiting" /\ permission = "absent"
  /\ permission' = "pending"
  /\ UNCHANGED <<shape, progress, standing, effects, lives>>

Decide ==
  /\ progress = "waiting" /\ permission = "pending"
  /\ permission' \in {"approved", "rejected", "expired"}
  /\ UNCHANGED <<shape, progress, standing, effects, lives>>

Start ==
  /\ progress = "waiting"
  /\ NeedsApproval => permission = "approved"
  /\ progress' = "running"
  /\ UNCHANGED <<shape, permission, standing, effects, lives>>

Reject ==
  /\ progress = "waiting" /\ permission = "rejected"
  /\ progress' = "rejected"
  /\ UNCHANGED <<shape, permission, standing, effects, lives>>

\* Step s is run: once in each life of the process.
Run(s) ==
  /\ Turn(s) /\ Supplied(s)
  /\ effects[s] < lives
  /\ effects' = [effects EXCEPT ![s] = @ + 1]
  /\ UNCHANGED <<shape, permission, progress, standing, lives>>

Succeed(s) ==
  /\ Turn(s) /\ Supplied(s)
  /\ effects[s] > 0
  /\ standing' = [standing EXCEPT ![shape.order[s]] = "met"]
  /\ UNCHANGED <<shape, permission, progress, effects, lives>>

Lose(s) ==
  /\ Turn(s)
  /\ standing' = [standing EXCEPT ![shape.order[s]] = "lost"]
  /\ progress' = "failed"
  /\ UNCHANGED <<shape, permission, effects, lives>>

Complete ==
  /\ progress = "running"
  /\ \A s \in Step : standing[shape.order[s]] = "met"
  /\ progress' = "completed"
  /\ UNCHANGED <<shape, permission, standing, effects, lives>>

\* The process is cut short; what is known of the plan survives.
Interrupt ==
  /\ lives' = lives + 1
  /\ UNCHANGED <<shape, permission, progress, standing, effects>>

Next ==
  \/ Ask \/ Decide \/ Start \/ Reject
  \/ \E s \in Step : Run(s) \/ Succeed(s) \/ Lose(s)
  \/ Complete \/ Interrupt

Spec == Init /\ [][Next]_vars

=============================================================================
