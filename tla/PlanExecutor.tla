---------------------------- MODULE PlanExecutor ----------------------------
(***************************************************************************)
(* One multi-step remediation plan, from the T2 diagnosis that proposes it *)
(* to its terminal status: engine/plan_executor.py and the orchestrator    *)
(* coroutines that drive it.  The plan's entry in the approval queue is    *)
(* the atomic one of ApprovalContract, which PendingQueue implements.      *)
(*                                                                         *)
(* Every status change is made in memory and written to SQLite before the  *)
(* next one, with no other writer of the plan in between; a crash between  *)
(* the two leaves what a crash before both leaves.  Save is that pair.     *)
(* The handler call is a step of its own: it is what a crash can separate  *)
(* from the record of it.                                                  *)
(***************************************************************************)
EXTENDS Naturals

CONSTANTS
  N,               \* number of steps of the plan, in their sorted order
  Shapes,          \* the plans T2 may propose
  MaxCrashes,      \* bound on crashes
  ResumeExecutes   \* whether the caller of resume_in_progress executes what
                   \* it returns: tests/test_plan_executor.py does,
                   \* Orchestrator.start does not

Step == 1..N

\* The orders T2 gave the steps, each written as the last step that has it:
\* the one whose StepState execute_plan finds under that order.  What
\* depends_on may name besides is the order of no step.
Order == 0..N

\* _validate_plan_steps strips the steps that depend on an unknown order or
\* on one not below their own.  It does so in one pass: a step that depends
\* on a stripped one stays, and names an order that no step has.  Nothing
\* there looks for an order that two steps have.
Validated(plan) ==
  \A s \in Step :
    /\ plan.order[s] >= s /\ plan.order[plan.order[s]] = plan.order[s]
    /\ \A t \in Step : s <= t => plan.order[s] <= plan.order[t]
    /\ \A d \in plan.deps[s] : d < plan.order[s]

ASSUME PlanAssumption ==
  /\ N \in Nat \ {0}
  /\ Shapes \subseteq [order : [Step -> Step],
                       deps : [Step -> SUBSET Order],
                       conditional : [Step -> BOOLEAN],
                       auto : [Step -> BOOLEAN]]
  /\ \A plan \in Shapes : Validated(plan)
  /\ MaxCrashes \in Nat
  /\ ResumeExecutes \in BOOLEAN

VARIABLES
  shape,     \* the plan: orders, dependencies, conditional and AUTO_FIX steps
  up,        \* the process is running
  entry,     \* the plan's entry in the approval queue
  disk,      \* the plan's row in remediation_plans
  mem,       \* the plan in the _plans dict ("absent": not in the dict)
  pc,        \* where the coroutine that drives the plan is
  cur,       \* the step that execute_plan has reached
  effects,   \* how often each step's handler was run
  recorded,  \* steps whose attempt this process told the circuit breaker
  crashes

vars == <<shape, up, entry, disk, mem, pc, cur, effects, recorded, crashes>>

-----------------------------------------------------------------------------
Terminal == {"completed", "failed", "rejected", "expired"}
PlanStatus == {"absent", "pending_approval", "executing"} \union Terminal

Met == {"succeeded", "skipped"}      \* satisfies whoever depends on it
Lost == {"failed", "blocked"}
StepStatus ==
  {"pending", "ready", "executing", "verifying"} \union Met \union Lost

Plan == [status : PlanStatus, state : [Step -> StepStatus]]
NoPlan == [status |-> "absent", state |-> [s \in Step |-> "pending"]]

Running == {"step", "execute", "executed", "verify"}
Driving == {"offer", "approved", "rejected", "start"} \union Running

TypeOK ==
  /\ shape \in Shapes
  /\ up \in BOOLEAN
  /\ entry \in {"absent", "pending", "approved", "rejected", "expired"}
  /\ disk \in Plan /\ mem \in Plan
  /\ pc \in {"new", "idle"} \union Driving
  /\ cur \in 1..(N + 1) /\ (pc \in Running \ {"step"} => cur \in Step)
  /\ effects \in [Step -> Nat]
  /\ recorded \subseteq Step
  /\ crashes \in 0..MaxCrashes
  /\ pc \in Driving => up
  /\ ~up => mem = NoPlan

-----------------------------------------------------------------------------
(* Helpers                                                                 *)

\* The orders of the plan's steps: the keys of state_by_order.
Orders == {shape.order[s] : s \in Step}

\* MUTANT: a dependency that no step has is passed over.
DepVerdict_Optimistic(s, state) ==
  IF \A d \in shape.deps[s] \cap Orders : state[d] \in Met
  THEN {"ready"} ELSE {"blocked"}

\* _evaluate_dependencies.  An order no step has, or a dependency that has
\* not run, blocks; so does a lost one unless this step is conditional.  The
\* first unmet dependency in the list decides.
DepVerdict(s, state) ==
  LET Unmet == {d \in shape.deps[s] : d \notin Orders \/ state[d] \notin Met}
      Lenient(d) == /\ d \in Orders
                    /\ state[d] \in Lost
                    /\ shape.conditional[s]
  IN  IF Unmet = {} THEN {"ready"}
      ELSE {IF Lenient(d) THEN "skipped" ELSE "blocked" : d \in Unmet}

\* requires_approval: "True if any step has risk_tier != AUTO_FIX".
RequiresApproval_All == \A s \in Step : ~shape.auto[s]    \* MUTANT: all steps
RequiresApproval == \E s \in Step : ~shape.auto[s]

\* "Steps in EXECUTING at crash are reset to READY".
Retry(state) ==
  [s \in Step |-> IF state[s] = "executing" THEN "ready" ELSE state[s]]

\* The StepState that the current step works on, "state_by_order[step.order]",
\* and the step states with that one moved on.  Steps of one order share it.
Current == mem.state[shape.order[cur]]
Reached(status) == [mem.state EXCEPT ![shape.order[cur]] = status]

\* A change in memory and _persist_plan.
Save(status, state) ==
  /\ mem' = [status |-> status, state |-> state]
  /\ disk' = [status |-> status, state |-> state]

\* The plan the driver works on: cached, or loaded from its row.
Loaded == IF mem.status = "absent" THEN disk ELSE mem

-----------------------------------------------------------------------------
(* Creation and approval: _dispatch_remediation_plan, _process_approval,   *)
(* _process_rejection and the CAS methods behind them.                     *)

\* create_plan: auto-execute plans skip PENDING_APPROVAL.
Create ==
  /\ up /\ pc = "new"
  /\ Save(IF RequiresApproval THEN "pending_approval" ELSE "executing",
          NoPlan.state)
  /\ pc' = IF RequiresApproval THEN "offer" ELSE "start"
  /\ UNCHANGED <<shape, up, entry, cur, effects, recorded, crashes>>

\* PendingQueue.add with the plan's id.
Offer ==
  /\ pc = "offer"
  /\ entry' = "pending"
  /\ pc' = "idle"
  /\ UNCHANGED <<shape, up, disk, mem, cur, effects, recorded, crashes>>

\* PendingQueue.approve or reject won the race for the entry.
Decide(verdict) ==
  /\ up /\ entry = "pending"
  /\ entry' = verdict
  /\ pc' = verdict
  /\ UNCHANGED <<shape, up, disk, mem, cur, effects, recorded, crashes>>

\* expire_stale, or the rejections of _shutdown: they decide the entry and
\* never touch the plan.
Dismiss ==
  /\ up /\ entry = "pending"
  /\ entry' \in {"expired", "rejected"}
  /\ UNCHANGED <<shape, up, disk, mem, pc, cur, effects, recorded, crashes>>

\* approve_plan, then straight on to execute_plan.
ApprovePlan ==
  /\ pc = "approved"
  /\ \/ /\ Loaded.status = "pending_approval"
        /\ Save("executing", Loaded.state)
        /\ pc' = "start"
     \/ /\ Loaded.status # "pending_approval"
        /\ mem' = Loaded
        /\ pc' = "idle"
        /\ UNCHANGED disk
  /\ UNCHANGED <<shape, up, entry, cur, effects, recorded, crashes>>

\* reject_plan.
RejectPlan ==
  /\ pc = "rejected"
  /\ \/ /\ Loaded.status = "pending_approval"
        /\ Save("rejected", Loaded.state)
     \/ /\ Loaded.status # "pending_approval"
        /\ mem' = Loaded
        /\ UNCHANGED disk
  /\ pc' = "idle"
  /\ UNCHANGED <<shape, up, entry, cur, effects, recorded, crashes>>

-----------------------------------------------------------------------------
(* execute_plan                                                            *)

\* MUTANT: the step states are renewed with every execution.
Start_Renews ==
  /\ pc = "start"
  /\ Save("executing", NoPlan.state)
  /\ cur' = 1
  /\ pc' = "step"
  /\ UNCHANGED <<shape, up, entry, effects, recorded, crashes>>

\* The status is written before EXECUTING steps are reset in memory.
Start ==
  /\ pc = "start"
  /\ disk' = [status |-> "executing", state |-> mem.state]
  /\ mem' = [status |-> "executing", state |-> Retry(mem.state)]
  /\ cur' = 1
  /\ pc' = "step"
  /\ UNCHANGED <<shape, up, entry, effects, recorded, crashes>>

\* MUTANT: the next step but one.
Advance_Twice == pc' = "step" /\ cur' = cur + 2

\* The end of one step, well or badly: on to the next one, or out with the
\* plan FAILED.
Advance == pc' = "step" /\ cur' = cur + 1
Abandon(status) ==
  /\ Save("failed", Reached(status))
  /\ pc' = "idle"
  /\ UNCHANGED cur

\* "Skip already-completed steps (resume scenario)"
PassStep ==
  /\ pc = "step" /\ cur <= N
  /\ Current \in Met
  /\ Advance
  /\ UNCHANGED <<shape, up, entry, disk, mem, effects, recorded, crashes>>

\* A step whose dependencies are not met is skipped or fails the plan.
LeaveStep ==
  /\ pc = "step" /\ cur <= N
  /\ Current \notin Met
  /\ \E verdict \in DepVerdict(cur, mem.state) \ {"ready"} :
       IF verdict = "skipped"
       THEN Save(mem.status, Reached("skipped")) /\ Advance
       ELSE Abandon("blocked")
  /\ UNCHANGED <<shape, up, entry, effects, recorded, crashes>>

\* MUTANT: EXECUTING is not written before the handler runs.
BeginStep_Unwritten ==
  /\ pc = "step" /\ cur <= N
  /\ Current \notin Met
  /\ "ready" \in DepVerdict(cur, mem.state)
  /\ mem' = [mem EXCEPT !.state = Reached("executing")] /\ UNCHANGED disk
  /\ pc' = "execute"
  /\ UNCHANGED <<shape, up, entry, cur, effects, recorded, crashes>>

BeginStep ==
  /\ pc = "step" /\ cur <= N
  /\ Current \notin Met
  /\ "ready" \in DepVerdict(cur, mem.state)
  /\ Save(mem.status, Reached("executing"))
  /\ pc' = "execute"
  /\ UNCHANGED <<shape, up, entry, cur, effects, recorded, crashes>>

\* handler.execute(): the operation is performed, in whole or in part.
Execute ==
  /\ pc = "execute"
  /\ effects' = [effects EXCEPT ![cur] = @ + 1]
  /\ pc' = "executed"
  /\ UNCHANGED <<shape, up, entry, disk, mem, cur, recorded, crashes>>

\* No such handler, or an exception out of it, before or after it did
\* something: neither is an attempt the circuit breaker hears of.
Raise ==
  /\ pc \in {"execute", "executed"}
  /\ Abandon("failed")
  /\ UNCHANGED <<shape, up, entry, effects, recorded, crashes>>

\* The handler returned: record_attempt, then VERIFYING or out.
Return ==
  /\ pc = "executed"
  /\ recorded' = recorded \union {cur}
  /\ \/ Save(mem.status, Reached("verifying")) /\ pc' = "verify" /\ UNCHANGED cur
     \/ Abandon("failed")
  /\ UNCHANGED <<shape, up, entry, effects, crashes>>

\* MUTANT: a step whose verification failed does not end the plan.
Verify_GoesOn ==
  /\ pc = "verify"
  /\ \/ Save(mem.status, Reached("succeeded")) /\ Advance
     \/ Save(mem.status, Reached("failed")) /\ Advance
  /\ UNCHANGED <<shape, up, entry, effects, recorded, crashes>>

\* MUTANT: a step whose verification failed is tried once more.
Verify_Retries ==
  /\ pc = "verify"
  /\ \/ Save(mem.status, Reached("succeeded")) /\ Advance
     \/ Save(mem.status, Reached("ready")) /\ pc' = "step" /\ UNCHANGED cur
  /\ UNCHANGED <<shape, up, entry, effects, recorded, crashes>>

\* handler.verify(): verified, or not verified, or raised.
Verify ==
  /\ pc = "verify"
  /\ \/ Save(mem.status, Reached("succeeded")) /\ Advance
     \/ Abandon("failed")
  /\ UNCHANGED <<shape, up, entry, effects, recorded, crashes>>

\* MUTANT: the plan is over before its last step.
Complete_Early ==
  /\ pc = "step" /\ cur >= N
  /\ Save("completed", mem.state)
  /\ pc' = "idle"
  /\ UNCHANGED <<shape, up, entry, cur, effects, recorded, crashes>>

Complete ==
  /\ pc = "step" /\ cur > N
  /\ Save("completed", mem.state)
  /\ pc' = "idle"
  /\ UNCHANGED <<shape, up, entry, cur, effects, recorded, crashes>>

-----------------------------------------------------------------------------
(* Crashes and restarts.  A stop cancels the driving coroutine, which no   *)
(* handler of execute_plan catches: to the plan it is a crash.             *)

Crash ==
  /\ up /\ crashes < MaxCrashes
  /\ up' = FALSE
  /\ crashes' = crashes + 1
  /\ mem' = NoPlan
  /\ pc' = IF pc = "new" THEN "new" ELSE "idle"
  /\ cur' = 1
  /\ recorded' = {}
  /\ UNCHANGED <<shape, entry, disk, effects>>

\* MUTANT: plans awaiting approval are loaded instead.
Resumable_Waiting == disk.status = "pending_approval"

\* SELECT ... WHERE status = 'executing'
Resumable == disk.status = "executing"

\* start(): the approval queue loads its entries and sweeps the overdue
\* ones, then resume_in_progress loads the plan.
Restart ==
  /\ ~up
  /\ up' = TRUE
  /\ entry' \in {entry} \union (IF entry = "pending" THEN {"expired"} ELSE {})
  /\ mem' = IF Resumable
            THEN [status |-> disk.status, state |-> Retry(disk.state)]
            ELSE NoPlan
  /\ UNCHANGED <<shape, disk, pc, cur, effects, recorded, crashes>>

\* execute_plan on a plan that resume_in_progress returned.
Resume ==
  /\ ResumeExecutes
  /\ pc = "idle" /\ mem.status = "executing"
  /\ pc' = "start"
  /\ UNCHANGED <<shape, up, entry, disk, mem, cur, effects, recorded, crashes>>

-----------------------------------------------------------------------------
Init ==
  /\ shape \in Shapes
  /\ up = TRUE
  /\ entry = "absent"
  /\ disk = NoPlan /\ mem = NoPlan
  /\ pc = "new" /\ cur = 1
  /\ effects = [s \in Step |-> 0]
  /\ recorded = {}
  /\ crashes = 0

\* What the event loop does once the plan is in a coroutine's hands.
Drive ==
  \/ Offer \/ ApprovePlan \/ RejectPlan
  \/ Start \/ PassStep \/ LeaveStep \/ BeginStep
  \/ Execute \/ Raise \/ Return \/ Verify \/ Complete

Next ==
  \/ Create
  \/ \E verdict \in {"approved", "rejected"} : Decide(verdict)
  \/ Dismiss
  \/ Drive
  \/ Crash \/ Restart \/ Resume

\* The event loop runs what is ready, handlers return, and the container
\* runtime starts the agent again.
Fairness == WF_vars(Drive) /\ WF_vars(Restart) /\ WF_vars(Resume)

Spec == Init /\ [][Next]_vars /\ Fairness

-----------------------------------------------------------------------------
(* Properties                                                              *)

\* A handler runs for a step only after every order it depends on durably
\* succeeded or was skipped, also when the plan is cut short by crashes and
\* resumed (execute_plan, _evaluate_dependencies).
DependenciesFirst ==
  \A s \in Step : effects[s] > 0 =>
    \A d \in shape.deps[s] : d \in Orders /\ disk.state[d] \in Met

\* Nothing of a plan that needs approval is run before the operator approved
\* it, nor when the entry expired or was rejected, whatever is loaded and
\* resumed after a crash.
ApprovedFirst ==
  (\E s \in Step : ~shape.auto[s]) /\ entry # "approved" =>
    /\ disk.status \in {"absent", "pending_approval", "rejected"}
    /\ \A s \in Step : effects[s] = 0

\* The row tells the truth about the world, order by order: an order is not
\* recorded as untouched once a step that has it may have touched the world,
\* and when one is recorded as succeeded, the first step that has it did run.
\* (Of two steps of one order neither has a record of its own: see
\* EveryStepRuns.)
WriteAhead ==
  \A s \in Step :
    /\ disk.state[shape.order[s]] = "pending" => effects[s] = 0
    /\ /\ disk.state[shape.order[s]] \in {"verifying", "succeeded"}
       /\ \A t \in Step : t < s => shape.order[t] # shape.order[s]
       => effects[s] > 0

\* The status of the plan is the verdict of the orders: COMPLETED when all of
\* them succeeded or were skipped, FAILED when one failed or was blocked,
\* EXECUTING while none did.  The StepStates that no order leads to have no
\* say in it and stay PENDING.
VerdictMatchesSteps ==
  LET bad == \E s \in Step : disk.state[shape.order[s]] \in Lost IN
  /\ disk.status = "completed" =>
       \A s \in Step : disk.state[shape.order[s]] \in Met
  /\ disk.status = "failed" <=> bad
  /\ \A s \in Step \ Orders : disk.state[s] = "pending"

\* A crash costs at most one more run of a step ("idempotent retry"), and a
\* plan that was not interrupted runs each step at most once.
RetriesAreCrashes == \A s \in Step : effects[s] <= crashes + 1

\* A step that succeeded is never run again and never forgotten, and a
\* finished plan stays as it is ("SUCCEEDED steps not re-executed on
\* resume").
KeepsSettled ==
  /\ \A s \in Step : disk.state[shape.order[s]] \in Met =>
       /\ disk'.state[shape.order[s]] = disk.state[shape.order[s]]
       /\ effects'[s] = effects[s]
  /\ disk.status \in Terminal => disk' = disk

SettledForGood == [][KeepsSettled]_vars

\* "Plans resume across restarts": a plan whose row says EXECUTING reaches a
\* terminal status, whatever step a crash interrupted.
ResumedPlansFinish ==
  (disk.status = "executing") ~> (disk.status \in Terminal)

\* What T2 is told of conditional steps (llm/prompts/diagnose_failure.py,
\* "skip instead of abort when dependency fails"): once the plan is over, a
\* conditional step behind a failed one is skipped.
ConditionalStepsAreSkipped ==
  disk.status \in {"completed", "failed"} =>
    \A s \in Step :
      shape.conditional[s] /\ (\E d \in shape.deps[s] \cap Orders :
                                  disk.state[d] = "failed")
        => disk.state[shape.order[s]] = "skipped"

\* What execute_plan says where it ends a plan well ("All steps completed
\* (succeeded or skipped)"), step by step: each step of a COMPLETED plan was
\* run or skipped.
EveryStepRuns ==
  disk.status = "completed" =>
    \A s \in Step : effects[s] > 0 \/ disk.state[shape.order[s]] = "skipped"

-----------------------------------------------------------------------------
(* What the executor promises: PlanContract, of the durable row.           *)

Progress ==
  CASE disk.status \in {"absent", "pending_approval"} -> "waiting"
    [] disk.status = "executing" -> "running"
    [] OTHER -> disk.status

Standing ==
  [s \in Step |-> CASE disk.state[s] \in Met -> "met"
                    [] disk.state[s] \in Lost -> "lost"
                    [] OTHER -> "open"]

Contract == INSTANCE PlanContract WITH
  permission <- entry, progress <- Progress, standing <- Standing,
  lives <- crashes + 1

\* Through every crash and restart the row tells one story of the plan: asked
\* and approved before it starts, steps taken in order, each supplied before
\* it is run, run once in each life of the process, and never run again once
\* met; the first lost step ends it.  Steps of one order have one standing, and
\* only the first of them is run (create_plan, approve_plan, reject_plan,
\* execute_plan, resume_in_progress).
KeepsPlanContract == Contract!Spec

\* The plan's entry, and the start that its approval brings, as the approval
\* queue's contract sees them.
QueueEntry == INSTANCE ApprovalContract WITH
  Action <- {"plan"},
  outcome <- [a \in {"plan"} |-> entry],
  performed <- [a \in {"plan"} |->
                  IF entry = "approved" /\ Progress # "waiting" THEN 1 ELSE 0]

\* The executor asks no more of the queue than the queue promises: its entry is
\* offered once and decided once, and the plan leaves PENDING_APPROVAL for
\* execution after the approval only and never comes back to it
\* (_dispatch_remediation_plan, _process_plan_approval).
KeepsApprovalContract == QueueEntry!Spec

-----------------------------------------------------------------------------
(* Why a plan comes to its end: what there is behind ResumedPlansFinish    *)
(* besides fairness.                                                       *)

\* The steps the driver takes at most before it is through with the plan: four
\* for each step of the plan, and those that lead to the first.
StepsLeft ==
  CASE pc \in {"new", "idle"}       -> 0
    [] pc \in {"offer", "rejected"} -> 1
    [] pc = "approved" -> 4 * N + 6
    [] pc = "start"    -> 4 * N + 5
    [] pc = "step"     -> 4 * (N + 1 - cur) + 4
    [] pc = "execute"  -> 4 * (N + 1 - cur) + 3
    [] pc = "executed" -> 4 * (N + 1 - cur) + 2
    [] pc = "verify"   -> 4 * (N + 1 - cur) + 1

\* The driver never goes round in circles (no step of execute_plan is tried
\* again in one life of the process), and only an operator or a new process
\* sets it to work again.
DriverAdvances ==
  /\ Drive => StepsLeft' < StepsLeft
  /\ StepsLeft' > StepsLeft =>
       Create \/ Resume \/ \E verdict \in {"approved", "rejected"} : Decide(verdict)

ComesToAnEnd == [][DriverAdvances]_vars

\* A plan whose row says EXECUTING is never lost from sight while the process
\* runs: it is in a driver's hands, or resume_in_progress has loaded it.
NeverForgotten ==
  up /\ disk.status = "executing" =>
    pc \in {"start"} \union Running \/ mem.status = "executing"

-----------------------------------------------------------------------------
(* The inductive invariant behind the safety properties                    *)

\* The cached plan is the row, up to steps put back to READY.
CacheMatchesRow ==
  mem.status # "absent" =>
    /\ mem.status = disk.status
    /\ \A s \in Step : \/ mem.state[s] = disk.state[s]
                       \/ mem.state[s] = "ready" /\ disk.state[s] = "executing"

\* Where the driver is, and what it may rely on there.
DriverKnows ==
  /\ pc = "new" => disk = NoPlan /\ entry = "absent"
  /\ pc = "offer" => disk.status = "pending_approval" /\ entry = "absent"
  /\ pc \in {"approved", "rejected"} =>
       disk.status = "pending_approval" /\ entry = pc
  /\ pc \in {"start"} \union Running => mem.status = "executing"
  /\ pc \in Running => \A s \in Step :
       s < cur => mem.state[shape.order[s]] \in Met
  /\ pc \in {"execute", "executed", "verify"} =>
       \A d \in shape.deps[cur] : d \in Orders /\ mem.state[d] \in Met
  /\ pc \in {"execute", "executed"} => Current = "executing"
  /\ pc = "verify" => Current = "verifying"
  /\ pc \in {"executed", "verify"} => effects[cur] > 0

\* A plan that was never executed is untouched.
UntouchedUntilExecuted ==
  disk.status \in {"absent", "pending_approval", "rejected"} =>
    \A s \in Step : disk.state[s] = "pending" /\ effects[s] = 0

\* The entry decides for a plan that needs approval.
EntryRules ==
  /\ entry = "pending" => disk.status = "pending_approval" /\ pc = "idle"
  /\ disk.status # "expired"

\* A step that waits to be run has been run at most once per crash.
OneRunPerLife ==
  /\ RetriesAreCrashes
  /\ \A s \in Step :
       \/ effects[s] <= crashes
       \/ up /\ mem.state[shape.order[s]] \in Met \union Lost
       \/ pc \in {"executed", "verify"} /\ s = cur

IInv ==
  /\ TypeOK
  /\ CacheMatchesRow /\ DriverKnows /\ UntouchedUntilExecuted /\ EntryRules
  /\ DependenciesFirst /\ ApprovedFirst /\ WriteAhead
  /\ VerdictMatchesSteps /\ OneRunPerLife

=============================================================================
