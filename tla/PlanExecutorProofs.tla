------------------------- MODULE PlanExecutorProofs -------------------------
(***************************************************************************)
(* The safety of plan execution, for plans of any length and shape and any *)
(* number of crashes.  IInv of PlanExecutor is inductive; every invariant  *)
(* of the module is one of its parts, SettledForGood follows from it step  *)
(* by step, and so does the refinement of PlanContract.  The orders of the *)
(* steps are any that validation lets through, repeated ones included.     *)
(***************************************************************************)
EXTENDS PlanExecutor, TLAPS

\* What is assumed of the numbers.
LEMMA Sizes == N \in Nat \ {0} /\ MaxCrashes \in Nat
  BY PlanAssumption

\* What validation leaves of the orders: each is written as a step, and the
\* steps are sorted by them.
LEMMA Ordered ==
  ASSUME TypeOK
  PROVE  /\ Orders \subseteq Step
         /\ \A s \in Step : shape.order[s] \in Orders
         /\ \A s, t \in Step : s <= t => shape.order[s] <= shape.order[t]
  BY PlanAssumption DEF TypeOK, Validated, Orders

\* The inductive invariant before a plan is created.
LEMMA InvInit == Init => IInv
  <1> USE Sizes
  <1> SUFFICES ASSUME Init PROVE IInv
    OBVIOUS
  <1>1. TypeOK
    BY DEF Init, TypeOK, NoPlan, Plan, PlanStatus, StepStatus, Step, Driving,
           Running, Met, Lost, Terminal
  <1>2. CacheMatchesRow /\ DriverKnows /\ UntouchedUntilExecuted /\ EntryRules
    BY DEF Init, NoPlan, CacheMatchesRow, DriverKnows, UntouchedUntilExecuted,
           EntryRules, Running
  <1>3. DependenciesFirst /\ ApprovedFirst
    BY DEF Init, NoPlan, DependenciesFirst, ApprovedFirst, Step
  <1>4. \A s \in Step : shape.order[s] \in Step
    BY <1>1, Ordered
  <1>5. WriteAhead /\ VerdictMatchesSteps /\ OneRunPerLife
    BY <1>4 DEF Init, NoPlan, WriteAhead, VerdictMatchesSteps, OneRunPerLife,
                RetriesAreCrashes, Lost, Step
  <1>. QED
    BY <1>1, <1>2, <1>3, <1>5 DEF IInv

\* What Save writes, and what a restart loads, is a plan.
LEMMA PlanType ==
  /\ NoPlan \in Plan
  /\ \A status \in PlanStatus, state \in [Step -> StepStatus] :
       [status |-> status, state |-> state] \in Plan
  /\ \A plan \in Plan :
       plan.status \in PlanStatus /\ plan.state \in [Step -> StepStatus]
  /\ \A state \in [Step -> StepStatus] : Retry(state) \in [Step -> StepStatus]
  BY DEF Plan, NoPlan, PlanStatus, StepStatus, Met, Lost, Retry

\* Moving the current step on yields step states.
LEMMA ReachedType ==
  mem \in Plan =>
    \A status \in StepStatus : Reached(status) \in [Step -> StepStatus]
  BY DEF Plan, Reached

\* Saving a status and step states leaves plans in row and cache.
LEMMA SaveType ==
  \A status \in PlanStatus, state \in [Step -> StepStatus] :
    Save(status, state) => mem' \in Plan /\ disk' \in Plan
  BY PlanType DEF Save

\* A step that moves the current step on keeps both copies plans.
LEMMA MoveType ==
  mem \in Plan =>
    \A st \in StepStatus :
      /\ Save(mem.status, Reached(st)) => mem' \in Plan /\ disk' \in Plan
      /\ Abandon(st) => mem' \in Plan /\ disk' \in Plan
  BY PlanType, SaveType, ReachedType DEF Abandon, PlanStatus, Terminal

\* Types after every step.
LEMMA TypeStep == TypeOK /\ [Next]_vars => TypeOK'
  <1> USE Sizes, PlanType, ReachedType
      DEF TypeOK, PlanStatus, StepStatus, Terminal, Met, Lost, Running,
          Driving, Step
  <1> SUFFICES ASSUME TypeOK, [Next]_vars PROVE TypeOK'
    OBVIOUS
  <1>1. ASSUME NEW verdict \in {"approved", "rejected"}, Decide(verdict)
        PROVE TypeOK'
    BY <1>1 DEF Decide
  <1>2. CASE Create
    BY <1>2 DEF Create, Save, NoPlan, RequiresApproval
  <1>3. CASE Dismiss
    BY <1>3 DEF Dismiss
  <1>4. CASE Offer
    BY <1>4 DEF Offer
  <1>5. CASE ApprovePlan
    BY <1>5 DEF ApprovePlan, Loaded, Save
  <1>6. CASE RejectPlan
    BY <1>6 DEF RejectPlan, Loaded, Save
  <1>7. CASE Start
    <2>1. /\ mem' = [status |-> "executing", state |-> Retry(mem.state)]
          /\ disk' = [status |-> "executing", state |-> mem.state]
      BY <1>7 DEF Start
    <2>2. mem.state \in [Step -> StepStatus]
      OBVIOUS
    <2>3. mem' \in Plan /\ disk' \in Plan
      BY <2>1, <2>2
    <2>. QED
      BY <1>7, <2>3 DEF Start
  <1>8. CASE PassStep
    BY <1>8 DEF PassStep, Advance
  <1>9. CASE LeaveStep
    <2>1. cur \in Step
      BY <1>9 DEF LeaveStep
    <2>2. mem' \in Plan /\ disk' \in Plan
      BY <1>9, <2>1, MoveType DEF LeaveStep, DepVerdict
    <2>. QED
      BY <1>9, <2>1, <2>2 DEF LeaveStep, Advance, Abandon
  <1>10. CASE BeginStep
    <2>1. cur \in Step
      BY <1>10 DEF BeginStep
    <2>2. mem' \in Plan /\ disk' \in Plan
      BY <1>10, <2>1, MoveType DEF BeginStep
    <2>. QED
      BY <1>10, <2>1, <2>2 DEF BeginStep
  <1>11. CASE Execute
    BY <1>11 DEF Execute
  <1>12. CASE Raise
    BY <1>12 DEF Raise, Abandon, Save
  <1>13. CASE Return
    <2>1. cur \in Step
      BY <1>13 DEF Return
    <2>2. mem' \in Plan /\ disk' \in Plan
      BY <1>13, <2>1, MoveType DEF Return
    <2>. QED
      BY <1>13, <2>1, <2>2 DEF Return, Abandon
  <1>14. CASE Verify
    <2>1. cur \in Step
      BY <1>14 DEF Verify
    <2>2. mem' \in Plan /\ disk' \in Plan
      BY <1>14, <2>1, MoveType DEF Verify
    <2>. QED
      BY <1>14, <2>1, <2>2 DEF Verify, Advance, Abandon
  <1>15. CASE Complete
    BY <1>15 DEF Complete, Save
  <1>16. CASE Crash
    <2>1. mem' \in Plan /\ crashes' \in 0..MaxCrashes /\ cur' \in 1..(N + 1)
      BY <1>16 DEF Crash
    <2>2. pc' \in {"new", "idle"}
      BY <1>16 DEF Crash
    <2>. QED
      BY <1>16, <2>1, <2>2 DEF Crash
  <1>17. CASE Restart
    BY <1>17 DEF Restart, Resumable
  <1>18. CASE Resume
    BY <1>18 DEF Resume, NoPlan
  <1>19. CASE UNCHANGED vars
    BY <1>19 DEF vars
  <1>. QED
    BY <1>1, <1>2, <1>3, <1>4, <1>5, <1>6, <1>7, <1>8, <1>9, <1>10, <1>11, <1>12, <1>13, <1>14, <1>15, <1>16, <1>17, <1>18, <1>19 DEF Next, Drive
-----------------------------------------------------------------------------
\* A step found ready has all it depends on.
LEMMA ReadyMeansMet ==
  ASSUME NEW s, NEW state, "ready" \in DepVerdict(s, state)
  PROVE  \A d \in shape.deps[s] : d \in Orders /\ state[d] \in Met
  BY DEF DepVerdict

\* While execute_plan runs, row and cache agree on which steps are settled
\* and no step is lost.
LEMMA LoopKnows ==
  ASSUME IInv, pc \in {"start"} \union Running
  PROVE  /\ up
         /\ disk.status = "executing" /\ mem.status = "executing"
         /\ (\E s \in Step : ~shape.auto[s]) => entry = "approved"
         /\ entry # "pending"
         /\ \A s \in Step :
              /\ disk.state[s] \notin Lost /\ mem.state[s] \notin Lost
              /\ disk.state[s] \in Met <=> mem.state[s] \in Met
              /\ disk.state[s] \in Met => disk.state[s] = mem.state[s]
              /\ disk.state[s] = "pending" <=> mem.state[s] = "pending"
              /\ mem.state[s] \in {"verifying", "succeeded"} =>
                   disk.state[s] = mem.state[s]
  <1>1. up /\ disk.status = "executing" /\ mem.status = "executing"
    BY DEF IInv, TypeOK, Driving, CacheMatchesRow, DriverKnows, Running
  <1>2. entry # "pending" /\ ((\E s \in Step : ~shape.auto[s]) => entry = "approved")
    BY <1>1 DEF IInv, EntryRules, ApprovedFirst
  <1>3. ASSUME NEW s \in Step
        PROVE  \/ mem.state[s] = disk.state[s]
               \/ mem.state[s] = "ready" /\ disk.state[s] = "executing"
    BY <1>1 DEF IInv, CacheMatchesRow
  <1>4. ASSUME NEW s \in Step
        PROVE  disk.state[s] \notin Lost
    <2>1. CASE s \in Orders
      BY <1>1, <2>1 DEF IInv, VerdictMatchesSteps, Orders
    <2>2. CASE s \notin Orders
      BY <2>2 DEF IInv, VerdictMatchesSteps, Lost
    <2>. QED
      BY <2>1, <2>2
  <1>. QED
    BY <1>1, <1>2, <1>3, <1>4 DEF Lost, Met

\* The step the driver has reached, not yet settled, is the first of its order.
LEMMA FirstOfItsOrder ==
  ASSUME IInv, pc \in Running, cur \in Step, Current \notin Met
  PROVE  /\ \A s \in Step : s < cur => shape.order[s] # shape.order[cur]
         /\ \A s \in Step :
              /\ shape.order[s] = shape.order[cur]
              /\ \A t \in Step : t < s => shape.order[t] # shape.order[s]
              => s = cur
  <1>1. \A s \in Step : s < cur => shape.order[s] # shape.order[cur]
    BY DEF IInv, DriverKnows, Current
  <1>. QED
    BY <1>1, Sizes DEF Step

\* What the two copies are after a step is moved on.
LEMMA Moved ==
  ASSUME TypeOK, cur \in Step, NEW status, NEW st, Save(status, Reached(st))
  PROVE  /\ disk'.status = status /\ mem'.status = status
         /\ disk'.state = mem'.state
         /\ \A s \in Step :
              mem'.state[s] = IF s = shape.order[cur] THEN st ELSE mem.state[s]
         /\ \A s \in Step :
              mem'.state[shape.order[s]] =
                IF shape.order[s] = shape.order[cur]
                THEN st ELSE mem.state[shape.order[s]]
         /\ mem'.state[shape.order[cur]] = st
  <1>1. mem.state \in [Step -> StepStatus]
    BY PlanType DEF TypeOK
  <1>2. \A s \in Step : shape.order[s] \in Step
    BY Ordered
  <1>3. /\ mem' = [status |-> status, state |-> Reached(st)]
        /\ disk' = mem'
    BY DEF Save
  <1>4. \A s \in Step :
          Reached(st)[s] = IF s = shape.order[cur] THEN st ELSE mem.state[s]
    BY <1>1 DEF Reached
  <1>. QED
    BY <1>2, <1>3, <1>4

\* Moving the current step on, or failing the plan with it, keeps every part
\* of the invariant that does not speak of the driver.
LEMMA MoveKeeps ==
  ASSUME IInv, pc \in Running, cur \in Step, Current \notin Met,
         NEW status, NEW st, Save(status, Reached(st)),
         \/ status = "executing" /\ st \in {"executing", "skipped"}
         \/ status = "executing" /\ st \in {"verifying", "succeeded"}
              /\ effects[cur] > 0
         \/ status = "failed" /\ st \in Lost,
         UNCHANGED <<shape, entry, effects, crashes>>
  PROVE  /\ CacheMatchesRow' /\ UntouchedUntilExecuted' /\ DependenciesFirst'
         /\ ApprovedFirst' /\ WriteAhead' /\ VerdictMatchesSteps'
  <1>0. TypeOK
    BY DEF IInv
  <1>1. /\ disk'.status = status /\ mem'.status = status
        /\ disk'.state = mem'.state
        /\ \A s \in Step :
             mem'.state[s] = IF s = shape.order[cur] THEN st ELSE mem.state[s]
        /\ \A s \in Step :
             mem'.state[shape.order[s]] =
               IF shape.order[s] = shape.order[cur]
               THEN st ELSE mem.state[shape.order[s]]
    BY <1>0, Moved
  <1>2. /\ disk.status = "executing" /\ mem.status = "executing"
        /\ (\E s \in Step : ~shape.auto[s]) => entry = "approved"
        /\ \A s \in Step :
             /\ mem.state[s] \notin Lost
             /\ disk.state[s] \in Met <=> mem.state[s] \in Met
             /\ disk.state[s] = "pending" <=> mem.state[s] = "pending"
             /\ mem.state[s] \in {"verifying", "succeeded"} =>
                  disk.state[s] = mem.state[s]
    BY LoopKnows
  <1>3. /\ Orders \subseteq Step /\ Orders' = Orders
        /\ \A s \in Step : shape.order[s] \in Step /\ shape.order[s] \in Orders
    BY <1>0, Ordered DEF Orders
  <1>4. /\ status \in {"executing", "failed"}
        /\ st \in Lost <=> status = "failed"
        /\ st # "pending"
        /\ st \in {"verifying", "succeeded"} => effects[cur] > 0
    BY DEF Lost
  <1>5. CacheMatchesRow' /\ UntouchedUntilExecuted'
    BY <1>1, <1>4 DEF CacheMatchesRow, UntouchedUntilExecuted
  <1>6. DependenciesFirst'
    <2>1. \A d \in Orders : disk.state[d] \in Met => disk'.state[d] \in Met
      BY <1>1, <1>2, <1>3 DEF Current
    <2>. QED
      BY <1>3, <2>1 DEF IInv, DependenciesFirst
  <1>7. ApprovedFirst'
    BY <1>2 DEF ApprovedFirst
  <1>8. WriteAhead'
    <2> SUFFICES ASSUME NEW s \in Step
        PROVE  /\ disk'.state[shape.order[s]] = "pending" => effects[s] = 0
               /\ /\ disk'.state[shape.order[s]] \in {"verifying", "succeeded"}
                  /\ \A t \in Step : t < s => shape.order[t] # shape.order[s]
                  => effects[s] > 0
      BY DEF WriteAhead
    <2>1. CASE shape.order[s] = shape.order[cur]
      <3>1. disk'.state[shape.order[s]] = st
        BY <1>1, <2>1
      <3>. QED
        BY <1>4, <2>1, <3>1, FirstOfItsOrder
    <2>2. CASE shape.order[s] # shape.order[cur]
      <3>1. disk'.state[shape.order[s]] = mem.state[shape.order[s]]
        BY <1>1, <2>2
      <3>2. /\ disk.state[shape.order[s]] = "pending" <=>
                 mem.state[shape.order[s]] = "pending"
            /\ mem.state[shape.order[s]] \in {"verifying", "succeeded"} =>
                 disk.state[shape.order[s]] = mem.state[shape.order[s]]
        BY <1>2, <1>3
      <3>. QED
        BY <3>1, <3>2 DEF IInv, WriteAhead
    <2>. QED
      BY <2>1, <2>2
  <1>9. VerdictMatchesSteps'
    <2>1. \A s \in Step \ Orders : disk'.state[s] = "pending"
      BY <1>1, <1>2, <1>3 DEF IInv, VerdictMatchesSteps
    <2>2. status = "failed" <=> \E s \in Step : disk'.state[shape.order[s]] \in Lost
      BY <1>1, <1>2, <1>3, <1>4
    <2>. QED
      BY <1>1, <1>3, <1>4, <2>1, <2>2 DEF VerdictMatchesSteps
  <1>. QED
    BY <1>5, <1>6, <1>7, <1>8, <1>9

\* A step that is over, well or badly, is not run again in this life.
LEMMA SettledOneRun ==
  ASSUME TypeOK, OneRunPerLife, up, cur \in Step,
         NEW status, NEW st \in Met \union Lost, Save(status, Reached(st)),
         UNCHANGED <<shape, up, effects, crashes>>
  PROVE  OneRunPerLife'
  <1>1. \A s \in Step :
          mem'.state[shape.order[s]] =
            IF shape.order[s] = shape.order[cur]
            THEN st ELSE mem.state[shape.order[s]]
    BY Moved
  <1>2. RetriesAreCrashes'
    BY DEF OneRunPerLife, RetriesAreCrashes
  <1>3. ASSUME NEW s \in Step
        PROVE  effects[s] <= crashes \/ mem'.state[shape.order[s]] \in Met \union Lost
    <2>1. CASE shape.order[s] = shape.order[cur]
      BY <1>1, <2>1
    <2>2. CASE shape.order[s] # shape.order[cur]
      BY <1>1, <2>2 DEF OneRunPerLife
    <2>. QED
      BY <2>1, <2>2
  <1>. QED
    BY <1>2, <1>3 DEF OneRunPerLife

\* After a step that succeeded or was skipped, the driver is at the next one.
LEMMA AdvanceKnows ==
  ASSUME TypeOK, DriverKnows, pc \in Running, cur \in Step,
         NEW st \in Met, Save(mem.status, Reached(st)), Advance,
         UNCHANGED shape
  PROVE  DriverKnows'
  <1>1. mem.status = "executing" /\ cur \in Nat
    BY Sizes DEF DriverKnows, Step
  <1>2. /\ mem'.status = "executing" /\ disk'.status = "executing"
        /\ \A s \in Step :
             mem'.state[shape.order[s]] =
               IF shape.order[s] = shape.order[cur]
               THEN st ELSE mem.state[shape.order[s]]
    BY <1>1, Moved
  <1>3. ASSUME NEW s \in Step, s < cur'
        PROVE  mem'.state[shape.order[s]] \in Met
    <2>1. s < cur \/ s = cur
      BY <1>1, <1>3, Sizes DEF Advance, Step
    <2>2. shape.order[s] = shape.order[cur] \/ mem.state[shape.order[s]] \in Met
      BY <2>1 DEF DriverKnows
    <2>. QED
      BY <1>2, <2>2
  <1>4. pc' = "step"
    BY DEF Advance
  <1>. QED
    BY <1>2, <1>3, <1>4 DEF DriverKnows, Running

\* Noting how far the current step is takes nothing from what the driver knows
\* of the steps before it and of those it depends on.
LEMMA NotedKnows ==
  ASSUME IInv, pc \in Running, cur \in Step, Current \notin Met, NEW st,
         Save(mem.status, Reached(st)),
         \A d \in shape.deps[cur] : d \in Orders /\ mem.state[d] \in Met,
         UNCHANGED <<shape, up, effects, crashes>>
  PROVE  /\ mem'.status = "executing" /\ disk'.status = "executing"
         /\ mem'.state[shape.order[cur]] = st
         /\ \A s \in Step : s < cur => mem'.state[shape.order[s]] \in Met
         /\ \A d \in shape.deps[cur] : d \in Orders /\ mem'.state[d] \in Met
         /\ RetriesAreCrashes'
         /\ \A s \in Step :
              \/ effects[s] <= crashes
              \/ up /\ mem'.state[shape.order[s]] \in Met \union Lost
              \/ pc \in {"executed", "verify"} /\ s = cur
  <1>0. TypeOK
    BY DEF IInv
  <1>1. mem.status = "executing"
    BY DEF IInv, DriverKnows
  <1>2. /\ mem'.status = "executing" /\ disk'.status = "executing"
        /\ mem'.state[shape.order[cur]] = st
        /\ \A s \in Step :
             mem'.state[s] = IF s = shape.order[cur] THEN st ELSE mem.state[s]
        /\ \A s \in Step :
             mem'.state[shape.order[s]] =
               IF shape.order[s] = shape.order[cur]
               THEN st ELSE mem.state[shape.order[s]]
    BY <1>0, <1>1, Moved
  <1>3. \A s \in Step : s < cur => mem'.state[shape.order[s]] \in Met
    BY <1>2 DEF IInv, DriverKnows, Current
  <1>4. \A d \in shape.deps[cur] : d \in Orders /\ mem'.state[d] \in Met
    BY <1>0, <1>2, Ordered DEF Current
  <1>5. RetriesAreCrashes'
    BY DEF IInv, OneRunPerLife, RetriesAreCrashes
  <1>6. ASSUME NEW s \in Step
        PROVE  \/ effects[s] <= crashes
               \/ up /\ mem'.state[shape.order[s]] \in Met \union Lost
               \/ pc \in {"executed", "verify"} /\ s = cur
    <2>1. shape.order[cur] \in Step
      BY <1>0, Ordered
    <2>2. Current \notin Lost
      BY <2>1, LoopKnows DEF Current
    <2>3. \/ effects[s] <= crashes
          \/ up /\ mem.state[shape.order[s]] \in Met \union Lost
          \/ pc \in {"executed", "verify"} /\ s = cur
      BY DEF IInv, OneRunPerLife
    <2>. QED
      BY <1>2, <2>2, <2>3 DEF Current
  <1>. QED
    BY <1>2, <1>3, <1>4, <1>5, <1>6

\* Once EXECUTING is written, the driver is at the handler of its step.
LEMMA BeginKnows ==
  ASSUME IInv, BeginStep
  PROVE  DriverKnows' /\ EntryRules' /\ OneRunPerLife'
  <1>1. cur \in Step /\ pc = "step" /\ Current \notin Met
    BY Sizes DEF IInv, TypeOK, BeginStep, Step
  <1>2. \A d \in shape.deps[cur] : d \in Orders /\ mem.state[d] \in Met
    BY ReadyMeansMet DEF BeginStep
  <1>3. /\ pc' = "execute" /\ UNCHANGED <<shape, up, entry, cur, effects, crashes>>
        /\ Save(mem.status, Reached("executing"))
    BY DEF BeginStep
  <1>4. /\ mem'.status = "executing" /\ disk'.status = "executing"
        /\ mem'.state[shape.order[cur]] = "executing"
        /\ \A s \in Step : s < cur => mem'.state[shape.order[s]] \in Met
        /\ \A d \in shape.deps[cur] : d \in Orders /\ mem'.state[d] \in Met
        /\ RetriesAreCrashes'
        /\ \A s \in Step :
             \/ effects[s] <= crashes
             \/ up /\ mem'.state[shape.order[s]] \in Met \union Lost
    BY <1>1, <1>2, <1>3, NotedKnows DEF Running
  <1>5. DriverKnows'
    BY <1>3, <1>4 DEF DriverKnows, Running, Current, Orders
  <1>6. entry # "pending"
    BY <1>1, LoopKnows DEF Running
  <1>7. EntryRules'
    BY <1>3, <1>4, <1>6 DEF EntryRules
  <1>. QED
    BY <1>3, <1>4, <1>5, <1>7 DEF OneRunPerLife

\* After a handler that returned success, the driver is at the verification.
LEMMA VerifyingKnows ==
  ASSUME IInv, pc = "executed", Save(mem.status, Reached("verifying")),
         pc' = "verify", UNCHANGED <<shape, up, cur, effects, crashes>>
  PROVE  DriverKnows' /\ OneRunPerLife'
  <1>1. /\ cur \in Step /\ Current \notin Met /\ effects[cur] > 0 /\ up
        /\ \A d \in shape.deps[cur] : d \in Orders /\ mem.state[d] \in Met
    BY DEF IInv, TypeOK, DriverKnows, Driving, Running, Met
  <1>2. /\ mem'.status = "executing" /\ disk'.status = "executing"
        /\ mem'.state[shape.order[cur]] = "verifying"
        /\ \A s \in Step : s < cur => mem'.state[shape.order[s]] \in Met
        /\ \A d \in shape.deps[cur] : d \in Orders /\ mem'.state[d] \in Met
        /\ RetriesAreCrashes'
        /\ \A s \in Step :
             \/ effects[s] <= crashes
             \/ up /\ mem'.state[shape.order[s]] \in Met \union Lost
             \/ s = cur
    BY <1>1, NotedKnows DEF Running
  <1>3. DriverKnows'
    BY <1>1, <1>2 DEF DriverKnows, Running, Current, Orders
  <1>. QED
    BY <1>1, <1>2, <1>3 DEF OneRunPerLife

\* Putting EXECUTING steps back to READY forgets no run.
LEMMA StartKeepsRuns ==
  ASSUME IInv, Start
  PROVE  OneRunPerLife'
  <1>1. /\ pc = "start" /\ mem \in Plan
        /\ UNCHANGED <<shape, up, effects, crashes>>
        /\ \A s \in Step : shape.order[s] \in Step
    BY Ordered DEF Start, IInv, TypeOK
  <1>2. ASSUME NEW s \in Step, mem.state[s] \in Met \union Lost
        PROVE  mem'.state[s] = mem.state[s]
    BY <1>1, <1>2 DEF Start, Retry, Met, Lost
  <1>3. ASSUME NEW s \in Step
        PROVE  effects[s] <= crashes \/ (up /\ mem'.state[shape.order[s]] \in Met \union Lost)
    BY <1>1, <1>2, <1>3 DEF IInv, OneRunPerLife, Running
  <1>4. RetriesAreCrashes'
    BY <1>1 DEF IInv, OneRunPerLife, RetriesAreCrashes
  <1>. QED
    BY <1>1, <1>3, <1>4 DEF OneRunPerLife

\* The plan's shape never changes.
LEMMA ShapeStays == [Next]_vars => shape' = shape /\ Orders' = Orders
  <1>1. [Next]_vars => shape' = shape
    BY DEF Next, Drive, vars, Create, Decide, Dismiss, Offer, ApprovePlan,
           RejectPlan, Start, PassStep, LeaveStep, BeginStep, Execute, Raise,
           Return, Verify, Complete, Crash, Restart, Resume
  <1>. QED
    BY <1>1 DEF Orders

\* The start of an execution writes what was known and retries what was cut
\* short.
LEMMA StartKeeps ==
  ASSUME IInv, Start
  PROVE  /\ CacheMatchesRow' /\ DriverKnows' /\ UntouchedUntilExecuted'
         /\ EntryRules' /\ DependenciesFirst' /\ ApprovedFirst'
         /\ WriteAhead' /\ VerdictMatchesSteps' /\ OneRunPerLife'
  <1>0. /\ Orders \subseteq Step /\ Orders' = Orders
        /\ \A s \in Step : shape.order[s] \in Step /\ shape.order[s] \in Orders
    BY Ordered DEF IInv, Start, Orders
  <1>1. /\ disk'.status = "executing" /\ mem'.status = "executing"
        /\ disk'.state = mem.state
        /\ \A s \in Step : mem'.state[s] = IF mem.state[s] = "executing"
                                          THEN "ready" ELSE mem.state[s]
        /\ pc' = "step" /\ cur' = 1 /\ UNCHANGED <<shape, entry, effects, crashes>>
    BY DEF Start, Retry
  <1>2. /\ disk.status = "executing" /\ entry # "pending"
        /\ (\E s \in Step : ~shape.auto[s]) => entry = "approved"
        /\ \A s \in Step :
             /\ disk.state[s] \notin Lost /\ mem.state[s] \notin Lost
             /\ disk.state[s] \in Met <=> mem.state[s] \in Met
             /\ disk.state[s] = "pending" <=> mem.state[s] = "pending"
             /\ mem.state[s] \in {"verifying", "succeeded"} =>
                  disk.state[s] = mem.state[s]
    BY LoopKnows DEF Start
  <1>3. CacheMatchesRow' /\ UntouchedUntilExecuted' /\ EntryRules'
    BY <1>1, <1>2 DEF CacheMatchesRow, UntouchedUntilExecuted, EntryRules
  <1>4. DriverKnows'
    BY <1>1, Sizes DEF DriverKnows, Running, Step
  <1>5. DependenciesFirst'
    BY <1>0, <1>1, <1>2 DEF IInv, DependenciesFirst
  <1>6. ApprovedFirst'
    BY <1>1, <1>2 DEF ApprovedFirst
  <1>7. WriteAhead'
    BY <1>0, <1>1, <1>2 DEF IInv, WriteAhead
  <1>8. VerdictMatchesSteps'
    BY <1>0, <1>1, <1>2 DEF IInv, VerdictMatchesSteps
  <1>9. OneRunPerLife'
    BY StartKeepsRuns
  <1>. QED
    BY <1>3, <1>4, <1>5, <1>6, <1>7, <1>8, <1>9

\* The handler runs for a step that the row calls EXECUTING, with everything
\* the step depends on in place.
LEMMA ExecuteKeeps ==
  ASSUME IInv, Execute
  PROVE  /\ CacheMatchesRow' /\ DriverKnows' /\ UntouchedUntilExecuted'
         /\ EntryRules' /\ DependenciesFirst' /\ ApprovedFirst'
         /\ WriteAhead' /\ VerdictMatchesSteps' /\ OneRunPerLife'
  <1>0. /\ Orders \subseteq Step /\ Orders' = Orders
        /\ \A s \in Step : shape.order[s] \in Step
    BY Ordered DEF IInv, Execute, Orders
  <1>1. /\ cur \in Step /\ Current = "executing"
        /\ \A d \in shape.deps[cur] : d \in Orders /\ mem.state[d] \in Met
        /\ effects \in [Step -> Nat] /\ crashes \in Nat
    BY Sizes DEF IInv, TypeOK, DriverKnows, Execute, Running
  <1>2. /\ effects' = [effects EXCEPT ![cur] = @ + 1] /\ pc' = "executed"
        /\ UNCHANGED <<shape, up, entry, disk, mem, cur, crashes>>
    BY DEF Execute
  <1>3. /\ disk.status = "executing" /\ entry # "pending"
        /\ (\E s \in Step : ~shape.auto[s]) => entry = "approved"
        /\ \A s \in Step : disk.state[s] \in Met <=> mem.state[s] \in Met
    BY LoopKnows DEF Execute, Running
  <1>4. disk.state[shape.order[cur]] = "executing"
    <2>1. mem.status # "absent"
      BY DEF IInv, DriverKnows, Execute, Running
    <2>. QED
      BY <1>0, <1>1, <2>1 DEF IInv, CacheMatchesRow, Current
  <1>5. effects'[cur] = effects[cur] + 1 /\ effects'[cur] > 0
        /\ \A s \in Step : s # cur => effects'[s] = effects[s]
    BY <1>1, <1>2
  <1>6. CacheMatchesRow' /\ EntryRules' /\ VerdictMatchesSteps'
        /\ UntouchedUntilExecuted' /\ ApprovedFirst'
    BY <1>0, <1>2, <1>3 DEF IInv, CacheMatchesRow, EntryRules, VerdictMatchesSteps,
                        UntouchedUntilExecuted, ApprovedFirst
  <1>7. DriverKnows'
    BY <1>0, <1>1, <1>2, <1>5 DEF IInv, DriverKnows, Running, Execute, Current
  <1>8. DependenciesFirst'
    BY <1>0, <1>1, <1>2, <1>3, <1>5 DEF IInv, DependenciesFirst
  <1>9. WriteAhead'
    <2> SUFFICES ASSUME NEW s \in Step
        PROVE  /\ disk.state[shape.order[s]] = "pending" => effects'[s] = 0
               /\ /\ disk.state[shape.order[s]] \in {"verifying", "succeeded"}
                  /\ \A t \in Step : t < s => shape.order[t] # shape.order[s]
                  => effects'[s] > 0
      BY <1>2 DEF WriteAhead
    <2>1. CASE s = cur
      BY <1>4, <2>1
    <2>2. CASE s # cur
      BY <1>5, <2>2 DEF IInv, WriteAhead
    <2>. QED
      BY <2>1, <2>2
  <1>10. OneRunPerLife'
    <2>1. effects[cur] <= crashes
      BY <1>1 DEF IInv, OneRunPerLife, Execute, Current, Met, Lost
    <2>2. RetriesAreCrashes'
      BY <1>1, <1>2, <1>5, <2>1 DEF IInv, OneRunPerLife, RetriesAreCrashes
    <2>3. ASSUME NEW s \in Step, s # cur
          PROVE  \/ effects'[s] <= crashes
                 \/ up /\ mem.state[shape.order[s]] \in Met \union Lost
      BY <1>5, <2>3 DEF IInv, OneRunPerLife
    <2>. QED
      BY <1>2, <2>2, <2>3 DEF OneRunPerLife
  <1>. QED
    BY <1>6, <1>7, <1>8, <1>9, <1>10

\* A plan is completed with all of its orders met.
LEMMA CompleteKeeps ==
  ASSUME IInv, Complete
  PROVE  /\ CacheMatchesRow' /\ DriverKnows' /\ UntouchedUntilExecuted'
         /\ EntryRules' /\ DependenciesFirst' /\ ApprovedFirst'
         /\ WriteAhead' /\ VerdictMatchesSteps' /\ OneRunPerLife'
  <1>0. /\ Orders \subseteq Step /\ Orders' = Orders
        /\ \A s \in Step : shape.order[s] \in Step /\ shape.order[s] \in Orders
    BY Ordered DEF IInv, Complete, Orders
  <1>1. /\ disk'.status = "completed" /\ mem'.status = "completed"
        /\ disk'.state = mem.state /\ mem'.state = mem.state
        /\ pc' = "idle" /\ UNCHANGED <<shape, up, entry, effects, crashes>>
    BY DEF Complete, Save
  <1>2. /\ entry # "pending"
        /\ (\E s \in Step : ~shape.auto[s]) => entry = "approved"
        /\ \A s \in Step :
             /\ mem.state[s] \notin Lost
             /\ disk.state[s] \in Met <=> mem.state[s] \in Met
             /\ disk.state[s] = "pending" <=> mem.state[s] = "pending"
             /\ mem.state[s] \in {"verifying", "succeeded"} =>
                  disk.state[s] = mem.state[s]
    BY LoopKnows DEF Complete, Running
  <1>3. \A s \in Step : mem.state[shape.order[s]] \in Met
    BY Sizes DEF IInv, TypeOK, DriverKnows, Complete, Running, Step
  <1>4. CacheMatchesRow' /\ UntouchedUntilExecuted' /\ EntryRules'
        /\ DriverKnows'
    BY <1>1, <1>2 DEF CacheMatchesRow, UntouchedUntilExecuted, EntryRules,
                      DriverKnows, Running
  <1>5. DependenciesFirst' /\ ApprovedFirst'
    BY <1>0, <1>1, <1>2 DEF IInv, DependenciesFirst, ApprovedFirst
  <1>6. WriteAhead'
    BY <1>0, <1>1, <1>2 DEF IInv, WriteAhead
  <1>7. VerdictMatchesSteps'
    BY <1>0, <1>1, <1>2, <1>3 DEF IInv, VerdictMatchesSteps
  <1>8. OneRunPerLife'
    BY <1>1 DEF IInv, OneRunPerLife, RetriesAreCrashes, Complete
  <1>. QED
    BY <1>4, <1>5, <1>6, <1>7, <1>8

\* A crash leaves what the row says; a restart finds it there and retries what
\* was cut short.
LEMMA CrashKeeps ==
  ASSUME IInv, Crash \/ Restart
  PROVE  /\ CacheMatchesRow' /\ DriverKnows' /\ UntouchedUntilExecuted'
         /\ EntryRules' /\ DependenciesFirst' /\ ApprovedFirst'
         /\ WriteAhead' /\ VerdictMatchesSteps' /\ OneRunPerLife'
  <1>1. /\ UNCHANGED <<shape, disk, effects>> /\ Orders' = Orders
        /\ pc' \in {"new", "idle"} /\ (pc' = "new" => pc = "new")
        /\ entry' = entry \/ (entry = "pending" /\ entry' = "expired")
        /\ entry = "pending" => pc' = "idle"
    BY DEF IInv, TypeOK, EntryRules, Driving, Crash, Restart, Orders
  <1>2. CacheMatchesRow'
    BY <1>1 DEF Crash, Restart, Resumable, Retry, NoPlan, CacheMatchesRow
  <1>3. DriverKnows' /\ UntouchedUntilExecuted' /\ EntryRules'
    BY <1>1 DEF IInv, DriverKnows, UntouchedUntilExecuted, EntryRules, Running
  <1>4. DependenciesFirst' /\ WriteAhead' /\ VerdictMatchesSteps'
    BY <1>1 DEF IInv, DependenciesFirst, WriteAhead, VerdictMatchesSteps
  <1>5. ApprovedFirst'
    BY <1>1 DEF IInv, ApprovedFirst, EntryRules
  <1>6. OneRunPerLife'
    <2>0. effects \in [Step -> Nat] /\ crashes \in Nat
      BY Sizes DEF IInv, TypeOK
    <2>1. CASE Crash
      BY <1>1, <2>0, <2>1 DEF Crash, IInv, OneRunPerLife, RetriesAreCrashes
    <2>2. CASE Restart
      BY <1>1, <2>0, <2>2 DEF Restart, IInv, TypeOK, OneRunPerLife,
                              RetriesAreCrashes, Driving, Running
    <2>. QED
      BY <2>1, <2>2
  <1>. QED
    BY <1>2, <1>3, <1>4, <1>5, <1>6

\* Passing over a step of an order that is met already changes nothing but where
\* the driver is.
LEMMA PassKeeps ==
  ASSUME IInv, PassStep \/ UNCHANGED vars
  PROVE  /\ CacheMatchesRow' /\ DriverKnows' /\ UntouchedUntilExecuted'
         /\ EntryRules' /\ DependenciesFirst' /\ ApprovedFirst'
         /\ WriteAhead' /\ VerdictMatchesSteps' /\ OneRunPerLife'
  <1>1. UNCHANGED <<shape, up, entry, disk, mem, effects, crashes>> /\ pc' = pc
        /\ Orders' = Orders
    BY DEF PassStep, Advance, vars, Orders
  <1>2. CacheMatchesRow' /\ UntouchedUntilExecuted' /\ EntryRules'
        /\ DependenciesFirst' /\ ApprovedFirst' /\ WriteAhead'
        /\ VerdictMatchesSteps'
    BY <1>1 DEF IInv, CacheMatchesRow, UntouchedUntilExecuted, EntryRules,
                DependenciesFirst, ApprovedFirst, WriteAhead, VerdictMatchesSteps
  <1>3. CASE PassStep
    <2>1. /\ pc = "step" /\ cur' = cur + 1 /\ cur \in Step /\ cur \in Nat
          /\ mem.state[shape.order[cur]] \in Met
      BY <1>3, Sizes DEF PassStep, Advance, Current, IInv, TypeOK, Step
    <2>2. \A s \in Step : s < cur' => s < cur \/ s = cur
      BY <2>1, Sizes DEF Step
    <2>3. DriverKnows'
      BY <1>1, <2>1, <2>2 DEF IInv, DriverKnows, Running
    <2>4. OneRunPerLife'
      BY <1>1, <2>1 DEF IInv, OneRunPerLife, RetriesAreCrashes
    <2>. QED
      BY <1>2, <2>3, <2>4
  <1>4. CASE UNCHANGED vars
    <2>1. cur' = cur
      BY <1>4 DEF vars
    <2>. QED
      BY <1>1, <1>2, <2>1 DEF IInv, DriverKnows, Current, OneRunPerLife,
                              RetriesAreCrashes
  <1>. QED
    BY <1>3, <1>4

-----------------------------------------------------------------------------
\* Every step keeps the invariant.
LEMMA InvStep == IInv /\ [Next]_vars => IInv'
  <1> SUFFICES ASSUME IInv, [Next]_vars PROVE IInv'
    OBVIOUS
  <1>0. /\ TypeOK /\ TypeOK'
        /\ \A s \in Step : shape.order[s] \in Step /\ shape.order[s] \in Orders
        /\ Orders \subseteq Step /\ shape' = shape /\ Orders' = Orders
    BY TypeStep, Ordered, ShapeStays DEF IInv
  <1> USE Sizes, PlanType, <1>0
      DEF IInv, TypeOK, CacheMatchesRow, DriverKnows, UntouchedUntilExecuted,
          EntryRules, DependenciesFirst, ApprovedFirst, WriteAhead,
          VerdictMatchesSteps, OneRunPerLife, RetriesAreCrashes,
          Met, Lost, Running, Driving, Step, Terminal
  <1>1. ASSUME NEW verdict \in {"approved", "rejected"}, Decide(verdict)
        PROVE IInv'
    BY <1>1 DEF Decide
  <1>2. CASE Create
    BY <1>2 DEF Create, Save, NoPlan, RequiresApproval
  <1>3. CASE Dismiss
    BY <1>3 DEF Dismiss
  <1>4. CASE Offer
    BY <1>4 DEF Offer
  <1>5. CASE ApprovePlan
    <2>1. /\ disk.status = "pending_approval"
          /\ \A s \in Step : disk.state[s] = "pending" /\ effects[s] = 0
      BY <1>5 DEF ApprovePlan
    <2>2. /\ Loaded.status = "pending_approval"
          /\ \A s \in Step : Loaded.state[s] = "pending"
      BY <2>1 DEF Loaded
    <2>3. /\ mem' = disk' /\ disk'.status = "executing"
          /\ \A s \in Step : disk'.state[s] = "pending"
      BY <1>5, <2>2 DEF ApprovePlan, Save
    <2>4. CacheMatchesRow' /\ DriverKnows'
      BY <1>5, <2>1, <2>3 DEF ApprovePlan
    <2>5. UntouchedUntilExecuted' /\ EntryRules' /\ DependenciesFirst'
      BY <1>5, <2>1, <2>3 DEF ApprovePlan
    <2>6. ApprovedFirst' /\ WriteAhead' /\ VerdictMatchesSteps'
      BY <1>5, <2>1, <2>3 DEF ApprovePlan
    <2>7. OneRunPerLife'
      BY <1>5, <2>1, <2>3 DEF ApprovePlan
    <2>. QED
      BY <2>4, <2>5, <2>6, <2>7
  <1>6. CASE RejectPlan
    <2>1. /\ disk.status = "pending_approval"
          /\ \A s \in Step : disk.state[s] = "pending" /\ effects[s] = 0
      BY <1>6 DEF RejectPlan
    <2>2. /\ Loaded.status = "pending_approval"
          /\ \A s \in Step : Loaded.state[s] = "pending"
      BY <2>1 DEF Loaded
    <2>3. /\ mem' = disk' /\ disk'.status = "rejected"
          /\ \A s \in Step : disk'.state[s] = "pending"
      BY <1>6, <2>2 DEF RejectPlan, Save
    <2>4. CacheMatchesRow' /\ DriverKnows'
      BY <1>6, <2>1, <2>3 DEF RejectPlan
    <2>5. UntouchedUntilExecuted' /\ EntryRules' /\ DependenciesFirst'
      BY <1>6, <2>1, <2>3 DEF RejectPlan
    <2>6. ApprovedFirst' /\ WriteAhead' /\ VerdictMatchesSteps'
      BY <1>6, <2>1, <2>3 DEF RejectPlan
    <2>7. OneRunPerLife'
      BY <1>6, <2>1, <2>3 DEF RejectPlan
    <2>. QED
      BY <2>4, <2>5, <2>6, <2>7
  <1>7. CASE Start
    BY <1>7, StartKeeps
  <1>8. CASE PassStep
    BY <1>8, PassKeeps
  <1>9. CASE BeginStep
    <2>1. pc \in Running /\ cur \in Step /\ Current \notin Met
      BY <1>9 DEF BeginStep
    <2>2. mem.status = "executing"
      BY <2>1
    <2>3. CacheMatchesRow' /\ UntouchedUntilExecuted' /\ DependenciesFirst'
          /\ ApprovedFirst' /\ WriteAhead' /\ VerdictMatchesSteps'
      BY <1>9, <2>1, <2>2, MoveKeeps DEF BeginStep, DepVerdict
    <2>4. DriverKnows' /\ EntryRules' /\ OneRunPerLife'
      BY <1>9, BeginKnows
    <2>. QED
      BY <2>3, <2>4
  <1>10. CASE LeaveStep
    <2>1. pc \in Running /\ cur \in Step /\ Current \notin Met
      BY <1>10 DEF LeaveStep
    <2>2. mem.status = "executing"
      BY <2>1
    <2>3. CacheMatchesRow' /\ UntouchedUntilExecuted' /\ DependenciesFirst'
          /\ ApprovedFirst' /\ WriteAhead' /\ VerdictMatchesSteps'
      BY <1>10, <2>1, <2>2, MoveKeeps DEF LeaveStep, Advance, Abandon, DepVerdict
    <2>4. DriverKnows'
      <3>1. CASE Save(mem.status, Reached("skipped")) /\ Advance
        BY <2>1, <3>1, AdvanceKnows
      <3>2. CASE Abandon("blocked")
        BY <1>10, <3>2 DEF LeaveStep, Abandon
      <3>. QED
        BY <1>10, <3>1, <3>2 DEF LeaveStep, DepVerdict
    <2>5. EntryRules'
      BY <1>10, <2>1, <2>2, Moved, LoopKnows DEF LeaveStep, Advance, Abandon, DepVerdict
    <2>6. OneRunPerLife'
      BY <1>10, <2>1, <2>2, SettledOneRun DEF LeaveStep, Abandon, DepVerdict
    <2>. QED
      BY <2>3, <2>4, <2>5, <2>6
  <1>11. CASE Raise
    <2>1. pc \in Running /\ cur \in Step /\ Current \notin Met
      BY <1>11 DEF Raise
    <2>2. mem.status = "executing"
      BY <2>1
    <2>3. CacheMatchesRow' /\ UntouchedUntilExecuted' /\ DependenciesFirst'
          /\ ApprovedFirst' /\ WriteAhead' /\ VerdictMatchesSteps'
      BY <1>11, <2>1, <2>2, MoveKeeps DEF Raise, Abandon
    <2>4. DriverKnows'
      BY <1>11, <2>1, <2>2, Moved, LoopKnows DEF Raise, Abandon
    <2>5. EntryRules'
      BY <1>11, <2>1, <2>2, Moved, LoopKnows DEF Raise, Abandon
    <2>6. OneRunPerLife'
      BY <1>11, <2>1, SettledOneRun DEF Raise, Abandon
    <2>. QED
      BY <2>3, <2>4, <2>5, <2>6
  <1>12. CASE Return
    <2>1. pc \in Running /\ cur \in Step /\ Current \notin Met
      BY <1>12 DEF Return
    <2>2. mem.status = "executing"
      BY <2>1
    <2>3. CacheMatchesRow' /\ UntouchedUntilExecuted' /\ DependenciesFirst'
          /\ ApprovedFirst' /\ WriteAhead' /\ VerdictMatchesSteps'
      BY <1>12, <2>1, <2>2, MoveKeeps DEF Return, Abandon
    <2>4. DriverKnows' /\ OneRunPerLife'
      <3>1. CASE Save(mem.status, Reached("verifying")) /\ pc' = "verify" /\ UNCHANGED cur
        BY <1>12, <3>1, VerifyingKnows DEF Return
      <3>2. CASE Abandon("failed")
        <4>1. DriverKnows'
          BY <1>12, <3>2 DEF Return, Abandon
        <4>2. OneRunPerLife'
          BY <1>12, <2>1, <3>2, SettledOneRun DEF Return, Abandon
        <4>. QED
          BY <4>1, <4>2
      <3>. QED
        BY <1>12, <3>1, <3>2 DEF Return
    <2>5. EntryRules'
      BY <1>12, <2>1, <2>2, Moved, LoopKnows DEF Return, Abandon
    <2>. QED
      BY <2>3, <2>4, <2>5
  <1>13. CASE Verify
    <2>1. pc \in Running /\ cur \in Step /\ Current \notin Met
      BY <1>13 DEF Verify
    <2>2. mem.status = "executing"
      BY <2>1
    <2>3. CacheMatchesRow' /\ UntouchedUntilExecuted' /\ DependenciesFirst'
          /\ ApprovedFirst' /\ WriteAhead' /\ VerdictMatchesSteps'
      BY <1>13, <2>1, <2>2, MoveKeeps DEF Verify, Advance, Abandon
    <2>4. DriverKnows'
      <3>1. CASE Save(mem.status, Reached("succeeded")) /\ Advance
        BY <2>1, <3>1, AdvanceKnows
      <3>2. CASE Abandon("failed")
        BY <1>13, <3>2 DEF Verify, Abandon
      <3>. QED
        BY <1>13, <3>1, <3>2 DEF Verify
    <2>5. EntryRules'
      BY <1>13, <2>1, <2>2, Moved, LoopKnows DEF Verify, Advance, Abandon
    <2>6. OneRunPerLife'
      BY <1>13, <2>1, SettledOneRun DEF Verify, Abandon
    <2>. QED
      BY <2>3, <2>4, <2>5, <2>6
  <1>14. CASE Execute
    BY <1>14, ExecuteKeeps
  <1>15. CASE Complete
    BY <1>15, CompleteKeeps
  <1>16. CASE Crash
    BY <1>16, CrashKeeps
  <1>17. CASE Restart
    BY <1>17, CrashKeeps
  <1>18. CASE Resume
    BY <1>18 DEF Resume
  <1>19. CASE UNCHANGED vars
    BY <1>19, PassKeeps
  <1>. QED
    BY <1>1, <1>2, <1>3, <1>4, <1>5, <1>6, <1>7, <1>8, <1>9, <1>10, <1>11,
       <1>12, <1>13, <1>14, <1>15, <1>16, <1>17, <1>18, <1>19
    DEF Next, Drive

\* IInv holds of every reachable state.
THEOREM InvHolds == Spec => []IInv
  BY InvInit, InvStep, PTL DEF Spec

\* Row, cache, driver position and counters keep their types.
THEOREM TypeCorrect == Spec => []TypeOK
  BY InvHolds, PTL DEF IInv

\* Whatever shape T2 gives a plan and wherever crashes cut it, no handler is
\* run before the steps its step depends on durably succeeded or were
\* skipped (_evaluate_dependencies, and the order in which execute_plan
\* persists).
THEOREM DependenciesHold == Spec => []DependenciesFirst
  BY InvHolds, PTL DEF IInv

\* No step of a plan with a step that is not AUTO_FIX runs without the
\* operator's approval (requires_approval, approve_plan, resume_in_progress).
THEOREM ApprovalHolds == Spec => []ApprovedFirst
  BY InvHolds, PTL DEF IInv

\* The row never understates what was done, whatever orders the steps have: the
\* StepState of an order is past PENDING before any step of that order runs, and
\* SUCCEEDED only after the first of them ran (the persist calls around
\* handler.execute in execute_plan, state_by_order).
THEOREM RowIsHonest == Spec => []WriteAhead
  BY InvHolds, PTL DEF IInv

\* The status of a plan is the verdict of the orders of its steps, and the
\* StepStates that no order leads to never move (the returns of execute_plan,
\* state_by_order).  It is not the verdict of each single step: of steps with
\* one order only the first has to run (EveryStepRuns).
THEOREM VerdictHolds == Spec => []VerdictMatchesSteps
  BY InvHolds, PTL DEF IInv

\* A step is run at most once more than the process crashed.
THEOREM RetriesBounded == Spec => []RetriesAreCrashes
  <1>1. IInv => RetriesAreCrashes
    BY DEF IInv, OneRunPerLife
  <1>. QED
    BY InvHolds, <1>1, PTL

-----------------------------------------------------------------------------
\* One step never touches a settled step nor a finished plan.
LEMMA SettledStep == IInv /\ [Next]_vars => KeepsSettled
  <1> SUFFICES ASSUME IInv, [Next]_vars PROVE KeepsSettled
    OBVIOUS
  <1>0. TypeOK /\ \A s \in Step : shape.order[s] \in Step
    BY Ordered DEF IInv
  <1> USE DEF KeepsSettled, Met, Lost, Terminal
  <1>1. CASE UNCHANGED <<disk, effects>>
    BY <1>1
  <1>2. CASE Create
    <2>1. disk = NoPlan
      BY <1>2 DEF Create, IInv, DriverKnows
    <2>2. disk.status = "absent" /\ \A s \in Step : disk.state[s] = "pending"
      BY <2>1 DEF NoPlan
    <2>. QED
      BY <1>0, <2>2
  <1>3. CASE ApprovePlan \/ RejectPlan
    <2>1. /\ disk.status = "pending_approval"
          /\ \A s \in Step : disk.state[s] = "pending"
      BY <1>3 DEF IInv, DriverKnows, UntouchedUntilExecuted, ApprovePlan,
                  RejectPlan
    <2>. QED
      BY <1>0, <2>1
  <1>4. CASE pc \in {"start"} \union Running
    <2>1. /\ disk.status = "executing" /\ mem.status = "executing"
          /\ \A s \in Step : disk.state[s] \in Met =>
               mem.state[s] = disk.state[s]
      BY <1>4, LoopKnows
    <2>2. CASE Start \/ Complete
      BY <1>0, <2>1, <2>2 DEF Start, Complete, Save
    <2>3. CASE BeginStep \/ LeaveStep \/ Raise \/ Return \/ Verify
      <3>1. cur \in Step /\ mem.state[shape.order[cur]] \notin Met
        BY <1>0, <2>3, Sizes
           DEF BeginStep, LeaveStep, Raise, Return, Verify, IInv, DriverKnows,
               TypeOK, Running, Current, Step
      <3>2. UNCHANGED effects
        BY <2>3 DEF BeginStep, LeaveStep, Raise, Return, Verify
      <3>3. \E status, st : Save(status, Reached(st))
        BY <2>3 DEF BeginStep, LeaveStep, Raise, Return, Verify, Abandon
      <3>4. \A s \in Step : disk.state[shape.order[s]] \in Met =>
              disk'.state[shape.order[s]] = disk.state[shape.order[s]]
        <4> SUFFICES ASSUME NEW s \in Step, disk.state[shape.order[s]] \in Met
                     PROVE  disk'.state[shape.order[s]] = disk.state[shape.order[s]]
          OBVIOUS
        <4>1. mem.state[shape.order[s]] = disk.state[shape.order[s]]
          BY <1>0, <2>1
        <4>2. PICK status, st : Save(status, Reached(st))
          BY <3>3
        <4>3. /\ disk'.state = mem'.state
              /\ mem'.state[shape.order[s]] =
                   IF shape.order[s] = shape.order[cur]
                   THEN st ELSE mem.state[shape.order[s]]
          BY <1>0, <3>1, <4>2, Moved
        <4>. QED
          BY <3>1, <4>1, <4>3
      <3>. QED
        BY <2>1, <3>2, <3>4
    <2>4. CASE Execute
      <3>1. cur \in Step /\ mem.state[shape.order[cur]] = "executing"
        BY <1>0, <2>4 DEF Execute, IInv, DriverKnows, TypeOK, Running, Current
      <3>2. disk.state[shape.order[cur]] \notin Met
        BY <1>0, <2>1, <3>1
      <3>3. UNCHANGED disk /\ effects' = [effects EXCEPT ![cur] = @ + 1]
        BY <2>4 DEF Execute
      <3>. QED
        BY <1>0, <2>1, <3>2, <3>3 DEF TypeOK
    <2>. QED
      BY <1>1, <1>2, <1>3, <2>2, <2>3, <2>4
      DEF Next, Drive, Decide, Dismiss, Offer, PassStep, Crash, Restart, Resume,
          vars
  <1>. QED
    BY <1>1, <1>2, <1>3, <1>4
    DEF Next, Drive, Decide, Dismiss, Offer, PassStep, Crash, Restart, Resume,
        Start, BeginStep, LeaveStep, Raise, Return, Verify, Complete, Execute,
        Running, vars

\* A succeeded step is never run again, also when the plan is resumed, and a
\* finished plan stays finished ("Skip already-completed steps").
THEOREM SettledStays == Spec => SettledForGood
  BY InvHolds, SettledStep, PTL DEF Spec, SettledForGood

-----------------------------------------------------------------------------
\* The plan as it is created is a first state of the contract.
LEMMA ContractInit == Init => Contract!Init
  BY DEF Init, Contract!Init, Progress, Standing, NoPlan, Met, Lost

\* A step that leaves entry, row, effects and crash count alone leaves the
\* contract alone.
LEMMA ContractStutter ==
  ASSUME UNCHANGED <<shape, entry, effects, crashes>>,
         disk' = disk \/ (Progress' = Progress /\ Standing' = Standing)
  PROVE  UNCHANGED Contract!vars
  BY DEF Contract!vars, Progress, Standing

\* What the contract sees while execute_plan is at the current step: the plan
\* runs, and it is this step's turn.
LEMMA CurrentTurn ==
  ASSUME IInv, pc \in Running, cur \in Step, Current \notin Met
  PROVE  /\ Progress = "running"
         /\ Contract!Turn(cur)
         /\ (\A d \in shape.deps[cur] : d \in Orders /\ mem.state[d] \in Met)
              => Contract!Supplied(cur)
  <1>1. /\ disk.status = "executing"
        /\ \A s \in Step : /\ disk.state[s] \notin Lost
                           /\ disk.state[s] \in Met <=> mem.state[s] \in Met
    BY LoopKnows
  <1>2. Progress = "running"
    BY <1>1 DEF Progress
  <1>3. \A s \in Step :
          Standing[s] = IF mem.state[s] \in Met THEN "met" ELSE "open"
    BY <1>1 DEF Standing
  <1>4. \A s \in Step : s < cur => mem.state[shape.order[s]] \in Met
    BY DEF IInv, DriverKnows
  <1>5. /\ \A s \in Step : shape.order[s] \in Step
        /\ Orders \subseteq Step /\ Contract!Orders = Orders
    BY Ordered DEF IInv, Orders, Contract!Orders
  <1>6. Contract!Turn(cur)
    BY <1>2, <1>3, <1>4, <1>5 DEF Contract!Turn, Current
  <1>7. (\A d \in shape.deps[cur] : d \in Orders /\ mem.state[d] \in Met)
          => Contract!Supplied(cur)
    BY <1>3, <1>5 DEF Contract!Supplied
  <1>. QED
    BY <1>2, <1>6, <1>7

\* What the contract sees of a step that is moved on.
LEMMA MovedStanding ==
  ASSUME IInv, pc \in Running, cur \in Step, NEW status, NEW st,
         Save(status, Reached(st))
  PROVE  /\ disk'.status = status
         /\ Standing' = [Standing EXCEPT ![shape.order[cur]] =
                           CASE st \in Met -> "met" [] st \in Lost -> "lost"
                             [] OTHER -> "open"]
  <1>1. /\ disk'.status = status
        /\ disk'.state = mem'.state
        /\ \A s \in Step :
             mem'.state[s] = IF s = shape.order[cur] THEN st ELSE mem.state[s]
    BY Moved DEF IInv
  <1>2. \A s \in Step : /\ disk.state[s] \notin Lost /\ mem.state[s] \notin Lost
                        /\ disk.state[s] \in Met <=> mem.state[s] \in Met
    BY LoopKnows
  <1>3. \A s \in Step : Standing'[s] = IF s = shape.order[cur]
          THEN CASE st \in Met -> "met" [] st \in Lost -> "lost" [] OTHER -> "open"
          ELSE Standing[s]
    BY <1>1, <1>2 DEF Standing
  <1>4. Standing = [s \in Step |-> Standing[s]]
        /\ Standing' = [s \in Step |-> Standing'[s]]
    BY DEF Standing
  <1>. QED
    BY <1>1, <1>3, <1>4

\* Failing the plan at the current step is the contract's Lose.
LEMMA AbandonLoses ==
  ASSUME IInv, pc \in Running, cur \in Step, Current \notin Met,
         NEW st \in Lost, Abandon(st),
         UNCHANGED <<shape, entry, effects, crashes>>
  PROVE  Contract!Next
  <1>1. Contract!Turn(cur)
    BY CurrentTurn
  <1>2. disk'.status = "failed" /\ Standing' = [Standing EXCEPT ![shape.order[cur]] = "lost"]
    BY MovedStanding DEF Abandon, Lost, Met
  <1>3. Progress' = "failed"
    BY <1>2 DEF Progress
  <1>4. Contract!Lose(cur)
    BY <1>1, <1>2, <1>3 DEF Contract!Lose
  <1>. QED
    BY <1>4 DEF Contract!Next

\* Noting how far the current step is, short of a verdict, is a stutter.
LEMMA NotedStutters ==
  ASSUME IInv, pc \in Running, cur \in Step, Current \notin Met,
         NEW st, st \notin Met, st \notin Lost, Save(mem.status, Reached(st)),
         UNCHANGED <<shape, entry, effects, crashes>>
  PROVE  UNCHANGED Contract!vars
  <1>1. Progress = "running" /\ Standing[shape.order[cur]] = "open"
    BY CurrentTurn DEF Contract!Turn
  <1>2. mem.status = "executing"
    BY LoopKnows
  <1>3. disk'.status = "executing" /\ Standing' = [Standing EXCEPT ![shape.order[cur]] = "open"]
    BY <1>2, MovedStanding
  <1>4. Progress' = Progress
    BY <1>1, <1>3 DEF Progress
  <1>5. Standing' = Standing
    BY <1>1, <1>3 DEF Standing
  <1>. QED
    BY <1>4, <1>5, ContractStutter

\* Every step of the executor is a step of the contract or leaves it alone.
LEMMA ContractStep == IInv /\ [Next]_vars => [Contract!Next]_(Contract!vars)
  <1> SUFFICES ASSUME IInv, [Next]_vars
               PROVE  [Contract!Next]_(Contract!vars)
    OBVIOUS
  <1>0. TypeOK /\ DriverKnows /\ EntryRules
    BY DEF IInv
  <1>1. ASSUME NEW verdict \in {"approved", "rejected"}, Decide(verdict)
        PROVE  Contract!Next
    <2>1. Progress = "waiting" /\ Progress' = Progress /\ Standing' = Standing
      BY <1>0, <1>1 DEF Decide, EntryRules, Progress, Standing
    <2>2. Contract!Decide
      BY <1>1, <2>1 DEF Decide, Contract!Decide
    <2>. QED
      BY <2>2 DEF Contract!Next
  <1>2. CASE Dismiss
    <2>1. Progress = "waiting" /\ Progress' = Progress /\ Standing' = Standing
      BY <1>0, <1>2 DEF Dismiss, EntryRules, Progress, Standing
    <2>2. Contract!Decide
      BY <1>2, <2>1 DEF Dismiss, Contract!Decide
    <2>. QED
      BY <2>2 DEF Contract!Next
  <1>3. CASE Create
    <2>1. disk = NoPlan
      BY <1>0, <1>3 DEF Create, DriverKnows
    <2>2. /\ disk'.status = (IF RequiresApproval THEN "pending_approval"
                             ELSE "executing")
          /\ disk'.state = NoPlan.state
      BY <1>3 DEF Create, Save
    <2>3. Progress = "waiting" /\ Standing' = Standing
      BY <2>1, <2>2 DEF Progress, Standing, NoPlan, Met, Lost
    <2>4. CASE RequiresApproval
      <3>1. Progress' = "waiting"
        BY <2>2, <2>4 DEF Progress
      <3>. QED
        BY <1>3, <2>3, <3>1, ContractStutter DEF Create
    <2>5. CASE ~RequiresApproval
      <3>1. Progress' = "running"
        BY <2>2, <2>5 DEF Progress
      <3>2. ~Contract!NeedsApproval
        BY <2>5 DEF RequiresApproval, Contract!NeedsApproval
      <3>3. Contract!Start
        BY <1>3, <2>3, <3>1, <3>2 DEF Create, Contract!Start
      <3>. QED
        BY <3>3 DEF Contract!Next
    <2>. QED
      BY <2>4, <2>5
  <1>4. CASE Offer
    <2>1. Progress = "waiting" /\ Progress' = Progress /\ Standing' = Standing
      BY <1>0, <1>4 DEF Offer, DriverKnows, Progress, Standing
    <2>2. Contract!Ask
      BY <1>0, <1>4, <2>1 DEF Offer, DriverKnows, Contract!Ask
    <2>. QED
      BY <2>2 DEF Contract!Next
  <1>5. CASE ApprovePlan \/ RejectPlan
    <2>1. /\ disk.status = "pending_approval" /\ entry = pc
          /\ \A s \in Step : disk.state[s] = "pending"
      BY <1>0, <1>5 DEF ApprovePlan, RejectPlan, DriverKnows, IInv,
                        UntouchedUntilExecuted
    <2>2. /\ Loaded.status = "pending_approval"
          /\ \A s \in Step : Loaded.state[s] = "pending"
      BY <2>1 DEF Loaded, IInv, CacheMatchesRow
    <2>3. /\ disk'.status = IF pc = "approved" THEN "executing" ELSE "rejected"
          /\ \A s \in Step : disk'.state[s] = "pending"
      BY <1>5, <2>2 DEF ApprovePlan, RejectPlan, Save
    <2>4. Progress = "waiting" /\ Standing' = Standing
      BY <2>1, <2>3 DEF Progress, Standing
    <2>5. CASE ApprovePlan
      <3>1. Progress' = "running"
        BY <2>3, <2>5 DEF ApprovePlan, Progress
      <3>2. Contract!Start
        BY <2>1, <2>4, <2>5, <3>1 DEF ApprovePlan, Contract!Start
      <3>. QED
        BY <3>2 DEF Contract!Next
    <2>6. CASE RejectPlan
      <3>1. Progress' = "rejected"
        BY <2>3, <2>6 DEF RejectPlan, Progress
      <3>2. Contract!Reject
        BY <2>1, <2>4, <2>6, <3>1 DEF RejectPlan, Contract!Reject
      <3>. QED
        BY <3>2 DEF Contract!Next
    <2>. QED
      BY <1>5, <2>5, <2>6
  <1>6. CASE Start
    <2>1. disk'.status = "executing" /\ disk'.state = mem.state
      BY <1>6 DEF Start
    <2>2. /\ disk.status = "executing"
          /\ \A s \in Step : /\ disk.state[s] \notin Lost
                             /\ mem.state[s] \notin Lost
                             /\ disk.state[s] \in Met <=> mem.state[s] \in Met
      BY <1>6, LoopKnows DEF Start
    <2>3. Progress' = Progress /\ Standing' = Standing
      BY <2>1, <2>2 DEF Progress, Standing
    <2>. QED
      BY <1>6, <2>3, ContractStutter DEF Start
  <1>7. CASE LeaveStep
    <2>1. pc \in Running /\ cur \in Step /\ Current \notin Met
      BY <1>0, <1>7 DEF LeaveStep, TypeOK, Running, Step
    <2>2. \A d \in Orders : mem.state[d] \notin Lost
      BY <1>0, <2>1, LoopKnows, Ordered
    <2>3. DepVerdict(cur, mem.state) \subseteq {"ready", "blocked"}
      BY <2>2 DEF DepVerdict
    <2>4. Abandon("blocked")
      BY <1>7, <2>3 DEF LeaveStep
    <2>. QED
      BY <1>7, <2>1, <2>4, AbandonLoses DEF LeaveStep, Lost
  <1>8. CASE BeginStep
    <2>1. pc \in Running /\ cur \in Step /\ Current \notin Met
      BY <1>0, <1>8 DEF BeginStep, TypeOK, Running, Step
    <2>. QED
      BY <1>8, <2>1, NotedStutters DEF BeginStep, Met, Lost
  <1>9. CASE Execute
    <2>1. /\ pc \in Running /\ cur \in Step /\ Current = "executing"
          /\ \A d \in shape.deps[cur] : d \in Orders /\ mem.state[d] \in Met
      BY <1>0, <1>9 DEF Execute, TypeOK, DriverKnows, Running
    <2>2. Current \notin Met /\ Current \notin Lost
      BY <2>1 DEF Met, Lost
    <2>3. Contract!Turn(cur) /\ Contract!Supplied(cur)
      BY <2>1, <2>2, CurrentTurn
    <2>4. effects[cur] <= crashes
      BY <1>9, <2>1, <2>2 DEF IInv, OneRunPerLife, Execute, Current
    <2>5. effects[cur] < crashes + 1
      BY <1>0, <2>1, <2>4, Sizes DEF TypeOK
    <2>6. Progress' = Progress /\ Standing' = Standing
      BY <1>9 DEF Execute, Progress, Standing
    <2>7. Contract!Run(cur)
      BY <1>9, <2>3, <2>5, <2>6 DEF Execute, Contract!Run
    <2>. QED
      BY <2>1, <2>7 DEF Contract!Next
  <1>10. CASE Raise
    <2>1. pc \in Running /\ cur \in Step /\ Current \notin Met
      BY <1>0, <1>10 DEF Raise, TypeOK, DriverKnows, Running, Met
    <2>. QED
      BY <1>10, <2>1, AbandonLoses DEF Raise, Lost
  <1>11. CASE Return
    <2>1. pc \in Running /\ cur \in Step /\ Current \notin Met
      BY <1>0, <1>11 DEF Return, TypeOK, DriverKnows, Running, Met
    <2>2. UNCHANGED <<shape, entry, effects, crashes>>
      BY <1>11 DEF Return
    <2>3. CASE Abandon("failed")
      BY <2>1, <2>2, <2>3, AbandonLoses DEF Lost
    <2>4. CASE Save(mem.status, Reached("verifying"))
      BY <2>1, <2>2, <2>4, NotedStutters DEF Met, Lost
    <2>. QED
      BY <1>11, <2>3, <2>4 DEF Return
  <1>12. CASE Verify
    <2>1. /\ pc \in Running /\ cur \in Step /\ Current \notin Met
          /\ effects[cur] > 0
          /\ \A d \in shape.deps[cur] : d \in Orders /\ mem.state[d] \in Met
      BY <1>0, <1>12 DEF Verify, TypeOK, DriverKnows, Running, Met
    <2>2. UNCHANGED <<shape, entry, effects, crashes>>
      BY <1>12 DEF Verify
    <2>3. CASE Abandon("failed")
      BY <2>1, <2>2, <2>3, AbandonLoses DEF Lost
    <2>4. CASE Save(mem.status, Reached("succeeded"))
      <3>1. /\ Contract!Turn(cur) /\ Contract!Supplied(cur)
            /\ Progress = "running"
        BY <2>1, CurrentTurn
      <3>2. /\ disk'.status = mem.status
            /\ Standing' = [Standing EXCEPT ![shape.order[cur]] = "met"]
        BY <2>1, <2>4, MovedStanding DEF Met, Lost
      <3>3. mem.status = "executing"
        BY <2>1, LoopKnows
      <3>4. Progress' = Progress
        BY <3>1, <3>2, <3>3 DEF Progress
      <3>5. Contract!Succeed(cur)
        BY <2>1, <2>2, <3>1, <3>2, <3>4 DEF Contract!Succeed
      <3>. QED
        BY <2>1, <3>5 DEF Contract!Next
    <2>. QED
      BY <1>12, <2>3, <2>4 DEF Verify
  <1>13. CASE Complete
    <2>1. disk'.status = "completed" /\ disk'.state = mem.state
      BY <1>13 DEF Complete, Save
    <2>2. pc \in Running /\ \A s \in Step : s < cur
      BY <1>0, <1>13, Sizes DEF Complete, TypeOK, Running, Step
    <2>3. \A s \in Step : mem.state[shape.order[s]] \in Met
      BY <1>0, <2>2 DEF DriverKnows
    <2>4. /\ disk.status = "executing"
          /\ \A s \in Step : /\ disk.state[s] \notin Lost /\ mem.state[s] \notin Lost
                             /\ disk.state[s] \in Met <=> mem.state[s] \in Met
      BY <2>2, LoopKnows
    <2>5. /\ Progress = "running" /\ Progress' = "completed"
          /\ \A s \in Step : Standing[shape.order[s]] = "met"
      BY <1>0, <2>1, <2>3, <2>4, Ordered DEF Progress, Standing
    <2>6. Standing' = Standing
      BY <2>1, <2>4 DEF Standing
    <2>7. Contract!Complete
      BY <1>13, <2>5, <2>6 DEF Complete, Contract!Complete
    <2>. QED
      BY <2>7 DEF Contract!Next
  <1>14. CASE Crash
    <2>1. Progress' = Progress /\ Standing' = Standing
      BY <1>14 DEF Crash, Progress, Standing
    <2>2. Contract!Interrupt
      BY <1>14, <2>1 DEF Crash, Contract!Interrupt
    <2>. QED
      BY <2>2 DEF Contract!Next
  <1>15. CASE Restart
    <2>1. Progress' = Progress /\ Standing' = Standing
      BY <1>15 DEF Restart, Progress, Standing
    <2>2. CASE entry' = entry
      BY <1>15, <2>2, ContractStutter DEF Restart
    <2>3. CASE entry = "pending" /\ entry' = "expired"
      <3>1. Progress = "waiting"
        BY <1>0, <2>3 DEF EntryRules, Progress
      <3>2. Contract!Decide
        BY <1>15, <2>1, <2>3, <3>1 DEF Restart, Contract!Decide
      <3>. QED
        BY <3>2 DEF Contract!Next
    <2>. QED
      BY <1>15, <2>2, <2>3 DEF Restart
  <1>16. CASE PassStep \/ Resume \/ UNCHANGED vars
    BY <1>16, ContractStutter DEF PassStep, Resume, vars
  <1>. QED
    BY <1>1, <1>2, <1>3, <1>4, <1>5, <1>6, <1>7, <1>8, <1>9, <1>10, <1>11,
       <1>12, <1>13, <1>14, <1>15, <1>16
    DEF Next, Drive

\* The executor implements PlanContract: whatever crashes cut it short, and
\* whether or not an interrupted plan is executed again, the durable row
\* tells the story of a plan that was approved, taken in order and run once
\* in each life of the process, steps of one order standing and falling
\* together.
THEOREM PlanKeepsContract == Spec => KeepsPlanContract
  BY ContractInit, ContractStep, InvHolds, PTL
     DEF Spec, KeepsPlanContract, Contract!Spec

-----------------------------------------------------------------------------
(* The executor and the approval queue                                     *)

\* One step of a waiting entry, while the plan still waits, is a decision.
LEMMA EntryMoves ==
  ASSUME IInv, Progress = "waiting", Progress' = "waiting",
         \/ entry' = entry
         \/ entry = "absent" /\ entry' = "pending"
         \/ entry = "pending" /\ entry' \in {"approved", "rejected", "expired"}
  PROVE  QueueEntry!Decide
  <1>1. entry \in QueueEntry!Outcome /\ entry' \in QueueEntry!Outcome
    BY DEF IInv, TypeOK, QueueEntry!Outcome, QueueEntry!Decided
  <1>2. QueueEntry!Follows(entry, entry')
    BY DEF QueueEntry!Follows, QueueEntry!Decided
  <1>. QED
    BY <1>1, <1>2 DEF QueueEntry!Decide

\* Every step of the executor is one the approval queue's contract allows its
\* entry, or leaves it alone.
LEMMA EntryStep == IInv /\ [Next]_vars => [QueueEntry!Next]_(QueueEntry!vars)
  <1> SUFFICES ASSUME IInv, [Next]_vars
               PROVE  [QueueEntry!Next]_(QueueEntry!vars)
    OBVIOUS
  <1>0. DriverKnows /\ EntryRules
    BY DEF IInv
  <1>1. ASSUME UNCHANGED entry, entry = "approved" => UNCHANGED disk
        PROVE  UNCHANGED QueueEntry!vars
    BY <1>1 DEF QueueEntry!vars, Progress
  <1>2. CASE Offer \/ Dismiss \/ \E verdict \in {"approved", "rejected"} : Decide(verdict)
    <2>1. /\ disk.status \in {"absent", "pending_approval"} /\ UNCHANGED disk
          /\ \/ entry = "absent" /\ entry' = "pending"
             \/ entry = "pending" /\ entry' \in {"approved", "rejected", "expired"}
      BY <1>0, <1>2 DEF Offer, Dismiss, Decide, DriverKnows, EntryRules
    <2>2. Progress = "waiting" /\ Progress' = "waiting"
      BY <2>1 DEF Progress
    <2>3. QueueEntry!Decide
      BY <2>1, <2>2, EntryMoves
    <2>. QED
      BY <2>3 DEF QueueEntry!Next
  <1>3. CASE Restart
    <2>1. CASE entry' = entry
      BY <1>1, <1>3, <2>1 DEF Restart
    <2>2. CASE entry = "pending" /\ entry' = "expired"
      <3>1. Progress = "waiting" /\ Progress' = "waiting"
        BY <1>0, <1>3, <2>2 DEF Restart, EntryRules, Progress
      <3>2. QueueEntry!Decide
        BY <2>2, <3>1, EntryMoves
      <3>. QED
        BY <3>2 DEF QueueEntry!Next
    <2>. QED
      BY <1>3, <2>1, <2>2 DEF Restart
  <1>4. CASE Create
    BY <1>0, <1>1, <1>4 DEF Create, DriverKnows
  <1>5. CASE RejectPlan
    BY <1>0, <1>1, <1>5 DEF RejectPlan, DriverKnows
  <1>6. CASE ApprovePlan
    <2>1. entry = "approved" /\ disk.status = "pending_approval" /\ entry' = entry
      BY <1>0, <1>6 DEF ApprovePlan, DriverKnows
    <2>2. Loaded.status = "pending_approval"
      BY <2>1 DEF Loaded, IInv, CacheMatchesRow
    <2>3. disk'.status = "executing"
      BY <1>6, <2>2 DEF ApprovePlan, Save
    <2>4. Progress = "waiting" /\ Progress' = "running"
      BY <2>1, <2>3 DEF Progress
    <2>5. QueueEntry!Perform("plan")
      BY <2>1, <2>4 DEF QueueEntry!Perform
    <2>. QED
      BY <2>5 DEF QueueEntry!Next
  <1>7. CASE Start \/ LeaveStep \/ BeginStep \/ Raise \/ Return \/ Verify \/ Complete
    <2>1. pc \in {"start"} \union Running /\ UNCHANGED entry
      BY <1>7 DEF Start, LeaveStep, BeginStep, Raise, Return, Verify, Complete,
                  Running
    <2>2. disk.status = "executing" /\ mem.status = "executing"
      BY <2>1, LoopKnows
    <2>3. disk'.status \in {"executing", "failed", "completed"}
      BY <1>7, <2>2 DEF Start, LeaveStep, BeginStep, Raise, Return, Verify,
                        Complete, Abandon, Save
    <2>4. (Progress = "waiting") = (Progress' = "waiting")
      BY <2>2, <2>3 DEF Progress
    <2>. QED
      BY <2>1, <2>4 DEF QueueEntry!vars
  <1>8. CASE PassStep \/ Execute \/ Crash \/ Resume \/ UNCHANGED vars
    BY <1>1, <1>8 DEF PassStep, Execute, Crash, Resume, vars
  <1>. QED
    BY <1>2, <1>3, <1>4, <1>5, <1>6, <1>7, <1>8 DEF Next, Drive

\* The executor asks of the approval queue what ApprovalContract promises, and
\* PendingQueue implements: the entry of a plan is offered once, decided once
\* and performed at most once, also when the process crashes between approval
\* and execution.
THEOREM EntryKeepsContract == Spec => KeepsApprovalContract
  <1>1. Init => QueueEntry!Init
    BY DEF Init, QueueEntry!Init
  <1>. QED
    BY <1>1, EntryStep, InvHolds, PTL
       DEF Spec, KeepsApprovalContract, QueueEntry!Spec

-----------------------------------------------------------------------------
(* The end of a plan, as far as it is not a matter of fairness             *)

\* The count of steps left is a natural number, and bounded.
LEMMA StepsLeftType == TypeOK => StepsLeft \in 0..(4 * N + 6)
  <1> SUFFICES ASSUME TypeOK PROVE StepsLeft \in 0..(4 * N + 6)
    OBVIOUS
  <1>1. N \in Nat \ {0} /\ cur \in 1..(N + 1)
    BY Sizes DEF TypeOK
  <1>2. pc \in {"new", "idle", "offer", "rejected", "approved", "start"} \union Running
    BY DEF TypeOK, Driving
  <1>3. CASE pc \in {"new", "idle", "offer", "rejected", "approved", "start"}
    BY <1>1, <1>3 DEF StepsLeft
  <1>4. CASE pc \in {"step", "execute"}
    BY <1>1, <1>4 DEF StepsLeft
  <1>5. CASE pc \in {"executed", "verify"}
    BY <1>1, <1>5 DEF StepsLeft
  <1>. QED
    BY <1>2, <1>3, <1>4, <1>5 DEF Running

\* What is left at the next step of a plan, and when the driver is through.
LEMMA StepsLeftHere ==
  ASSUME TypeOK, pc \in Running
  PROVE  /\ StepsLeft \in Nat
         /\ 4 * (N + 1 - cur) < StepsLeft
         /\ pc # "step" => cur \in Step
  <1>1. N \in Nat \ {0} /\ cur \in 1..(N + 1) /\ (pc # "step" => cur \in Step)
    BY Sizes DEF TypeOK, Running
  <1>2. StepsLeft \in Nat
    BY <1>1, StepsLeftType
  <1>3. CASE pc \in {"step", "execute"}
    BY <1>1, <1>3 DEF StepsLeft
  <1>4. CASE pc \in {"executed", "verify"}
    BY <1>1, <1>4 DEF StepsLeft
  <1>. QED
    BY <1>1, <1>2, <1>3, <1>4 DEF Running

\* A driver that leaves the plan, or goes on to its next step, is closer to
\* the end.
LEMMA OnOrOut ==
  ASSUME TypeOK, pc \in Running, pc' = "idle" \/ Advance
  PROVE  StepsLeft' < StepsLeft
  <1>1. /\ cur \in 1..(N + 1) /\ StepsLeft \in Nat /\ 4 * (N + 1 - cur) < StepsLeft
    BY StepsLeftHere DEF TypeOK
  <1>2. CASE pc' = "idle"
    <2>1. StepsLeft' = 0
      BY <1>2 DEF StepsLeft
    <2>2. 0 <= 4 * (N + 1 - cur)
      BY <1>1, Sizes
    <2>. QED
      BY <1>1, <2>1, <2>2, Sizes
  <1>3. CASE Advance
    <2>1. StepsLeft' = 4 * (N + 1 - (cur + 1)) + 4
      BY <1>3 DEF Advance, StepsLeft
    <2>. QED
      BY <1>1, <2>1, Sizes
  <1>. QED
    BY <1>2, <1>3

\* Every step of the driver is one towards the end of the plan.
LEMMA DriveAdvances == IInv /\ Drive => StepsLeft' < StepsLeft
  <1> SUFFICES ASSUME IInv, Drive PROVE StepsLeft' < StepsLeft
    OBVIOUS
  <1>0. TypeOK
    BY DEF IInv
  <1>1. CASE Offer \/ RejectPlan
    BY <1>1 DEF Offer, RejectPlan, StepsLeft
  <1>2. CASE ApprovePlan
    BY <1>2, Sizes DEF ApprovePlan, StepsLeft
  <1>3. CASE Start
    BY <1>3, Sizes DEF Start, StepsLeft
  <1>4. CASE PassStep \/ Complete
    BY <1>0, <1>4, OnOrOut DEF PassStep, Complete, Running
  <1>5. CASE LeaveStep \/ Raise
    BY <1>0, <1>5, OnOrOut DEF LeaveStep, Raise, Abandon, Running
  <1>6. CASE Verify
    BY <1>0, <1>6, OnOrOut DEF Verify, Abandon, Running
  <1>7. CASE BeginStep
    BY <1>0, <1>7, Sizes DEF BeginStep, StepsLeft, TypeOK
  <1>8. CASE Execute
    BY <1>0, <1>8, Sizes DEF Execute, StepsLeft, TypeOK
  <1>9. CASE Return
    <2>1. CASE pc' = "verify" /\ UNCHANGED cur
      BY <1>0, <1>9, <2>1, Sizes DEF Return, StepsLeft, TypeOK
    <2>2. CASE Abandon("failed")
      BY <1>0, <1>9, <2>2, OnOrOut DEF Return, Abandon, Running
    <2>. QED
      BY <1>9, <2>1, <2>2 DEF Return
  <1>. QED
    BY <1>1, <1>2, <1>3, <1>4, <1>5, <1>6, <1>7, <1>8, <1>9 DEF Drive

\* Crashes, restarts and the dismissal of an entry give the driver no work.
LEMMA OthersGiveNoWork ==
  ASSUME IInv, Dismiss \/ Crash \/ Restart \/ UNCHANGED vars
  PROVE  StepsLeft' <= StepsLeft
  <1>1. StepsLeft \in Nat
    BY StepsLeftType DEF IInv
  <1>2. CASE Crash
    <2>1. StepsLeft' = 0
      BY <1>2 DEF Crash, StepsLeft
    <2>. QED
      BY <1>1, <2>1
  <1>3. CASE Dismiss \/ Restart \/ UNCHANGED vars
    <2>1. StepsLeft' = StepsLeft
      BY <1>3 DEF Dismiss, Restart, vars, StepsLeft
    <2>. QED
      BY <1>1, <2>1
  <1>. QED
    BY <1>2, <1>3

\* Between two interruptions the driver is through with a plan of N steps after
\* 4N + 6 steps at most: no run of execute_plan goes round in circles.
THEOREM PlansComeToAnEnd ==
  Spec => ComesToAnEnd /\ [](StepsLeft \in 0..(4 * N + 6))
  <1>1. IInv /\ [Next]_vars => DriverAdvances
    <2> SUFFICES ASSUME IInv, [Next]_vars PROVE DriverAdvances
      OBVIOUS
    <2>1. StepsLeft \in Nat /\ StepsLeft' \in Nat
      <3>1. TypeOK /\ TypeOK'
        BY TypeStep DEF IInv
      <3>2. StepsLeft \in 0..(4 * N + 6)
        BY <3>1, StepsLeftType
      <3>3. (StepsLeft \in 0..(4 * N + 6))'
        BY <3>1, StepsLeftType, PTL
      <3>. QED
        BY <3>2, <3>3, Sizes
    <2>2. CASE Drive
      BY <2>1, <2>2, DriveAdvances DEF DriverAdvances
    <2>3. CASE Dismiss \/ Crash \/ Restart \/ UNCHANGED vars
      <3>1. StepsLeft' <= StepsLeft
        BY <2>3, OthersGiveNoWork
      <3>2. Drive => StepsLeft' < StepsLeft
        BY DriveAdvances
      <3>. QED
        BY <2>1, <3>1, <3>2 DEF DriverAdvances
    <2>4. CASE Create \/ Resume \/ \E verdict \in {"approved", "rejected"} : Decide(verdict)
      BY <2>4, DriveAdvances DEF DriverAdvances
    <2>. QED
      BY <2>2, <2>3, <2>4 DEF Next
  <1>2. IInv => StepsLeft \in 0..(4 * N + 6)
    BY StepsLeftType DEF IInv
  <1>. QED
    BY <1>1, <1>2, InvHolds, PTL DEF Spec, ComesToAnEnd

\* While the process runs, a plan that is EXECUTING is in a driver's hands or
\* among those that resume_in_progress returns: none is lost between the two.
THEOREM NoPlanForgotten == Spec => []NeverForgotten
  <1>1. Init => NeverForgotten
    BY DEF Init, NeverForgotten, NoPlan
  <1>2. IInv /\ NeverForgotten /\ [Next]_vars => NeverForgotten'
    <2> SUFFICES ASSUME IInv, NeverForgotten, [Next]_vars PROVE NeverForgotten'
      OBVIOUS
    <2>1. CASE Create \/ ApprovePlan \/ Start
      <3>1. CASE Create
        BY <3>1 DEF Create, RequiresApproval, Save, NeverForgotten
      <3>2. CASE ApprovePlan
        <4>1. pc' = "start" \/ (UNCHANGED disk /\ disk.status = "pending_approval")
          BY <3>2 DEF ApprovePlan, IInv, DriverKnows
        <4>. QED
          BY <4>1 DEF NeverForgotten
      <3>3. CASE Start
        BY <3>3 DEF Start, NeverForgotten
      <3>. QED
        BY <2>1, <3>1, <3>2, <3>3
    <2>2. CASE RejectPlan \/ Complete \/ Crash
      BY <2>2 DEF RejectPlan, Complete, Crash, IInv, DriverKnows, Loaded, Save,
                  CacheMatchesRow, NeverForgotten
    <2>3. CASE LeaveStep \/ BeginStep \/ Raise \/ Return \/ Verify
      BY <2>3 DEF LeaveStep, BeginStep, Raise, Return, Verify, Abandon, Save,
                  NeverForgotten
    <2>4. CASE Restart
      BY <2>4 DEF Restart, Resumable, NeverForgotten
    <2>5. CASE PassStep \/ Execute \/ Resume
      BY <2>5 DEF PassStep, Execute, Resume, Advance, Running, NeverForgotten
    <2>6. CASE \/ Offer \/ Dismiss \/ UNCHANGED vars
               \/ \E verdict \in {"approved", "rejected"} : Decide(verdict)
      BY <2>6 DEF Offer, Dismiss, Decide, vars, IInv, DriverKnows, EntryRules,
                  NeverForgotten
    <2>. QED
      BY <2>1, <2>2, <2>3, <2>4, <2>5, <2>6 DEF Next, Drive
  <1>. QED
    BY <1>1, <1>2, InvHolds, PTL DEF Spec

=============================================================================
