# OasisAgent: specifications, model checking and proofs

OasisAgent watches home infrastructure, decides what to do about an event, and
does it: at once, or after an operator agreed. This directory holds TLA+
specifications of the parts where that can go wrong without a test noticing,
the TLC configurations that check them on small instances, and TLAPS proofs of
the safety properties for every instance.

The agent is one Python process: one asyncio thread, one aiosqlite connection
that all coroutines share. Nothing is preempted, but every `await` lets the
other coroutines run, so a decision made before an await may be stale after it,
and one coroutine's `commit()` makes another one's statements durable. That is
the grain of the models: **a step is the stretch between two awaits, or one
statement executed by the database connection.**

## 1. The system

| component | state | operations | talks to |
|---|---|---|---|
| Orchestrator (`orchestrator.py`) | `_shutting_down`, suppression counters, task lists | `start`, `run_loop`, `_process_one`, `_dispatch_*`, `_process_approval`, `_process_rejection`, `_expire_stale_actions`, `stop`/`_shutdown`, `restart_*`, topology discovery | everything below |
| Approval queue (`approval/pending.py`) | table `pending_actions`, `_actions` dict, `_pending_keys` set | `from_db`, `add`, `approve`, `reject`, `expire_stale`, `list_pending` | called by the loop, by MQTT/web/chat decisions, by the shutdown |
| Plan executor (`engine/plan_executor.py`) | table `remediation_plans`, `_plans` dict | `create_plan`, `approve_plan`, `reject_plan`, `execute_plan`, `resume_in_progress` | handlers, circuit breaker; its plans wait in the approval queue |
| Event queue (`engine/queue.py`) | `asyncio.Queue`, `_seen`, `_last_prune`, warning flag | `put`, `put_nowait`, `get`, `drain` | producers: ingestion adapters and scanners; consumer: `run_loop` |
| Decision pipeline (`engine/decision.py`, `guardrails.py`, `known_fixes.py`, `correlator.py`, `circuit_breaker.py`) | correlation groups, breaker attempts, fix registry | `process_event`, `check`, `record_attempt` | LLM services, orchestrator |
| Cross-domain correlator (`engine/cross_correlator.py`) | window, cluster tables | `correlate`, `merge_clusters` | topology, database |
| Topology (`engine/service_graph.py`, `db/topology_store.py`) | graph, tables | `load_from_db`, `merge_discovered`, prune, `gather_dependency_context` | adapters, decision pipeline |
| Approval listener, interactive channels | connection, backoff | connect, listen, stop | `_handle_approval`, `_handle_rejection` |
| Ingestion adapters, scanners | last known states, tasks | poll, compare, enqueue | event queue |
| Handlers | sessions | `execute`, `verify`, `get_context` | external services |
| LLM services | endpoints | triage, diagnosis, with retry and fallback | external models |
| Notifications | retained MQTT topics, notification table, SSE queues | `dispatch`, `send`, `prune` | orchestrator |
| Configuration store, registry, statistics | tables | CRUD, periodic flush | web interface, `restart_*` |
| Web interface, audit, CLI | sessions | requests | everything, through the above |

How an event travels: an adapter calls `put_nowait`; `run_loop` sweeps expired
approvals, takes an event and runs it through suppression, correlation,
decision and guardrails. An AUTO_FIX action runs at once. A RECOMMEND action,
or a plan with a step that is not AUTO_FIX, becomes an entry of the approval
queue; a decision arrives later on another coroutine and runs the handler or
the plan from there.

What makes the parts correct, and what is hard about them:

* **Approval queue**: a decision happens once although approvals, rejections,
  the expiry sweep and the shutdown race, is never taken back by a crash, and
  the handler runs at most once. Hard: every operation writes a row, commits and
  updates a cache with an await in between; the commit is shared.
* **Plan executor**: dependencies first, approval first, a row that tells the
  truth after a crash in the middle of a handler call, no repetition of
  settled steps, a verdict that follows from the steps, and an end to every
  plan. Hard: crash and resumption at each step of a long protocol.
* **Event queue**: no duplicate within the window, whenever the cache was
  pruned; a capacity limit and a warning maintained in different methods.
  Hard: boundaries of the window, and `put()` that waits after its check.
* **Decision pipeline**: no action without guardrails; suppression, correlation
  and breaker agree with each other. Hard: five stages with memory of their own.
* **Cross-domain correlator, topology**: merges across awaits; manual edits
  survive discovery.
* **Adapters, scanners**: what was last reported about a thing agrees with what
  the adapter remembers of it, and every change is noticed in the end. Hard: the
  memory survives errors, disappearances and outages in a different way in each
  of some seventy comparisons; the queue may drop a report, which is never
  offered again; several aspects share a dedup key.
* **Handlers, LLM services**: a verified action has been done; a request ends
  with an answer or an error the caller expects. Hard: requests that only start
  a task, errors after the effect, polling against a deadline.
* **Lifecycle**: shutdown runs, in order, whatever started it; a live restart
  replaces the component it meant to replace.

The hazards, with their lines, are listed in `PROJECT.json`.

## 2. Modules

| module | models |
|---|---|
| `ApprovalContract` | what the approval queue promises, without database, cache or tasks |
| `PendingQueue` | the approval queue and the coroutines that drive it |
| `MCPendingQueue` | the instance TLC checks |
| `PendingQueueProofs` | theorems about `PendingQueue` |
| `PlanContract` | what the plan executor promises, without rows, caches or coroutines |
| `PlanExecutor` | one plan from its creation to its end, across crashes |
| `MCPlanExecutor`, `PlanExecutorProofs` | its instance and its theorems |
| `EventQueue` | the event queue |
| `MCEventQueue`, `EventQueueProofs` | its instance and its theorems |
| `Intake` | the gates of `_process_one` before a decision: TTL, suppression, correlation |
| `MCIntake`, `IntakeProofs` | its instance and its theorems |
| `Monitors` | the vocabulary of the adapters: rules and loops |
| `InfraMonitors`, `ServiceMonitors`, `ScannerMonitors` | one rule per monitored aspect, one loop per adapter |
| `Ingestion` | an adapter at work on the aspects it watches |
| `MCIngestion`, `IngestionProofs` | its instance; theorems about every rule and about the adapter |
| `Handlers` | what an operation does to its target, `execute` and `verify` |
| `LlmClient` | one completion with its retries and its fallback |
| `Dispatch` | an event from the known fixes to the handler or the approval queue; uses the two above |
| `MCDispatch`, `DispatchProofs` | its instance and its theorems |
| `Lifecycle` | the agent from its start to its end |
| `MCLifecycle`, `LifecycleProofs` | its instance and its theorems |

### PendingQueue

`row` is the status column as the shared connection sees it, `disk` as last
committed, `mem` the `_actions` dict, `keys` the `_pending_keys` set. `pc[t]`
is the await where task `t` is suspended, `arg[t]` the entry in its hands.
Tasks are the decision requests (`_process_approval`, `_process_rejection` from
any channel), the event loop, and the shutdown.

| code | actions |
|---|---|
| `approve`, `reject` | `Receive`/`RejectNext` (cache check), `Cas` (the UPDATE), `Commit`, `Apply` (cache and key) |
| `_process_approval` after `approve` | `Dispatch` |
| `add` | `BeginAdd` (key check), `Insert`, `InsertCommit`, `InsertApply` |
| `expire_stale` | `Sweep` (UPDATE ... RETURNING), `SweepCommit`, `SweepApply` |
| rest of `run_loop` | `HandleEvent`, `NoEvent`, `LeaveLoop` |
| `stop`, `_shutdown` | `Stop`, `ListPending`, `RejectNext`, `BeginDrain`, `DrainEvent`, `Exit` |
| `from_db` | `Restart` |
| outside | `Crash` (anywhere), `Elapse` (an entry's time is up) |

An entry's content is reduced to what the dedup key and the operator see of it:
operation, target, entity. Handlers are a counter, `dispatched`. The in-memory
mode (`db=None`) is for tests and not modelled.

`KeepsContract` is the refinement: with `outcome <- disk` and
`performed <- dispatched`, every behaviour of `PendingQueue` is one of
`ApprovalContract`.

### PlanExecutor

`disk` is the plan's row, `mem` the cached plan, `pc`/`cur` the position of the
coroutine inside `execute_plan`, `effects[s]` how often step `s` was really run.
`entry` is the plan's entry in the approval queue, at the level of
`ApprovalContract`. Each status change and the `_persist_plan` after it are one
step (`Save`): no other coroutine writes the plan in between, and a crash
between the two leaves what a crash before both leaves. `Execute` is separate,
because a crash can fall between the handler call and the record of it. Shapes
of plans (orders, `depends_on`, `conditional`, AUTO_FIX) are chosen in `Init`;
they are what `_validate_plan_steps` lets through (`Validated`): dependencies on
lower orders only, but, since it strips steps in one pass, also on an order
whose step was stripped (0 in the model); and nothing is asked of the orders
themselves, so two steps may have the same one. An order is written as the last
step that has it, because that is the step whose `StepState` the dict
`state_by_order` keeps: `shape.order[s]` is at once the order of `s` and the
state that `execute_plan` reads and writes for it. Of two steps of one order
the first is run, the second passed over as already done, and the `StepState`
of the first stays PENDING in a COMPLETED plan. `Dismiss` is what the expiry sweep and the
shutdown do: they decide the entry and leave the plan alone (`expire_plan` has
no caller and is not an action).

`PlanExecutor` with a database is what `tests/test_plan_executor.py` exercises.
At this commit the orchestrator builds one only in
`_build_components_from_config`; the database-backed web deployment never does.

`KeepsPlanContract` is the refinement: the contract's `permission` is the queue
entry, its `progress` and `standing` are the row's status and the states of its orders with
everything between "open" and a verdict folded together, its `lives` the crashes
survived. Position, cache and the coroutine are not in it, so a restart that
loads, resets and resumes a plan is a stutter of the contract, and a second run
of a step is one only in a new life of the process.

`KeepsApprovalContract` joins the executor to the queue: its `entry` is what
`ApprovalContract` lets a client of the queue see, and `PendingQueue` implements
that contract. The operators' part in `PlanExecutor` is thus what the queue
really does. `ComesToAnEnd` and `NeverForgotten` are what stands behind
`ResumedPlansFinish` besides fairness.

`ResumeExecutes` tells the two callers of `resume_in_progress` apart: the tests
execute what it returns (TRUE), `Orchestrator.start` does not (FALSE).

### EventQueue

An event is its dedup key. `seen` is `_seen`, `accepted` a history variable:
when an event with the key last entered. `blocked[p]` is the event that a
`put()` is waiting with. Everything else is one step per call. `drain()` ends
the life of the queue, as its docstring demands. No producer in `src` calls the
waiting `put()` at this commit (the adapters use `put_nowait`), while
`ARCHITECTURE.md:1532` has them block on it; the class offers both, and so does
the model.

### Intake

`count` is `_counts` of `EventSuppressionTracker` (0 for a missing key), `group`
is `_groups` of `EventCorrelator` with `NoGroup` for a missing system; the
`count` field of a group decides nothing and is left out, as is the generated
correlation id. The gates are one step (`Expire`, `Suppress`, `Follow`,
`Lead`), because there is no await between them; the audit or the decision
behind them is a second one (`Finish`). `hand[w]` is the event that the
coroutine `w` awaits there. There are two: the loop, and the drain of
`_shutdown`, which may start while the loop is inside its last event, or waits in
`get()` and takes one more. Whether an event has expired is left open: any may.
`log` and `taken` are history; the properties compute from the log what the
tracker and the correlator should have said, and compare.

The model ends with `stop()`: the web application cancels the loop's task only
after it, and an event cancelled then is counted nowhere.

### Monitors and Ingestion

Every adapter keeps, per thing it watches, what it last saw, and decides from
that memory and the new answer whether to publish an alarm, a clear or nothing.
A **rule** is that comparison as data: the good and the bad states, what is said
for each pair of memory and answer, what is remembered, what becomes of the
memory when the thing is missing or its fetch fails, the poll function it
belongs to, the dedup key. A **loop** is the shape of `start` and `_poll_loop`:
how it connects, how many poll functions a round has, which of them have an
error handler of their own, swallow errors, or are switched off after repeated
404s, whether the wait backs off. The three modules of rules hold one
definition per aspect, next to the adapter it is in; `Ingestion` runs them.

A behaviour follows one adapter and one or two of its aspects (`watched`).
`world` is what a poll would find; it changes by itself at any time (`Happen`),
also for an aspect that has just been polled.

| code | actions |
|---|---|
| `start`, its connection | `Connect`, `ConnectFails`, `AuthFails`, `Disconnect` |
| a poll function that returns | `Answer` (fetch, comparison, memory, `put_nowait`, in this order) |
| one whose fetch fails | `Swallow` (caught inside), `Fail` (leaves it), `Unsupported` (403, 404) |
| the wait between rounds, the backoff | `Elapse` |
| `stop` | `Stop` |

`Publish` is `_enqueue` and `put_nowait` in one: the queue's dedup window, and a
full queue as a free choice (`room`). Adaptive scanning is `pace`; that it
shortens the wait shows in `Elapse`, where a shortened wait need not outlast a
step of the dedup window. The three adapters that listen to a stream (MQTT, the Home Assistant
websocket and log poller) are the loops that connect with "stream" or "held":
one message is one `Answer`.

### Handlers, LlmClient and Dispatch

`config` is the configuration the agent starts with, `job` the event the loop is
at: its stage, its actions and the `fate` of each, its result, and whether a
human was told. `run[w]` is the handler call of a worker: the loop, or the task
of an approved action. `call` is the completion asked for last.

| code | actions |
|---|---|
| `_process_one`, `process_event`: known fixes | `ReceiveKnown`, `ReceiveUnknown` |
| triage, and the disposition it returns | `Classify`, `ModelRefuses` |
| `_apply_t2_reasoning` with `check` per action | `Diagnose` |
| `_dispatch_remediation_plan` and the handlers' part of `execute_plan` | `PlanStep`, `PlanStepEnds`, `PlanEnds` |
| `_dispatch_handler`, `_dispatch_t2_actions` | `Execute`, `Skip`, `Enqueue`, `EnqueueDuplicate`, `ActionEnds`, `ActionsEnd` |
| `write_candidate` | `Learn`, in `ActionEnds` |
| `_process_approval`, rejection, expiry | `Approve`, `TaskEnds`, `Withdraw` |
| a handler's `execute` and `verify` | `CallFails`, `CallSucceeds`, `Look`, `LookFails`, `PastDeadline` |
| the thing it acts on | `TakeEffect`, `Drift` |
| `LLMClient.complete` | `LlmAnswers`, `LlmTransientError`, `LlmOtherError`, `LlmRefuses` |

The handlers' operations are a table (`Operations`): the effect on the target,
whether the request only starts a task, the states `verify` waits for, whether
it looks once. Which known fix matches, what a model answers and what an
operator decides is left open. The approval queue is the set of its pending
keys here; `PendingQueue` has the rest. A plan of AUTO_FIX steps is run by the loop itself,
so the handler calls of its steps are in `Dispatch`, one after the other until
one is not verified; its rows, dependencies and crashes, and the plans that wait
for an approval, are in `PlanExecutor`. Guardrails run once per action, when the
diagnosis is there; an approved action is not checked again and the steps of a
plan are not checked at all, as in the code.

### Lifecycle

`stage` is where the process stands, with one stage for each step of
`_shutdown`; `flag` is `_shutting_down`; `up` the parts that were started and
not stopped (a part that fails to start is logged and left out); `adapter` the
adapters with their tasks. `mode` tells `run()` with its signal handler from
the web application's lifespan, which calls `start`, runs the loop as a task,
calls `stop` and cancels the task.

| code | actions |
|---|---|
| `start` | `Start` |
| `_run_adapter` | `Produce`, `AdapterEnds` |
| `restart_connector` | `Restart` |
| `run_loop` | `TakeEvent`, `FinishEvent`, `LoopEnds`, `LoopFails` |
| `_signal_handler`, `stop` | `Signal`, `Stop` |
| `_shutdown` | `RejectPending`, `StopAdapters`, `DrainQueue`, `StopPart` |
| the end of `run` or of the lifespan | `Exit` |

`_shutdown` rejects what is pending outside any `try`; that a database error
there cuts the shutdown short is left out, and so is a restart that is still
under way when the shutdown begins.

## 3. Runs

| run | instance | result |
|---|---|---|
| `pending_queue` | 2 entries with one key, 2 concurrent decisions, loop, shutdown; crashes, restarts and stops unbounded | 262,148 states, all properties hold |
| `plan_executor` | plans of 3 steps: the dependency graphs that validation lets through, for orders that differ and for two that share one, by lenient/strict, with and without approval (360 plans); 2 crashes | 68,232 states, all properties hold |
| `plan_resume` | the same under the real `start` | `ResumedPlansFinish` violated |
| `event_queue` | capacity 3, window 3, prune interval 2, time up to 6; 2 keys, events without a key, 2 blocking producers | 114,538 states up to symmetry, all properties hold |
| `event_queue_window` | the same | `WindowHolds` violated |
| `intake` | 2 entities of 1 system, 2 failures and a recovery, threshold 2, window 1, 4 events, time up to 2 | 1,724,965 states up to symmetry, all properties hold |
| `ingestion` | every rule by itself and six pairs that share a key or a memory; window 2, backoff up to 4, 3 refusals, 2 clean scans | 120,849 states, all properties hold |
| `ingestion_reconnect` | one adapter of each way to connect | `Reconnects` violated |
| `dispatch` | 6 configurations, 2 entities of which one is blocked, 3 known fixes, diagnoses of up to 2 actions or with a plan, 1 approval task, 1 retry, 1 poll | 339,120 states, all properties hold |
| `dispatch_loss` | the same | `NoActionLost` violated |
| `escalation` | the same | `EscalationsReachAHuman` violated |
| `shutdown` | 2 adapters, a queue of 2, both deployments | `GracefulShutdown` violated |

`pending_queue` checks that each entry is dispatched at most once and only after
a durable approval (`AtMostOneDispatch`); that the cache never shows what a
crash could undo (`SqliteFirst`); that it lags behind the row only while the
coroutine that changed the row is on its way (`CacheLagIsInFlight`); that no
dedup key outlives its entry (`NoStaleKey`); the refinement (`KeepsContract`);
and that an entry whose time is up is settled (`DueEntriesSettle`).

`plan_executor` checks `DependenciesFirst`, `ApprovedFirst`, `WriteAhead` (an
order is never recorded as untouched when a step of it may have run, and when it
is recorded as done its first step has run), `VerdictMatchesSteps` (of the
orders; the `StepState`s that no order leads to stay PENDING),
`RetriesAreCrashes` (at most one extra run per crash), `SettledForGood` (no
settled step is run again or forgotten), the refinement (`KeepsPlanContract`:
asked, approved, started, steps taken strictly in order, each run once in each
life, those of one order standing and falling together, the first lost one ends
the plan) and `ResumedPlansFinish`.

`event_queue` checks `DictRemembersTheWindow` (pruning never changes the answer
of a duplicate check) and `WarningIsHysteresis`. `event_queue_window` asks for
what the docstring promises, without exception (`WindowHolds`), and gets the
trace of a `put()` that waited.

`intake` checks `SuppressionIsExact` (an event is suppressed if and only if
`Threshold` unbroken reports came before it), `FollowersHaveALeader` and
`OneLeaderPerWindow` (the correlator drops what follows a recent leader, and
only that), and `CountedOnce` (the counters of the orchestrator account for
every event that passed).

`ingestion` checks `PictureTrue` (a remembered problem has been announced, and a
remembered recovery too, with three exceptions the definition names: the queue
refused the event, a rule is silent about the first sight, a rule announces no
recovery) and `Noticed` (an adapter that has not ended is up to date about each
aspect again and again, whatever failed in between).

`dispatch` checks `GuardedExecution` (nothing runs in a dry run or under the kill
switch; an action the loop runs has passed every guardrail and was meant to run
by itself; a step of a plan is behind an action that has, in a plan of AUTO_FIX
steps), `EveryFateMet` (each action of an event meets a fate that is its own, and
unless the event ended in an exception nothing is left to do and a human is
told where the rules say so), `VerifiedMeansDone`, `KeepsBestSuggestion` (of the
suggestions whose action was executed the most confident is on file) and
`EventsFinish`. `dispatch_loss` asks for the docstring of `_dispatch_t2_actions`,
that the actions are independent (`NoActionLost`), and gets the trace of the
exception.

**Why the bounds are enough.** Interference in the approval queue is pairwise:
two tasks on one entry, one task on two entries (the shared commit, the key).
Two decisions, the loop and the shutdown give every pair of kinds, and two
entries with the *same* key are the hard case for the dedup set; the proofs
cover any number. Three steps are the smallest plan with a step before, at and
behind a failure and a dependency that skips one; two crashes let the second
one hit the recovery from the first. In the event queue the window is longer
than the prune interval, as in the defaults (300 s and 60 s), capacity 3
separates the thresholds (on at 3, off at 1), and the clock runs for two
windows. Four events at the gates are the threshold, the first suppressed
one and one that breaks or follows it; two time steps outlast a window of one.
One system is enough there because the correlator treats systems separately;
the proofs cover any number. Entities, and failures, are interchangeable, which
justifies the symmetry. Adapters do not share memory, and the aspects of one
adapter touch each other only through a key or an error, so every rule alone and
the pairs that do touch are all the cases; a window of two polls has a change
inside it and one after it. At the dispatch the configurations differ from the
usual one in a single setting, because a setting is looked at independently of
the others; two actions are a failed one and one behind it; one retry and one
poll are the smallest numbers with a repetition and a deadline. `MaxCrashes`,
`MaxTime` and `MaxEvents` are the only bounds on behaviour; the fixed capacities
(`MaxSize`, `MaxQueue`, `MaxDelay`, `MaxPolls`, `Retries`) are the program's own.

Deadlock is checked in the runs of `PendingQueue` and `Dispatch`. A plan, an
adapter and the agent end, and the clocks and events of `EventQueue` and
`Intake` run out: their configurations switch the check off.

### Divergences found

Each of these has a run that shows it:

1. *A duplicate after a wait.* `put()` checks for duplicates, waits for room, and
   enters without checking again; an event of its key may have entered meanwhile.
   `queue.py:13-15` says such events are silently dropped (`event_queue_window`).
2. *A pending action takes the others along.* `_dispatch_t2_actions` publishes
   what `add` returned, which is None for an action that is pending already. With
   an MQTT channel that raises, and the remaining actions of the diagnosis are
   lost; `orchestrator.py:2192` says each is dispatched independently
   (`dispatch_loss`).
3. *Plans do not resume.* `start` loads EXECUTING plans and logs their number.
   README, class docstring and the comment at the call say they resume
   (`plan_resume`).
4. *Adapters that give up.* When the first connection of Portainer, UniFi,
   Proxmox or Cloudflare fails, `start` returns and nothing polls them again until
   the connector or the agent is restarted. `ingestion/base.py:43` demands
   reconnection (`ingestion_reconnect`). The Home Assistant log poller, too, keeps
   a connection that broke.
5. *Escalations that reach nobody.* The diagnosis that stands for an unreachable
   model is one action of tier `escalate`; the guardrails block it, and a blocked
   event is not notified. `decision.py:333` says it is escalated to a human
   (`escalation`).
6. *A signal stops nothing.* In the standalone deployment the signal handler
   sets the flag that `stop` takes for "already stopped": `_shutdown` never
   runs. `orchestrator.py:5`, `orchestrator.py:1879` and `ARCHITECTURE.md:1416`
   promise a graceful shutdown (`shutdown`). Under the web application it does
   run, which `LifecycleProofs` proves.

These are stated as a definition of the module, which TLC refutes when it is
added as an invariant (7 to 11) or an action property (12) to the passing
configuration of that module; no run is kept for them:

7. *Dedup ignores the entity of untargeted actions*
   (`PendingQueue!SuppressesOnlyTheSameEntity`). A T0 fix has no
   `target_entity_id`, so the key is the same for all entities; `pending.py:196`
   says handler:op:entity. While one entity's recommendation waits, the same
   recommendation for another one is dropped.
8. *Conditional steps abort* (`PlanExecutor!ConditionalStepsAreSkipped`). T2 is
   told a conditional step is skipped when its dependency fails
   (`llm/prompts/diagnose_failure.py:128`); `execute_plan` has returned by then.
9. *A step that never runs* (`PlanExecutor!EveryStepRuns`). Of two steps of one
   order only the first is run, its own `StepState` stays PENDING, and the plan
   is COMPLETED under the comment "All steps completed (succeeded or skipped)"
   (`plan_executor.py:286`).
10. *Steps of a plan pass no guardrail* (`Dispatch!EveryStepGuarded`).
    `guardrails.py:4-5` says "Every action must pass through guardrails before
    execution", and `ARCHITECTURE.md:470-472` that blocked entities are never acted
    upon; a step about a blocked entity is run once any action diagnosed along with
    the plan has passed.
11. *A refused model loses the event* (`Dispatch!RefusalsReachAHuman`). An
    authentication or bad-request error of the model is no `LLMError`; it leaves
    `classify` or `diagnose` and ends in the handler of `_process_one`, which logs.
    The docstring of `classify` says the result is safe "so the event isn't lost",
    `ARCHITECTURE.md:1526-1527` that the disposition is then ESCALATE_HUMAN.
12. *Unverified candidates* (`Dispatch!CandidatesAreVerified`). A suggestion is
    written down as soon as its action was executed, whatever `verify` found;
    `ARCHITECTURE.md:2386` puts "verify succeeds" before it.

### Fairness

`PendingQueue` assumes weak fairness of the loop, of the shutdown, of every
started decision, and of `Restart`. asyncio runs every ready coroutine,
aiosqlite's thread serves statements in order, `run_loop` waits at most a
second for an event, and `docker-compose.yml` has a restart
policy. Nothing is assumed
of operators, events, crashes, stops or time. `PlanExecutor` assumes weak
fairness of its driver (handlers return: they have timeouts), of `Restart`, and
of `Resume`, which is disabled for ever when `ResumeExecutes` is FALSE.
`Ingestion` assumes weak fairness of the waits and strong fairness of a
successful connection and of each poll function's answer: the loop always comes
round again, and a service that is asked again and again answers again and
again; nothing is assumed of any single request, of the room in the queue or of
the world. Without the second part an outage may last for ever and nothing be
noticed. `Dispatch` assumes weak fairness of the loop's own steps: every request
it awaits, to a model or a handler, has a timeout. `EventQueue`, `Intake` and
`Lifecycle` have no liveness property and no fairness.

## 4. Proofs

The theorems have the shape `Spec => []P`, `Spec => [][A]_vars` or, where a
contract is implemented, `Spec => Contract!Spec` (`RulesSound` is about constants
only), for all values of the constants under the assumptions of the module (`TaskAssumption`,
`PlanAssumption`, `QueueAssumption`, `IntakeAssumption`, `HandlersAssumption`,
`LlmAssumption`, `DispatchAssumption`, `IngestionAssumption`): tasks are distinct, plans, configurations
and diagnoses well-typed, sizes natural numbers. `Lifecycle` needs none. In each module `IInv` is the inductive invariant; a proof
module shows `Init => IInv`, one lemma per group of actions that they preserve
it, and `InvHolds`, from which the others follow. TLC has checked each `IInv` on
the instance of the module's run.

* `PendingQueueProofs`: none of the properties is inductive. `IInv` adds what
  each suspended task may rely on (`TaskKnows`), that the winner of the
  compare-and-swap is alone with the entry (`Exclusive`), that uncommitted rows
  are one legal step ahead (`RowsAhead`), and that a dispatched entry is in
  nobody's hands (`DispatchedIsOver`). `CacheLagIsInFlight` is shown on top of
  it. `QueueKeepsContract` proves the refinement.
* `PlanExecutorProofs`: `IInv` adds that the cached plan is the row up to
  steps put back to READY (`CacheMatchesRow`), what the driver knows at each
  position (`DriverKnows`), that a plan never executed is untouched, and that a
  step waiting to run has run at most once per crash (`OneRunPerLife`).
  All of it is said of orders, so that steps which share one are covered:
  `shape.order[s]` is below no step that has it, hence a step behind the driver
  has an order that is met. `SettledStays` is an action property proved from
  it. `PlanKeepsContract`
  proves the refinement of `PlanContract`, action by action: `CurrentTurn` says
  what the contract sees while the driver is at a step, `MovedStanding` what a
  `Save` of that step changes, `AbandonLoses` and `NotedStutters` that failing the
  plan is the contract's `Lose` and every intermediate status a stutter. Nothing
  is assumed of `ResumeExecutes`: the contract is kept whether or not the plan is
  resumed. `EntryKeepsContract` is the refinement of `ApprovalContract` by the
  plan's entry. `PlansComeToAnEnd` counts the steps the driver has left
  (`StepsLeft`, at most 4N+6): each of its steps lowers the count, and only an
  operator or a new process raises it. `NoPlanForgotten` says that a running plan
  always has a driver or was loaded for one. TLC confirms the three on the
  instance of `plan_executor`; they are not listed with that run.
* `EventQueueProofs`: `DictIsExact` says that what the dict holds is exact and
  what it lost is out of the window. `OnlyWaitersLetIn` is the part of the window
  that the code keeps: an event that enters within the window of another with
  its key is one that waited in `put()`.

* `IntakeProofs`: a group is the last leader of its system
  (`GroupIsLastLeader`), and a leader whose group was pruned is older than the
  window (`PrunedLeadersAged`); with a log in the order of the clock, both
  properties of the correlator follow. `CountIsTrail` says that a counter is
  the number of reports at the end of an entity's history, which is what
  `SuppressionIsExact` asks at the next event. `CountedOnce` is inductive on top
  together with `HandsApart`: the loop and the drain never hold the same event,
  so each finishes, and counts, its own.
* `IngestionProofs`: the proof has two halves. The first is about the rules,
  all of them: `Sound` says that a rule's tables are defined where the loop looks
  them up (`Typed`) and that what it says of a transition is true of it
  (`Truthful`), and `RulesSound` shows it for each of them, most by family
  (`Changing`, `Reporting`, `Beginning`: the three ways to decide that `Monitors`
  names), the ones with a table of their own by hand. The second half follows the
  loop and the queue and uses nothing of a rule but `Sound`, and of a loop only how
  many poll functions it has: a new adapter needs a lemma of the first half only. `IInv` adds to the types that a group that is
  switched off is not polled (`Offered`), that nothing was said of a thing never
  seen unless its memory can be lost (`NothingUnseen`), and `PictureTrue` with one
  case more (`Announced`): no alarm stands behind a good state, also when that is
  the state of the first sight, unless the memory can be lost. `PictureTrue` says
  nothing of that state, so it is not inductive by itself: the next silent
  transition starts from there. Assumed is that `Unknown` and `Absent`
  are not states of any rule and that what is watched is a sequence of rules;
  `TypeOK` and `PictureTrue` then hold for any number of rules watched together,
  any window and any caps.

* `DispatchProofs`: `IInv` is the type invariant, `AtWork` (while a handler runs
  for the loop, the job is at an action whose fate is still open and that needs no
  approval, `AtAction`, or at a step of its plan, `AtPlanStep`, and the handler was
  called with that operation), `NothingDue` (before the dispatch no action is
  waiting), `PlanPasses` (a plan the loop is at is all AUTO_FIX, and one of the
  actions diagnosed with it has passed), and `EveryFateMet`. `Guarded` follows: an
  action whose fate is open has passed the guardrails, and a plan is run behind one
  that has. `AllSound`, which says what a handler call knows in each phase, is
  inductive on top and gives `VerifiedDone`; `KeepsBestSuggestion` is inductive on
  top, too. The hints of a diagnosis are only natural numbers, so `BestSuggestion`
  is about every order of suggestions.
  `EventsComeToAnEnd` is the argument behind `EventsFinish`: in the order of
  `Nearer` (stages left, then actions or steps of a plan to do, then polls of a
  handler, then attempts at a model, all finite) every step of the loop goes down,
  and no operator, task or thing goes up. `LoopAwaitsAnswers` says that there always is
  something to wait for, and that it is what was asked for. TLC confirms both on
  the instance of `dispatch`; they are not listed with that run.
* `LifecycleProofs`: `IInv` says what each step of the shutdown leaves to the
  later ones: which parts may still be up, that the adapters are stopped before
  the queue is drained and that nothing enters it afterwards. `LifespanShutsDown`
  is the promise of divergence 6 for the deployment that keeps it, `DrainIsLast`
  what the docstring of `drain` demands, in both. TLC confirms both on the
  instance of `shutdown`; they are not listed with that run, which checks the
  property that fails.

Every invariant, action property and refinement that a passing run checks is
proved. Only model-checked are the liveness properties `DueEntriesSettle`,
`ResumedPlansFinish`, `Noticed` and `EventsFinish`: liveness under fairness needs
ENABLED, which is out of the prover's reach. For two of them the part that is in
reach is proved: what each step takes off (`PlansComeToAnEnd`,
`EventsComeToAnEnd`) and that work begun is in somebody's hands
(`NoPlanForgotten`, `LoopAwaitsAnswers`). No module uses RECURSIVE.

## 5. Not modelled

Formatting, logging, metrics, audit writes, retained MQTT topics and the texts
of notifications are left out of the models above: they decide nothing. The
components with status `not_modelled` in `PROJECT.json` are the plan below,
except those that are only I/O (senders, clients, CLI, audit, web pages). Of the modelled components:

* Decision pipeline: the circuit breaker. It records attempts, and its answer is
  discarded by every caller: it decides nothing.
* Learning: how often a candidate was seen, the YAML file, and the two operations
  without a caller.
* Adapters: `webhook.py` translates a request into an event and keeps nothing;
  the parsing of payloads; `discover_topology`.
* LLM services: usage statistics and the health of a role.
* Lifecycle: two live restarts at once, restarts of services and notification
  channels, approval tasks that are still running at the shutdown, a signal
  before `start` has returned.
* Cross-domain correlator, topology, listeners, notifications, configuration and
  statistics stores, web interface: next in the plan or only I/O.

A failed `commit()` (disk full) is not
modelled: sqlite errors would leave an uncommitted row that a later commit of
any coroutine makes durable.

## 6. Plan

Done: the approval queue, the plan executor, the event queue, the intake, the
adapters and scanners, the dispatch with handlers and models, the lifecycle.
Left, in order of importance:

1. Concurrent live restarts in `Lifecycle`: `restart_connector`,
   `restart_service` and `restart_notification` find a position, await, and write
   to it. Property: a restart replaces what it meant to, and the lists of
   components and tasks stay in step.
2. `CrossCorrelator`: window, matching, merge across awaits, against an
   abstract partition of events into clusters. Proof: an event is in one
   cluster.
3. `Topology`: merge and prune against manual edits, BFS against a reference
   definition over bounded graphs.
4. `Listeners` and `Notifications`: reconnect and stop, retained topics against
   `ApprovalContract`, prune of the store, SSE queues.
5. Abstract specifications for the other components with a protocol: what the
   gates of `Intake` and the shutdown of `Lifecycle` promise.
6. `Configuration` (CRUD against live restarts), sessions of the web interface.

Runs: one passing run each, and a few against a document; the bounds are
two or three of everything and one failure more than recovery needs.
