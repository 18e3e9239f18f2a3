------------------------------ MODULE Dispatch ------------------------------
(***************************************************************************)
(* What the orchestrator does with one event after the other, from the     *)
(* known fixes through triage, diagnosis and the guardrails to the         *)
(* handlers, the approval queue and the operator (engine/decision.py,      *)
(* engine/guardrails.py, orchestrator.py), while approved actions run as   *)
(* tasks beside the loop.                                                  *)
(***************************************************************************)
EXTENDS Handlers, LlmClient, Sequences

CONSTANTS
  Target,         \* the entities events and actions are about
  Config,         \* the configurations to start with
  Fix,            \* the known fixes: [op, tier]
  Diagnosis,      \* what the reasoning model may answer: [actions, plan, hint]
  Restored,       \* the queues of pending actions to start with
  MinConfidence   \* learning.min_confidence

RiskTier == {"auto_fix", "recommend", "escalate", "block"}

\* An action of the model that names no entity is about the event's.
NoTarget == "the event's"
Action == [op : DOMAIN Operations, tier : RiskTier, target : Target \union {NoTarget}]
Plan   == Seq(Action)

ConfigType ==
  [kill : BOOLEAN, dry : BOOLEAN, blocked : SUBSET Target, triage : BOOLEAN,
   reasoning : BOOLEAN, handlers : SUBSET STRING, mqtt : BOOLEAN, plans : BOOLEAN]

DiagnosisType == [actions : Seq(Action), plan : Plan, hint : Nat]

\* The entries of the approval queue by their dedup key; the key of a plan is
\* its own.
PlanEntry == [op |-> "plan", target |-> NoTarget]
Entry == [op : DOMAIN Operations, target : Target \union {NoTarget}] \union {PlanEntry}

ASSUME DispatchAssumption ==
  /\ "loop" \in Worker
  /\ NoTarget \notin Target
  /\ Config \subseteq ConfigType
  /\ Fix \subseteq [op : DOMAIN Operations, tier : RiskTier]
  /\ Diagnosis \subseteq DiagnosisType
  /\ Restored \subseteq SUBSET Entry
  /\ MinConfidence \in Nat \ {0}

VARIABLES
  config,    \* the configuration the agent was started with
  job,       \* the event the loop is at, or was at last
  pending,   \* the keys of the approval queue's pending entries
  learned,   \* confidence of the candidate fix on file, 0: none
  shown      \* history: the best confidence of a suggestion whose action a
             \* handler has executed, verified or not

vars == <<config, job, pending, learned, shown, run, call>>

Fresh(entity) ==
  [stage |-> "idle", origin |-> "t0", entity |-> entity, result |-> "none",
   actions |-> <<>>, fates |-> <<>>, plan |-> <<>>, behind |-> 0, at |-> 0,
   hint |-> 0, told |-> FALSE]

Result == {"none", "unmatched", "dropped", "blocked", "dry_run", "escalated",
           "matched", "error"}

Fate == {"todo", "blocked", "superseded", "ran", "skipped", "queued", "duplicate"}

\* at       the action, or the step of the plan, a handler runs for; 0: none
\* behind   how many steps of the plan the loop is through with
Job ==
  [stage : {"idle", "triage", "reasoning", "acting", "planning"},
   origin : {"t0", "t1", "t2"}, entity : Target, result : Result,
   actions : Seq(Action), fates : Seq(Fate), plan : Plan, behind : Nat, at : Nat,
   hint : Nat, told : BOOLEAN]

TypeOK ==
  /\ config \in ConfigType
  /\ job \in Job
  /\ Len(job.fates) = Len(job.actions)
  /\ pending \subseteq Entry
  /\ learned \in Nat /\ shown \in Nat
  /\ TypeRun /\ TypeCall

Init ==
  /\ config \in Config
  /\ \E entity \in Target : job = Fresh(entity)
  /\ pending \in Restored
  /\ learned = 0 /\ shown = 0
  /\ run = [w \in Worker |-> Idle]
  /\ call = NoCall

-----------------------------------------------------------------------------
(* Guardrails                                                              *)

AllowedTiers == {"auto_fix", "recommend"}

\* MUTANT: dry run is not looked at.
Guard_NoDryRun(entity, tier) ==
  IF config.kill \/ tier \notin AllowedTiers \/ entity \in config.blocked
  THEN "blocked" ELSE "passed"

Guard(entity, tier) ==
  IF config.kill \/ tier \notin AllowedTiers \/ entity \in config.blocked
  THEN "blocked"
  ELSE IF config.dry THEN "dry_run" ELSE "passed"

EntityOf(a) == IF a.target = NoTarget THEN job.entity ELSE a.target

-----------------------------------------------------------------------------
(* The decision                                                            *)

\* _should_notify, and the notification of a dry run.
Notifies(result) == result \in {"matched", "escalated", "dry_run"}

Ended(j, result) ==
  [j EXCEPT !.stage = "idle", !.result = result, !.told = @ \/ Notifies(result)]

\* A known fix matches the event: no model is asked.
ReceiveKnown(entity, fix) ==
  /\ job.stage = "idle"
  /\ LET guard == Guard(entity, fix.tier)
         fixed == [Fresh(entity) EXCEPT
                     !.actions = <<[op |-> fix.op, tier |-> fix.tier, target |-> NoTarget]>>,
                     !.fates = <<IF guard = "passed" THEN "todo" ELSE "blocked">>]
     IN  job' = IF guard = "passed" THEN [fixed EXCEPT !.stage = "acting"]
                ELSE Ended(fixed, guard)
  /\ UNCHANGED <<config, pending, learned, shown, run, call>>

ReceiveUnknown(entity) ==
  /\ job.stage = "idle"
  /\ IF config.triage
     THEN /\ job' = [Fresh(entity) EXCEPT !.stage = "triage", !.origin = "t1"]
          /\ Ask("triage")
     ELSE /\ job' = Ended(Fresh(entity), "unmatched")
          /\ UNCHANGED call
  /\ UNCHANGED <<config, pending, learned, shown, run>>

\* An answer that cannot be parsed and a model that cannot be reached count as
\* "escalate_human".
Classify(disposition) ==
  /\ job.stage = "triage"
  /\ \/ call.outcome = "answered"
     \/ call.outcome = "unavailable" /\ disposition = "escalate_human"
  /\ IF disposition = "escalate_t2" /\ config.reasoning
     THEN /\ job' = [job EXCEPT !.stage = "reasoning", !.origin = "t2"]
          /\ Ask("reasoning")
     ELSE /\ job' = Ended(job, CASE disposition = "drop" -> "dropped"
                                 [] disposition = "known_pattern" -> "matched"
                                 [] OTHER -> "escalated")
          /\ call' = NoCall
  /\ UNCHANGED <<config, pending, learned, shown, run>>

\* The services catch LLMError only: the event ends in _process_one's handler.
ModelRefuses ==
  /\ job.stage \in {"triage", "reasoning"}
  /\ call.outcome = "refused"
  /\ job' = Ended(job, "error")
  /\ UNCHANGED <<config, pending, learned, shown, run, call>>

\* What ReasoningService makes of an answer it cannot parse, or of none.
SafeFallback ==
  [actions |-> <<[op |-> "notify_ha", tier |-> "escalate", target |-> NoTarget]>>,
   plan |-> <<>>, hint |-> 0]

\* The diagnosis and its guardrails, action by action.  A plan supersedes the
\* actions as soon as one of them has passed; its own steps are not guarded.
Diagnose(d) ==
  /\ job.stage = "reasoning"
  /\ call.outcome = "answered" \/ (call.outcome = "unavailable" /\ d = SafeFallback)
  /\ LET passes(a) == Guard(EntityOf(a), a.tier) = "passed"
         diagnosed == [job EXCEPT
           !.actions = d.actions, !.plan = d.plan, !.hint = d.hint,
           !.fates = [i \in 1..Len(d.actions) |->
                        IF passes(d.actions[i]) THEN "todo" ELSE "blocked"]]
         superseded == [diagnosed EXCEPT
           !.fates = [i \in 1..Len(d.actions) |-> "superseded"]]
         approved == \E i \in 1..Len(d.actions) : passes(d.actions[i])
     IN  CASE d.actions = <<>> ->
                job' = Ended(diagnosed, "escalated") /\ UNCHANGED pending
           [] d.actions # <<>> /\ ~approved ->
                job' = Ended(diagnosed, "blocked") /\ UNCHANGED pending
           [] approved /\ ~(config.plans /\ d.plan # <<>>) ->
                job' = [diagnosed EXCEPT !.stage = "acting"] /\ UNCHANGED pending
           [] approved /\ config.plans /\ d.plan # <<>> ->
                IF \A i \in 1..Len(d.plan) : d.plan[i].tier = "auto_fix"
                THEN job' = [superseded EXCEPT !.stage = "planning"] /\ UNCHANGED pending
                ELSE job' = Ended(superseded, "matched") /\ pending' = pending \union {PlanEntry}
  /\ call' = NoCall
  /\ UNCHANGED <<config, learned, shown, run>>

HasHandler(op) == Operations[op].handler \in config.handlers

-----------------------------------------------------------------------------
(* A plan of AUTO_FIX steps, which execute_plan runs for the loop.  Of what *)
(* PlanExecutor says of it only the handlers' part is here: the steps are  *)
(* taken in order, those that share the order of one that succeeded are    *)
(* passed over, and the guardrails are not asked.                          *)

PlanStep(i) ==
  /\ job.stage = "planning" /\ job.at = 0 /\ i > job.behind
  /\ HasHandler(job.plan[i].op)
  /\ Begin("loop", job.plan[i].op)
  /\ job' = [job EXCEPT !.at = i]
  /\ UNCHANGED <<config, pending, learned, shown, call>>

\* A step that is not verified fails the plan.
PlanStepEnds ==
  /\ job.stage = "planning" /\ run["loop"].phase = "finished"
  /\ run' = [run EXCEPT !["loop"] = Idle]
  /\ LET through == [job EXCEPT !.behind = job.at, !.at = 0]
     IN  job' = IF run["loop"].verdict = "verified" THEN through
                ELSE Ended(through, "matched")
  /\ UNCHANGED <<config, pending, learned, shown, call>>

\* No step is left, or the next one has no handler or is blocked.
PlanEnds ==
  /\ job.stage = "planning" /\ job.at = 0
  /\ job' = Ended(job, "matched")
  /\ UNCHANGED <<config, pending, learned, shown, run, call>>

-----------------------------------------------------------------------------
(* The actions that have passed, in order                                  *)

IsNext(i) ==
  /\ job.stage = "acting" /\ job.at = 0 /\ job.fates[i] = "todo"
  /\ \A j \in 1..Len(job.fates) : job.fates[j] = "todo" => i <= j

\* A notification changes nothing and is not worth an approval.
NeedsApproval(a) == a.tier = "recommend" /\ ~IsNotify(a.op)
KeyOf(a) == [op |-> a.op, target |-> a.target]

Execute(i) ==
  /\ IsNext(i) /\ ~NeedsApproval(job.actions[i]) /\ HasHandler(job.actions[i].op)
  /\ Begin("loop", job.actions[i].op)
  /\ job' = [job EXCEPT !.at = i]
  /\ UNCHANGED <<config, pending, learned, shown, call>>

\* MUTANT: the dispatch returns instead of going on to the next action.
Skip_Returns(i) ==
  /\ IsNext(i) /\ ~NeedsApproval(job.actions[i]) /\ ~HasHandler(job.actions[i].op)
  /\ job' = Ended(job, "matched")
  /\ UNCHANGED <<config, pending, learned, shown, run, call>>

\* No handler is registered under the action's name.
Skip(i) ==
  /\ IsNext(i) /\ ~NeedsApproval(job.actions[i]) /\ ~HasHandler(job.actions[i].op)
  /\ job' = [job EXCEPT !.fates[i] = "skipped"]
  /\ UNCHANGED <<config, pending, learned, shown, run, call>>

Enqueue(i) ==
  /\ IsNext(i) /\ NeedsApproval(job.actions[i])
  /\ KeyOf(job.actions[i]) \notin pending
  /\ pending' = pending \union {KeyOf(job.actions[i])}
  /\ job' = [job EXCEPT !.fates[i] = "queued"]
  /\ UNCHANGED <<config, learned, shown, run, call>>

\* add() refuses a duplicate with None.  The dispatch of a diagnosis publishes
\* it all the same: with an MQTT channel that raises, and the rest is lost.
EnqueueDuplicate(i) ==
  /\ IsNext(i) /\ NeedsApproval(job.actions[i])
  /\ KeyOf(job.actions[i]) \in pending
  /\ job' = IF job.origin = "t2" /\ config.mqtt
            THEN Ended([job EXCEPT !.fates[i] = "duplicate"], "error")
            ELSE [job EXCEPT !.fates[i] = "duplicate"]
  /\ UNCHANGED <<config, pending, learned, shown, run, call>>

\* MUTANT: the latest suggestion replaces the one on file.
Learn_Latest(hint) == learned' = IF hint >= MinConfidence THEN hint ELSE learned

\* write_candidate: of the suggestions for one match the most confident stays.
Learn(hint) == learned' = IF hint >= MinConfidence /\ hint > learned THEN hint ELSE learned

\* The suggestion is written down once the action was executed, whatever its
\* verification has found.
ActionEnds ==
  /\ job.stage = "acting" /\ run["loop"].phase = "finished"
  /\ job' = [job EXCEPT !.at = 0, !.fates[job.at] = "ran",
                        !.told = @ \/ job.actions[job.at].tier = "recommend"]
  /\ run' = [run EXCEPT !["loop"] = Idle]
  /\ IF run["loop"].verdict # "failed" /\ job.actions[job.at].tier = "auto_fix"
     THEN /\ Learn(job.hint)
          /\ shown' = IF job.hint > shown THEN job.hint ELSE shown
     ELSE UNCHANGED <<learned, shown>>
  /\ UNCHANGED <<config, pending, call>>

ActionsEnd ==
  /\ job.stage = "acting" /\ job.at = 0
  /\ \A i \in 1..Len(job.fates) : job.fates[i] # "todo"
  /\ job' = Ended(job, "matched")
  /\ UNCHANGED <<config, pending, learned, shown, run, call>>

-----------------------------------------------------------------------------
(* The operator and the approval tasks                                     *)

\* An approved action goes to its handler as it is: the guardrails were asked
\* when it was queued, perhaps before a restart.
Approve(task, e) ==
  /\ task # "loop" /\ run[task].phase = "idle" /\ e \in pending
  /\ pending' = pending \ {e}
  /\ IF e # PlanEntry /\ HasHandler(e.op) THEN Begin(task, e.op) ELSE UNCHANGED run
  /\ UNCHANGED <<config, job, learned, shown, call>>

\* It is rejected, or it expires.
Withdraw(e) ==
  /\ e \in pending
  /\ pending' = pending \ {e}
  /\ UNCHANGED <<config, job, learned, shown, run, call>>

TaskEnds(task) ==
  /\ task # "loop" /\ run[task].phase = "finished"
  /\ run' = [run EXCEPT ![task] = Idle]
  /\ UNCHANGED <<config, job, pending, learned, shown, call>>

-----------------------------------------------------------------------------

\* A notification the orchestrator sends of itself is not verified, and neither
\* is anything in a dry run; a step of a plan always is.
OwnNotification == job.stage = "acting" /\ job.actions[job.at].tier = "recommend"

Handle(w) ==
  /\ HandlerStep(w, config.dry \/ (w = "loop" /\ OwnNotification))
  /\ UNCHANGED <<config, job, pending, learned, shown, call>>

ThingChanges(w) ==
  /\ ThingStep(w)
  /\ UNCHANGED <<config, job, pending, learned, shown, call>>

ModelStep ==
  /\ LlmStep
  /\ UNCHANGED <<config, job, pending, learned, shown, run>>

Disposition == {"drop", "known_pattern", "escalate_t2", "escalate_human"}

Receive ==
  \E entity \in Target : ReceiveUnknown(entity) \/ \E fix \in Fix : ReceiveKnown(entity, fix)

Decide ==
  \/ \E disposition \in Disposition : Classify(disposition)
  \/ ModelRefuses
  \/ \E d \in Diagnosis \union {SafeFallback} : Diagnose(d)

Carry == (\E i \in 1..Len(job.plan) : PlanStep(i)) \/ PlanStepEnds \/ PlanEnds

Act ==
  \/ \E i \in 1..Len(job.actions) :
       Execute(i) \/ Skip(i) \/ Enqueue(i) \/ EnqueueDuplicate(i)
  \/ ActionEnds
  \/ ActionsEnd

\* What the event loop itself does with the event it is at.
LoopStep == ModelStep \/ Decide \/ Carry \/ Act \/ Handle("loop")

OperatorStep == \E e \in pending : Withdraw(e) \/ \E task \in Worker : Approve(task, e)

TaskStep == \E task \in Worker \ {"loop"} : Handle(task) \/ TaskEnds(task)

Next ==
  \/ Receive
  \/ LoopStep
  \/ OperatorStep
  \/ TaskStep
  \/ \E w \in Worker : ThingChanges(w)

Spec == Init /\ [][Next]_vars

\* Every request the loop awaits has a timeout.
FairSpec == Spec /\ WF_vars(LoopStep)

-----------------------------------------------------------------------------
(* Properties                                                              *)

\* What the loop has a handler do, of itself.
Current == IF job.stage = "planning" THEN job.plan[job.at] ELSE job.actions[job.at]

\* Nothing is run for the loop in a dry run or under the kill switch.  An action
\* it has run has passed every guardrail and was meant to run by itself.  A step
\* of a plan has not been looked at by the guardrails: what stands for it is that
\* one of the actions diagnosed along with the plan has passed, and that every
\* step of the plan is AUTO_FIX (_handle_t2, requires_approval).
GuardedExecution ==
  run["loop"].phase # "idle" =>
    /\ job.stage \in {"acting", "planning"} /\ job.at # 0
    /\ run["loop"].op = Current.op
    /\ ~config.kill /\ ~config.dry
    /\ job.stage = "acting" =>
         /\ EntityOf(Current) \notin config.blocked
         /\ \/ Current.tier = "auto_fix"
            \/ Current.tier = "recommend" /\ IsNotify(Current.op)
    /\ job.stage = "planning" =>
         /\ config.plans /\ \A i \in 1..Len(job.plan) : job.plan[i].tier = "auto_fix"
         /\ \E i \in 1..Len(job.actions) :
              Guard(EntityOf(job.actions[i]), job.actions[i].tier) = "passed"

\* "Every action must pass through guardrails before execution" (guardrails.py),
\* which the steps of a plan do not: one of them may be about an entity that is
\* blocked.
EveryStepGuarded ==
  run["loop"].phase # "idle" => EntityOf(Current) \notin config.blocked

\* The fate a diagnosed action has met, if it has met one, is its own.
Deserved(i) ==
  LET a == job.actions[i]
  IN  CASE job.fates[i] = "blocked"    -> Guard(EntityOf(a), a.tier) # "passed"
        [] job.fates[i] = "superseded" -> job.plan # <<>>
        [] job.fates[i] = "ran"        -> ~NeedsApproval(a) /\ HasHandler(a.op)
        [] job.fates[i] = "skipped"    -> ~HasHandler(a.op)
        [] job.fates[i] \in {"queued", "duplicate"} -> NeedsApproval(a)
        [] job.fates[i] = "todo"       -> Guard(EntityOf(a), a.tier) = "passed"

\* Every action of an event has met a fate that is its own; and when the loop is
\* through with the event, otherwise than by an exception, no action is left to
\* do, and a human has been told if the rules of _should_notify say so.
EveryFateMet ==
  /\ \A i \in 1..Len(job.actions) : Deserved(i)
  /\ job.stage = "idle" =>
       /\ job.result # "error" => \A i \in 1..Len(job.fates) : job.fates[i] # "todo"
       /\ job.result \in {"matched", "escalated", "dry_run"} => job.told

\* "Dispatch each T2 recommended action independently": no action that has passed
\* the guardrails is lost, however the event ends (_dispatch_t2_actions).
NoActionLost ==
  job.stage = "idle" => \A i \in 1..Len(job.fates) : job.fates[i] # "todo"

\* "returns a safe ESCALATE_HUMAN result so the event isn't lost" (triage.py,
\* classify): whatever the models do, an event does not end in an exception that
\* nobody is told of.
RefusalsReachAHuman ==
  job.stage = "idle" /\ call.outcome = "refused" => job.told

\* The candidate fix on file is the most confident suggestion of those whose
\* action was executed, whatever the order they came in (write_candidate).
KeepsBestSuggestion == learned = IF shown >= MinConfidence THEN shown ELSE 0

\* "handler executes -> verify succeeds -> Generate candidate" (ARCHITECTURE.md,
\* section 17.7): what is written down has been verified.  It need not have been.
CandidatesAreVerified ==
  [][learned' # learned => run["loop"].verdict = "verified"]_vars

\* Every event the loop takes up it is through with at last.
EventsFinish == job.stage # "idle" ~> job.stage = "idle"

\* Why it is: what there is behind EventsFinish besides fairness.  The stages of
\* an event are gone through downwards,
StagesLeft ==
  CASE job.stage = "idle"                   -> 0
    [] job.stage \in {"acting", "planning"} -> 1
    [] job.stage = "reasoning"              -> 2
    [] job.stage = "triage"                 -> 3

\* its actions, or the steps of its plan, are done one by one,
Todo == IF job.stage = "planning" THEN {i \in 1..Len(job.plan) : i > job.behind}
        ELSE {i \in 1..Len(job.fates) : job.fates[i] = "todo"}

\* a handler replies, polls so often and no oftener, and is finished,
HandlingLeft ==
  CASE run["loop"].phase = "idle"      -> MaxPolls + 4
    [] run["loop"].phase = "calling"   -> MaxPolls + 3
    [] run["loop"].phase = "verifying" -> MaxPolls - run["loop"].polls + 2
    [] run["loop"].phase = "finished"  -> 1

\* and a model is asked a last time.
AttemptsLeft ==
  IF ~Waiting THEN 0
  ELSE Retries + 1 - call.attempt
       + (IF call.role = "reasoning" /\ OnPrimary /\ FallbackToTriage THEN Retries + 1 ELSE 0)

Nearer ==
  \/ StagesLeft' < StagesLeft
  \/ /\ StagesLeft' = StagesLeft
     /\ \/ Todo' \subseteq Todo /\ Todo' # Todo
        \/ Todo' = Todo /\ HandlingLeft' < HandlingLeft
        \/ Todo' = Todo /\ HandlingLeft' = HandlingLeft /\ AttemptsLeft' < AttemptsLeft

\* Every step of the loop brings it nearer to the end of the event; operators,
\* approval tasks and the things themselves never set it back.
EventAdvances ==
  /\ LoopStep => Nearer
  /\ OperatorStep \/ TaskStep \/ (\E w \in Worker : ThingChanges(w)) =>
       UNCHANGED <<StagesLeft, Todo, HandlingLeft, AttemptsLeft>>

EventsAdvance == [][EventAdvances]_vars

\* At every stage there is something that will answer: the model that was asked
\* is the one the stage waits for, nobody waits for a model outside of those
\* stages, and a handler runs for the loop at an action or a step of a plan only.
NothingAwaitedInVain ==
  /\ job.stage \in {"triage", "reasoning"} => call.role = job.stage /\ call.outcome # "none"
  /\ Waiting => job.stage \in {"triage", "reasoning"}
  /\ ~OnPrimary => call.role = "reasoning" /\ FallbackToTriage
  /\ run["loop"].phase # "idle" => job.stage \in {"acting", "planning"} /\ job.at # 0

\* A diagnosis none of whose actions passes reaches a human, in particular the
\* one that stands for a model that could not be reached.
EscalationsReachAHuman ==
  job.stage = "idle" /\ job.origin = "t2" /\ job.result = "blocked" => job.told
=============================================================================
