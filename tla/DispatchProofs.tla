--------------------------- MODULE DispatchProofs ---------------------------
(***************************************************************************)
(* What stands behind every call of a handler by the loop, what becomes of *)
(* every diagnosed action and that every event comes to its end, for any   *)
(* configuration, fixes, diagnoses and number of approval tasks.           *)
(***************************************************************************)
EXTENDS Dispatch, TLAPS

-----------------------------------------------------------------------------
(* Handlers and the model client                                           *)

\* A worker at rest has a run of the type.
LEMMA IdleType == Idle \in Run
  BY HandlersAssumption DEF Idle, Run

\* A handler called for an operation of the tables leaves runs of the type.
LEMMA BeginType ==
  ASSUME TypeRun, NEW w \in Worker, NEW op \in DOMAIN Operations, Begin(w, op)
  PROVE  TypeRun'
  <1>1. PICK thing \in {"up", "down"} :
          run' = [run EXCEPT ![w] =
                    [Idle EXCEPT !.op = op, !.phase = "calling", !.thing = thing]]
    BY DEF Begin
  <1>2. ASSUME NEW r \in Run
        PROVE  [r EXCEPT !.op = op, !.phase = "calling", !.thing = thing] \in Run
    BY DEF Run
  <1>. QED
    BY <1>1, <1>2, IdleType DEF TypeRun

\* What an operation leaves of a thing is up or down.
LEMMA AfterType ==
  ASSUME NEW effect, NEW thing \in {"up", "down"}
  PROVE  After(effect, thing) \subseteq {"up", "down"}
  BY DEF After

\* A verdict leaves runs of the type.
LEMMA SettleType ==
  ASSUME TypeRun, NEW w \in Worker,
         NEW v \in {"none", "failed", "unverified", "verified"}, Settle(w, v)
  PROVE  TypeRun'
  <1>. DEFINE r(b) == [run[w] EXCEPT !.phase = "finished", !.verdict = v, !.sight = b]
  <1>1. run[w] \in Run
    BY DEF TypeRun
  <1>2. r(TRUE) \in Run
    BY <1>1 DEF Run
  <1>3. r(FALSE) \in Run
    BY <1>1 DEF Run
  <1>4. CASE run[w].thing \in Op(w).expects
    <2>1. (run[w].thing \in Op(w).expects) = TRUE
      BY <1>4
    <2>2. run' = [run EXCEPT ![w].phase = "finished", ![w].verdict = v, ![w].sight = TRUE]
      BY <2>1, Zenon DEF Settle
    <2>. run' = [run EXCEPT ![w] = r(TRUE)]
      BY <2>2 DEF TypeRun
    <2>. HIDE DEF r
    <2>. QED
      BY <1>2 DEF TypeRun
  <1>5. CASE ~(run[w].thing \in Op(w).expects)
    <2>1. (run[w].thing \in Op(w).expects) = FALSE
      BY <1>5
    <2>2. run' = [run EXCEPT ![w].phase = "finished", ![w].verdict = v, ![w].sight = FALSE]
      BY <2>1, Zenon DEF Settle
    <2>. run' = [run EXCEPT ![w] = r(FALSE)]
      BY <2>2 DEF TypeRun
    <2>. HIDE DEF r
    <2>. QED
      BY <1>3 DEF TypeRun
  <1>. QED
    BY <1>4, <1>5

\* A further poll is one of the MaxPolls.
LEMMA PollType ==
  ASSUME TypeRun, NEW w \in Worker, run[w].polls < MaxPolls,
         run' = [run EXCEPT ![w].polls = @ + 1]
  PROVE  TypeRun'
  <1>1. run[w].polls + 1 \in 0..MaxPolls
    BY HandlersAssumption DEF TypeRun, Run
  <1>. QED
    BY <1>1 DEF TypeRun, Run

\* A handler that watches for a state has had what it asked for done, unless that
\* comes later; what it concludes, it concludes at the end.
Sound(r) ==
  LET op == Operations[r.op]
  IN  /\ r.phase = "verifying" => r.done \/ op.later
      /\ r.verdict # "none" => r.phase = "finished"
      /\ r.verdict = "verified" /\ op.expects # {} => r.sight /\ (r.done \/ op.later)

\* execute() has returned: the run goes on about the same operation, verifying
\* it or finished with it.
LEMMA Replied ==
  ASSUME TypeRun, NEW w \in Worker, NEW dry, CallSucceeds(w, dry)
  PROVE  \E r \in Run :
           /\ run' = [run EXCEPT ![w] = r]
           /\ r.op = run[w].op /\ r.phase \in {"verifying", "finished"}
           /\ run[w].phase = "calling"
           /\ Sound(run[w]) => Sound(r)
  <1>1. run[w] \in Run /\ run[w].phase = "calling" /\ run[w].thing \in {"up", "down"}
    BY DEF TypeRun, Run, CallSucceeds
  <1>2. PICK t \in {"up", "down"} :
          LET called == IF Op(w).later THEN [run[w] EXCEPT !.due = TRUE]
                        ELSE [run[w] EXCEPT !.thing = t, !.done = TRUE]
          IN  run' = [run EXCEPT ![w] =
                IF dry THEN [called EXCEPT !.phase = "finished"]
                ELSE IF Op(w).expects = {}
                     THEN [called EXCEPT !.phase = "finished", !.verdict = "verified"]
                     ELSE [called EXCEPT !.phase = "verifying"]]
    <2>1. After(Op(w).effect, run[w].thing) \subseteq {"up", "down"}
      BY <1>1, AfterType
    <2>. QED
      BY <2>1 DEF CallSucceeds
  <1>. DEFINE called == IF Op(w).later THEN [run[w] EXCEPT !.due = TRUE]
                        ELSE [run[w] EXCEPT !.thing = t, !.done = TRUE]
              r == IF dry THEN [called EXCEPT !.phase = "finished"]
                   ELSE IF Op(w).expects = {}
                        THEN [called EXCEPT !.phase = "finished", !.verdict = "verified"]
                        ELSE [called EXCEPT !.phase = "verifying"]
  <1>3. run' = [run EXCEPT ![w] = r]
    BY <1>2
  <1>4. called \in Run
    BY <1>1 DEF Run
  <1>5. called.op = run[w].op /\ called.verdict = run[w].verdict
    BY <1>1 DEF Run
  <1>6. called.done \/ Op(w).later
    BY <1>1 DEF Run
  <1>. HIDE DEF called
  <1>7. r \in Run
    BY <1>4 DEF Run
  <1>8. r.op = run[w].op /\ r.phase \in {"verifying", "finished"}
    BY <1>4, <1>5 DEF Run
  <1>9. ASSUME Sound(run[w])
        PROVE  Sound(r)
    <2>1. called.verdict = "none"
      BY <1>1, <1>5, <1>9 DEF Sound, Run
    <2>. QED
      BY <1>4, <1>5, <1>6, <2>1 DEF Sound, Op, Run
  <1>. HIDE DEF r
  <1>. QED
    BY <1>1, <1>3, <1>7, <1>8, <1>9

\* A handler's steps leave runs of the type.
LEMMA HandlerType ==
  ASSUME TypeRun, NEW w \in Worker, NEW dry, HandlerStep(w, dry)
  PROVE  TypeRun'
  <1>1. CASE CallFails(w)
    <2>1. run[w].thing \in {"up", "down"}
      BY DEF TypeRun, Run
    <2>2. PICK t \in {"up", "down"} :
            \/ run' = [run EXCEPT ![w].phase = "finished", ![w].verdict = "failed"]
            \/ run' = [run EXCEPT ![w].phase = "finished", ![w].verdict = "failed",
                                  ![w].thing = t, ![w].done = TRUE]
      BY <1>1, <2>1, AfterType DEF CallFails
    <2>. QED
      BY <2>2 DEF TypeRun, Run
  <1>2. CASE CallSucceeds(w, dry)
    BY <1>2, Replied DEF TypeRun
  <1>3. CASE LookFails(w)
    BY <1>3, SettleType, PollType DEF LookFails
  <1>4. CASE Look(w)
    BY <1>4, SettleType, PollType DEF Look
  <1>5. CASE PastDeadline(w)
    BY <1>5, SettleType DEF PastDeadline
  <1>. QED
    BY <1>1, <1>2, <1>3, <1>4, <1>5 DEF HandlerStep

\* So does what happens to the thing meanwhile.
LEMMA ThingType ==
  ASSUME TypeRun, NEW w \in Worker, ThingStep(w)
  PROVE  TypeRun'
  <1>1. run[w] \in Run
    BY DEF TypeRun
  <1>2. CASE TakeEffect(w)
    <2>1. PICK t \in {"up", "down"} :
            run' = [run EXCEPT ![w].thing = t, ![w].done = TRUE, ![w].due = FALSE]
      BY <1>1, <1>2, AfterType DEF TakeEffect, Run
    <2>. DEFINE r == [run[w] EXCEPT !.thing = t, !.done = TRUE, !.due = FALSE]
    <2>2. r \in Run
      BY <1>1 DEF Run
    <2>3. run' = [run EXCEPT ![w] = r]
      BY <2>1 DEF TypeRun
    <2>. HIDE DEF r
    <2>. QED
      BY <2>2, <2>3 DEF TypeRun
  <1>3. CASE Drift(w)
    BY <1>1, <1>3 DEF Drift, TypeRun, Run
  <1>. QED
    BY <1>2, <1>3 DEF ThingStep

\* A completion's retries and fall back stay within the type.
LEMMA CallType ==
  ASSUME TypeCall, LlmStep
  PROVE  TypeCall'
  <1> USE LlmAssumption DEF TypeCall
  <1>1. CASE LlmAnswers
    BY <1>1 DEF LlmAnswers
  <1>2. CASE GiveUp
    <2>1. \/ call' = [call EXCEPT !.endpoint = "triage", !.attempt = 0]
          \/ call' = [call EXCEPT !.outcome = "unavailable"]
      BY <1>2 DEF GiveUp
    <2>2. 0 \in 0..Retries
      OBVIOUS
    <2>3. CASE call' = [call EXCEPT !.endpoint = "triage", !.attempt = 0]
      BY <2>2, <2>3
    <2>4. CASE call' = [call EXCEPT !.outcome = "unavailable"]
      BY <2>4
    <2>. QED
      BY <2>1, <2>3, <2>4
  <1>3. CASE LlmTransientError
    BY <1>2, <1>3 DEF LlmTransientError
  <1>4. CASE LlmOtherError
    BY <1>2, <1>4 DEF LlmOtherError
  <1>5. CASE LlmRefuses
    BY <1>5 DEF LlmRefuses
  <1>. QED
    BY <1>1, <1>3, <1>4, <1>5 DEF LlmStep

\* A completion asked for is of the type.
LEMMA AskType ==
  ASSUME NEW role \in {"triage", "reasoning"}, Ask(role)
  PROVE  TypeCall'
  BY LlmAssumption DEF TypeCall, Ask

\* So is none.
LEMMA NoCallType ==
  NoCall \in [role : {"triage", "reasoning"}, endpoint : {"triage", "reasoning"},
              attempt : 0..Retries,
              outcome : {"none", "waiting", "answered", "unavailable", "refused"}]
  BY LlmAssumption DEF NoCall

-----------------------------------------------------------------------------
(* Jobs                                                                    *)

\* The fall back for an answer that cannot be parsed is a diagnosis.
LEMMA FallbackType == SafeFallback \in DiagnosisType
  <1>1. "notify_ha" \in DOMAIN HomeAssistantOps
    BY DEF HomeAssistantOps
  <1>2. "notify_ha" \in DOMAIN Operations
    BY <1>1 DEF Operations, OpTables
  <1>. QED
    BY <1>2 DEF SafeFallback, DiagnosisType, Plan, Action, RiskTier

\* The part of the type invariant that is about the event.
JobOK(j) == j \in Job /\ Len(j.fates) = Len(j.actions)

\* An event just taken up.
LEMMA FreshJob ==
  ASSUME NEW entity \in Target
  PROVE  JobOK(Fresh(entity))
  BY DEF JobOK, Job, Fresh, Result, Plan

\* An event the loop is through with keeps what it was about.
LEMMA EndedJob ==
  ASSUME NEW j, JobOK(j), NEW result \in Result
  PROVE  LET n == Ended(j, result)
         IN  /\ JobOK(n) /\ n.stage = "idle" /\ n.result = result
             /\ n.actions = j.actions /\ n.fates = j.fates /\ n.at = j.at
             /\ n.entity = j.entity /\ n.origin = j.origin /\ n.plan = j.plan
             /\ n.hint = j.hint /\ (j.told \/ Notifies(result) => n.told)
  <1>. DEFINE n(b) == [j EXCEPT !.stage = "idle", !.result = result, !.told = b]
  <1>1. PICK b \in BOOLEAN : Ended(j, result) = n(b) /\ (j.told \/ Notifies(result) => b)
    <2>1. CASE j.told \/ Notifies(result)
      <3>1. (j.told \/ Notifies(result)) = TRUE
        BY <2>1
      <3>2. Ended(j, result) = n(TRUE)
        BY <3>1, Zenon DEF Ended
      <3>. QED
        BY <2>1, <3>2
    <2>2. CASE ~(j.told \/ Notifies(result))
      <3>1. (j.told \/ Notifies(result)) = FALSE
        BY <2>2
      <3>2. Ended(j, result) = n(FALSE)
        BY <3>1, Zenon DEF Ended
      <3>. QED
        BY <2>2, <3>2
    <2>. QED
      BY <2>1, <2>2
  <1>. QED
    BY <1>1 DEF JobOK, Job

\* An event with its actions and their fates.
Filled(j, actions, fates) == [j EXCEPT !.actions = actions, !.fates = fates]

LEMMA FilledJob ==
  ASSUME NEW j, JobOK(j), j.at = 0,
         NEW actions \in Seq(Action), NEW fates \in Seq(Fate), Len(fates) = Len(actions)
  PROVE  LET n == Filled(j, actions, fates)
         IN  /\ JobOK(n) /\ n.actions = actions /\ n.fates = fates
             /\ n.at = 0 /\ n.entity = j.entity
  BY DEF JobOK, Job, Filled

\* An event with its diagnosis.
Diagnosed(j, d, fates) ==
  [j EXCEPT !.actions = d.actions, !.plan = d.plan, !.hint = d.hint, !.fates = fates]

LEMMA DiagnosedJob ==
  ASSUME NEW j, JobOK(j), j.at = 0, NEW d \in DiagnosisType,
         NEW fates \in Seq(Fate), Len(fates) = Len(d.actions)
  PROVE  LET n == Diagnosed(j, d, fates)
         IN  /\ JobOK(n) /\ n.actions = d.actions /\ n.fates = fates /\ n.plan = d.plan
             /\ n.at = 0 /\ n.entity = j.entity /\ n.stage = j.stage
  BY DEF JobOK, Job, Diagnosed, DiagnosisType

\* An event whose actions have met other fates.
Refated(j, fates) == [j EXCEPT !.fates = fates]

LEMMA RefatedJob ==
  ASSUME NEW j, JobOK(j), NEW fates \in Seq(Fate), Len(fates) = Len(j.actions)
  PROVE  LET n == Refated(j, fates)
         IN  /\ JobOK(n) /\ n.actions = j.actions /\ n.fates = fates /\ n.plan = j.plan
             /\ n.at = j.at /\ n.entity = j.entity
  BY DEF JobOK, Job, Refated

\* An event at another stage.
Staged(j, stage) == [j EXCEPT !.stage = stage]

LEMMA StagedJob ==
  ASSUME NEW j, JobOK(j), NEW stage \in {"acting", "planning"}
  PROVE  LET n == Staged(j, stage)
         IN  /\ JobOK(n) /\ n.actions = j.actions /\ n.fates = j.fates /\ n.plan = j.plan
             /\ n.at = j.at /\ n.entity = j.entity /\ n.stage = stage
  BY DEF JobOK, Job, Staged

\* An event of which one action has met its fate.
Met(j, i, f) == [j EXCEPT !.fates[i] = f]

\* One action has met its fate.
LEMMA FateJob ==
  ASSUME NEW j, JobOK(j), NEW i \in 1..Len(j.actions), NEW f \in Fate
  PROVE  LET n == Met(j, i, f)
         IN  /\ JobOK(n) /\ n.stage = j.stage /\ n.result = j.result
             /\ n.actions = j.actions /\ n.fates = [j.fates EXCEPT ![i] = f] /\ n.at = j.at
             /\ n.entity = j.entity /\ n.origin = j.origin /\ n.plan = j.plan
             /\ n.told = j.told
  <1>. DEFINE fates == [j.fates EXCEPT ![i] = f]
  <1>1. fates \in Seq(Fate) /\ Len(fates) = Len(j.fates)
    BY DEF JobOK, Job
  <1>2. Met(j, i, f) = [j EXCEPT !.fates = fates]
    BY DEF JobOK, Job, Met
  <1>. HIDE DEF fates
  <1>3. JobOK([j EXCEPT !.fates = fates])
    BY <1>1 DEF JobOK, Job
  <1>. QED
    BY <1>2, <1>3 DEF JobOK, Job, fates

-----------------------------------------------------------------------------
(* The invariant                                                           *)

\* The action a handler runs for is one that has passed, needs nobody and has met
\* no fate so far.
AtAction ==
  /\ job.stage = "acting" /\ job.at \in 1..Len(job.actions)
  /\ job.fates[job.at] = "todo"
  /\ run["loop"].op = job.actions[job.at].op
  /\ ~NeedsApproval(job.actions[job.at])
  /\ HasHandler(job.actions[job.at].op)

\* The step of a plan a handler runs for is one the loop is not through with.
AtPlanStep ==
  /\ job.stage = "planning" /\ job.at \in 1..Len(job.plan) /\ job.at > job.behind
  /\ run["loop"].op = job.plan[job.at].op

\* The loop is at one of them exactly while a handler runs for it.
AtWork ==
  /\ job.at = 0 <=> run["loop"].phase = "idle"
  /\ job.at # 0 => AtAction \/ AtPlanStep

\* Only the dispatch of the actions has any of them still to do.
NothingDue ==
  job.stage \in {"triage", "reasoning", "planning"} =>
    \A i \in 1..Len(job.fates) : job.fates[i] # "todo"

\* A plan the loop executes needed nobody's approval, and came with an action that
\* has passed the guardrails.
PlanPasses ==
  job.stage = "planning" =>
    /\ config.plans /\ \A i \in 1..Len(job.plan) : job.plan[i].tier = "auto_fix"
    /\ \E i \in 1..Len(job.actions) :
         Guard(EntityOf(job.actions[i]), job.actions[i].tier) = "passed"

IInv == TypeOK /\ AtWork /\ NothingDue /\ PlanPasses /\ EveryFateMet

\* What an action's fate rests on is not taken away from it.
LEMMA FateKept ==
  ASSUME UNCHANGED config, job'.actions = job.actions, job'.entity = job.entity,
         job'.plan = job.plan, NEW i, job'.fates[i] = job.fates[i], Deserved(i)
  PROVE  Deserved(i)'
  BY DEF Deserved, Guard, EntityOf, NeedsApproval, HasHandler, IsNotify

\* The guardrails' answers stay what they were with the configuration and the
\* event.
LEMMA PlanKept ==
  ASSUME PlanPasses, UNCHANGED config, job'.actions = job.actions, job'.plan = job.plan,
         job'.entity = job.entity, job'.stage = job.stage
  PROVE  PlanPasses'
  BY DEF PlanPasses, Guard, EntityOf

\* A step that leaves the job alone leaves the fates and what was told of them.
LEMMA JobKept ==
  ASSUME IInv, UNCHANGED <<config, job>>
  PROVE  EveryFateMet' /\ PlanPasses'
  <1>1. \A i \in 1..Len(job.actions) : Deserved(i)'
    BY FateKept DEF IInv, EveryFateMet
  <1>. QED
    BY <1>1, PlanKept DEF IInv, EveryFateMet

\* A handler's own steps neither begin nor end a run and do not change what it
\* is about.
LEMMA RunKept ==
  ASSUME TypeRun, NEW w \in Worker, NEW v \in Worker,
         ThingStep(w) \/ \E dry \in BOOLEAN : HandlerStep(w, dry)
  PROVE  run'[v].op = run[v].op /\ (run'[v].phase = "idle" <=> run[v].phase = "idle")
  <1>1. ASSUME NEW verdict, Settle(w, verdict), run[w].phase # "idle"
        PROVE  run'[v].op = run[v].op /\ (run'[v].phase = "idle" <=> run[v].phase = "idle")
    <2>1. PICK b : run' = [run EXCEPT ![w].phase = "finished", ![w].verdict = verdict,
                                      ![w].sight = b]
      BY <1>1 DEF Settle
    <2>. QED
      BY <1>1, <2>1 DEF TypeRun, Run
  <1>2. CASE TakeEffect(w)
    BY <1>2 DEF TakeEffect, TypeRun, Run
  <1>3. CASE Drift(w)
    BY <1>3 DEF Drift, TypeRun, Run
  <1>4. CASE CallFails(w)
    <2>1. PICK t :
            \/ run' = [run EXCEPT ![w].phase = "finished", ![w].verdict = "failed"]
            \/ run' = [run EXCEPT ![w].phase = "finished", ![w].verdict = "failed",
                                  ![w].thing = t, ![w].done = TRUE]
      BY <1>4 DEF CallFails
    <2>2. run[w].phase # "idle"
      BY <1>4 DEF CallFails
    <2>. QED
      BY <2>1, <2>2 DEF TypeRun, Run
  <1>5. ASSUME NEW dry \in BOOLEAN, CallSucceeds(w, dry)
        PROVE  run'[v].op = run[v].op /\ (run'[v].phase = "idle" <=> run[v].phase = "idle")
    BY <1>5, Replied DEF TypeRun
  <1>6. CASE LookFails(w)
    BY <1>1, <1>6 DEF LookFails, TypeRun, Run
  <1>7. CASE Look(w)
    BY <1>1, <1>7 DEF Look, TypeRun, Run
  <1>8. CASE PastDeadline(w)
    BY <1>1, <1>8 DEF PastDeadline
  <1>. QED
    BY <1>2, <1>3, <1>4, <1>5, <1>6, <1>7, <1>8 DEF ThingStep, HandlerStep

-----------------------------------------------------------------------------
(* Steps beside the job                                                    *)

\* What the handlers' runs and the rest of the state have to be after a step
\* that leaves the job alone.
LEMMA BesideJob ==
  ASSUME IInv, UNCHANGED <<config, job, learned, shown>>, pending' \subseteq Entry,
         TypeRun', TypeCall', run'["loop"].op = run["loop"].op,
         run'["loop"].phase = "idle" <=> run["loop"].phase = "idle"
  PROVE  IInv'
  <1>1. TypeOK'
    BY DEF IInv, TypeOK
  <1>2. AtWork'
    BY DEF IInv, AtWork, AtAction, AtPlanStep, NeedsApproval, HasHandler
  <1>3. EveryFateMet' /\ PlanPasses'
    BY JobKept
  <1>4. NothingDue'
    BY DEF IInv, NothingDue
  <1>. QED
    BY <1>1, <1>2, <1>3, <1>4 DEF IInv

\* A handler at work, for the loop or for an approval task.
LEMMA HandlerSteps ==
  ASSUME IInv, NEW w \in Worker, Handle(w) \/ ThingChanges(w)
  PROVE  IInv'
  <1>1. TypeRun /\ TypeCall /\ pending \subseteq Entry
    BY DEF IInv, TypeOK
  <1>2. TypeCall' /\ pending' \subseteq Entry
    BY <1>1 DEF Handle, ThingChanges, TypeCall
  <1>3. TypeRun'
    BY <1>1, HandlerType, ThingType DEF Handle, ThingChanges
  <1>4. ThingStep(w) \/ \E dry \in BOOLEAN : HandlerStep(w, dry)
    <2>. DEFINE d == config.dry \/ (w = "loop" /\ OwnNotification)
    <2>1. ThingStep(w) \/ HandlerStep(w, d)
      BY DEF Handle, ThingChanges
    <2>2. d \in BOOLEAN
      OBVIOUS
    <2>. HIDE DEF d
    <2>. QED
      BY <2>1, <2>2
  <1>5. /\ run'["loop"].op = run["loop"].op
        /\ run'["loop"].phase = "idle" <=> run["loop"].phase = "idle"
    BY <1>1, <1>4, RunKept, DispatchAssumption
  <1>. QED
    BY <1>2, <1>3, <1>5, BesideJob DEF Handle, ThingChanges

\* The model client at work.
LEMMA ModelSteps ==
  ASSUME IInv, ModelStep
  PROVE  IInv'
  <1>1. TypeRun /\ TypeCall /\ pending \subseteq Entry
    BY DEF IInv, TypeOK
  <1>2. TypeCall'
    BY <1>1, CallType DEF ModelStep
  <1>. QED
    BY <1>1, <1>2, BesideJob DEF ModelStep, TypeRun

\* The operator approves, rejects or lets expire.
LEMMA OperatorSteps ==
  ASSUME IInv, OperatorStep
  PROVE  IInv'
  <1>1. TypeRun /\ TypeCall /\ pending \subseteq Entry
    BY DEF IInv, TypeOK
  <1>2. ASSUME NEW e \in pending, Withdraw(e)
        PROVE  IInv'
    BY <1>1, <1>2, BesideJob DEF Withdraw, TypeRun, TypeCall
  <1>3. ASSUME NEW e \in pending, NEW task \in Worker, Approve(task, e)
        PROVE  IInv'
    <2>1. e = PlanEntry \/ e.op \in DOMAIN Operations
      BY <1>1 DEF Entry
    <2>2. CASE UNCHANGED run
      BY <1>1, <1>3, <2>2, BesideJob DEF Approve, TypeRun, TypeCall
    <2>3. CASE e # PlanEntry /\ Begin(task, e.op)
      <3>1. TypeRun'
        BY <1>1, <2>1, <2>3, BeginType
      <3>2. run'["loop"] = run["loop"]
        BY <1>1, <1>3, <2>3, DispatchAssumption DEF Approve, Begin, TypeRun
      <3>. QED
        BY <1>1, <1>3, <3>1, <3>2, BesideJob DEF Approve, TypeCall
    <2>. QED
      BY <1>3, <2>2, <2>3 DEF Approve
  <1>. QED
    BY <1>2, <1>3 DEF OperatorStep

\* An approval task at work, or at its end.
LEMMA TaskSteps ==
  ASSUME IInv, TaskStep
  PROVE  IInv'
  <1>1. TypeRun /\ TypeCall /\ pending \subseteq Entry
    BY DEF IInv, TypeOK
  <1>2. ASSUME NEW task \in Worker, TaskEnds(task)
        PROVE  IInv'
    <2>1. TypeRun'
      BY <1>1, <1>2, IdleType DEF TaskEnds, TypeRun
    <2>2. run'["loop"] = run["loop"]
      BY <1>1, <1>2, DispatchAssumption DEF TaskEnds, TypeRun
    <2>. QED
      BY <1>1, <1>2, <2>1, <2>2, BesideJob DEF TaskEnds, TypeCall
  <1>. QED
    BY <1>2, HandlerSteps DEF TaskStep

-----------------------------------------------------------------------------
(* Steps of the loop                                                       *)

\* What is left to show of a step of the loop that starts or ends no run.
LEMMA LoopJob ==
  ASSUME IInv, UNCHANGED <<config, run>>, JobOK(job'), job.at = 0, job'.at = 0,
         pending' \subseteq Entry, learned' \in Nat, shown' \in Nat, TypeCall',
         NothingDue', PlanPasses', EveryFateMet'
  PROVE  IInv'
  <1>1. TypeOK'
    BY DEF IInv, TypeOK, TypeRun, JobOK
  <1>2. AtWork'
    BY DEF IInv, AtWork
  <1>. QED
    BY <1>1, <1>2 DEF IInv

\* A known fix: one action, allowed or not.
LEMMA ReceiveKnownStep ==
  ASSUME IInv, NEW entity \in Target, NEW fix \in Fix, ReceiveKnown(entity, fix)
  PROVE  IInv'
  <1>. DEFINE guard == Guard(entity, fix.tier)
              action == [op |-> fix.op, tier |-> fix.tier, target |-> NoTarget]
              fixed == [Fresh(entity) EXCEPT
                          !.actions = <<action>>,
                          !.fates = <<IF guard = "passed" THEN "todo" ELSE "blocked">>]
              acting == [fixed EXCEPT !.stage = "acting"]
  <1>1. /\ job' = IF guard = "passed" THEN acting ELSE Ended(fixed, guard)
        /\ job.stage = "idle" /\ UNCHANGED <<config, pending, learned, shown, run, call>>
    BY DEF ReceiveKnown
  <1>2. action \in Action
    BY DispatchAssumption DEF Action
  <1>3. guard \in {"passed", "blocked", "dry_run"}
    BY DEF Guard
  <1>4. /\ JobOK(fixed) /\ fixed.at = 0 /\ fixed.entity = entity
        /\ fixed.actions = <<action>>
        /\ fixed.fates = <<IF guard = "passed" THEN "todo" ELSE "blocked">>
    <2>. DEFINE fate == IF guard = "passed" THEN "todo" ELSE "blocked"
    <2>1. fate \in Fate
      BY DEF Fate
    <2>. HIDE DEF action, guard, fate
    <2>. DEFINE acts == <<action>>
                fates == <<fate>>
    <2>2. acts \in Seq(Action) /\ Len(acts) = 1 /\ fates \in Seq(Fate) /\ Len(fates) = 1
      BY <1>2, <2>1
    <2>3. JobOK(Fresh(entity)) /\ Fresh(entity).at = 0 /\ Fresh(entity).entity = entity
      BY FreshJob DEF Fresh
    <2>4. fixed = [Fresh(entity) EXCEPT !.actions = acts, !.fates = fates]
      BY DEF fate
    <2>. HIDE DEF acts, fates
    <2>5. fixed = Filled(Fresh(entity), acts, fates)
      BY <2>4 DEF Filled
    <2>. HIDE DEF fixed
    <2>6. /\ JobOK(fixed) /\ fixed.actions = acts /\ fixed.fates = fates
          /\ fixed.at = 0 /\ fixed.entity = entity
      BY <2>2, <2>3, <2>5, FilledJob
    <2>. QED
      BY <2>6 DEF acts, fates, fate
  <1>. HIDE DEF fixed
  <1>5. /\ JobOK(acting) /\ acting.at = 0 /\ acting.entity = entity /\ acting.stage = "acting"
        /\ acting.actions = <<action>> /\ acting.fates = fixed.fates
    BY <1>4 DEF JobOK, Job
  <1>. HIDE DEF acting
  <1>6. job.at = 0
    BY <1>1 DEF IInv, AtWork, AtAction, AtPlanStep
  <1>7. /\ JobOK(job') /\ job'.at = 0 /\ job'.entity = entity
        /\ job'.actions = <<action>> /\ job'.fates = fixed.fates
        /\ \/ guard = "passed" /\ job'.stage = "acting"
           \/ /\ guard # "passed" /\ job'.stage = "idle" /\ job'.result = guard
              /\ Notifies(guard) => job'.told
    BY <1>1, <1>3, <1>4, <1>5, EndedJob DEF Result
  <1>8. \A i \in 1..Len(job'.actions) : Deserved(i)'
    <2>1. Guard(EntityOf(action), action.tier)' = guard
      BY <1>1, <1>7 DEF EntityOf, Guard
    <2>2. job'.actions[1] = action
      BY <1>7
    <2>3. job'.fates[1] = IF guard = "passed" THEN "todo" ELSE "blocked"
      BY <1>4, <1>7
    <2>4. Deserved(1)'
      BY <2>1, <2>2, <2>3 DEF Deserved
    <2>. QED
      BY <1>7, <2>4
  <1>9. EveryFateMet' /\ NothingDue' /\ PlanPasses'
    BY <1>3, <1>4, <1>7, <1>8 DEF EveryFateMet, NothingDue, PlanPasses, Notifies
  <1>. QED
    BY <1>1, <1>6, <1>7, <1>9, LoopJob DEF IInv, TypeOK, TypeCall

\* An unknown event: triage, or nothing.
LEMMA ReceiveUnknownStep ==
  ASSUME IInv, NEW entity \in Target, ReceiveUnknown(entity)
  PROVE  IInv'
  <1>. DEFINE asked == [Fresh(entity) EXCEPT !.stage = "triage", !.origin = "t1"]
  <1>1. JobOK(Fresh(entity)) /\ Fresh(entity).actions = <<>> /\ Fresh(entity).at = 0
    BY FreshJob DEF Fresh
  <1>2. JobOK(asked) /\ asked.actions = <<>> /\ asked.at = 0 /\ asked.stage = "triage"
    BY <1>1 DEF JobOK, Job
  <1>3. /\ job.stage = "idle" /\ UNCHANGED <<config, pending, learned, shown, run>>
        /\ \/ job' = asked /\ Ask("triage")
           \/ job' = Ended(Fresh(entity), "unmatched") /\ UNCHANGED call
    BY DEF ReceiveUnknown
  <1>. HIDE DEF asked
  <1>4. /\ JobOK(job') /\ job'.actions = <<>> /\ job'.at = 0
        /\ \/ job'.stage = "triage"
           \/ job'.stage = "idle" /\ job'.result = "unmatched"
    BY <1>1, <1>2, <1>3, EndedJob DEF Result
  <1>5. TypeCall'
    BY <1>3, AskType DEF IInv, TypeOK, TypeCall
  <1>6. EveryFateMet' /\ NothingDue' /\ PlanPasses'
    BY <1>4 DEF EveryFateMet, NothingDue, PlanPasses, JobOK
  <1>7. job.at = 0
    BY <1>3 DEF IInv, AtWork, AtAction, AtPlanStep
  <1>. QED
    BY <1>3, <1>4, <1>5, <1>6, <1>7, LoopJob DEF IInv, TypeOK

\* A step that ends an event whose actions have all met their fates.
LEMMA EndStep ==
  ASSUME IInv, UNCHANGED <<config, pending, learned, shown, run>>, TypeCall', job.at = 0,
         NEW result \in Result, job' = Ended(job, result),
         \A i \in 1..Len(job.fates) : job.fates[i] # "todo"
  PROVE  IInv'
  <1>1. JobOK(job)
    BY DEF IInv, TypeOK, JobOK
  <1>2. /\ JobOK(job') /\ job'.stage = "idle" /\ job'.result = result
        /\ job'.actions = job.actions /\ job'.fates = job.fates /\ job'.at = 0
        /\ job'.entity = job.entity /\ job'.plan = job.plan
        /\ Notifies(result) => job'.told
    BY <1>1, EndedJob
  <1>3. \A i \in 1..Len(job'.actions) : Deserved(i)'
    BY <1>2, FateKept DEF IInv, EveryFateMet
  <1>4. EveryFateMet' /\ NothingDue' /\ PlanPasses'
    BY <1>2, <1>3 DEF EveryFateMet, NothingDue, PlanPasses, Notifies
  <1>. QED
    BY <1>2, <1>4, LoopJob DEF IInv, TypeOK

\* Triage ends the event or hands it to the reasoning model.
LEMMA ClassifyStep ==
  ASSUME IInv, NEW disposition, Classify(disposition)
  PROVE  IInv'
  <1>1. /\ job.stage = "triage" /\ job.at = 0 /\ JobOK(job)
        /\ \A i \in 1..Len(job.fates) : job.fates[i] # "todo"
    BY DEF IInv, TypeOK, AtWork, AtAction, AtPlanStep, NothingDue, Classify, JobOK
  <1>. DEFINE asked == [job EXCEPT !.stage = "reasoning", !.origin = "t2"]
  <1>2. CASE job' = asked /\ Ask("reasoning")
    <2>1. /\ JobOK(asked) /\ asked.stage = "reasoning" /\ asked.at = 0
          /\ asked.actions = job.actions /\ asked.fates = job.fates
          /\ asked.entity = job.entity /\ asked.plan = job.plan
      BY <1>1 DEF JobOK, Job
    <2>. HIDE DEF asked
    <2>2. TypeCall'
      BY <1>2, AskType
    <2>3. \A i \in 1..Len(job'.actions) : Deserved(i)'
      BY <1>2, <2>1, FateKept DEF IInv, EveryFateMet, Classify
    <2>4. EveryFateMet' /\ NothingDue' /\ PlanPasses'
      BY <1>1, <1>2, <2>1, <2>3 DEF EveryFateMet, NothingDue, PlanPasses
    <2>. QED
      BY <1>1, <1>2, <2>1, <2>2, <2>4, LoopJob DEF Classify, IInv, TypeOK
  <1>3. CASE ~(job' = asked /\ Ask("reasoning"))
    <2>1. PICK result \in Result : job' = Ended(job, result) /\ call' = NoCall
      BY <1>3 DEF Classify, Result
    <2>2. TypeCall'
      BY <2>1, NoCallType DEF TypeCall
    <2>. QED
      BY <1>1, <2>1, <2>2, EndStep DEF Classify
  <1>. QED
    BY <1>2, <1>3

\* The steps that end an event from where the loop stands.
LEMMA EndingSteps ==
  ASSUME IInv, ModelRefuses \/ PlanEnds \/ ActionsEnd
  PROVE  IInv'
  <1>1. TypeCall /\ JobOK(job)
    BY DEF IInv, TypeOK, JobOK
  <1>2. CASE ModelRefuses
    BY <1>1, <1>2, EndStep
       DEF ModelRefuses, IInv, AtWork, AtAction, AtPlanStep, NothingDue, TypeCall, Result
  <1>3. CASE PlanEnds
    BY <1>1, <1>3, EndStep DEF PlanEnds, IInv, NothingDue, TypeCall, Result
  <1>4. CASE ActionsEnd
    BY <1>1, <1>4, EndStep DEF ActionsEnd, IInv, TypeCall, Result
  <1>. QED
    BY <1>2, <1>3, <1>4

\* The new fates of the same event are deserved if they are by what was known of
\* the event before.
LEMMA FatesDeserved ==
  ASSUME UNCHANGED config, job'.entity = job.entity,
         NEW i, NEW a, a = job'.actions[i],
         \/ job'.fates[i] = "todo" /\ Guard(EntityOf(a), a.tier) = "passed"
         \/ job'.fates[i] = "blocked" /\ Guard(EntityOf(a), a.tier) # "passed"
         \/ job'.fates[i] = "superseded" /\ job'.plan # <<>>
  PROVE  Deserved(i)'
  <1>1. Guard(EntityOf(a), a.tier)' = Guard(EntityOf(a), a.tier)
    BY DEF Guard, EntityOf
  <1>. QED
    BY <1>1 DEF Deserved

\* A diagnosis and its guardrails.
LEMMA DiagnoseStep ==
  ASSUME IInv, NEW d \in Diagnosis \union {SafeFallback}, Diagnose(d)
  PROVE  IInv'
  <1>. DEFINE passes(a) == Guard(EntityOf(a), a.tier) = "passed"
              fates == [i \in 1..Len(d.actions) |->
                          IF passes(d.actions[i]) THEN "todo" ELSE "blocked"]
              passedOver == [i \in 1..Len(d.actions) |-> "superseded"]
              diagnosed == Diagnosed(job, d, fates)
              superseded == Refated(diagnosed, passedOver)
  <1>1. d \in DiagnosisType
    BY FallbackType, DispatchAssumption
  <1>2. /\ JobOK(job) /\ job.at = 0 /\ job.stage = "reasoning" /\ TypeCall'
        /\ UNCHANGED <<config, learned, shown, run>>
    BY NoCallType
       DEF Diagnose, IInv, TypeOK, AtWork, AtAction, AtPlanStep, JobOK, TypeCall
  <1>3. /\ fates \in Seq(Fate) /\ Len(fates) = Len(d.actions)
        /\ passedOver \in Seq(Fate) /\ Len(passedOver) = Len(d.actions)
    BY <1>1 DEF DiagnosisType, Fate
  <1>4. /\ \A i \in 1..Len(d.actions) :
             fates[i] = IF passes(d.actions[i]) THEN "todo" ELSE "blocked"
        /\ \A i \in 1..Len(d.actions) : passedOver[i] = "superseded"
    OBVIOUS
  <1>5. \/ /\ job' = Ended(diagnosed, "escalated") /\ UNCHANGED pending
           /\ d.actions = <<>>
        \/ /\ job' = Ended(diagnosed, "blocked") /\ UNCHANGED pending
           /\ \A i \in 1..Len(d.actions) : ~passes(d.actions[i])
        \/ job' = Staged(diagnosed, "acting") /\ UNCHANGED pending
        \/ /\ job' = Staged(superseded, "planning") /\ UNCHANGED pending
           /\ d.plan # <<>> /\ config.plans
           /\ \A i \in 1..Len(d.plan) : d.plan[i].tier = "auto_fix"
           /\ \E i \in 1..Len(d.actions) : passes(d.actions[i])
        \/ /\ job' = Ended(superseded, "matched") /\ pending' = pending \union {PlanEntry}
           /\ d.plan # <<>>
    BY DEF Diagnose, Diagnosed, Refated, Staged
  <1>. HIDE DEF passes, fates, passedOver
  <1>6. /\ JobOK(diagnosed) /\ diagnosed.actions = d.actions /\ diagnosed.fates = fates
        /\ diagnosed.plan = d.plan /\ diagnosed.at = 0 /\ diagnosed.entity = job.entity
    BY <1>1, <1>2, <1>3, DiagnosedJob
  <1>. HIDE DEF diagnosed
  <1>7. /\ JobOK(superseded) /\ superseded.actions = d.actions
        /\ superseded.fates = passedOver /\ superseded.plan = d.plan
        /\ superseded.at = 0 /\ superseded.entity = job.entity
    BY <1>3, <1>6, RefatedJob
  <1>. HIDE DEF superseded
  <1>8. /\ JobOK(job') /\ job'.actions = d.actions /\ job'.plan = d.plan
        /\ job'.at = 0 /\ job'.entity = job.entity
        /\ \/ job'.fates = fates
           \/ job'.fates = passedOver /\ d.plan # <<>>
        /\ \/ job'.stage = "acting"
           \/ /\ job'.stage = "planning" /\ job'.fates = passedOver /\ config.plans
              /\ \A i \in 1..Len(d.plan) : d.plan[i].tier = "auto_fix"
              /\ \E i \in 1..Len(d.actions) : passes(d.actions[i])
           \/ /\ job'.stage = "idle" /\ job'.result \in {"escalated", "blocked", "matched"}
              /\ Notifies(job'.result) => job'.told
              /\ \A i \in 1..Len(d.actions) : job'.fates[i] # "todo"
    <2>1. CASE job' = Ended(diagnosed, "escalated") /\ d.actions = <<>>
      BY <1>6, <2>1, EndedJob DEF Result
    <2>2. CASE /\ job' = Ended(diagnosed, "blocked")
               /\ \A i \in 1..Len(d.actions) : ~passes(d.actions[i])
      BY <1>4, <1>6, <2>2, EndedJob DEF Result
    <2>3. CASE job' = Staged(diagnosed, "acting")
      BY <1>6, <2>3, StagedJob
    <2>4. CASE /\ job' = Staged(superseded, "planning") /\ d.plan # <<>> /\ config.plans
               /\ \A i \in 1..Len(d.plan) : d.plan[i].tier = "auto_fix"
               /\ \E i \in 1..Len(d.actions) : passes(d.actions[i])
      BY <1>7, <2>4, StagedJob
    <2>5. CASE job' = Ended(superseded, "matched") /\ d.plan # <<>>
      BY <1>4, <1>7, <2>5, EndedJob DEF Result
    <2>. QED
      BY <1>5, <2>1, <2>2, <2>3, <2>4, <2>5
  <1>9. ASSUME NEW i \in 1..Len(d.actions)
        PROVE  Deserved(i)'
    BY <1>2, <1>4, <1>8, FatesDeserved DEF passes
  <1>10. Len(job'.fates) = Len(d.actions)
    BY <1>8 DEF JobOK
  <1>11. EveryFateMet' /\ NothingDue'
    BY <1>4, <1>8, <1>9, <1>10 DEF EveryFateMet, NothingDue, Notifies
  <1>12. PlanPasses'
    BY <1>2, <1>8 DEF PlanPasses, passes, Guard, EntityOf
  <1>13. pending' \subseteq Entry
    BY <1>5 DEF IInv, TypeOK, Entry
  <1>. QED
    BY <1>2, <1>8, <1>11, <1>12, <1>13, LoopJob DEF IInv, TypeOK

\* What is left to show of a step of the loop at a plan that goes on.
LEMMA PlanJob ==
  ASSUME IInv, UNCHANGED <<config, pending, learned, shown, call>>, job.stage = "planning",
         NEW behind \in Nat, NEW at \in Nat,
         job' = [job EXCEPT !.behind = behind, !.at = at], TypeRun', AtWork'
  PROVE  IInv'
  <1>1. JobOK(job)
    BY DEF IInv, TypeOK, JobOK
  <1>2. /\ JobOK(job') /\ job'.stage = "planning" /\ job'.entity = job.entity
        /\ job'.actions = job.actions /\ job'.fates = job.fates /\ job'.plan = job.plan
    BY <1>1 DEF JobOK, Job
  <1>3. TypeOK'
    BY <1>2 DEF IInv, TypeOK, JobOK, TypeCall
  <1>4. \A k \in 1..Len(job'.actions) : Deserved(k)'
    BY <1>2, FateKept DEF IInv, EveryFateMet
  <1>5. EveryFateMet' /\ NothingDue' /\ PlanPasses'
    BY <1>2, <1>4, PlanKept DEF IInv, EveryFateMet, NothingDue
  <1>. QED
    BY <1>3, <1>5 DEF IInv

\* A step of a plan goes to its handler.
LEMMA PlanStepStep ==
  ASSUME IInv, NEW i \in 1..Len(job.plan), PlanStep(i)
  PROVE  IInv'
  <1>1. /\ JobOK(job) /\ TypeRun /\ job.stage = "planning" /\ i > job.behind
        /\ UNCHANGED <<config, pending, learned, shown, call>>
        /\ job' = [job EXCEPT !.at = i] /\ job.behind \in Nat /\ i \in Nat
    BY DEF IInv, TypeOK, JobOK, Job, Plan, PlanStep
  <1>2. job.plan[i].op \in DOMAIN Operations
    <2>1. job.plan[i] \in Action
      BY <1>1 DEF JobOK, Job, Plan
    <2>. QED
      BY <2>1 DEF Action
  <1>3. TypeRun' /\ run'["loop"].op = job.plan[i].op /\ run'["loop"].phase = "calling"
    <2>1. TypeRun'
      BY <1>1, <1>2, BeginType, DispatchAssumption DEF PlanStep
    <2>2. run'["loop"].op = job.plan[i].op /\ run'["loop"].phase = "calling"
      BY <1>1, DispatchAssumption DEF PlanStep, Begin, TypeRun, Idle
    <2>. QED
      BY <2>1, <2>2
  <1>4. job' = [job EXCEPT !.behind = job.behind, !.at = i]
    BY <1>1 DEF JobOK, Job
  <1>5. /\ job'.at = i /\ job'.stage = "planning" /\ job'.plan = job.plan
        /\ job'.behind = job.behind
    BY <1>1 DEF JobOK, Job
  <1>6. AtWork'
    BY <1>1, <1>3, <1>5 DEF AtWork, AtPlanStep
  <1>. QED
    BY <1>1, <1>3, <1>4, <1>6, PlanJob

\* Its handler is through: the plan goes on behind it, or has failed.
LEMMA PlanStepEndsStep ==
  ASSUME IInv, PlanStepEnds
  PROVE  IInv'
  <1>. DEFINE through == [job EXCEPT !.behind = job.at, !.at = 0]
  <1>1. /\ JobOK(job) /\ TypeRun /\ job.stage = "planning" /\ job.at \in Nat
        /\ UNCHANGED <<config, pending, learned, shown, call>>
        /\ run' = [run EXCEPT !["loop"] = Idle]
        /\ job' = through \/ job' = Ended(through, "matched")
    BY DEF IInv, TypeOK, JobOK, Job, PlanStepEnds
  <1>2. TypeRun' /\ run'["loop"].phase = "idle"
    BY <1>1, IdleType, DispatchAssumption DEF TypeRun, Idle
  <1>3. CASE job' = through
    <2>1. job'.at = 0
      BY <1>1, <1>3 DEF JobOK, Job
    <2>2. AtWork'
      BY <1>2, <2>1 DEF AtWork
    <2>. QED
      BY <1>1, <1>2, <1>3, <2>2, PlanJob
  <1>4. CASE job' = Ended(through, "matched")
    <2>1. /\ JobOK(through) /\ through.at = 0 /\ through.entity = job.entity
          /\ through.actions = job.actions /\ through.fates = job.fates
          /\ through.plan = job.plan
      BY <1>1 DEF JobOK, Job
    <2>. HIDE DEF through
    <2>2. /\ JobOK(job') /\ job'.stage = "idle" /\ job'.result = "matched" /\ job'.told
          /\ job'.actions = job.actions /\ job'.fates = job.fates /\ job'.at = 0
          /\ job'.entity = job.entity /\ job'.plan = job.plan
      BY <1>4, <2>1, EndedJob DEF Result, Notifies
    <2>3. \A i \in 1..Len(job.fates) : job.fates[i] # "todo"
      BY <1>1 DEF IInv, NothingDue
    <2>4. \A k \in 1..Len(job'.actions) : Deserved(k)'
      BY <1>1, <2>2, FateKept DEF IInv, EveryFateMet
    <2>5. EveryFateMet' /\ NothingDue' /\ PlanPasses'
      BY <2>2, <2>3, <2>4 DEF EveryFateMet, NothingDue, PlanPasses
    <2>6. TypeOK'
      BY <1>1, <1>2, <2>2 DEF IInv, TypeOK, JobOK, TypeCall
    <2>7. AtWork'
      BY <1>2, <2>2 DEF AtWork
    <2>. QED
      BY <2>5, <2>6, <2>7 DEF IInv
  <1>. QED
    BY <1>1, <1>3, <1>4

\* An action goes to its handler.
LEMMA ExecuteStep ==
  ASSUME IInv, NEW i \in 1..Len(job.actions), Execute(i)
  PROVE  IInv'
  <1>1. /\ JobOK(job) /\ TypeRun /\ job.actions[i].op \in DOMAIN Operations
        /\ job.stage = "acting" /\ job.fates[i] = "todo" /\ i \in Nat
        /\ UNCHANGED <<config, pending, learned, shown, call>>
    <2>1. JobOK(job) /\ TypeRun
      BY DEF IInv, TypeOK, JobOK
    <2>2. job.actions[i] \in Action /\ i \in Nat
      BY <2>1 DEF JobOK, Job
    <2>. QED
      BY <2>1, <2>2 DEF Action, Execute, IsNext
  <1>2. /\ JobOK(job') /\ job'.at = i /\ job'.actions = job.actions
        /\ job'.fates = job.fates /\ job'.stage = "acting"
        /\ job'.entity = job.entity /\ job'.plan = job.plan
    <2>1. job' = [job EXCEPT !.at = i]
      BY DEF Execute
    <2>2. job' \in Job
      BY <1>1, <2>1 DEF JobOK, Job
    <2>3. /\ job'.at = i /\ job'.actions = job.actions
          /\ job'.fates = job.fates /\ job'.stage = "acting"
          /\ job'.entity = job.entity /\ job'.plan = job.plan
      BY <1>1, <2>1 DEF JobOK, Job
    <2>. QED
      BY <1>1, <2>2, <2>3 DEF JobOK
  <1>3. TypeRun'
    BY <1>1, BeginType, DispatchAssumption DEF Execute
  <1>4. run'["loop"].op = job.actions[i].op /\ run'["loop"].phase = "calling"
    BY <1>1, DispatchAssumption DEF Execute, Begin, TypeRun, Idle
  <1>5. \A k \in 1..Len(job'.actions) : Deserved(k)'
    BY <1>1, <1>2, FateKept DEF IInv, EveryFateMet
  <1>6. AtWork'
    BY <1>1, <1>2, <1>4 DEF AtWork, AtAction, Execute, NeedsApproval, HasHandler
  <1>7. EveryFateMet' /\ NothingDue' /\ PlanPasses'
    BY <1>2, <1>5 DEF EveryFateMet, NothingDue, PlanPasses
  <1>8. TypeOK'
    BY <1>1, <1>2, <1>3 DEF IInv, TypeOK, JobOK, TypeCall
  <1>. QED
    BY <1>6, <1>7, <1>8 DEF IInv

\* The fate of one action is met, those of the others stay what they are.
LEMMA Meet ==
  ASSUME IInv, UNCHANGED config, NEW i \in 1..Len(job.actions), NEW f \in Fate \ {"todo"},
         job'.actions = job.actions, job'.entity = job.entity, job'.plan = job.plan,
         job'.fates = [job.fates EXCEPT ![i] = f],
         LET a == job.actions[i]
         IN  \/ f = "ran" /\ ~NeedsApproval(a) /\ HasHandler(a.op)
             \/ f = "skipped" /\ ~HasHandler(a.op)
             \/ f \in {"queued", "duplicate"} /\ NeedsApproval(a)
  PROVE  \A k \in 1..Len(job'.actions) : Deserved(k)'
  <1>1. JobOK(job)
    BY DEF IInv, TypeOK, JobOK
  <1>2. job'.fates[i] = f /\ \A k \in 1..Len(job.actions) : k # i => job'.fates[k] = job.fates[k]
    BY <1>1 DEF JobOK, Job
  <1>3. Deserved(i)'
    BY <1>2 DEF Deserved, NeedsApproval, HasHandler
  <1>. QED
    BY <1>2, <1>3, FateKept DEF IInv, EveryFateMet

\* An action is skipped, queued or found a duplicate.
LEMMA MeetStep ==
  ASSUME IInv, NEW i \in 1..Len(job.actions), Skip(i) \/ Enqueue(i) \/ EnqueueDuplicate(i)
  PROVE  IInv'
  <1>. DEFINE met(f) == Met(job, i, f)
  <1>1. PICK f \in {"skipped", "queued", "duplicate"} :
          /\ f = "skipped" => ~HasHandler(job.actions[i].op)
          /\ f \in {"queued", "duplicate"} => NeedsApproval(job.actions[i])
          /\ job' = met(f) \/ job' = Ended(met(f), "error")
    BY DEF Skip, Enqueue, EnqueueDuplicate, Met
  <1>2. /\ JobOK(job) /\ IsNext(i) /\ UNCHANGED <<config, learned, shown, run, call>>
        /\ job.actions[i] \in Action
    BY DEF IInv, TypeOK, JobOK, Job, Skip, Enqueue, EnqueueDuplicate
  <1>3. pending' \subseteq Entry
    BY <1>2 DEF IInv, TypeOK, Skip, Enqueue, EnqueueDuplicate, KeyOf, Entry, Action
  <1>4. /\ JobOK(met(f)) /\ met(f).stage = "acting" /\ met(f).at = 0
        /\ met(f).actions = job.actions /\ met(f).fates = [job.fates EXCEPT ![i] = f]
        /\ met(f).entity = job.entity /\ met(f).plan = job.plan
    <2>1. f \in Fate
      BY DEF Fate
    <2>. HIDE DEF met
    <2>2. met(f) = Met(job, i, f)
      BY DEF met
    <2>3. /\ JobOK(met(f)) /\ met(f).stage = job.stage /\ met(f).at = job.at
          /\ met(f).actions = job.actions /\ met(f).fates = [job.fates EXCEPT ![i] = f]
          /\ met(f).entity = job.entity /\ met(f).plan = job.plan
      BY <1>2, <2>1, <2>2, FateJob
    <2>. QED
      BY <1>2, <2>3 DEF IsNext
  <1>. HIDE DEF met
  <1>5. /\ JobOK(job') /\ job'.at = 0
        /\ job'.actions = job.actions /\ job'.fates = [job.fates EXCEPT ![i] = f]
        /\ job'.entity = job.entity /\ job'.plan = job.plan
        /\ job'.stage = "acting" \/ (job'.stage = "idle" /\ job'.result = "error")
    BY <1>1, <1>4, EndedJob DEF Result
  <1>6. \A k \in 1..Len(job'.actions) : Deserved(k)'
    BY <1>1, <1>2, <1>5, Meet DEF Fate
  <1>7. EveryFateMet' /\ NothingDue' /\ PlanPasses'
    BY <1>5, <1>6 DEF EveryFateMet, NothingDue, PlanPasses
  <1>. QED
    BY <1>2, <1>3, <1>5, <1>7, LoopJob DEF IInv, TypeOK, IsNext, TypeCall

\* An action's handler is through.
LEMMA ActionEndsStep ==
  ASSUME IInv, ActionEnds
  PROVE  IInv'
  <1>. DEFINE i == job.at
  <1>1. /\ JobOK(job) /\ job.stage = "acting" /\ i \in 1..Len(job.actions)
        /\ ~NeedsApproval(job.actions[i]) /\ HasHandler(job.actions[i].op)
        /\ UNCHANGED <<config, pending, call>> /\ run' = [run EXCEPT !["loop"] = Idle]
        /\ TypeRun
    BY DEF IInv, TypeOK, JobOK, AtWork, AtAction, AtPlanStep, ActionEnds
  <1>2. PICK b \in BOOLEAN : job' = [job EXCEPT !.at = 0, !.fates[i] = "ran", !.told = b]
    <2>. DEFINE t == job.told \/ job.actions[i].tier = "recommend"
    <2>1. job' = [job EXCEPT !.at = 0, !.fates[i] = "ran", !.told = t]
      BY DEF ActionEnds
    <2>2. CASE t
      <3>1. t = TRUE
        BY <2>2
      <3>. QED
        BY <2>1, <3>1, Zenon
    <2>3. CASE ~t
      <3>1. t = FALSE
        BY <2>3
      <3>. QED
        BY <2>1, <3>1, Zenon
    <2>. QED
      BY <2>2, <2>3
  <1>3. /\ JobOK(job') /\ job'.at = 0 /\ job'.stage = "acting"
        /\ job'.actions = job.actions /\ job'.fates = [job.fates EXCEPT ![i] = "ran"]
        /\ job'.entity = job.entity /\ job'.plan = job.plan
    <2>. DEFINE fates == [job.fates EXCEPT ![i] = "ran"]
    <2>1. fates \in Seq(Fate) /\ Len(fates) = Len(job.fates)
      BY <1>1 DEF JobOK, Job, Fate
    <2>2. job' = [job EXCEPT !.at = 0, !.fates = fates, !.told = b]
      BY <1>1, <1>2 DEF JobOK, Job
    <2>. HIDE DEF fates
    <2>3. /\ job'.at = 0 /\ job'.stage = "acting"
          /\ job'.actions = job.actions /\ job'.fates = fates
          /\ job'.entity = job.entity /\ job'.plan = job.plan
      BY <1>1, <2>2 DEF JobOK, Job
    <2>4. job' \in Job
      BY <1>1, <2>1, <2>2 DEF JobOK, Job
    <2>5. Len(job'.actions) \in Nat
      BY <2>4 DEF Job
    <2>. QED
      BY <1>1, <2>1, <2>3, <2>4, <2>5 DEF JobOK, fates
  <1>4. \A k \in 1..Len(job'.actions) : Deserved(k)'
    BY <1>1, <1>3, Meet DEF Fate
  <1>5. TypeRun' /\ run'["loop"].phase = "idle"
    BY <1>1, IdleType, DispatchAssumption DEF TypeRun, Idle
  <1>6. learned' \in Nat /\ shown' \in Nat
    BY <1>1 DEF ActionEnds, Learn, IInv, TypeOK, JobOK, Job
  <1>7. TypeOK'
    BY <1>1, <1>3, <1>5, <1>6 DEF IInv, TypeOK, JobOK, TypeCall
  <1>8. AtWork' /\ NothingDue' /\ PlanPasses' /\ EveryFateMet'
    BY <1>3, <1>4, <1>5 DEF AtWork, NothingDue, PlanPasses, EveryFateMet
  <1>. QED
    BY <1>7, <1>8 DEF IInv

-----------------------------------------------------------------------------
(* Verification                                                            *)

AllSound == \A w \in Worker : Sound(run[w])

\* A worker at rest has concluded nothing.
LEMMA IdleSound == Sound(Idle)
  BY DEF Sound, Idle

\* One run at a time changes.
LEMMA RunChanged ==
  ASSUME TypeRun, AllSound, NEW w \in Worker, NEW r, run' = [run EXCEPT ![w] = r], Sound(r)
  PROVE  AllSound'
  BY DEF TypeRun, AllSound

\* A verdict of success is given at the sight of what was to be seen.
LEMMA SettleSound ==
  ASSUME TypeRun, AllSound, NEW w \in Worker, NEW v \in {"unverified", "verified"},
         run[w].phase = "verifying", Settle(w, v),
         v = "verified" => run[w].thing \in Op(w).expects
  PROVE  AllSound'
  <1>. DEFINE r(b) == [run[w] EXCEPT !.phase = "finished", !.verdict = v, !.sight = b]
  <1>1. run[w] \in Run /\ Sound(run[w])
    BY DEF TypeRun, AllSound
  <1>2. CASE run[w].thing \in Op(w).expects
    <2>1. (run[w].thing \in Op(w).expects) = TRUE
      BY <1>2
    <2>2. run' = [run EXCEPT ![w].phase = "finished", ![w].verdict = v, ![w].sight = TRUE]
      BY <2>1, Zenon DEF Settle
    <2>3. run' = [run EXCEPT ![w] = r(TRUE)]
      BY <2>2 DEF TypeRun
    <2>4. Sound(r(TRUE))
      BY <1>1 DEF Sound, Run
    <2>. HIDE DEF r
    <2>. QED
      BY <2>3, <2>4, RunChanged
  <1>3. CASE ~(run[w].thing \in Op(w).expects)
    <2>1. (run[w].thing \in Op(w).expects) = FALSE
      BY <1>3
    <2>2. run' = [run EXCEPT ![w].phase = "finished", ![w].verdict = v, ![w].sight = FALSE]
      BY <2>1, Zenon DEF Settle
    <2>3. run' = [run EXCEPT ![w] = r(FALSE)]
      BY <2>2 DEF TypeRun
    <2>4. Sound(r(FALSE))
      BY <1>1, <1>3 DEF Sound, Run
    <2>. HIDE DEF r
    <2>. QED
      BY <2>3, <2>4, RunChanged
  <1>. QED
    BY <1>2, <1>3

\* A further poll concludes nothing.
LEMMA PollSound ==
  ASSUME TypeRun, AllSound, NEW w \in Worker, run' = [run EXCEPT ![w].polls = @ + 1]
  PROVE  AllSound'
  <1>. DEFINE r == [run[w] EXCEPT !.polls = @ + 1]
  <1>1. run[w] \in Run /\ Sound(run[w])
    BY DEF TypeRun, AllSound
  <1>2. Sound(r)
    BY <1>1 DEF Sound, Run
  <1>3. run' = [run EXCEPT ![w] = r]
    OBVIOUS
  <1>. HIDE DEF r
  <1>. QED
    BY <1>2, <1>3, RunChanged

\* A handler's steps keep the runs sound.
LEMMA HandlerSound ==
  ASSUME TypeRun, AllSound, NEW w \in Worker, NEW dry \in BOOLEAN, HandlerStep(w, dry)
  PROVE  AllSound'
  <1>1. run[w] \in Run /\ Sound(run[w]) /\ run[w].thing \in {"up", "down"}
    BY DEF TypeRun, Run, AllSound
  <1>2. CASE CallFails(w)
    <2>1. PICK t \in {"up", "down"} :
            \/ run' = [run EXCEPT ![w].phase = "finished", ![w].verdict = "failed"]
            \/ run' = [run EXCEPT ![w].phase = "finished", ![w].verdict = "failed",
                                  ![w].thing = t, ![w].done = TRUE]
      BY <1>1, <1>2, AfterType DEF CallFails
    <2>. DEFINE r1 == [run[w] EXCEPT !.phase = "finished", !.verdict = "failed"]
                r2 == [run[w] EXCEPT !.phase = "finished", !.verdict = "failed",
                                     !.thing = t, !.done = TRUE]
    <2>2. run' = [run EXCEPT ![w] = r1] \/ run' = [run EXCEPT ![w] = r2]
      BY <2>1 DEF TypeRun
    <2>3. Sound(r1)
      BY <1>1 DEF Sound, Run
    <2>4. Sound(r2)
      BY <1>1 DEF Sound, Run
    <2>. HIDE DEF r1, r2
    <2>. QED
      BY <2>2, <2>3, <2>4, RunChanged
  <1>3. CASE CallSucceeds(w, dry)
    BY <1>1, <1>3, Replied, RunChanged
  <1>4. CASE LookFails(w)
    <2>1. CASE Settle(w, "unverified")
      BY <1>4, <2>1, SettleSound DEF LookFails
    <2>. QED
      BY <1>4, <2>1, PollSound DEF LookFails
  <1>5. CASE Look(w)
    BY <1>5, SettleSound, PollSound DEF Look
  <1>6. CASE PastDeadline(w)
    BY <1>6, SettleSound DEF PastDeadline
  <1>. QED
    BY <1>2, <1>3, <1>4, <1>5, <1>6 DEF HandlerStep

\* So does what happens to the thing meanwhile.
LEMMA ThingSound ==
  ASSUME TypeRun, AllSound, NEW w \in Worker, ThingStep(w)
  PROVE  AllSound'
  <1>1. run[w] \in Run /\ Sound(run[w]) /\ run[w].thing \in {"up", "down"}
    BY DEF TypeRun, Run, AllSound
  <1>2. CASE TakeEffect(w)
    <2>1. PICK t \in {"up", "down"} :
            run' = [run EXCEPT ![w].thing = t, ![w].done = TRUE, ![w].due = FALSE]
      <3>1. After(Op(w).effect, run[w].thing) \subseteq {"up", "down"}
        BY <1>1, AfterType
      <3>. QED
        BY <1>2, <3>1 DEF TakeEffect
    <2>. DEFINE r == [run[w] EXCEPT !.thing = t, !.done = TRUE, !.due = FALSE]
    <2>2. run' = [run EXCEPT ![w] = r]
      BY <2>1 DEF TypeRun
    <2>3. Sound(r)
      BY <1>1 DEF Sound, Run
    <2>. HIDE DEF r
    <2>. QED
      BY <2>2, <2>3, RunChanged
  <1>3. CASE Drift(w)
    <2>1. PICK t \in {"up", "down"} : run' = [run EXCEPT ![w].thing = t]
      BY <1>1, <1>3 DEF Drift, TypeRun
    <2>. DEFINE r == [run[w] EXCEPT !.thing = t]
    <2>2. run' = [run EXCEPT ![w] = r]
      BY <2>1 DEF TypeRun
    <2>3. Sound(r)
      BY <1>1 DEF Sound, Run
    <2>. HIDE DEF r
    <2>. QED
      BY <2>2, <2>3, RunChanged
  <1>. QED
    BY <1>2, <1>3 DEF ThingStep

\* A run begins with no conclusion.
LEMMA BeginSound ==
  ASSUME TypeRun, AllSound, NEW w \in Worker, NEW op, Begin(w, op)
  PROVE  AllSound'
  <1>1. PICK thing \in {"up", "down"} :
          run' = [run EXCEPT ![w] =
                    [Idle EXCEPT !.op = op, !.phase = "calling", !.thing = thing]]
    BY DEF Begin
  <1>. DEFINE r == [Idle EXCEPT !.op = op, !.phase = "calling", !.thing = thing]
  <1>2. Sound(r)
    BY DEF Sound, Idle
  <1>. HIDE DEF r
  <1>. QED
    BY <1>1, <1>2, RunChanged DEF r

-----------------------------------------------------------------------------
(* The theorems                                                            *)

\* The agent starts in it.
LEMMA InitIInv ==
  ASSUME Init
  PROVE  IInv
  <1>1. PICK entity \in Target : job = Fresh(entity)
    BY DEF Init
  <1>2. /\ JobOK(job) /\ job.at = 0 /\ job.actions = <<>>
        /\ job.stage = "idle" /\ job.result = "none"
    BY <1>1, FreshJob DEF Fresh
  <1>3. Len(job.actions) = 0 /\ Len(job.fates) = 0
    BY <1>2 DEF JobOK
  <1>4. TypeRun /\ run["loop"].phase = "idle"
    BY IdleType, DispatchAssumption DEF Init, TypeRun, Idle
  <1>5. TypeCall
    BY NoCallType DEF Init, TypeCall
  <1>6. TypeOK
    BY <1>2, <1>4, <1>5, DispatchAssumption DEF Init, TypeOK, JobOK
  <1>7. AtWork /\ NothingDue /\ PlanPasses /\ EveryFateMet
    BY <1>2, <1>3, <1>4 DEF AtWork, NothingDue, PlanPasses, EveryFateMet
  <1>. QED
    BY <1>6, <1>7 DEF IInv

\* Every step keeps it.
LEMMA NextIInv ==
  ASSUME IInv, [Next]_vars
  PROVE  IInv'
  <1>1. CASE Receive
    BY <1>1, ReceiveKnownStep, ReceiveUnknownStep DEF Receive
  <1>2. CASE ModelStep
    BY <1>2, ModelSteps
  <1>3. CASE Decide
    BY <1>3, ClassifyStep, EndingSteps, DiagnoseStep DEF Decide
  <1>10. CASE Carry
    BY <1>10, PlanStepStep, PlanStepEndsStep, EndingSteps DEF Carry
  <1>4. CASE Act
    BY <1>4, ExecuteStep, MeetStep, ActionEndsStep, EndingSteps DEF Act
  <1>5. CASE Handle("loop")
    BY <1>5, HandlerSteps, DispatchAssumption
  <1>6. CASE OperatorStep
    BY <1>6, OperatorSteps
  <1>7. CASE TaskStep
    BY <1>7, TaskSteps
  <1>8. ASSUME NEW w \in Worker, ThingChanges(w)
        PROVE  IInv'
    BY <1>8, HandlerSteps
  <1>9. CASE UNCHANGED vars
    BY <1>9, BesideJob DEF vars, IInv, TypeOK, TypeRun, TypeCall
  <1>. QED
    BY <1>1, <1>2, <1>3, <1>4, <1>5, <1>6, <1>7, <1>8, <1>9, <1>10 DEF Next, LoopStep

THEOREM Invariance == Spec => []IInv
  <1>1. Init => IInv
    BY InitIInv
  <1>2. IInv /\ [Next]_vars => IInv'
    BY NextIInv
  <1>. QED
    BY <1>1, <1>2, PTL DEF Spec

\* Every variable keeps its type, whatever the models answer and the handlers do.
THEOREM TypeCorrect == Spec => []TypeOK
  <1>1. IInv => TypeOK
    BY DEF IInv
  <1>. QED
    BY <1>1, Invariance, PTL

\* _handle_t0, _dispatch_t2_actions and _handle_t2: an action the loop runs of any
\* known fix or diagnosis has passed the guardrails and needed no approval.  The
\* steps of a plan are not guarded: what stands behind every one of them is an action
\* that came with the plan and has passed, and a plan of AUTO_FIX steps only.
THEOREM Guarded == Spec => []GuardedExecution
  <1>1. ASSUME IInv
        PROVE  GuardedExecution
    <2>. SUFFICES ASSUME run["loop"].phase # "idle"
                  PROVE  GuardedExecution
      BY DEF GuardedExecution
    <2>1. job.at # 0 /\ (AtAction \/ AtPlanStep)
      BY <1>1 DEF IInv, AtWork
    <2>2. CASE AtAction
      <3>. DEFINE a == job.actions[job.at]
      <3>1. /\ job.stage = "acting" /\ job.at \in 1..Len(job.actions)
            /\ job.fates[job.at] = "todo" /\ run["loop"].op = a.op /\ ~NeedsApproval(a)
        BY <2>2 DEF AtAction
      <3>2. Guard(EntityOf(a), a.tier) = "passed"
        BY <1>1, <3>1 DEF IInv, EveryFateMet, Deserved
      <3>3. /\ ~config.kill /\ ~config.dry /\ EntityOf(a) \notin config.blocked
            /\ a.tier \in {"auto_fix", "recommend"}
        BY <3>2 DEF Guard, AllowedTiers
      <3>4. Current = a
        BY <3>1 DEF Current
      <3>. HIDE DEF a
      <3>. QED
        BY <2>1, <3>1, <3>3, <3>4 DEF GuardedExecution, NeedsApproval
    <2>3. CASE AtPlanStep
      <3>1. /\ job.stage = "planning" /\ run["loop"].op = job.plan[job.at].op
            /\ Current = job.plan[job.at]
        BY <2>3 DEF AtPlanStep, Current
      <3>2. /\ config.plans /\ \A i \in 1..Len(job.plan) : job.plan[i].tier = "auto_fix"
            /\ \E i \in 1..Len(job.actions) :
                 Guard(EntityOf(job.actions[i]), job.actions[i].tier) = "passed"
        BY <1>1, <3>1 DEF IInv, PlanPasses
      <3>3. ~config.kill /\ ~config.dry
        BY <3>2 DEF Guard
      <3>. QED
        BY <2>1, <3>1, <3>2, <3>3 DEF GuardedExecution
    <2>. QED
      BY <2>1, <2>2, <2>3
  <1>. QED
    BY <1>1, Invariance, PTL

\* _dispatch_t2_actions: what became of a diagnosed action is what had to become of
\* it; none is left when the loop is through with the event, unless by an exception;
\* and nothing a human must hear of ends untold, for diagnoses of any length.
THEOREM FatesMet == Spec => []EveryFateMet
  <1>1. IInv => EveryFateMet
    BY DEF IInv
  <1>. QED
    BY <1>1, Invariance, PTL

\* What a step does to the candidate and to the suggestions it is the best of.
LEMMA OnlyEndsTeach ==
  ASSUME [Next]_vars
  PROVE  ActionEnds \/ UNCHANGED <<learned, shown>>
  BY DEF Next, vars, Receive, ReceiveKnown, ReceiveUnknown, LoopStep, ModelStep, Decide,
     Classify, ModelRefuses, Diagnose, Carry, PlanStep, PlanStepEnds, PlanEnds, Act, Execute,
     Skip, Enqueue, EnqueueDuplicate, ActionsEnd, Handle, OperatorStep, Withdraw, Approve,
     TaskStep, TaskEnds, ThingChanges

\* write_candidate: the candidate on file is the most confident of the suggestions
\* whose action a handler has executed, verified or not, in whatever order they came.
THEOREM BestSuggestion == Spec => []KeepsBestSuggestion
  <1>1. Init => KeepsBestSuggestion
    BY DispatchAssumption DEF Init, KeepsBestSuggestion
  <1>2. ASSUME IInv, KeepsBestSuggestion, [Next]_vars
        PROVE  KeepsBestSuggestion'
    <2>1. CASE ActionEnds
      <3>1. job.hint \in Nat /\ shown \in Nat /\ learned \in Nat
        BY <1>2 DEF IInv, TypeOK, Job
      <3>. QED
        BY <1>2, <2>1, <3>1, DispatchAssumption DEF ActionEnds, Learn, KeepsBestSuggestion
    <2>2. CASE UNCHANGED <<learned, shown>>
      BY <1>2, <2>2 DEF KeepsBestSuggestion
    <2>. QED
      BY <1>2, <2>1, <2>2, OnlyEndsTeach
  <1>. QED
    BY <1>1, <1>2, Invariance, PTL DEF Spec

\* verify() of every handler: a verdict of success rests on a look that found the
\* thing as it should be, after the request had its effect, where it has one at once.
THEOREM VerifiedDone == Spec => []VerifiedMeansDone
  <1>1. Init => AllSound
    BY IdleSound DEF Init, AllSound
  <1>2. ASSUME IInv, AllSound, [Next]_vars
        PROVE  AllSound'
    <2>1. TypeRun
      BY <1>2 DEF IInv, TypeOK
    <2>2. CASE UNCHANGED run
      BY <1>2, <2>2 DEF AllSound
    <2>3. ASSUME NEW w \in Worker, NEW op, Begin(w, op)
          PROVE  AllSound'
      BY <1>2, <2>1, <2>3, BeginSound
    <2>4. ASSUME NEW w \in Worker, run' = [run EXCEPT ![w] = Idle]
          PROVE  AllSound'
      BY <1>2, <2>1, <2>4, IdleSound, RunChanged
    <2>5. ASSUME NEW w \in Worker, Handle(w)
          PROVE  AllSound'
      <3>. DEFINE d == config.dry \/ (w = "loop" /\ OwnNotification)
      <3>1. d \in BOOLEAN
        OBVIOUS
      <3>2. HandlerStep(w, d)
        BY <2>5 DEF Handle
      <3>. HIDE DEF d
      <3>. QED
        BY <1>2, <2>1, <3>1, <3>2, HandlerSound
    <2>6. ASSUME NEW w \in Worker, ThingChanges(w)
          PROVE  AllSound'
      BY <1>2, <2>1, <2>6, ThingSound DEF ThingChanges
    <2>7. "loop" \in Worker
      BY DispatchAssumption
    <2>8. CASE Receive \/ ModelStep \/ Decide \/ UNCHANGED vars
      BY <2>2, <2>8 DEF Receive, ReceiveKnown, ReceiveUnknown, ModelStep, Decide, Classify,
           ModelRefuses, Diagnose, vars
    <2>9. CASE Act \/ Carry
      BY <2>2, <2>3, <2>4, <2>7, <2>9 DEF Carry, PlanStep, PlanStepEnds, PlanEnds, Act, Execute, Skip, Enqueue, EnqueueDuplicate,
           ActionEnds, ActionsEnd
    <2>10. CASE OperatorStep
      BY <2>2, <2>3, <2>10 DEF OperatorStep, Withdraw, Approve
    <2>11. CASE TaskStep
      BY <2>4, <2>5, <2>11 DEF TaskStep, TaskEnds
    <2>. QED
      BY <1>2, <2>5, <2>6, <2>7, <2>8, <2>9, <2>10, <2>11 DEF Next, LoopStep
  <1>3. AllSound => VerifiedMeansDone
    BY DEF AllSound, Sound, VerifiedMeansDone, Op
  <1>. QED
    BY <1>1, <1>2, <1>3, Invariance, PTL DEF Spec

-----------------------------------------------------------------------------
(* Why every event comes to its end                                        *)

\* A model is asked a bounded number of times.
LEMMA AttemptsFall ==
  ASSUME TypeCall, LlmStep
  PROVE  AttemptsLeft' < AttemptsLeft
  <1> USE LlmAssumption DEF AttemptsLeft, Waiting, OnPrimary
  <1>1. /\ call.attempt \in 0..Retries /\ Waiting
        /\ call.role \in {"triage", "reasoning"} /\ call.endpoint \in {"triage", "reasoning"}
    BY DEF TypeCall, LlmStep, LlmAnswers, LlmTransientError, LlmOtherError, LlmRefuses
  <1>2. ASSUME NEW outcome \in {"answered", "unavailable", "refused"},
               call' = [call EXCEPT !.outcome = outcome]
        PROVE  AttemptsLeft' < AttemptsLeft
    BY <1>1, <1>2 DEF TypeCall
  <1>3. ASSUME GiveUp
        PROVE  AttemptsLeft' < AttemptsLeft
    <2>1. CASE call.role = "reasoning" /\ OnPrimary /\ FallbackToTriage
      <3>1. call' = [call EXCEPT !.endpoint = "triage", !.attempt = 0]
        BY <1>3, <2>1 DEF GiveUp
      <3>2. /\ call'.endpoint = "triage" /\ call'.attempt = 0
            /\ call'.role = "reasoning" /\ call'.outcome = "waiting"
        BY <1>1, <2>1, <3>1 DEF TypeCall
      <3>3. AttemptsLeft' = Retries + 1
        BY <3>2
      <3>4. AttemptsLeft = Retries + 1 - call.attempt + (Retries + 1)
        BY <1>1, <2>1
      <3>. HIDE DEF AttemptsLeft
      <3>. QED
        BY <1>1, <3>3, <3>4
    <2>2. CASE ~(call.role = "reasoning" /\ OnPrimary /\ FallbackToTriage)
      BY <1>2, <1>3, <2>2 DEF GiveUp
    <2>. QED
      BY <2>1, <2>2
  <1>4. CASE LlmAnswers
    BY <1>2, <1>4 DEF LlmAnswers
  <1>5. CASE LlmTransientError
    <2>1. CASE call.attempt < Retries
      BY <1>1, <1>5, <2>1 DEF LlmTransientError, TypeCall
    <2>. QED
      BY <1>3, <1>5, <2>1 DEF LlmTransientError
  <1>6. CASE LlmOtherError
    BY <1>3, <1>6 DEF LlmOtherError
  <1>7. CASE LlmRefuses
    BY <1>2, <1>7 DEF LlmRefuses
  <1>. QED
    BY <1>4, <1>5, <1>6, <1>7 DEF LlmStep

\* A handler replies once and is watched for MaxPolls intervals.
LEMMA HandlingFalls ==
  ASSUME TypeRun, "loop" \in Worker, NEW dry \in BOOLEAN, HandlerStep("loop", dry)
  PROVE  HandlingLeft' < HandlingLeft
  <1> USE HandlersAssumption
  <1>1. run["loop"] \in Run /\ run["loop"].polls \in 0..MaxPolls
    BY DEF TypeRun, Run
  <1>2. ASSUME run["loop"].phase \in {"calling", "verifying"}, run'["loop"].phase = "finished"
        PROVE  HandlingLeft' < HandlingLeft
    BY <1>1, <1>2 DEF HandlingLeft
  <1>3. ASSUME NEW verdict, Settle("loop", verdict)
        PROVE  run'["loop"].phase = "finished"
    <2>1. PICK b : run' = [run EXCEPT !["loop"].phase = "finished",
                                      !["loop"].verdict = verdict, !["loop"].sight = b]
      BY <1>3 DEF Settle
    <2>. QED
      BY <1>1, <2>1 DEF TypeRun, Run
  <1>4. ASSUME run["loop"].phase = "verifying", run["loop"].polls < MaxPolls,
               run' = [run EXCEPT !["loop"].polls = @ + 1]
        PROVE  HandlingLeft' < HandlingLeft
    <2>1. run'["loop"].phase = "verifying" /\ run'["loop"].polls = run["loop"].polls + 1
      BY <1>1, <1>4 DEF TypeRun, Run
    <2>. QED
      BY <1>1, <1>4, <2>1 DEF HandlingLeft
  <1>5. CASE CallFails("loop")
    <2>1. PICK t :
            \/ run' = [run EXCEPT !["loop"].phase = "finished", !["loop"].verdict = "failed"]
            \/ run' = [run EXCEPT !["loop"].phase = "finished", !["loop"].verdict = "failed",
                                  !["loop"].thing = t, !["loop"].done = TRUE]
      BY <1>5 DEF CallFails
    <2>2. run'["loop"].phase = "finished"
      BY <1>1, <2>1 DEF TypeRun, Run
    <2>. QED
      BY <1>2, <1>5, <2>2 DEF CallFails
  <1>6. CASE CallSucceeds("loop", dry)
    <2>1. PICK r \in Run :
            /\ run' = [run EXCEPT !["loop"] = r] /\ run["loop"].phase = "calling"
            /\ r.phase \in {"verifying", "finished"}
      BY <1>6, Replied
    <2>2. /\ run'["loop"].phase \in {"verifying", "finished"}
          /\ run'["loop"].polls \in 0..MaxPolls
      BY <2>1 DEF TypeRun, Run
    <2>. QED
      BY <2>1, <2>2 DEF HandlingLeft
  <1>7. CASE LookFails("loop")
    BY <1>2, <1>3, <1>4, <1>7 DEF LookFails
  <1>8. CASE Look("loop")
    BY <1>2, <1>3, <1>4, <1>8 DEF Look
  <1>9. CASE PastDeadline("loop")
    BY <1>2, <1>3, <1>9 DEF PastDeadline
  <1>. QED
    BY <1>5, <1>6, <1>7, <1>8, <1>9 DEF HandlerStep

\* A handler at work for one coroutine does nothing to the run of another.
LEMMA OtherRun ==
  ASSUME TypeRun, NEW w \in Worker, NEW v \in Worker \ {w},
         ThingStep(w) \/ \E dry \in BOOLEAN : HandlerStep(w, dry)
  PROVE  run'[v] = run[v]
  <1>1. ASSUME NEW dry \in BOOLEAN, CallSucceeds(w, dry)
        PROVE  run'[v] = run[v]
    BY <1>1, Replied DEF TypeRun
  <1>2. CASE ThingStep(w)
    BY <1>2 DEF ThingStep, TakeEffect, Drift, TypeRun
  <1>3. ASSUME CallFails(w) \/ LookFails(w) \/ Look(w) \/ PastDeadline(w)
        PROVE  run'[v] = run[v]
    BY <1>3 DEF CallFails, LookFails, Look, PastDeadline, Settle, TypeRun
  <1>. QED
    BY <1>1, <1>2, <1>3 DEF HandlerStep

\* What happens to the thing a handler is about does not hold the handler up.
LEMMA ThingBeside ==
  ASSUME TypeRun, NEW w \in Worker, ThingStep(w)
  PROVE  run'[w].phase = run[w].phase /\ run'[w].polls = run[w].polls
  <1>1. run[w] \in Run
    BY DEF TypeRun
  <1>2. CASE TakeEffect(w)
    <2>1. PICK t : run' = [run EXCEPT ![w].thing = t, ![w].done = TRUE, ![w].due = FALSE]
      BY <1>2 DEF TakeEffect
    <2>. QED
      BY <1>1, <2>1 DEF TypeRun, Run
  <1>3. CASE Drift(w)
    BY <1>1, <1>3 DEF Drift, TypeRun, Run
  <1>. QED
    BY <1>2, <1>3 DEF ThingStep

\* The loop's own measure is made of the job, its run and its request.
LEMMA Unhurried ==
  ASSUME UNCHANGED <<job, call>>, run'["loop"].phase = run["loop"].phase,
         run'["loop"].polls = run["loop"].polls
  PROVE  UNCHANGED <<StagesLeft, Todo, HandlingLeft, AttemptsLeft>>
  <1>1. UNCHANGED <<StagesLeft, Todo>>
    BY DEF StagesLeft, Todo
  <1>2. UNCHANGED HandlingLeft
    BY DEF HandlingLeft
  <1>3. UNCHANGED AttemptsLeft
    BY DEF AttemptsLeft, Waiting, OnPrimary
  <1>. QED
    BY <1>1, <1>2, <1>3

\* An event that has gone to a later stage is nearer to its end.
LEMMA LaterStage ==
  ASSUME \/ job.stage # "idle" /\ job'.stage = "idle"
         \/ job.stage \in {"triage", "reasoning"} /\ job'.stage \in {"acting", "planning"}
         \/ job.stage = "triage" /\ job'.stage = "reasoning",
         job.stage \in {"idle", "triage", "reasoning", "acting", "planning"}
  PROVE  Nearer
  BY DEF Nearer, StagesLeft

\* An event of which one more action has met its fate, and none has lost it, is too.
LEMMA FewerToDo ==
  ASSUME JobOK(job), job.stage = "acting", job'.stage = "acting", NEW i \in 1..Len(job.fates),
         NEW f \in Fate \ {"todo"}, job.fates[i] = "todo",
         job'.fates = [job.fates EXCEPT ![i] = f]
  PROVE  Nearer
  <1>1. Len(job'.fates) = Len(job.fates)
    BY DEF JobOK, Job
  <1>2. \A k \in 1..Len(job.fates) : job'.fates[k] = IF k = i THEN f ELSE job.fates[k]
    BY DEF JobOK, Job
  <1>3. Todo' \subseteq Todo /\ i \in Todo /\ i \notin Todo'
    BY <1>1, <1>2 DEF Todo
  <1>4. StagesLeft' = StagesLeft
    BY DEF StagesLeft
  <1>. QED
    BY <1>3, <1>4 DEF Nearer

\* An event that has ended is at no stage.
LEMMA EndedStage ==
  ASSUME NEW j, "stage" \in DOMAIN j, NEW result
  PROVE  Ended(j, result).stage = "idle"
  <1>1. PICK told : Ended(j, result) = [j EXCEPT !.stage = "idle", !.result = result,
                                                 !.told = told]
    BY Zenon DEF Ended
  <1>. QED
    BY <1>1

\* A diagnosis ends the event or leaves it to its actions or its plan.
LEMMA DiagnosedStage ==
  ASSUME JobOK(job), NEW d, Diagnose(d)
  PROVE  job'.stage \in {"idle", "acting", "planning"}
  <1>1. ASSUME NEW fates
        PROVE  "stage" \in DOMAIN Diagnosed(job, d, fates)
    BY DEF Diagnosed, JobOK, Job
  <1>2. PICK fates, passedOver :
          LET diagnosed == Diagnosed(job, d, fates)
              superseded == Refated(diagnosed, passedOver)
          IN  \/ \E result : job' = Ended(diagnosed, result)
              \/ job' = Staged(diagnosed, "acting")
              \/ job' = Staged(superseded, "planning")
              \/ job' = Ended(superseded, "matched")
    BY DEF Diagnose, Diagnosed, Refated, Staged
  <1>. DEFINE diagnosed == Diagnosed(job, d, fates)
              superseded == Refated(diagnosed, passedOver)
  <1>3. "stage" \in DOMAIN diagnosed /\ "stage" \in DOMAIN superseded
    BY <1>1 DEF Refated
  <1>. HIDE DEF diagnosed, superseded
  <1>. QED
    BY <1>2, <1>3, EndedStage DEF Staged, diagnosed, superseded

\* What is decided of an event takes it to a later stage.
LEMMA DecideNearer ==
  ASSUME IInv, Decide
  PROVE  Nearer
  <1>1. JobOK(job) /\ job.stage \in {"idle", "triage", "reasoning", "acting", "planning"}
    BY DEF IInv, TypeOK, JobOK, Job
  <1>2. ASSUME NEW disposition, Classify(disposition)
        PROVE  Nearer
    <2>1. \/ job' = [job EXCEPT !.stage = "reasoning", !.origin = "t2"]
          \/ \E result \in Result : job' = Ended(job, result)
      BY <1>2 DEF Classify, Result
    <2>2. CASE job' = [job EXCEPT !.stage = "reasoning", !.origin = "t2"]
      <3>1. job'.stage = "reasoning"
        BY <1>1, <2>2 DEF JobOK, Job
      <3>. QED
        BY <1>1, <1>2, <3>1, LaterStage DEF Classify
    <2>3. CASE \E result \in Result : job' = Ended(job, result)
      <3>1. job'.stage = "idle"
        BY <1>1, <2>3, EndedJob
      <3>. QED
        BY <1>1, <1>2, <3>1, LaterStage DEF Classify
    <2>. QED
      BY <2>1, <2>2, <2>3
  <1>3. CASE ModelRefuses
    <2>1. job'.stage = "idle"
      BY <1>1, <1>3, EndedJob DEF ModelRefuses, Result
    <2>. QED
      BY <1>1, <1>3, <2>1, LaterStage DEF ModelRefuses
  <1>4. ASSUME NEW d \in Diagnosis \union {SafeFallback}, Diagnose(d)
        PROVE  Nearer
    <2>1. job'.stage \in {"idle", "acting", "planning"}
      BY <1>1, <1>4, DiagnosedStage
    <2>. QED
      BY <1>1, <1>4, <2>1, LaterStage DEF Diagnose
  <1>. QED
    BY <1>2, <1>3, <1>4 DEF Decide

\* A handler called takes the loop from rest to the call.
LEMMA BeginNearer ==
  ASSUME IInv, NEW op, Begin("loop", op), job.at = 0, UNCHANGED <<StagesLeft, Todo>>
  PROVE  Nearer
  <1>1. TypeRun /\ run["loop"].phase = "idle"
    BY DEF IInv, TypeOK, AtWork
  <1>2. run'["loop"].phase = "calling"
    BY <1>1, DispatchAssumption DEF Begin, TypeRun, Idle
  <1>3. HandlingLeft' < HandlingLeft
    BY <1>1, <1>2, HandlersAssumption DEF HandlingLeft
  <1>. QED
    BY <1>3 DEF Nearer

\* Every step of a plan leaves fewer of them, or the event ends.
LEMMA CarryNearer ==
  ASSUME IInv, Carry
  PROVE  Nearer
  <1>1. /\ JobOK(job) /\ job.stage = "planning" /\ Len(job.plan) \in Nat
        /\ job.stage \in {"idle", "triage", "reasoning", "acting", "planning"}
    BY DEF IInv, TypeOK, JobOK, Job, Plan, Carry, PlanStep, PlanStepEnds, PlanEnds
  <1>2. ASSUME NEW i \in 1..Len(job.plan), PlanStep(i)
        PROVE  Nearer
    <2>1. job' = [job EXCEPT !.at = i]
      BY <1>2 DEF PlanStep
    <2>2. /\ job'.stage = job.stage /\ job'.fates = job.fates
          /\ job'.plan = job.plan /\ job'.behind = job.behind
      BY <1>1, <2>1 DEF JobOK, Job
    <2>3. UNCHANGED <<StagesLeft, Todo>>
      BY <2>2 DEF StagesLeft, Todo
    <2>. QED
      BY <1>2, <2>3, BeginNearer DEF PlanStep
  <1>3. CASE PlanStepEnds
    <2>. DEFINE through == [job EXCEPT !.behind = job.at, !.at = 0]
    <2>1. job' = through \/ job' = Ended(through, "matched")
      BY <1>3 DEF PlanStepEnds
    <2>2. JobOK(through)
      BY <1>1 DEF JobOK, Job
    <2>3. CASE job' = through
      <3>1. job.at \in 1..Len(job.plan) /\ job.at > job.behind /\ job.behind \in Nat
        <4>1. TypeRun /\ run["loop"].phase # "idle"
          BY <1>3 DEF PlanStepEnds, IInv, TypeOK
        <4>. QED
          BY <1>1, <4>1 DEF IInv, AtWork, AtAction, AtPlanStep, JobOK, Job
      <3>2. job'.stage = "planning" /\ job'.plan = job.plan /\ job'.behind = job.at
        BY <1>1, <2>3 DEF JobOK, Job
      <3>3. /\ Todo = {i \in 1..Len(job.plan) : i > job.behind}
            /\ Todo' = {i \in 1..Len(job.plan) : i > job.at}
        BY <1>1, <3>2 DEF Todo
      <3>4. Todo' \subseteq Todo /\ job.at \in Todo /\ job.at \notin Todo'
        BY <1>1, <3>1, <3>3
      <3>5. StagesLeft' = StagesLeft
        BY <1>1, <3>2 DEF StagesLeft
      <3>. QED
        BY <3>4, <3>5 DEF Nearer
    <2>4. CASE job' = Ended(through, "matched")
      <3>. HIDE DEF through
      <3>1. job'.stage = "idle"
        BY <2>2, <2>4, EndedJob DEF Result
      <3>. QED
        BY <1>1, <3>1, LaterStage
    <2>. QED
      BY <2>1, <2>3, <2>4
  <1>4. CASE PlanEnds
    <2>1. job'.stage = "idle"
      BY <1>1, <1>4, EndedJob DEF PlanEnds, Result
    <2>. QED
      BY <1>1, <2>1, LaterStage
  <1>. QED
    BY <1>2, <1>3, <1>4 DEF Carry

\* Every action takes one off what is to do, or the event to its end.
LEMMA ActNearer ==
  ASSUME IInv, Act
  PROVE  Nearer
  <1>1. /\ JobOK(job) /\ TypeRun /\ Len(job.fates) = Len(job.actions)
        /\ job.stage \in {"idle", "triage", "reasoning", "acting", "planning"}
    BY DEF IInv, TypeOK, JobOK, Job
  <1>2. ASSUME NEW i \in 1..Len(job.actions), Execute(i)
        PROVE  Nearer
    <2>1. job' = [job EXCEPT !.at = i] /\ job.at = 0
      BY <1>2 DEF Execute, IsNext
    <2>2. /\ job'.stage = job.stage /\ job'.fates = job.fates
          /\ job'.plan = job.plan /\ job'.behind = job.behind
      BY <1>1, <2>1 DEF JobOK, Job
    <2>3. UNCHANGED <<StagesLeft, Todo>>
      BY <2>2 DEF StagesLeft, Todo
    <2>. QED
      BY <1>2, <2>1, <2>3, BeginNearer DEF Execute
  <1>3. ASSUME NEW i \in 1..Len(job.actions), Skip(i) \/ Enqueue(i) \/ EnqueueDuplicate(i)
        PROVE  Nearer
    <2>1. PICK f \in {"skipped", "queued", "duplicate"} :
            job' = Met(job, i, f) \/ job' = Ended(Met(job, i, f), "error")
      BY <1>3 DEF Skip, Enqueue, EnqueueDuplicate, Met
    <2>2. IsNext(i) /\ f \in Fate
      BY <1>3 DEF Skip, Enqueue, EnqueueDuplicate, Fate
    <2>3. /\ JobOK(Met(job, i, f)) /\ Met(job, i, f).stage = job.stage
          /\ Met(job, i, f).fates = [job.fates EXCEPT ![i] = f]
      BY <1>1, <2>2, FateJob
    <2>4. CASE job' = Met(job, i, f)
      BY <1>1, <2>2, <2>3, <2>4, FewerToDo DEF IsNext
    <2>5. CASE job' = Ended(Met(job, i, f), "error")
      <3>1. job'.stage = "idle"
        BY <2>3, <2>5, EndedJob DEF Result
      <3>. QED
        BY <1>1, <2>2, <3>1, LaterStage DEF IsNext
    <2>. QED
      BY <2>1, <2>4, <2>5
  <1>4. CASE ActionEnds
    <2>1. /\ job.at \in 1..Len(job.fates) /\ job.fates[job.at] = "todo"
          /\ "ran" \in Fate \ {"todo"} /\ job.stage = "acting"
      BY <1>1, <1>4 DEF ActionEnds, IInv, AtWork, AtAction, AtPlanStep, JobOK, Job, Fate
    <2>2. PICK told :
            job' = [job EXCEPT !.at = 0, !.fates[job.at] = "ran", !.told = told]
      BY <1>4 DEF ActionEnds
    <2>3. job'.stage = job.stage /\ job'.fates = [job.fates EXCEPT ![job.at] = "ran"]
      BY <1>1, <2>2 DEF JobOK, Job
    <2>. QED
      BY <1>1, <2>1, <2>3, FewerToDo
  <1>5. CASE ActionsEnd
    <2>1. job'.stage = "idle"
      BY <1>1, <1>5, EndedJob DEF ActionsEnd, Result
    <2>. QED
      BY <1>1, <1>5, <2>1, LaterStage DEF ActionsEnd
  <1>. QED
    BY <1>2, <1>3, <1>4, <1>5 DEF Act

\* Every step of the loop brings it nearer to the end of the event.
LEMMA LoopAdvances ==
  ASSUME IInv, LoopStep
  PROVE  Nearer
  <1>1. TypeRun /\ TypeCall /\ "loop" \in Worker
    BY DispatchAssumption DEF IInv, TypeOK
  <1>2. CASE ModelStep
    <2>1. StagesLeft' = StagesLeft /\ Todo' = Todo
      BY <1>2 DEF ModelStep, StagesLeft, Todo
    <2>2. HandlingLeft' = HandlingLeft
      BY <1>2 DEF ModelStep, HandlingLeft
    <2>3. AttemptsLeft' < AttemptsLeft
      BY <1>1, <1>2, AttemptsFall DEF ModelStep
    <2>. QED
      BY <2>1, <2>2, <2>3 DEF Nearer
  <1>3. CASE Handle("loop")
    <2>. DEFINE d == config.dry \/ OwnNotification
    <2>1. d \in BOOLEAN /\ HandlerStep("loop", d) /\ UNCHANGED job
      BY <1>3 DEF Handle
    <2>. HIDE DEF d
    <2>2. StagesLeft' = StagesLeft /\ Todo' = Todo
      BY <2>1 DEF StagesLeft, Todo
    <2>3. HandlingLeft' < HandlingLeft
      BY <1>1, <2>1, HandlingFalls
    <2>. QED
      BY <2>2, <2>3 DEF Nearer
  <1>. QED
    BY <1>2, <1>3, DecideNearer, CarryNearer, ActNearer DEF LoopStep

\* Nobody beside the loop sets it back.
LEMMA OthersLeaveIt ==
  ASSUME IInv, OperatorStep \/ TaskStep \/ \E w \in Worker : ThingChanges(w)
  PROVE  UNCHANGED <<StagesLeft, Todo, HandlingLeft, AttemptsLeft>>
  <1>1. TypeRun /\ "loop" \in Worker
    BY DispatchAssumption DEF IInv, TypeOK
  <1>2. CASE OperatorStep
    <2>1. UNCHANGED <<job, call>> /\ run'["loop"] = run["loop"]
      BY <1>1, <1>2 DEF OperatorStep, Withdraw, Approve, Begin, TypeRun
    <2>. QED
      BY <2>1, Unhurried
  <1>3. ASSUME NEW task \in Worker \ {"loop"}, Handle(task)
        PROVE  UNCHANGED <<StagesLeft, Todo, HandlingLeft, AttemptsLeft>>
    <2>. DEFINE d == config.dry \/ (task = "loop" /\ OwnNotification)
    <2>1. d \in BOOLEAN /\ HandlerStep(task, d) /\ UNCHANGED <<job, call>>
      BY <1>3 DEF Handle
    <2>. HIDE DEF d
    <2>2. run'["loop"] = run["loop"]
      BY <1>1, <2>1, OtherRun
    <2>. QED
      BY <2>1, <2>2, Unhurried
  <1>4. ASSUME NEW task \in Worker \ {"loop"}, TaskEnds(task)
        PROVE  UNCHANGED <<StagesLeft, Todo, HandlingLeft, AttemptsLeft>>
    <2>1. UNCHANGED <<job, call>> /\ run'["loop"] = run["loop"]
      BY <1>1, <1>4 DEF TaskEnds, TypeRun
    <2>. QED
      BY <2>1, Unhurried
  <1>5. ASSUME NEW w \in Worker, ThingChanges(w)
        PROVE  UNCHANGED <<StagesLeft, Todo, HandlingLeft, AttemptsLeft>>
    <2>1. UNCHANGED <<job, call>> /\ ThingStep(w)
      BY <1>5 DEF ThingChanges
    <2>2. /\ run'["loop"].phase = run["loop"].phase
          /\ run'["loop"].polls = run["loop"].polls
      BY <1>1, <2>1, OtherRun, ThingBeside
    <2>. QED
      BY <2>1, <2>2, Unhurried
  <1>. QED
    BY <1>2, <1>3, <1>4, <1>5 DEF TaskStep

\* _process_one: the event the loop is at comes to its end by the loop's own steps,
\* in triage, diagnosis, dispatch and verification, whatever is approved, withdrawn
\* or done beside it.
THEOREM EventsComeToAnEnd == Spec => EventsAdvance
  <1>1. IInv /\ [Next]_vars => [EventAdvances]_vars
    BY LoopAdvances, OthersLeaveIt DEF EventAdvances
  <1>. QED
    BY <1>1, Invariance, PTL DEF Spec, EventsAdvance

\* The requests to the models, without what AtWork says of the handlers.
RequestsAnswered ==
  /\ job.stage \in {"triage", "reasoning"} => call.role = job.stage /\ call.outcome # "none"
  /\ Waiting => job.stage \in {"triage", "reasoning"}
  /\ ~OnPrimary => call.role = "reasoning" /\ FallbackToTriage

\* A request stays that of the model it was made to; only a diagnosis falls back.
LEMMA RequestKept ==
  ASSUME TypeCall, LlmStep, RequestsAnswered, UNCHANGED job
  PROVE  RequestsAnswered'
  <1>1. Waiting /\ call.role \in {"triage", "reasoning"}
    BY DEF TypeCall, LlmStep, LlmAnswers, LlmTransientError, LlmOtherError, LlmRefuses
  <1>2. \/ \E outcome \in {"answered", "unavailable", "refused"} :
             call' = [call EXCEPT !.outcome = outcome]
        \/ call' = [call EXCEPT !.attempt = @ + 1]
        \/ /\ call' = [call EXCEPT !.endpoint = "triage", !.attempt = 0]
           /\ call.role = "reasoning" /\ FallbackToTriage
    BY DEF LlmStep, LlmAnswers, LlmTransientError, LlmOtherError, LlmRefuses, GiveUp
  <1>3. /\ call'.role = call.role /\ call'.outcome # "none"
        /\ call'.endpoint = call.endpoint \/ (call.role = "reasoning" /\ FallbackToTriage)
    BY <1>1, <1>2 DEF TypeCall, Waiting
  <1>. QED
    BY <1>1, <1>3 DEF RequestsAnswered, Waiting, OnPrimary

\* A step that goes on without a model, from where none is waited for.
LEMMA NoRequest ==
  ASSUME RequestsAnswered, job'.stage \notin {"triage", "reasoning"},
         \/ call' = NoCall
         \/ UNCHANGED call /\ (job.stage \notin {"triage", "reasoning"} \/ ~Waiting)
  PROVE  RequestsAnswered'
  BY DEF RequestsAnswered, NoCall, Waiting, OnPrimary

\* A step that asks a model.
LEMMA NewRequest ==
  ASSUME NEW role \in {"triage", "reasoning"}, Ask(role), job'.stage = role
  PROVE  RequestsAnswered'
  BY DEF RequestsAnswered, Ask, Waiting, OnPrimary

\* A new event is asked about or acted on.
LEMMA ReceiveRequests ==
  ASSUME RequestsAnswered, Receive
  PROVE  RequestsAnswered'
  <1>1. ASSUME NEW entity \in Target
        PROVE  "stage" \in DOMAIN Fresh(entity)
    BY DEF Fresh
  <1>2. ASSUME NEW entity \in Target, ReceiveUnknown(entity)
        PROVE  RequestsAnswered'
    <2>1. CASE config.triage
      <3>1. Ask("triage") /\ job'.stage = "triage"
        BY <1>1, <1>2, <2>1 DEF ReceiveUnknown, Fresh
      <3>. QED
        BY <3>1, NewRequest
    <2>2. CASE ~config.triage
      <3>1. job'.stage = "idle" /\ UNCHANGED call /\ job.stage = "idle"
        BY <1>1, <1>2, <2>2, EndedStage DEF ReceiveUnknown
      <3>. QED
        BY <3>1, NoRequest
    <2>. QED
      BY <2>1, <2>2
  <1>3. ASSUME NEW entity \in Target, NEW fix \in Fix, ReceiveKnown(entity, fix)
        PROVE  RequestsAnswered'
    <2>1. PICK actions, fates :
            LET fixed == Filled(Fresh(entity), actions, fates)
            IN  \/ job' = Staged(fixed, "acting")
                \/ \E result : job' = Ended(fixed, result)
      BY <1>3 DEF ReceiveKnown, Filled, Staged
    <2>. DEFINE fixed == Filled(Fresh(entity), actions, fates)
    <2>2. "stage" \in DOMAIN fixed
      BY <1>1 DEF Filled
    <2>. HIDE DEF fixed
    <2>3. job'.stage \in {"acting", "idle"}
      BY <2>1, <2>2, EndedStage DEF Staged, fixed
    <2>. QED
      BY <1>3, <2>3, NoRequest DEF ReceiveKnown
  <1>. QED
    BY <1>2, <1>3 DEF Receive

\* Each decision is made on the answer to the request of its own stage.
LEMMA DecideRequests ==
  ASSUME IInv, RequestsAnswered, Decide
  PROVE  RequestsAnswered'
  <1>1. JobOK(job) /\ "stage" \in DOMAIN job
    BY DEF IInv, TypeOK, JobOK, Job
  <1>2. ASSUME NEW disposition, Classify(disposition)
        PROVE  RequestsAnswered'
    <2>1. \/ /\ job' = [job EXCEPT !.stage = "reasoning", !.origin = "t2"]
             /\ Ask("reasoning")
          \/ \E result : job' = Ended(job, result) /\ call' = NoCall
      BY <1>2 DEF Classify
    <2>2. \/ job'.stage = "reasoning" /\ Ask("reasoning")
          \/ job'.stage = "idle" /\ call' = NoCall
      BY <1>1, <2>1, EndedStage
    <2>. QED
      BY <2>2, NewRequest, NoRequest
  <1>3. CASE ModelRefuses
    <2>1. job'.stage = "idle" /\ ~Waiting /\ UNCHANGED call
      BY <1>1, <1>3, EndedStage DEF ModelRefuses, Waiting
    <2>. QED
      BY <2>1, NoRequest
  <1>4. ASSUME NEW d, Diagnose(d)
        PROVE  RequestsAnswered'
    <2>1. job'.stage \in {"idle", "acting", "planning"} /\ call' = NoCall
      BY <1>1, <1>4, DiagnosedStage DEF Diagnose
    <2>. QED
      BY <2>1, NoRequest
  <1>. QED
    BY <1>2, <1>3, <1>4 DEF Decide

\* No model is asked while the steps of a plan are done.
LEMMA CarryRequests ==
  ASSUME IInv, RequestsAnswered, Carry
  PROVE  RequestsAnswered'
  <1>1. /\ JobOK(job) /\ "stage" \in DOMAIN job
        /\ job.stage = "planning" /\ UNCHANGED call
    BY DEF IInv, TypeOK, JobOK, Job, Carry, PlanStep, PlanStepEnds, PlanEnds
  <1>2. job'.stage \in {"planning", "idle"}
    <2>1. ASSUME NEW i, PlanStep(i)
          PROVE  job'.stage = "planning"
      BY <1>1, <2>1 DEF PlanStep
    <2>2. CASE PlanStepEnds
      <3>. DEFINE through == [job EXCEPT !.behind = job.at, !.at = 0]
      <3>1. job' = through \/ job' = Ended(through, "matched")
        BY <2>2 DEF PlanStepEnds
      <3>2. "stage" \in DOMAIN through /\ through.stage = "planning"
        BY <1>1
      <3>. HIDE DEF through
      <3>. QED
        BY <3>1, <3>2, EndedStage
    <2>3. CASE PlanEnds
      BY <1>1, <2>3, EndedStage DEF PlanEnds
    <2>. QED
      BY <2>1, <2>2, <2>3 DEF Carry
  <1>. QED
    BY <1>1, <1>2, NoRequest

\* No model is asked while actions are done.
LEMMA ActRequests ==
  ASSUME IInv, RequestsAnswered, Act
  PROVE  RequestsAnswered'
  <1>1. JobOK(job) /\ "stage" \in DOMAIN job
    BY DEF IInv, TypeOK, JobOK, Job
  <1>2. job.stage = "acting" /\ UNCHANGED call
    BY DEF Act, Execute, Skip, Enqueue, EnqueueDuplicate, ActionEnds, ActionsEnd, IsNext
  <1>3. job'.stage \in {"acting", "idle"}
    <2>1. ASSUME NEW i, Execute(i)
          PROVE  job'.stage = "acting"
      BY <1>1, <1>2, <2>1 DEF Execute
    <2>2. ASSUME NEW i, Skip(i) \/ Enqueue(i) \/ EnqueueDuplicate(i)
          PROVE  job'.stage \in {"acting", "idle"}
      <3>1. PICK f : job' = Met(job, i, f) \/ job' = Ended(Met(job, i, f), "error")
        BY <2>2 DEF Skip, Enqueue, EnqueueDuplicate, Met
      <3>2. "stage" \in DOMAIN Met(job, i, f) /\ Met(job, i, f).stage = "acting"
        BY <1>1, <1>2 DEF Met
      <3>. QED
        BY <3>1, <3>2, EndedStage
    <2>3. CASE ActionEnds
      <3>1. PICK told :
              job' = [job EXCEPT !.at = 0, !.fates[job.at] = "ran", !.told = told]
        BY <2>3 DEF ActionEnds
      <3>. QED
        BY <1>1, <1>2, <3>1
    <2>4. CASE ActionsEnd
      BY <1>1, <2>4, EndedStage DEF ActionsEnd
    <2>. QED
      BY <2>1, <2>2, <2>3, <2>4 DEF Act
  <1>. QED
    BY <1>2, <1>3, NoRequest

\* _process_one and LLMClient.complete: the loop never waits for an answer nobody
\* was asked for, and never takes one for the answer to something else.
THEOREM LoopAwaitsAnswers == Spec => []NothingAwaitedInVain
  <1>1. Init => RequestsAnswered
    <2>1. ASSUME NEW entity \in Target
          PROVE  Fresh(entity).stage = "idle"
      BY DEF Fresh
    <2>. QED
      BY <2>1 DEF Init, RequestsAnswered, NoCall, Waiting, OnPrimary
  <1>2. ASSUME IInv, RequestsAnswered, [Next]_vars
        PROVE  RequestsAnswered'
    <2>1. CASE ModelStep
      BY <1>2, <2>1, RequestKept DEF ModelStep, IInv, TypeOK
    <2>2. CASE UNCHANGED <<job, call>>
      BY <1>2, <2>2 DEF RequestsAnswered, Waiting, OnPrimary
    <2>3. CASE \/ OperatorStep \/ TaskStep \/ Handle("loop")
               \/ (\E w \in Worker : ThingChanges(w)) \/ UNCHANGED vars
      BY <2>2, <2>3 DEF OperatorStep, Withdraw, Approve, TaskStep, TaskEnds, Handle,
           ThingChanges, vars
    <2>. QED
      BY <1>2, <2>1, <2>3, ReceiveRequests, DecideRequests, CarryRequests, ActRequests
         DEF Next, LoopStep
  <1>3. IInv /\ RequestsAnswered => NothingAwaitedInVain
    BY DEF IInv, AtWork, AtAction, AtPlanStep, RequestsAnswered, NothingAwaitedInVain
  <1>. QED
    BY <1>1, <1>2, <1>3, Invariance, PTL DEF Spec

====
