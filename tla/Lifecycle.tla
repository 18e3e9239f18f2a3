------------------------------ MODULE Lifecycle ------------------------------
(***************************************************************************)
(* The agent from its start to its end (orchestrator.py): start(), the     *)
(* event loop, the shutdown step by step: standalone, driven by run(), or  *)
(* embedded in the web application, driven by its lifespan.                *)
(***************************************************************************)
EXTENDS Integers

CONSTANTS
  Adapter,    \* the ingestion adapters
  MaxQueue    \* the events the queue holds at once

VARIABLES
  mode,      \* who drives the agent
  stage,     \* where the process stands, a step of _shutdown included
  flag,      \* _shutting_down
  loop,      \* the event loop's task
  up,        \* the parts that were started and not stopped since
  adapter,   \* the adapters and their tasks
  queue,     \* number of events in the queue
  pending,   \* whether an action waits for approval
  dropped    \* whether the shutdown timeout has dropped events

vars == <<mode, stage, flag, loop, up, adapter, queue, pending, dropped>>

Mode == {"standalone", "embedded"}

\* What is started and stopped as one, in the order _shutdown stops it.  In
\* standalone mode there is no database and hence no statistics.
Part == {"listener", "handlers", "dispatcher", "metrics", "audit", "stats"}

\* The steps of _shutdown.
Following ==
  [listener |-> "pending", pending |-> "adapters", adapters |-> "queue",
   queue |-> "handlers", handlers |-> "dispatcher", dispatcher |-> "metrics",
   metrics |-> "audit", audit |-> "stats", stats |-> "returned"]

Stage == {"starting", "running", "returned", "exited"} \union DOMAIN Following

TypeOK ==
  /\ mode \in Mode /\ stage \in Stage /\ flag \in BOOLEAN
  /\ loop \in {"off", "waiting", "busy", "ended"}
  /\ up \subseteq Part
  /\ adapter \in [Adapter -> {"off", "running", "left", "stopped"}]
  /\ queue \in 0..MaxQueue
  /\ pending \in BOOLEAN /\ dropped \in BOOLEAN

Init ==
  /\ mode \in Mode /\ stage = "starting" /\ flag = FALSE /\ loop = "off"
  /\ up = {} /\ adapter = [a \in Adapter |-> "off"]
  /\ queue = 0 /\ pending = FALSE /\ dropped = FALSE

\* A part that cannot be started is logged and left out.
Start ==
  /\ stage = "starting"
  /\ stage' = "running" /\ loop' = "waiting"
  /\ \E parts \in SUBSET Part :
       up' = IF mode = "standalone" THEN parts \ {"stats"} ELSE parts
  /\ adapter' = [a \in Adapter |-> "running"]
  /\ UNCHANGED <<mode, flag, queue, pending, dropped>>

-----------------------------------------------------------------------------
(* Adapters and the event loop                                             *)

Produce(a) ==
  /\ adapter[a] = "running" /\ queue < MaxQueue
  /\ queue' = queue + 1
  /\ UNCHANGED <<mode, stage, flag, loop, up, adapter, pending, dropped>>

\* start() returns or raises: _run_adapter ends, nobody calls stop().
AdapterEnds(a) ==
  /\ adapter[a] = "running"
  /\ adapter' = [adapter EXCEPT ![a] = "left"]
  /\ UNCHANGED <<mode, stage, flag, loop, up, queue, pending, dropped>>

\* restart_connector, from the web interface, one at a time: the old adapter is
\* stopped, a new one takes its place unless the connector has been disabled.
Restart(a) ==
  /\ mode = "embedded" /\ stage = "running"
  /\ \E new \in {"running", "stopped"} : adapter' = [adapter EXCEPT ![a] = new]
  /\ UNCHANGED <<mode, stage, flag, loop, up, queue, pending, dropped>>

\* The flag is not looked at between the wait and the event.
TakeEvent ==
  /\ loop = "waiting" /\ queue > 0
  /\ queue' = queue - 1 /\ loop' = "busy"
  /\ UNCHANGED <<mode, stage, flag, up, adapter, pending, dropped>>

FinishEvent ==
  /\ loop = "busy"
  /\ loop' = IF flag THEN "ended" ELSE "waiting"
  /\ pending' \in {pending, TRUE}
  /\ UNCHANGED <<mode, stage, flag, up, adapter, queue, dropped>>

\* The wait for an event is over after a second.
LoopEnds ==
  /\ loop = "waiting" /\ flag
  /\ loop' = "ended"
  /\ UNCHANGED <<mode, stage, flag, up, adapter, queue, pending, dropped>>

\* A database error in _expire_stale_actions ends the loop and nothing else.
LoopFails ==
  /\ mode = "embedded" /\ loop = "waiting"
  /\ loop' = "ended"
  /\ UNCHANGED <<mode, stage, flag, up, adapter, queue, pending, dropped>>

-----------------------------------------------------------------------------
(* Shutdown                                                                *)

Signal ==
  /\ mode = "standalone" /\ stage = "running"
  /\ flag' = TRUE
  /\ UNCHANGED <<mode, stage, loop, up, adapter, queue, pending, dropped>>

\* stop() is called by the lifespan, or by run() once the loop has ended.  When
\* the flag is set it returns at once.
Stop ==
  /\ stage = "running"
  /\ mode = "standalone" => loop = "ended"
  /\ flag' = TRUE
  /\ stage' = IF flag THEN "returned" ELSE "listener"
  /\ UNCHANGED <<mode, loop, up, adapter, queue, pending, dropped>>

StopPart ==
  /\ stage \in Part
  /\ up' = up \ {stage} /\ stage' = Following[stage]
  /\ UNCHANGED <<mode, flag, loop, adapter, queue, pending, dropped>>

RejectPending ==
  /\ stage = "pending" /\ stage' = Following[stage]
  /\ pending' = FALSE
  /\ UNCHANGED <<mode, flag, loop, up, adapter, queue, dropped>>

\* Every adapter is stopped and its task is awaited.
StopAdapters ==
  /\ stage = "adapters" /\ stage' = Following[stage]
  /\ adapter' = [a \in Adapter |-> "stopped"]
  /\ UNCHANGED <<mode, flag, loop, up, queue, pending, dropped>>

\* What is left is processed, beside the loop's last event, until the deadline.
DrainQueue ==
  /\ stage = "queue" /\ stage' = Following[stage]
  /\ queue' = 0 /\ dropped' \in {FALSE, queue > 0}
  /\ pending' \in {pending, queue > 0}
  /\ UNCHANGED <<mode, flag, loop, up, adapter>>

\* The loop and what else still runs is cancelled.
Exit ==
  /\ stage = "returned" /\ stage' = "exited"
  /\ loop' = "ended"
  /\ adapter' = [a \in Adapter |-> IF adapter[a] = "running" THEN "left" ELSE adapter[a]]
  /\ UNCHANGED <<mode, flag, up, queue, pending, dropped>>

Shutdown == StopPart \/ RejectPending \/ StopAdapters \/ DrainQueue \/ Exit

Next ==
  \/ Start
  \/ \E a \in Adapter : Produce(a) \/ AdapterEnds(a) \/ Restart(a)
  \/ TakeEvent \/ FinishEvent \/ LoopEnds \/ LoopFails
  \/ Signal \/ Stop \/ Shutdown

Spec == Init /\ [][Next]_vars

-----------------------------------------------------------------------------
(* Properties                                                              *)

\* An agent that has ended has stopped everything it had started, and no event
\* was left in the queue: what the orchestrator promises for a signal.
GracefulShutdown ==
  stage = "exited" =>
    /\ up = {}
    /\ \A a \in Adapter : adapter[a] = "stopped"
    /\ queue = 0

\* The lifespan's shutdown is such a one.
EmbeddedShutdown == mode = "embedded" => GracefulShutdown

\* The queue is drained after all producers have stopped, as drain() asks, and
\* nothing enters it any more.
DrainedForGood ==
  stage \in {"handlers", "dispatcher", "metrics", "audit", "stats"} =>
    queue = 0 /\ \A a \in Adapter : adapter[a] = "stopped"
=============================================================================
