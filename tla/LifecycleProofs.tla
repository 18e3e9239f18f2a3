--------------------------- MODULE LifecycleProofs ---------------------------
(***************************************************************************)
(* The shutdown under the web application, for any adapters and any size   *)
(* of the queue.                                                           *)
(***************************************************************************)
EXTENDS Lifecycle, TLAPS

\* The parts that may still be up before a step of _shutdown.
Remaining ==
  [listener |-> Part, pending |-> Part \ {"listener"}, adapters |-> Part \ {"listener"},
   queue |-> Part \ {"listener"}, handlers |-> Part \ {"listener"},
   dispatcher |-> {"dispatcher", "metrics", "audit", "stats"},
   metrics |-> {"metrics", "audit", "stats"}, audit |-> {"audit", "stats"},
   stats |-> {"stats"}]

AdaptersStopped == \A a \in Adapter : adapter[a] = "stopped"

\* Each step of the shutdown leaves what it is for to the later ones.
IInv ==
  /\ stage \in Stage /\ flag \in BOOLEAN /\ up \subseteq Part /\ queue \in Nat
  /\ adapter \in [Adapter -> {"off", "running", "left", "stopped"}]
  /\ mode = "embedded" /\ stage \in {"starting", "running"} => flag = FALSE
  /\ stage \in DOMAIN Following => up \subseteq Remaining[stage]
  /\ stage = "queue" => AdaptersStopped
  /\ stage \in Part \ {"listener"} => AdaptersStopped /\ queue = 0
  /\ mode = "embedded" /\ stage \in {"returned", "exited"} =>
       up = {} /\ AdaptersStopped /\ queue = 0

\* Before the shutdown the invariant is about the flag only.
LEMMA RunningStep ==
  ASSUME IInv, Start \/ Signal \/ \E a \in Adapter : Restart(a)
  PROVE  IInv'
  <1>. USE DEF IInv, Stage, Following, Part
  <1>1. CASE Start
    BY <1>1 DEF Start
  <1>2. CASE Signal
    BY <1>2 DEF Signal
  <1>3. ASSUME NEW a \in Adapter, Restart(a)
        PROVE  IInv'
    BY <1>3 DEF Restart
  <1>. QED
    BY <1>1, <1>2, <1>3

\* Adapters that have been stopped neither produce nor end, and the loop takes
\* nothing from an empty queue.
LEMMA WorkStep ==
  ASSUME IInv,
         \/ \E a \in Adapter : Produce(a) \/ AdapterEnds(a)
         \/ TakeEvent \/ FinishEvent \/ LoopEnds \/ LoopFails \/ UNCHANGED vars
  PROVE  IInv'
  <1>. USE DEF IInv, AdaptersStopped
  <1>1. ASSUME NEW a \in Adapter, Produce(a)
        PROVE  IInv'
    BY <1>1 DEF Produce
  <1>2. ASSUME NEW a \in Adapter, AdapterEnds(a)
        PROVE  IInv'
    BY <1>2 DEF AdapterEnds
  <1>3. CASE TakeEvent
    BY <1>3 DEF TakeEvent
  <1>4. CASE FinishEvent \/ LoopEnds \/ LoopFails \/ UNCHANGED vars
    <2>1. UNCHANGED <<mode, stage, flag, up, adapter, queue>>
      BY <1>4 DEF FinishEvent, LoopEnds, LoopFails, vars
    <2>. QED
      BY <2>1
  <1>. QED
    BY <1>1, <1>2, <1>3, <1>4

\* The steps of the shutdown, one after the other.
LEMMA ShutdownStep ==
  ASSUME IInv, Stop \/ Shutdown
  PROVE  IInv'
  <1>. USE DEF IInv, AdaptersStopped, Stage, Following, Part
  <1>1. CASE Stop
    BY <1>1 DEF Stop, Remaining
  <1>2. CASE StopPart
    <2>1. CASE stage = "listener"
      BY <1>2, <2>1 DEF StopPart, Remaining
    <2>2. CASE stage = "handlers"
      BY <1>2, <2>2 DEF StopPart, Remaining
    <2>3. CASE stage = "dispatcher"
      BY <1>2, <2>3 DEF StopPart, Remaining
    <2>4. CASE stage = "metrics"
      BY <1>2, <2>4 DEF StopPart, Remaining
    <2>5. CASE stage = "audit"
      BY <1>2, <2>5 DEF StopPart, Remaining
    <2>6. CASE stage = "stats"
      BY <1>2, <2>6 DEF StopPart, Remaining
    <2>. QED
      BY <1>2, <2>1, <2>2, <2>3, <2>4, <2>5, <2>6 DEF StopPart
  <1>3. CASE RejectPending
    BY <1>3 DEF RejectPending, Remaining
  <1>4. CASE StopAdapters
    BY <1>4 DEF StopAdapters, Remaining
  <1>5. CASE DrainQueue
    BY <1>5 DEF DrainQueue, Remaining
  <1>6. CASE Exit
    BY <1>6 DEF Exit
  <1>. QED
    BY <1>1, <1>2, <1>3, <1>4, <1>5, <1>6 DEF Shutdown

THEOREM Invariance == Spec => []IInv
  <1>1. Init => IInv
    <2>1. ASSUME Init
          PROVE  stage \in Stage /\ stage \notin DOMAIN Following /\ stage \notin Part
      BY <2>1 DEF Init, Stage, Following, Part
    <2>2. ASSUME Init
          PROVE  adapter \in [Adapter -> {"off", "running", "left", "stopped"}]
      BY <2>2 DEF Init
    <2>. SUFFICES ASSUME Init
                  PROVE  IInv
      OBVIOUS
    <2>3. stage = "starting" /\ flag = FALSE /\ up = {} /\ queue = 0
      BY DEF Init
    <2>. QED
      BY <2>1, <2>2, <2>3 DEF IInv, Part
  <1>2. IInv /\ [Next]_vars => IInv'
    BY RunningStep, WorkStep, ShutdownStep DEF Next
  <1>. QED
    BY <1>1, <1>2, PTL DEF Spec

\* The lifespan's shutdown: when the agent has ended, everything it had started
\* is stopped and the queue is empty.
THEOREM LifespanShutsDown == Spec => []EmbeddedShutdown
  <1>1. IInv => EmbeddedShutdown
    BY DEF IInv, EmbeddedShutdown, GracefulShutdown, AdaptersStopped
  <1>. QED
    BY <1>1, Invariance, PTL

\* drain() "call after all producers have stopped": they have, and no event comes
\* into the queue behind its back.
THEOREM DrainIsLast == Spec => []DrainedForGood
  <1>1. IInv => DrainedForGood
    BY DEF IInv, DrainedForGood, AdaptersStopped, Part
  <1>. QED
    BY <1>1, Invariance, PTL
=============================================================================
