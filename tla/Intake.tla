------------------------------- MODULE Intake -------------------------------
(***************************************************************************)
(* The gates an event passes in Orchestrator._process_one before anything  *)
(* is decided about it: its TTL, the suppression of repeated reports, and  *)
(* the correlation with a recent event of the same system.  Each gate has  *)
(* a memory of its own and drops what it stops.                            *)
(*                                                                         *)
(* The gates are one step: there is no await between them.  The audit or   *)
(* decision behind them awaits, and while run_loop is still inside its     *)
(* last event, _shutdown drains the queue through the same gates.          *)
(***************************************************************************)
EXTENDS Naturals, FiniteSets

CONSTANTS
  Entity,      \* monitored entities
  Failure,     \* event types that report a failure
  Recovered,   \* an event type with a recovery suffix
  System,      \* systems that entities belong to
  SystemOf,    \* SystemOf[e]: the system of entity e
  Threshold,   \* agent.max_consecutive_identical
  Window,      \* agent.correlation_window; 0 disables correlation
  MaxEvents,   \* bound on events
  MaxTime      \* bound on the clock

Type == Failure \union {Recovered}
Worker == {"loop", "drain"}
Id == 1..MaxEvents          \* events, numbered as they are taken
NoEvent == 0

ASSUME IntakeAssumption ==
  /\ Recovered \notin Failure
  /\ SystemOf \in [Entity -> System]
  /\ Threshold \in Nat \ {0} /\ Window \in Nat
  /\ MaxEvents \in Nat /\ MaxTime \in Nat

VARIABLES
  now,        \* the clock
  stopping,   \* _shutting_down
  looping,    \* run_loop has not seen _shutting_down yet
  count,      \* _counts of the suppression tracker
  group,      \* _groups of the correlator
  hand,       \* the event with which a worker is past the gates
  processed,  \* _events_processed
  errors,     \* _errors
  taken,      \* history: how many events were taken from the queue
  log         \* history: what the gates made of each of them

memory == <<count, group>>
tally == <<processed, errors>>
vars == <<now, stopping, looping, count, group, hand, processed, errors, taken, log>>

-----------------------------------------------------------------------------
NoGroup == [leader |-> NoEvent, start |-> 0]
Group == [leader : Id \union {NoEvent}, start : 0..MaxTime]

Fate == {"expired", "suppressed", "correlated", "led"}
Entry == [entity : Entity, type : Type, at : 0..MaxTime, fate : Fate,
          leader : Id \union {NoEvent}]

\* The types, and the discipline of the workers: only a loop that has not
\* left, and a drain that has begun, have an event in hand.
TypeOK ==
  /\ now \in 0..MaxTime
  /\ stopping \in BOOLEAN /\ looping \in BOOLEAN
  /\ count \in [Entity -> [Failure -> Nat]]
  /\ group \in [System -> Group]
  /\ hand \in [Worker -> Id \union {NoEvent}]
  /\ processed \in Nat /\ errors \in Nat
  /\ taken \in 0..MaxEvents
  /\ log \in [1..taken -> Entry]
  /\ \A w \in Worker : hand[w] <= taken
  /\ hand["loop"] # NoEvent \/ ~stopping => looping
  /\ hand["drain"] # NoEvent => stopping

-----------------------------------------------------------------------------
(* The gates                                                               *)

\* MUTANT: the counters of the other event types are kept.
Counted_KeepsOthers(e, t) ==
  [count EXCEPT ![e] =
     [f \in Failure |-> IF t = Recovered THEN 0
                        ELSE IF f = t THEN @[f] + 1 ELSE @[f]]]

\* EventSuppressionTracker.check: a recovery clears the entity's counters, a
\* failure all but its own, which it increments.
Counted(e, t) ==
  [count EXCEPT ![e] = [f \in Failure |-> IF f = t THEN @[f] + 1 ELSE 0]]

\* "After threshold consecutive identical events the tracker suppresses".
Repeated(e, t) == t # Recovered /\ Counted(e, t)[e][t] > Threshold

\* MUTANT: a group that is as old as the window is pruned already.
Open_Early(s) == group[s].leader # NoEvent /\ now - group[s].start < Window

\* A group of the correlator whose window has not elapsed.
Open(s) == group[s].leader # NoEvent /\ now - group[s].start <= Window

\* _prune_expired, and disabled altogether by a window of 0.
Pruned == [s \in System |-> IF Window > 0 /\ Open(s) THEN group[s] ELSE NoGroup]

-----------------------------------------------------------------------------
(* Taking an event.  run_loop checks _shutting_down only between events:   *)
(* stopped while it waits in get(), it may still take one.                 *)

\* MUTANT: run_loop does not check _shutting_down.
Takes_Unchecked(w) ==
  /\ hand[w] = NoEvent
  /\ taken < MaxEvents
  /\ w = "drain" => stopping

Takes(w) ==
  /\ hand[w] = NoEvent
  /\ taken < MaxEvents
  /\ IF w = "drain" THEN stopping ELSE looping

\* The worker is through with its event.
Turn(w) == looping' = IF w = "loop" THEN ~stopping ELSE looping

Entered(e, t, fate, leader) ==
  /\ taken' = taken + 1
  /\ log' = [i \in 1..(taken + 1) |->
               IF i <= taken THEN log[i]
               ELSE [entity |-> e, type |-> t, at |-> now, fate |-> fate,
                     leader |-> leader]]

\* 1. The event waited in the queue for longer than its TTL.
Expire(w, e, t) ==
  /\ Takes(w)
  /\ Entered(e, t, "expired", NoEvent)
  /\ Turn(w)
  /\ UNCHANGED <<now, stopping, memory, hand, tally>>

\* The event is past the TTL gate, and its fate is audited or decided.
Past(w, e, t, fate, leader) ==
  /\ Takes(w)
  /\ Entered(e, t, fate, leader)
  /\ count' = Counted(e, t)
  /\ hand' = [hand EXCEPT ![w] = taken + 1]
  /\ UNCHANGED <<now, stopping, looping, tally>>

\* 1b. Repeated reports never reach the correlator.
Suppress(w, e, t) ==
  /\ Repeated(e, t)
  /\ Past(w, e, t, "suppressed", NoEvent)
  /\ UNCHANGED group

\* MUTANT: a follower restarts the window of its group.
Follow_Slides(w, e, t) ==
  LET s == SystemOf[e] IN
  /\ ~Repeated(e, t)
  /\ Pruned[s] # NoGroup
  /\ Past(w, e, t, "correlated", group[s].leader)
  /\ group' = [Pruned EXCEPT ![s].start = now]

\* 2. An active group: the event is audited as correlated and dropped.
Follow(w, e, t) ==
  LET s == SystemOf[e] IN
  /\ ~Repeated(e, t)
  /\ Pruned[s] # NoGroup
  /\ Past(w, e, t, "correlated", group[s].leader)
  /\ group' = Pruned

\* 2. No active group: the event leads a new one and goes to the decision.
Lead(w, e, t) ==
  LET s == SystemOf[e] IN
  /\ ~Repeated(e, t)
  /\ Pruned[s] = NoGroup
  /\ Past(w, e, t, "led", taken + 1)
  /\ group' = IF Window = 0 THEN Pruned
              ELSE [Pruned EXCEPT ![s] = [leader |-> taken + 1, start |-> now]]

-----------------------------------------------------------------------------
\* MUTANT: an exception after the count is counted as well.
Finish_Twice(w) ==
  /\ hand[w] # NoEvent
  /\ hand' = [hand EXCEPT ![w] = NoEvent]
  /\ Turn(w)
  /\ processed' = processed + 1
  /\ errors' \in {errors, errors + 1}
  /\ UNCHANGED <<now, stopping, memory, taken, log>>

\* The audit of a suppressed event may raise, that of a follower may not; a
\* leader is decided and dispatched, or an exception is caught ("one failure
\* never kills the loop").
Finish(w) ==
  /\ hand[w] # NoEvent
  /\ hand' = [hand EXCEPT ![w] = NoEvent]
  /\ Turn(w)
  /\ LET fate == log[hand[w]].fate IN
     \/ fate = "suppressed" /\ UNCHANGED tally
     \/ fate # "suppressed" /\ processed' = processed + 1 /\ UNCHANGED errors
     \/ fate # "correlated" /\ errors' = errors + 1 /\ UNCHANGED processed
  /\ UNCHANGED <<now, stopping, memory, taken, log>>

\* get() timed out.
Timeout ==
  /\ hand["loop"] = NoEvent
  /\ stopping /\ looping
  /\ looping' = FALSE
  /\ UNCHANGED <<now, stopping, memory, hand, tally, taken, log>>

\* stop()
Stop ==
  /\ ~stopping
  /\ stopping' = TRUE
  /\ UNCHANGED <<now, looping, memory, hand, tally, taken, log>>

Tick ==
  /\ now < MaxTime
  /\ now' = now + 1
  /\ UNCHANGED <<stopping, looping, memory, hand, tally, taken, log>>

-----------------------------------------------------------------------------
Init ==
  /\ now = 0
  /\ stopping = FALSE /\ looping = TRUE
  /\ count = [e \in Entity |-> [f \in Failure |-> 0]]
  /\ group = [s \in System |-> NoGroup]
  /\ hand = [w \in Worker |-> NoEvent]
  /\ processed = 0 /\ errors = 0
  /\ taken = 0
  /\ log = [i \in 1..0 |-> NoEvent]

Receive(w, e, t) ==
  Expire(w, e, t) \/ Suppress(w, e, t) \/ Follow(w, e, t) \/ Lead(w, e, t)

Next ==
  \/ \E w \in Worker : Finish(w) \/ \E e \in Entity, t \in Type : Receive(w, e, t)
  \/ Timeout \/ Stop \/ Tick

Spec == Init /\ [][Next]_vars

-----------------------------------------------------------------------------
(* Properties                                                              *)

\* What became of the events of a system or of an entity.
Led(s) == {i \in 1..taken : log[i].fate = "led" /\ SystemOf[log[i].entity] = s}

\* A dropped follower belongs to an earlier event of its system that went to
\* the decision at most Window before it, however many followers there were
\* and whatever was pruned in between (EventCorrelator.check).
FollowersHaveALeader ==
  \A i \in 1..taken : log[i].fate = "correlated" =>
    /\ log[i].leader \in Led(SystemOf[log[i].entity])
    /\ log[i].leader < i
    /\ log[i].at - log[log[i].leader].at <= Window

\* "The correlator ensures only the first event (the leader) is processed
\* through the decision engine": two leaders of a system are more than
\* Window apart, also when loop and drain interleave.
OneLeaderPerWindow ==
  Window > 0 =>
    \A s \in System : \A i, j \in Led(s) :
      i < j => log[j].at - log[i].at > Window

\* The reports of one failure of an entity up to event i, unbroken by
\* another event of that entity.  Expired events are not seen.
Seen(e) == {k \in 1..taken : log[k].entity = e /\ log[k].fate # "expired"}
Streak(i) ==
  {k \in Seen(log[i].entity) :
     k < i /\ \A j \in Seen(log[i].entity) : j \in k..(i - 1) =>
                log[j].type = log[i].type}

\* An event is suppressed if and only if Threshold reports of the same
\* failure of its entity came directly before it: never the first reports
\* after another event, never a recovery, and never a report too late
\* (EventSuppressionTracker.check).
SuppressionIsExact ==
  \A i \in 1..taken : log[i].fate # "expired" =>
    (log[i].fate = "suppressed" <=>
       log[i].type # Recovered /\ Cardinality(Streak(i)) >= Threshold)

\* The events with one of the fates that no worker has in hand any more.
Held == {hand[w] : w \in Worker} \ {NoEvent}
Through(fates) == {i \in 1..taken : log[i].fate \in fates} \ Held

\* Each event that reached the correlator is counted, as processed or as an
\* error, never as both and not before its decision ended, whatever the other
\* worker does meanwhile; only a suppressed event that could not be audited
\* adds an error of its own (_process_one).
CountedOnce ==
  LET done == Cardinality(Through({"correlated", "led"}))
      unaudited == Cardinality(Through({"suppressed"})) IN
  /\ processed <= done
  /\ processed + errors \in done..(done + unaudited)

-----------------------------------------------------------------------------
(* The inductive invariant                                                 *)

\* Events are logged in the order of the clock.
Chronological ==
  \A i \in 1..taken :
    /\ log[i].at <= now
    /\ \A j \in 1..taken : i <= j => log[i].at <= log[j].at

\* A group is the last leader of its system.
GroupIsLastLeader ==
  \A s \in System : group[s].leader # NoEvent =>
    /\ group[s].leader \in Led(s)
    /\ log[group[s].leader].at = group[s].start
    /\ \A i \in Led(s) : i <= group[s].leader

\* A leader whose group is gone is older than the window.
PrunedLeadersAged ==
  Window > 0 =>
    \A s \in System : group[s].leader = NoEvent =>
      \A i \in Led(s) : now - log[i].at > Window

\* The reports of failure f that are the last ones of entity e.
Trail(e, f) ==
  {k \in Seen(e) : \A j \in Seen(e) : k <= j => log[j].type = f}

\* The tracker counts the trail of every failure.
CountIsTrail ==
  \A e \in Entity, f \in Failure : count[e][f] = Cardinality(Trail(e, f))

\* The workers have different events in hand, and none that expired.
HandsApart ==
  /\ hand["loop"] = hand["drain"] => hand["loop"] = NoEvent
  /\ \A w \in Worker : hand[w] # NoEvent => log[hand[w]].fate # "expired"

IInv ==
  /\ TypeOK /\ Chronological
  /\ GroupIsLastLeader /\ PrunedLeadersAged
  /\ FollowersHaveALeader /\ OneLeaderPerWindow
  /\ CountIsTrail /\ SuppressionIsExact
=============================================================================
