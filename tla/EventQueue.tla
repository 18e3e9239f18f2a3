----------------------------- MODULE EventQueue -----------------------------
(***************************************************************************)
(* The queue between the ingestion adapters and the event loop             *)
(* (engine/queue.py): bounded, with a window in which events of the same   *)
(* dedup key are dropped, and a capacity warning with hysteresis.          *)
(*                                                                         *)
(* Everything but a blocked put() happens without an await, so each call   *)
(* is one step.  An event is represented by its dedup key.                 *)
(***************************************************************************)
EXTENDS Integers, Sequences

CONSTANTS
  Key,             \* dedup keys
  NoKey,           \* the event has no dedup key
  Putter,          \* callers of the blocking put()
  Never,           \* no such time, no such event
  MaxSize,         \* event_queue_size
  Window,          \* dedup_window_seconds; 0 switches the dedup off
  PruneInterval,   \* _PRUNE_INTERVAL_SECONDS
  MaxTime          \* bound on the clock

Event == Key \union {NoKey}
Time  == 0..MaxTime

ASSUME QueueAssumption ==
  /\ NoKey \notin Key /\ Never \notin Key \union {NoKey} /\ Never \notin Nat
  /\ MaxSize \in Nat \ {0}
  /\ Window \in Nat /\ PruneInterval \in Nat /\ MaxTime \in Nat

VARIABLES
  now,        \* the monotonic clock
  queue,      \* what asyncio.Queue holds
  blocked,    \* the event each put() waits with, Never if it does not wait
  seen,       \* the _seen dict: when a key was last recorded
  lastPrune,  \* _last_prune
  warning,    \* _capacity_warning_active
  drained,    \* drain() was called: the queue is not used any more
  accepted    \* when an event with the key last entered the queue

vars == <<now, queue, blocked, seen, lastPrune, warning, drained, accepted>>

TypeOK ==
  /\ now \in Time
  /\ queue \in Seq(Event) /\ Len(queue) <= MaxSize
  /\ blocked \in [Putter -> Event \union {Never}]
  /\ seen \in [Key -> Time \union {Never}]
  /\ lastPrune \in Time
  /\ warning \in BOOLEAN /\ drained \in BOOLEAN
  /\ accepted \in [Key -> Time \union {Never}]

-----------------------------------------------------------------------------
(* Deduplication                                                           *)

\* Less than a window ago.
Recent(t) == t # Never /\ now - t < Window

\* MUTANT: one prune interval too early.
Pruned_Early ==
  [k \in Key |-> IF seen[k] # Never /\ seen[k] < now - Window + PruneInterval
                 THEN Never ELSE seen[k]]

\* The entries that survive a pruning at this moment.
Pruned ==
  [k \in Key |-> IF seen[k] # Never /\ seen[k] < now - Window
                 THEN Never ELSE seen[k]]

\* _is_duplicate, the part that changes state: with the dedup on and a key
\* to look up, _maybe_prune runs first.  The result is what `seen` becomes
\* before the event itself is recorded.
PruneDue(e) ==
  Window > 0 /\ e # NoKey /\ now - lastPrune >= PruneInterval
Looked(e) == IF PruneDue(e) THEN Pruned ELSE seen
Look(e) == lastPrune' = IF PruneDue(e) THEN now ELSE lastPrune

IsDuplicate(e) == Window > 0 /\ e # NoKey /\ Recent(Looked(e)[e])

-----------------------------------------------------------------------------
(* Capacity monitoring                                                     *)

HighWater(size) == 10 * size >= 8 * MaxSize     \* _WARN_THRESHOLD
LowWater(size)  == 10 * size <= 5 * MaxSize     \* _RECOVER_THRESHOLD

IsFull_Above == Len(queue) > MaxSize     \* MUTANT: off by one
IsFull == Len(queue) >= MaxSize

\* The event enters: _queue.put_nowait, _record_seen, _check_capacity.
Enter(e, cache) ==
  /\ queue' = Append(queue, e)
  /\ seen' = IF Window > 0 /\ e # NoKey THEN [cache EXCEPT ![e] = now]
             ELSE cache
  /\ accepted' = IF e = NoKey THEN accepted ELSE [accepted EXCEPT ![e] = now]
  /\ warning' = (warning \/ HighWater(Len(queue) + 1))

-----------------------------------------------------------------------------
(* The operations                                                          *)

\* A duplicate is dropped by put() and put_nowait() alike; a full queue makes
\* put_nowait() raise.  Either may have pruned.
Refuse(e) ==
  /\ ~drained
  /\ IsDuplicate(e) \/ IsFull
  /\ Look(e)
  /\ seen' = Looked(e)
  /\ UNCHANGED <<now, queue, blocked, warning, drained, accepted>>

\* put_nowait(), or a put() that finds room.
Put(e) ==
  /\ ~drained
  /\ ~IsDuplicate(e) /\ ~IsFull
  /\ Look(e)
  /\ Enter(e, Looked(e))
  /\ UNCHANGED <<now, blocked, drained>>

\* put() on a full queue.
BlockPut(p, e) ==
  /\ ~drained
  /\ blocked[p] = Never
  /\ ~IsDuplicate(e) /\ IsFull
  /\ Look(e)
  /\ seen' = Looked(e)
  /\ blocked' = [blocked EXCEPT ![p] = e]
  /\ UNCHANGED <<now, queue, warning, drained, accepted>>

\* asyncio.Queue wakes a blocked put(): it enters unless others filled the
\* queue again.  The duplicate check is not repeated.
FinishPut(p) ==
  /\ blocked[p] # Never
  /\ ~IsFull
  /\ Enter(blocked[p], seen)
  /\ blocked' = [blocked EXCEPT ![p] = Never]
  /\ UNCHANGED <<now, lastPrune, drained>>

\* MUTANT: the warning is never reset.
Get_NoRecovery ==
  /\ ~drained
  /\ queue # <<>>
  /\ queue' = Tail(queue)
  /\ UNCHANGED <<now, blocked, seen, lastPrune, warning, drained, accepted>>

\* get() and _check_capacity_recovery.
Get ==
  /\ ~drained
  /\ queue # <<>>
  /\ queue' = Tail(queue)
  /\ warning' = (warning /\ ~LowWater(Len(queue) - 1))
  /\ UNCHANGED <<now, blocked, seen, lastPrune, drained, accepted>>

\* drain(): "Call after all producers have stopped."
Drain ==
  /\ ~drained
  /\ drained' = TRUE
  /\ queue' = <<>>
  /\ UNCHANGED <<now, blocked, seen, lastPrune, warning, accepted>>

Tick ==
  /\ now < MaxTime
  /\ now' = now + 1
  /\ UNCHANGED <<queue, blocked, seen, lastPrune, warning, drained, accepted>>

Init ==
  /\ now = 0 /\ lastPrune = 0
  /\ queue = <<>>
  /\ blocked = [p \in Putter |-> Never]
  /\ seen = [k \in Key |-> Never]
  /\ warning = FALSE /\ drained = FALSE
  /\ accepted = seen

Next ==
  \/ \E e \in Event : Put(e) \/ Refuse(e)
  \/ \E p \in Putter : FinishPut(p) \/ \E e \in Event : BlockPut(p, e)
  \/ Get \/ Drain \/ Tick

Spec == Init /\ [][Next]_vars

-----------------------------------------------------------------------------
(* Properties                                                              *)

\* Pruning is invisible: at any moment the dict answers the question "was
\* this key accepted less than a window ago" exactly, whatever was pruned and
\* whenever (_maybe_prune, _record_seen).
DictRemembersTheWindow ==
  Window > 0 => \A k \in Key :
    /\ Recent(seen[k]) <=> Recent(accepted[k])
    /\ Recent(Pruned[k]) <=> Recent(accepted[k])

\* "Events with the same metadata.dedup_key within this window are silently
\* dropped": no event enters within a window of one with its key.  The check of
\* put() is made before it waits for a place and not repeated after, so the
\* code does not keep this (the run event_queue_window); drain(), which is not
\* to be called while producers are at work, is left out of it.
NoDuplicateEnters ==
  Window > 0 /\ ~drained =>
    \A k \in Key : ~(queue' = Append(queue, k) /\ Recent(accepted[k]))
WindowHolds == [][NoDuplicateEnters]_vars

\* What the code does keep: the put() that waited is the only way in for a
\* duplicate, and it brings in the event it waited with.
DuplicatesHaveWaited ==
  Window > 0 => \A k \in Key :
    queue' = Append(queue, k) /\ Recent(accepted[k]) =>
      \E p \in Putter : blocked[p] = k /\ blocked'[p] = Never
OnlyWaitersSlipIn == [][DuplicatesHaveWaited]_vars

\* The warning is the hysteresis its comment describes: on from 80% until
\* the queue is down to 50%, off below, never late (_check_capacity and
\* _check_capacity_recovery, called at different places).
WarningIsHysteresis ==
  /\ ~warning => ~HighWater(Len(queue))
  /\ warning /\ ~drained => ~LowWater(Len(queue))

-----------------------------------------------------------------------------
(* The inductive invariant behind DictRemembersTheWindow                   *)

\* An entry of the dict is exact; one that is missing is out of the window.
DictIsExact ==
  /\ \A k \in Key : accepted[k] # Never => accepted[k] <= now
  /\ Window > 0 => \A k \in Key :
       /\ seen[k] # Never => seen[k] = accepted[k]
       /\ seen[k] = Never /\ accepted[k] # Never => now - accepted[k] > Window

IInv == TypeOK /\ DictIsExact /\ WarningIsHysteresis

=============================================================================
