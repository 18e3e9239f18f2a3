-------------------------- MODULE EventQueueProofs --------------------------
(***************************************************************************)
(* The dedup window and the capacity warning of EventQueue, for queues and *)
(* windows of any size.                                                    *)
(***************************************************************************)
EXTENDS EventQueue, TLAPS

\* A key that the dict lost, or that a pruning now would drop, is older than
\* the window.
LEMMA PrunedExact ==
  ASSUME TypeOK, DictIsExact, Window > 0, NEW k \in Key
  PROVE  /\ Pruned[k] # Never => Pruned[k] = accepted[k]
         /\ Pruned[k] = Never /\ accepted[k] # Never =>
              now - accepted[k] > Window
  BY QueueAssumption DEF TypeOK, DictIsExact, Pruned, Time

\* What a lookup leaves of the dict is as exact as the dict.
LEMMA LookedExact ==
  ASSUME TypeOK, DictIsExact, NEW e \in Event
  PROVE  /\ Looked(e) \in [Key -> Time \union {Never}]
         /\ Window > 0 => \A k \in Key :
              /\ Looked(e)[k] # Never => Looked(e)[k] = accepted[k]
              /\ Looked(e)[k] = Never /\ accepted[k] # Never =>
                   now - accepted[k] > Window
  <1>1. Pruned \in [Key -> Time \union {Never}]
    BY DEF TypeOK, Pruned
  <1>2. CASE PruneDue(e)
    BY <1>1, <1>2, PrunedExact DEF Looked, PruneDue
  <1>3. CASE ~PruneDue(e)
    BY <1>3 DEF Looked, TypeOK, DictIsExact
  <1>. QED
    BY <1>2, <1>3

\* An event that enters is recorded exactly, whatever dict the lookup left.
LEMMA EnterExact ==
  ASSUME TypeOK, DictIsExact, NEW e \in Event, ~IsFull,
         NEW cache \in [Key -> Time \union {Never}],
         Window > 0 => \A k \in Key :
           /\ cache[k] # Never => cache[k] = accepted[k]
           /\ cache[k] = Never /\ accepted[k] # Never =>
                now - accepted[k] > Window,
         Enter(e, cache), now' = now
  PROVE  /\ queue' \in Seq(Event) /\ Len(queue') = Len(queue) + 1
         /\ Len(queue') <= MaxSize
         /\ seen' \in [Key -> Time \union {Never}]
         /\ accepted' \in [Key -> Time \union {Never}]
         /\ warning' \in BOOLEAN
         /\ DictIsExact'
  <1> USE QueueAssumption DEF TypeOK, Time, Event
  <1>1. /\ queue' \in Seq(Event) /\ Len(queue') = Len(queue) + 1
        /\ Len(queue') <= MaxSize /\ warning' \in BOOLEAN
    BY DEF Enter, IsFull, HighWater
  <1>2. /\ seen' \in [Key -> Time \union {Never}]
        /\ accepted' \in [Key -> Time \union {Never}]
    BY DEF Enter
  <1>3. DictIsExact'
    BY DEF Enter, DictIsExact
  <1>. QED
    BY <1>1, <1>2, <1>3

\* Entering keeps the hysteresis: the thresholds do not overlap.
LEMMA EnterWarns ==
  ASSUME TypeOK, WarningIsHysteresis, NEW e, NEW cache, Enter(e, cache),
         Len(queue') = Len(queue) + 1, drained' = drained
  PROVE  WarningIsHysteresis'
  <1>1. Len(queue) \in Nat /\ MaxSize \in Nat /\ MaxSize > 0
    BY QueueAssumption DEF TypeOK
  <1>2. warning' <=> warning \/ HighWater(Len(queue) + 1)
    BY DEF Enter
  <1>3. HighWater(Len(queue) + 1) => ~LowWater(Len(queue) + 1)
    BY <1>1 DEF HighWater, LowWater
  <1>4. ~LowWater(Len(queue)) => ~LowWater(Len(queue) + 1)
    BY <1>1 DEF LowWater
  <1>. QED
    BY <1>2, <1>3, <1>4 DEF WarningIsHysteresis

\* The inductive invariant holds of an empty queue.
LEMMA InvInit == Init => IInv
  <1> SUFFICES ASSUME Init PROVE IInv
    OBVIOUS
  <1>1. TypeOK
    <2>1. 0 \in Time
      BY QueueAssumption DEF Time
    <2>2. queue \in Seq(Event) /\ Len(queue) <= MaxSize
      BY QueueAssumption DEF Init
    <2>3. /\ seen \in [Key -> Time \union {Never}]
          /\ accepted \in [Key -> Time \union {Never}]
          /\ blocked \in [Putter -> Event \union {Never}]
      BY DEF Init
    <2>. QED
      BY <2>1, <2>2, <2>3 DEF Init, TypeOK
  <1>2. DictIsExact
    BY DEF Init, DictIsExact
  <1>3. ~HighWater(Len(queue)) /\ ~warning
    BY QueueAssumption DEF Init, HighWater
  <1>. QED
    BY <1>1, <1>2, <1>3 DEF IInv, WarningIsHysteresis

\* Every operation keeps the inductive invariant.
LEMMA InvStep == IInv /\ [Next]_vars => IInv'
  <1> SUFFICES ASSUME IInv, [Next]_vars PROVE IInv'
    OBVIOUS
  <1>0. TypeOK /\ DictIsExact /\ WarningIsHysteresis
    BY DEF IInv
  <1> USE QueueAssumption, <1>0 DEF IInv, TypeOK, Time
  <1>1. ASSUME NEW e \in Event, Put(e) PROVE IInv'
    <2>1. /\ queue' \in Seq(Event) /\ Len(queue') = Len(queue) + 1
          /\ Len(queue') <= MaxSize
          /\ seen' \in [Key -> Time \union {Never}]
          /\ accepted' \in [Key -> Time \union {Never}]
          /\ warning' \in BOOLEAN
          /\ DictIsExact'
      BY <1>1, LookedExact, EnterExact DEF Put
    <2>2. WarningIsHysteresis'
      BY <1>1, <2>1, EnterWarns DEF Put
    <2>. QED
      BY <1>1, <2>1, <2>2 DEF Put, Look
  <1>2. ASSUME NEW e \in Event, Refuse(e) PROVE IInv'
    <2>1. DictIsExact' /\ seen' \in [Key -> Time \union {Never}]
      BY <1>2, LookedExact DEF Refuse, DictIsExact
    <2>. QED
      BY <1>2, <2>1 DEF Refuse, Look, WarningIsHysteresis
  <1>3. ASSUME NEW p \in Putter, NEW e \in Event, BlockPut(p, e) PROVE IInv'
    <2>1. DictIsExact' /\ seen' \in [Key -> Time \union {Never}]
      BY <1>3, LookedExact DEF BlockPut, DictIsExact
    <2>. QED
      BY <1>3, <2>1 DEF BlockPut, Look, WarningIsHysteresis
  <1>4. ASSUME NEW p \in Putter, FinishPut(p) PROVE IInv'
    <2>1. blocked[p] \in Event
      BY <1>4 DEF FinishPut
    <2>2. /\ queue' \in Seq(Event) /\ Len(queue') = Len(queue) + 1
          /\ Len(queue') <= MaxSize
          /\ seen' \in [Key -> Time \union {Never}]
          /\ accepted' \in [Key -> Time \union {Never}]
          /\ warning' \in BOOLEAN
          /\ DictIsExact'
      BY <1>4, <2>1, EnterExact DEF FinishPut, DictIsExact
    <2>3. WarningIsHysteresis'
      BY <1>4, <2>2, EnterWarns DEF FinishPut
    <2>. QED
      BY <1>4, <2>2, <2>3 DEF FinishPut
  <1>5. CASE Get
    <2>1. queue' \in Seq(Event) /\ Len(queue') = Len(queue) - 1
      BY <1>5 DEF Get
    <2>2. WarningIsHysteresis'
      BY <1>5, <2>1 DEF Get, WarningIsHysteresis, HighWater, LowWater
    <2>. QED
      BY <1>5, <2>1, <2>2 DEF Get, DictIsExact
  <1>6. CASE Drain
    BY <1>6 DEF Drain, DictIsExact, WarningIsHysteresis, HighWater, LowWater
  <1>7. CASE Tick
    BY <1>7 DEF Tick, DictIsExact, WarningIsHysteresis
  <1>8. CASE UNCHANGED vars
    BY <1>8 DEF vars, DictIsExact, WarningIsHysteresis
  <1>. QED
    BY <1>1, <1>2, <1>3, <1>4, <1>5, <1>6, <1>7, <1>8 DEF Next

\* IInv holds of every reachable state.
THEOREM InvHolds == Spec => []IInv
  BY InvInit, InvStep, PTL DEF Spec

\* The queue stays within event_queue_size, also with blocked producers that
\* are woken late.
THEOREM TypeCorrect == Spec => []TypeOK
  BY InvHolds, PTL DEF IInv

\* For every window, prune interval and timing, the pruned dict answers as
\* an unpruned one would (_is_duplicate, _maybe_prune, _record_seen).
THEOREM WindowIsRemembered == Spec => []DictRemembersTheWindow
  <1>1. IInv => DictRemembersTheWindow
    <2> SUFFICES ASSUME IInv, Window > 0, NEW k \in Key
                 PROVE  /\ Recent(seen[k]) <=> Recent(accepted[k])
                        /\ Recent(Pruned[k]) <=> Recent(accepted[k])
      BY DEF DictRemembersTheWindow
    <2>1. TypeOK /\ DictIsExact
      BY DEF IInv
    <2>2. Recent(seen[k]) <=> Recent(accepted[k])
      BY <2>1, QueueAssumption DEF TypeOK, DictIsExact, Recent, Time
    <2>3. Recent(Pruned[k]) <=> Recent(accepted[k])
      BY <2>1, PrunedExact, QueueAssumption DEF TypeOK, Recent, Time
    <2>. QED
      BY <2>2, <2>3
  <1>. QED
    BY InvHolds, <1>1, PTL

\* The capacity warning is a hysteresis between 80% and 50%.
THEOREM WarningIsRight == Spec => []WarningIsHysteresis
  BY InvHolds, PTL DEF IInv

\* Only an event that waited in put() can enter within the window of another
\* one with its key.
LEMMA WaitersStep == IInv /\ [Next]_vars => DuplicatesHaveWaited
  <1> SUFFICES ASSUME IInv, [Next]_vars, Window > 0, NEW k \in Key,
                      queue' = Append(queue, k), Recent(accepted[k])
               PROVE  \E p \in Putter : blocked[p] = k /\ blocked'[p] = Never
    BY DEF DuplicatesHaveWaited
  <1>0. TypeOK /\ DictIsExact
    BY DEF IInv
  <1>1. k \in Event /\ k # NoKey
    BY QueueAssumption DEF Event
  <1>2. Len(queue') = Len(queue) + 1 /\ queue'[Len(queue) + 1] = k
    BY <1>0, <1>1 DEF TypeOK
  <1>3. ASSUME NEW e \in Event, Put(e) PROVE FALSE
    <2>1. e = k
      BY <1>0, <1>2, <1>3 DEF Put, Enter, TypeOK
    <2>2. Recent(Looked(k)[k])
      BY <1>0, <1>1, LookedExact, QueueAssumption DEF Recent, TypeOK, Time
    <2>. QED
      BY <1>1, <1>3, <2>1, <2>2 DEF Put, IsDuplicate
  <1>4. ASSUME NEW p \in Putter, FinishPut(p)
        PROVE  blocked[p] = k /\ blocked'[p] = Never
    BY <1>0, <1>2, <1>4 DEF FinishPut, Enter, TypeOK
  <1>5. CASE \E p \in Putter : FinishPut(p)
    BY <1>4, <1>5
  <1>6. CASE Len(queue') # Len(queue) + 1
    BY <1>2, <1>6
  <1>7. Len(queue) \in Nat
    BY <1>0 DEF TypeOK
  <1>8. CASE UNCHANGED queue
    BY <1>2, <1>7, <1>8
  <1>9. CASE Get \/ Drain
    BY <1>0, <1>2, <1>7, <1>9 DEF Get, Drain, TypeOK
  <1>. QED
    BY <1>3, <1>5, <1>8, <1>9 DEF Next, Refuse, BlockPut, Tick, vars

\* A duplicate gets in through a put() that waited for a place, and in no
\* other way: neither put_nowait() nor a put() that finds room lets one in, for
\* every window and prune interval (put, put_nowait, _is_duplicate).  The
\* docstring promises more, and the run event_queue_window refutes that.
THEOREM OnlyWaitersLetIn == Spec => OnlyWaitersSlipIn
  BY InvHolds, WaitersStep, PTL DEF Spec, OnlyWaitersSlipIn

=============================================================================
