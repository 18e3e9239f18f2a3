------------------------- MODULE PendingQueueProofs -------------------------
(***************************************************************************)
(* The safety of the approval queue for any number of entries, operators   *)
(* and restarts.  IInv of PendingQueue is inductive: it says what every    *)
(* suspended task may still rely on (TaskKnows) and that the winner of a   *)
(* compare-and-swap is alone with its entry (Exclusive).                   *)
(***************************************************************************)
EXTENDS PendingQueue, TLAPS

\* A dedup key is the key of some entry; nothing else is used of _make_key.
LEMMA KeyType == \A a \in Action : KeyOf(a) \in KeySet
BY DEF KeyOf, KeySet

\* Types at the first start.
LEMMA TypeInit == Init => TypeOK
<1> SUFFICES ASSUME Init PROVE TypeOK
  OBVIOUS
<1> USE DEF Init, Status, Decided, Deciding, Adding, Sweeping, Resting
<1>1. row \in [Action -> Status] /\ disk \in [Action -> Status] /\ mem \in [Action -> Status]
  OBVIOUS
<1>2. pc \in [Task -> Deciding \union Adding \union Sweeping \union Resting]
  OBVIOUS
<1>3. \A t \in Task : arg[t] # None <=> pc[t] \in Deciding \union Adding
  OBVIOUS
<1>4. QED BY <1>1, <1>2, <1>3 DEF TypeOK

\* Types after every step.
LEMMA TypeStep == TypeOK /\ [Next]_vars => TypeOK'
<1> SUFFICES ASSUME TypeOK, [Next]_vars PROVE TypeOK'
  OBVIOUS
<1> USE TaskAssumption, KeyType DEF TypeOK, Status, Decided, Task, Deciding, Adding,
     Sweeping, Resting, stable, Goto, Release, Home
<1>1. CASE Sweep
  BY <1>1 DEF Sweep, StaleRows
<1>2. CASE SweepCommit
  BY <1>2 DEF SweepCommit
<1>3. CASE SweepApply
  <2>1. KeysOf(mem') \subseteq KeySet
    BY DEF KeysOf
  <2> QED BY <1>3, <2>1 DEF SweepApply
<1>4. CASE HandleEvent
  BY <1>4 DEF HandleEvent, BeginAdd
<1>5. CASE NoEvent
  BY <1>5 DEF NoEvent
<1>6. CASE LeaveLoop
  BY <1>6 DEF LeaveLoop
<1>7. ASSUME NEW t \in Task, AddStep(t) PROVE TypeOK'
  <2>1. CASE Insert(t)
    BY <2>1 DEF Insert
  <2>2. CASE InsertCommit(t)
    BY <2>2 DEF InsertCommit
  <2>3. CASE InsertApply(t)
    BY <2>3 DEF InsertApply, KeysOf
  <2> QED BY <1>7, <2>1, <2>2, <2>3 DEF AddStep
<1>8. ASSUME NEW t \in Task, DecisionStep(t) PROVE TypeOK'
  <2>1. CASE Cas(t)
    BY <2>1 DEF Cas, StillPending
  <2>2. CASE Commit(t)
    BY <2>2 DEF Commit
  <2>3. CASE Apply(t)
    BY <2>3 DEF Apply, KeysOf
  <2>4. CASE Dispatch(t)
    BY <2>4 DEF Dispatch
  <2> QED BY <1>8, <2>1, <2>2, <2>3, <2>4 DEF DecisionStep
<1>9. ASSUME NEW r \in Request, Receive(r) PROVE TypeOK'
  BY <1>9 DEF Receive, BeginDecision
<1>10. CASE Stop
  BY <1>10 DEF Stop
<1>11. CASE ListPending
  BY <1>11 DEF ListPending, Awaiting
<1>12. CASE RejectNext
  BY <1>12 DEF RejectNext, BeginDecision
<1>13. CASE BeginDrain
  BY <1>13 DEF BeginDrain
<1>14. CASE DrainEvent
  BY <1>14 DEF DrainEvent, BeginAdd
<1>15. CASE ProcessGone
  BY <1>15 DEF ProcessGone
<1>16. CASE Restart
  <2>1. KeysOf(mem') \subseteq KeySet
    BY DEF KeysOf
  <2> QED BY <1>16, <2>1 DEF Restart, StaleRows
<1>17. ASSUME NEW a \in Action, Elapse(a) PROVE TypeOK'
  BY <1>17 DEF Elapse
<1>18. CASE UNCHANGED vars
  BY <1>18 DEF vars
<1> QED
  BY <1>1, <1>2, <1>3, <1>4, <1>5, <1>6, <1>7, <1>8, <1>9, <1>10, <1>11, <1>12,
     <1>13, <1>14, <1>15, <1>16, <1>17, <1>18
     DEF Next, LoopStep, RequestStep, StopperStep, Exit, Crash

\* The inductive invariant at the first start.
LEMMA InvInit == Init => IInv
<1> SUFFICES ASSUME Init PROVE IInv
  OBVIOUS
<1>1. TypeOK
  BY TypeInit
<1>2. \A t \in Task : pc[t] \notin Deciding \union Adding \union Sweeping
  BY DEF Init, Deciding, Adding, Sweeping
<1>3. \A a \in Action : row[a] = "absent" /\ disk[a] = "absent" /\ mem[a] = "absent"
  BY DEF Init
<1>4. QED
  BY <1>1, <1>2, <1>3 DEF Init, IInv, RowsAhead, SqliteFirst, TaskKnows, Exclusive,
     DispatchedIsOver, SweptIsExpired, NoStaleKey, Contract!Follows,
     Deciding, Adding, Sweeping, Decided

\* The inductive invariant after every step.
LEMMA InvStep == IInv /\ [Next]_vars => IInv'
<1> SUFFICES ASSUME IInv, [Next]_vars PROVE IInv'
  OBVIOUS
<1>0. TypeOK /\ TypeOK'
  BY TypeStep DEF IInv
<1> USE <1>0, TaskAssumption DEF TypeOK, IInv, RowsAhead, SqliteFirst, TaskKnows, Exclusive,
     DispatchedIsOver, SweptIsExpired, NoStaleKey, Contract!Follows, Contract!Decided,
     Status, Decided, Deciding, Adding, Sweeping, Resting,
     stable, Goto, Release, Home, Task, Awaiting
<1>1. CASE Sweep
  <2>1. RowsAhead' /\ SqliteFirst'
    BY <1>1 DEF Sweep, StaleRows
  <2>2. SweptIsExpired' /\ NoStaleKey'
    BY <1>1 DEF Sweep, StaleRows, KeysOf
  <2>3. TaskKnows'
    BY <1>1 DEF Sweep, StaleRows
  <2>4. Exclusive' /\ DispatchedIsOver'
    BY <1>1 DEF Sweep, StaleRows
  <2> QED BY <2>1, <2>2, <2>3, <2>4
<1>2. CASE SweepCommit
  <2>1. RowsAhead' /\ SqliteFirst'
    BY <1>2 DEF SweepCommit
  <2>2. SweptIsExpired' /\ NoStaleKey'
    BY <1>2 DEF SweepCommit, KeysOf
  <2>3. TaskKnows'
    BY <1>2 DEF SweepCommit
  <2>4. Exclusive' /\ DispatchedIsOver'
    BY <1>2 DEF SweepCommit
  <2> QED BY <2>1, <2>2, <2>3, <2>4
<1>3. CASE SweepApply
  <2>1. RowsAhead' /\ SqliteFirst'
    BY <1>3 DEF SweepApply
  <2>2. SweptIsExpired' /\ NoStaleKey'
    BY <1>3 DEF SweepApply, KeysOf
  <2>3. TaskKnows'
    BY <1>3 DEF SweepApply
  <2>4. Exclusive' /\ DispatchedIsOver'
    BY <1>3 DEF SweepApply
  <2> QED BY <2>1, <2>2, <2>3, <2>4
<1>4. CASE HandleEvent
  <2>1. RowsAhead' /\ SqliteFirst'
    BY <1>4 DEF HandleEvent, BeginAdd, Fresh
  <2>2. SweptIsExpired' /\ NoStaleKey'
    BY <1>4 DEF HandleEvent, BeginAdd, Fresh, KeysOf
  <2>3. TaskKnows'
    BY <1>4 DEF HandleEvent, BeginAdd, Fresh
  <2>4. Exclusive' /\ DispatchedIsOver'
    BY <1>4 DEF HandleEvent, BeginAdd, Fresh
  <2> QED BY <2>1, <2>2, <2>3, <2>4
<1>5. CASE NoEvent
  BY <1>5 DEF NoEvent
<1>6. CASE LeaveLoop
  BY <1>6 DEF LeaveLoop
<1>7. ASSUME NEW t \in Task, AddStep(t) PROVE IInv'
  <2>1. CASE Insert(t)
    <3>1. RowsAhead' /\ SqliteFirst'
      BY <2>1 DEF Insert
    <3>2. SweptIsExpired' /\ NoStaleKey'
      BY <2>1 DEF Insert, KeysOf
    <3>3. TaskKnows'
      BY <2>1 DEF Insert
    <3>4. Exclusive' /\ DispatchedIsOver'
      BY <2>1 DEF Insert
    <3> QED BY <3>1, <3>2, <3>3, <3>4
  <2>2. CASE InsertCommit(t)
    <3>1. RowsAhead' /\ SqliteFirst'
      BY <2>2 DEF InsertCommit
    <3>2. SweptIsExpired' /\ NoStaleKey'
      BY <2>2 DEF InsertCommit, KeysOf
    <3>3. TaskKnows'
      BY <2>2 DEF InsertCommit
    <3>4. Exclusive' /\ DispatchedIsOver'
      BY <2>2 DEF InsertCommit
    <3> QED BY <3>1, <3>2, <3>3, <3>4
  <2>3. CASE InsertApply(t)
    <3>1. RowsAhead' /\ SqliteFirst' /\ SweptIsExpired'
      BY <2>3 DEF InsertApply
    <3>2. NoStaleKey'
      BY <2>3 DEF InsertApply, KeysOf
    <3>3. TaskKnows'
      BY <2>3 DEF InsertApply
    <3>4. Exclusive' /\ DispatchedIsOver'
      BY <2>3 DEF InsertApply
    <3> QED BY <3>1, <3>2, <3>3, <3>4
  <2> QED BY <1>7, <2>1, <2>2, <2>3 DEF AddStep
<1>8. ASSUME NEW t \in Task, DecisionStep(t) PROVE IInv'
  <2>1. CASE Cas(t)
    <3>1. RowsAhead' /\ SqliteFirst'
      BY <2>1 DEF Cas, StillPending
    <3>2. SweptIsExpired' /\ NoStaleKey'
      BY <2>1 DEF Cas, StillPending, KeysOf
    <3>3. TaskKnows'
      BY <2>1 DEF Cas, StillPending
    <3>4. Exclusive' /\ DispatchedIsOver'
      BY <2>1 DEF Cas, StillPending
    <3> QED BY <3>1, <3>2, <3>3, <3>4
  <2>2. CASE Commit(t)
    <3>1. RowsAhead' /\ SqliteFirst'
      BY <2>2 DEF Commit
    <3>2. SweptIsExpired' /\ NoStaleKey'
      BY <2>2 DEF Commit, KeysOf
    <3>3. TaskKnows'
      BY <2>2 DEF Commit
    <3>4. Exclusive' /\ DispatchedIsOver'
      BY <2>2 DEF Commit
    <3> QED BY <3>1, <3>2, <3>3, <3>4
  <2>3. CASE Apply(t)
    <3>1. RowsAhead' /\ SqliteFirst'
      BY <2>3 DEF Apply
    <3>2. SweptIsExpired' /\ NoStaleKey'
      BY <2>3 DEF Apply, KeysOf
    <3>3. TaskKnows'
      BY <2>3 DEF Apply
    <3>4. Exclusive' /\ DispatchedIsOver'
      BY <2>3 DEF Apply
    <3> QED BY <3>1, <3>2, <3>3, <3>4
  <2>4. CASE Dispatch(t)
    <3>1. RowsAhead' /\ SqliteFirst' /\ SweptIsExpired' /\ NoStaleKey'
      BY <2>4 DEF Dispatch, KeysOf
    <3>2. TaskKnows'
      BY <2>4 DEF Dispatch
    <3>3. Exclusive'
      BY <2>4 DEF Dispatch
    <3>4. DispatchedIsOver'
      BY <2>4 DEF Dispatch
    <3> QED BY <3>1, <3>2, <3>3, <3>4
  <2> QED BY <1>8, <2>1, <2>2, <2>3, <2>4 DEF DecisionStep
<1>9. ASSUME NEW r \in Request, Receive(r) PROVE IInv'
  <2>1. RowsAhead' /\ SqliteFirst' /\ SweptIsExpired' /\ NoStaleKey'
    BY <1>9 DEF Receive, BeginDecision, KeysOf
  <2>2. TaskKnows'
    BY <1>9 DEF Receive, BeginDecision
  <2>3. Exclusive' /\ DispatchedIsOver'
    BY <1>9 DEF Receive, BeginDecision
  <2> QED BY <2>1, <2>2, <2>3
<1>10. CASE Stop
  BY <1>10 DEF Stop
<1>11. CASE ListPending
  BY <1>11 DEF ListPending
<1>12. CASE RejectNext
  BY <1>12 DEF RejectNext, BeginDecision
<1>13. CASE BeginDrain
  BY <1>13 DEF BeginDrain
<1>14. CASE DrainEvent
  <2>1. RowsAhead' /\ SqliteFirst' /\ SweptIsExpired' /\ NoStaleKey'
    BY <1>14 DEF DrainEvent, BeginAdd, KeysOf
  <2>2. TaskKnows'
    BY <1>14 DEF DrainEvent, BeginAdd, Fresh
  <2>3. Exclusive' /\ DispatchedIsOver'
    BY <1>14 DEF DrainEvent, BeginAdd, Fresh
  <2> QED BY <2>1, <2>2, <2>3
<1>15. CASE ProcessGone
  BY <1>15 DEF ProcessGone
<1>16. CASE Restart
  <2>1. RowsAhead' /\ SqliteFirst'
    BY <1>16 DEF Restart, StaleRows
  <2>2. /\ \A t \in Task : pc'[t] \in {"idle", "top"}
        /\ \A t \in Task : arg'[t] = None
    BY <1>16 DEF Restart
  <2>3. TaskKnows' /\ Exclusive' /\ SweptIsExpired'
    BY <1>16, <2>2 DEF Restart
  <2>4. DispatchedIsOver'
    BY <1>16, <2>2 DEF Restart, StaleRows
  <2>5. NoStaleKey'
    BY <1>16 DEF Restart
  <2> QED BY <2>1, <2>3, <2>4, <2>5
<1>17. ASSUME NEW a \in Action, Elapse(a) PROVE IInv'
  BY <1>17 DEF Elapse
<1>18. CASE UNCHANGED vars
  BY <1>18 DEF vars
<1> QED
  BY <1>1, <1>2, <1>3, <1>4, <1>5, <1>6, <1>7, <1>8, <1>9, <1>10, <1>11, <1>12,
     <1>13, <1>14, <1>15, <1>16, <1>17, <1>18
     DEF Next, LoopStep, RequestStep, StopperStep, Exit, Crash

\* The inductive invariant holds in every reachable state of queue, loop,
\* operators and shutdown.
THEOREM InvHolds == Spec => []IInv
<1>1. QED BY InvInit, InvStep, PTL DEF Spec

\* Rows, cache, dedup keys and task positions of approval/pending.py keep
\* their types.
THEOREM TypeCorrect == Spec => []TypeOK
<1>1. IInv => TypeOK
  BY DEF IInv
<1>2. QED BY <1>1, InvHolds, PTL

\* However many approvals, rejections, sweeps, crashes and restarts race,
\* _process_approval runs the handler at most once per entry and only after a
\* durable approval.
THEOREM DispatchSafe == Spec => []AtMostOneDispatch
<1>1. IInv => AtMostOneDispatch
  <2> SUFFICES ASSUME IInv, NEW a \in Action
               PROVE  dispatched[a] <= 1 /\ (dispatched[a] = 1 => disk[a] = "approved")
    BY DEF AtMostOneDispatch
  <2>1. dispatched[a] = 0 \/ (dispatched[a] = 1 /\ disk[a] = "approved")
    BY DEF IInv, DispatchedIsOver
  <2> QED BY <2>1
<1>2. QED BY <1>1, InvHolds, PTL

\* "All mutations write to SQLite first": the cache never shows an entry or a
\* decision that a crash could undo (add, approve, reject, expire_stale).
THEOREM CacheIsDurable == Spec => []SqliteFirst
<1>1. IInv => SqliteFirst
  BY DEF IInv
<1>2. QED BY <1>1, InvHolds, PTL

\* Every dedup key belongs to an entry still awaiting its decision, so no
\* stale key blocks a later add().
THEOREM KeysAreLive == Spec => []NoStaleKey
<1>1. IInv => NoStaleKey
  BY DEF IInv
<1>2. QED BY <1>1, InvHolds, PTL

\* Every step keeps the explanation of each difference between cache and row.
LEMMA LagStep ==
  IInv /\ IInv' /\ CacheLagIsInFlight /\ [Next]_vars => CacheLagIsInFlight'
<1> SUFFICES ASSUME IInv, IInv', CacheLagIsInFlight, [Next]_vars,
                    up', NEW a \in Action
             PROVE  (\/ mem[a] = row[a]
                     \/ mem[a] = "absent" /\ row[a] \in Decided
                     \/ /\ mem[a] = "absent" /\ row[a] = "pending"
                        /\ \E t \in Task : arg[t] = a /\ pc[t] \in {"insertCommit", "insertApply"}
                     \/ /\ mem[a] = "pending"
                        /\ \E t \in Task :
                             arg[t] = a /\ pc[t] \in {"commit", "apply"} /\ verdict[t] = row[a]
                     \/ /\ mem[a] = "pending" /\ row[a] = "expired"
                        /\ a \in swept /\ pc[Loop] \in Sweeping)'
  BY DEF CacheLagIsInFlight
<1> USE TaskAssumption DEF CacheLagIsInFlight, IInv, TypeOK, TaskKnows, Exclusive, SweptIsExpired,
     Status, Decided, Deciding, Adding, Sweeping, Resting,
     stable, Goto, Release, Home, Task
<1>1. CASE Sweep
  BY <1>1 DEF Sweep, StaleRows
<1>2. CASE SweepCommit
  BY <1>2 DEF SweepCommit
<1>3. CASE SweepApply
  BY <1>3 DEF SweepApply, RowsAhead, Contract!Follows, Contract!Decided
<1>4. CASE HandleEvent
  BY <1>4 DEF HandleEvent, BeginAdd, Fresh
<1>5. CASE NoEvent
  BY <1>5 DEF NoEvent
<1>6. CASE LeaveLoop
  BY <1>6 DEF LeaveLoop
<1>7. ASSUME NEW t \in Task, AddStep(t) PROVE CacheLagIsInFlight'
  <2>1. CASE Insert(t)
    BY <2>1 DEF Insert
  <2>2. CASE InsertCommit(t)
    BY <2>2 DEF InsertCommit
  <2>3. CASE InsertApply(t)
    BY <2>3 DEF InsertApply
  <2> QED BY <1>7, <2>1, <2>2, <2>3 DEF AddStep
<1>8. ASSUME NEW t \in Task, DecisionStep(t) PROVE CacheLagIsInFlight'
  <2>1. CASE Cas(t)
    BY <2>1 DEF Cas, StillPending
  <2>2. CASE Commit(t)
    BY <2>2 DEF Commit
  <2>3. CASE Apply(t)
    BY <2>3 DEF Apply, RowsAhead, Contract!Follows, Contract!Decided
  <2>4. CASE Dispatch(t)
    BY <2>4 DEF Dispatch
  <2> QED BY <1>8, <2>1, <2>2, <2>3, <2>4 DEF DecisionStep
<1>9. ASSUME NEW r \in Request, Receive(r) PROVE CacheLagIsInFlight'
  BY <1>9 DEF Receive, BeginDecision
<1>10. CASE Stop
  BY <1>10 DEF Stop
<1>11. CASE ListPending
  BY <1>11 DEF ListPending
<1>12. CASE RejectNext
  BY <1>12 DEF RejectNext, BeginDecision
<1>13. CASE BeginDrain
  BY <1>13 DEF BeginDrain
<1>14. CASE DrainEvent
  BY <1>14 DEF DrainEvent, BeginAdd, Fresh
<1>15. CASE ProcessGone
  BY <1>15 DEF ProcessGone
<1>16. CASE Restart
  <2>1. row[a] = disk[a] /\ mem[a] = "absent"
    BY <1>16 DEF Restart, RowsAhead
  <2>2. /\ row'[a] = IF a \in StaleRows THEN "expired" ELSE row[a]
        /\ mem'[a] = IF row'[a] = "pending" THEN "pending" ELSE "absent"
    BY <1>16 DEF Restart
  <2>3. row[a] \in Status
    OBVIOUS
  <2>4. CASE row'[a] = "pending"
    BY <2>2, <2>4
  <2>5. CASE row'[a] = "absent"
    BY <2>2, <2>5
  <2>6. CASE row'[a] \in Decided
    BY <2>2, <2>6
  <2> QED BY <2>2, <2>3, <2>4, <2>5, <2>6
<1>17. ASSUME NEW b \in Action, Elapse(b) PROVE CacheLagIsInFlight'
  BY <1>17 DEF Elapse
<1>18. CASE UNCHANGED vars
  BY <1>18 DEF vars
<1> QED
  BY <1>1, <1>2, <1>3, <1>4, <1>5, <1>6, <1>7, <1>8, <1>9, <1>10, <1>11, <1>12,
     <1>13, <1>14, <1>15, <1>16, <1>17, <1>18
     DEF Next, LoopStep, RequestStep, StopperStep, Exit, Crash

\* The cache differs from the rows only while the coroutine that changed the
\* row is on its way to the cache: no decided entry stays on offer.
THEOREM NoZombieEntries == Spec => []CacheLagIsInFlight
<1>1. Init => CacheLagIsInFlight
  BY DEF Init, CacheLagIsInFlight
<1>2. QED BY <1>1, LagStep, InvHolds, PTL DEF Spec

\* The first state of the queue is a first state of the contract.
LEMMA ContractInit == Init => Contract!Init
BY DEF Init, Contract!Init

\* Every step of the queue is a step of the contract or leaves it alone.
LEMMA ContractStep ==
  IInv /\ IInv' /\ [Next]_vars => [Contract!Next]_(Contract!vars)
<1> SUFFICES ASSUME IInv, IInv', [Next]_vars PROVE [Contract!Next]_(Contract!vars)
  OBVIOUS
<1>1. disk' \in [Action -> Contract!Outcome]
  BY DEF IInv, TypeOK, Status, Decided, Contract!Outcome, Contract!Decided
<1>2. (\A a \in Action : Contract!Follows(disk[a], disk'[a])) /\ UNCHANGED dispatched
      => Contract!Next
  BY <1>1 DEF Contract!Next, Contract!Decide
<1>3. \A a \in Action : Contract!Follows(disk[a], row[a])
  BY DEF IInv, RowsAhead
<1>4. disk' = row /\ UNCHANGED dispatched => Contract!Next
  BY <1>2, <1>3
<1>5. UNCHANGED <<disk, dispatched>> => UNCHANGED Contract!vars
  BY DEF Contract!vars
<1>6. ASSUME NEW t \in Task, Dispatch(t) PROVE [Contract!Next]_(Contract!vars)
  <2>1. disk[arg[t]] = "approved" /\ arg[t] \in Action /\ dispatched[arg[t]] = 0
    BY <1>6 DEF Dispatch, IInv, TypeOK, TaskKnows, DispatchedIsOver, Deciding
  <2>2. disk' = disk /\ dispatched' \in {dispatched, [dispatched EXCEPT ![arg[t]] = @ + 1]}
    BY <1>6 DEF Dispatch
  <2>3. CASE dispatched' = [dispatched EXCEPT ![arg[t]] = @ + 1]
    <3>1. dispatched' = [dispatched EXCEPT ![arg[t]] = 1]
      BY <2>1, <2>3 DEF IInv, TypeOK
    <3>2. Contract!Perform(arg[t])
      BY <2>1, <2>2, <3>1 DEF Contract!Perform
    <3> QED BY <2>1, <3>2 DEF Contract!Next
  <2> QED BY <2>2, <2>3, <1>5
<1>7. ASSUME NEW t \in Task, Cas(t) \/ Commit(t) \/ Apply(t) \/ AddStep(t)
      PROVE [Contract!Next]_(Contract!vars)
  BY <1>7, <1>4, <1>5 DEF Cas, Commit, Apply, AddStep, Insert, InsertCommit, InsertApply
<1>8. CASE Restart
  <2>1. \A a \in Action : Contract!Follows(disk[a], disk'[a])
    BY <1>8, <1>3 DEF Restart, StaleRows, IInv, TypeOK, RowsAhead, Contract!Follows,
       Contract!Decided
  <2> QED BY <1>8, <2>1, <1>2 DEF Restart
<1>9. CASE SweepCommit
  BY <1>9, <1>4 DEF SweepCommit
<1>10. CASE \/ Sweep \/ SweepApply \/ HandleEvent \/ NoEvent \/ LeaveLoop
            \/ (\E r \in Request : Receive(r)) \/ Stop \/ ListPending \/ RejectNext
            \/ BeginDrain \/ DrainEvent \/ ProcessGone
            \/ (\E a \in Action : Elapse(a)) \/ UNCHANGED vars
  BY <1>10, <1>5 DEF Sweep, SweepApply, HandleEvent, BeginAdd, NoEvent, LeaveLoop, Receive,
     BeginDecision, Stop, ListPending, RejectNext, BeginDrain, DrainEvent, ProcessGone,
     Elapse, vars
<1> QED
  BY <1>6, <1>7, <1>8, <1>9, <1>10
     DEF Next, LoopStep, RequestStep, StopperStep, Exit, Crash, DecisionStep, Task

\* The queue implements ApprovalContract: what is durably decided stays
\* decided, and an entry is performed at most once, after its approval.
THEOREM QueueKeepsContract == Spec => KeepsContract
<1>1. QED BY ContractInit, ContractStep, InvHolds, PTL DEF Spec, KeepsContract, Contract!Spec
=============================================================================
