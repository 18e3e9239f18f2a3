---------------------------- MODULE PendingQueue ----------------------------
(***************************************************************************)
(* The queue of RECOMMEND-tier actions awaiting an operator                *)
(* (oasisagent/approval/pending.py) together with the coroutines of the    *)
(* orchestrator that drive it: the event loop that sweeps expired entries  *)
(* and adds new ones, the operator decisions that arrive by MQTT, web and  *)
(* chat, and the graceful shutdown that rejects what is left.              *)
(*                                                                         *)
(* Every coroutine runs on one thread, but each `await` on the database    *)
(* lets the others run: a step below is the stretch between two awaits, or *)
(* one statement executed by the single database connection.  All          *)
(* coroutines share that connection, so a statement is visible to every    *)
(* coroutine at once (row) and one coroutine's commit makes everybody's    *)
(* statements durable (disk).                                              *)
(***************************************************************************)
EXTENDS Naturals

CONSTANTS
  Action,     \* the entries that may be created; each has its own uuid
  Request,    \* operator decisions in flight at the same time
  Loop,       \* the task of run_loop
  Stopper,    \* the task of stop / _shutdown
  None,       \* no entry
  Operation,  \* Operation[a]: the handler and operation of entry a
  Target,     \* Target[a]: its action's target_entity_id, None if unset
  Entity      \* Entity[a]: the entity of the event (or action) behind a

Task == Request \union {Loop, Stopper}

ASSUME TaskAssumption ==
  /\ Loop \notin Request /\ Stopper \notin Request /\ Loop # Stopper
  /\ None \notin Action

VARIABLES
  up,          \* the process is running
  stopping,    \* _shutting_down
  row,         \* status column as the shared connection sees it
  disk,        \* status column as last committed
  mem,         \* status in the _actions dict ("absent": not in the dict)
  keys,        \* the _pending_keys dedup set
  due,         \* entries whose expires_at has passed
  pc,          \* where each task is suspended
  arg,         \* the entry a task works on
  verdict,     \* the decision a task is recording
  swept,       \* ids returned by the loop's UPDATE ... RETURNING
  closing,     \* list_pending() snapshot the shutdown still has to reject
  dispatched   \* how many times the handler was started for an entry

vars == <<up, stopping, row, disk, mem, keys, due, pc, arg, verdict, swept,
          closing, dispatched>>

stable == <<up, stopping, due>>        \* no task writes these

-----------------------------------------------------------------------------
(* Types                                                                   *)

Decided == {"approved", "rejected", "expired"}
Status  == {"absent", "pending"} \union Decided

\* The waits a decision goes through, the waits of add(), of the sweep, and
\* the points where a task has no entry in hand.
Deciding == {"cas", "commit", "apply", "dispatch"}
Adding   == {"insert", "insertCommit", "insertApply"}
Sweeping == {"sweepCommit", "sweepApply"}
Resting  == {"idle", "top", "handle", "ended", "listing", "closing", "drain"}

KeySet == {<<Operation[a], Target[a]>> : a \in Action}

TypeOK ==
  /\ up \in BOOLEAN /\ stopping \in BOOLEAN
  /\ row \in [Action -> Status]
  /\ disk \in [Action -> Status]
  /\ mem \in [Action -> Status]
  /\ keys \subseteq KeySet
  /\ due \subseteq Action
  /\ pc \in [Task -> Deciding \union Adding \union Sweeping \union Resting]
  /\ ~up => \A t \in Task : pc[t] = "idle"
  /\ arg \in [Task -> Action \union {None}]
  /\ \A t \in Task : arg[t] # None <=> pc[t] \in Deciding \union Adding
  /\ verdict \in [Task -> {"approved", "rejected"}]
  /\ swept \subseteq Action
  /\ closing \subseteq Action
  /\ dispatched \in [Action -> Nat]

-----------------------------------------------------------------------------
(* Helpers                                                                 *)

\* MUTANT: a key built from the entity instead of the action's target.
KeyOf_ByEntity(a) == <<Operation[a], Entity[a]>>

\* _make_key: handler, operation and target of the action.
KeyOf(a) == <<Operation[a], Target[a]>>

\* What an entry is about, as an operator would say it.
Subject(a) == <<Operation[a], Entity[a]>>

Awaiting == {a \in Action : mem[a] = "pending"}

\* The dedup keys of a cache, rebuilt from its pending entries.
KeysOf(cache) == {KeyOf(a) : a \in {b \in Action : cache[b] = "pending"}}

\* An entry not created yet: in no store and in no task's hands.
Fresh(a) ==
  /\ row[a] = "absent" /\ disk[a] = "absent" /\ mem[a] = "absent"
  /\ \A t \in Task : arg[t] # a

\* WHERE id = ? AND status = 'pending'
StillPending_ById(a) == row[a] # "absent"    \* MUTANT: no status guard
StillPending(a) == row[a] = "pending"

\* WHERE status = 'pending' AND expires_at <= now
StaleRows_ByTime == {a \in Action : row[a] # "absent" /\ a \in due}  \* MUTANT
StaleRows == {a \in Action : row[a] = "pending" /\ a \in due}

Goto(t, where) == pc' = [pc EXCEPT ![t] = where]

\* Where a task goes back to when it is done with an entry.
Home(t) ==
  IF t = Loop THEN "top" ELSE IF t = Stopper THEN "closing" ELSE "idle"

Release(t, where) ==
  /\ Goto(t, where)
  /\ arg' = [arg EXCEPT ![t] = None]
  /\ verdict' = [verdict EXCEPT ![t] = "rejected"]

-----------------------------------------------------------------------------
(* approve() and reject(): check the cache, compare-and-swap the row,      *)
(* commit, then update the cache.                                          *)

\* The cache check runs without an await; a caller that finds the entry
\* missing or decided returns at once and changes nothing.
BeginDecision(t, a, v) ==
  /\ mem[a] = "pending"
  /\ Goto(t, "cas")
  /\ arg' = [arg EXCEPT ![t] = a]
  /\ verdict' = [verdict EXCEPT ![t] = v]
  /\ UNCHANGED <<row, disk, mem, keys, swept, dispatched>>

\* UPDATE ... WHERE id = ? AND status = 'pending'; rowcount = 0 is a lost
\* race and ends the call.
Cas(t) ==
  LET a == arg[t] IN
  /\ pc[t] = "cas"
  /\ \/ /\ StillPending(a)
        /\ row' = [row EXCEPT ![a] = verdict[t]]
        /\ Goto(t, "commit")
        /\ UNCHANGED <<arg, verdict>>
     \/ /\ ~StillPending(a)
        /\ Release(t, Home(t))
        /\ UNCHANGED row
  /\ UNCHANGED <<stable, disk, mem, keys, swept, closing, dispatched>>

\* MUTANT: the commit is missing.
Commit_Missing(t) ==
  /\ pc[t] = "commit"
  /\ Goto(t, "apply")
  /\ UNCHANGED <<stable, row, disk, mem, keys, arg, verdict, swept, closing,
                 dispatched>>

Commit(t) ==
  /\ pc[t] = "commit"
  /\ disk' = row
  /\ Goto(t, "apply")
  /\ UNCHANGED <<stable, row, mem, keys, arg, verdict, swept, closing,
                 dispatched>>

\* MUTANT: the dedup key stays behind.
Apply_KeepsKey(t) ==
  /\ pc[t] = "apply"
  /\ mem' = [mem EXCEPT ![arg[t]] = verdict[t]]
  /\ IF verdict[t] = "approved"
     THEN Goto(t, "dispatch") /\ UNCHANGED <<arg, verdict>>
     ELSE Release(t, Home(t))
  /\ UNCHANGED <<stable, row, disk, keys, swept, closing, dispatched>>

\* Back from the commit: cache and dedup key follow.  An approval goes on to
\* the handler, a rejection is over.
Apply(t) ==
  LET a == arg[t] IN
  /\ pc[t] = "apply"
  /\ mem' = [mem EXCEPT ![a] = verdict[t]]
  /\ keys' = keys \ {KeyOf(a)}
  /\ IF verdict[t] = "approved"
     THEN Goto(t, "dispatch") /\ UNCHANGED <<arg, verdict>>
     ELSE Release(t, Home(t))
  /\ UNCHANGED <<stable, row, disk, swept, closing, dispatched>>

\* _process_approval after its MQTT clean-up: run the handler, or give up
\* when no handler of that name is registered.
Dispatch(t) ==
  /\ pc[t] = "dispatch"
  /\ Release(t, Home(t))
  /\ dispatched' \in {dispatched, [dispatched EXCEPT ![arg[t]] = @ + 1]}
  /\ UNCHANGED <<stable, row, disk, mem, keys, swept, closing>>

DecisionStep(t) == Cas(t) \/ Commit(t) \/ Apply(t) \/ Dispatch(t)

-----------------------------------------------------------------------------
(* An operator decision, from whichever channel.  The listeners are        *)
(* stopped before the shutdown lists what is left.                         *)

Receive(r) ==
  /\ up
  /\ pc[r] = "idle"
  /\ pc[Stopper] \in {"idle", "listing"}
  /\ \E a \in Action, v \in {"approved", "rejected"} : BeginDecision(r, a, v)
  /\ UNCHANGED <<stable, closing>>

-----------------------------------------------------------------------------
(* add(): check the dedup key, INSERT, commit, then the cache.             *)

\* A duplicate key returns None and leaves no trace.
BeginAdd(t, a) ==
  /\ Fresh(a)
  /\ KeyOf(a) \notin keys
  /\ Goto(t, "insert")
  /\ arg' = [arg EXCEPT ![t] = a]
  /\ UNCHANGED <<stable, row, disk, mem, keys, verdict, swept, closing,
                 dispatched>>

Insert(t) ==
  /\ pc[t] = "insert"
  /\ row' = [row EXCEPT ![arg[t]] = "pending"]
  /\ Goto(t, "insertCommit")
  /\ UNCHANGED <<stable, disk, mem, keys, arg, verdict, swept, closing,
                 dispatched>>

InsertCommit(t) ==
  /\ pc[t] = "insertCommit"
  /\ disk' = row
  /\ Goto(t, "insertApply")
  /\ UNCHANGED <<stable, row, mem, keys, arg, verdict, swept, closing,
                 dispatched>>

InsertApply(t) ==
  LET a == arg[t] IN
  /\ pc[t] = "insertApply"
  /\ mem' = [mem EXCEPT ![a] = "pending"]
  /\ keys' = keys \union {KeyOf(a)}
  /\ Release(t, IF t = Loop THEN "top" ELSE "drain")
  /\ UNCHANGED <<stable, row, disk, swept, closing, dispatched>>

AddStep(t) == Insert(t) \/ InsertCommit(t) \/ InsertApply(t)

-----------------------------------------------------------------------------
(* run_loop: sweep, then wait at most a second for an event.               *)

\* expire_stale: UPDATE ... RETURNING id.  Nothing returned, no commit.
Sweep ==
  /\ pc[Loop] = "top" /\ ~stopping
  /\ row' = [a \in Action |-> IF a \in StaleRows THEN "expired" ELSE row[a]]
  /\ swept' = StaleRows
  /\ Goto(Loop, IF StaleRows = {} THEN "sweepApply" ELSE "sweepCommit")
  /\ UNCHANGED <<stable, disk, mem, keys, arg, verdict, closing, dispatched>>

SweepCommit ==
  /\ pc[Loop] = "sweepCommit"
  /\ disk' = row
  /\ Goto(Loop, "sweepApply")
  /\ UNCHANGED <<stable, row, mem, keys, arg, verdict, swept, closing,
                 dispatched>>

\* MUTANT: expired ids are not written to the cache.
SweepApply_RowsOnly ==
  /\ pc[Loop] = "sweepApply"
  /\ keys' = KeysOf(mem)
  /\ swept' = {}
  /\ Goto(Loop, "handle")
  /\ UNCHANGED <<stable, row, disk, mem, arg, verdict, closing, dispatched>>

\* The cache follows for the ids it holds; the dedup keys are rebuilt.
SweepApply ==
  /\ pc[Loop] = "sweepApply"
  /\ mem' = [a \in Action |->
               IF a \in swept /\ mem[a] # "absent" THEN "expired" ELSE mem[a]]
  /\ keys' = KeysOf(mem')
  /\ swept' = {}
  /\ Goto(Loop, "handle")
  /\ UNCHANGED <<stable, row, disk, arg, verdict, closing, dispatched>>

\* An event whose handling adds an entry.
HandleEvent ==
  /\ pc[Loop] = "handle"
  /\ \E a \in Action : BeginAdd(Loop, a)

NoEvent_Waits == FALSE     \* MUTANT: get() without a timeout

\* No event within the timeout, or one that adds nothing.
NoEvent ==
  /\ pc[Loop] = "handle"
  /\ Goto(Loop, "top")
  /\ UNCHANGED <<stable, row, disk, mem, keys, arg, verdict, swept, closing,
                 dispatched>>

LeaveLoop ==
  /\ pc[Loop] = "top" /\ stopping
  /\ Goto(Loop, "ended")
  /\ UNCHANGED <<stable, row, disk, mem, keys, arg, verdict, swept, closing,
                 dispatched>>

LoopStep ==
  \/ Sweep \/ SweepCommit \/ SweepApply
  \/ HandleEvent \/ AddStep(Loop) \/ NoEvent
  \/ LeaveLoop

-----------------------------------------------------------------------------
(* stop() and _shutdown(): reject what is pending, then process what is    *)
(* left in the event queue.  The loop may still be inside its last turn.   *)

Stop ==
  /\ up /\ ~stopping
  /\ pc[Stopper] = "idle"
  /\ stopping' = TRUE
  /\ Goto(Stopper, "listing")
  /\ UNCHANGED <<up, row, disk, mem, keys, due, arg, verdict, swept, closing,
                 dispatched>>

ListPending ==
  /\ pc[Stopper] = "listing"
  /\ closing' = Awaiting
  /\ Goto(Stopper, "closing")
  /\ UNCHANGED <<stable, row, disk, mem, keys, arg, verdict, swept, dispatched>>

RejectNext ==
  /\ pc[Stopper] = "closing"
  /\ \E a \in closing :
       /\ closing' = closing \ {a}
       /\ \/ BeginDecision(Stopper, a, "rejected")
          \/ /\ mem[a] # "pending"
             /\ UNCHANGED <<row, disk, mem, keys, pc, arg, verdict, swept,
                            dispatched>>
  /\ UNCHANGED stable

BeginDrain ==
  /\ pc[Stopper] = "closing" /\ closing = {}
  /\ Goto(Stopper, "drain")
  /\ UNCHANGED <<stable, row, disk, mem, keys, arg, verdict, swept, closing,
                 dispatched>>

DrainEvent ==
  /\ pc[Stopper] = "drain"
  /\ \E a \in Action : BeginAdd(Stopper, a)

-----------------------------------------------------------------------------
(* The end of the process, orderly or not, and the next start.             *)

\* Memory and uncommitted statements are gone.
ProcessGone ==
  /\ up' = FALSE
  /\ stopping' = FALSE
  /\ row' = disk
  /\ mem' = [a \in Action |-> "absent"]
  /\ keys' = {}
  /\ pc' = [t \in Task |-> "idle"]
  /\ arg' = [t \in Task |-> None]
  /\ verdict' = [t \in Task |-> "rejected"]
  /\ swept' = {}
  /\ closing' = {}
  /\ UNCHANGED <<disk, due, dispatched>>

Exit  == pc[Stopper] = "drain" /\ ProcessGone

Crash == up /\ ProcessGone

\* from_db: sweep what expired while the process was down, load the rest,
\* rebuild the dedup keys.  Nothing else uses the database meanwhile, so a
\* crash inside it equals a crash before it or after it.
Restart ==
  /\ ~up
  /\ up' = TRUE
  /\ disk' = [a \in Action |-> IF a \in StaleRows THEN "expired" ELSE row[a]]
  /\ row' = disk'
  /\ mem' = [a \in Action |->
               IF disk'[a] = "pending" THEN "pending" ELSE "absent"]
  /\ keys' = KeysOf(mem')
  /\ Goto(Loop, "top")
  /\ UNCHANGED <<stopping, due, arg, verdict, swept, closing, dispatched>>

\* expires_at passes.  The timeout is at least a minute (config.py), so the
\* add() that creates the entry has long returned.
Elapse(a) ==
  /\ disk[a] # "absent"
  /\ \A t \in Task : arg[t] = a => pc[t] \notin Adding
  /\ due' = due \union {a}
  /\ UNCHANGED <<up, stopping, row, disk, mem, keys, pc, arg, verdict, swept,
                 closing, dispatched>>

-----------------------------------------------------------------------------
Init ==
  /\ up = TRUE /\ stopping = FALSE
  /\ row = [a \in Action |-> "absent"]
  /\ disk = row
  /\ mem = row
  /\ keys = {} /\ due = {} /\ swept = {} /\ closing = {}
  /\ pc = [t \in Task |-> IF t = Loop THEN "top" ELSE "idle"]
  /\ arg = [t \in Task |-> None]
  /\ verdict = [t \in Task |-> "rejected"]
  /\ dispatched = [a \in Action |-> 0]

RequestStep(r) == Receive(r) \/ DecisionStep(r)

StopperStep ==
  \/ ListPending \/ RejectNext \/ BeginDrain \/ DrainEvent
  \/ DecisionStep(Stopper) \/ AddStep(Stopper)
  \/ Exit

Next ==
  \/ LoopStep
  \/ \E r \in Request : RequestStep(r)
  \/ Stop \/ StopperStep
  \/ Crash \/ Restart
  \/ \E a \in Action : Elapse(a)

\* The event loop and the database thread serve every suspended coroutine,
\* and the container runtime starts the agent again.
Fairness ==
  /\ WF_vars(LoopStep)
  /\ WF_vars(StopperStep)
  /\ \A r \in Request : WF_vars(DecisionStep(r))
  /\ WF_vars(Restart)

Spec == Init /\ [][Next]_vars /\ Fairness

-----------------------------------------------------------------------------
(* Properties                                                              *)

\* However many approvals, rejections, sweeps, crashes and restarts race, the
\* handler is started at most once for an entry, and only when the approval
\* is already durable (_process_approval after PendingQueue.approve).
AtMostOneDispatch ==
  \A a \in Action :
    /\ dispatched[a] <= 1
    /\ dispatched[a] = 1 => disk[a] = "approved"

\* "All mutations write to SQLite first, then update the dict": the cache
\* never shows an entry, or a decision on it, that a crash could undo.
SqliteFirst ==
  \A a \in Action :
    /\ mem[a] # "absent" => disk[a] # "absent"
    /\ mem[a] \in Decided => disk[a] = mem[a]

\* The cache may lag behind the rows only while the coroutine that changed
\* the row is still on its way to the cache: no entry stays pending in
\* memory (and offered to the operator) once its row is decided, whoever
\* decided it, and none is missing once its row is pending.
CacheLagIsInFlight ==
  up => \A a \in Action :
    \/ mem[a] = row[a]
    \/ mem[a] = "absent" /\ row[a] \in Decided
    \/ /\ mem[a] = "absent" /\ row[a] = "pending"
       /\ \E t \in Task : arg[t] = a /\ pc[t] \in {"insertCommit", "insertApply"}
    \/ /\ mem[a] = "pending"
       /\ \E t \in Task :
            arg[t] = a /\ pc[t] \in {"commit", "apply"} /\ verdict[t] = row[a]
    \/ /\ mem[a] = "pending" /\ row[a] = "expired"
       /\ a \in swept /\ pc[Loop] \in Sweeping

\* A dedup key is held only while an entry with that key awaits a decision,
\* so no stale key blocks a later add() (the rebuild in expire_stale and the
\* discards in approve and reject).
NoStaleKey == keys \subseteq KeysOf(mem)

\* An entry whose time is up does not stay pending: the loop's sweep, a
\* decision, or the sweep of the next start settles it, also when the
\* process crashes or is stopped again and again.
DueEntriesSettle ==
  \A a \in Action :
    (disk[a] = "pending" /\ a \in due) ~> (disk[a] # "pending")

\* The queue keeps the contract: decided at most once, for good; performed
\* at most once, after a durable approval.
Contract == INSTANCE ApprovalContract
              WITH outcome <- disk, performed <- dispatched
KeepsContract == Contract!Spec

\* add() is documented to suppress an action when one for the same handler,
\* operation and entity is pending (pending.py, "actions use
\* handler:op:entity").
SuppressesOnlyTheSameEntity ==
  pc[Loop] = "handle" =>
    \A a \in Action : Fresh(a) /\ KeyOf(a) \in keys =>
      \E b \in Awaiting : Subject(b) = Subject(a)

-----------------------------------------------------------------------------
(* The inductive invariant behind the safety properties                    *)

\* Uncommitted statements are one legal step ahead of the committed rows; a
\* stopped process has neither uncommitted statements nor suspended tasks.
RowsAhead ==
  /\ \A a \in Action : Contract!Follows(disk[a], row[a])
  /\ \A a \in due : disk[a] # "absent"
  /\ ~up => row = disk /\ \A a \in Action : mem[a] = "absent"

\* What each suspended task may rely on about the entry in its hands.
TaskKnows ==
  \A t \in Task :
    LET a == arg[t] IN
    /\ pc[t] = "cas"      => disk[a] # "absent"
    /\ pc[t] = "commit"   => row[a] = verdict[t] /\ disk[a] # "absent"
    /\ pc[t] = "apply"    => disk[a] = verdict[t]
    /\ pc[t] = "dispatch" => disk[a] = "approved"
    /\ pc[t] = "insert"   => row[a] = "absent"
    /\ pc[t] = "insertCommit" => row[a] = "pending"
    /\ pc[t] = "insertApply"  => row[a] = "pending" /\ disk[a] = "pending"
    /\ pc[t] \in Adding => mem[a] = "absent" /\ a \notin due

\* The winner of a compare-and-swap is alone with the entry until it is done,
\* and so is the task that creates an entry.
Exclusive ==
  \A t, u \in Task :
    t # u /\ arg[t] = arg[u] =>
      /\ pc[t] \notin Adding
      /\ ~ (pc[t] \in {"commit", "apply", "dispatch"} /\
            pc[u] \in {"commit", "apply", "dispatch"})

\* A dispatched entry is approved, and nobody still holds its approval.
DispatchedIsOver ==
  \A a \in Action : dispatched[a] # 0 =>
    /\ dispatched[a] = 1
    /\ disk[a] = "approved"
    /\ \A t \in Task :
         arg[t] = a => pc[t] \notin {"commit", "apply", "dispatch"}

SweptIsExpired ==
  \A a \in swept :
    /\ pc[Loop] = "sweepCommit" => row[a] = "expired" /\ disk[a] # "absent"
    /\ pc[Loop] = "sweepApply"  => disk[a] = "expired"

IInv ==
  /\ TypeOK
  /\ RowsAhead
  /\ SqliteFirst
  /\ TaskKnows
  /\ Exclusive
  /\ DispatchedIsOver
  /\ SweptIsExpired
  /\ NoStaleKey
=============================================================================
