------------------------------ MODULE Ingestion ------------------------------
(***************************************************************************)
(* An ingestion adapter at work: connecting, polling its groups in order,  *)
(* waiting, and publishing what its rules say through EventQueue.put_nowait*)
(* (its dedup window and a full queue).                                    *)
(*                                                                         *)
(* A behaviour follows one adapter and a few of the aspects it watches;    *)
(* which ones is chosen at the start.  Poll functions touch nothing but    *)
(* their own memory, so the groups that hold none of the watched aspects   *)
(* are visited only where their failure ends the round.                    *)
(***************************************************************************)
EXTENDS InfraMonitors, ServiceMonitors, ScannerMonitors

CONSTANTS
  Watch,         \* the choices: sequences of rules of one adapter
  Window,        \* dedup_window_seconds, in poll intervals
  MaxDelay,      \* the cap of the backoff, in poll intervals
  MaxRefusals,   \* _MAX_404_FAILURES
  CleanScans     \* adaptive_recovery_scans

\* The rules and the loops of all adapters, by name.
RuleOf ==
  [n \in DOMAIN InfraRules \union DOMAIN ServiceRules \union DOMAIN ScannerRules |->
     IF n \in DOMAIN InfraRules THEN InfraRules[n]
     ELSE IF n \in DOMAIN ServiceRules THEN ServiceRules[n] ELSE ScannerRules[n]]

LoopOf ==
  [n \in DOMAIN InfraLoops \union DOMAIN ServiceLoops \union DOMAIN ScannerLoops |->
     IF n \in DOMAIN InfraLoops THEN InfraLoops[n]
     ELSE IF n \in DOMAIN ServiceLoops THEN ServiceLoops[n] ELSE ScannerLoops[n]]

\* The states of a thing, by what its rule says at first sight.
States(r) == DOMAIN r.says[Unknown]

MaxGroup == 9

ASSUME IngestionAssumption ==
  /\ \A n \in DOMAIN RuleOf : States(RuleOf[n]) \intersect {Unknown, Absent} = {}
  /\ Watch \subseteq Seq(DOMAIN RuleOf) \ {<<>>}
  /\ Window \in Nat /\ MaxDelay \in Nat \ {0}
  /\ MaxRefusals \in Nat \ {0} /\ CleanScans \in Nat \ {0}

VARIABLES
  watched,   \* the rules followed in this behaviour
  world,     \* what a poll would find
  memory,    \* what the adapter remembers
  phase,     \* what start() and _poll_loop are doing
  turn,      \* the group whose poll function runs
  delay,     \* the length of the next wait
  refused,   \* _404_counts; a group with MaxRefusals is switched off
  pace,      \* scans until the normal interval is back, 0: it is
  recent,    \* _seen of the queue: waits until a key is no duplicate
  told,      \* the last event about the aspect that entered the queue
  missed,    \* the queue refused the last event about it
  seeded     \* the memory is still the one of the first sight

vars == <<watched, world, memory, phase, turn, delay, refused, pace, recent,
          told, missed, seeded>>

Index    == DOMAIN watched
R(i)     == RuleOf[watched[i]]
Adapter  == LoopOf[R(1).adapter]
Here(g)  == {i \in Index : R(i).group = g}
Keys     == UNION {{R(i).key, R(i).errorKey} : i \in Index}
Memories(i) == DOMAIN R(i).says

Ended == {"stopped", "refused", "gave_up", "severed"}

TypeOK ==
  /\ watched \in Watch
  /\ world \in [Index -> UNION {R(i).answers : i \in Index}]
  /\ \A i \in Index : world[i] \in R(i).answers /\ memory[i] \in Memories(i)
  /\ phase \in {"connecting", "retrying", "polling", "waiting"} \union Ended
  /\ turn \in 0..MaxGroup /\ (phase = "polling") = (turn # 0)
  /\ delay \in 1..MaxDelay
  /\ refused \in [1..MaxGroup -> 0..MaxRefusals]
  /\ pace \in 0..CleanScans
  /\ recent \in [Keys -> 0..Window]
  /\ told \in [Index -> {"nothing", "alarm", "clear"}]
  /\ missed \in [Index -> BOOLEAN] /\ seeded \in [Index -> BOOLEAN]

-----------------------------------------------------------------------------
(* Publishing                                                              *)

\* Of several events of one poll with the same key the first one counts.
Enters(say, key, room) ==
  {i \in Index : /\ say[i] # "nothing" /\ room
                 /\ recent[key[i]] = 0
                 /\ \A j \in 1..i - 1 : say[j] # "nothing" => key[j] # key[i]}

\* The memory is written before the event is offered to the queue, and
\* _enqueue swallows the refusal: an event that is refused, as a duplicate or
\* for want of room, is not offered again.
Publish(new, say, key) ==
  \E room \in BOOLEAN :
    LET entered == Enters(say, key, room) IN
    /\ memory' = new
    /\ told' = [i \in Index |-> IF i \in entered THEN say[i] ELSE told[i]]
    /\ missed' = [i \in Index |-> IF say[i] = "nothing" THEN missed[i]
                                  ELSE i \notin entered]
    /\ seeded' = [i \in Index |-> IF new[i] = memory[i] THEN seeded[i]
                                  ELSE memory[i] = Unknown]
    /\ recent' = [k \in Keys |->
                    IF \E i \in entered : key[i] = k THEN Window ELSE recent[k]]

\* What the poll function of the thing's group learns from an answer.
Learned(i) == R(i).learns[memory[i]][world[i]]

\* The memory and the events after an answer of group g.
AfterAnswer(g) ==
  Publish([i \in Index |->
             IF i \notin Here(g) THEN memory[i]
             ELSE IF ~R(i).kept THEN Unknown
             ELSE IF world[i] # Absent THEN Learned(i)
             ELSE IF R(i).absent = "forget" THEN Unknown ELSE memory[i]],
          [i \in Index |-> IF i \in Here(g) /\ world[i] # Absent
                           THEN R(i).says[memory[i]][Learned(i)] ELSE "nothing"],
          [i \in Index |-> R(i).key])

\* After an error, where mode[i] is what it does to the memory.
AfterError(mode) ==
  Publish([i \in Index |-> CASE mode[i] = "keep"   -> memory[i]
                             [] mode[i] = "forget" -> Unknown
                             [] OTHER              -> mode[i]],
          [i \in Index |-> IF mode[i] \in {"keep", "forget"} THEN "nothing"
                           ELSE R(i).says[memory[i]][mode[i]]],
          [i \in Index |-> R(i).errorKey])

\* Occurrences are gone once the poll that asks for them is over.
Passed(hit, ok) ==
  world' = [i \in Index |->
              IF i \in hit /\ (R(i).since = "attempt" \/ (ok /\ R(i).since = "success"))
              THEN Absent ELSE world[i]]

-----------------------------------------------------------------------------
(* The loop                                                                *)

Visited == IF Adapter.isolated THEN {g \in 1..MaxGroup : Here(g) # {}}
           ELSE 1..Adapter.groups

Disabled(g) == g \in Adapter.optional /\ refused[g] = MaxRefusals

Smallest(S) == CHOOSE g \in S : \A h \in S : g <= h

\* To the next poll function after g that is not switched off, or to the wait.
GoOn(g) ==
  LET left == {h \in Visited : h > g /\ ~(h \in Adapter.optional /\ refused'[h] = MaxRefusals)}
  IN  IF left = {} THEN phase' = "waiting" /\ turn' = 0
      ELSE phase' = "polling" /\ turn' = Smallest(left)

Longer_Uncapped == 2 * delay     \* MUTANT: no max_backoff
Longer == IF 2 * delay > MaxDelay THEN MaxDelay ELSE 2 * delay

\* _update_adaptive_state; other checks of the scan may find problems too.
Paced(problem) ==
  pace' = IF ~Adapter.adaptive THEN pace
          ELSE IF problem THEN CleanScans
          ELSE IF pace > 0 THEN pace - 1 ELSE 0

Connect ==
  /\ phase = "connecting"
  /\ delay' = 1
  /\ refused' = refused
  /\ GoOn(0)
  /\ UNCHANGED <<watched, world, memory, pace, recent, told, missed, seeded>>

\* The connection fails: start() of some adapters returns, and with it their
\* task ends; the others wait and try again.
ConnectFails ==
  /\ phase = "connecting"
  /\ IF Adapter.connect = "once"
     THEN phase' = "gave_up" /\ delay' = delay
     ELSE phase' = "retrying" /\ delay' = Longer
  /\ UNCHANGED <<watched, world, memory, turn, refused, pace, recent, told, missed, seeded>>

\* The service refuses the credentials: start() returns.
AuthFails ==
  /\ phase = "connecting" /\ Adapter.connect \in {"stream", "held"}
  /\ phase' = "refused"
  /\ UNCHANGED <<watched, world, memory, turn, delay, refused, pace, recent, told,
                 missed, seeded>>

\* A poll function, or the handling of a message, comes to its end.
Answer(g) ==
  /\ phase = "polling" /\ turn = g
  /\ AfterAnswer(g)
  /\ Passed(Here(g), TRUE)
  /\ \E others \in BOOLEAN :
       /\ others => Adapter.adaptive
       /\ Paced(others \/ \E i \in Here(g) : /\ world[i] # Absent
                                           /\ R(i).says[memory[i]][Learned(i)] = "alarm")
  /\ refused' = [refused EXCEPT ![g] = IF Disabled(g) THEN @ ELSE 0]
  /\ GoOn(g)
  /\ delay' = IF phase' = "waiting" THEN 1 ELSE delay
  /\ watched' = watched

\* A fetch fails and the poll function carries on.
Swallow(g) ==
  /\ phase = "polling" /\ turn = g /\ g \in Adapter.quiet
  /\ AfterError([i \in Index |-> IF g \in R(i).forgottenBy THEN "forget"
                                 ELSE IF i \in Here(g) THEN R(i).failed ELSE "keep"])
  /\ Passed(Here(g), FALSE)
  /\ Paced(\E i \in Here(g) : /\ R(i).failed \in R(i).bad
                              /\ R(i).says[memory[i]][R(i).failed] = "alarm")
  /\ refused' = refused
  /\ GoOn(g)
  /\ delay' = IF phase' = "waiting" THEN 1 ELSE delay
  /\ watched' = watched

\* An exception leaves the poll function: the next group follows where the
\* groups are isolated, otherwise the round is over.  An exception that is
\* neither a timeout nor a ClientError is an outage only with catchall.
Fail(g) ==
  /\ phase = "polling" /\ turn = g /\ Adapter.connect \notin {"stream", "held"}
  /\ LET hit == IF Adapter.isolated THEN Here(g) ELSE Index
         asked == IF Adapter.isolated THEN Here(g) ELSE {i \in Index : R(i).group <= g}
     IN  /\ \E known \in BOOLEAN :
              AfterError([i \in Index |->
                IF i \in hit /\ (known \/ Adapter.catchall) THEN R(i).outage ELSE "keep"])
         /\ Passed(asked, FALSE)
  /\ refused' = refused
  /\ GoOn(IF Adapter.isolated THEN g ELSE MaxGroup)
  /\ delay' = IF ~Adapter.backoff THEN 1 ELSE Longer
  /\ UNCHANGED <<watched, pace>>

\* The service does not offer the endpoint (403 or 404).
Unsupported(g) ==
  /\ phase = "polling" /\ turn = g /\ g \in Adapter.optional
  /\ refused' = [refused EXCEPT ![g] = @ + 1]
  /\ Passed(Here(g), FALSE)
  /\ GoOn(g)
  /\ UNCHANGED <<watched, memory, delay, pace, recent, told, missed, seeded>>

\* The connection of a stream breaks: it is made again, after the backoff or,
\* when the messages just end, at once.  ha_log_poller keeps the broken one.
Disconnect ==
  /\ phase = "polling" /\ Adapter.connect \in {"stream", "held"}
  /\ IF Adapter.connect = "held" THEN phase' = "severed" /\ delay' = delay
     ELSE \/ phase' = "retrying" /\ delay' = Longer
          \/ phase' = "connecting" /\ delay' = delay
  /\ turn' = 0
  /\ Passed(Index, FALSE)
  /\ UNCHANGED <<watched, memory, refused, pace, recent, told, missed, seeded>>

\* The wait is over; with a shortened interval it may be too short to count.
Elapse ==
  /\ phase \in {"waiting", "retrying"}
  /\ refused' = refused
  /\ IF phase = "retrying" THEN phase' = "connecting" /\ turn' = 0 ELSE GoOn(0)
  /\ \E t \in {delay} \union IF pace > 0 THEN {0} ELSE {} :
       recent' = [k \in Keys |-> IF recent[k] > t THEN recent[k] - t ELSE 0]
  /\ UNCHANGED <<watched, world, memory, delay, pace, told, missed, seeded>>

\* stop(): the task is cancelled wherever it is.
Stop ==
  /\ phase \notin Ended
  /\ phase' = "stopped" /\ turn' = 0
  /\ UNCHANGED <<watched, world, memory, delay, refused, pace, recent, told, missed, seeded>>

\* Something happens out there.
Happen(i) ==
  /\ phase \notin Ended
  /\ R(i).since = "never" \/ world[i] = Absent
  /\ \E a \in R(i).answers \ {world[i]} : world' = [world EXCEPT ![i] = a]
  /\ UNCHANGED <<watched, memory, phase, turn, delay, refused, pace, recent, told,
                 missed, seeded>>

Init ==
  /\ watched \in Watch
  /\ world \in [Index -> UNION {R(i).answers : i \in Index}]
  /\ \A i \in Index : world[i] \in R(i).answers
  /\ memory = [i \in Index |-> Unknown]
  /\ IF Adapter.connect = "none" THEN phase = "polling" /\ turn = Smallest(Visited)
     ELSE phase = "connecting" /\ turn = 0
  /\ delay = 1
  /\ refused = [g \in 1..MaxGroup |-> 0]
  /\ pace = 0
  /\ recent = [k \in Keys |-> 0]
  /\ told = [i \in Index |-> "nothing"]
  /\ missed = [i \in Index |-> FALSE]
  /\ seeded = [i \in Index |-> FALSE]

Poll == \E g \in 1..MaxGroup : Answer(g) \/ Swallow(g) \/ Fail(g) \/ Unsupported(g)

Next ==
  \/ Connect \/ ConnectFails \/ AuthFails
  \/ Poll \/ Disconnect
  \/ Elapse \/ Stop
  \/ \E i \in Index : Happen(i)

\* The loop goes on, and a service that is asked again and again answers again
\* and again.  Only loops with isolated groups have more than three, and of
\* those a behaviour visits the watched ones.
Fairness ==
  /\ WF_vars(Elapse) /\ SF_vars(Connect)
  /\ \A g \in 1..2 : SF_vars(Answer(g))
  /\ SF_vars(\E g \in 3..MaxGroup : Answer(g))

Spec == Init /\ [][Next]_vars /\ Fairness

-----------------------------------------------------------------------------
(* Properties                                                              *)

\* Rules that take the first state they see for granted, and rules that can
\* leave a bad state without a clear.
SilentFirst ==
  {"portainer_endpoint", "portainer_container", "portainer_stack", "unifi_health",
   "proxmox_node", "proxmox_vm", "proxmox_replication", "n8n_service",
   "overseerr_server"}
NoClear ==
  {"unifi_alarm", "unifi_rogue_ap", "unifi_clients", "npm_dead_host", "qbt_errored",
   "qbt_stalled", "servarr_health", "servarr_failed", "servarr_stuck",
   "plex_library", "emqx_alarm", "emqx_listener", "vaultwarden_api",
   "vaultwarden_slow", "nextcloud_maintenance", "nextcloud_cron", "stalwart_queue",
   "ollama_models", "cert_expiry", "disk_space", "backup_error", "ha_log_entry"}

\* What the rest of the program was last told about a thing agrees with what
\* the adapter remembers of it, over every sequence of answers, errors,
\* disappearances and outages: a remembered problem has been announced and a
\* remembered recovery too.  The exceptions are exactly these: the queue
\* refused the event, the state is that of the first sight and the rule is
\* silent about it, or the rule announces no recovery.
PictureTrue ==
  \A i \in Index :
    R(i).kept /\ ~missed[i] =>
      /\ (memory[i] \in R(i).bad /\ ~(seeded[i] /\ watched[i] \in SilentFirst))
           => told[i] = "alarm"
      /\ (memory[i] \in R(i).good /\ ~seeded[i] /\ watched[i] \notin NoClear)
           => told[i] # "alarm"

\* Why that stays so.  The bookkeeping of the loop and of the optional groups:
\* a group that is switched off is not polled.
Offered == phase = "polling" /\ turn \in Adapter.optional => refused[turn] < MaxRefusals

\* The memory of a thing can be lost.
Forgets(r) ==
  r.absent = "forget" \/ "forget" \in {r.failed, r.outage} \/ r.forgottenBy # {}

\* Nothing has been said of a thing that was never seen, unless its memory can
\* be lost.  A good state is announced even when it is that of the first sight:
\* only a lost memory can leave an alarm behind it.
NothingUnseen ==
  \A i \in Index :
    R(i).kept /\ memory[i] = Unknown /\ ~Forgets(R(i)) => told[i] = "nothing"

Announced ==
  \A i \in Index :
    R(i).kept /\ ~missed[i] =>
      /\ (memory[i] \in R(i).bad /\ ~(seeded[i] /\ watched[i] \in SilentFirst))
           => told[i] = "alarm"
      /\ (memory[i] \in R(i).good /\ (~seeded[i] \/ ~Forgets(R(i)))
            /\ watched[i] \notin NoClear)
           => told[i] # "alarm"

IInv == TypeOK /\ Offered /\ NothingUnseen /\ Announced

\* What a poll would find is what the adapter remembers, as far as it goes:
\* some answers stand for no memory by themselves.
Reflects(i) ==
  \/ ~R(i).kept \/ world[i] = Absent
  \/ IF world[i] \in Memories(i) THEN memory[i] = world[i]
     ELSE \E o \in Memories(i) : memory[i] = R(i).learns[o][world[i]]

\* Every change is noticed in the end: until it has ended, or the group was
\* switched off, the adapter is up to date about each aspect again and again,
\* whatever fails in between (the loop survives each error and no memory is
\* stuck).
Noticed ==
  \A i \in 1..2 :
    []<>(i \in Index => Reflects(i) \/ phase \in Ended \/ Disabled(R(i).group))

\* "Implementations should handle reconnection internally and never let
\* exceptions propagate: log and retry on transient failures, log and stop
\* on fatal configuration errors" (IngestAdapter.start): an adapter ends only
\* because it was stopped or because its configuration is wrong.
Reconnects == phase \notin {"gave_up", "severed"}
=============================================================================
