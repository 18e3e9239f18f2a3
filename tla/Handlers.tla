------------------------------ MODULE Handlers ------------------------------
(***************************************************************************)
(* The action handlers (handlers/): what their operations do to the thing  *)
(* they act on, and how the orchestrator calls and verifies them.          *)
(***************************************************************************)
EXTENDS Integers

CONSTANTS
  Worker,     \* the coroutines that may run a handler
  MaxPolls    \* verify_timeout in intervals of verify_poll_interval

ASSUME HandlersAssumption == MaxPolls \in Nat \ {0}

-----------------------------------------------------------------------------
(* The operations                                                          *)

\* effect   what a successful request does to the thing
\* later    the request only starts a task; the effect comes afterwards
\* expects  the states verify() waits for; {}: it confirms at once
\* once     verify() looks only once
Operation(handler, effect) ==
  [handler |-> handler, effect |-> effect,
   later |-> FALSE, expects |-> {}, once |-> FALSE]

\* Reads and notify change nothing.
Query(handler) == Operation(handler, "nothing")

HomeAssistantOps ==
  [notify_ha           |-> Query("homeassistant"),
   restart_integration |-> [Operation("homeassistant", "restart")
                              EXCEPT !.expects = {"up"}],
   reload_automations  |-> Operation("homeassistant", "change"),
   call_service        |-> Operation("homeassistant", "change"),
   get_entity_state    |-> Query("homeassistant"),
   get_error_log       |-> Query("homeassistant")]

DockerOps ==
  [docker_restart_container |-> [Operation("docker", "restart")
                                   EXCEPT !.expects = {"up"}],
   docker_read              |-> Query("docker")]

PortainerOps ==
  [notify_portainer  |-> Query("portainer"),
   restart_container |-> [Operation("portainer", "restart")
                            EXCEPT !.expects = {"up"}],
   start_container   |-> [Operation("portainer", "start")
                            EXCEPT !.expects = {"up"}],
   stop_container    |-> [Operation("portainer", "stop")
                            EXCEPT !.expects = {"down"}],
   portainer_read    |-> Query("portainer")]

\* A guest whose node is neither given nor in the inventory cannot be reached.
ProxmoxGuest(effect, expects) ==
  [Operation("proxmox", effect) EXCEPT !.later = TRUE, !.expects = expects]

ProxmoxOps ==
  [notify_proxmox |-> Query("proxmox"),
   get_vm_status  |-> Query("proxmox"),
   start_vm       |-> ProxmoxGuest("start", {"up"}),
   stop_vm        |-> ProxmoxGuest("stop", {"down"}),
   reboot_vm      |-> ProxmoxGuest("restart", {"up"}),
   proxmox_read   |-> Query("proxmox"),
   get_task_log   |-> Query("proxmox")]

UnifiOps ==
  [notify_unifi   |-> Query("unifi"),
   restart_device |-> [Operation("unifi", "restart")
                         EXCEPT !.later = TRUE, !.expects = {"up"}],
   block_client   |-> Operation("unifi", "change"),
   unblock_client |-> Operation("unifi", "change")]

\* The firewall rule of block_ip is "up" when it is there.
CloudflareOps ==
  [notify_cloudflare |-> Query("cloudflare"),
   purge_cache       |-> Operation("cloudflare", "change"),
   purge_urls        |-> Operation("cloudflare", "change"),
   block_ip          |-> [Operation("cloudflare", "start")
                            EXCEPT !.expects = {"up"}, !.once = TRUE],
   unblock_ip        |-> Operation("cloudflare", "stop")]

OpTables == {HomeAssistantOps, DockerOps, PortainerOps, ProxmoxOps, UnifiOps, CloudflareOps}

Operations ==
  [op \in UNION {DOMAIN table : table \in OpTables} |->
     (CHOOSE table \in OpTables : op \in DOMAIN table)[op]]

IsNotify(op) == op \in {"notify_ha", "notify_portainer", "notify_proxmox",
                        "notify_unifi", "notify_cloudflare"}

-----------------------------------------------------------------------------
(* A call of a handler                                                     *)

VARIABLE run   \* per worker: the operation it runs and the thing it is about

Idle == [op |-> "none", phase |-> "idle", thing |-> "up", done |-> FALSE,
         due |-> FALSE, polls |-> 0, sight |-> FALSE, verdict |-> "none"]

Op(w) == Operations[run[w].op]

\* The states a thing can be in once `effect` has taken place: what was
\* restarted may come up or not.
After(effect, thing) ==
  CASE effect = "start"   -> {"up"}
    [] effect = "stop"    -> {"down"}
    [] effect = "restart" -> {"up", "down"}
    [] OTHER              -> {thing}

Run == [op : DOMAIN Operations \union {"none"},
        phase : {"idle", "calling", "verifying", "finished"},
        thing : {"up", "down"}, done : BOOLEAN, due : BOOLEAN,
        polls : 0..MaxPolls, sight : BOOLEAN,
        verdict : {"none", "failed", "unverified", "verified"}]

TypeRun == run \in [Worker -> Run]

Begin(w, op) ==
  \E thing \in {"up", "down"} :
    run' = [run EXCEPT ![w] = [Idle EXCEPT !.op = op, !.phase = "calling", !.thing = thing]]

\* execute() returns FAILURE or raises: a parameter is missing, or the request
\* failed, before or after it had its effect.
CallFails(w) ==
  /\ run[w].phase = "calling"
  /\ \/ run' = [run EXCEPT ![w].phase = "finished", ![w].verdict = "failed"]
     \/ /\ Op(w).effect # "nothing"
        /\ \E t \in After(Op(w).effect, run[w].thing) :
             run' = [run EXCEPT ![w].phase = "finished", ![w].verdict = "failed",
                                ![w].thing = t, ![w].done = TRUE]

\* execute() returns SUCCESS; _verify_action follows, except in a dry run.
CallSucceeds(w, dry) ==
  /\ run[w].phase = "calling"
  /\ \E t \in After(Op(w).effect, run[w].thing) :
       LET called == IF Op(w).later THEN [run[w] EXCEPT !.due = TRUE]
                     ELSE [run[w] EXCEPT !.thing = t, !.done = TRUE]
       IN  run' = [run EXCEPT ![w] =
             IF dry THEN [called EXCEPT !.phase = "finished"]
             ELSE IF Op(w).expects = {}
                  THEN [called EXCEPT !.phase = "finished", !.verdict = "verified"]
                  ELSE [called EXCEPT !.phase = "verifying"]]

\* The task a request has started gets done.
TakeEffect(w) ==
  /\ run[w].due
  /\ \E t \in After(Op(w).effect, run[w].thing) :
       run' = [run EXCEPT ![w].thing = t, ![w].done = TRUE, ![w].due = FALSE]

\* The thing changes by itself while verify() watches it.
Drift(w) ==
  /\ run[w].phase = "verifying"
  /\ run' = [run EXCEPT ![w].thing = IF @ = "up" THEN "down" ELSE "up"]

Settle(w, verdict) ==
  run' = [run EXCEPT ![w].phase = "finished", ![w].verdict = verdict,
                     ![w].sight = run[w].thing \in Op(w).expects]

\* MUTANT: a request that fails is taken for an answer.
LookFails_Counts(w) ==
  /\ run[w].phase = "verifying" /\ run[w].polls < MaxPolls
  /\ Settle(w, "verified")

\* A request of verify() fails: it is tried again, unless verify() looks only
\* once or the error is not a ClientError.
LookFails(w) ==
  /\ run[w].phase = "verifying" /\ run[w].polls < MaxPolls
  /\ \/ ~Op(w).once /\ run' = [run EXCEPT ![w].polls = @ + 1]
     \/ Settle(w, "unverified")

\* verify() looks at the thing, and again after an interval, until the deadline.
Look(w) ==
  /\ run[w].phase = "verifying" /\ run[w].polls < MaxPolls
  /\ IF run[w].thing \in Op(w).expects THEN Settle(w, "verified")
     ELSE IF Op(w).once THEN Settle(w, "unverified")
     ELSE run' = [run EXCEPT ![w].polls = @ + 1]

\* MUTANT: the deadline moves on with every poll.
PastDeadline_Renewed(w) ==
  /\ run[w].phase = "verifying" /\ run[w].polls = MaxPolls
  /\ run' = [run EXCEPT ![w].polls = 0]

PastDeadline(w) ==
  /\ run[w].phase = "verifying" /\ run[w].polls = MaxPolls
  /\ Settle(w, "unverified")

HandlerStep(w, dry) ==
  \/ CallFails(w) \/ CallSucceeds(w, dry)
  \/ LookFails(w) \/ Look(w) \/ PastDeadline(w)

ThingStep(w) == TakeEffect(w) \/ Drift(w)

\* A verification that waits for a state has seen the thing in it, and what was
\* asked for has been done by then.  Where the request only starts a task the
\* second part is not true: verify() may see the state from before.
VerifiedMeansDone ==
  \A w \in Worker :
    run[w].verdict = "verified" /\ Op(w).expects # {} =>
      run[w].sight /\ (run[w].done \/ Op(w).later)
=============================================================================
