----------------------------- MODULE MCDispatch -----------------------------
(***************************************************************************)
(* A small instance of Dispatch: two entities of which one is blocked,     *)
(* configurations that differ from the usual one in a single setting, and  *)
(* diagnoses of up to two actions, or of a plan of two steps of which one  *)
(* is about the blocked entity.                                            *)
(***************************************************************************)
EXTENDS Dispatch

MCTarget == {"e1", "e2"}
MCWorker == {"loop", "task"}

AllHandlers == {"homeassistant", "docker", "portainer", "proxmox", "unifi", "cloudflare"}

Usual ==
  [kill |-> FALSE, dry |-> FALSE, blocked |-> {"e2"}, triage |-> TRUE,
   reasoning |-> TRUE, handlers |-> AllHandlers, mqtt |-> TRUE, plans |-> TRUE]

MCConfig ==
  {Usual, [Usual EXCEPT !.kill = TRUE], [Usual EXCEPT !.dry = TRUE],
   [Usual EXCEPT !.triage = FALSE], [Usual EXCEPT !.reasoning = FALSE],
   [Usual EXCEPT !.handlers = AllHandlers \ {"portainer"}, !.mqtt = FALSE, !.plans = FALSE]}

MCFix == {[op |-> "restart_integration", tier |-> "recommend"],
          [op |-> "notify_ha", tier |-> "recommend"],
          [op |-> "unblock_ip", tier |-> "escalate"]}

Do(op, tier, target) == [op |-> op, tier |-> tier, target |-> target]
Answer(actions, plan, hint) == [actions |-> actions, plan |-> plan, hint |-> hint]

OneAction ==
  {Answer(<<Do(op, "auto_fix", NoTarget)>>, <<>>, 1) :
     op \in {"restart_integration", "reboot_vm"}}

TwoActions ==
  {Answer(<<first, Do("block_ip", "auto_fix", "e1")>>, <<>>, 2) :
     first \in {Do("stop_container", "auto_fix", "e2"), Do("stop_container", "auto_fix", NoTarget),
                Do("stop_container", "recommend", NoTarget)}}

WithPlan ==
  {Answer(<<Do("get_task_log", "auto_fix", NoTarget)>>,
          <<Do("stop_vm", "auto_fix", "e1"), Do("start_vm", tier, "e2")>>, 0) :
     tier \in {"auto_fix", "recommend"}}

MCDiagnosis == OneAction \union TwoActions \union WithPlan \union {Answer(<<>>, <<>>, 0)}

MCRestored == {{}, {[op |-> "restart_integration", target |-> NoTarget]}}
=============================================================================
