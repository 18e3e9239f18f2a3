---------------------------- MODULE InfraMonitors ----------------------------
(***************************************************************************)
(* The rules and loops of the adapters of the infrastructure: Portainer,   *)
(* UniFi, Proxmox, Nginx Proxy Manager, Cloudflare and the HTTP poller.    *)
(***************************************************************************)
EXTENDS Monitors

Levels == FromFirst({"ok"}, {"warning", "critical"})

-----------------------------------------------------------------------------
(* Portainer                                                               *)

PortainerLoop == [Loop("once", 3) EXCEPT !.isolated = TRUE, !.quiet = {2, 3}]

\* _known_endpoints and _endpoint_states are never pruned.
PortainerEndpoint ==
  Rule("portainer", 1, "portainer:endpoint", {"online"}, {"offline"},
       Changes({"online"}, {"offline"}))

\* The containers of an endpoint that is offline, or whose fetch fails, are
\* not among current_keys: the stale cleanup forgets them.
PortainerContainer ==
  [Rule("portainer", 2, "portainer:container", {"ok"}, {"exited", "unhealthy"},
        Changes({"ok"}, {"exited", "unhealthy"}))
     EXCEPT !.absent = "forget", !.forgottenBy = {2}]

PortainerStack ==
  [Rule("portainer", 2, "portainer:stack", {"ok"}, {"degraded", "down"},
        Changes({"ok"}, {"degraded", "down"}))
     EXCEPT !.absent = "forget", !.forgottenBy = {2}]

\* A container's CPU or memory alert.  Absent: the budget of the poll was used
\* up before its turn, or it is not running.  The poll of the containers forgets
\* it when it finds the container gone, as it does when it finds nothing at all;
\* the second stands for both.
PortainerResource ==
  [Rule("portainer", 3, "portainer:resource", {"normal"}, {"high"},
        FromFirst({"normal"}, {"high"}))
     EXCEPT !.forgottenBy = {2}]

-----------------------------------------------------------------------------
(* UniFi                                                                   *)

\* The devices, then alarms, health, ips, rogue_ap, clients, anomalies,
\* events and dpi.
UnifiLoop == [Loop("once", 9) EXCEPT !.isolated = TRUE, !.optional = 2..9]

UnifiDevice ==
  Rule("unifi", 1, "unifi:device", {"connected"}, {"disconnected", "adopting"},
       FromFirst({"connected"}, {"disconnected", "adopting"}))

UnifiResource ==
  Rule("unifi", 1, "unifi:resource", {"normal"}, {"high"},
       FromFirst({"normal"}, {"high"}))

UnifiAlarm ==
  [Rule("unifi", 2, "unifi:alarm", {}, {"raised"}, Onsets({}, {"raised"}))
     EXCEPT !.absent = "forget"]

UnifiHealth ==
  Rule("unifi", 3, "unifi:health", {"ok"}, {"warning", "error"},
       Changes({"ok"}, {"warning", "error"}))

\* The time of the last poll moves on before the request is sent.
UnifiIps == [Sight("unifi", 4, "unifi:ips") EXCEPT !.since = "attempt"]

UnifiRogueAp ==
  [Rule("unifi", 5, "unifi:rogue_ap", {}, {"near"}, Onsets({}, {"near"}))
     EXCEPT !.absent = "forget"]

\* Any large change of the number of clients is an alarm.
UnifiClients ==
  Rule("unifi", 6, "unifi:clients", {"few", "many"}, {},
       [o \in {"few", "many", Unknown} |-> [n \in {"few", "many"} |->
          IF o \in {Unknown, n} THEN "nothing" ELSE "alarm"]])

UnifiAnomaly == [Sight("unifi", 7, "unifi:anomaly") EXCEPT !.since = "attempt"]
UnifiEvent   == [Sight("unifi", 8, "unifi:event") EXCEPT !.since = "attempt"]
UnifiDpi     == Sight("unifi", 9, "unifi:dpi")

-----------------------------------------------------------------------------
(* Proxmox                                                                 *)

\* The nodes, their resources, the guests, the replication jobs, the tasks.
ProxmoxLoop == [Loop("once", 5) EXCEPT !.isolated = TRUE, !.quiet = {2}]

ProxmoxNode ==
  Rule("proxmox", 1, "proxmox:node", {"online"}, {"offline"},
       Changes({"online"}, {"offline"}))

ProxmoxResource ==
  Rule("proxmox", 2, "proxmox:resource", {"normal"}, {"high"},
       FromFirst({"normal"}, {"high"}))

\* A guest that leaves another state for "paused" is not reported; "running"
\* is, whatever it was before.
ProxmoxVm ==
  [Rule("proxmox", 3, "proxmox:vm", {"running", "paused"}, {"stopped", "locked"},
        [o \in {"running", "paused", "stopped", "locked", Unknown} |->
         [n \in {"running", "paused", "stopped", "locked"} |->
           IF o \in {Unknown, n} THEN "nothing"
           ELSE IF n \in {"stopped", "locked"} THEN "alarm"
           ELSE IF n = "running" THEN "clear" ELSE "nothing"]])
     EXCEPT !.good = {"running"}]

ProxmoxReplication ==
  Rule("proxmox", 4, "proxmox:replication", {"fine"}, {"failing"},
       Changes({"fine"}, {"failing"}))

ProxmoxTask == [Sight("proxmox", 5, "proxmox:task") EXCEPT !.since = "attempt"]

-----------------------------------------------------------------------------
(* Nginx Proxy Manager                                                     *)

NpmLoop == [Loop("retry", 3) EXCEPT !.isolated = TRUE]

NpmProxyHost ==
  [Rule("npm", 1, "npm:proxy_host", {"online"}, {"disabled"},
        FromFirst({"online"}, {"disabled"})) EXCEPT !.absent = "forget"]

NpmCertificate == Rule("npm", 2, "npm:cert", {"ok"}, {"warning", "critical"}, Levels)

NpmDeadHost ==
  [Rule("npm", 3, "npm:dead_host", {}, {"dead"}, Onsets({}, {"dead"}))
     EXCEPT !.absent = "forget"]

-----------------------------------------------------------------------------
(* Cloudflare                                                              *)

CloudflareLoop == [Loop("once", 3) EXCEPT !.isolated = TRUE]

CloudflareTunnel ==
  [Rule("cloudflare", 1, "cloudflare:tunnel", {"active"}, {"inactive", "down"},
        FromFirst({"active"}, {"inactive", "down"})) EXCEPT !.absent = "forget"]

\* Enough blocked requests since the last poll.
CloudflareWaf == [Sight("cloudflare", 2, "cloudflare:waf") EXCEPT !.since = "attempt"]

CloudflareSsl ==
  Rule("cloudflare", 3, "cloudflare:ssl", {"ok"}, {"warning", "critical"}, Levels)

-----------------------------------------------------------------------------
(* The HTTP poller, one loop per target                                    *)

HttpLoop == Loop("none", 1)

\* MUTANT: an answer to a target known as unhealthy is passed over.
HttpHealth_Stuck ==
  [Rule("http_poller", 1, "http:health_check", {"healthy"}, {"unhealthy"},
        FromFirst({"healthy"}, {"unhealthy"}))
     EXCEPT !.answers = {"healthy", "unhealthy"}, !.outage = "unhealthy",
            !.errorKey = "http:connection_error",
            !.learns = [o \in {"healthy", "unhealthy", Unknown} |->
                         [a \in {"healthy", "unhealthy"} |->
                            IF o = "unhealthy" THEN o ELSE a]]]

\* A connection error is reported under a key of its own; the recovery from
\* it is that of the health check.
HttpHealth ==
  [Rule("http_poller", 1, "http:health_check", {"healthy"}, {"unhealthy"},
        FromFirst({"healthy"}, {"unhealthy"}))
     EXCEPT !.answers = {"healthy", "unhealthy"}, !.outage = "unhealthy",
            !.errorKey = "http:connection_error"]

HttpExtract == Sight("http_poller", 1, "http:extract")

HttpThreshold ==
  Rule("http_poller", 1, "http:threshold", {"ok"}, {"warning", "critical"}, Levels)

\* With the modes extract and threshold no answer ever sets the target's
\* health back: its first connection error is also the last one reported.
HttpConnection ==
  [Rule("http_poller", 1, "http:connection_error", {"up"}, {"down"},
        FromFirst({"up"}, {"down"}))
     EXCEPT !.answers = {Absent}, !.outage = "down"]

-----------------------------------------------------------------------------
InfraLoops ==
  [portainer |-> PortainerLoop, unifi |-> UnifiLoop, proxmox |-> ProxmoxLoop,
   npm |-> NpmLoop, cloudflare |-> CloudflareLoop, http_poller |-> HttpLoop]

InfraRules ==
  [portainer_endpoint |-> PortainerEndpoint,
   portainer_container |-> PortainerContainer,
   portainer_stack |-> PortainerStack,
   portainer_resource |-> PortainerResource,
   unifi_device |-> UnifiDevice, unifi_resource |-> UnifiResource,
   unifi_alarm |-> UnifiAlarm, unifi_health |-> UnifiHealth,
   unifi_ips |-> UnifiIps, unifi_rogue_ap |-> UnifiRogueAp,
   unifi_clients |-> UnifiClients, unifi_anomaly |-> UnifiAnomaly,
   unifi_event |-> UnifiEvent, unifi_dpi |-> UnifiDpi,
   proxmox_node |-> ProxmoxNode, proxmox_resource |-> ProxmoxResource,
   proxmox_vm |-> ProxmoxVm, proxmox_replication |-> ProxmoxReplication,
   proxmox_task |-> ProxmoxTask,
   npm_proxy_host |-> NpmProxyHost, npm_certificate |-> NpmCertificate,
   npm_dead_host |-> NpmDeadHost,
   cloudflare_tunnel |-> CloudflareTunnel, cloudflare_waf |-> CloudflareWaf,
   cloudflare_ssl |-> CloudflareSsl,
   http_health |-> HttpHealth, http_extract |-> HttpExtract,
   http_threshold |-> HttpThreshold, http_connection |-> HttpConnection]
=============================================================================
