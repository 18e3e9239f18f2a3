--------------------------- MODULE ServiceMonitors ---------------------------
(***************************************************************************)
(* The rules and loops of the adapters of single services, and of the      *)
(* message streams (Home Assistant, MQTT).                                 *)
(***************************************************************************)
EXTENDS Monitors

\* One session per poll, any error ends the round, the wait doubles meanwhile.
Polled(groups) == [Loop("none", groups) EXCEPT !.backoff = TRUE]

\* The same, with _handle_failure for every exception.
Watched(groups, quiet) ==
  [Polled(groups) EXCEPT !.quiet = quiet, !.catchall = TRUE]

\* Reported once while it stays, and again if it comes back.
Seen(adapter, group, key, what) ==
  [Rule(adapter, group, key, {}, {what}, Onsets({}, {what}))
     EXCEPT !.absent = "forget"]

-----------------------------------------------------------------------------
(* Frigate                                                                 *)

FrigateLoop == Loop("retry", 2)

FrigateCamera ==
  [Rule("frigate", 1, "frigate:camera", {"online"}, {"offline"},
        FromFirst({"online"}, {"offline"})) EXCEPT !.absent = "forget"]

FrigateDetector ==
  Rule("frigate", 1, "frigate:detector", {"fast"}, {"slow"},
       FromFirst({"fast"}, {"slow"}))

\* The time of the last poll moves on when the answer is there.
FrigateSpike == [Sight("frigate", 2, "frigate:events") EXCEPT !.since = "success"]

-----------------------------------------------------------------------------
(* Uptime Kuma                                                             *)

UptimeLoop == Loop("retry", 1)

\* Three aspects of a monitor; unless the monitor has a URL for the key of its
\* certificate, their events share one dedup key.
UptimeStatus ==
  Rule("uptime_kuma", 1, "uptime_kuma:monitor", {"up"}, {"down"},
       FromFirst({"up"}, {"down"}))

\* Between the threshold and four fifths of it, slow stays slow.
UptimeResponse ==
  [Rule("uptime_kuma", 1, "uptime_kuma:monitor", {"fast"}, {"slow"},
        FromFirst({"fast"}, {"slow"}))
     EXCEPT !.answers = {"fast", "slow", "between", Absent},
            !.learns = [o \in {"fast", "slow", Unknown} |->
                         [a \in {"fast", "slow", "between"} |->
                            IF a # "between" THEN a
                            ELSE IF o = "slow" THEN "slow" ELSE "fast"]]]

UptimeCert ==
  Rule("uptime_kuma", 1, "uptime_kuma:monitor", {"ok"}, {"warning", "critical"},
       FromFirst({"ok"}, {"warning", "critical"}))

-----------------------------------------------------------------------------
(* qBittorrent, Servarr, Tautulli, Tdarr, n8n, Overseerr                   *)

QbittorrentLoop == Polled(3)
QbtConnection ==
  [Rule("qbittorrent", 1, "qbittorrent:connection", {"connected"}, {"disconnected"},
        FromFirst({"connected"}, {"disconnected"}))
     EXCEPT !.answers = {"connected", "disconnected"}]
QbtErrored == Seen("qbittorrent", 2, "qbittorrent:error", "errored")
QbtStalled == Seen("qbittorrent", 3, "qbittorrent:stalled", "stalled")

ServarrLoop == Polled(2)
ServarrHealth == Seen("servarr", 1, "servarr:health", "issue")

\* A download in the queue: failed, or downloading for too long.
ServarrQueue(key, what) == Seen("servarr", 2, key, what)

TautulliLoop == Polled(2)
TautulliPlex ==
  Rule("tautulli", 1, "tautulli:plex", {"up"}, {"down"}, FromFirst({"up"}, {"down"}))
TautulliBandwidth ==
  Rule("tautulli", 2, "tautulli:bandwidth", {"normal"}, {"high"},
       FromFirst({"normal"}, {"high"}))

TdarrLoop == Polled(1)
TdarrWorker ==
  Rule("tdarr", 1, "tdarr:worker", {"online"}, {"offline"},
       FromFirst({"online"}, {"offline"}))

\* MUTANT: an empty queue clears the mark and says nothing.
TdarrQueue_Silent ==
  [Rule("tdarr", 1, "tdarr:queue", {"moving", "paused_1", "paused_2"}, {"stuck"},
        Onsets({"moving", "paused_1", "paused_2"}, {"stuck"}))
     EXCEPT !.answers = {"moving", "standing"},
            !.learns = [o \in {"moving", "paused_1", "paused_2", "stuck", Unknown} |->
              [a \in {"moving", "standing"} |->
                 IF a = "moving" \/ o = Unknown THEN "moving"
                 ELSE CASE o = "moving"   -> "paused_1"
                        [] o = "paused_1" -> "paused_2"
                        [] OTHER          -> "stuck"]]]

\* The queue is stuck when _STUCK_POLL_THRESHOLD polls in a row find nothing
\* more processed; "moving" stands for an empty queue too.
TdarrQueue ==
  [Rule("tdarr", 1, "tdarr:queue", {"moving", "paused_1", "paused_2"}, {"stuck"},
        FromFirst({"moving", "paused_1", "paused_2"}, {"stuck"}))
     EXCEPT !.answers = {"moving", "standing"},
            !.learns = [o \in {"moving", "paused_1", "paused_2", "stuck", Unknown} |->
              [a \in {"moving", "standing"} |->
                 IF a = "moving" \/ o = Unknown THEN "moving"
                 ELSE CASE o = "moving"   -> "paused_1"
                        [] o = "paused_1" -> "paused_2"
                        [] OTHER          -> "stuck"]]]

\* n8n is not reported unreachable before it has been reached.
N8nLoop == Polled(2)
N8nService == [Service("n8n", "n8n:service") EXCEPT !.says = Changes({"up"}, {"down"})]
N8nExecution == [Sight("n8n", 2, "n8n:execution") EXCEPT !.since = "attempt"]

\* Only an answer with another status than 200 counts: a connection error, or
\* an error status, ends the poll before.
OverseerrLoop == Polled(1)
OverseerrServer ==
  [Rule("overseerr", 1, "overseerr:server", {"ok"}, {"odd"}, Changes({"ok"}, {"odd"}))
     EXCEPT !.answers = {"ok", "odd"}]

-----------------------------------------------------------------------------
(* Plex, EMQX, Vaultwarden, Nextcloud, Stalwart, Ollama                    *)

PlexLoop == Polled(2)
PlexServer == Service("plex", "plex:server")
PlexLibrary == Seen("plex", 2, "plex:library", "empty")

EmqxLoop == Watched(3, {2, 3})
EmqxService == Service("emqx", "emqx:health")
EmqxAlarm == [Seen("emqx", 2, "emqx:alarm", "active") EXCEPT !.outage = "forget"]
EmqxListener == [Seen("emqx", 3, "emqx:listener", "down") EXCEPT !.outage = "forget"]

VaultwardenLoop == Watched(2, {2})
VaultwardenService == Service("vaultwarden", "vaultwarden:health")
VaultwardenApi ==
  [Rule("vaultwarden", 2, "vaultwarden:degraded", {"ok"}, {"degraded"},
        Onsets({"ok"}, {"degraded"}))
     EXCEPT !.answers = {"ok"}, !.failed = "degraded", !.outage = "forget"]
VaultwardenSlow ==
  [Rule("vaultwarden", 2, "vaultwarden:slow", {"fast"}, {"slow"},
        Onsets({"fast"}, {"slow"}))
     EXCEPT !.answers = {"fast", "slow"}, !.forgottenBy = {2}, !.outage = "forget"]

NextcloudLoop == Watched(1, {})
NextcloudService == Service("nextcloud", "nextcloud:health")
NextcloudMaintenance ==
  [Rule("nextcloud", 1, "nextcloud:maintenance", {"off"}, {"on"}, Onsets({"off"}, {"on"}))
     EXCEPT !.answers = {"off", "on"}, !.outage = "forget"]
NextcloudCron ==
  [Rule("nextcloud", 1, "nextcloud:cron", {"recent"}, {"stale"},
        Onsets({"recent"}, {"stale"})) EXCEPT !.outage = "forget"]

StalwartLoop == Watched(2, {2})
StalwartService == Service("stalwart", "stalwart:health")
StalwartQueue ==
  [Rule("stalwart", 2, "stalwart:queue", {"short"}, {"long"}, Onsets({"short"}, {"long"}))
     EXCEPT !.answers = {"short", "long"}, !.outage = "forget"]

OllamaLoop == Watched(2, {2})
OllamaService == Service("ollama", "ollama:health")
OllamaModels ==
  [Rule("ollama", 2, "ollama:models", {"loaded"}, {"none"}, Onsets({"loaded"}, {"none"}))
     EXCEPT !.answers = {"loaded", "none"}, !.outage = "forget"]

-----------------------------------------------------------------------------
(* Streams                                                                 *)

\* An authentication failure ends start(); anything else is tried again.
HaWebsocketLoop == Loop("stream", 1)

\* What happens while the connection is down is not delivered later.
HaStateChanged == [Sight("ha_websocket", 1, "ha_ws:state") EXCEPT !.since = "attempt"]
HaAutomationError ==
  [Sight("ha_websocket", 1, "ha_ws:automation") EXCEPT !.since = "attempt"]
HaServiceCall == [Sight("ha_websocket", 1, "ha_ws:service") EXCEPT !.since = "attempt"]

MqttLoop == Loop("stream", 1)
MqttMessage == [Sight("mqtt", 1, "mqtt:message") EXCEPT !.since = "attempt"]

\* _connect_and_poll catches every error of a fetch and fetches again on the
\* same connection; a broken one is never made again.
HaLogLoop == Loop("held", 1)

\* An entry stays in the log.  Its fingerprint is remembered for dedup_window
\* (here three polls); then the same entry is reported again.
HaLogEntry ==
  [Rule("ha_log", 1, "ha_log:entry", {}, {"seen_1", "seen_2", "seen_3"},
        [o \in {"seen_1", "seen_2", "seen_3", Unknown} |->
           [n \in {"seen_1", "seen_2", "seen_3"} |->
              IF n = "seen_1" THEN "alarm" ELSE "nothing"]])
     EXCEPT !.answers = {"logged"},
            !.learns = [o \in {"seen_1", "seen_2", "seen_3", Unknown} |-> [a \in {"logged"} |->
              CASE o = "seen_1" -> "seen_2" [] o = "seen_2" -> "seen_3" [] OTHER -> "seen_1"]]]

-----------------------------------------------------------------------------
ServiceLoops ==
  [frigate |-> FrigateLoop, uptime_kuma |-> UptimeLoop,
   qbittorrent |-> QbittorrentLoop, servarr |-> ServarrLoop,
   tautulli |-> TautulliLoop, tdarr |-> TdarrLoop, n8n |-> N8nLoop,
   overseerr |-> OverseerrLoop, plex |-> PlexLoop, emqx |-> EmqxLoop,
   vaultwarden |-> VaultwardenLoop, nextcloud |-> NextcloudLoop,
   stalwart |-> StalwartLoop, ollama |-> OllamaLoop,
   ha_websocket |-> HaWebsocketLoop, mqtt |-> MqttLoop, ha_log |-> HaLogLoop]

ServiceRules ==
  [frigate_camera |-> FrigateCamera, frigate_detector |-> FrigateDetector,
   frigate_spike |-> FrigateSpike,
   uptime_status |-> UptimeStatus, uptime_response |-> UptimeResponse,
   uptime_cert |-> UptimeCert,
   qbt_connection |-> QbtConnection, qbt_errored |-> QbtErrored,
   qbt_stalled |-> QbtStalled, servarr_health |-> ServarrHealth,
   servarr_failed |-> ServarrQueue("servarr:queue_failed", "failed"),
   servarr_stuck |-> ServarrQueue("servarr:queue_stuck", "stuck"),
   tautulli_plex |-> TautulliPlex, tautulli_bandwidth |-> TautulliBandwidth,
   tdarr_worker |-> TdarrWorker, tdarr_queue |-> TdarrQueue,
   n8n_service |-> N8nService, n8n_execution |-> N8nExecution,
   overseerr_server |-> OverseerrServer,
   plex_server |-> PlexServer, plex_library |-> PlexLibrary,
   emqx_service |-> EmqxService, emqx_alarm |-> EmqxAlarm,
   emqx_listener |-> EmqxListener,
   vaultwarden_service |-> VaultwardenService, vaultwarden_api |-> VaultwardenApi,
   vaultwarden_slow |-> VaultwardenSlow,
   nextcloud_service |-> NextcloudService,
   nextcloud_maintenance |-> NextcloudMaintenance, nextcloud_cron |-> NextcloudCron,
   stalwart_service |-> StalwartService, stalwart_queue |-> StalwartQueue,
   ollama_service |-> OllamaService, ollama_models |-> OllamaModels,
   ha_state |-> HaStateChanged, ha_automation |-> HaAutomationError,
   ha_service |-> HaServiceCall, mqtt_message |-> MqttMessage,
   ha_log_entry |-> HaLogEntry]
=============================================================================
