--------------------------- MODULE IngestionProofs ---------------------------
(***************************************************************************)
(* The ingestion adapters keep the picture they have given of the world,   *)
(* for every choice of the rules followed, every window, every cap.        *)
(*                                                                         *)
(* The argument has two halves.  The first looks at each rule by itself:   *)
(* its tables are well formed and what it says about a transition is true  *)
(* of it.  The second never looks at a rule again: it follows the loop and *)
(* the queue, for rules of which only that is known.                       *)
(***************************************************************************)
EXTENDS Ingestion, TLAPS

\* The adapters that have a loop (AdaptersLoop).
Adapters ==
  {"portainer", "unifi", "proxmox", "npm", "cloudflare", "http_poller", "frigate",
   "uptime_kuma", "qbittorrent", "servarr", "tautulli", "tdarr", "n8n", "overseerr",
   "plex", "emqx", "vaultwarden", "nextcloud", "stalwart", "ollama", "ha_websocket",
   "mqtt", "ha_log", "scan_cert", "scan_disk", "scan_backup", "scan_docker", "scan_ha"}

-----------------------------------------------------------------------------
(* What is asked of a rule                                                 *)

\* The tables of a rule are defined where the loop looks them up.
Typed(r) ==
  /\ DOMAIN r.says = States(r) \union {Unknown}
  /\ r.good \union r.bad \subseteq States(r)
  /\ Unknown \notin States(r)
  /\ \A o \in DOMAIN r.says :
       /\ DOMAIN r.says[o] = States(r)
       /\ \A n \in States(r) : r.says[o][n] \in {"nothing", "alarm", "clear"}
       /\ \A a \in r.answers \ {Absent} : r.learns[o][a] \in States(r)
  /\ {r.failed, r.outage} \subseteq States(r) \union {"keep", "forget"}
  /\ r.since = "never" \/ Absent \in r.answers
  /\ r.group \in 1..9 /\ r.adapter \in Adapters

\* The states that can follow `o`: learned from an answer, or standing for an
\* error.
Reached(r, o) ==
  {r.learns[o][a] : a \in r.answers \ {Absent}}
    \union ({r.failed, r.outage} \ {"keep", "forget"})

\* No alarm about a good state, no clear about a bad one.  A change passed over
\* in silence enters a bad state only from another bad one (or, where the rule
\* is silent at first sight, at first sight), and a good state only at first
\* sight or from another good one of a thing that is never forgotten.
Truthful(name, r) ==
  \A o \in DOMAIN r.says : \A n \in Reached(r, o) :
    /\ r.says[o][n] = "alarm" => n \notin r.good \/ name \in NoClear
    /\ r.says[o][n] = "clear" => n \notin r.bad
    /\ r.says[o][n] = "nothing" /\ n # o =>
         /\ n \in r.bad =>
              IF name \in SilentFirst THEN o = Unknown ELSE o \in r.bad
         /\ n \in r.good /\ name \notin NoClear =>
              o = Unknown \/ (o \in r.good /\ ~Forgets(r))

\* What is proved of every rule.
Sound(name, r) == Typed(r) /\ (r.kept => Truthful(name, r))

\* Most rules remember what they find, and say one of three things about it.
Plain(r) ==
  /\ r.good \intersect r.bad = {}
  /\ r.answers \subseteq r.good \union r.bad \union {Absent}
  /\ r.learns = AsFound(r.good, r.bad)
  /\ {r.failed, r.outage} \subseteq r.good \union r.bad \union {"keep", "forget"}
  /\ r.since = "never" \/ Absent \in r.answers
  /\ r.group \in 1..9 /\ r.adapter \in Adapters
  /\ Forgets(r) => \A x, y \in r.good : x = y

Changing(r)  == Plain(r) /\ r.says = Changes(r.good, r.bad)
Reporting(r) == Plain(r) /\ r.says = FromFirst(r.good, r.bad)
Beginning(r) == Plain(r) /\ r.says = Onsets(r.good, r.bad)

Family(name, r) ==
  \/ name \in SilentFirst /\ name \notin NoClear /\ Changing(r)
  \/ name \notin SilentFirst /\ name \notin NoClear /\ Reporting(r)
  \/ name \notin SilentFirst /\ (name \in NoClear \/ ~r.kept) /\ Beginning(r)

-----------------------------------------------------------------------------
(* The three families                                                      *)

\* What the three tables of events have in common.
LEMMA SaysTyped ==
  ASSUME NEW r,
         r.says \in {Changes(r.good, r.bad), FromFirst(r.good, r.bad),
                     Onsets(r.good, r.bad)}
  PROVE  /\ States(r) = r.good \union r.bad
         /\ DOMAIN r.says = States(r) \union {Unknown}
         /\ \A o \in DOMAIN r.says :
              /\ DOMAIN r.says[o] = States(r)
              /\ \A n \in States(r) : r.says[o][n] \in {"nothing", "alarm", "clear"}
<1>1. /\ DOMAIN r.says = r.good \union r.bad \union {Unknown}
      /\ \A o \in DOMAIN r.says : DOMAIN r.says[o] = r.good \union r.bad
  BY DEF Changes, FromFirst, Onsets
<1>2. States(r) = r.good \union r.bad
  BY <1>1 DEF States
<1>3. \A o \in DOMAIN r.says : \A n \in States(r) :
        r.says[o][n] \in {"nothing", "alarm", "clear"}
  <2> SUFFICES ASSUME NEW o \in r.good \union r.bad \union {Unknown},
                      NEW n \in r.good \union r.bad
               PROVE  r.says[o][n] \in {"nothing", "alarm", "clear"}
    BY <1>1, <1>2
  <2>1. CASE r.says = Changes(r.good, r.bad)
    BY <2>1 DEF Changes
  <2>2. CASE r.says = FromFirst(r.good, r.bad)
    BY <2>2 DEF FromFirst
  <2>3. CASE r.says = Onsets(r.good, r.bad)
    BY <2>3 DEF Onsets
  <2> QED BY <2>1, <2>2, <2>3
<1> QED BY <1>1, <1>2, <1>3

\* A plain rule of any family is well formed.
LEMMA FamilyTyped ==
  ASSUME NEW name, NEW r, Family(name, r), Unknown \notin States(r)
  PROVE  Typed(r)
<1>1. /\ States(r) = r.good \union r.bad
      /\ DOMAIN r.says = States(r) \union {Unknown}
      /\ \A o \in DOMAIN r.says :
           /\ DOMAIN r.says[o] = States(r)
           /\ \A n \in States(r) : r.says[o][n] \in {"nothing", "alarm", "clear"}
  BY SaysTyped DEF Family, Changing, Reporting, Beginning
<1>2. Plain(r)
  BY DEF Family, Changing, Reporting, Beginning
<1>3. \A o \in DOMAIN r.says : \A a \in r.answers \ {Absent} : r.learns[o][a] \in States(r)
  BY <1>1, <1>2 DEF Plain, AsFound
<1> QED BY <1>1, <1>2, <1>3 DEF Typed, Plain

\* A rule that is silent at first sight speaks the truth.
LEMMA ChangingTruthful ==
  ASSUME NEW name \in SilentFirst, NEW r, Changing(r), Unknown \notin States(r)
  PROVE  Truthful(name, r)
BY SaysTyped DEF Changing, Plain, AsFound, Changes, Truthful, Reached

\* So does one that reports what it sees first.
LEMMA ReportingTruthful ==
  ASSUME NEW name, name \notin SilentFirst, NEW r, Reporting(r), Unknown \notin States(r)
  PROVE  Truthful(name, r)
BY SaysTyped DEF Reporting, Plain, AsFound, FromFirst, Truthful, Reached

\* And one that reports the beginning of a problem only.
LEMMA BeginningTruthful ==
  ASSUME NEW name \in NoClear, name \notin SilentFirst,
         NEW r, Beginning(r), Unknown \notin States(r)
  PROVE  Truthful(name, r)
BY SaysTyped DEF Beginning, Plain, AsFound, Onsets, Truthful, Reached

\* The three families are sound.
LEMMA FamilySound ==
  ASSUME NEW name, NEW r, Family(name, r), Unknown \notin States(r)
  PROVE  Sound(name, r)
<1>1. Typed(r)
  BY FamilyTyped
<1>2. CASE name \in SilentFirst /\ name \notin NoClear /\ Changing(r)
  BY <1>1, <1>2, ChangingTruthful DEF Sound
<1>3. CASE name \notin SilentFirst /\ name \notin NoClear /\ Reporting(r)
  BY <1>1, <1>3, ReportingTruthful DEF Sound
<1>4. CASE name \notin SilentFirst /\ (name \in NoClear \/ ~r.kept) /\ Beginning(r)
  BY <1>1, <1>4, BeginningTruthful DEF Sound
<1> QED BY <1>2, <1>3, <1>4 DEF Family

-----------------------------------------------------------------------------
(* The rules with tables of their own                                      *)

\* Every large change of the number of clients is an alarm.
LEMMA UnifiClientsSound ==
  ASSUME NEW r, r = UnifiClients, Unknown \notin States(r)
  PROVE  Sound("unifi_clients", r)
<1> DEFINE S == {"few", "many"}
<1>1. /\ r.answers \ {Absent} \subseteq S
      /\ r.since = "never"
  BY DEF UnifiClients, Rule
<1>2. r.failed = "keep" /\ r.outage = "keep"
  BY DEF UnifiClients, Rule
<1>3. r.group = 6 /\ r.adapter \in Adapters
  BY DEF UnifiClients, Rule, Adapters
<1>4. r.good = S /\ r.bad = {}
  BY DEF UnifiClients, Rule
<1>5. r.learns = AsFound(S, {})
  BY DEF UnifiClients, Rule
<1>6. r.says = [o \in {"few", "many", Unknown} |-> [n \in {"few", "many"} |->
                   IF o \in {Unknown, n} THEN "nothing" ELSE "alarm"]]
  BY DEF UnifiClients, Rule
<1>7. /\ DOMAIN r.says = S \union {Unknown}
      /\ \A o \in DOMAIN r.says : DOMAIN r.says[o] = S
  BY <1>6
<1>8. \A o \in S \union {Unknown} : \A n \in S :
        r.says[o][n] = IF o \in {Unknown, n} THEN "nothing" ELSE "alarm"
  BY <1>6
<1>9. \A o \in S \union {Unknown} : \A a \in S :
        r.learns[o][a] = a
  BY <1>5 DEF AsFound
<1>10. States(r) = S
  BY <1>7 DEF States
<1>11. Typed(r)
  BY <1>1, <1>2, <1>3, <1>4, <1>7, <1>8, <1>9, <1>10 DEF Typed
<1>12. Truthful("unifi_clients", r)
  BY <1>1, <1>2, <1>4, <1>7, <1>8, <1>9 DEF Truthful, Reached, SilentFirst, NoClear
<1> QED BY <1>11, <1>12 DEF Sound

\* Of a guest only "running" is good; "paused" is neither.
LEMMA ProxmoxVmSound ==
  ASSUME NEW r, r = ProxmoxVm, Unknown \notin States(r)
  PROVE  Sound("proxmox_vm", r)
<1> DEFINE S == {"running", "paused", "stopped", "locked"}
<1>1. /\ r.answers \ {Absent} \subseteq S
      /\ r.since = "never"
  BY DEF ProxmoxVm, Rule
<1>2. r.failed = "keep" /\ r.outage = "keep"
  BY DEF ProxmoxVm, Rule
<1>3. r.group = 3 /\ r.adapter \in Adapters
  BY DEF ProxmoxVm, Rule, Adapters
<1>4. r.good = {"running"} /\ r.bad = {"stopped", "locked"}
  BY DEF ProxmoxVm, Rule
<1>5. r.learns = AsFound({"running", "paused"}, {"stopped", "locked"})
  BY DEF ProxmoxVm, Rule
<1>6. r.says = [o \in {"running", "paused", "stopped", "locked", Unknown} |->
                  [n \in {"running", "paused", "stopped", "locked"} |->
                     IF o \in {Unknown, n} THEN "nothing"
                     ELSE IF n \in {"stopped", "locked"} THEN "alarm"
                     ELSE IF n = "running" THEN "clear" ELSE "nothing"]]
  BY DEF ProxmoxVm, Rule
<1>7. /\ DOMAIN r.says = S \union {Unknown}
      /\ \A o \in DOMAIN r.says : DOMAIN r.says[o] = S
  BY <1>6
<1>8. \A o \in S \union {Unknown} : \A n \in S :
        r.says[o][n] = IF o \in {Unknown, n} THEN "nothing"
                     ELSE IF n \in {"stopped", "locked"} THEN "alarm"
                     ELSE IF n = "running" THEN "clear" ELSE "nothing"
  BY <1>6
<1>9. \A o \in S \union {Unknown} : \A a \in S :
        r.learns[o][a] = a
  BY <1>5 DEF AsFound
<1>10. States(r) = S
  BY <1>7 DEF States
<1>11. Typed(r)
  BY <1>1, <1>2, <1>3, <1>4, <1>7, <1>8, <1>9, <1>10 DEF Typed
<1>12. Truthful("proxmox_vm", r)
  BY <1>1, <1>2, <1>4, <1>7, <1>8, <1>9 DEF Truthful, Reached, SilentFirst, NoClear
<1> QED BY <1>11, <1>12 DEF Sound

\* An answer between the thresholds is learned as what it was before.
LEMMA UptimeResponseSound ==
  ASSUME NEW r, r = UptimeResponse, Unknown \notin States(r)
  PROVE  Sound("uptime_response", r)
<1> DEFINE S == {"fast", "slow"}
<1>1. /\ r.answers \ {Absent} \subseteq {"fast", "slow", "between"}
      /\ r.since = "never"
  BY DEF UptimeResponse, Rule
<1>2. r.failed = "keep" /\ r.outage = "keep"
  BY DEF UptimeResponse, Rule
<1>3. r.group = 1 /\ r.adapter \in Adapters
  BY DEF UptimeResponse, Rule, Adapters
<1>4. r.good = {"fast"} /\ r.bad = {"slow"}
  BY DEF UptimeResponse, Rule
<1>5. r.learns = [o \in {"fast", "slow", Unknown} |->
                    [a \in {"fast", "slow", "between"} |->
                       IF a # "between" THEN a
                       ELSE IF o = "slow" THEN "slow" ELSE "fast"]]
  BY DEF UptimeResponse, Rule
<1>6. r.says = FromFirst({"fast"}, {"slow"})
  BY DEF UptimeResponse, Rule
<1>7. /\ DOMAIN r.says = S \union {Unknown}
      /\ \A o \in DOMAIN r.says : DOMAIN r.says[o] = S
  BY <1>6 DEF FromFirst
<1>8. \A o \in S \union {Unknown} : \A n \in S :
        r.says[o][n] = 
                    IF o = n THEN "nothing"
                    ELSE IF n = "slow" THEN "alarm"
                    ELSE IF o = "slow" THEN "clear" ELSE "nothing"
  BY <1>6 DEF FromFirst
<1>9. \A o \in S \union {Unknown} : \A a \in {"fast", "slow", "between"} :
        r.learns[o][a] = 
                    IF a # "between" THEN a
                    ELSE IF o = "slow" THEN "slow" ELSE "fast"
  BY <1>5
<1>10. States(r) = S
  BY <1>7 DEF States
<1>11. Typed(r)
  BY <1>1, <1>2, <1>3, <1>4, <1>7, <1>8, <1>9, <1>10 DEF Typed
<1>12. Truthful("uptime_response", r)
  BY <1>1, <1>2, <1>4, <1>7, <1>8, <1>9 DEF Truthful, Reached, SilentFirst, NoClear
<1> QED BY <1>11, <1>12 DEF Sound

\* A queue becomes stuck in steps.
LEMMA TdarrQueueSound ==
  ASSUME NEW r, r = TdarrQueue, Unknown \notin States(r)
  PROVE  Sound("tdarr_queue", r)
<1> DEFINE S == {"moving", "paused_1", "paused_2", "stuck"}
<1>1. /\ r.answers \ {Absent} \subseteq {"moving", "standing"}
      /\ r.since = "never"
  BY DEF TdarrQueue, Rule, Forgets
<1>2. r.failed = "keep" /\ r.outage = "keep" /\ ~Forgets(r)
  BY DEF TdarrQueue, Rule, Forgets
<1>3. r.group = 1 /\ r.adapter \in Adapters
  BY DEF TdarrQueue, Rule, Forgets, Adapters
<1>4. r.good = {"moving", "paused_1", "paused_2"} /\ r.bad = {"stuck"}
  BY DEF TdarrQueue, Rule, Forgets
<1>5. r.learns = [o \in {"moving", "paused_1", "paused_2", "stuck", Unknown} |->
                    [a \in {"moving", "standing"} |->
                       IF a = "moving" \/ o = Unknown THEN "moving"
                       ELSE CASE o = "moving"   -> "paused_1"
                              [] o = "paused_1" -> "paused_2"
                              [] OTHER          -> "stuck"]]
  BY DEF TdarrQueue, Rule, Forgets
<1>6. r.says = FromFirst({"moving", "paused_1", "paused_2"}, {"stuck"})
  BY DEF TdarrQueue, Rule, Forgets
<1>7. /\ DOMAIN r.says = S \union {Unknown}
      /\ \A o \in DOMAIN r.says : DOMAIN r.says[o] = S
  BY <1>6 DEF FromFirst
<1>8. \A o \in S \union {Unknown} : \A n \in S :
        r.says[o][n] = 
                    IF o = n THEN "nothing"
                    ELSE IF n = "stuck" THEN "alarm"
                    ELSE IF o = "stuck" THEN "clear" ELSE "nothing"
  BY <1>6 DEF FromFirst
<1>9. \A o \in S \union {Unknown} : \A a \in {"moving", "standing"} :
        r.learns[o][a] = 
                    IF a = "moving" \/ o = Unknown THEN "moving"
                    ELSE CASE o = "moving"   -> "paused_1"
                           [] o = "paused_1" -> "paused_2"
                           [] OTHER          -> "stuck"
  BY <1>5
<1>10. States(r) = S
  BY <1>7 DEF States
<1>11. Typed(r)
  BY <1>1, <1>2, <1>3, <1>4, <1>7, <1>8, <1>9, <1>10 DEF Typed
<1>12. Truthful("tdarr_queue", r)
  BY <1>1, <1>2, <1>4, <1>7, <1>8, <1>9 DEF Truthful, Reached, SilentFirst, NoClear
<1> QED BY <1>11, <1>12 DEF Sound

\* The memory of a log entry ages.
LEMMA HaLogEntrySound ==
  ASSUME NEW r, r = HaLogEntry, Unknown \notin States(r)
  PROVE  Sound("ha_log_entry", r)
<1> DEFINE S == {"seen_1", "seen_2", "seen_3"}
<1>1. /\ r.answers \ {Absent} \subseteq {"logged"}
      /\ r.since = "never"
  BY DEF HaLogEntry, Rule
<1>2. r.failed = "keep" /\ r.outage = "keep"
  BY DEF HaLogEntry, Rule
<1>3. r.group = 1 /\ r.adapter \in Adapters
  BY DEF HaLogEntry, Rule, Adapters
<1>4. r.good = {} /\ r.bad = S
  BY DEF HaLogEntry, Rule
<1>5. r.learns = [o \in {"seen_1", "seen_2", "seen_3", Unknown} |-> [a \in {"logged"} |->
                    CASE o = "seen_1" -> "seen_2" [] o = "seen_2" -> "seen_3"
                      [] OTHER -> "seen_1"]]
  BY DEF HaLogEntry, Rule
<1>6. r.says = [o \in {"seen_1", "seen_2", "seen_3", Unknown} |->
                  [n \in {"seen_1", "seen_2", "seen_3"} |->
                     IF n = "seen_1" THEN "alarm" ELSE "nothing"]]
  BY DEF HaLogEntry, Rule
<1>7. /\ DOMAIN r.says = S \union {Unknown}
      /\ \A o \in DOMAIN r.says : DOMAIN r.says[o] = S
  BY <1>6
<1>8. \A o \in S \union {Unknown} : \A n \in S :
        r.says[o][n] = IF n = "seen_1" THEN "alarm" ELSE "nothing"
  BY <1>6
<1>9. \A o \in S \union {Unknown} : \A a \in {"logged"} :
        r.learns[o][a] = 
                    CASE o = "seen_1" -> "seen_2" [] o = "seen_2" -> "seen_3"
                      [] OTHER -> "seen_1"
  BY <1>5
<1>10. States(r) = S
  BY <1>7 DEF States
<1>11. Typed(r)
  BY <1>1, <1>2, <1>3, <1>4, <1>7, <1>8, <1>9, <1>10 DEF Typed
<1>12. Truthful("ha_log_entry", r)
  BY <1>1, <1>2, <1>4, <1>7, <1>8, <1>9 DEF Truthful, Reached, SilentFirst, NoClear
<1> QED BY <1>11, <1>12 DEF Sound

\* A certificate can also be in "error", and so can a disk.
LEMMA CertExpirySound ==
  ASSUME NEW r, r = CertExpiry, Unknown \notin States(r)
  PROVE  Sound("cert_expiry", r)
<1> DEFINE S == {"ok", "warning", "critical", "error"}
<1>1. /\ r.answers \ {Absent} \subseteq {"ok", "warning", "critical"}
      /\ r.since = "never"
  BY DEF CertExpiry, Item, Rule
<1>2. r.failed = "error" /\ r.outage = "keep"
  BY DEF CertExpiry, Item, Rule
<1>3. r.group = 1 /\ r.adapter \in Adapters
  BY DEF CertExpiry, Item, Rule, Adapters
<1>4. r.good = {"ok"} /\ r.bad = {"warning", "critical", "error"}
  BY DEF CertExpiry, Item, Rule
<1>5. r.learns = AsFound({"ok"}, {"warning", "critical", "error"})
  BY DEF CertExpiry, Item, Rule
<1>6. r.says = [o \in {"ok", "warning", "critical", "error", Unknown} |->
                  [n \in {"ok", "warning", "critical", "error"} |-> Checked(o, n)]]
  BY DEF CertExpiry, Item, Rule
<1>7. /\ DOMAIN r.says = S \union {Unknown}
      /\ \A o \in DOMAIN r.says : DOMAIN r.says[o] = S
  BY <1>6
<1>8. \A o \in S \union {Unknown} : \A n \in S :
        r.says[o][n] = Checked(o, n)
  BY <1>6
<1>9. \A o \in S \union {Unknown} : \A a \in {"ok", "warning", "critical"} :
        r.learns[o][a] = a
  BY <1>5 DEF AsFound
<1>10. States(r) = S
  BY <1>7 DEF States
<1>11. Typed(r)
  BY <1>1, <1>2, <1>3, <1>4, <1>7, <1>8, <1>9, <1>10 DEF Typed, Checked
<1>12. Truthful("cert_expiry", r)
  BY <1>1, <1>2, <1>4, <1>7, <1>8, <1>9 DEF Truthful, Reached, Checked, SilentFirst, NoClear
<1> QED BY <1>11, <1>12 DEF Sound

\* The same for a disk.
LEMMA DiskSpaceSound ==
  ASSUME NEW r, r = DiskSpace, Unknown \notin States(r)
  PROVE  Sound("disk_space", r)
<1> DEFINE S == {"ok", "warning", "critical", "error"}
<1>1. /\ r.answers \ {Absent} \subseteq {"ok", "warning", "critical"}
      /\ r.since = "never"
  BY DEF DiskSpace, Item, Rule
<1>2. r.failed = "error" /\ r.outage = "keep"
  BY DEF DiskSpace, Item, Rule
<1>3. r.group = 1 /\ r.adapter \in Adapters
  BY DEF DiskSpace, Item, Rule, Adapters
<1>4. r.good = {"ok"} /\ r.bad = {"warning", "critical", "error"}
  BY DEF DiskSpace, Item, Rule
<1>5. r.learns = AsFound({"ok"}, {"warning", "critical", "error"})
  BY DEF DiskSpace, Item, Rule
<1>6. r.says = [o \in {"ok", "warning", "critical", "error", Unknown} |->
                  [n \in {"ok", "warning", "critical", "error"} |-> Checked(o, n)]]
  BY DEF DiskSpace, Item, Rule
<1>7. /\ DOMAIN r.says = S \union {Unknown}
      /\ \A o \in DOMAIN r.says : DOMAIN r.says[o] = S
  BY <1>6
<1>8. \A o \in S \union {Unknown} : \A n \in S :
        r.says[o][n] = Checked(o, n)
  BY <1>6
<1>9. \A o \in S \union {Unknown} : \A a \in {"ok", "warning", "critical"} :
        r.learns[o][a] = a
  BY <1>5 DEF AsFound
<1>10. States(r) = S
  BY <1>7 DEF States
<1>11. Typed(r)
  BY <1>1, <1>2, <1>3, <1>4, <1>7, <1>8, <1>9, <1>10 DEF Typed, Checked
<1>12. Truthful("disk_space", r)
  BY <1>1, <1>2, <1>4, <1>7, <1>8, <1>9 DEF Truthful, Reached, Checked, SilentFirst, NoClear
<1> QED BY <1>11, <1>12 DEF Sound

-----------------------------------------------------------------------------
(* The tables of the rules                                                 *)

\* Every rule of the infrastructure is sound.
LEMMA InfraRulesSound ==
  ASSUME \A n \in DOMAIN InfraRules : Unknown \notin States(InfraRules[n])
  PROVE  \A n \in DOMAIN InfraRules : Sound(n, InfraRules[n])
<1>1. Changing(PortainerEndpoint)
  BY DEF Changing, Plain, Forgets, Adapters, PortainerEndpoint, Rule
<1>2. Changing(PortainerContainer)
  BY DEF Changing, Plain, Forgets, Adapters, PortainerContainer, Rule
<1>3. Changing(PortainerStack)
  BY DEF Changing, Plain, Forgets, Adapters, PortainerStack, Rule
<1>4. Reporting(PortainerResource)
  BY DEF Reporting, Plain, Forgets, Adapters, PortainerResource, Rule
<1>5. Reporting(UnifiDevice)
  BY DEF Reporting, Plain, Forgets, Adapters, UnifiDevice, Rule
<1>6. Reporting(UnifiResource)
  BY DEF Reporting, Plain, Forgets, Adapters, UnifiResource, Rule
<1>7. Beginning(UnifiAlarm)
  BY DEF Beginning, Plain, Forgets, Adapters, UnifiAlarm, Rule
<1>8. Changing(UnifiHealth)
  BY DEF Changing, Plain, Forgets, Adapters, UnifiHealth, Rule
<1>9. Beginning(UnifiIps) /\ ~UnifiIps.kept
  BY DEF Beginning, Plain, Forgets, Adapters, UnifiIps, Sight, Rule
<1>10. Beginning(UnifiRogueAp)
  BY DEF Beginning, Plain, Forgets, Adapters, UnifiRogueAp, Rule
<1>11. Beginning(UnifiAnomaly) /\ ~UnifiAnomaly.kept
  BY DEF Beginning, Plain, Forgets, Adapters, UnifiAnomaly, Sight, Rule
<1>12. Beginning(UnifiEvent) /\ ~UnifiEvent.kept
  BY DEF Beginning, Plain, Forgets, Adapters, UnifiEvent, Sight, Rule
<1>13. Beginning(UnifiDpi) /\ ~UnifiDpi.kept
  BY DEF Beginning, Plain, Forgets, Adapters, UnifiDpi, Sight, Rule
<1>14. Changing(ProxmoxNode)
  BY DEF Changing, Plain, Forgets, Adapters, ProxmoxNode, Rule
<1>15. Reporting(ProxmoxResource)
  BY DEF Reporting, Plain, Forgets, Adapters, ProxmoxResource, Rule
<1>16. Changing(ProxmoxReplication)
  BY DEF Changing, Plain, Forgets, Adapters, ProxmoxReplication, Rule
<1>17. Beginning(ProxmoxTask) /\ ~ProxmoxTask.kept
  BY DEF Beginning, Plain, Forgets, Adapters, ProxmoxTask, Sight, Rule
<1>18. Reporting(NpmProxyHost)
  BY DEF Reporting, Plain, Forgets, Adapters, NpmProxyHost, Rule
<1>19. Reporting(NpmCertificate)
  BY DEF Reporting, Plain, Forgets, Adapters, NpmCertificate, Rule, Levels
<1>20. Beginning(NpmDeadHost)
  BY DEF Beginning, Plain, Forgets, Adapters, NpmDeadHost, Rule
<1>21. Reporting(CloudflareTunnel)
  BY DEF Reporting, Plain, Forgets, Adapters, CloudflareTunnel, Rule
<1>22. Beginning(CloudflareWaf) /\ ~CloudflareWaf.kept
  BY DEF Beginning, Plain, Forgets, Adapters, CloudflareWaf, Sight, Rule
<1>23. Reporting(CloudflareSsl)
  BY DEF Reporting, Plain, Forgets, Adapters, CloudflareSsl, Rule, Levels
<1>24. Reporting(HttpHealth)
  BY DEF Reporting, Plain, Forgets, Adapters, HttpHealth, Rule
<1>25. Beginning(HttpExtract) /\ ~HttpExtract.kept
  BY DEF Beginning, Plain, Forgets, Adapters, HttpExtract, Sight, Rule
<1>26. Reporting(HttpThreshold)
  BY DEF Reporting, Plain, Forgets, Adapters, HttpThreshold, Rule, Levels
<1>27. Reporting(HttpConnection)
  BY DEF Reporting, Plain, Forgets, Adapters, HttpConnection, Rule
<1>28. \A n \in {"portainer_endpoint", "portainer_container", "portainer_stack",
                "portainer_resource", "unifi_device",
                "unifi_resource", "unifi_alarm", "unifi_health",
                "unifi_ips", "unifi_rogue_ap", "unifi_anomaly",
                "unifi_event"} :
        Family(n, InfraRules[n])
  BY <1>1, <1>2, <1>3, <1>4, <1>5, <1>6, <1>7, <1>8, <1>9, <1>10, <1>11, <1>12 DEF
     InfraRules, Family, SilentFirst, NoClear
<1>29. \A n \in {"unifi_dpi", "proxmox_node", "proxmox_resource",
                "proxmox_replication", "proxmox_task",
                "npm_proxy_host", "npm_certificate", "npm_dead_host",
                "cloudflare_tunnel", "cloudflare_waf",
                "cloudflare_ssl", "http_health"} :
        Family(n, InfraRules[n])
  BY <1>13, <1>14, <1>15, <1>16, <1>17, <1>18, <1>19, <1>20, <1>21, <1>22, <1>23, <1>24
     DEF InfraRules, Family, SilentFirst, NoClear
<1>30. \A n \in {"http_extract", "http_threshold", "http_connection"} :
        Family(n, InfraRules[n])
  BY <1>25, <1>26, <1>27 DEF InfraRules, Family, SilentFirst, NoClear
<1>31. \A n \in DOMAIN InfraRules \ {"unifi_clients", "proxmox_vm"} :
        Family(n, InfraRules[n])
  BY <1>28, <1>29, <1>30 DEF InfraRules
<1>32. "unifi_clients" \in DOMAIN InfraRules /\ InfraRules["unifi_clients"] = UnifiClients
  BY DEF InfraRules
<1>33. "proxmox_vm" \in DOMAIN InfraRules /\ InfraRules["proxmox_vm"] = ProxmoxVm
  BY DEF InfraRules
<1> QED
  BY <1>31, <1>32, <1>33, FamilySound, UnifiClientsSound, ProxmoxVmSound

\* Every rule of the services and the streams is sound.
LEMMA ServiceRulesSound ==
  ASSUME \A n \in DOMAIN ServiceRules : Unknown \notin States(ServiceRules[n])
  PROVE  \A n \in DOMAIN ServiceRules : Sound(n, ServiceRules[n])
<1>1. Reporting(FrigateCamera)
  BY DEF Reporting, Plain, Forgets, Adapters, FrigateCamera, Rule
<1>2. Reporting(FrigateDetector)
  BY DEF Reporting, Plain, Forgets, Adapters, FrigateDetector, Rule
<1>3. Beginning(FrigateSpike) /\ ~FrigateSpike.kept
  BY DEF Beginning, Plain, Forgets, Adapters, FrigateSpike, Sight, Rule
<1>4. Reporting(UptimeStatus)
  BY DEF Reporting, Plain, Forgets, Adapters, UptimeStatus, Rule
<1>5. Reporting(UptimeCert)
  BY DEF Reporting, Plain, Forgets, Adapters, UptimeCert, Rule
<1>6. Reporting(QbtConnection)
  BY DEF Reporting, Plain, Forgets, Adapters, QbtConnection, Rule
<1>7. Beginning(QbtErrored)
  BY DEF Beginning, Plain, Forgets, Adapters, QbtErrored, Seen, Rule
<1>8. Beginning(QbtStalled)
  BY DEF Beginning, Plain, Forgets, Adapters, QbtStalled, Seen, Rule
<1>9. Beginning(ServarrHealth)
  BY DEF Beginning, Plain, Forgets, Adapters, ServarrHealth, Seen, Rule
<1>10. Beginning(ServarrQueue("servarr:queue_failed", "failed"))
  BY DEF Beginning, Plain, Forgets, Adapters, ServarrQueue, Seen, Rule
<1>11. Beginning(ServarrQueue("servarr:queue_stuck", "stuck"))
  BY DEF Beginning, Plain, Forgets, Adapters, ServarrQueue, Seen, Rule
<1>12. Reporting(TautulliPlex)
  BY DEF Reporting, Plain, Forgets, Adapters, TautulliPlex, Rule
<1>13. Reporting(TautulliBandwidth)
  BY DEF Reporting, Plain, Forgets, Adapters, TautulliBandwidth, Rule
<1>14. Reporting(TdarrWorker)
  BY DEF Reporting, Plain, Forgets, Adapters, TdarrWorker, Rule
<1>15. Changing(N8nService)
  BY DEF Changing, Plain, Forgets, Adapters, N8nService, Service, Rule
<1>16. Beginning(N8nExecution) /\ ~N8nExecution.kept
  BY DEF Beginning, Plain, Forgets, Adapters, N8nExecution, Sight, Rule
<1>17. Changing(OverseerrServer)
  BY DEF Changing, Plain, Forgets, Adapters, OverseerrServer, Rule
<1>18. Reporting(PlexServer)
  BY DEF Reporting, Plain, Forgets, Adapters, PlexServer, Service, Rule
<1>19. Beginning(PlexLibrary)
  BY DEF Beginning, Plain, Forgets, Adapters, PlexLibrary, Seen, Rule
<1>20. Reporting(EmqxService)
  BY DEF Reporting, Plain, Forgets, Adapters, EmqxService, Service, Rule
<1>21. Beginning(EmqxAlarm)
  BY DEF Beginning, Plain, Forgets, Adapters, EmqxAlarm, Seen, Rule
<1>22. Beginning(EmqxListener)
  BY DEF Beginning, Plain, Forgets, Adapters, EmqxListener, Seen, Rule
<1>23. Reporting(VaultwardenService)
  BY DEF Reporting, Plain, Forgets, Adapters, VaultwardenService, Service, Rule
<1>24. Beginning(VaultwardenApi)
  BY DEF Beginning, Plain, Forgets, Adapters, VaultwardenApi, Rule
<1>25. Beginning(VaultwardenSlow)
  BY DEF Beginning, Plain, Forgets, Adapters, VaultwardenSlow, Rule
<1>26. Reporting(NextcloudService)
  BY DEF Reporting, Plain, Forgets, Adapters, NextcloudService, Service, Rule
<1>27. Beginning(NextcloudMaintenance)
  BY DEF Beginning, Plain, Forgets, Adapters, NextcloudMaintenance, Rule
<1>28. Beginning(NextcloudCron)
  BY DEF Beginning, Plain, Forgets, Adapters, NextcloudCron, Rule
<1>29. Reporting(StalwartService)
  BY DEF Reporting, Plain, Forgets, Adapters, StalwartService, Service, Rule
<1>30. Beginning(StalwartQueue)
  BY DEF Beginning, Plain, Forgets, Adapters, StalwartQueue, Rule
<1>31. Reporting(OllamaService)
  BY DEF Reporting, Plain, Forgets, Adapters, OllamaService, Service, Rule
<1>32. Beginning(OllamaModels)
  BY DEF Beginning, Plain, Forgets, Adapters, OllamaModels, Rule
<1>33. Beginning(HaStateChanged) /\ ~HaStateChanged.kept
  BY DEF Beginning, Plain, Forgets, Adapters, HaStateChanged, Sight, Rule
<1>34. Beginning(HaAutomationError) /\ ~HaAutomationError.kept
  BY DEF Beginning, Plain, Forgets, Adapters, HaAutomationError, Sight, Rule
<1>35. Beginning(HaServiceCall) /\ ~HaServiceCall.kept
  BY DEF Beginning, Plain, Forgets, Adapters, HaServiceCall, Sight, Rule
<1>36. Beginning(MqttMessage) /\ ~MqttMessage.kept
  BY DEF Beginning, Plain, Forgets, Adapters, MqttMessage, Sight, Rule
<1>37. \A n \in {"frigate_camera", "frigate_detector", "frigate_spike",
                "uptime_status", "uptime_cert", "qbt_connection",
                "qbt_errored", "qbt_stalled", "servarr_health",
                "servarr_failed", "servarr_stuck", "tautulli_plex"} :
        Family(n, ServiceRules[n])
  BY <1>1, <1>2, <1>3, <1>4, <1>5, <1>6, <1>7, <1>8, <1>9, <1>10, <1>11, <1>12 DEF
     ServiceRules, Family, SilentFirst, NoClear
<1>38. \A n \in {"tautulli_bandwidth", "tdarr_worker", "n8n_service", "n8n_execution",
                "overseerr_server", "plex_server", "plex_library",
                "emqx_service", "emqx_alarm", "emqx_listener",
                "vaultwarden_service", "vaultwarden_api"} :
        Family(n, ServiceRules[n])
  BY <1>13, <1>14, <1>15, <1>16, <1>17, <1>18, <1>19, <1>20, <1>21, <1>22, <1>23, <1>24
     DEF ServiceRules, Family, SilentFirst, NoClear
<1>39. \A n \in {"vaultwarden_slow", "nextcloud_service", "nextcloud_maintenance",
                "nextcloud_cron", "stalwart_service",
                "stalwart_queue", "ollama_service", "ollama_models",
                "ha_state", "ha_automation", "ha_service",
                "mqtt_message"} :
        Family(n, ServiceRules[n])
  BY <1>25, <1>26, <1>27, <1>28, <1>29, <1>30, <1>31, <1>32, <1>33, <1>34, <1>35, <1>36
     DEF ServiceRules, Family, SilentFirst, NoClear
<1>40. \A n \in DOMAIN ServiceRules \ {"uptime_response", "tdarr_queue", "ha_log_entry"} :
        Family(n, ServiceRules[n])
  BY <1>37, <1>38, <1>39 DEF ServiceRules
<1>41. "uptime_response" \in DOMAIN ServiceRules /\ ServiceRules["uptime_response"] = UptimeResponse
  BY DEF ServiceRules
<1>42. "tdarr_queue" \in DOMAIN ServiceRules /\ ServiceRules["tdarr_queue"] = TdarrQueue
  BY DEF ServiceRules
<1>43. "ha_log_entry" \in DOMAIN ServiceRules /\ ServiceRules["ha_log_entry"] = HaLogEntry
  BY DEF ServiceRules
<1> QED
  BY <1>40, <1>41, <1>42, <1>43, FamilySound, UptimeResponseSound, TdarrQueueSound,
     HaLogEntrySound

\* Every rule of the scanners is sound.
LEMMA ScannerRulesSound ==
  ASSUME \A n \in DOMAIN ScannerRules : Unknown \notin States(ScannerRules[n])
  PROVE  \A n \in DOMAIN ScannerRules : Sound(n, ScannerRules[n])
<1>1. Reporting(DockerHealth)
  BY DEF Reporting, Plain, Forgets, Adapters, DockerHealth, Rule
<1>2. Reporting(HaHealth)
  BY DEF Reporting, Plain, Forgets, Adapters, HaHealth, Rule
<1>3. Reporting(BackupFreshness)
  BY DEF Reporting, Plain, Forgets, Adapters, BackupFreshness, Rule
<1>4. Beginning(BackupError)
  BY DEF Beginning, Plain, Forgets, Adapters, BackupError, Rule
<1>5. \A n \in DOMAIN ScannerRules \ {"cert_expiry", "disk_space"} :
        Family(n, ScannerRules[n])
  BY <1>1, <1>2, <1>3, <1>4 DEF ScannerRules, Family, SilentFirst, NoClear
<1>6. "cert_expiry" \in DOMAIN ScannerRules /\ ScannerRules["cert_expiry"] = CertExpiry
  BY DEF ScannerRules
<1>7. "disk_space" \in DOMAIN ScannerRules /\ ScannerRules["disk_space"] = DiskSpace
  BY DEF ScannerRules
<1> QED
  BY <1>5, <1>6, <1>7, FamilySound, CertExpirySound, DiskSpaceSound

-----------------------------------------------------------------------------
(* The loops                                                               *)

\* A loop of the infrastructure has one to nine groups.
LEMMA InfraLoopsGroups == \A a \in DOMAIN InfraLoops : InfraLoops[a].groups \in 1..9
<1>1. PortainerLoop.groups \in 1..9
  BY DEF PortainerLoop, Loop
<1>2. UnifiLoop.groups \in 1..9
  BY DEF UnifiLoop, Loop
<1>3. ProxmoxLoop.groups \in 1..9
  BY DEF ProxmoxLoop, Loop
<1>4. NpmLoop.groups \in 1..9
  BY DEF NpmLoop, Loop
<1>5. CloudflareLoop.groups \in 1..9
  BY DEF CloudflareLoop, Loop
<1>6. HttpLoop.groups \in 1..9
  BY DEF HttpLoop, Loop
<1> QED
  BY <1>1, <1>2, <1>3, <1>4, <1>5, <1>6 DEF InfraLoops

\* A loop of the services and the streams has one to nine groups.
LEMMA ServiceLoopsGroups == \A a \in DOMAIN ServiceLoops : ServiceLoops[a].groups \in 1..9
<1>1. FrigateLoop.groups \in 1..9
  BY DEF FrigateLoop, Loop
<1>2. UptimeLoop.groups \in 1..9
  BY DEF UptimeLoop, Loop
<1>3. QbittorrentLoop.groups \in 1..9
  BY DEF QbittorrentLoop, Polled, Loop
<1>4. ServarrLoop.groups \in 1..9
  BY DEF ServarrLoop, Polled, Loop
<1>5. TautulliLoop.groups \in 1..9
  BY DEF TautulliLoop, Polled, Loop
<1>6. TdarrLoop.groups \in 1..9
  BY DEF TdarrLoop, Polled, Loop
<1>7. N8nLoop.groups \in 1..9
  BY DEF N8nLoop, Polled, Loop
<1>8. OverseerrLoop.groups \in 1..9
  BY DEF OverseerrLoop, Polled, Loop
<1>9. PlexLoop.groups \in 1..9
  BY DEF PlexLoop, Polled, Loop
<1>10. EmqxLoop.groups \in 1..9
  BY DEF EmqxLoop, Watched, Polled, Loop
<1>11. VaultwardenLoop.groups \in 1..9
  BY DEF VaultwardenLoop, Watched, Polled, Loop
<1>12. NextcloudLoop.groups \in 1..9
  BY DEF NextcloudLoop, Watched, Polled, Loop
<1>13. StalwartLoop.groups \in 1..9
  BY DEF StalwartLoop, Watched, Polled, Loop
<1>14. OllamaLoop.groups \in 1..9
  BY DEF OllamaLoop, Watched, Polled, Loop
<1>15. HaWebsocketLoop.groups \in 1..9
  BY DEF HaWebsocketLoop, Loop
<1>16. MqttLoop.groups \in 1..9
  BY DEF MqttLoop, Loop
<1>17. HaLogLoop.groups \in 1..9
  BY DEF HaLogLoop, Loop
<1> QED
  BY <1>1, <1>2, <1>3, <1>4, <1>5, <1>6, <1>7, <1>8, <1>9, <1>10, <1>11, <1>12, <1>13,
     <1>14, <1>15, <1>16, <1>17 DEF ServiceLoops

\* A loop of the scanners has one to nine groups.
LEMMA ScannerLoopsGroups == \A a \in DOMAIN ScannerLoops : ScannerLoops[a].groups \in 1..9
<1>1. ItemLoop.groups \in 1..9
  BY DEF ItemLoop, ScannerLoop, Loop
<1>2. ScannerLoop.groups \in 1..9
  BY DEF ScannerLoop, Loop
<1> QED
  BY <1>1, <1>2 DEF ScannerLoops

\* Every adapter has a loop, and every loop has one to nine groups.
LEMMA AdaptersLoop ==
  /\ Adapters \subseteq DOMAIN LoopOf
  /\ \A a \in DOMAIN LoopOf : LoopOf[a].groups \in 1..9
<1>1. Adapters \subseteq DOMAIN LoopOf
  BY DEF Adapters, LoopOf, InfraLoops, ServiceLoops, ScannerLoops
<1>2. \A a \in DOMAIN LoopOf : LoopOf[a].groups \in 1..9
  BY InfraLoopsGroups, ServiceLoopsGroups, ScannerLoopsGroups DEF LoopOf
<1> QED BY <1>1, <1>2

-----------------------------------------------------------------------------
(* All rules                                                               *)

\* Every rule of the program is sound.
THEOREM RulesSound == \A n \in DOMAIN RuleOf : Sound(n, RuleOf[n])
<1>1. /\ \A n \in DOMAIN InfraRules : RuleOf[n] = InfraRules[n] /\ n \in DOMAIN RuleOf
      /\ \A n \in DOMAIN RuleOf \ DOMAIN InfraRules :
           RuleOf[n] = IF n \in DOMAIN ServiceRules THEN ServiceRules[n] ELSE ScannerRules[n]
      /\ DOMAIN RuleOf = DOMAIN InfraRules \union DOMAIN ServiceRules \union DOMAIN ScannerRules
  BY DEF RuleOf
<1>2. /\ DOMAIN InfraRules \intersect DOMAIN ServiceRules = {}
      /\ DOMAIN InfraRules \intersect DOMAIN ScannerRules = {}
      /\ DOMAIN ServiceRules \intersect DOMAIN ScannerRules = {}
  BY DEF InfraRules, ServiceRules, ScannerRules
<1>3. \A n \in DOMAIN RuleOf : Unknown \notin States(RuleOf[n])
  BY IngestionAssumption
<1>4. \A n \in DOMAIN InfraRules : Sound(n, RuleOf[n])
  BY <1>1, <1>3, InfraRulesSound
<1>5. \A n \in DOMAIN ServiceRules : Sound(n, RuleOf[n])
  BY <1>1, <1>2, <1>3, ServiceRulesSound
<1>6. \A n \in DOMAIN ScannerRules : Sound(n, RuleOf[n])
  BY <1>1, <1>2, <1>3, ScannerRulesSound
<1> QED BY <1>1, <1>4, <1>5, <1>6

-----------------------------------------------------------------------------
(* What the loop needs to know of its rules                                *)

\* The rules followed in a behaviour are sound, there is a first one, and its
\* adapter's loop has groups to visit.
LEMMA Followed ==
  ASSUME watched \in Watch
  PROVE  /\ 1 \in Index /\ Index \subseteq Nat
         /\ \A i \in Index : Sound(watched[i], R(i)) /\ Typed(R(i)) /\ R(i).group \in 1..9
         /\ Visited \subseteq 1..9 /\ Visited # {}
<1>1. watched \in Seq(DOMAIN RuleOf) /\ watched # <<>>
  BY IngestionAssumption
<1>2. Index = 1..Len(watched) /\ Len(watched) \in Nat \ {0}
  BY <1>1 DEF Index
<1>3. \A i \in Index : watched[i] \in DOMAIN RuleOf
  BY <1>1, <1>2
<1>4. \A i \in Index : Sound(watched[i], R(i))
  BY <1>3, RulesSound DEF R
<1>5. \A i \in Index : Typed(R(i)) /\ R(i).group \in 1..9
  BY <1>4 DEF Sound, Typed
<1>6. Adapter.groups \in 1..9
  BY <1>2, <1>5, AdaptersLoop DEF Adapter, Typed
<1>7. Visited \subseteq 1..9 /\ Visited # {}
  <2>1. 1 \in Here(R(1).group) /\ R(1).group \in 1..9
    BY <1>2, <1>5 DEF Here
  <2> QED BY <1>6, <2>1 DEF Visited, MaxGroup
<1> QED BY <1>2, <1>4, <1>5, <1>7

\* The smallest of some of the groups is one of them.
LEMMA SmallestIsOne ==
  ASSUME NEW S \in SUBSET (1..9), S # {}
  PROVE  Smallest(S) \in S
<1>1. \E g \in S : \A h \in S : g <= h
  <2>1. CASE 1 \in S
    BY <2>1
  <2>2. CASE 1 \notin S /\ 2 \in S
    BY <2>2
  <2>3. CASE S \intersect 1..2 = {} /\ 3 \in S
    BY <2>3
  <2>4. CASE S \intersect 1..3 = {} /\ 4 \in S
    BY <2>4
  <2>5. CASE S \intersect 1..4 = {} /\ 5 \in S
    BY <2>5
  <2>6. CASE S \intersect 1..5 = {} /\ 6 \in S
    BY <2>6
  <2>7. CASE S \intersect 1..6 = {} /\ 7 \in S
    BY <2>7
  <2>8. CASE S \intersect 1..7 = {} /\ 8 \in S
    BY <2>8
  <2>9. CASE S \intersect 1..8 = {}
    <3>1. PICK g \in S : TRUE
      OBVIOUS
    <3>2. \A h \in S : h = 9
      BY <2>9
    <3> QED BY <3>1, <3>2
  <2> QED
    BY <2>1, <2>2, <2>3, <2>4, <2>5, <2>6, <2>7, <2>8, <2>9
<1> QED BY <1>1 DEF Smallest

\* The end of a poll function leads to one that is offered, or to the wait.
LEMMA GoesOn ==
  ASSUME watched \in Watch, watched' = watched, NEW g, GoOn(g),
         refused' \in [1..MaxGroup -> 0..MaxRefusals]
  PROVE  /\ phase' \in {"polling", "waiting"}
         /\ turn' \in 0..MaxGroup /\ (phase' = "polling") = (turn' # 0)
         /\ Offered'
<1> DEFINE left == {h \in Visited : h > g /\ ~(h \in Adapter.optional /\ refused'[h] = MaxRefusals)}
<1>1. CASE left = {}
  BY <1>1 DEF GoOn, Offered, MaxGroup
<1>2. CASE left # {}
  <2>1. left \subseteq 1..9
    BY Followed
  <2>2. phase' = "polling" /\ turn' = Smallest(left) /\ turn' \in left
    BY <1>2, <2>1, SmallestIsOne DEF GoOn
  <2>3. Adapter' = Adapter
    BY DEF Adapter, R
  <2>4. turn' \in Adapter.optional => refused'[turn'] < MaxRefusals
    <3>1. refused'[turn'] \in 0..MaxRefusals
      BY <2>1, <2>2 DEF MaxGroup
    <3>2. turn' \in Adapter.optional => refused'[turn'] # MaxRefusals
      BY <2>2
    <3> HIDE DEF left
    <3> QED BY <3>1, <3>2, IngestionAssumption
  <2>5. Offered'
    BY <2>3, <2>4 DEF Offered
  <2>6. turn' \in 1..9
    BY <2>1, <2>2
  <2> HIDE DEF left
  <2> QED BY <2>2, <2>5, <2>6 DEF MaxGroup
<1> QED BY <1>1, <1>2

-----------------------------------------------------------------------------
(* Publishing                                                              *)

\* What happens to one aspect when the memory becomes `new` and `say` is
\* published.
Move(i, new, say) ==
  \/ new = memory[i] /\ say = "nothing"
  \/ new = Unknown /\ say = "nothing" /\ Forgets(R(i))
  \/ new \in Reached(R(i), memory[i]) /\ say = R(i).says[memory[i]][new]
  \/ new = Unknown /\ ~R(i).kept /\ say \in {"nothing", "alarm", "clear"}

\* A state that is reached is a state.
LEMMA ReachedTyped ==
  ASSUME NEW r, Typed(r), NEW o \in DOMAIN r.says, NEW n \in Reached(r, o)
  PROVE  n \in States(r) /\ n # Unknown /\ n \in DOMAIN r.says
BY DEF Typed, Reached

\* The part of the type invariant that Publish is responsible for.
PublishTyped ==
  /\ \A i \in Index : memory[i] \in Memories(i)
  /\ recent \in [Keys -> 0..Window]
  /\ told \in [Index -> {"nothing", "alarm", "clear"}]
  /\ missed \in [Index -> BOOLEAN] /\ seeded \in [Index -> BOOLEAN]

\* Publishing moves that are as described keeps the types.
LEMMA PublishKeepsTypes ==
  ASSUME TypeOK, watched' = watched, NEW new, NEW say, NEW key, Publish(new, say, key),
         \A i \in Index : Move(i, new[i], say[i])
  PROVE  PublishTyped'
<1>1. PICK room \in BOOLEAN :
        LET entered == Enters(say, key, room) IN
        /\ memory' = new
        /\ told' = [i \in Index |-> IF i \in entered THEN say[i] ELSE told[i]]
        /\ missed' = [i \in Index |-> IF say[i] = "nothing" THEN missed[i]
                                      ELSE i \notin entered]
        /\ seeded' = [i \in Index |-> IF new[i] = memory[i] THEN seeded[i]
                                      ELSE memory[i] = Unknown]
        /\ recent' = [k \in Keys |->
                        IF \E i \in entered : key[i] = k THEN Window ELSE recent[k]]
  BY DEF Publish
<1>2. Index' = Index /\ Keys' = Keys /\ \A i \in Index : R(i)' = R(i) /\ Memories(i)' = Memories(i)
  BY DEF Index, Keys, R, Memories
<1>3. \A i \in Index : Typed(R(i)) /\ memory[i] \in DOMAIN R(i).says
  BY Followed DEF TypeOK, Memories
<1>4. \A i \in Index : /\ new[i] \in DOMAIN R(i).says
                       /\ say[i] \in {"nothing", "alarm", "clear"}
  BY <1>3, ReachedTyped DEF Move, Typed
<1>5. \A i \in Index : memory'[i] \in Memories(i)'
  BY <1>1, <1>2, <1>4 DEF Memories
<1>6. told' \in [Index -> {"nothing", "alarm", "clear"}]
  BY <1>1, <1>4 DEF TypeOK
<1>7. missed' \in [Index -> BOOLEAN] /\ seeded' \in [Index -> BOOLEAN]
  BY <1>1 DEF TypeOK
<1>8. recent' \in [Keys -> 0..Window]
  BY <1>1, IngestionAssumption DEF TypeOK
<1> QED BY <1>2, <1>5, <1>6, <1>7, <1>8 DEF PublishTyped

\* And it keeps the picture true.
LEMMA PublishKeepsPicture ==
  ASSUME IInv, watched' = watched, NEW new, NEW say, NEW key, Publish(new, say, key),
         \A i \in Index : Move(i, new[i], say[i])
  PROVE  NothingUnseen' /\ Announced'
<1>1. PICK room \in BOOLEAN :
        LET entered == Enters(say, key, room) IN
        /\ memory' = new
        /\ told' = [i \in Index |-> IF i \in entered THEN say[i] ELSE told[i]]
        /\ missed' = [i \in Index |-> IF say[i] = "nothing" THEN missed[i]
                                      ELSE i \notin entered]
        /\ seeded' = [i \in Index |-> IF new[i] = memory[i] THEN seeded[i]
                                      ELSE memory[i] = Unknown]
  BY DEF Publish
<1>2. Index' = Index /\ \A i \in Index : R(i)' = R(i)
  BY DEF Index, R
<1> SUFFICES ASSUME NEW i \in Index, R(i).kept
             PROVE  /\ memory'[i] = Unknown /\ ~Forgets(R(i)) => told'[i] = "nothing"
                    /\ ~missed'[i] =>
                         /\ (memory'[i] \in R(i).bad
                               /\ ~(seeded'[i] /\ watched[i] \in SilentFirst))
                              => told'[i] = "alarm"
                         /\ (memory'[i] \in R(i).good /\ (~seeded'[i] \/ ~Forgets(R(i)))
                               /\ watched[i] \notin NoClear)
                              => told'[i] # "alarm"
  BY <1>2 DEF NothingUnseen, Announced
<1> DEFINE r == R(i)
           o == memory[i]
           n == new[i]
           entered == Enters(say, key, room)
<1>3. /\ Typed(r) /\ Truthful(watched[i], r)
      /\ o \in DOMAIN r.says
      /\ Unknown \notin r.good \union r.bad
  BY Followed DEF IInv, TypeOK, Memories, Sound, Typed
<1>4. /\ memory'[i] = n
      /\ told'[i] = IF i \in entered THEN say[i] ELSE told[i]
      /\ missed'[i] = IF say[i] = "nothing" THEN missed[i] ELSE i \notin entered
      /\ seeded'[i] = IF n = o THEN seeded[i] ELSE o = Unknown
      /\ i \in entered => say[i] # "nothing"
  BY <1>1 DEF Enters
<1>5. /\ o = Unknown /\ ~Forgets(r) => told[i] = "nothing"
      /\ ~missed[i] =>
           /\ (o \in r.bad /\ ~(seeded[i] /\ watched[i] \in SilentFirst)) => told[i] = "alarm"
           /\ (o \in r.good /\ (~seeded[i] \/ ~Forgets(r)) /\ watched[i] \notin NoClear)
                => told[i] # "alarm"
  BY DEF IInv, NothingUnseen, Announced
<1> HIDE DEF r, o, n, entered
<1>6. \/ n = o /\ say[i] = "nothing"
      \/ n = Unknown /\ say[i] = "nothing" /\ Forgets(r)
      \/ n \in Reached(r, o) /\ say[i] = r.says[o][n]
  BY DEF Move, r, o, n
<1>7. CASE n = o /\ say[i] = "nothing"
  BY <1>4, <1>5, <1>7 DEF r
<1>8. CASE n = Unknown /\ say[i] = "nothing" /\ Forgets(r)
  BY <1>3, <1>4, <1>8 DEF r
<1>9. CASE n \in Reached(r, o) /\ say[i] = r.says[o][n]
  <2>1. /\ n # Unknown
        /\ say[i] \in {"nothing", "alarm", "clear"}
    BY <1>3, <1>9, ReachedTyped DEF Typed
  <2>2. /\ say[i] = "alarm" => n \notin r.good \/ watched[i] \in NoClear
        /\ say[i] = "clear" => n \notin r.bad
        /\ say[i] = "nothing" /\ n # o =>
             /\ n \in r.bad =>
                  IF watched[i] \in SilentFirst THEN o = Unknown ELSE o \in r.bad
             /\ n \in r.good /\ watched[i] \notin NoClear =>
                  o = Unknown \/ (o \in r.good /\ ~Forgets(r))
    BY <1>3, <1>9 DEF Truthful
  <2>3. CASE say[i] # "nothing"
    BY <1>4, <2>1, <2>2, <2>3 DEF r
  <2>4. CASE say[i] = "nothing" /\ n = o
    BY <1>4, <1>5, <2>4 DEF r
  <2>5. CASE say[i] = "nothing" /\ n # o
    <3>1. /\ told'[i] = told[i] /\ (missed'[i] <=> missed[i]) /\ (seeded'[i] <=> o = Unknown)
      BY <1>4, <2>5
    <3> QED BY <1>3, <1>4, <1>5, <2>1, <2>2, <2>5, <3>1 DEF r
  <2> QED BY <2>3, <2>4, <2>5
<1> QED BY <1>6, <1>7, <1>8, <1>9

\* The moves of an answer.
LEMMA AnswerKeeps ==
  ASSUME IInv, watched' = watched, NEW g, AfterAnswer(g)
  PROVE  PublishTyped' /\ NothingUnseen' /\ Announced'
<1> DEFINE new == [i \in Index |->
                     IF i \notin Here(g) THEN memory[i]
                     ELSE IF ~R(i).kept THEN Unknown
                     ELSE IF world[i] # Absent THEN Learned(i)
                     ELSE IF R(i).absent = "forget" THEN Unknown ELSE memory[i]]
           say == [i \in Index |-> IF i \in Here(g) /\ world[i] # Absent
                                   THEN R(i).says[memory[i]][Learned(i)] ELSE "nothing"]
           key == [i \in Index |-> R(i).key]
<1>1. Publish(new, say, key)
  BY DEF AfterAnswer
<1>2. ASSUME NEW i \in Index
      PROVE  Move(i, new[i], say[i])
  <2>1. Typed(R(i)) /\ memory[i] \in DOMAIN R(i).says /\ world[i] \in R(i).answers
    BY Followed DEF IInv, TypeOK, Memories
  <2>2. CASE i \notin Here(g)
    BY <2>2 DEF Move
  <2>3. CASE i \in Here(g) /\ world[i] # Absent
    <3>1. Learned(i) \in Reached(R(i), memory[i])
      BY <2>1, <2>3 DEF Learned, Reached
    <3>2. R(i).says[memory[i]][Learned(i)] \in {"nothing", "alarm", "clear"}
      BY <2>1, <3>1, ReachedTyped DEF Typed
    <3>3. /\ new[i] = IF ~R(i).kept THEN Unknown ELSE Learned(i)
          /\ say[i] = R(i).says[memory[i]][Learned(i)]
      BY <2>3
    <3> QED BY <3>1, <3>2, <3>3 DEF Move
  <2>4. CASE i \in Here(g) /\ world[i] = Absent
    BY <2>4 DEF Move, Forgets
  <2> QED BY <2>2, <2>3, <2>4
<1> HIDE DEF new, say, key
<1> QED BY <1>1, <1>2, PublishKeepsTypes, PublishKeepsPicture DEF IInv

\* The moves of an error: the memory is kept, lost where it can be, or that of
\* a state the error stands for.
LEMMA ErrorKeeps ==
  ASSUME IInv, watched' = watched, NEW mode, AfterError(mode),
         \A i \in Index : \/ mode[i] = "keep"
                          \/ mode[i] = "forget" /\ Forgets(R(i))
                          \/ mode[i] \in {R(i).failed, R(i).outage} \ {"keep", "forget"}
  PROVE  PublishTyped' /\ NothingUnseen' /\ Announced'
<1> DEFINE new == [i \in Index |-> CASE mode[i] = "keep"   -> memory[i]
                                     [] mode[i] = "forget" -> Unknown
                                     [] OTHER              -> mode[i]]
           say == [i \in Index |-> IF mode[i] \in {"keep", "forget"} THEN "nothing"
                                   ELSE R(i).says[memory[i]][mode[i]]]
           key == [i \in Index |-> R(i).errorKey]
<1>1. Publish(new, say, key)
  BY DEF AfterError
<1>2. ASSUME NEW i \in Index
      PROVE  Move(i, new[i], say[i])
  <2>1. CASE mode[i] = "keep"
    BY <2>1 DEF Move
  <2>2. CASE mode[i] = "forget" /\ Forgets(R(i))
    BY <2>2 DEF Move
  <2>3. CASE mode[i] \in {R(i).failed, R(i).outage} \ {"keep", "forget"}
    BY <2>3 DEF Move, Reached
  <2> QED BY <2>1, <2>2, <2>3
<1> HIDE DEF new, say, key
<1> QED BY <1>1, <1>2, PublishKeepsTypes, PublishKeepsPicture DEF IInv

-----------------------------------------------------------------------------
(* The invariant                                                           *)

\* The other parts of the type invariant.
WorldTyped ==
  /\ world \in [Index -> UNION {R(i).answers : i \in Index}]
  /\ \A i \in Index : world[i] \in R(i).answers

LoopTyped ==
  /\ phase \in {"connecting", "retrying", "polling", "waiting"} \union Ended
  /\ turn \in 0..MaxGroup /\ (phase = "polling") = (turn # 0)
  /\ Offered

CountersTyped ==
  /\ delay \in 1..MaxDelay
  /\ refused \in [1..MaxGroup -> 0..MaxRefusals]
  /\ pace \in 0..CleanScans

\* The invariant in parts, in a state and in the one that follows it.
LEMMA InvParts ==
  IInv <=> /\ watched \in Watch
           /\ WorldTyped /\ PublishTyped /\ LoopTyped /\ CountersTyped
           /\ NothingUnseen /\ Announced
BY DEF IInv, TypeOK, WorldTyped, PublishTyped, LoopTyped, CountersTyped

LEMMA InvPartsNext ==
  ASSUME watched' \in Watch, WorldTyped', PublishTyped', LoopTyped', CountersTyped',
         NothingUnseen', Announced'
  PROVE  IInv'
BY DEF IInv, TypeOK, WorldTyped, PublishTyped, LoopTyped, CountersTyped

\* A wait never exceeds its cap.
LEMMA LongerTyped ==
  ASSUME delay \in 1..MaxDelay
  PROVE  Longer \in 1..MaxDelay
BY IngestionAssumption DEF Longer

\* The pace stays within its bound.
LEMMA PacedTyped ==
  ASSUME pace \in 0..CleanScans, NEW problem, Paced(problem)
  PROVE  pace' \in 0..CleanScans
<1>1. pace' \in {pace, CleanScans, 0} \/ (pace > 0 /\ pace' = pace - 1)
  BY DEF Paced
<1> QED BY <1>1, IngestionAssumption

\* Only what can be absent passes.
LEMMA PassedTyped ==
  ASSUME TypeOK, watched' = watched, NEW hit, NEW ok \in BOOLEAN, Passed(hit, ok)
  PROVE  WorldTyped'
<1>1. Index' = Index /\ \A i \in Index : R(i)' = R(i)
  BY DEF Index, R
<1>2. \A i \in Index : R(i).since = "never" \/ Absent \in R(i).answers
  BY Followed DEF TypeOK, Typed
<1>3. /\ world' = [i \in Index |->
                     IF i \in hit /\ (R(i).since = "attempt" \/ (ok /\ R(i).since = "success"))
                     THEN Absent ELSE world[i]]
      /\ \A i \in Index : world[i] \in R(i).answers
  BY DEF Passed, TypeOK
<1>4. \A i \in Index : world'[i] \in R(i).answers
  BY <1>2, <1>3
<1>5. world' \in [Index -> UNION {R(i).answers : i \in Index}]
  BY <1>3, <1>4
<1> QED BY <1>1, <1>4, <1>5 DEF WorldTyped

\* What a step leaves alone stays as it is.
LEMMA UnchangedParts ==
  ASSUME IInv, watched' = watched
  PROVE  /\ world' = world => WorldTyped'
         /\ UNCHANGED <<memory, recent, told, missed, seeded>> =>
              PublishTyped' /\ NothingUnseen' /\ Announced'
         /\ UNCHANGED <<phase, turn, refused>> => LoopTyped'
<1>1. /\ Index' = Index /\ Keys' = Keys /\ Adapter' = Adapter
      /\ \A i \in Index : R(i)' = R(i) /\ Memories(i)' = Memories(i)
  BY DEF Index, Keys, R, Memories, Adapter
<1>2. world' = world => WorldTyped'
  BY <1>1, InvParts DEF WorldTyped
<1>3. UNCHANGED <<memory, recent, told, missed, seeded>> =>
        PublishTyped' /\ NothingUnseen' /\ Announced'
  BY <1>1, InvParts DEF PublishTyped, NothingUnseen, Announced
<1>4. UNCHANGED <<phase, turn, refused>> => LoopTyped'
  BY <1>1, InvParts DEF LoopTyped, Offered
<1> QED BY <1>2, <1>3, <1>4

\* GoOn in the terms of the parts.
LEMMA GoesOnTyped ==
  ASSUME IInv, watched' = watched, NEW g, GoOn(g),
         refused' \in [1..MaxGroup -> 0..MaxRefusals]
  PROVE  LoopTyped'
BY GoesOn DEF LoopTyped, IInv, TypeOK

\* The phases in which nothing is polled.
LEMMA IdleTyped ==
  ASSUME turn' = 0, phase' \in {"connecting", "retrying", "waiting"} \union Ended
  PROVE  LoopTyped'
<1>1. phase' # "polling"
  BY DEF Ended
<1>2. Offered'
  BY <1>1 DEF Offered
<1> QED BY <1>1, <1>2 DEF LoopTyped, MaxGroup, Ended

\* An answer.
LEMMA AnswerStep ==
  ASSUME IInv, NEW g \in 1..MaxGroup, Answer(g)
  PROVE  IInv'
<1>1. watched' = watched /\ watched \in Watch
  BY InvParts DEF Answer
<1>2. PublishTyped' /\ NothingUnseen' /\ Announced'
  BY <1>1, AnswerKeeps DEF Answer
<1>3. WorldTyped'
  BY <1>1, PassedTyped DEF Answer, IInv
<1>4. refused' \in [1..MaxGroup -> 0..MaxRefusals]
  BY InvParts, IngestionAssumption DEF Answer, CountersTyped
<1>5. LoopTyped'
  BY <1>1, <1>4, GoesOnTyped DEF Answer
<1>6. delay' \in 1..MaxDelay
  BY InvParts, IngestionAssumption DEF Answer, CountersTyped
<1>7. pace' \in 0..CleanScans
  BY InvParts, PacedTyped DEF Answer, CountersTyped
<1> QED BY <1>1, <1>2, <1>3, <1>4, <1>5, <1>6, <1>7, InvPartsNext DEF CountersTyped

\* A swallowed error.
LEMMA SwallowStep ==
  ASSUME IInv, NEW g \in 1..MaxGroup, Swallow(g)
  PROVE  IInv'
<1>1. watched' = watched /\ watched \in Watch
  BY InvParts DEF Swallow
<1> DEFINE mode == [i \in Index |-> IF g \in R(i).forgottenBy THEN "forget"
                                    ELSE IF i \in Here(g) THEN R(i).failed ELSE "keep"]
<1>2. PublishTyped' /\ NothingUnseen' /\ Announced'
  <2>1. AfterError(mode)
    BY DEF Swallow
  <2>2. \A i \in Index : \/ mode[i] = "keep"
                         \/ mode[i] = "forget" /\ Forgets(R(i))
                         \/ mode[i] \in {R(i).failed, R(i).outage} \ {"keep", "forget"}
    BY DEF Forgets
  <2> HIDE DEF mode
  <2> QED BY <1>1, <2>1, <2>2, ErrorKeeps
<1>3. WorldTyped'
  BY <1>1, PassedTyped DEF Swallow, IInv
<1>4. refused' \in [1..MaxGroup -> 0..MaxRefusals]
  BY InvParts DEF Swallow, CountersTyped
<1>5. LoopTyped'
  BY <1>1, <1>4, GoesOnTyped DEF Swallow
<1>6. delay' \in 1..MaxDelay
  BY InvParts, IngestionAssumption DEF Swallow, CountersTyped
<1>7. pace' \in 0..CleanScans
  BY InvParts, PacedTyped DEF Swallow, CountersTyped
<1> QED BY <1>1, <1>2, <1>3, <1>4, <1>5, <1>6, <1>7, InvPartsNext DEF CountersTyped

\* An error that leaves the poll function.
LEMMA FailStep ==
  ASSUME IInv, NEW g \in 1..MaxGroup, Fail(g)
  PROVE  IInv'
<1>1. watched' = watched /\ watched \in Watch
  BY InvParts DEF Fail
<1>2. PublishTyped' /\ NothingUnseen' /\ Announced'
  <2> DEFINE hit == IF Adapter.isolated THEN Here(g) ELSE Index
  <2>1. PICK known \in BOOLEAN :
          AfterError([i \in Index |->
            IF i \in hit /\ (known \/ Adapter.catchall) THEN R(i).outage ELSE "keep"])
    BY DEF Fail
  <2> DEFINE mode == [i \in Index |->
            IF i \in hit /\ (known \/ Adapter.catchall) THEN R(i).outage ELSE "keep"]
  <2>2. \A i \in Index : \/ mode[i] = "keep"
                         \/ mode[i] = "forget" /\ Forgets(R(i))
                         \/ mode[i] \in {R(i).failed, R(i).outage} \ {"keep", "forget"}
    BY DEF Forgets
  <2>3. AfterError(mode)
    BY <2>1
  <2> HIDE DEF mode
  <2> QED BY <1>1, <2>2, <2>3, ErrorKeeps
<1>3. WorldTyped'
  BY <1>1, PassedTyped DEF Fail, IInv
<1>4. refused' \in [1..MaxGroup -> 0..MaxRefusals]
  BY InvParts DEF Fail, CountersTyped
<1>5. LoopTyped'
  BY <1>1, <1>4, GoesOnTyped DEF Fail
<1>6. delay' \in 1..MaxDelay
  BY InvParts, IngestionAssumption, LongerTyped DEF Fail, CountersTyped
<1>7. pace' \in 0..CleanScans
  BY InvParts DEF Fail, CountersTyped
<1> QED BY <1>1, <1>2, <1>3, <1>4, <1>5, <1>6, <1>7, InvPartsNext DEF CountersTyped

\* A group that is not offered: it was not switched off, so it has a refusal
\* left.
LEMMA UnsupportedStep ==
  ASSUME IInv, NEW g \in 1..MaxGroup, Unsupported(g)
  PROVE  IInv'
<1>1. watched' = watched /\ watched \in Watch
  BY InvParts DEF Unsupported
<1>2. PublishTyped' /\ NothingUnseen' /\ Announced'
  BY <1>1, UnchangedParts DEF Unsupported
<1>3. WorldTyped'
  BY <1>1, PassedTyped DEF Unsupported, IInv
<1>4. refused[g] < MaxRefusals
  BY DEF Unsupported, IInv, Offered
<1>5. refused' \in [1..MaxGroup -> 0..MaxRefusals]
  BY <1>4, InvParts, IngestionAssumption DEF Unsupported, CountersTyped
<1>6. LoopTyped'
  BY <1>1, <1>5, GoesOnTyped DEF Unsupported
<1>7. delay' \in 1..MaxDelay /\ pace' \in 0..CleanScans
  BY InvParts DEF Unsupported, CountersTyped
<1> QED BY <1>1, <1>2, <1>3, <1>5, <1>6, <1>7, InvPartsNext DEF CountersTyped

\* The steps of the connection.
LEMMA ConnectionStep ==
  ASSUME IInv, Connect \/ ConnectFails \/ AuthFails \/ Disconnect
  PROVE  IInv'
<1>1. watched' = watched /\ watched \in Watch
  BY InvParts DEF Connect, ConnectFails, AuthFails, Disconnect
<1>2. PublishTyped' /\ NothingUnseen' /\ Announced'
  BY <1>1, UnchangedParts DEF Connect, ConnectFails, AuthFails, Disconnect
<1>3. WorldTyped'
  BY <1>1, UnchangedParts, PassedTyped DEF Connect, ConnectFails, AuthFails, Disconnect, IInv
<1>4. CountersTyped'
  <2>1. delay' \in {1, delay, Longer} /\ refused' = refused /\ pace' = pace
    BY DEF Connect, ConnectFails, AuthFails, Disconnect
  <2> QED BY <2>1, InvParts, LongerTyped, IngestionAssumption DEF CountersTyped
<1>5. LoopTyped'
  <2>1. CASE Connect
    BY <1>1, <1>4, <2>1, GoesOnTyped DEF Connect, CountersTyped
  <2>2. CASE ConnectFails
    <3>1. turn' = 0 /\ phase' \in {"gave_up", "retrying"}
      BY <2>2, InvParts DEF ConnectFails, LoopTyped
    <3> QED BY <3>1, IdleTyped DEF Ended
  <2>3. CASE AuthFails
    <3>1. turn' = 0 /\ phase' = "refused"
      BY <2>3, InvParts DEF AuthFails, LoopTyped
    <3> QED BY <3>1, IdleTyped DEF Ended
  <2>4. CASE Disconnect
    <3>1. turn' = 0 /\ phase' \in {"severed", "retrying", "connecting"}
      BY <2>4 DEF Disconnect
    <3> QED BY <3>1, IdleTyped DEF Ended
  <2> QED BY <2>1, <2>2, <2>3, <2>4
<1> QED BY <1>1, <1>2, <1>3, <1>4, <1>5, InvPartsNext

\* The end of a wait.
LEMMA ElapseStep ==
  ASSUME IInv, Elapse
  PROVE  IInv'
<1>1. watched' = watched /\ watched \in Watch /\ refused' \in [1..MaxGroup -> 0..MaxRefusals]
  BY InvParts DEF Elapse, CountersTyped
<1>2. /\ Index' = Index /\ Keys' = Keys
      /\ \A i \in Index : R(i)' = R(i) /\ Memories(i)' = Memories(i)
  BY <1>1 DEF Index, Keys, R, Memories
<1>3. recent' \in [Keys -> 0..Window]
  <2>1. PICK t \in {delay} \union IF pace > 0 THEN {0} ELSE {} :
          recent' = [k \in Keys |-> IF recent[k] > t THEN recent[k] - t ELSE 0]
    BY DEF Elapse
  <2>2. t \in Nat /\ recent \in [Keys -> 0..Window]
    BY <2>1, InvParts, IngestionAssumption DEF CountersTyped, PublishTyped
  <2> QED BY <2>1, <2>2, IngestionAssumption
<1>4. PublishTyped' /\ NothingUnseen' /\ Announced'
  BY <1>2, <1>3, InvParts DEF Elapse, PublishTyped, NothingUnseen, Announced
<1>5. WorldTyped'
  BY <1>1, UnchangedParts DEF Elapse
<1>6. CountersTyped'
  BY InvParts DEF Elapse, CountersTyped
<1>7. LoopTyped'
  <2>1. CASE phase' = "connecting" /\ turn' = 0
    BY <2>1, IdleTyped
  <2>2. CASE GoOn(0)
    BY <1>1, <2>2, GoesOnTyped
  <2> QED BY <2>1, <2>2 DEF Elapse
<1> QED BY <1>1, <1>4, <1>5, <1>6, <1>7, InvPartsNext

\* stop().
LEMMA StopStep ==
  ASSUME IInv, Stop
  PROVE  IInv'
<1>1. watched' = watched /\ watched \in Watch
  BY InvParts DEF Stop
<1>2. PublishTyped' /\ NothingUnseen' /\ Announced' /\ WorldTyped'
  BY <1>1, UnchangedParts DEF Stop
<1>3. CountersTyped'
  BY InvParts DEF Stop, CountersTyped
<1>4. LoopTyped'
  BY IdleTyped DEF Stop, Ended
<1> QED BY <1>1, <1>2, <1>3, <1>4, InvPartsNext

\* Something happens out there.
LEMMA HappenStep ==
  ASSUME IInv, NEW i \in Index, Happen(i)
  PROVE  IInv'
<1>1. watched' = watched /\ watched \in Watch
  BY InvParts DEF Happen
<1>2. PublishTyped' /\ NothingUnseen' /\ Announced' /\ LoopTyped'
  BY <1>1, UnchangedParts DEF Happen
<1>3. CountersTyped'
  BY InvParts DEF Happen, CountersTyped
<1>4. Index' = Index /\ \A j \in Index : R(j)' = R(j)
  BY <1>1 DEF Index, R
<1>5. WorldTyped'
  <2>1. PICK a \in R(i).answers : world' = [world EXCEPT ![i] = a]
    BY DEF Happen
  <2> QED BY <1>4, <2>1, InvParts DEF WorldTyped
<1> QED BY <1>1, <1>2, <1>3, <1>5, InvPartsNext

-----------------------------------------------------------------------------
(* The theorems                                                            *)

\* The invariant holds at the start: nothing is remembered and nothing told.
LEMMA InitInv == Init => IInv
<1> SUFFICES ASSUME Init PROVE IInv
  OBVIOUS
<1>1. watched \in Watch /\ WorldTyped
  BY DEF Init, WorldTyped
<1>2. \A i \in Index : Unknown \in Memories(i) /\ Unknown \notin R(i).good \union R(i).bad
  BY <1>1, Followed DEF Memories, Typed
<1>3. PublishTyped /\ NothingUnseen /\ Announced
  BY <1>2, IngestionAssumption DEF Init, PublishTyped, NothingUnseen, Announced
<1>4. CountersTyped
  BY IngestionAssumption DEF Init, CountersTyped
<1>5. LoopTyped
  <2>1. CASE phase = "polling" /\ turn = Smallest(Visited)
    <3>1. turn \in 1..9
      BY <1>1, <2>1, Followed, SmallestIsOne
    <3>2. refused[turn] < MaxRefusals
      BY <3>1, IngestionAssumption DEF Init, MaxGroup
    <3> QED BY <2>1, <3>1, <3>2 DEF LoopTyped, Offered, MaxGroup
  <2>2. CASE phase = "connecting" /\ turn = 0
    BY <2>2 DEF LoopTyped, Offered, MaxGroup
  <2> QED BY <2>1, <2>2 DEF Init
<1> QED BY <1>1, <1>3, <1>4, <1>5, InvParts

\* Every step keeps it.
LEMMA NextInv == IInv /\ [Next]_vars => IInv'
<1> SUFFICES ASSUME IInv, [Next]_vars PROVE IInv'
  OBVIOUS
<1>1. CASE Connect \/ ConnectFails \/ AuthFails \/ Disconnect
  BY <1>1, ConnectionStep
<1>2. CASE Poll
  BY <1>2, AnswerStep, SwallowStep, FailStep, UnsupportedStep DEF Poll
<1>3. CASE Elapse
  BY <1>3, ElapseStep
<1>4. CASE Stop
  BY <1>4, StopStep
<1>5. CASE \E i \in Index : Happen(i)
  BY <1>5, HappenStep
<1>6. CASE UNCHANGED vars
  <2>1. watched' = watched /\ watched \in Watch
    BY <1>6, InvParts DEF vars
  <2>2. PublishTyped' /\ NothingUnseen' /\ Announced' /\ WorldTyped' /\ LoopTyped'
    BY <1>6, <2>1, UnchangedParts DEF vars
  <2>3. CountersTyped'
    BY <1>6, InvParts DEF vars, CountersTyped
  <2> QED BY <2>1, <2>2, <2>3, InvPartsNext
<1> QED BY <1>1, <1>2, <1>3, <1>4, <1>5, <1>6 DEF Next

\* The inductive invariant of an adapter at work.
THEOREM IngestionInv == Spec => []IInv
<1> QED BY InitInv, NextInv, PTL DEF Spec

\* Every variable keeps its type: no rule is asked for a transition its table
\* lacks, the backoff stays within its cap, a group that is switched off is not
\* polled, and the turn is always one of the loop's.
THEOREM IngestionTypes == Spec => []TypeOK
<1>1. IInv => TypeOK
  BY DEF IInv
<1> QED BY <1>1, IngestionInv, PTL

\* The picture the adapters have given is true: over every sequence of answers,
\* errors, disappearances and outages a remembered problem has been announced
\* and a remembered recovery too, up to the exceptions PictureTrue names.
THEOREM PicturesTrue == Spec => []PictureTrue
<1>1. IInv => PictureTrue
  BY DEF IInv, Announced, PictureTrue
<1> QED BY <1>1, IngestionInv, PTL
=============================================================================
