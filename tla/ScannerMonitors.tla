--------------------------- MODULE ScannerMonitors ---------------------------
(***************************************************************************)
(* The scanners (scanner/): their common loop and the rule of each check.  *)
(***************************************************************************)
EXTENDS Monitors

\* A scan that finds a problem shortens the wait until several scans in a row
\* published no problem.
ScannerLoop == [Loop("none", 1) EXCEPT !.adaptive = TRUE]

\* The scanners that check one item after the other, with an error handler
\* per item: an error of one is an event, not a failed scan.
ItemLoop == [ScannerLoop EXCEPT !.quiet = {1}]

\* The level of an item that can also be in "error".  Nothing is published
\* when the level is "ok" after an error.
Checked(o, n) ==
  IF o = n THEN "nothing"
  ELSE IF n \in {"warning", "critical", "error"} THEN "alarm"
  ELSE IF o \in {"warning", "critical"} THEN "clear" ELSE "nothing"

Item(adapter, key, errorKey) ==
  [Rule(adapter, 1, key, {"ok"}, {"warning", "critical", "error"},
        [o \in {"ok", "warning", "critical", "error", Unknown} |->
         [n \in {"ok", "warning", "critical", "error"} |-> Checked(o, n)]])
     EXCEPT !.answers = {"ok", "warning", "critical"}, !.failed = "error",
            !.errorKey = errorKey]

CertExpiry == Item("scan_cert", "scan_cert", "scan_cert:error")

DiskSpace == Item("scan_disk", "scan_disk", "scan_disk:error")

\* A container that is removed stays in _states.
DockerHealth ==
  Rule("scan_docker", 1, "scan_docker", {"ok"}, {"exited", "unhealthy"},
       FromFirst({"ok"}, {"exited", "unhealthy"}))

HaHealth ==
  Rule("scan_ha", 1, "scan_ha", {"ok"}, {"setup_error", "not_loaded"},
       FromFirst({"ok"}, {"setup_error", "not_loaded"}))

\* A backup source: is its newest backup too old (a failed check leaves that
\* open), and can it be checked.
BackupFreshness ==
  [Rule("scan_backup", 1, "scan_backup:stale", {"recent"}, {"stale"},
        FromFirst({"recent"}, {"stale"}))
     EXCEPT !.answers = {"recent", "stale"}]

BackupError ==
  [Rule("scan_backup", 1, "scan_backup:error", {"readable"}, {"error"},
        Onsets({"readable"}, {"error"}))
     EXCEPT !.answers = {"readable"}, !.failed = "error"]

-----------------------------------------------------------------------------
ScannerLoops ==
  [scan_cert |-> ItemLoop, scan_disk |-> ItemLoop, scan_backup |-> ItemLoop,
   scan_docker |-> ScannerLoop, scan_ha |-> ScannerLoop]

ScannerRules ==
  [cert_expiry |-> CertExpiry, disk_space |-> DiskSpace,
   docker_health |-> DockerHealth, ha_health |-> HaHealth,
   backup_freshness |-> BackupFreshness, backup_error |-> BackupError]
=============================================================================
