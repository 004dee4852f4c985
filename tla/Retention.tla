----------------------------- MODULE Retention -----------------------------
(***************************************************************************)
(* scripts/r14_retention_dry_run.py: which of the files the program leaves *)
(* behind may be deleted.  The script looks at every file, decides which   *)
(* ones are evidence and have to stay, and lists the others that are old   *)
(* or too many as candidates.                                              *)
(*                                                                         *)
(* A file is a record                                                      *)
(*   path     its name, also what an alert refers to                       *)
(*   root     "monitors", "alerts", "acceptance", "state", "output" (what  *)
(*            this run of the script writes) or "other"                    *)
(*   name     what its name says it is                                     *)
(*   project  the directory or name that stands for the project            *)
(*   prefix, run, stamped   the acceptance run it belongs to               *)
(*   age, big               its age in days, whether it is over the limit  *)
(*   says     the markers in its path or text                              *)
(*   stem     what a JSON alert and its markdown have in common            *)
(*   items    the alerts in it; one that is torn is a line that is no JSON *)
(* Files stand at numbers, their places in the order of the paths.         *)
(***************************************************************************)
EXTENDS Integers, Sequences, FiniteSets, SequencesExt, Functions

CONSTANTS ReportDays, KeepReports, AlertDays, KeepAlerts,
          AcceptanceDays, KeepRuns, KeepBackups

Markers == {"manual", "gate", "rollback"}

\* classify_monitor_type
MonitorType(name) ==
    CASE name = "event_final_report" -> "monitor_event_report"
      [] name = "cycle_summary_report" -> "monitor_cycle_report"
      [] name = "final_report" -> "monitor_final_report"
      [] name = "fix_plan" -> "monitor_fix_plan"
      [] name = "combined_evidence" -> "monitor_evidence"
      [] name = "remote_applied_fixes" -> "monitor_recovery_state"
      [] OTHER -> "monitor_file"

\* classify_alert_type; an archived alert is known by its directory as well.
AlertType(name, archived) ==
    CASE name = "latest_alert" -> "alert_latest"
      [] name = "alerts_jsonl" -> "alert_jsonl"
      [] name = "json" /\ archived -> "alert_archive_json"
      [] name = "markdown" /\ archived -> "alert_archive_markdown"
      [] OTHER -> "alert_file"

\* infer_alert_project_id
AlertProject(file) ==
    IF file.name \in {"latest_alert", "alerts_jsonl"} \/ file.archived THEN file.project
    ELSE "unknown"

StateType(name) ==
    CASE name = "daemon_log" -> "daemon_log"
      [] name = "daemon_log_backup" -> "daemon_log_backup"
      [] name \in {"project_status", "events", "alerts", "recoveries"} -> "state_core_file"
      [] OTHER -> "none"

\* split_run_prefix: a run without a time stamp is a prefix of its own.
RunPrefix(file) == IF file.stamped THEN file.prefix ELSE file.run

(***************************************************************************)
(* classify_path: the record of a file, with the type "none" for a file    *)
(* that is not in the inventory.                                           *)
(***************************************************************************)
Classified(file) ==
    LET record(family, type, project) ==
            [file |-> file, family |-> family, type |-> type, project |-> project,
             says |-> file.says, told |-> {}, reports |-> {}]
    IN  CASE file.root = "monitors" -> record("monitor", MonitorType(file.name), file.project)
          [] file.root = "alerts" ->
                record("alert", AlertType(file.name, file.archived), AlertProject(file))
          [] file.root = "acceptance" ->
                record("acceptance", "acceptance_artifact", "acceptance_artifacts")
          [] file.root = "state" -> record("state", StateType(file.name), file.project)
          [] OTHER -> record("none", "none", "none")

\* scan_inventory: the records of the files that are classified, each at the place of its file.
Inventory(files) ==
    [i \in {j \in DOMAIN files : Classified(files[j]).type # "none"} |-> Classified(files[i])]

-----------------------------------------------------------------------------
(***************************************************************************)
(* What the alerts say about other files.                                  *)
(***************************************************************************)

\* load_alert_items: the alerts before the first line that cannot be read.
ItemsOf(file) ==
    {file.items[i] : i \in {k \in DOMAIN file.items : \A j \in 1..k : ~file.items[j].torn}}

\* extract_report_paths: also those further down in the alert.
ReportPaths(item) == item.reports \cup item.nested

\* summarize_alert_items: the markers that follow from the fields of the alerts.
ItemMarkers(items) ==
    {m \in Markers : \E item \in items :
        CASE m = "manual" -> "manual_escalation" \in {item.action, item.status, item.layer}
          [] m = "gate" -> item.gate
          [] m = "rollback" -> item.rollback}

WithAlerts(r) ==
    IF r.type \in {"alert_jsonl", "alert_archive_json"}
    THEN [r EXCEPT !.says = @ \cup ItemMarkers(ItemsOf(r.file)),
                   !.told = ItemMarkers(ItemsOf(r.file)),
                   !.reports = UNION {ReportPaths(item) : item \in ItemsOf(r.file)}]
    ELSE r

\* The JSON alerts a markdown alert was written with.
Twins(records, r) ==
    {j \in Range(records) : /\ j.type = "alert_archive_json"
                            /\ j.project = r.project
                            /\ j.file.stem = r.file.stem}

\* Mutant: the markdown of an alert takes over its reports and not what its JSON tells.
EnrichedByReports(records) ==
    LET first == [i \in DOMAIN records |-> WithAlerts(records[i])]
    IN  [i \in DOMAIN first |->
            IF first[i].type = "alert_archive_markdown"
            THEN [first[i] EXCEPT !.reports = UNION {j.reports : j \in Twins(first, first[i])}]
            ELSE first[i]]

\* enrich_alert_records: a markdown alert takes over what the fields of its JSON say.
Enriched(records) ==
    LET first == [i \in DOMAIN records |-> WithAlerts(records[i])]
    IN  [i \in DOMAIN first |->
            IF first[i].type = "alert_archive_markdown"
            THEN [first[i] EXCEPT !.says = @ \cup UNION {j.told : j \in Twins(first, first[i])},
                                  !.reports = UNION {j.reports : j \in Twins(first, first[i])}]
            ELSE first[i]]

\* The reports any alert refers to, once markdown has its twin's.
Referenced(records) == UNION {r.reports : r \in Range(records)}

-----------------------------------------------------------------------------
(***************************************************************************)
(* The newest of a group; sort_newest keeps the order of equally new ones. *)
(***************************************************************************)
RankIn(group, age, i) ==
    1 + Cardinality({j \in group : age[j] < age[i] \/ (age[j] = age[i] /\ j < i)})

Ages(records) == [i \in DOMAIN records |-> records[i].file.age]

\* mark_latest_monitor_records
MonitorRank(records, i) ==
    RankIn({j \in DOMAIN records : /\ records[j].family = "monitor"
                                   /\ records[j].project = records[i].project},
           Ages(records), i)

ArchivedAlerts == {"alert_archive_json", "alert_archive_markdown"}

\* mark_latest_alert_records
AlertRank(records, i) ==
    RankIn({j \in DOMAIN records : /\ records[j].type \in ArchivedAlerts
                                   /\ records[j].project = records[i].project},
           Ages(records), i)

\* mark_latest_daemon_backups
BackupRank(records, i) ==
    RankIn({j \in DOMAIN records : /\ records[j].type = "daemon_log_backup"
                                   /\ records[j].project = records[i].project},
           Ages(records), i)

\* mark_latest_acceptance_runs: a run is as new as its newest file, and stands where its first does.
RunRank(records, i) ==
    LET members(j) == {k \in DOMAIN records : /\ records[k].type = "acceptance_artifact"
                                              /\ records[k].file.run = records[j].file.run}
        first(j) == CHOOSE k \in members(j) : \A l \in members(j) : k <= l
        age == Ages(records)
        runs == {first(j) : j \in {k \in DOMAIN records :
                    /\ records[k].type = "acceptance_artifact"
                    /\ RunPrefix(records[k].file) = RunPrefix(records[i].file)}}
        newest == [j \in runs |->
                      CHOOSE a \in {age[k] : k \in members(j)} : \A k \in members(j) : a <= age[k]]
    IN  RankIn(runs, newest, first(i))

IsLatest(records, i) ==
    LET r == records[i]
    IN  CASE r.family = "monitor" -> MonitorRank(records, i) <= KeepReports
          [] r.type \in ArchivedAlerts -> AlertRank(records, i) <= KeepAlerts
          [] r.type = "acceptance_artifact" -> RunRank(records, i) <= KeepRuns
          [] r.type = "daemon_log_backup" -> BackupRank(records, i) <= KeepBackups
          [] OTHER -> FALSE

-----------------------------------------------------------------------------
(***************************************************************************)
(* apply_retention_decisions: which records have to stay, whatever their   *)
(* age.                                                                    *)
(***************************************************************************)
PinnedTypes ==
    {"state_core_file", "daemon_log", "monitor_recovery_state", "alert_latest", "alert_jsonl"}

Protected(records, i) ==
    LET r == records[i]
    IN  \/ r.type \in PinnedTypes
        \/ r.says # {}
        \/ IsLatest(records, i)
        \/ r.type = "acceptance_artifact" /\ ~r.file.stamped
        \/ r.family = "monitor" /\ r.file.path \in Referenced(records)

\* alert_has_existing_report_reference
ReportExists(files, r) == \E i \in DOMAIN files : files[i].path \in r.reports

\* assign_candidate_decision: what happens to a record nothing protects.
Deletable(files, records, i) ==
    LET r == records[i]
    IN  /\ ~Protected(records, i)
        /\ CASE r.family = "monitor" ->
                  r.file.age > ReportDays \/ MonitorRank(records, i) > KeepReports
             [] r.type \in ArchivedAlerts -> /\ ReportExists(files, r)
                                             /\ r.file.age > AlertDays
                                             /\ AlertRank(records, i) > KeepAlerts
             [] r.type = "acceptance_artifact" -> /\ r.file.age > AcceptanceDays
                                                  /\ RunRank(records, i) > KeepRuns
             [] r.type = "daemon_log_backup" -> BackupRank(records, i) > KeepBackups
             [] OTHER -> FALSE

\* assign_daemon_rotation_plan
Rotatable(records, i) == records[i].type = "daemon_log" /\ records[i].file.big

\* run_dry_run with build_summary: the plan for a set of files.
Plan(files) ==
    LET records == Enriched(Inventory(files))
        at(I) == {records[i].file.path : i \in I}
    IN  [delete |-> at({i \in DOMAIN records : Deletable(files, records, i)}),
         rotate |-> at({i \in DOMAIN records : Rotatable(records, i)}),
         protected |-> at({i \in DOMAIN records :
                             \/ Protected(records, i)
                             \/ /\ records[i].type \in ArchivedAlerts
                                /\ ~ReportExists(files, records[i])})]
=============================================================================
