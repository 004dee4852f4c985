---------------------------- MODULE EventReports ----------------------------
(***************************************************************************)
(* What the reports of the monitor say of an event.  One session           *)
(* (sessions/troubleshooting_session.py) serves every event the monitor    *)
(* finds: evidence is appended to it, and what the latest recovery,        *)
(* notification and rerun did is kept in it.  The report of an event is    *)
(* made from the evidence since the event and from what the session keeps. *)
(*                                                                         *)
(* A session is [items, rerun, recovery, notification, path]; an item of   *)
(* evidence is [source, print, says], `print' the fingerprint it contains  *)
(* and `says' its phrases.  An event is [print, type, says].  A recovery   *)
(* outcome is "blocked" (not executed), "failed" (nothing applied),        *)
(* "recovered", "undone" (the rerun failed, rolled back) or "kept".        *)
(***************************************************************************)
EXTENDS Integers, Sequences, FiniteSets, SequencesExt

Router == INSTANCE FixPlanning

Outcomes == {"blocked", "failed", "recovered", "undone", "kept"}
NoPrint == "none"
Nothing == [print |-> NoPrint]

\* __init__
NewSession(path) ==
    [items |-> <<>>, rerun |-> FALSE, recovery |-> Nothing, notification |-> Nothing, path |-> path]

Item(source, print, says) == [source |-> source, print |-> print, says |-> says]

\* add_evidence
AddEvidence(s, item) == [s EXCEPT !.items = Append(@, item)]

Phrases(items) == UNION {item.says : item \in Range(items)}

\* What the router is given: the file of all the evidence, or the evidence itself.
Combined(s) == [path |-> s.path, early |-> {}, tail |-> Phrases(s.items), named |-> {}, read |-> TRUE]
Previewed(items) == [path |-> {}, early |-> {}, tail |-> Phrases(items), named |-> {}, read |-> TRUE]

\* generate_fix_plan reads all the evidence of the session.
FixPlan(s) == Router!Generate(Combined(s)).fixes
PlanSays(plan) ==
    IF plan = <<>> THEN {} ELSE {"port"} \cup UNION {fix.says : fix \in Range(plan)}

-----------------------------------------------------------------------------
(***************************************************************************)
(* generate_report.                                                        *)
(***************************************************************************)

\* _infer_initial_failure_summary
InitialFailure(primary, items) ==
    LET text == Phrases(items)
    IN  CASE "hip out of memory" \in text -> "hip memory"
          [] "hip out of memory" \notin text /\ "cuda out of memory" \in text -> "cuda memory"
          [] OTHER ->
                IF text \cap {"modulenotfounderror", "no module named"} # {} THEN "dependency"
                ELSE IF "no space left on device" \in text THEN "space"
                ELSE IF "address already in use" \in text THEN "port" ELSE primary

\* _build_interactive_evidence_result: what the report says the evidence shows.
Shown(items) ==
    {item.source : item \in {i \in Range(items) :
        i.source \in {"safe_apply", "safe_apply_rollback", "project_rerun", "auto_recovery"}}}

\* _build_auto_recovery_result
RecoverySection(recovery) ==
    IF recovery = Nothing THEN Nothing
    ELSE [status |-> IF recovery.applied /\ recovery.rerun THEN "resolved" ELSE "ok", of |-> recovery]

\* The items of a source, each at its place.
From(items, source) == [i \in {j \in DOMAIN items : items[j].source = source} |-> items[i]]
Has(items, source) == DOMAIN From(items, source) # {}

ReportOf(s, items, route, recovery, notification) ==
    [route |-> route.primary, evidence |-> items, shown |-> Shown(items),
     initial |-> InitialFailure(route.primary, items),
     outcome |-> IF s.rerun THEN "resolved" ELSE "unresolved",
     reruns |-> From(items, "project_rerun"),
     recovery |-> IF recovery THEN RecoverySection(s.recovery) ELSE Nothing,
     notification |-> IF notification THEN s.notification ELSE Nothing]

\* Mutant: a report always tells of the latest notification.
ScopedReportWithNotification(s, items) ==
    ReportOf(s, items, Router!Classify(Previewed(items), FALSE),
             Has(items, "auto_recovery"), TRUE)

\* generate_report(evidence_items=items): only what the items are about.
ScopedReport(s, items) ==
    ReportOf(s, items, Router!Classify(Previewed(items), FALSE),
             Has(items, "auto_recovery"), Has(items, "notification"))

\* generate_report(), as an operator asks for it.
FullReport(s) == ReportOf(s, s.items, Router!Classify(Combined(s), TRUE), TRUE, TRUE)

-----------------------------------------------------------------------------
(***************************************************************************)
(* AutoRecoveryRunner._recover as the session sees it, and the handling of *)
(* an event by the monitor around it.                                      *)
(***************************************************************************)

\* _find_event_evidence_start: the last item that contains the fingerprint.
EventStart(s, print) ==
    LET having == {i \in DOMAIN s.items : s.items[i].print = print}
    IN  IF having = {} THEN Len(s.items) + 1
        ELSE CHOOSE i \in having : \A j \in having : j <= i

Since(items, start) == SubSeq(items, start, Len(items))

\* apply_fix, rerun_project and rollback_latest_apply
Applied(s) == AddEvidence(s, Item("safe_apply", NoPrint, {}))
Rerun(s, ok, e) ==
    [AddEvidence(s, Item("project_rerun", NoPrint, IF ok THEN {} ELSE e.says)) EXCEPT !.rerun = ok]
RolledBack(s) == AddEvidence(s, Item("safe_apply_rollback", NoPrint, {}))

Executed(s, e, outcome) ==
    LET applied == Applied(s)
    IN  CASE outcome = "blocked" -> s
          [] outcome = "failed" -> applied
          [] outcome = "recovered" -> Rerun(applied, TRUE, e)
          [] outcome = "undone" -> RolledBack(Rerun(applied, FALSE, e))
          [] outcome = "kept" -> Rerun(applied, FALSE, e)

\* record_auto_recovery_result; the text of the result has the fix plan.
RecordRecovery(s, e, outcome, plan) ==
    [AddEvidence(s, Item("auto_recovery", e.print, {"port"} \cup PlanSays(plan)))
        EXCEPT !.recovery =
            [print |-> e.print, applied |-> outcome \notin {"blocked", "failed"},
             rerun |-> outcome = "recovered", rolled |-> outcome = "undone"]]

Recover(s, e, outcome) ==
    LET decided == AddEvidence(AddEvidence(s, Item("recovery_policy", NoPrint, {"port"})),
                               Item("r15_auto_recovery_gate", e.print, {}))
        plan == IF outcome = "blocked" THEN <<>> ELSE FixPlan(decided)
    IN  RecordRecovery(Executed(decided, e, outcome), e, outcome, plan)

\* The report of it, from the evidence since the event was found.
RecoveryReport(found, recovered, e) ==
    ScopedReport(recovered, Since(recovered.items, EventStart(found, e.print)))

\* record_notification_result
RecordNotification(s, e, outcome) ==
    LET status == CASE outcome = "recovered" -> "recovered"
                    [] outcome = "undone" -> "rollback_done"
                    [] outcome = "blocked" -> "manual_escalation"
                    [] OTHER -> "auto_recover"
    IN  [AddEvidence(s, Item("notification", NoPrint, {}))
            EXCEPT !.notification = [print |-> e.print, status |-> status]]

(***************************************************************************)
(* MonitorLoop._handle_event: it adds the event, recovers, notifies, and   *)
(* reports once more from the event on.                                    *)
(***************************************************************************)
AddEvent(s, e) == AddEvidence(s, Item("monitor_error_event", e.print, e.says))
EventReport(found, noted) == ScopedReport(noted, Since(noted.items, Len(found.items)))
=============================================================================
