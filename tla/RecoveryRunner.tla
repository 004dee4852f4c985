--------------------------- MODULE RecoveryRunner ---------------------------
(***************************************************************************)
(* AutoRecoveryRunner (recovery/auto_recovery_runner.py): from an event    *)
(* to the record of what was done about it.                                *)
(*                                                                         *)
(* Two runners work on one project.  The monitor keeps its runner, and so  *)
(* its session with the ledger of applied fixes and its cooldown tracker,  *)
(* for as long as it lives.  The worker of the web server builds a new     *)
(* session and a new tracker for every approved request, and the event     *)
(* from what the request says of it.                                       *)
(*                                                                         *)
(* A fix is one edit here, read and written in one step; FixLedger has     *)
(* what two edits do to each other.  ApprovedRecovery has the life of a    *)
(* request and of its job.                                                 *)
(***************************************************************************)
EXTENDS RecoveryPolicy

CONSTANTS
  Projects,      \* the projects.yaml entries to start from
  Events,        \* the events the monitor may find
  Contents,      \* what config.json may contain
  PrintSeconds,  \* cooldown of a fingerprint
  TypeSeconds,   \* cooldown of an event type
  ProjectSeconds,\* cooldown of the project
  MaxRecoveries, \* bound: calls of _recover
  MaxTime,       \* bound: the clock
  MaxUpsets      \* bound: exceptions, ends of a process and edits of config.json by a person

Runners == {"monitor", "approved"}

ASSUME CooldownsAssumption ==
  PrintSeconds \in Nat /\ TypeSeconds \in Nat /\ ProjectSeconds \in Nat
ASSUME LimitsAssumption ==
  MaxRecoveries \in Nat /\ MaxTime \in Nat /\ MaxUpsets \in Nat

ASSUME ProjectsAssumption ==
  Projects \subseteq [enabled : BOOLEAN, auto : BOOLEAN, dry : BOOLEAN, approval : BOOLEAN,
                      rollback : BOOLEAN, rerun : BOOLEAN, remote : BOOLEAN, dir : BOOLEAN,
                      escalate : SUBSET STRING, allow : SUBSET STRING]
ASSUME EventsAssumption ==
  Events \subseteq [print : STRING, type : STRING, issue : STRING, sure : BOOLEAN, text : BOOLEAN,
                    domains : SUBSET STRING]

ASSUME ContentsAssumption == \A c \in Contents : IsConfig(c)

VARIABLES
  project,   \* the entry of projects.yaml
  content,   \* config.json: [fields -> values]
  requests,  \* the approval requests, in the order of filing
  run,       \* [Runners -> the call of _recover at work]
  ledger,    \* [Runners -> the applied records of its session]
  last,      \* the tracker of the monitor: [prints, types, project -> time]
  seen,      \* fingerprints the monitor has done with
  now,       \* the clock
  count,     \* [recoveries, upsets] so far
  starts     \* history: the monitor's executions since it was started

vars == <<project, content, requests, run, ledger, last, seen, now, count, starts>>

Never == -1
NoAudit == [execution |-> "none", rollback |-> "none"]
Idle == [step |-> "idle"]

Prints == {e.print : e \in Events}
Types == {e.type : e \in Events}
NoCooldown == [prints |-> [p \in Prints |-> Never], types |-> [t \in Types |-> Never],
               project |-> Never]

World == [reading |-> IF project.remote THEN "remote_deferred_no_write" ELSE "read_ok",
          content |-> content, port |-> "free"]

Init ==
  /\ project \in Projects
  /\ content \in Contents
  /\ requests = <<>>
  /\ run = [a \in Runners |-> Idle]
  /\ ledger = [a \in Runners |-> <<>>]
  /\ last = NoCooldown
  /\ seen = {} /\ now = 0 /\ starts = {}
  /\ count = [recoveries |-> 0, upsets |-> 0]

\* Something that does not happen every day.
Upset == count.upsets < MaxUpsets /\ count' = [count EXCEPT !.upsets = @ + 1]

-----------------------------------------------------------------------------
(***************************************************************************)
(* The cooldown tracker.                                                   *)
(***************************************************************************)
\* _scope_result
Rested(at, seconds) == seconds = 0 \/ at = Never \/ now - at >= seconds

\* Mutant: the scopes are alternatives.
CheckAny(e) ==
  \/ Rested(last.prints[e.print], PrintSeconds) \/ Rested(last.types[e.type], TypeSeconds)
  \/ Rested(last.project, ProjectSeconds)

Check(e) ==
  /\ Rested(last.prints[e.print], PrintSeconds) /\ Rested(last.types[e.type], TypeSeconds)
  /\ Rested(last.project, ProjectSeconds)

\* The worker's tracker is new.
Cool(a, e) == a = "approved" \/ Check(e)

Reserve(a, e) ==
  last' = IF a = "approved" THEN last
          ELSE [prints |-> [last.prints EXCEPT ![e.print] = now],
                types |-> [last.types EXCEPT ![e.type] = now], project |-> now]

-----------------------------------------------------------------------------
(***************************************************************************)
(* _recover: the gate, and whether it may have its way.                    *)
(***************************************************************************)
Start(a, e, found, request) ==
  /\ run[a] = Idle /\ count.recoveries < MaxRecoveries
  /\ count' = [count EXCEPT !.recoveries = @ + 1]
  /\ run' = [run EXCEPT ![a] =
       [step |-> "authorize", nr |-> count.recoveries, event |-> e, found |-> found,
        request |-> request, gate |-> Gate(project, e, World, Cool(a, e)),
        applied |-> FALSE, rerun |-> FALSE, rolled |-> FALSE, undone |-> FALSE,
        wrote |-> FALSE, torn |-> FALSE, again |-> FALSE, back |-> {}, told |-> NoAudit]]

Recover(e) ==
  /\ e.print \notin seen
  /\ Start("monitor", e, e, 0)
  /\ UNCHANGED <<project, content, requests, ledger, last, seen, now, starts>>

\* _event_from_request keeps the summary of the evidence, not the excerpt.
Rebuilt(e, kept) == [e EXCEPT !.domains = kept, !.text = TRUE]

RecoverAfterApproval(r) ==
  /\ requests[r].status = "approved"
  /\ \E kept \in SUBSET requests[r].event.domains :
       Start("approved", Rebuilt(requests[r].event, kept), requests[r].event, r)
  /\ ledger' = [ledger EXCEPT !["approved"] = <<>>]
  /\ UNCHANGED <<project, content, requests, last, seen, now, starts>>

\* _validate_approval_for_gate
Approval(request, e, gate) ==
  /\ request.status = "approved"
  /\ request.event.print = e.print /\ request.event.type = e.type
  /\ request.fix = gate.fix
  /\ request.approvable

\* Mutant: whether a person has to approve is for the gate to know.
ObjectionOfGate(a) ==
  IF a = "approved" /\ ~Approval(requests[run[a].request], run[a].event, run[a].gate)
  THEN "approval_invalid" ELSE ""

Objection(a) ==
  CASE a = "approved" /\ ~Approval(requests[run[a].request], run[a].event, run[a].gate) ->
         "approval_invalid"
    [] a = "monitor" /\ project.approval -> "human_approval_required"
    [] OTHER -> ""

\* _block_gate, or the reservation that failed.
Authorized(a) ==
  LET g == run[a].gate
  IN  CASE ~g.go -> g
        [] g.go /\ Objection(a) # "" ->
             [g EXCEPT !.go = FALSE, !.operator = TRUE, !.reason = Objection(a)]
        [] g.go /\ Objection(a) = "" /\ ~Cool(a, run[a].event) ->
             [g EXCEPT !.go = FALSE, !.reason = "cooldown_active"]
        [] OTHER -> g

Authorize(a) ==
  LET gate == Authorized(a)
  IN  /\ run[a].step = "authorize"
      /\ run' = [run EXCEPT ![a].gate = gate,
                            ![a].step = IF gate.go THEN "apply" ELSE "blocked"]
      /\ IF gate.go
         THEN /\ Reserve(a, run[a].event)
              /\ starts' = IF a = "monitor"
                           THEN starts \cup {[print |-> run[a].event.print,
                                              type |-> run[a].event.type, at |-> now]}
                           ELSE starts
         ELSE UNCHANGED <<last, starts>>
      /\ UNCHANGED <<project, content, requests, ledger, seen, now, count>>

-----------------------------------------------------------------------------
(***************************************************************************)
(* What is recorded of a recovery.                                         *)
(***************************************************************************)
\* _execution_result; _gate_blocked_before_dry_run keeps the dry run for
\* what would have run otherwise.
ExecutionResult(c) ==
  IF ~c.gate.go
  THEN CASE c.gate.reason = "human_approval_required" -> "not_run_human_approval_required"
         [] c.gate.reason = "approval_invalid" -> "not_run_approval_invalid"
         [] c.gate.dry /\ c.gate.allowed /\ ~c.gate.operator /\ c.gate.reasons = {}
              /\ c.gate.reason \in {"", "r15_dry_run", "no_op_already_safe"} -> "not_run_r15_dry_run"
         [] OTHER -> "not_run_r15_gate_blocked"
  ELSE CASE c.applied /\ c.rerun -> "executed_recovered"
         [] ~c.applied -> "executed_apply_failed"
         [] OTHER -> "executed_rerun_failed"

\* _rollback_result
RollbackResult(c) ==
  CASE c.rolled -> IF c.undone THEN "rollback_succeeded" ELSE "rollback_failed"
    [] ~c.rolled /\ c.applied /\ c.rerun -> "not_needed_recovered"
    [] ~c.rolled /\ ~c.rerun /\ c.gate.go /\ c.applied -> "rollback_not_executed"
    [] OTHER -> "not_run_before_execution"

Audit(c) == [execution |-> ExecutionResult(c), rollback |-> RollbackResult(c)]

\* _record_result, then _generate_report, which may raise.
RecordAndReport(a, raised) ==
  \/ /\ run' = [run EXCEPT ![a].told = Audit(run[a]), ![a].step = "reported"]
     /\ UNCHANGED count
  \/ /\ run' = [run EXCEPT ![a].told = Audit(run[a]), ![a].step = raised]
     /\ Upset

\* Mutant: every request waits for an operator.
FileUnscreened(a) ==
  LET c == run[a]
  IN  requests' = Append(requests, [event |-> c.event, fix |-> c.gate.fix, status |-> "pending",
                                    approvable |-> Approvable(c.gate, c.event)])

\* _create_approval_request_if_required, which swallows its own failures.
File(a) ==
  LET c == run[a]
      approvable == Approvable(c.gate, c.event)
  IN  \/ /\ a = "monitor" /\ c.gate.operator
         /\ requests' = Append(requests,
              [event |-> c.event, fix |-> c.gate.fix, approvable |-> approvable,
               status |-> IF approvable THEN "pending" ELSE "not_approvable"])
      \/ UNCHANGED requests

BlockedReport(a) ==
  /\ run[a].step = "blocked"
  /\ File(a)
  /\ RecordAndReport(a, "raised")
  /\ UNCHANGED <<project, content, ledger, last, seen, now, starts>>

-----------------------------------------------------------------------------
(***************************************************************************)
(* The fix, the rerun and the rollback.                                    *)
(***************************************************************************)
\* The edit the executor makes of the file as it is now.
Choice(fix) ==
  IF project.remote THEN RemoteChoice(SpecOfFix(fix), content, TRUE)
  ELSE LocalChoice(SpecOfFix(fix), content, "free")

\* _assert_r15_execution_authorized
Authoritative(gate) == ~gate.dry /\ gate.go /\ gate.layer = "safe_auto_recover"

\* session.apply_fix and session.remote_apply_fix
Apply(a) ==
  LET c == run[a]
      k == Choice(c.gate.fix)
  IN  /\ c.step = "apply" /\ Authoritative(c.gate)
      /\ content' = WrittenBy(SpecOfFix(c.gate.fix), content, k)
      /\ ledger' = IF k > 0
                   THEN [ledger EXCEPT ![a] = Append(@, [nr |-> c.nr, before |-> content])]
                   ELSE ledger
      /\ run' = [run EXCEPT
                   ![a].applied = k >= 0, ![a].wrote = k > 0,
                   ![a].step = IF k < 0 THEN "report" ELSE IF project.rerun THEN "rerun" ELSE "judge"]
      /\ UNCHANGED <<project, requests, last, seen, now, count, starts>>

\* The apply raises, or loses the host, before or after the edit and without a record of it.
ApplyBreaks(a) ==
  LET c == run[a]
      k == Choice(c.gate.fix)
  IN  /\ c.step = "apply"
      /\ Upset
      /\ \E done \in IF Authoritative(c.gate) THEN {0, k} ELSE {0}, next \in {"again", "report"} :
           /\ content' = WrittenBy(SpecOfFix(c.gate.fix), content, done)
           /\ run' = [run EXCEPT ![a].wrote = done > 0, ![a].torn = done > 0, ![a].step = next]
      /\ UNCHANGED <<project, requests, ledger, last, seen, now, starts>>

\* session.rerun_project and session.rerun_remote_project
Rerun(a) ==
  /\ run[a].step = "rerun"
  /\ \/ /\ \E won \in BOOLEAN : run' = [run EXCEPT ![a].rerun = won, ![a].step = "judge"]
        /\ UNCHANGED count
     \/ run' = [run EXCEPT ![a].step = "again"] /\ Upset
  /\ UNCHANGED <<project, content, requests, ledger, last, seen, now, starts>>

\* Mutant: the oldest record of the session is taken back.
TakenOldest(records) == Head(records)

\* rollback_latest: the newest record of the session.
Taken(records) == Last(records)

\* Mutant: a rollback is called for whenever the rerun did not succeed.
CallsForRollbackUnapplied(c) == ~c.rerun

\* The guards of _rollback and of its two calls.
CallsForRollback(c) == c.applied /\ ~c.rerun /\ project.rollback

\* session.rollback_latest_apply and session.remote_rollback_latest_apply for the call c
Undo(a, c) ==
  LET record == Taken(ledger[a])
  IN  \/ /\ ledger[a] # <<>>
         /\ content' = record.before
         /\ ledger' = [ledger EXCEPT ![a] = Front(@)]
         /\ run' = [run EXCEPT ![a] = [c EXCEPT !.rolled = TRUE, !.undone = TRUE, !.step = "report",
                                                !.back = @ \cup {record.nr}]]
      \/ /\ run' = [run EXCEPT ![a] = [c EXCEPT !.rolled = TRUE, !.undone = FALSE, !.step = "report"]]
         /\ UNCHANGED <<content, ledger>>

\* Rolls back if that is called for; the rollback may raise.
RollBack(a, c, raised) ==
  \/ CallsForRollback(c) /\ Undo(a, c) /\ UNCHANGED count
  \/ /\ CallsForRollback(c) /\ Upset
     /\ run' = [run EXCEPT ![a].step = raised]
     /\ UNCHANGED <<content, ledger>>
  \/ /\ ~CallsForRollback(c)
     /\ run' = [run EXCEPT ![a] = [c EXCEPT !.step = "report"]]
     /\ UNCHANGED <<content, ledger, count>>

Judge(a) ==
  /\ run[a].step = "judge"
  /\ RollBack(a, run[a], "again")
  /\ UNCHANGED <<project, requests, last, seen, now, starts>>

Report(a) ==
  /\ run[a].step = "report"
  /\ RecordAndReport(a, IF run[a].again THEN "raised" ELSE "again")
  /\ UNCHANGED <<project, content, requests, ledger, last, seen, now, starts>>

\* except Exception: once more a rollback, a record and a report.
HandleException(a) ==
  /\ run[a].step = "again"
  /\ RollBack(a, [run[a] EXCEPT !.again = TRUE], "raised")
  /\ UNCHANGED <<project, requests, last, seen, now, starts>>

\* The monitor marks the event seen if nothing was raised; the worker closes the request.
End(a) ==
  /\ run[a].step \in {"reported", "raised"}
  /\ seen' = IF a = "monitor" /\ run[a].step = "reported"
             THEN seen \cup {run[a].event.print} ELSE seen
  /\ requests' = IF a = "approved"
                 THEN [requests EXCEPT ![run[a].request].status = "over"] ELSE requests
  /\ run' = [run EXCEPT ![a] = Idle]
  /\ ledger' = IF a = "approved" THEN [ledger EXCEPT ![a] = <<>>] ELSE ledger
  /\ UNCHANGED <<project, content, last, now, count, starts>>

-----------------------------------------------------------------------------
(***************************************************************************)
(* People, the clock, and the ends of the two processes.                   *)
(***************************************************************************)
Decide(r) ==
  /\ \/ /\ requests[r].status = "pending" /\ requests[r].approvable
        /\ requests' = [requests EXCEPT ![r].status = "approved"]
     \/ /\ requests[r].status \in {"pending", "approved"}
        /\ requests' = [requests EXCEPT ![r].status = "rejected"]
  /\ UNCHANGED <<project, content, run, ledger, last, seen, now, count, starts>>

EditConfig ==
  /\ Upset
  /\ content' \in Contents \ {content}
  /\ UNCHANGED <<project, requests, run, ledger, last, seen, now, starts>>

Tick ==
  /\ now < MaxTime
  /\ now' = now + 1
  /\ UNCHANGED <<project, content, requests, run, ledger, last, seen, count, starts>>

\* A monitor may be started without the state of the one before it.
Crash(a) ==
  /\ Upset
  /\ run[a] # Idle \/ ledger[a] # <<>>
  /\ run' = [run EXCEPT ![a] = Idle]
  /\ ledger' = [ledger EXCEPT ![a] = <<>>]
  /\ IF a = "monitor"
     THEN last' = NoCooldown /\ starts' = {} /\ seen' \in {seen, {}}
     ELSE UNCHANGED <<last, starts, seen>>
  /\ UNCHANGED <<project, content, requests, now>>

Step(a) ==
  \/ Authorize(a) \/ BlockedReport(a) \/ Apply(a) \/ ApplyBreaks(a) \/ Rerun(a)
  \/ Judge(a) \/ HandleException(a) \/ Report(a) \/ End(a) \/ Crash(a)

Next ==
  \/ \E e \in Events : Recover(e)
  \/ \E r \in DOMAIN requests : RecoverAfterApproval(r) \/ Decide(r)
  \/ \E a \in Runners : Step(a)
  \/ EditConfig \/ Tick

Spec == Init /\ [][Next]_vars

-----------------------------------------------------------------------------
(***************************************************************************)
(* Properties.                                                             *)
(***************************************************************************)
Active == {a \in Runners : run[a].step # "idle"}
Executing == {a \in Active : run[a].step \notin {"authorize", "blocked"} /\ run[a].gate.go}

\* The variables hold what their readers expect; a request nobody may approve stays as it is.
TypeOK ==
  /\ project \in Projects
  /\ now \in 0..MaxTime
  /\ seen \subseteq Prints
  /\ IsConfig(content)
  /\ \A r \in DOMAIN requests :
       /\ requests[r].event \in Events
       /\ requests[r].status \in IF requests[r].approvable
                                THEN {"pending", "approved", "rejected", "over"}
                                ELSE {"not_approvable"}
  /\ \A a \in Runners : \A i \in DOMAIN ledger[a] :
       IsConfig(ledger[a][i].before) /\ ledger[a][i].nr < count.recoveries
  /\ \A a \in Active :
       /\ run[a].step \in {"authorize", "blocked", "apply", "rerun", "judge", "again", "report",
                           "reported", "raised"}
       /\ run[a].nr < count.recoveries
       /\ run[a].request \in 0..Len(requests)

\* _recover, approved_recovery_worker: whatever is executed is the safe fix registered for the
\* type of the event that was found, in a project that wants it executed and can take it back.
\* Evidence that points to two domains, and a project that asks for approvals, never lead to an
\* execution the operator did not approve - also where the event was rebuilt from the request.
ExecutedIsAuthorized ==
  \A a \in Executing :
    LET c == run[a]
    IN  /\ c.gate.fix = SafeFixOf(c.found.type) /\ c.gate.fix \in SafeFixes \cap project.allow
        /\ project.enabled /\ project.auto /\ project.rollback /\ ~project.dry
        /\ Ambiguous(c.found, c.gate.fix) \/ project.approval =>
             /\ a = "approved"
             /\ requests[c.request].approvable /\ requests[c.request].fix = c.gate.fix

\* The executors: a recovery only ever degrades one field or puts back what a record of its own
\* session holds, whatever was done to the file between the gate's look at it and the edit.
RecoveryOnlyDegrades ==
  [][content' # content /\ run' # run =>
       \/ \E f \in DOMAIN content :
            /\ \A g \in DOMAIN content \ {f} : content'[g] = content[g]
            /\ Degrades(f, content[f], content'[f])
       \/ \E a \in Runners : \E i \in DOMAIN ledger[a] :
            ledger[a][i].before = content' /\ Len(ledger'[a]) < Len(ledger[a])]_vars

\* AutoRecoveryResult against what was done: what is recorded as not run wrote nothing and took
\* nothing back; what is recorded as recovered was not taken back; a failed apply wrote nothing
\* unless it broke before it could say so; a rollback that is said to have succeeded took back
\* a record, and one that is said to have failed took back none, unless it was the second.
AuditIsTrue ==
  \A a \in Active :
    LET c == run[a]
    IN  c.step = "reported" =>
          /\ c.told.execution \in {"not_run_human_approval_required", "not_run_approval_invalid",
                                   "not_run_r15_dry_run", "not_run_r15_gate_blocked"}
               => ~c.wrote /\ c.back = {}
          /\ c.told.execution = "executed_recovered" => c.applied /\ c.rerun /\ c.back = {}
          /\ c.told.execution = "executed_apply_failed" => c.back = {} /\ (c.wrote => c.torn)
          /\ c.told.rollback = "rollback_succeeded" => c.back # {}
          /\ c.told.rollback = "rollback_failed" /\ ~c.again => c.back = {}
          /\ c.told.execution = "executed_rerun_failed" => c.rolled

\* _rollback takes back the edit of its own recovery, and not that of an earlier recovery in the
\* same session, if the apply made one and the recovery went through without an exception.
RollbackIsOwn ==
  \A a \in Executing : run[a].wrote /\ ~run[a].again => run[a].back \subseteq {run[a].nr}

\* reserve: a monitor never starts two executions within the cooldown of the project, of
\* their event type or of their fingerprint.
CooldownHolds ==
  \A s \in starts : \A t \in starts :
    s # t => LET gap == IF s.at < t.at THEN t.at - s.at ELSE s.at - t.at
             IN  /\ gap >= ProjectSeconds
                 /\ s.type = t.type => gap >= TypeSeconds
                 /\ s.print = t.print => gap >= PrintSeconds
=============================================================================
