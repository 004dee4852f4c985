# A formal model of the Linux monitoring and auto-recovery agent

TLA+ modules of this repository: of the parts where several threads, processes
and people act on shared files, or where a process that may die works through a
stream of events, and of the algorithms that decide what may be repaired, deleted,
forgotten or said. TLC checks the modules on small instances, TLAPS proves
most of the safety properties for instances of any size. `PROJECT.json` lists the runs,
which source lines each definition stands for, the findings, the hazards and the
theorems.

    tlc -workers 2 -config job_races.cfg MCJobStore.tla
    tlapm JobStore_proofs.tla

Paths below are relative to `src/`.

## 1. The system

| Part | State it keeps | Operations | Hard behaviour | Correct when |
|---|---|---|---|---|
| Job queue, `web_ui/runtime_control.py` JobStore | `jobs.jsonl`, append only; read as the newest `updated_at` (get) or the last line (jobs) | create, mark_running, complete, request_cancel, retry, lease_next, reap_expired_running | read-then-append races, crashes, leases shorter than the jobs | statuses have a cause, ends are final, attempts are bounded, jobs end |
| Job worker, `web_ui/job_worker.py` | a daemon thread per server process; the command it runs | run_once in a loop, StreamingCommandRunner | cancel, deadline and the end of a process cross | an outcome is that of the process, no process outlives its job |
| Operation runner, `web_ui/operation_runner.py` | `monitor_process.json`, the job | enqueue, execute_leased_job and the operations | check-then-act on a pid, "latest" at run time | allowlist only, one monitor, the record asked for |
| HTTP server, `web_ui/server.py` | threads of ThreadingHTTPServer | POST handlers | concurrent handlers, exceptions half way | see job queue and approvals |
| Approval log, `monitors/trace_store.py` ApprovalStore | `approval_requests.jsonl`, append only; the last line is the status | create_request_from_gate, approve, reject, expire, record_execution | approve reads, then appends; record_execution does not read | an approval is consumed once, a rejection stays |
| Approved recovery worker, `web_ui/approved_recovery_worker.py` | none of its own | run_for_request | two reads of the approval before the recovery, the record after it | see approval log |
| Recovery policy, gate, cooldown, `policies/`, `recovery/` | cooldowns in memory | resolve, decide, check, reserve | a second runner has a second tracker; the file changes after the look at it | nothing unregistered, ambiguous or unapproved runs; cooldowns hold |
| Recovery runner, `recovery/auto_recovery_runner.py` | the session's ledger | recover, recover_after_approval | stale approval, exceptions half way | the audit record tells what was done, a rollback takes back its own edit |
| Monitor loop, `monitors/monitor_loop.py` | seen fingerprints, counters of the cycle, cooldowns, watermarks; `project_status.json` | run_once | limits that starve, crash between read and save, a verdict asked twice | an event is handled once and alerted; limits hold |
| Log watchers, `monitors/log_watcher.py` | offsets, watermarks | poll | rotation, truncation, failing reads | what stays in the log is found |
| Error event detector, `detectors/` | none | detect_all | rules that suppress each other | a window with a failure is never silent |
| Safe config editing, `fixers/`, and the session's fixes | backups, `applied_fixes.json` as a stack of records | apply, rollback_latest | two edits of a file, second-resolution names, several sessions, crash | what was applied is recorded, undo is exact |
| Recovery history, `web_ui/recovery_history.py`, `monitors/recovery_history_store.py` | append-only file | record, roll back an entry | "latest" changes before the job runs | the entry asked for is rolled back |
| Safe recovery registry, `safe_recovery/` | none | specs, transitions, governance | seven tables that have to agree | what is allowed is what every table knows |
| Sessions, router, planner | evidence, latest outcomes | route, plan, report | one session for all events | a report is about its event |
| Report index, seen-fingerprint compaction, retention | append-only files; reports, alerts, backups | register, compact, plan | torn lines, unknown ages, evidence | nothing that is referred to is deleted, nothing recent forgotten |
| Agents, tools, notifiers, front end, scripts | none that is shared | | | not modelled, see section 7 |

The parts meet in files. A handler thread of the server appends to `jobs.jsonl`;
the worker thread of the same or of another server process leases jobs from it
and dispatches them to the operation runner or to a connection check. The
monitor process files approval requests; a handler appends the decision and
queues an `approved_recovery` job; the worker consumes the request through the
recovery runner and appends the outcome. The runner of the monitor and that of the
worker edit one `config.json` through a session each, and the rollback job of the web
UI works on the ledgers of both. `monitors/jsonl_store.py` takes a flock around a
single read and around a single append, and nothing holds a lock across the two; the
ledgers, the configuration and `monitor_process.json` are not locked at all. That is
the atomicity the modules use.

## 2. Modules

| Module | Models |
|---|---|
| `JobStore` | the queue, its handler threads and its workers, split at every access to the file |
| `JobLifecycle` | what the queue promises: a first-in first-out queue of jobs with attempts |
| `ApprovedRecovery` | the approval log, the handlers that decide, the jobs they queue, the worker that consumes |
| `MonitorCycle` | the monitor of one project: reading a log in the three ways there are, and what a cycle does with the events |
| `MonitorControl` | the monitor daemon and the commands of jobs as processes, and the worker that starts, stops, watches and kills them |
| `FixLedger` | sessions that apply and roll back fixes of one configuration file, and the rollback job with its history |
| `RecoveryPolicy` | the registry of safe fixes, the rules for a change, the policy and the runtime gate, as functions |
| `RecoveryRunner` | the two recovery runners of a project, over `RecoveryPolicy` |
| `ErrorEvents` | the rules of the detector and what it makes of a window of lines |
| `RegistryGovernance` | the validator of the tables that have to agree, over `RecoveryPolicy` and `ErrorEvents` |
| `FixPlanning` | from evidence to routes and offered fixes |
| `EventReports` | what the reports of an event say when one session serves all events |
| `StateCompaction`, `Retention` | which fingerprints, index records and files may go |
| `MCJobStore`, `MCApprovedRecovery`, `MCMonitorCycle`, `MCFixLedger`, `MCRecoveryRunner` | instances for TLC; `MonitorControl` needs none |
| `MCAlgorithms` | one call of each stateless algorithm, over all inputs of a bounded set, with their properties |
| `JobStore_proofs`, `ApprovedRecovery_proofs`, `MonitorCycle_proofs`, `MonitorControl_proofs`, `RecoveryPolicy_proofs`, `RecoveryRunner_proofs`, `FixLedger_proofs`, `Algorithms_proofs` | theorems |

Definitions whose comment begins "Mutant:" are changed versions of the definition
after them; no specification uses them. They are the bugs the properties are tested
against (`PROJECT.json`, `mutants`).

### JobStore

`newest[j]` is what `get()` and `_update` read, `last[j]` what `jobs()` reads. An
actor (a handler thread or a worker) is at a label `pc` and may carry a record
`pend` that `_update` has read and changed; `Stamp` takes `updated_at`, and
`AppendUpdate` writes the line. So every update is three steps, and any other
actor may act in between. `Line` says how a line changes the two views.

- Handlers: `Enqueue` (create), `RefuseUnsupported`, `UiGet`/`UiMark`/`UiComplete`/
  `UiAbandon` (an approval handler's own job), `CancelGet`/`CancelUpdate`,
  `Retry`/`RetryAppend`.
- Worker: `ReapScan`/`ReapJob`, `LeaseScan`/`RefuseLease`/`LeasePick`/`LeaseMark`,
  `CheckCanceled`, `CheckUnsupported`, `ExecuteGet`, `RemarkGet`/`Remark`, `StartRun`,
  `FinishRun`, `AfterRun`; `LeaveRunning` and `RecoverGet` are the two ways of an
  approved recovery that do not go straight on.
- `Crash(s)` ends all actors of a process and forgets what they carried.

Abstractions. A job is its status, attempt, lease, `started_at` and cancel mark.
Time is not kept: the reaper may find any started job late and any lease expired
(`Reapable`), which the code allows because a lease is 60 s, an operation may take
600 s and nothing calls `heartbeat`. Two stamps of one job are taken to differ
(microseconds). `runs` and `asked` are history variables.

### ApprovedRecovery

`log[r]` is the last line of a request. `approve` is two steps (`ApproveRead`,
`ApproveAppend`) and a third queues the job; `reject` and `expire` are one, because
they do not look. The worker's steps are the reads of the approval
(`Consume`, `Validate`), the check for another active job (`YieldToActive`,
`TakeJob`), `StartRun`, `FinishRun`, `Record` and `CompleteJob`. `GiveUp` is every
way the preflight check, the gate, the cooldown or an exception ends a recovery
before it begins; which of them it is, and what a recovery does, is RecoveryRunner's
subject. An update of a job is one step here, and there is one worker
(the default deployment embeds it in the server, README lines 264-265 of the
repository); what concurrent updates of one job do is JobStore's subject.

### MonitorCycle

A cycle goes `sleep` -> (`stat` ->) `read` -> `pick` -> `recover` -> `notify` ->
`mark` -> `pick` ... -> `end` -> `sleep`, as `run_once` does. `BeginCycle` is
`_begin_cycle_health`; `Stat` and `ReadLocal`, `ReadRemote`, `ReadTail` and
`ReadNothing` are the watchers; `Take` is `_select_events_for_cycle`, stated by
what it returns (`Selects`). The ways past an event are `SkipSeen`,
`SkipExtraCandidate` (the limit on candidates) and `SkipUnreported`
(`reserve_report_capacity`); `Admit` reserves its reports. `Recover` is the recovery
runner with its report, `Notify` the alert and the second report, `MarkSeen` the mark
and the save. `HandleFails` is an exception in `_handle_event`, `Crash` the end of
the process, whatever the cause, and `Start` the load of `project_status.json`.

`mode` is the watcher: "local" has offsets in memory, "remote" saved watermarks,
"tail" is a remote project with watermarks off or in shadow mode (the default,
`remote_watermark_shadow`), which reads the last lines every time.

Abstractions. An event is its fingerprint, one to a line, and lines stand for bytes;
the error chunks of a watcher carry no event. There is one log file. The log is
written and rotated between cycles and between `stat` and `read`; what is written
during the handling is seen by the next cycle either way. Whether a registered
event is a candidate is a choice each time it is asked, since the gate looks at the
project's file and at ports; the cooldowns of fingerprint and event type are part of
that choice, the project cooldown is kept (`cooling`). A cycle is taken to be shorter
than a cooldown (600 s for fixes, 300 s for reports), and notifications to be on.
`allow_event` refuses nothing: it has the limit the selection was cut to.
`handled`, `told`, `excused` and `did` are history variables.

### MonitorControl

A process is running, a zombie or gone. The server is the parent of what it starts
and never waits for the monitor, so a monitor that is over is a zombie until the next
`Popen` cleans up (`Reaped`), and `pid_is_alive` finds zombies too. `StartLook`,
`SpawnMonitor`, `Truncate`, `WriteStarted` and `StopLook`, `WriteForgotten`,
`WriteStopped` are the steps of `start_monitor` and `stop_monitor`; `write_text`
empties the file before it fills it. `PollCancel`, `PollDeadline`, `Terminate`,
`KillNobody`, `KillLate`, `Kill`, `Collect` and `CompleteCommand` are
`StreamingCommandRunner` with its grace period, and what `run_once` makes of the
return code. A process may end at any moment, by itself or on SIGTERM, or hold out. A
pid is taken again once its process is gone. `Crash` ends the server: its commands lose their
parent, its job is requeued or given up, and the next server finds only the files.

### FixLedger

Every session directory has a ledger (`applied_fixes.json` or
`remote_applied_fixes.json`), loaded, changed and written whole. An apply is
`LocalPlan` or `RemoteTry`, then `EditRead`, `Backup`, `EditWrite` for each edit,
`Finalize` and `SaveLedger`; a rollback is `RollbackLoad`, `Restore` and `Pop`. The rollback job of the web UI is an actor of its own:
`Request` with a record or "latest", `Resolve` when it runs, the rollback, `Report` with the
history. `Abort` is an exception or the end of a process at any of these points,
and leaves a torn file if it was writing. A backup is named by its directory, the fix
and the second; the sessions of a remote project share a directory.
`crossed` says that two actors were at work at once, `shared` which ledgers a session
used during the job. `standing` has the edits that were written and not rolled back,
`excused` those whose apply failed or died, or whose ledger a write cut short, and
`overtaken` those whose record was saved while the rollback job held an older list.
All five are history.

Values are small naturals, admitted only downwards (`RecoveryPolicy!Transition` has
the real rules); whether a file is remote is chosen at the start.

### RecoveryPolicy and RecoveryRunner

`RecoveryPolicy` has the registry row by row, `Transition` (the local rules) and
`RemoteTransition` (the copy in the remote editor's script), `Resolve`, the dry run of
a fix over the content of the file (`Planned`), `Gate` with its reasons in
the order of the code, `Candidate` (what the monitor asks before) and `Approvable`.
Values compare as in Python, where `True == 1`.

`RecoveryRunner` has two runners. That of the monitor lives as long as the monitor, with
its session and its cooldown tracker; the worker builds a new session and a new
tracker for each approved request, and the event from what the request says of it
(`Rebuilt`). A call goes "authorize" -> "blocked" or "apply" -> "rerun" -> "judge" ->
"report" -> "reported"; `ApplyBreaks` and `RecordAndReport` raise, `HandleException` is
the handler around them, and `Crash` ends a process. `Decide` is the operator,
`EditConfig` somebody else who edits the file, `Tick` the clock. A fix is one edit,
read and written in one step.

### The algorithms

They keep no state, so `MCAlgorithms` calls each once with every input of a bounded
set and relates input and output. `ErrorEvents!DetectAll` has all rules at
the level of phrases; `RegistryGovernance` all checks of the validator, over the
shipped tables changed in up to two places; `Retention` the plan of
`scripts/r14_retention_dry_run.py`, for files that stand at numbers, in the order of
their paths; `StateCompaction` the plan for `seen_fingerprints`, as a set of records that know
their place in the list, and the report index; `FixPlanning` router, strong phrases and
planner; `EventReports` one session and a fresh session for each event side by side.

## 3. Runs

Passing runs, with the bounds that matter (all are in the configurations and
in the comments of the constants):

| Run | Bounds | Shows |
|---|---|---|
| `job_lifecycle` | 1 worker, 1 handler, 2 jobs, 2 attempts, 2 crashes | the queue implements `JobLifecycle`, every job ends |
| `job_races` | 1 worker, 1 handler; an action outside the allowlist and its retry, an operation, an approval handler's own job; 1 cancel | no job runs more often than it may, ends are final |
| `job_two_processes` | 2 workers in 2 processes, a connection check, 2 attempts, 1 crash | leasing without a claim, requeueing a live job: statuses still have their causes |
| `approval_race` | 2 handlers, 2 requests, 4 jobs, 2 decisions, 1 each of live_apply, retry, cancel, crash | approvals pay for recoveries, a settled request is over, an approval is consumed |
| `monitor_cycle` | 3 events of 2 types, 2 candidates, 2 events and 3 reports a cycle, 2 marks saved, 3 lines of which the last 2 are the tail, 1 rotation, 1 crash, all ways of reading | repeats are excused, one fix a cycle, reports and alerts as reserved |
| `monitor_tail` | the same events, "tail", 3 lines, all of them the tail, 1 exception | an event that stays in the last lines is handled |
| `operations` | 4 pids, 3 jobs of any kind, 1 crash or unasked end | one monitor that can be found, true outcomes, no orphans, cancels end |
| `fix_ledger` | 2 sessions and the rollback job, fix-gpu-2 (two edits) and a fix with candidates, 2 fields, 2 seconds, 2 applies, 1 request, 1 abort, local and remote | edits are recorded, undo is exact, the job does what it was asked |
| `recovery_runner` | 5 projects, 5 events, one of them for the port of the metrics, 2 contents, 3 recoveries, cooldowns of 3, 2 and 1 seconds over 3 instants, 1 upset | only authorized fixes run, cooldowns hold, the audit record is true |
| `algorithms` | windows of up to 3 lines, 4 of 25 files, 30 days and one of a kind to keep, lists of 3 fingerprints, histories of 3 events; tables changed in two places | section 4, algorithms |

Why the bounds are enough. A race of the queue is between one read and one append, so
one handler thread beside the worker gives the handler races and one more process the
worker races; two jobs give order, two attempts one requeue. In `job_races` the first two
jobs are one action outside the allowlist and its retry (`SecondIsRetry` keeps only
behaviours in which the second job is that retry: a job created without it changes nothing
for the third and fourth). The monitor needs more events than a cycle takes, more
candidates than one, and more marks than the file keeps; three events give all of it,
and three lines make each event appear and one repeat. Four pids are a monitor, its
successor, a command and one to be taken again. Two seconds tell backups of the same second
from others; two applies give a record below the newest. `recovery_runner` has a project of each setting
the gate looks at, two events with one fix, one event with the evidence of two
domains and one without a registered fix; three recoveries at three instants meet
each cooldown and pass the two shorter ones. In `fix_ledger` the sessions are interchangeable and no property names one, so
`SYMMETRY` is sound; it has no liveness property.
`CHECK_DEADLOCK FALSE` is in every configuration: when the bounded requests are
used up and everything has ended, the model stops, and so does the program.

Runs that TLC finds violated, each a disagreement of the code with what its
comments or messages say (details in `PROJECT.json`, `findings`):

| Run | What happens |
|---|---|
| `approval_executed_twice` | a stale second approval has the recovery executed again |
| `fix_rollback_wrong` | fix-gpu-2 edits one file twice; the rollback puts back what the second edit found, or the only backup of that second is the half-edited text |

## 4. Properties

**JobStore.** `StatusHasCause` (succeeded, blocked and canceled are each backed by a
run, a kind of action or a request), `QuietIsFinal` (once a job is terminal in
both views and nobody holds it, nothing brings it back), `RunsWithinAttempts`,
`EveryJobSettles`, `ImplementsLifecycle` with the mapping of a job to the status
and attempt that `get()` returns. `RunsWithinAttempts` fails with two processes, which
can both lease the job on what they read, and across a retry, whose
second append resets the attempt of a leased job. `EveryJobSettles` and `ImplementsLifecycle` are
checked without cancels and retries, for the reasons below.

**ApprovedRecovery.** `ExecutionsBacked` (recoveries of a request are at most its
approvals plus the crashes), `SettledIsFinal` (a request that is decided against
or executed, with no approve under way and the worker not past its last look, is
never recovered), `ApprovedIsConsumed` (an approved request leaves that status; requests with two
approvals, a crash or a used cancel are exempt, `Disturbed`).

**MonitorCycle.** `NoNeedlessRepeat` (the recovery runner is called again for an event
only after an exception, a crash, or a mark that the size of the saved list pushed
out), `OneFixPerCycle` (also when an event that was no candidate becomes one during
the cycle), `ReportsReserved` (reports written, reserved and allowed), `SeenWasAlerted`
(no event is put away with its alert suppressed, although four limits can suppress
it), `TailIsHandled`.

**MonitorControl.** `OneMonitor`, `MonitorIsFindable` (the file names the running monitor,
also after a stop that has not taken effect), `OutcomeIsTrue` (a job's status against what
its process did), `NothingOutlivesItsJob`, `CancelIsHeard`.

**FixLedger.** `EditsAreRecorded` (an edit that was written and not rolled back is in a record of the
ledger as it is now; exempt are the edits of an apply that is not over, `excused` and `overtaken`
ones; without the last exemption it fails, see below), `UndoIsExact` (for records of
one edit, while actors do not overlap), `HistoryIsTrue` and `RequestedIsRolledBack` (the record the job pops
is the one asked for, whatever sessions applied in between, unless its own session was
at work).

**RecoveryRunner.** `ExecutedIsAuthorized` (only the registered fix of the event that was
found, and no execution without an approval where the project or ambiguous evidence asks
for one, also when the event was rebuilt from a request), `RecoveryOnlyDegrades` (whatever
happened to the file between the gate's look and the edit, a recovery lowers, disables or
downgrades one field, or puts back a record), `AuditIsTrue`, `RollbackIsOwn`, `CooldownHolds`.

**Algorithms.** `WindowIsReported` (the two kinds of suppression never leave a matching
window silent, and no event is made of lines with different markers), `GovernedIsCoherent`
(tables with no issue let the policy allow a fix only where detector, registry,
precheck and both executors agree), `EvidenceIsKept` (evidence, what alerts refer to and the newest of a kind are no candidates),
`CompactionKeeps` (`ForgetsOnlyTheOld` of the fingerprints, `CompactedIndexIsSame` of the report index),
`PlanAnswersEvidence`, `ReportIsTheEventsOwn` (each report against that of a session of the
event's own), `SameFixEverywhere` (gate, local executor and remote script agree on every
value; repeating a fix ends).

### What the code does not have

The models show these too. They are why some properties are conditional; none has a run of its own.

Jobs and approvals
- A job may be recorded "canceled before execution" after it ran: `request_cancel` reads it
  queued, the worker leases and runs it (`web_ui/runtime_control.py` 363-372). One that read it running reopens
  a job the worker has completed (395). So `QuietIsFinal` asks that nobody holds the job.
- `retry` appends twice, and its second append requeues a job that was leased after the first (450).
- `updated_at` is stamped before the line is appended, so that a completion stamped first and
  appended last leaves a job `cancel_requested` for `get()` and terminal for the reaper (646).
- Two workers that read before either writes lease the same job (471-490).
- Two jobs of one request that come from two approvals each leave it to the other, and the
  request stays approved (`web_ui/approved_recovery_worker.py` 149); an execution record replaces a
  rejection made while the recovery was under way (290).

Monitor and commands
- With offsets or watermarks an extra candidate is behind the mark when it is put off
  (`monitors/monitor_loop.py` 874), and a crash after the mark was saved loses what was read (1196).
- A zombie counts as alive (`pid_is_alive`, `web_ui/runtime_control.py` 1370), so a monitor that died is
  "already running" until the server's next `Popen`; a pid that was taken again gets the SIGTERM
  meant for the monitor (`web_ui/operation_runner.py` 485); a server that ends between `Popen` and
  the file leads to a second monitor (`lost`).
- A command that completes after the runner set about ending it is reported canceled or
  timed out (`cut`).

Fixes
- An edit that is made, with a sibling edit that fails, is in no record: the failed apply returns
  before `_append_record`. A remote edit whose SSH call times out is the same.
- The ledger is loaded, changed and saved without a lock: a record appended between load and save of a
  rollback is lost, and with it the way to undo an apply that was reported a success: the job of the web UI
  works in the directory of a session that may apply meanwhile (`fixers/apply_executor.py` 130, 159;
  `web_ui/operation_runner.py` 853). These are the `overtaken` edits; no other record is lost to a list
  that is written back. A torn ledger reads as empty: its records are gone with their edits in place. "Latest" is by the time of the file, not of the record.
- A rollback restores a whole file, with what others changed in it since.
- An exception after a rollback, while the record or the report is made, triggers
  `_rollback` again (`recovery/auto_recovery_runner.py` 621), which takes back the recovery before.
- The worker's runner has a tracker of its own, so an approved recovery observes no cooldown.
- A port that is free at the gate may be taken at the edit; the remote precheck is always
  "deferred", which counts as actionable.
- fix-gpu-3 is offered as applicable (`fixers/remediation_planner.py`) and no executor has it.

Reports and files
- One session serves all events, so the outcome of the latest rerun is told of every event after it
  (`sessions/troubleshooting_session.py` 1622), against the instruction that an event's report is about
  that event only (`agents/report_agent.py` 920-923); the areas of a fix plan get into later
  reports by the text of the plan. `ReportIsTheEventsOwn` leaves the first out and claims the routes only for blocked events.
- The router reads the last 12000 characters and the strong phrases are looked for in all of
  the evidence; "port" is found in "report" and "importerror".
- Two failures within three lines and without different markers are one event.
- The validator of the registry compares the issue of a detected event with the domain row only, and never the
  row with its spec; that they agree rests on the rows being built from the specs (`safe_recovery/registry.py` 552-566).
- The retention script judges acceptance files by their own age, so the old files of a run beyond the
  number to keep go and its recent ones stay.
- The retention script stops reading an alert log at its first torn line, so the alerts after it protect nothing
  (`scripts/r14_retention_dry_run.py` 535-551). With a limit on the number only, fingerprints without a time go first.

## 5. Fairness

`FairSpec` of JobStore: weak fairness of each handler that has begun (a thread of
the HTTP server is scheduled), weak fairness of each worker (`JobWorkerDaemon._loop`
runs `run_once` and sleeps, for ever, and a crashed server is restarted by
systemd), and strong fairness of a reaper pass that finds everything overdue:
timeouts and leases are finite and time goes on. New requests are not fair.
`FairSpec` of ApprovedRecovery: weak fairness of the worker's step and of each handler's that
has begun; filing, decisions and requests are not fair.
`FairSpec` of MonitorCycle: weak fairness of the daemon's steps (`run_daemon` loops)
and of `Start` (the unit has `Restart=always`), strong fairness of a read of the last
lines (a log is not unreadable for ever) and of the end of a report cooldown (time
goes on). Nothing is assumed of the gate's verdicts or of the end of a fix cooldown.
`Spec` of MonitorControl: weak fairness of the worker's steps: its thread is scheduled, its sleeps
and waits end and the deadline comes. Nothing is assumed of the processes, so
`CancelIsHeard` holds for a command that ignores SIGTERM.
FixLedger, RecoveryRunner and the algorithms have only safety properties and no fairness.

## 6. Proofs

For any workers, handlers, processes, pids, jobs, requests, events, projects, sessions, fixes and
bounds, with the named assumptions of the modules: bounds are naturals; `Kind`, `Home` and `Edits`
are functions of the right type; a fix has at least one edit; workers and handlers are different; no
pid is 0; `MaxEvents <= MaxAlerts`; projects and events are records with the fields the runner reads
(`ProjectsAssumption`, `EventsAssumption`), contents are configurations (`ContentsAssumption`); each
limit of the retention keeps at least one of a kind, and ages and days are integers (`LimitsAssumption`).
The configurations of the runs meet them all. A theorem that needs more says so in its statement.

| Theorem | Statement | Inductive invariant |
|---|---|---|
| `JobStore_proofs!TypeCorrect` | `[]TypeOK` | `TypeOK /\ HeldJobsExist` |
| `JobStore_proofs!StatusIsCaused` | `[]StatusHasCause` | with `CauseInv` |
| `JobStore_proofs!QuietStaysFinal` | `QuietIsFinal` | from the same |
| `JobStore_proofs!RunsStayWithinAttempts` | `[]RunsWithinAttempts`, for `OneWorker` and no retries | `RunInv` |
| `JobStore_proofs!FileIsAQueue` | every step is one of `JobLifecycle` or a stutter, for `Solo` | `QueueInv` |
| `ApprovedRecovery_proofs!TypeCorrect` | `[]TypeOK` | `TypeOK /\ InHand` |
| `ApprovedRecovery_proofs!ApprovalsBackRuns` | `[]ExecutionsBacked` | with `BackedInv` |
| `ApprovedRecovery_proofs!SettledStaysFinal` | `SettledIsFinal` | from the same |
| `MonitorCycle_proofs!TypeCorrect` | `[]TypeOK` | `TypeOK /\ InHand` |
| `MonitorCycle_proofs!RepeatsAreExcused` | `[]NoNeedlessRepeat` | with `RepeatInv` |
| `MonitorCycle_proofs!FixesAreSingle` | `[]OneFixPerCycle` | with `FixInv` |
| `MonitorCycle_proofs!ReportsStayWithin` | `[]ReportsReserved` | with `ReportInv` |
| `MonitorCycle_proofs!SeenEventsWereTold` | `[]SeenWasAlerted` | with `AlertInv` |
| `MonitorControl_proofs!TypeCorrect` | `[]TypeOK` | `IInv` |
| `MonitorControl_proofs!AlwaysFindable` | `[]MonitorIsFindable` | from the same |
| `MonitorControl_proofs!AlwaysOneMonitor` | `[]OneMonitor` | from the same |
| `MonitorControl_proofs!NothingOutlives` | `[]NothingOutlivesItsJob` | from the same |
| `MonitorControl_proofs!OutcomesAreTrue` | `[]OutcomeIsTrue` | with `ToldInv` |
| `FixLedger_proofs!TypeCorrect` | `[]TypeOK` | `TypeInv` |
| `FixLedger_proofs!EditsStayRecorded` | `[]EditsAreRecorded` | `RecordInv`, with `TypeInv` |
| `FixLedger_proofs!RequestIsRolledBack` | `RequestedIsRolledBack` | `UiHolds`, with `TypeInv` |
| `FixLedger_proofs!UndoStaysExact` | `[]UndoIsExact` | `UndoInv`, with `TypeInv`, `ClockInv` |
| `FixLedger_proofs!HistoryStaysTrue` | `[]HistoryIsTrue` | `HistoryInv`, with `TypeInv`, `ClockInv`, `UiHolds` |
| `RecoveryPolicy_proofs!GateChecked` | what a gate that says go has found | (functions) |
| `RecoveryPolicy_proofs!SameChoice` | both executors choose the same edit | (functions) |
| `RecoveryPolicy_proofs!ChoiceIsSafe` | the edit degrades one field and is not chosen again | (functions) |
| `RecoveryPolicy_proofs!GateFindsAnEdit` | where the gate says go there is an edit | (functions) |
| `RecoveryPolicy_proofs!AnyWindowIsReported` | a window is silent only if no rule matches, and no event mixes markers, for `IsWindow` | (functions) |
| `RecoveryPolicy_proofs!ShippedTablesAreGoverned` | the validator finds nothing in the shipped tables | (functions) |
| `RecoveryRunner_proofs!TypesOK` | `[]TypeOK` | `PlaceInv`, with `GrantInv`, `FileInv` |
| `RecoveryRunner_proofs!CooldownsHold` | `[]CooldownHolds` | `CoolInv` |
| `RecoveryRunner_proofs!NothingIsUnapproved` | `[]NothingUnapproved` | `ApprovalInv` |
| `RecoveryRunner_proofs!OnlyAuthorizedIsExecuted` | `[]ExecutedIsAuthorized` | `ApprovalInv`, `GrantInv` |
| `RecoveryRunner_proofs!OnlyDegrades` | `RecoveryOnlyDegrades` | `FileInv`, with `ChoiceIsSafe` |
| `RecoveryRunner_proofs!RecordsAreTrue` | `[]AuditIsTrue` | `AllSound` |
| `RecoveryRunner_proofs!RollsBackItsOwn` | `[]RollbackIsOwn` | `AllOwn`, with `FileInv` |
| `Algorithms_proofs!FixIsTheSame` | `[]SameFixEverywhere` | `AppliedCall` |
| `Algorithms_proofs!WindowsAreReported` | `[]WindowIsReported` | `DetectedCall` |
| `Algorithms_proofs!GovernedTablesAgree` | tables without an issue agree, for `SafeRowsAreSpecs` | (functions) |
| `Algorithms_proofs!GovernedAreCoherent` | `[]GovernedIsCoherent` | `GovernedCall` |
| `Algorithms_proofs!PlanKeepsEvidence` | the retention plan keeps what it must, for `IsInventory` | (functions) |
| `Algorithms_proofs!NoEvidenceIsDeleted` | `[]EvidenceIsKept` | itself |
| `Algorithms_proofs!PlanForgetsTheOld` | the compaction plan forgets only what is old, for `IsState`, `IsLog` | (functions) |
| `Algorithms_proofs!CompactedIndexStays` | compacting the report index changes no list of reports, for `IsIndex` | (functions) |
| `Algorithms_proofs!CompactionIsSafe` | `[]CompactionKeeps` | itself |
| `Algorithms_proofs!ReportsTellOfTheEvent` | the reports of an event are the same in any two sessions | (functions) |
| `Algorithms_proofs!ReportsAreTheEventsOwn` | `[]ReportIsTheEventsOwn` | `EventCall` |
| `Algorithms_proofs!PlanAnswersAnyEvidence` | the fix plan answers any evidence that was read | (functions) |
| `Algorithms_proofs!ToolsAnswerAnyEvidence` | the tools of a route answer any evidence | (functions) |
| `Algorithms_proofs!PlansAnswerEvidence` | `[]PlanAnswersEvidence` | `PlannedCall` |

**JobStore.** `TypeOK` is not inductive: a step reads a field of `newest[job[a]]`, so the
invariant must say that a job an actor works on, plans for or considers has been
created (`HeldJobsExist`). `StatusHasCause` is not either: a record with an unbacked status could be
on its way to the file, so `CauseInv` says it of the records in flight, and of where each
actor has got to (an actor at "running" has started the job, one that is about to
cancel was asked to).

`RunsWithinAttempts` is false of two workers, and of retries, in the code: two leases that read
before either appends are one attempt and two runs. The theorem therefore has the hypothesis
`OneWorker /\ MaxRetries = 0`, with any number of handlers, cancels and crashes. `RunInv` says that
the records handlers have in flight are cancels (`HandlersCancel`); that a job in the file has run
no more often than its attempt, or is to be canceled (`FileCounts`); that no record is stamped
later than the clock (`StampsPast`), so that one with a later stamp than the record in hand was written
after it was read; and, of the worker, what the record it is about to append
counts (`InFlight`), what it found when it chose the job (`Considered`, `InHand`), and that a job it
may still start has a run to spare (`MayRun`).

`FileIsAQueue` is the safety part of the refinement the run `job_lifecycle` checks: the initial
state maps to the initial state of `JobLifecycle`, and every step on `jobs.jsonl` to a
lease, a start, an end or a requeue of the abstract queue, or to a stutter. `Solo` is the setting in which
the code has an abstract queue at all: one worker, no retries, no cancels. `QueueInv` has what makes the stale read harmless: handlers
only add jobs (`HandlersQueue`), what `get()` and the reaper see is the same
(`OneView`), and the worker's plan, choice, update and work are each still true of the file
when it acts on them (`Planned`, `Waiting`, `Updating`, `Working`).

**ApprovedRecovery.** The request in hand exists (`InHand`). `ExecutionsBacked` needs to know when the
credit is spent: `BackedInv` says that while a request is approved and no recovery of it is under
way, or the worker is about to start one, the recoveries are strictly fewer.

**MonitorCycle.** `RepeatInv` says for which events a call is not excused yet: those
that are seen, or in hand between recovery and mark. `FixInv` adds that a fix leaves
the cooldown running, `ReportInv` the reports still owed for the event in hand.
`AlertInv` compares counters: alerts are at most the events handled, alerts of a type
at most its reports, one fewer while an alert is due, and events handled and still to
come are at most the event limit; so a due alert is suppressed only if the event has
been alerted before. This needs `MaxEvents <= MaxAlerts` (`AlertsAssumption`, 3 and 3
in the code).

**MonitorControl.** `Keeper` says where the pid of a running monitor is: in the file or, while
that is being rewritten, in the worker's memory; and that the worker has no such monitor when it
is about to start one. That gives both monitor theorems. `WorkerHasCommand` and
`OnlyCommand` say that the process the worker waits for is its own, not cleaned up behind
its back, and the only one, so that a job is over only after its command.
`ToldInv` is for the outcomes: at each place of the worker, what the process of its job has done
against the status that is about to be written and the return code in hand (`Told`); a job that
waits has done nothing (`Waits`), one that is over is reported truthfully (`Truthful`).

**FixLedger.** `TypeOK` is not inductive: a restore writes the backup that the record in hand names,
so `TypeInv` adds that the edits of records, of lists in memory and of an apply have backups
(`BackupsExist`), that an apply is at an edit of its fix (`AtAnEdit`), that what it writes parses
(`HasText`), that a rollback has a record (`HasRecord`), and that the job works on the ledger of a
session (`UiAt`). `EditsAreRecorded` says what the ledger has, and a save replaces the ledger by a list
in memory: `RecordInv` adds that every edit that is due to be recorded is also in each list somebody
will write back (`WritesBack`), the list of the rollback job apart for the edits it is too old for
(`overtaken`); a list without the popped record takes from `standing` just what it drops. `UiHolds` says that while the job has a
target and its session has not been at work, that session is idle, the target is the last record of
its ledger and the one that was asked for, and the list in the job's memory is that ledger. A
session can only break this by starting to work, which is what `shared` records; the other sessions
write only their own ledgers.

A backup is named after place, fix and second, so an undo is wrong if the name is taken again.
`ClockInv` says that no backup is of the future and that an idle session holds nothing. `UndoInv`
says, while actors have not overlapped (`~crossed`), that each recorded single edit has its backup
as it was, and that no record has the backup the session at work would make now: two applies of one
fix that do not overlap are a run of the project apart, and so never in one second (`Starts`). `HistoryInv` says that what the history
calls rolled back, or the job is rolling back, is neither in the ledger nor in a list somebody will save,
and cannot come back, because a record made later has a backup of another name.

**RecoveryPolicy.** The gate, the precheck and the executors are functions. `GateChecked` opens the gate and
lists what holds when it says go. `SameChoice` and `ChoiceIsSafe` go through the registered
fixes and, for each, through its candidates and any content of the file. The safe specs are a sequence of
the shipped table, so these theorems are about the table that is shipped and every file. The module
also has what is proved of the registry's tables and of the detector (see the algorithms below).

**RecoveryRunner.** `TrackerKnows` says that the tracker is at no scope behind the executions
of the monitor; the recovery that passes `Check` is then far enough from all of them.
`ApprovalInv` says, of a call that goes on, what the validation of its approval found, and that
requests never change what they are about. These two hold whatever the gate says; the proofs do not open `Gate`.
`GrantInv` adds what `GateChecked` gives: a call that goes on has the gate's word for the registered
fix of its event, on the project's list, and an event rebuilt from a request has the type it had.
`FileInv` says that the file and what the ledgers keep of it are configurations and that records are
numbered by the calls there were; with `ChoiceIsSafe` it gives `OnlyDegrades`, although the file may have changed since the
gate looked. `AllSound` says which marks a call can have at each of its steps, including those an exception
skips, and that what it has told is the record of those marks. `AllOwn` says that until a call has begun a second rollback,
what it took back is its own, and that while its edit stands its record is the newest of its session.
`PlaceInv` has the fields of a call, step by step, from which `TypeOK` follows.

**Algorithms.** `MCAlgorithms` calls each algorithm once; the theorems about functions say more, as
their inputs are not taken from the bounded sets. `PlanKeepsEvidence` is about any set of files: the newest of a kind is kept because
in a finite set with an order without circles nothing is above some element (`SomeIsTop`),
and that one has the first place in its group (`FirstInRank`), which is within a limit of at least one.
`IsInventory` asks that the files are finitely many, at different numbers, with the fields the
script reads. `PlanForgetsTheOld` is about any list of fingerprints without repetition (`IsState`) and any
event log (`IsLog`). `CompactedIndexStays` is about any index whose ids the order tells apart (`IsIndex`): a finite set
with a strict total order has a sorting (`SortingExists`), which has each latest record once, so that
compaction leaves the latest records as they were (`CompactedHasLatest`) and a report that is registered
replaces the same one (`LatestAfter`). `GovernedTablesAgree` is about any tables in which the validator
finds nothing and in which the rows are built from the specs (`SafeRowsAreSpecs`, as `safe_recovery/registry.py` 552-566 does).

The detector, the router and the reports fold over lines, fixes and histories of any length. The
induction theorems of the library cannot be used (they take an operator as a parameter), but
induction over a set can: of the steps of a loop that have gone wrong there would be a first one
(`UptoInduction`, from `LeastNumber`). The folds of the community modules are recursive functions on
the sets of their indices, so that such a function exists is a lemma (`FoldExists`); each fold then
has a lemma that says what it is after every step (`BlockSteps`, `DedupeSteps`, `AmongSteps`,
`FlattenSteps`, `UnrepeatedSteps`).

`AnyWindowIsReported` is about any sequence of lines in which a marked line has an id (`IsWindow`). The lines a
rule matches are in its blocks, each with at most one marker (`GoodBlock`); that the two suppressions, which each look
at the other's events, never take everything is `SomethingIsKept`: if some event gives way to a
person's, the latter is itself no safe event, and what is more specific than it is the one
it replaced, so it stays (`SafeTypes`); and if none does, the chains of more and more specific types end (`ChainsAreShort`).

`ShippedTablesAreGoverned` goes through the tables that are shipped, 11 safe specs, 28 domains, 27 rules, by
the sets of what their rows say (`SpecTrios`, `OtherQuads`, `RulePairs`). For `GovernedIsCoherent` a setup
somebody has changed keeps rows and specs that name an event and its issue together (`PairedTables`),
through each of the changes (`ChangedIsSound`), which is what `GovernedTablesAgree` asks for; the event "unknown" is apart, because the
validator does not compare the detector for it: the registry has no spec for it, so
nothing is allowed (`SyntheticIsNotAllowed`).

`ReportsTellOfTheEvent` compares an event in two sessions: what is added to the evidence since its first item is
the same (`SameTrail`), and a report reads only that. `PlanAnswersAnyEvidence` follows the evidence through the
router: a phrase that is strong for an area is a keyword of it (`StrongIsTelling`), an area that is
detected is in the route (`RouteIs`), and its fixes are in the plan, each once (`PlanIs`).

Each proof of an invariant has one step per action under the step lemma; the action properties
follow from the same invariants, action by action.

Only model-checked:
- liveness (`EveryJobSettles`, `ApprovedIsConsumed`, `TailIsHandled`, `CancelIsHeard`) and the
  fairness part of `ImplementsLifecycle`: liveness under fairness and ENABLED are beyond the prover.

Every other property of a passing run is a theorem, some under the hypotheses the table names.

## 7. What is not modelled

Left out for good:
- the language-model agents and the wording of reports, messages and alerts;
- host tools and SSH wrappers (I/O; their results are outcomes of the actions that call them);
- the web UI front end, its permission tables, redaction and read views; routing of the HTTP server;
- dispatch of notifications (`MonitorCycle` has their limits);
- parsing of the project registry and of configuration;
- command-line entry points; deployment and validation scripts other than the retention plan, which
  check an installation once from outside;
- `JobStore.compact` and `heartbeat`, `run_latest_approved`, `ApprovalStore.compact` (no caller),
  and `detect()`, used only with a detector that has no `detect_all`;
- heartbeats, health checks and display counters of the monitor.

Taken as one step, or left out, where no property depends on it:
- the `created_at` of a job and the line that has it (`JobStore!CreateJob`), so jobs are in the order of their stamps;
- `pid_is_alive` and the signal after it (`MonitorControl!StopLook`);
- reading and rewriting the report index in a compaction (`StateCompaction`): a report appended in between is not considered;
- a failure of `_record_execution` (`ApprovedRecovery`);
- of the outcome section of a report all but the latest rerun (`EventReports!ReportOf`);
- the text check of forbidden actions (`RecoveryPolicy`), which no governed fix reaches;
- spellings of one phrase in the patterns of the detector (`ErrorEvents!RULES`); `Within` compares lines as a whole.

Simplified, and worth doing next:
- several log files of a project, and error chunks of the watchers;
- two servers, or a `--once` monitor beside the daemon, on one state directory (`MonitorControl`
  has one server at a time; two at once can both start a monitor);
- an abstract specification of the monitor (an event is waiting, handled or past) that
  `MonitorCycle` implements.
