------------------------------ MODULE JobStore ------------------------------
(***************************************************************************)
(* The job queue of the web UI: one append-only file jobs.jsonl per        *)
(* project, written by HTTP handler threads (create, cancel, retry, the    *)
(* approval handlers' own jobs) and by job workers (reap, lease, run,      *)
(* complete).                                                              *)
(*                                                                         *)
(* A single read and a single append of the file are atomic (flock in      *)
(* monitors/jsonl_store.py); a handler that reads and then appends is not. *)
(* Every handler is therefore split at its accesses to the file.  An       *)
(* update is three steps: _update reads the newest record of the job,      *)
(* stamps updated_at, and _append writes the line.                         *)
(*                                                                         *)
(* The file is kept as the two views the code takes of it:                 *)
(*   newest[j]  the record with the greatest updated_at (get, _update)     *)
(*   last[j]    the last line of the job (jobs)                            *)
(* They differ when two writers append in the other order than they        *)
(* stamped.                                                                *)
(*                                                                         *)
(* Time is not kept: a reaper may find any started job past its timeout    *)
(* and any leased one past its lease, which a slow job can bring about     *)
(* (the lease is 60 s, an operation may take 600 s).                       *)
(***************************************************************************)
EXTENDS Naturals

CONSTANTS
  Workers,      \* job workers: the daemon thread of a server process
  Clients,      \* HTTP handler threads
  Servers,      \* server processes
  Home,         \* Home[a]: the process that worker or thread a runs in
  MaxJobs,      \* bound: job ids are 1..MaxJobs, in the order of created_at
  Kind,         \* Kind[j]: what the action of job j is (see Kinds)
  MaxAttempts,  \* max_attempts of every job
  MaxCancels,   \* bound: cancel requests
  MaxRetries,   \* bound: retry requests
  MaxCrashes    \* bound: crashes of a server process

Jobs == 1..MaxJobs

\* op: an operation of the allowlist; conn: connect or health_check;
\* ui: an approval handler's own job; other: an action that is not allowed.
Kinds == {"op", "conn", "ui", "other"}

ASSUME BoundsAssumption ==
  /\ MaxJobs \in Nat /\ MaxAttempts \in Nat \ {0}
  /\ MaxCancels \in Nat /\ MaxRetries \in Nat /\ MaxCrashes \in Nat
ASSUME KindAssumption == Kind \in [Jobs -> Kinds]
ASSUME ActorsAssumption == /\ Workers \cap Clients = {}
                           /\ Home \in [Workers \cup Clients -> Servers]

VARIABLES
  newest,   \* [Jobs -> record]: get() of the job
  last,     \* [Jobs -> record]: the job's last line
  clock,    \* [Jobs -> Nat]: the last updated_at taken for the job
  created,  \* number of jobs created
  pc,       \* [Actors -> label]: where each actor goes when it is not writing
  job,      \* [Actors -> Jobs]: the job it works on
  pend,     \* [Actors -> record]: a record read by _update, not yet appended
  stamped,  \* [Actors -> BOOLEAN]: it carries its updated_at
  attempt,  \* [Actors -> Nat]: the attempt mark_running computed from get()
  verdict,  \* [Workers -> status]: the status run_once completed the job with
  plan,     \* [Workers -> [Jobs -> what the reaper does]]
  cands,    \* [Workers -> SUBSET Candidate]: queued jobs of the lease scan
  runs,     \* [Jobs -> Nat]: times a worker started the action of the job
  asked,    \* SUBSET Jobs: a cancel request was received
  budget    \* what is left of the bounds

store   == <<newest, last, clock, created>>
local   == <<pc, job, pend, stamped, attempt>>
scanner == <<plan, cands, verdict>>
ghosts  == <<runs, asked>>
vars == <<store, local, scanner, ghosts, budget>>

Actors == Workers \cup Clients

Terminal == {"succeeded", "failed", "blocked", "canceled", "timed_out"}
Active   == {"queued", "running", "cancel_requested"}
Statuses == Terminal \cup Active

Record == [status: Statuses, attempt: Nat, leased: BOOLEAN, started: BOOLEAN,
           cancel: BOOLEAN, at: Nat]

Candidate == [job: Jobs, attempt: Nat]

NoRec == [status |-> "none"]

NoPlan == [j \in Jobs |-> "none"]

Queued == [status |-> "queued", attempt |-> 0, leased |-> FALSE,
           started |-> FALSE, cancel |-> FALSE, at |-> 1]

Created(j) == newest[j] # NoRec

\* is_cancel_requested
CancelRequested(j) == newest[j].cancel \/ newest[j].status = "cancel_requested"

(***************************************************************************)
(* What each caller of _update changes in the record it read.              *)
(***************************************************************************)
\* Mutant: mark_running does not record the attempt.
MarkedUncounted(r, n, lease) ==
  [r EXCEPT !.status = "running", !.leased = lease, !.started = TRUE]

Marked(r, n, lease) ==
  [r EXCEPT !.status = "running", !.attempt = n, !.leased = lease,
            !.started = TRUE]
Completed(r, status) == [r EXCEPT !.status = status, !.leased = FALSE]
Requeued(r) == [r EXCEPT !.status = "queued", !.leased = FALSE]
CanceledQueued(r) ==
  [r EXCEPT !.status = "canceled", !.leased = FALSE, !.cancel = TRUE]
CancelRecorded(r) ==
  [r EXCEPT !.status = "cancel_requested", !.cancel = TRUE]

-----------------------------------------------------------------------------
Init ==
  /\ newest = [j \in Jobs |-> NoRec]
  /\ last = [j \in Jobs |-> NoRec]
  /\ clock = [j \in Jobs |-> 0]
  /\ created = 0
  /\ pc = [a \in Actors |-> "idle"]
  /\ job = [a \in Actors |-> 0]
  /\ pend = [a \in Actors |-> NoRec]
  /\ stamped = [a \in Actors |-> FALSE]
  /\ attempt = [a \in Actors |-> 0]
  /\ verdict = [w \in Workers |-> "none"]
  /\ plan = [w \in Workers |-> NoPlan]
  /\ cands = [w \in Workers |-> {}]
  /\ runs = [j \in Jobs |-> 0]
  /\ asked = {}
  /\ budget = [cancels |-> MaxCancels, retries |-> MaxRetries,
               crashes |-> MaxCrashes]

\* Actor a is at label l with no record in flight.
At(a, l) == pc[a] = l /\ pend[a] = NoRec

\* The read half of _update: record r of job j is in flight, label l is next.
Begin(a, j, r, l) ==
  /\ pend' = [pend EXCEPT ![a] = r]
  /\ pc' = [pc EXCEPT ![a] = l]
  /\ job' = [job EXCEPT ![a] = j]
  /\ UNCHANGED stamped

Goto(a, l) == pc' = [pc EXCEPT ![a] = l]

(***************************************************************************)
(* The rest of an update, the same for every caller.                       *)
(***************************************************************************)
\* _update takes updated_at after its read.
Stamp(a) ==
  /\ pend[a] # NoRec /\ ~stamped[a]
  /\ clock' = [clock EXCEPT ![job[a]] = @ + 1]
  /\ pend' = [pend EXCEPT ![a].at = clock[job[a]] + 1]
  /\ stamped' = [stamped EXCEPT ![a] = TRUE]
  /\ UNCHANGED <<newest, last, created, pc, job, attempt, scanner, ghosts,
                 budget>>

\* The line goes to the end of the file; get() returns it unless a record
\* stamped later is already there.
Line(j, r) ==
  /\ last' = [last EXCEPT ![j] = r]
  /\ newest' = [newest EXCEPT ![j] =
                  IF newest[j] = NoRec \/ newest[j].at <= r.at THEN r ELSE @]

\* _append
AppendUpdate(a) ==
  /\ pend[a] # NoRec /\ stamped[a]
  /\ Line(job[a], pend[a])
  /\ pend' = [pend EXCEPT ![a] = NoRec]
  /\ stamped' = [stamped EXCEPT ![a] = FALSE]
  /\ UNCHANGED <<clock, created, pc, job, attempt, scanner, ghosts, budget>>

-----------------------------------------------------------------------------
(***************************************************************************)
(* HTTP handler threads.                                                   *)
(***************************************************************************)
\* create: the first line of a fresh job id.
CreateJob(c, l) ==
  /\ created < MaxJobs
  /\ created' = created + 1
  /\ Line(created + 1, Queued)
  /\ clock' = [clock EXCEPT ![created + 1] = 1]
  /\ job' = [job EXCEPT ![c] = created + 1]
  /\ Goto(c, l)
  /\ UNCHANGED <<pend, stamped, attempt, scanner, ghosts>>

\* Which step the handler that created job j does next: OperationRunner.enqueue
\* blocks an action outside the allowlist, an approval handler marks its job
\* running, and the other jobs are left to the worker.
AfterCreate(k) ==
  CASE k = "ui" -> "uiGet" [] k = "other" -> "refuse" [] OTHER -> "idle"

\* enqueue_connection, OperationRunner.enqueue, record_ui_action_job
Enqueue(c) ==
  /\ At(c, "idle")
  /\ created < MaxJobs
  /\ CreateJob(c, AfterCreate(Kind[created + 1]))
  /\ UNCHANGED budget

\* OperationRunner.enqueue, action not in EXECUTABLE_JOB_ACTIONS
RefuseUnsupported(c) ==
  /\ At(c, "refuse")
  /\ Begin(c, job[c], Completed(newest[job[c]], "blocked"), "idle")
  /\ UNCHANGED <<store, attempt, scanner, ghosts, budget>>

\* mark_ui_action_running: get(), then _update
UiGet(c) ==
  /\ At(c, "uiGet")
  /\ attempt' = [attempt EXCEPT ![c] = newest[job[c]].attempt]
  /\ Goto(c, "uiMark")
  /\ UNCHANGED <<store, job, pend, stamped, scanner, ghosts, budget>>

UiMark(c) ==
  /\ At(c, "uiMark")
  /\ Begin(c, job[c], Marked(newest[job[c]], attempt[c], FALSE), "uiAct")
  /\ UNCHANGED <<store, attempt, scanner, ghosts, budget>>

\* The approval handler is done or has failed: complete_ui_action_job.
UiComplete(c) ==
  /\ At(c, "uiAct")
  /\ \E status \in {"succeeded", "failed"} :
       Begin(c, job[c], Completed(newest[job[c]], status), "idle")
  /\ UNCHANGED <<store, attempt, scanner, ghosts, budget>>

\* It may also end in an exception after the approval was recorded, with its job
\* left running.
UiAbandon(c) ==
  /\ At(c, "uiAct")
  /\ Goto(c, "idle")
  /\ UNCHANGED <<store, job, pend, stamped, attempt, scanner, ghosts, budget>>

\* Mutant: a terminal job is canceled too.
CancelGetAnyStatus(c) ==
  /\ At(c, "idle") /\ budget.cancels > 0
  /\ \E j \in Jobs :
       /\ Created(j)
       /\ asked' = asked \cup {j}
       /\ job' = [job EXCEPT ![c] = j]
       /\ Goto(c, IF newest[j].status = "queued" THEN "cancelQueued"
                                                ELSE "cancelRunning")
  /\ budget' = [budget EXCEPT !.cancels = @ - 1]
  /\ UNCHANGED <<store, pend, stamped, attempt, scanner, runs>>

\* request_cancel, its get(): a terminal job is left alone.
CancelGet(c) ==
  /\ At(c, "idle") /\ budget.cancels > 0
  /\ \E j \in Jobs :
       /\ Created(j)
       /\ asked' = asked \cup {j}
       /\ job' = [job EXCEPT ![c] = j]
       /\ Goto(c, CASE newest[j].status = "queued" -> "cancelQueued"
                    [] newest[j].status \in Terminal -> "idle"
                    [] OTHER -> "cancelRunning")
  /\ budget' = [budget EXCEPT !.cancels = @ - 1]
  /\ UNCHANGED <<store, pend, stamped, attempt, scanner, runs>>

\* request_cancel, the _update of either branch: a second read of the file.
CancelUpdate(c) ==
  /\ \/ /\ At(c, "cancelQueued")
        /\ Begin(c, job[c], CanceledQueued(newest[job[c]]), "idle")
     \/ /\ At(c, "cancelRunning")
        /\ Begin(c, job[c], CancelRecorded(newest[job[c]]), "idle")
  /\ UNCHANGED <<store, attempt, scanner, ghosts, budget>>

\* retry: refused while the job is active, else create() a new job ...
Retry(c) ==
  /\ At(c, "idle") /\ budget.retries > 0
  /\ \E j \in Jobs :
       /\ Created(j) /\ newest[j].status \in Terminal
       /\ created < MaxJobs /\ Kind[created + 1] = Kind[j]
  /\ CreateJob(c, "retryAppend")
  /\ budget' = [budget EXCEPT !.retries = @ - 1]

\* ... and append the new record once more, with retry_of set and the
\* updated_at of its creation.
RetryAppend(c) ==
  /\ At(c, "retryAppend")
  /\ Line(job[c], Queued)
  /\ Goto(c, "idle")
  /\ UNCHANGED <<clock, created, job, pend, stamped, attempt, scanner, ghosts,
                 budget>>

-----------------------------------------------------------------------------
(***************************************************************************)
(* A job worker: AsyncJobWorker.run_once in the loop of JobWorkerDaemon.   *)
(***************************************************************************)
InProgress(r) == r # NoRec /\ r.status \in {"running", "cancel_requested"}
Reapable == {j \in Jobs : InProgress(last[j])}

\* Mutant: the reaper only ever requeues.
ReapOnlyRequeues(r, late, expired) ==
  IF InProgress(r) /\ r.leased /\ expired /\ r.attempt < MaxAttempts
  THEN "requeue" ELSE "none"

\* What reap_expired_running does to a job whose last line is r.
ReapDecision(r, late, expired) ==
  IF ~InProgress(r) THEN "none"
  ELSE IF r.started /\ late THEN "time_out"
  ELSE IF r.leased /\ expired
       THEN IF r.attempt < MaxAttempts THEN "requeue" ELSE "time_out"
  ELSE "none"

\* reap_expired_running reads the file once and decides on every job.
ReapScan(w) ==
  /\ At(w, "idle")
  /\ \E late \in SUBSET Reapable : \E expired \in SUBSET Reapable :
       plan' = [plan EXCEPT ![w] =
                 [j \in Jobs |-> ReapDecision(last[j], j \in late, j \in expired)]]
  /\ Goto(w, "reap")
  /\ UNCHANGED <<store, job, pend, stamped, attempt, cands, verdict, ghosts,
                 budget>>

\* One job of the reaper's loop.
ReapJob(w) ==
  /\ At(w, "reap")
  /\ \E j \in Jobs :
       /\ plan[w][j] # "none"
       /\ plan' = [plan EXCEPT ![w][j] = "none"]
       /\ Begin(w, j, IF plan[w][j] = "requeue"
                      THEN Requeued(newest[j])
                      ELSE Completed(newest[j], "timed_out"), "reap")
  /\ UNCHANGED <<store, attempt, cands, verdict, ghosts, budget>>

\* lease_next: the queued jobs, from a second read.
LeaseScan(w) ==
  /\ At(w, "reap") /\ plan[w] = NoPlan
  /\ cands' = [cands EXCEPT ![w] =
       {[job |-> j, attempt |-> last[j].attempt] : j \in
          {i \in Jobs : last[i] # NoRec /\ last[i].status = "queued"}}]
  /\ Goto(w, "lease")
  /\ UNCHANGED <<store, job, pend, stamped, attempt, plan, verdict, ghosts,
                 budget>>

\* Mutant: sorted the other way round.
Youngest(S, d) == d \in S /\ \A e \in S : d.job >= e.job

Oldest(S, d) == d \in S /\ \A e \in S : d.job <= e.job

NothingToLease(w) ==
  /\ At(w, "lease") /\ cands[w] = {}
  /\ Goto(w, "idle")
  /\ UNCHANGED <<store, job, pend, stamped, attempt, scanner, ghosts, budget>>

\* Mutant: a job that was tried too often is blocked.
RefuseLeaseBlocks(w) ==
  /\ At(w, "lease")
  /\ \E d \in cands[w] :
       /\ Oldest(cands[w], d) /\ d.attempt >= MaxAttempts
       /\ cands' = [cands EXCEPT ![w] = @ \ {d}]
       /\ Begin(w, d.job, Completed(newest[d.job], "blocked"), "lease")
  /\ UNCHANGED <<store, attempt, plan, verdict, ghosts, budget>>

\* lease_next, attempt >= max_attempts: the job is failed, the next one tried.
RefuseLease(w) ==
  /\ At(w, "lease")
  /\ \E d \in cands[w] :
       /\ Oldest(cands[w], d) /\ d.attempt >= MaxAttempts
       /\ cands' = [cands EXCEPT ![w] = @ \ {d}]
       /\ Begin(w, d.job, Completed(newest[d.job], "failed"), "lease")
  /\ UNCHANGED <<store, attempt, plan, verdict, ghosts, budget>>

\* lease_next takes the oldest candidate: mark_running reads its attempt ...
LeasePick(w) ==
  /\ At(w, "lease")
  /\ \E d \in cands[w] :
       /\ Oldest(cands[w], d) /\ d.attempt < MaxAttempts
       /\ cands' = [cands EXCEPT ![w] = {}]
       /\ attempt' = [attempt EXCEPT ![w] = newest[d.job].attempt + 1]
       /\ job' = [job EXCEPT ![w] = d.job]
  /\ Goto(w, "mark")
  /\ UNCHANGED <<store, pend, stamped, plan, verdict, ghosts, budget>>

\* ... and _update reads the record again.
LeaseMark(w) ==
  /\ At(w, "mark")
  /\ Begin(w, job[w], Marked(newest[job[w]], attempt[w], TRUE), "leased")
  /\ UNCHANGED <<store, attempt, scanner, ghosts, budget>>

\* run_once completes the job with a status and looks at it again afterwards.
Complete(w, status) ==
  /\ Begin(w, job[w], Completed(newest[job[w]], status), "after")
  /\ verdict' = [verdict EXCEPT ![w] = status]
  /\ UNCHANGED <<store, attempt, plan, cands, ghosts, budget>>

\* A cancel request is looked for when the job has been leased, and again after
\* the get() of execute_leased_job or execute_connection_job.
CheckCanceled(w) ==
  /\ pc[w] \in {"leased", "gotRunning", "gotOther"} /\ pend[w] = NoRec
  /\ CancelRequested(job[w])
  /\ Complete(w, "canceled")

CheckLeased(w) ==
  /\ At(w, "leased") /\ ~CancelRequested(job[w])
  /\ Goto(w, "execute")
  /\ UNCHANGED <<store, job, pend, stamped, attempt, scanner, ghosts, budget>>

\* execute_leased_job, action outside the allowlist
CheckUnsupported(w) ==
  /\ At(w, "execute") /\ Kind[job[w]] \in {"ui", "other"}
  /\ Complete(w, "blocked")

\* Mutant: no allowlist.
ExecuteGetAnyAction(w) ==
  /\ At(w, "execute")
  /\ Goto(w, IF newest[job[w]].status = "running" THEN "gotRunning"
                                                  ELSE "gotOther")
  /\ UNCHANGED <<store, job, pend, stamped, attempt, scanner, ghosts, budget>>

\* Its get() of the job: the status found decides on the second mark_running.
ExecuteGet(w) ==
  /\ At(w, "execute") /\ Kind[job[w]] \in {"op", "conn"}
  /\ Goto(w, IF newest[job[w]].status = "running" THEN "gotRunning"
                                                  ELSE "gotOther")
  /\ UNCHANGED <<store, job, pend, stamped, attempt, scanner, ghosts, budget>>

CheckPassed(w) ==
  /\ \/ At(w, "gotRunning") /\ Goto(w, "start")
     \/ At(w, "gotOther") /\ Goto(w, "remarkGet")
  /\ ~CancelRequested(job[w])
  /\ UNCHANGED <<store, job, pend, stamped, attempt, scanner, ghosts, budget>>

\* A job that was not found running is marked again, an operation as a new
\* attempt.
RemarkGet(w) ==
  /\ pc[w] \in {"remarkGet", "recoverGet"} /\ pend[w] = NoRec
  /\ attempt' = [attempt EXCEPT ![w] =
       newest[job[w]].attempt
         + IF pc[w] = "remarkGet" /\ Kind[job[w]] = "op" THEN 1 ELSE 0]
  /\ Goto(w, IF pc[w] = "remarkGet" THEN "remark" ELSE "recoverMark")
  /\ UNCHANGED <<store, job, pend, stamped, scanner, ghosts, budget>>

Remark(w) ==
  /\ pc[w] \in {"remark", "recoverMark"} /\ pend[w] = NoRec
  /\ Begin(w, job[w], Marked(newest[job[w]], attempt[w], FALSE),
           IF pc[w] = "remark" THEN "start" ELSE "recovered")
  /\ UNCHANGED <<store, attempt, scanner, ghosts, budget>>

\* run_for_request, for an approved recovery: when another job of the same request
\* is active, this one is left as it is ...
LeaveRunning(w) ==
  /\ At(w, "start") /\ Kind[job[w]] = "op"
  /\ Goto(w, "idle")
  /\ UNCHANGED <<store, job, pend, stamped, attempt, scanner, ghosts, budget>>

\* ... and when this one is not found running, it is marked again, as the same
\* attempt.
RecoverGet(w) ==
  /\ At(w, "start") /\ Kind[job[w]] = "op" /\ newest[job[w]].status # "running"
  /\ Goto(w, "recoverGet")
  /\ UNCHANGED <<store, job, pend, stamped, attempt, scanner, ghosts, budget>>

\* The operation's effects begin.
StartRun(w) ==
  /\ pc[w] \in {"start", "recovered"} /\ pend[w] = NoRec
  /\ runs' = [runs EXCEPT ![job[w]] = @ + 1]
  /\ Goto(w, "running")
  /\ UNCHANGED <<store, job, pend, stamped, attempt, scanner, asked, budget>>

\* Mutant: an operation that starts a process ends as running.
OutcomesRunning(k) == IF k = "op" THEN {"succeeded", "failed", "running"}
                                  ELSE {"succeeded", "failed"}

\* The ways an operation and a connection check can end.
Outcomes(k) == IF k = "op" THEN {"succeeded", "failed", "blocked", "timed_out"}
                           ELSE {"succeeded", "failed"}

FinishRun(w) ==
  /\ At(w, "running")
  /\ \E status \in Outcomes(Kind[job[w]]) : Complete(w, status)

\* run_once looks for a cancel request once more: a run that failed or timed
\* out while one is recorded is completed again, as canceled.
AfterRun(w) ==
  /\ At(w, "after")
  /\ IF CancelRequested(job[w]) /\ verdict[w] \in {"failed", "timed_out"}
     THEN Complete(w, "canceled")
     ELSE /\ Goto(w, "idle")
          /\ verdict' = [verdict EXCEPT ![w] = "none"]
          /\ UNCHANGED <<store, job, pend, stamped, attempt, plan, cands,
                         ghosts, budget>>

-----------------------------------------------------------------------------
\* A server process dies: what its threads had in memory is lost, and they
\* start afresh when it is restarted.
Crash(s) ==
  /\ budget.crashes > 0
  /\ \E a \in Actors : Home[a] = s /\ (pc[a] # "idle" \/ pend[a] # NoRec)
  /\ pc' = [a \in Actors |-> IF Home[a] = s THEN "idle" ELSE pc[a]]
  /\ pend' = [a \in Actors |-> IF Home[a] = s THEN NoRec ELSE pend[a]]
  /\ stamped' = [a \in Actors |-> IF Home[a] = s THEN FALSE ELSE stamped[a]]
  /\ plan' = [w \in Workers |-> IF Home[w] = s THEN NoPlan ELSE plan[w]]
  /\ cands' = [w \in Workers |-> IF Home[w] = s THEN {} ELSE cands[w]]
  /\ verdict' = [w \in Workers |-> IF Home[w] = s THEN "none" ELSE verdict[w]]
  /\ budget' = [budget EXCEPT !.crashes = @ - 1]
  /\ UNCHANGED <<store, job, attempt, ghosts>>

Write(a) == Stamp(a) \/ AppendUpdate(a)

ClientStep(c) ==
  \/ RefuseUnsupported(c) \/ UiGet(c) \/ UiMark(c) \/ UiComplete(c)
  \/ UiAbandon(c) \/ CancelUpdate(c) \/ RetryAppend(c)

Request(c) == Enqueue(c) \/ CancelGet(c) \/ Retry(c)

WorkerStep(w) ==
  \/ ReapScan(w) \/ ReapJob(w) \/ LeaseScan(w) \/ NothingToLease(w)
  \/ RefuseLease(w) \/ LeasePick(w) \/ LeaseMark(w)
  \/ CheckCanceled(w) \/ CheckLeased(w) \/ CheckUnsupported(w)
  \/ ExecuteGet(w) \/ CheckPassed(w) \/ RemarkGet(w) \/ Remark(w)
  \/ LeaveRunning(w) \/ RecoverGet(w)
  \/ StartRun(w) \/ FinishRun(w) \/ AfterRun(w)

Next ==
  \/ \E a \in Actors : Write(a)
  \/ \E c \in Clients : Request(c) \/ ClientStep(c)
  \/ \E w \in Workers : WorkerStep(w)
  \/ \E s \in Servers : Crash(s)

Spec == Init /\ [][Next]_vars

\* A reaper pass that finds every started job late and every lease expired.
ReapOverdue(w) ==
  /\ ReapScan(w)
  /\ plan'[w] = [j \in Jobs |-> ReapDecision(last[j], TRUE, TRUE)]

\* A handler that has begun goes on to its end, the worker loop never stops, and
\* a job that stays running is overdue in some pass: the clock runs on.
Fairness ==
  /\ \A c \in Clients : WF_vars(Write(c) \/ ClientStep(c))
  /\ \A w \in Workers : /\ WF_vars(Write(w) \/ WorkerStep(w))
                        /\ SF_vars(ReapOverdue(w))

FairSpec == Spec /\ Fairness

-----------------------------------------------------------------------------
(***************************************************************************)
(* Properties.                                                             *)
(***************************************************************************)
ClientLabels == {"idle", "refuse", "uiGet", "uiMark", "uiAct", "cancelQueued",
                 "cancelRunning", "retryAppend"}
WorkerLabels == {"idle", "reap", "lease", "mark", "leased", "execute",
                 "gotRunning", "gotOther", "remarkGet", "remark", "start",
                 "recoverGet", "recoverMark", "recovered", "running", "after"}
Labels == ClientLabels \cup WorkerLabels

\* Every variable has its type.
TypeOK ==
  /\ newest \in [Jobs -> Record \cup {NoRec}]
  /\ last \in [Jobs -> Record \cup {NoRec}]
  /\ clock \in [Jobs -> Nat]
  /\ created \in 0..MaxJobs
  /\ pc \in [Actors -> Labels]
  /\ job \in [Actors -> 0..MaxJobs]
  /\ pend \in [Actors -> Record \cup {NoRec}]
  /\ stamped \in [Actors -> BOOLEAN]
  /\ attempt \in [Actors -> Nat]
  /\ verdict \in [Workers -> Terminal \cup {"none"}]
  /\ plan \in [Workers -> [Jobs -> {"none", "requeue", "time_out"}]]
  /\ cands \in [Workers -> SUBSET Candidate]
  /\ runs \in [Jobs -> Nat]
  /\ asked \subseteq Jobs
  /\ budget \in [cancels: Nat, retries: Nat, crashes: Nat]

\* The status of a record is backed by what happened to its job.
Caused(j, r) ==
  /\ r.status = "succeeded" => runs[j] > 0 \/ Kind[j] = "ui"
  /\ r.status = "blocked" => runs[j] > 0 \/ Kind[j] \in {"ui", "other"}
  /\ r.status \in {"canceled", "cancel_requested"} \/ r.cancel => j \in asked

\* Whatever the interleaving of handlers, workers and crashes, neither view of
\* the file tells of a success or a refusal that had no cause or of a cancel
\* nobody asked for, and an action outside the allowlist is never run.
StatusHasCause ==
  \A j \in Jobs :
    /\ Created(j) => Caused(j, newest[j]) /\ Caused(j, last[j])
    /\ runs[j] > 0 => Kind[j] \in {"op", "conn"}

\* Labels at which an actor is not working on job[a].
Unbound == {"idle", "reap", "lease"}

\* What makes TypeOK inductive: both views know exactly the jobs that were
\* created, and an actor only works on, plans for or considers such a job.
HeldJobsExist ==
  /\ \A j \in Jobs : /\ (Created(j) <=> j <= created)
                    /\ (Created(j) <=> last[j] # NoRec)
  /\ \A a \in Actors : pc[a] \notin Unbound \/ pend[a] # NoRec =>
       job[a] \in Jobs /\ Created(job[a])
  /\ \A w \in Workers : /\ \A j \in Jobs : plan[w][j] # "none" => Created(j)
                       /\ \A d \in cands[w] : Created(d.job)

\* What makes StatusHasCause inductive: a record on its way to the file is
\* backed too, and so is where an actor has got to.
Backed(j, label) ==
  /\ label = "refuse" => Kind[j] = "other"
  /\ label \in {"uiGet", "uiMark", "uiAct"} => Kind[j] = "ui"
  /\ label \in {"cancelQueued", "cancelRunning"} => j \in asked
  /\ label \in {"gotRunning", "gotOther", "remarkGet", "remark", "start",
               "recoverGet", "recoverMark", "recovered"} =>
       Kind[j] \in {"op", "conn"}
  /\ label = "running" => runs[j] > 0

CauseInv ==
  /\ StatusHasCause
  /\ \A a \in Actors : /\ pend[a] # NoRec => Caused(job[a], pend[a])
                       /\ Backed(job[a], pc[a])

\* A worker or a handler has job j in its hands.
Holds(a, j) ==
  \/ job[a] = j /\ (pc[a] \notin Unbound \/ pend[a] # NoRec)
  \/ a \in Workers /\ (plan[a][j] # "none" \/ \E d \in cands[a] : d.job = j)

Quiet(j) ==
  /\ Created(j) /\ newest[j].status \in Terminal /\ last[j].status \in Terminal
  /\ \A a \in Actors : ~Holds(a, j)

\* A job that is terminal in both views and that nobody holds is over: no later
\* step runs it, rewrites its record or takes it up again.
QuietIsFinal ==
  [][\A j \in Jobs :
       Quiet(j) => /\ newest'[j] = newest[j] /\ last'[j] = last[j]
                   /\ runs'[j] = runs[j]
                   /\ Quiet(j)']_vars

\* The action of a job starts no more often than max_attempts: a crash or an
\* expired lease costs an attempt.
RunsWithinAttempts == \A j \in Jobs : runs[j] <= MaxAttempts

\* Every job is in the end terminal for get() and for jobs() alike, whatever
\* crashed on the way.
EveryJobSettles ==
  \A j \in Jobs : Created(j) ~> []/\ newest[j].status \in Terminal
                                  /\ last[j].status \in Terminal

\* Without cancel and retry requests, and with one worker, the file behaves as
\* the plain first-in first-out queue of JobLifecycle, crashes of the server and
\* restarts included.
Lifecycle == INSTANCE JobLifecycle WITH
  state <- [j \in Jobs |-> IF Created(j) THEN newest[j].status ELSE "new"],
  attempts <- [j \in Jobs |-> IF Created(j) THEN newest[j].attempt ELSE 0]

ImplementsLifecycle == Lifecycle!Spec
=============================================================================
