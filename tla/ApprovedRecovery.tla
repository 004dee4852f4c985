-------------------------- MODULE ApprovedRecovery --------------------------
(***************************************************************************)
(* Human approval of live recoveries.  The monitor process files approval  *)
(* requests; HTTP handler threads approve, reject or expire them; the      *)
(* worker of the web server consumes approved requests and runs the        *)
(* recovery, either for the job the approval queued (approved_recovery) or *)
(* for a live_apply job, which takes the newest approved request.          *)
(*                                                                         *)
(* A decision and the outcome of a recovery are lines appended to          *)
(* approval_requests.jsonl; the last line of a request is its status.      *)
(* approve reads the status before it appends, and run_for_request reads   *)
(* it, has the recovery runner read it again, and appends the outcome when *)
(* the recovery is over.                                                   *)
(*                                                                         *)
(* An update of a job is one step here; JobStore has what two updates do   *)
(* to each other.  There is one worker, so a job is only found running at  *)
(* the start of a pass when it was left so or the server was restarted.    *)
(***************************************************************************)
EXTENDS Naturals

CONSTANTS
  MaxRequests,  \* bound: requests are 1..MaxRequests, in the order of filing
  Approvable,   \* the requests filed for a registered safe fix
  Handlers,     \* HTTP handler threads
  MaxJobs,      \* bound: job ids are 1..MaxJobs, in the order of creation
  MaxDecisions, \* bound: approve, reject and expire requests
  MaxLive,      \* bound: live_apply requests
  MaxRetries,   \* bound: retry requests
  MaxCancels,   \* bound: cancel requests
  MaxCrashes    \* bound: crashes of the server process

Requests == 1..MaxRequests
Jobs     == 1..MaxJobs

ASSUME BoundsAssumption ==
  /\ MaxRequests \in Nat /\ MaxJobs \in Nat /\ MaxDecisions \in Nat
  /\ MaxLive \in Nat /\ MaxRetries \in Nat /\ MaxCancels \in Nat
  /\ MaxCrashes \in Nat
ASSUME ApprovableAssumption == Approvable \subseteq Requests

VARIABLES
  log,        \* [Requests -> status]: the last line of the request
  jobs,       \* [Jobs -> [for, status]]: for = 0 is a live_apply job
  hand,       \* [Handlers -> [at, req, decision]]: a handler in approve()
  worker,     \* [at, job, req, verdict]: where the worker is
  approvals,  \* [Requests -> Nat]: "approved" lines appended
  runs,       \* [Requests -> Nat]: times the recovery was started
  crashes,    \* crashes so far
  budget      \* what is left of the bounds on requests

vars == <<log, jobs, hand, worker, approvals, runs, crashes, budget>>

Outcomes == {"succeeded", "failed", "blocked"}   \* the execution_* statuses
Over     == Outcomes \cup {"not_approvable", "rejected", "expired"}
Statuses == Over \cup {"none", "pending", "approved"}

JobStatuses == {"none", "queued", "running", "cancel_requested", "ended"}

NoJob == [for |-> 0, status |-> "none"]
Idle  == [at |-> "idle", job |-> 0, req |-> 0, verdict |-> "none"]
Free  == [at |-> "idle", req |-> 0, decision |-> "none"]

Filed(r) == log[r] # "none"

Init ==
  /\ log = [r \in Requests |-> "none"]
  /\ jobs = [j \in Jobs |-> NoJob]
  /\ hand = [h \in Handlers |-> Free]
  /\ worker = Idle
  /\ approvals = [r \in Requests |-> 0]
  /\ runs = [r \in Requests |-> 0]
  /\ crashes = 0
  /\ budget = [decisions |-> MaxDecisions, live |-> MaxLive,
               retries |-> MaxRetries, cancels |-> MaxCancels]

-----------------------------------------------------------------------------
(***************************************************************************)
(* The monitor and the HTTP handlers.                                      *)
(***************************************************************************)
\* create_request_from_gate
FileRequest(r) ==
  /\ ~Filed(r) /\ \A q \in Requests : q < r => Filed(q)
  /\ log' = [log EXCEPT ![r] = IF r \in Approvable THEN "pending"
                                                   ELSE "not_approvable"]
  /\ UNCHANGED <<jobs, hand, worker, approvals, runs, crashes, budget>>

\* _request_can_be_approved
CanBeApproved(r) == r \in Approvable /\ log[r] = "pending"

\* A fresh job; the ids are given out in order.
CreateJob(for) ==
  \E j \in Jobs :
    /\ jobs[j] = NoJob /\ \A i \in Jobs : i < j => jobs[i] # NoJob
    /\ jobs' = [jobs EXCEPT ![j] = [for |-> for, status |-> "queued"]]

Decide(h) ==
  /\ hand[h] = Free /\ budget.decisions > 0
  /\ budget' = [budget EXCEPT !.decisions = @ - 1]
  /\ UNCHANGED <<jobs, worker, runs, crashes>>

\* approve: what it reads decides between approved and rejected ...
ApproveRead(h, r) ==
  /\ Decide(h) /\ Filed(r)
  /\ hand' = [hand EXCEPT ![h] =
       [at |-> "append", req |-> r,
        decision |-> IF CanBeApproved(r) THEN "approved" ELSE "rejected"]]
  /\ UNCHANGED <<log, approvals>>

\* ... and what it appends has the server queue a job or not.
ApproveAppend(h) ==
  LET r == hand[h].req
      d == hand[h].decision
  IN  /\ hand[h].at = "append"
      /\ log' = [log EXCEPT ![r] = d]
      /\ IF d = "approved"
         THEN /\ approvals' = [approvals EXCEPT ![r] = @ + 1]
              /\ hand' = [hand EXCEPT ![h].at = "enqueue"]
         ELSE /\ hand' = [hand EXCEPT ![h] = Free]
              /\ UNCHANGED approvals
      /\ UNCHANGED <<jobs, worker, runs, crashes, budget>>

\* enqueue_approved_recovery
EnqueueRecovery(h) ==
  /\ hand[h].at = "enqueue"
  /\ CreateJob(hand[h].req)
  /\ hand' = [hand EXCEPT ![h] = Free]
  /\ UNCHANGED <<log, worker, approvals, runs, crashes, budget>>

\* reject and expire do not look at the status.
RejectOrExpire(h, r) ==
  /\ Decide(h) /\ Filed(r)
  /\ \E d \in {"rejected", "expired"} : log' = [log EXCEPT ![r] = d]
  /\ UNCHANGED <<hand, approvals>>

\* OperationRunner.enqueue of a live_apply job
EnqueueLive(h) ==
  /\ hand[h] = Free /\ budget.live > 0
  /\ CreateJob(0)
  /\ budget' = [budget EXCEPT !.live = @ - 1]
  /\ UNCHANGED <<log, hand, worker, approvals, runs, crashes>>

\* retry: a new job for the same request.
RetryJob(h, j) ==
  /\ hand[h] = Free /\ budget.retries > 0
  /\ jobs[j].status = "ended"
  /\ CreateJob(jobs[j].for)
  /\ budget' = [budget EXCEPT !.retries = @ - 1]
  /\ UNCHANGED <<log, hand, worker, approvals, runs, crashes>>

\* request_cancel
CancelJob(h, j) ==
  /\ hand[h] = Free /\ budget.cancels > 0
  /\ jobs[j].status \in {"queued", "running"}
  /\ jobs' = [jobs EXCEPT ![j].status =
                IF @ = "queued" THEN "ended" ELSE "cancel_requested"]
  /\ budget' = [budget EXCEPT !.cancels = @ - 1]
  /\ UNCHANGED <<log, hand, worker, approvals, runs, crashes>>

-----------------------------------------------------------------------------
(***************************************************************************)
(* The worker.                                                             *)
(***************************************************************************)
At(label) == worker.at = label

Move(label) == worker' = [worker EXCEPT !.at = label]

EndJob == /\ jobs' = [jobs EXCEPT ![worker.job].status = "ended"]
          /\ worker' = Idle

\* reap_expired_running: nobody works on a job that is running now.
Reap(j) ==
  /\ At("idle") /\ jobs[j].status \in {"running", "cancel_requested"}
  /\ jobs' = [jobs EXCEPT ![j].status = "ended"]
  /\ UNCHANGED <<log, hand, worker, approvals, runs, crashes, budget>>

\* lease_next: the oldest queued job.
Lease(j) ==
  /\ At("idle") /\ jobs[j].status = "queued"
  /\ \A i \in Jobs : i < j => jobs[i].status # "queued"
  /\ jobs' = [jobs EXCEPT ![j].status = "running"]
  /\ worker' = [Idle EXCEPT !.at = "leased", !.job = j]
  /\ UNCHANGED <<log, hand, approvals, runs, crashes, budget>>

\* The checks for a cancel request, up to the one of execute_leased_job.
DropCanceled ==
  /\ At("leased") /\ jobs[worker.job].status = "cancel_requested"
  /\ EndJob
  /\ UNCHANGED <<log, hand, approvals, runs, crashes, budget>>

\* The request the job is for; latest_approved_request for a live_apply job,
\* which is blocked when there is none.
PickRequest ==
  LET job == jobs[worker.job]
      approved == {r \in Requests : log[r] = "approved"}
  IN  /\ At("leased") /\ job.status # "cancel_requested"
      /\ \/ /\ job.for # 0
            /\ worker' = [worker EXCEPT !.at = "active", !.req = job.for]
            /\ UNCHANGED jobs
         \/ /\ job.for = 0 /\ approved = {}
            /\ EndJob
         \/ /\ job.for = 0
            /\ \E r \in approved :
                 /\ \A q \in approved : q <= r
                 /\ worker' = [worker EXCEPT !.at = "active", !.req = r]
            /\ UNCHANGED jobs
      /\ UNCHANGED <<log, hand, approvals, runs, crashes, budget>>

\* Mutant: the job itself is not ignored.
AnyActiveJob ==
  \E j \in Jobs : /\ jobs[j].for = worker.req
                 /\ jobs[j].status \in {"queued", "running"}

\* _active_job_for_request: another approved_recovery job of the request.
ActiveJob ==
  \E j \in Jobs \ {worker.job} : /\ jobs[j].for = worker.req
                                /\ jobs[j].status \in {"queued", "running"}

\* run_for_request returns the other job: a live_apply job is completed, an
\* approved_recovery job is left as it is.
YieldToActive ==
  /\ At("active") /\ ActiveJob
  /\ IF jobs[worker.job].for = 0 THEN EndJob ELSE worker' = Idle /\ UNCHANGED jobs
  /\ UNCHANGED <<log, hand, approvals, runs, crashes, budget>>

\* It goes on with its own job, marked running again if it is not.
TakeJob ==
  /\ At("active") /\ ~ActiveJob
  /\ jobs' = [jobs EXCEPT ![worker.job].status = "running"]
  /\ Move("consume")
  /\ UNCHANGED <<log, hand, approvals, runs, crashes, budget>>

\* Only a request whose last line is "approved" is consumed.
Consume ==
  /\ At("consume")
  /\ IF log[worker.req] = "approved" THEN Move("gate") /\ UNCHANGED jobs ELSE EndJob
  /\ UNCHANGED <<log, hand, approvals, runs, crashes, budget>>

\* Mutant: the approval is not looked at again.
ValidateOnlyRequest ==
  /\ At("gate") /\ worker.req \in Approvable
  /\ Move("start")
  /\ UNCHANGED <<log, jobs, hand, approvals, runs, crashes, budget>>

\* _validate_approval_for_gate, after the runtime gate allowed the fix.
Validate ==
  /\ At("gate") /\ worker.req \in Approvable
  /\ IF log[worker.req] = "approved"
     THEN Move("start")
     ELSE worker' = [worker EXCEPT !.at = "record", !.verdict = "blocked"]
  /\ UNCHANGED <<log, jobs, hand, approvals, runs, crashes, budget>>

\* The preflight check, the runtime gate or the cooldown blocks the recovery, or
\* an exception ends it before anything was applied.
GiveUp ==
  /\ worker.at \in {"gate", "start"}
  /\ \E v \in {"blocked", "failed"} :
       worker' = [worker EXCEPT !.at = "record", !.verdict = v]
  /\ UNCHANGED <<log, jobs, hand, approvals, runs, crashes, budget>>

\* _run_local_recovery or _run_remote_recovery begins.
StartRun ==
  /\ At("start")
  /\ runs' = [runs EXCEPT ![worker.req] = @ + 1]
  /\ Move("running")
  /\ UNCHANGED <<log, jobs, hand, approvals, crashes, budget>>

\* Mutant: the status of the job is taken, whatever it is.
VerdictOfJob == Outcomes \cup {"timed_out"}

\* _approval_execution_status
Verdicts == Outcomes

FinishRun ==
  /\ At("running")
  /\ \E v \in Verdicts : worker' = [worker EXCEPT !.at = "record", !.verdict = v]
  /\ UNCHANGED <<log, jobs, hand, approvals, runs, crashes, budget>>

\* Mutant: a failure is not recorded, so that it can be tried again.
RecordUnlessFailed ==
  /\ At("record")
  /\ log' = IF worker.verdict = "failed"
            THEN log ELSE [log EXCEPT ![worker.req] = worker.verdict]
  /\ Move("complete")
  /\ UNCHANGED <<jobs, hand, approvals, runs, crashes, budget>>

\* record_execution does not look at the status either.
Record ==
  /\ At("record")
  /\ log' = [log EXCEPT ![worker.req] = worker.verdict]
  /\ Move("complete")
  /\ UNCHANGED <<jobs, hand, approvals, runs, crashes, budget>>

CompleteJob ==
  /\ At("complete")
  /\ EndJob
  /\ UNCHANGED <<log, hand, approvals, runs, crashes, budget>>

-----------------------------------------------------------------------------
\* The server process dies with its handlers and its worker, and is restarted.
Crash ==
  /\ crashes < MaxCrashes
  /\ worker # Idle \/ \E h \in Handlers : hand[h] # Free
  /\ worker' = Idle
  /\ hand' = [h \in Handlers |-> Free]
  /\ crashes' = crashes + 1
  /\ UNCHANGED <<log, jobs, approvals, runs, budget>>

Request(h) ==
  \/ \E r \in Requests : ApproveRead(h, r) \/ RejectOrExpire(h, r)
  \/ EnqueueLive(h)
  \/ \E j \in Jobs : RetryJob(h, j) \/ CancelJob(h, j)

HandlerStep(h) == ApproveAppend(h) \/ EnqueueRecovery(h)

WorkerStep ==
  \/ \E j \in Jobs : Reap(j) \/ Lease(j)
  \/ DropCanceled \/ PickRequest \/ YieldToActive \/ TakeJob \/ Consume
  \/ Validate \/ GiveUp \/ StartRun \/ FinishRun \/ Record \/ CompleteJob

Next ==
  \/ \E r \in Requests : FileRequest(r)
  \/ \E h \in Handlers : Request(h) \/ HandlerStep(h)
  \/ WorkerStep
  \/ Crash

Spec == Init /\ [][Next]_vars

\* A handler that has begun goes on to its end and the worker loop never stops.
Fairness == WF_vars(WorkerStep) /\ \A h \in Handlers : WF_vars(HandlerStep(h))

FairSpec == Spec /\ Fairness

-----------------------------------------------------------------------------
(***************************************************************************)
(* Properties.                                                             *)
(***************************************************************************)
Labels == {"idle", "leased", "active", "consume", "gate", "start", "running",
           "record", "complete"}

\* Every variable has its type.
TypeOK ==
  /\ log \in [Requests -> Statuses]
  /\ jobs \in [Jobs -> [for: 0..MaxRequests, status: JobStatuses]]
  /\ hand \in [Handlers -> [at: {"idle", "append", "enqueue"},
                            req: 0..MaxRequests,
                            decision: {"none", "approved", "rejected"}]]
  /\ worker \in [at: Labels, job: 0..MaxJobs, req: 0..MaxRequests,
                 verdict: Outcomes \cup {"none"}]
  /\ approvals \in [Requests -> Nat]
  /\ runs \in [Requests -> Nat]
  /\ crashes \in Nat
  /\ budget \in [decisions: Nat, live: Nat, retries: Nat, cancels: Nat]

\* What makes TypeOK inductive: what the worker and a handler have in hand.
InHand ==
  /\ worker.at # "idle" => worker.job \in Jobs
  /\ worker.at \notin {"idle", "leased"} => worker.req \in Requests
  /\ worker.at = "record" => worker.verdict \in Outcomes
  /\ \A h \in Handlers : /\ hand[h].at # "idle" => hand[h].req \in Requests
                         /\ hand[h].at = "append" => hand[h].decision # "none"

\* A further recovery of a request costs a further approval of it or a crash of
\* the server between the recovery and its record: whatever is retried, raced
\* by a live_apply job or decided twice, one approval is not consumed twice.
ExecutionsBacked == \A r \in Requests : runs[r] <= approvals[r] + crashes

\* The worker has started the recovery and has not recorded its outcome.
Consuming(r) == worker.req = r /\ worker.at \in {"running", "record"}

\* What makes ExecutionsBacked inductive: an approval on file that no recovery
\* is under way for has not been paid for yet.
BackedInv ==
  \A r \in Requests :
    /\ runs[r] <= approvals[r] + crashes
    /\ \/ log[r] = "approved" /\ ~Consuming(r)
       \/ At("start") /\ worker.req = r
       => runs[r] < approvals[r] + crashes

\* The request was decided against or is executed, no approve() is about to say
\* otherwise, and the worker is not past its last look at the status.
Settled(r) ==
  /\ log[r] \in Over
  /\ \A h \in Handlers : ~(/\ hand[h].at = "append" /\ hand[h].req = r
                          /\ hand[h].decision = "approved")
  /\ ~(At("start") /\ worker.req = r)

\* A settled request stays so and is never recovered: no retry, live_apply,
\* second click or restart brings it back.
SettledIsFinal ==
  [][\A r \in Requests : Settled(r) => Settled(r)' /\ runs'[r] = runs[r]]_vars

\* What may leave an approval on file for ever: two approvals of one request (its
\* two jobs find each other active), a job that was canceled or lost in a crash.
Disturbed(r) == approvals[r] > 1 \/ crashes > 0 \/ budget.cancels < MaxCancels

\* Every approved request is consumed, unless it is decided otherwise first:
\* retries, live_apply jobs and decisions on other requests do not get in its way.
\* (operation_runner: after an approval "the system creates an
\* approved_recovery_job by itself and runs the safety gate again".)
ApprovedIsConsumed ==
  \A r \in Requests : log[r] = "approved" ~> log[r] # "approved" \/ Disturbed(r)

\* run_for_request: the worker does not consume requests that are "rejected,
\* expired, pending or already executed".  While the server stays up, no request
\* is recovered twice.
ExecutedOnce == \A r \in Requests : runs[r] <= 1
=============================================================================
