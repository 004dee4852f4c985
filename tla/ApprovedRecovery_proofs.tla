----------------------- MODULE ApprovedRecovery_proofs -----------------------
(***************************************************************************)
(* Theorems about ApprovedRecovery for any number of requests, jobs,       *)
(* handlers, requests and crashes.                                         *)
(*   TypeCorrect     TypeOK, with InHand as its strengthening              *)
(*   ApprovalsBackRuns  ExecutionsBacked, from BackedInv                   *)
(*   SettledStaysFinal  SettledIsFinal, an action property                 *)
(***************************************************************************)
EXTENDS ApprovedRecovery, TLAPS

TypeInv == TypeOK /\ InHand

\* What the constants and the sets of labels come to.
LEMMA Sets ==
  /\ MaxRequests \in Nat /\ MaxJobs \in Nat
  /\ Requests \subseteq 0..MaxRequests /\ Jobs \subseteq 0..MaxJobs
  /\ 0 \in 0..MaxRequests /\ 0 \in 0..MaxJobs
  /\ \A r \in Requests : r # 0
  /\ \A r \in 0..MaxRequests : r # 0 => r \in Requests
  /\ Outcomes \subseteq Statuses /\ "approved" \notin Over
  /\ {"rejected", "expired", "approved"} \subseteq Statuses
BY BoundsAssumption DEF Requests, Jobs, Outcomes, Statuses, Over

LEMMA InitTyped == Init => TypeInv
<1> SUFFICES ASSUME Init PROVE TypeInv
  OBVIOUS
<1>1. TypeOK
  BY Sets, BoundsAssumption
  DEF Init, TypeOK, Statuses, NoJob, JobStatuses, Free, Idle, Labels
<1>2. InHand
  BY DEF Init, InHand, Idle, Free
<1>3. QED
  BY <1>1, <1>2 DEF TypeInv

\* A fresh job has its type.
LEMMA CreateTyped ==
  ASSUME TypeInv, NEW for \in 0..MaxRequests, CreateJob(for)
  PROVE  jobs' \in [Jobs -> [for: 0..MaxRequests, status: JobStatuses]]
BY DEF CreateJob, TypeInv, TypeOK, JobStatuses

LEMMA RequestTyped ==
  ASSUME TypeInv, NEW h \in Handlers, Request(h)
  PROVE  TypeInv'
<1>a. TypeOK /\ InHand
  BY DEF TypeInv
<1>1. ASSUME NEW r \in Requests, ApproveRead(h, r)
      PROVE  TypeInv'
  <2>1. hand' \in [Handlers -> [at: {"idle", "append", "enqueue"},
                                req: 0..MaxRequests,
                                decision: {"none", "approved", "rejected"}]]
    BY <1>a, <1>1, Sets DEF ApproveRead, TypeOK
  <2>2. TypeOK'
    BY <1>a, <1>1, <2>1 DEF ApproveRead, Decide, TypeOK
  <2>3. InHand'
    BY <1>a, <1>1 DEF ApproveRead, Decide, InHand, TypeOK
  <2>4. QED
    BY <2>2, <2>3 DEF TypeInv
<1>2. ASSUME NEW r \in Requests, RejectOrExpire(h, r)
      PROVE  TypeInv'
  <2>1. log' \in [Requests -> Statuses]
    BY <1>a, <1>2, Sets DEF RejectOrExpire, TypeOK
  <2>2. TypeOK' /\ InHand'
    BY <1>a, <1>2, <2>1 DEF RejectOrExpire, Decide, TypeOK, InHand
  <2>3. QED
    BY <2>2 DEF TypeInv
<1>3. CASE EnqueueLive(h)
  <2>1. jobs' \in [Jobs -> [for: 0..MaxRequests, status: JobStatuses]]
    BY <1>3, Sets, CreateTyped DEF EnqueueLive
  <2>2. TypeOK' /\ InHand'
    BY <1>a, <1>3, <2>1 DEF EnqueueLive, TypeOK, InHand
  <2>3. QED
    BY <2>2 DEF TypeInv
<1>4. ASSUME NEW j \in Jobs, RetryJob(h, j)
      PROVE  TypeInv'
  <2>1. jobs[j].for \in 0..MaxRequests
    BY <1>a DEF TypeOK
  <2>2. jobs' \in [Jobs -> [for: 0..MaxRequests, status: JobStatuses]]
    BY <1>4, <2>1, CreateTyped DEF RetryJob
  <2>3. TypeOK' /\ InHand'
    BY <1>a, <1>4, <2>2 DEF RetryJob, TypeOK, InHand
  <2>4. QED
    BY <2>3 DEF TypeInv
<1>5. ASSUME NEW j \in Jobs, CancelJob(h, j)
      PROVE  TypeInv'
  <2>1. jobs' \in [Jobs -> [for: 0..MaxRequests, status: JobStatuses]]
    BY <1>a, <1>5 DEF CancelJob, TypeOK, JobStatuses
  <2>2. TypeOK' /\ InHand'
    BY <1>a, <1>5, <2>1 DEF CancelJob, TypeOK, InHand
  <2>3. QED
    BY <2>2 DEF TypeInv
<1>6. QED
  BY <1>1, <1>2, <1>3, <1>4, <1>5 DEF Request

LEMMA HandlerTyped ==
  ASSUME TypeInv, NEW h \in Handlers, HandlerStep(h)
  PROVE  TypeInv'
<1>a. TypeOK /\ InHand
  BY DEF TypeInv
<1>1. CASE ApproveAppend(h)
  <2>1. hand[h].req \in Requests /\ hand[h].decision \in {"approved", "rejected"}
    BY <1>a, <1>1 DEF ApproveAppend, InHand, TypeOK
  <2>2. /\ log' \in [Requests -> Statuses]
        /\ approvals' \in [Requests -> Nat]
    BY <1>a, <1>1, <2>1, Sets DEF ApproveAppend, TypeOK
  <2>3. \/ hand' = [hand EXCEPT ![h].at = "enqueue"]
        \/ hand' = [hand EXCEPT ![h] = Free]
    BY <1>1 DEF ApproveAppend
  <2>4. hand' \in [Handlers -> [at: {"idle", "append", "enqueue"},
                                req: 0..MaxRequests,
                                decision: {"none", "approved", "rejected"}]]
    BY <1>a, <2>3, Sets DEF TypeOK, Free
  <2>5. TypeOK'
    BY <1>a, <1>1, <2>2, <2>4 DEF ApproveAppend, TypeOK
  <2>6. InHand'
    BY SMTT(30), <1>a, <1>1, <2>1, <2>3 DEF ApproveAppend, InHand, Free, TypeOK
  <2>7. QED
    BY <2>5, <2>6 DEF TypeInv
<1>2. CASE EnqueueRecovery(h)
  <2>1. hand[h].req \in 0..MaxRequests
    BY <1>a DEF TypeOK
  <2>2. jobs' \in [Jobs -> [for: 0..MaxRequests, status: JobStatuses]]
    BY <1>2, <2>1, CreateTyped DEF EnqueueRecovery
  <2>3. TypeOK'
    BY <1>a, <1>2, <2>2, Sets DEF EnqueueRecovery, TypeOK, Free
  <2>4. InHand'
    BY <1>a, <1>2 DEF EnqueueRecovery, InHand, TypeOK, Free
  <2>5. QED
    BY <2>3, <2>4 DEF TypeInv
<1>3. QED
  BY <1>1, <1>2 DEF HandlerStep

LEMMA WorkerTyped ==
  ASSUME TypeInv, WorkerStep
  PROVE  TypeInv'
<1>a. TypeOK /\ InHand
  BY DEF TypeInv
<1>b. Idle \in [at: Labels, job: 0..MaxJobs, req: 0..MaxRequests,
                verdict: Outcomes \cup {"none"}]
  BY Sets DEF Idle, Labels
\* A step of the worker that leaves the log alone.
<1>c. ASSUME worker' \in [at: Labels, job: 0..MaxJobs, req: 0..MaxRequests,
                          verdict: Outcomes \cup {"none"}],
             jobs' \in [Jobs -> [for: 0..MaxRequests, status: JobStatuses]],
             worker'.at # "idle" => worker'.job \in Jobs,
             worker'.at \notin {"idle", "leased"} => worker'.req \in Requests,
             worker'.at = "record" => worker'.verdict \in Outcomes,
             UNCHANGED <<log, hand, approvals, runs, crashes, budget>>
      PROVE  TypeInv'
  BY <1>a, <1>c DEF TypeInv, TypeOK, InHand
\* Only moving on.
<1>d. ASSUME NEW l \in Labels, Move(l), worker.at \notin {"idle", "leased"},
             l # "record"
      PROVE  /\ worker' \in [at: Labels, job: 0..MaxJobs, req: 0..MaxRequests,
                             verdict: Outcomes \cup {"none"}]
             /\ worker'.job \in Jobs /\ worker'.req \in Requests
             /\ worker'.at # "record"
  BY <1>a, <1>d DEF Move, TypeOK, InHand
\* Completing the job.
<1>e. ASSUME EndJob, worker.at # "idle",
             UNCHANGED <<log, hand, approvals, runs, crashes, budget>>
      PROVE  TypeInv'
  <2>1. jobs' \in [Jobs -> [for: 0..MaxRequests, status: JobStatuses]]
    BY ZenonT(40), <1>a, <1>e DEF EndJob, TypeOK, JobStatuses
  <2>2. worker' = Idle
    BY <1>e DEF EndJob
  <2>3. QED
    BY <2>1, <2>2, <1>b, <1>c, <1>e DEF Idle
<1>f. /\ {"start", "running", "complete", "gate", "consume"} \subseteq Labels
      /\ {"blocked", "failed"} \subseteq Outcomes
  BY DEF Labels, Outcomes
\* Coming to a verdict.
<1>g. ASSUME NEW v \in Outcomes, worker.at \notin {"idle", "leased"},
             worker' = [worker EXCEPT !.at = "record", !.verdict = v],
             UNCHANGED <<log, jobs, hand, approvals, runs, crashes, budget>>
      PROVE  TypeInv'
  <2>1. /\ worker' \in [at: Labels, job: 0..MaxJobs, req: 0..MaxRequests,
                        verdict: Outcomes \cup {"none"}]
        /\ worker'.job \in Jobs /\ worker'.req \in Requests
        /\ worker'.verdict \in Outcomes
    BY <1>a, <1>g DEF TypeOK, InHand, Labels
  <2>2. QED
    BY <2>1, <1>a, <1>c, <1>g DEF TypeOK
<1>1. ASSUME NEW j \in Jobs, Reap(j)
      PROVE  TypeInv'
  <2>1. jobs' \in [Jobs -> [for: 0..MaxRequests, status: JobStatuses]]
    BY <1>a, <1>1 DEF Reap, TypeOK, JobStatuses
  <2>2. QED
    BY <2>1, <1>1, <1>a DEF Reap, TypeInv, TypeOK, InHand
<1>2. ASSUME NEW j \in Jobs, Lease(j)
      PROVE  TypeInv'
  <2>1. jobs' \in [Jobs -> [for: 0..MaxRequests, status: JobStatuses]]
    BY <1>a, <1>2 DEF Lease, TypeOK, JobStatuses
  <2>2. worker' = [at |-> "leased", job |-> j, req |-> 0, verdict |-> "none"]
    BY <1>2 DEF Lease, Idle
  <2>3. QED
    BY <2>1, <2>2, <1>2, <1>c, Sets DEF Lease, Labels
<1>3. CASE DropCanceled
  BY <1>3, <1>e DEF DropCanceled, At
<1>4. CASE PickRequest
  <2>1. worker.at = "leased" /\ worker.job \in Jobs
    BY <1>4, <1>a DEF PickRequest, At, InHand
  <2>2. CASE EndJob
    BY <2>1, <2>2, <1>4, <1>e DEF PickRequest
  <2>3. ASSUME NEW r \in Requests, UNCHANGED jobs,
               worker' = [worker EXCEPT !.at = "active", !.req = r]
        PROVE  TypeInv'
    <3>1. /\ worker' \in [at: Labels, job: 0..MaxJobs, req: 0..MaxRequests,
                          verdict: Outcomes \cup {"none"}]
          /\ worker'.job \in Jobs /\ worker'.req \in Requests
          /\ worker'.at = "active"
      BY <2>1, <2>3, <1>a, Sets DEF TypeOK, Labels
    <3>2. QED
      BY <3>1, <2>3, <1>4, <1>a, <1>c DEF PickRequest, TypeOK
  <2>4. jobs[worker.job].for # 0 => jobs[worker.job].for \in Requests
    BY <2>1, <1>a, Sets DEF TypeOK
  <2>5. QED
    BY <2>2, <2>3, <2>4, <1>4 DEF PickRequest
<1>5. CASE YieldToActive
  <2>1. CASE EndJob
    BY <2>1, <1>5, <1>e DEF YieldToActive, At
  <2>2. CASE worker' = Idle /\ UNCHANGED jobs
    BY <2>2, <1>5, <1>a, <1>b, <1>c DEF YieldToActive, Idle, TypeOK
  <2>3. QED
    BY <2>1, <2>2, <1>5 DEF YieldToActive
<1>6. CASE TakeJob
  <2>1. jobs' \in [Jobs -> [for: 0..MaxRequests, status: JobStatuses]]
    BY ZenonT(40), <1>a, <1>6 DEF TakeJob, TypeOK, JobStatuses
  <2>2. QED
    BY <2>1, <1>6, <1>c, <1>d, <1>f DEF TakeJob, At
<1>7. CASE Consume
  <2>1. CASE EndJob
    BY <2>1, <1>7, <1>e DEF Consume, At
  <2>2. CASE Move("gate") /\ UNCHANGED jobs
    BY <2>2, <1>7, <1>a, <1>c, <1>d, <1>f DEF Consume, At, TypeOK
  <2>3. QED
    BY <2>1, <2>2, <1>7 DEF Consume
<1>8. CASE Validate
  <2>1. CASE Move("start")
    BY <2>1, <1>8, <1>a, <1>c, <1>d, <1>f DEF Validate, At, TypeOK
  <2>2. CASE worker' = [worker EXCEPT !.at = "record", !.verdict = "blocked"]
    BY <2>2, <1>8, <1>f, <1>g DEF Validate, At
  <2>3. QED
    BY <2>1, <2>2, <1>8 DEF Validate
<1>9. CASE GiveUp
  BY <1>9, <1>f, <1>g DEF GiveUp
<1>10. CASE StartRun
  <2>1. worker.req \in Requests /\ worker.at \notin {"idle", "leased"}
    BY <1>10, <1>a DEF StartRun, At, InHand
  <2>2. runs' \in [Requests -> Nat]
    BY <2>1, <1>10, <1>a DEF StartRun, TypeOK
  <2>3. /\ worker' \in [at: Labels, job: 0..MaxJobs, req: 0..MaxRequests,
                        verdict: Outcomes \cup {"none"}]
        /\ worker'.job \in Jobs /\ worker'.req \in Requests
        /\ worker'.at # "record"
    BY <2>1, <1>10, <1>d, <1>f DEF StartRun
  <2>4. QED
    BY <2>2, <2>3, <1>10, <1>a DEF StartRun, TypeInv, TypeOK, InHand
<1>11. CASE FinishRun
  BY <1>11, <1>g DEF FinishRun, Verdicts, At
<1>12. CASE Record
  <2>1. /\ worker.req \in Requests /\ worker.at \notin {"idle", "leased"}
        /\ worker.verdict \in Outcomes
    BY <1>12, <1>a DEF Record, At, InHand
  <2>2. log' \in [Requests -> Statuses]
    BY <2>1, <1>12, <1>a, Sets DEF Record, TypeOK
  <2>3. /\ worker' \in [at: Labels, job: 0..MaxJobs, req: 0..MaxRequests,
                        verdict: Outcomes \cup {"none"}]
        /\ worker'.job \in Jobs /\ worker'.req \in Requests
        /\ worker'.at # "record"
    BY <2>1, <1>12, <1>d, <1>f DEF Record
  <2>4. QED
    BY <2>2, <2>3, <1>12, <1>a DEF Record, TypeInv, TypeOK, InHand
<1>13. CASE CompleteJob
  BY <1>13, <1>e DEF CompleteJob, At
<1>14. QED
  BY <1>1, <1>2, <1>3, <1>4, <1>5, <1>6, <1>7, <1>8, <1>9, <1>10, <1>11, <1>12,
     <1>13 DEF WorkerStep

LEMMA NextTyped == TypeInv /\ [Next]_vars => TypeInv'
<1> SUFFICES ASSUME TypeInv, [Next]_vars PROVE TypeInv'
  OBVIOUS
<1>a. TypeOK /\ InHand
  BY DEF TypeInv
<1>1. ASSUME NEW r \in Requests, FileRequest(r)
      PROVE  TypeInv'
  BY <1>1, <1>a DEF FileRequest, TypeInv, TypeOK, InHand, Statuses, Over
<1>2. ASSUME NEW h \in Handlers, Request(h) \/ HandlerStep(h)
      PROVE  TypeInv'
  BY <1>2, RequestTyped, HandlerTyped
<1>3. CASE WorkerStep
  BY <1>3, WorkerTyped
<1>4. CASE Crash
  <2>1. TypeOK'
    BY <1>4, <1>a, Sets DEF Crash, TypeOK, Idle, Free, Labels
  <2>2. InHand'
    BY <1>4 DEF Crash, InHand, Idle, Free
  <2>3. QED
    BY <2>1, <2>2 DEF TypeInv
<1>5. CASE UNCHANGED vars
  BY <1>5, <1>a DEF vars, TypeInv, TypeOK, InHand
<1>6. QED
  BY <1>1, <1>2, <1>3, <1>4, <1>5 DEF Next

\* The type invariant holds, with what it rests on: the worker and the handlers
\* only ever have filed requests and created jobs in hand, and what
\* record_execution appends is an execution status (monitors/trace_store.py).
THEOREM TypeCorrect == Spec => [](TypeOK /\ InHand)
<1>1. Spec => []TypeInv
  BY InitTyped, NextTyped, PTL DEF Spec
<1>2. QED
  BY <1>1, PTL DEF TypeInv

-----------------------------------------------------------------------------
\* The steps around the recovery never come to its start.
LEMMA NotToStart ==
  ASSUME TypeInv,
         \/ DropCanceled \/ PickRequest \/ YieldToActive \/ TakeJob \/ Consume
         \/ CompleteJob
  PROVE  worker'.at # "start"
<1>a. \A l : worker.at # "start" /\ Move(l) => worker'.at = l
  BY DEF Move, TypeInv, TypeOK
<1>b. EndJob => worker'.at = "idle"
  BY DEF EndJob, Idle
<1>1. CASE DropCanceled \/ CompleteJob
  BY <1>1, <1>b DEF DropCanceled, CompleteJob
<1>2. CASE PickRequest
  <2>1. EndJob \/ \E q : worker' = [worker EXCEPT !.at = "active", !.req = q]
    BY <1>2 DEF PickRequest
  <2>2. QED
    BY <2>1, <1>b DEF TypeInv, TypeOK
<1>3. CASE YieldToActive
  BY <1>3, <1>b DEF YieldToActive, Idle
<1>4. CASE TakeJob \/ Consume
  BY <1>4, <1>a, <1>b DEF TakeJob, Consume, At
<1>5. QED
  BY <1>1, <1>2, <1>3, <1>4

LEMMA InitBacked == Init => BackedInv
BY DEF Init, BackedInv, At, Idle

\* A step that neither starts a recovery nor ends one unrecorded, and puts no
\* approval on file.
LEMMA BackedKept ==
  ASSUME TypeInv, BackedInv, UNCHANGED <<approvals, runs, crashes>>,
         \A r \in Requests :
           /\ log'[r] = "approved" => log[r] = "approved"
           /\ Consuming(r) => Consuming(r)' \/ log'[r] # "approved",
         \/ worker'.at # "start"
         \/ worker' = worker
         \/ log[worker'.req] = "approved" /\ ~Consuming(worker'.req)
  PROVE  BackedInv'
BY DEF BackedInv, TypeInv, TypeOK, At, Consuming

LEMMA HandlerBacked ==
  ASSUME TypeInv, BackedInv, NEW h \in Handlers, HandlerStep(h)
  PROVE  BackedInv'
<1>a. TypeOK /\ InHand
  BY DEF TypeInv
<1>1. CASE ApproveAppend(h) /\ hand[h].decision = "approved"
  <2>1. hand[h].req \in Requests
    BY <1>a, <1>1 DEF ApproveAppend, InHand
  <2>2. /\ log' = [log EXCEPT ![hand[h].req] = "approved"]
        /\ approvals' = [approvals EXCEPT ![hand[h].req] = @ + 1]
        /\ UNCHANGED <<worker, runs, crashes>>
    BY <1>1 DEF ApproveAppend
  <2>3. QED
    BY <2>1, <2>2, <1>a DEF BackedInv, TypeOK, At, Consuming
<1>2. CASE ApproveAppend(h) /\ hand[h].decision # "approved"
  <2>1. /\ log' = [log EXCEPT ![hand[h].req] = hand[h].decision]
        /\ UNCHANGED <<worker, approvals, runs, crashes>>
    BY <1>2 DEF ApproveAppend
  <2>2. \A r \in Requests : log'[r] = "approved" => log[r] = "approved"
    BY <2>1, <1>2, <1>a DEF TypeOK
  <2>3. QED
    BY <2>1, <2>2, BackedKept DEF Consuming
<1>3. CASE EnqueueRecovery(h)
  BY <1>3, BackedKept DEF EnqueueRecovery, Consuming
<1>4. QED
  BY <1>1, <1>2, <1>3 DEF HandlerStep

LEMMA RequestBacked ==
  ASSUME TypeInv, BackedInv, NEW h \in Handlers, Request(h)
  PROVE  BackedInv'
<1>1. UNCHANGED <<worker, approvals, runs, crashes>>
  BY DEF Request, ApproveRead, RejectOrExpire, Decide, EnqueueLive, RetryJob,
         CancelJob
<1>2. \A r \in Requests : log'[r] = "approved" => log[r] = "approved"
  BY DEF Request, ApproveRead, RejectOrExpire, EnqueueLive, RetryJob, CancelJob,
         TypeInv, TypeOK
<1>3. QED
  BY <1>1, <1>2, BackedKept DEF Consuming

LEMMA WorkerBacked ==
  ASSUME TypeInv, BackedInv, WorkerStep
  PROVE  BackedInv'
<1>a. TypeOK /\ InHand
  BY DEF TypeInv
\* The steps before the recovery: not under way, and not about to be.
<1>b. ASSUME worker.at \notin {"running", "record"}, worker'.at # "start",
             UNCHANGED <<log, approvals, runs, crashes>>
      PROVE  BackedInv'
  BY <1>b, BackedKept DEF Consuming
<1>c. EndJob => worker'.at = "idle"
  BY DEF EndJob, Idle
<1>1. ASSUME NEW j \in Jobs, Reap(j) \/ Lease(j)
      PROVE  BackedInv'
  BY <1>1, <1>a, <1>b DEF Reap, Lease, At, Idle, TypeOK
<1>2. CASE DropCanceled \/ PickRequest \/ YieldToActive \/ TakeJob \/ Consume
  <2>1. worker.at \in {"leased", "active", "consume"}
    BY <1>2 DEF DropCanceled, PickRequest, YieldToActive, TakeJob, Consume, At
  <2>2. worker'.at # "start"
    BY <1>2, NotToStart
  <2>3. UNCHANGED <<log, approvals, runs, crashes>>
    BY <1>2 DEF DropCanceled, PickRequest, YieldToActive, TakeJob, Consume
  <2>4. QED
    BY <2>1, <2>2, <2>3, <1>b
<1>3. CASE Validate
  <2>1. worker.at = "gate" /\ UNCHANGED <<log, approvals, runs, crashes>>
    BY <1>3 DEF Validate, At
  <2>2. CASE log[worker.req] = "approved"
    <3>1. worker'.req = worker.req /\ ~Consuming(worker.req)
      BY <2>1, <2>2, <1>3, <1>a DEF Validate, Move, Consuming, TypeOK
    <3>2. QED
      BY <2>1, <2>2, <3>1, BackedKept DEF Consuming
  <2>3. CASE log[worker.req] # "approved"
    <3>1. worker'.at = "record"
      BY <2>3, <1>3, <1>a DEF Validate, TypeOK
    <3>2. QED
      BY <2>1, <3>1, <1>b
  <2>4. QED
    BY <2>2, <2>3
<1>4. CASE GiveUp
  <2>1. worker'.at = "record" /\ worker.at \in {"gate", "start"}
    BY <1>4, <1>a DEF GiveUp, TypeOK
  <2>2. QED
    BY <2>1, <1>4, <1>b DEF GiveUp
<1>5. CASE StartRun
  <2>1. /\ worker.req \in Requests /\ worker.at = "start"
        /\ runs[worker.req] < approvals[worker.req] + crashes
    BY <1>5, <1>a DEF StartRun, At, InHand, BackedInv
  <2>2. /\ runs' = [runs EXCEPT ![worker.req] = @ + 1]
        /\ worker'.at = "running" /\ worker'.req = worker.req
        /\ UNCHANGED <<log, approvals, crashes>>
    BY <1>5, <1>a DEF StartRun, Move, TypeOK
  <2>3. QED
    BY <2>1, <2>2, <1>a DEF BackedInv, At, Consuming, TypeOK
<1>6. CASE FinishRun
  <2>1. worker'.at = "record" /\ worker'.req = worker.req
    BY <1>6, <1>a DEF FinishRun, TypeOK
  <2>2. QED
    BY <2>1, <1>6, BackedKept DEF FinishRun, Consuming
<1>7. CASE Record
  <2>1. worker.req \in Requests /\ worker.verdict # "approved"
    BY <1>7, <1>a DEF Record, At, InHand, Outcomes
  <2>2. /\ worker'.at = "complete"
        /\ \A r \in Requests : log'[r] = "approved" => log[r] = "approved"
        /\ log'[worker.req] # "approved"
    BY <2>1, <1>7, <1>a DEF Record, Move, TypeOK
  <2>3. QED
    BY <2>2, <1>7, BackedKept DEF Record, Consuming
<1>8. CASE CompleteJob
  BY <1>8, <1>b, <1>c DEF CompleteJob, At
<1>9. QED
  BY <1>1, <1>2, <1>3, <1>4, <1>5, <1>6, <1>7, <1>8 DEF WorkerStep

LEMMA NextBacked == TypeInv /\ BackedInv /\ [Next]_vars => BackedInv'
<1> SUFFICES ASSUME TypeInv, BackedInv, [Next]_vars PROVE BackedInv'
  OBVIOUS
<1>1. ASSUME NEW r \in Requests, FileRequest(r)
      PROVE  BackedInv'
  <2>1. /\ \A q \in Requests : log'[q] = "approved" => log[q] = "approved"
        /\ UNCHANGED <<worker, approvals, runs, crashes>>
    BY <1>1 DEF FileRequest, TypeInv, TypeOK
  <2>2. QED
    BY <2>1, BackedKept DEF Consuming
<1>2. ASSUME NEW h \in Handlers, Request(h) \/ HandlerStep(h)
      PROVE  BackedInv'
  BY <1>2, RequestBacked, HandlerBacked
<1>3. CASE WorkerStep
  BY <1>3, WorkerBacked
<1>4. CASE Crash
  <2>1. /\ crashes' = crashes + 1 /\ worker'.at = "idle"
        /\ UNCHANGED <<log, approvals, runs>>
    BY <1>4 DEF Crash, Idle
  <2>2. QED
    BY <2>1 DEF BackedInv, TypeInv, TypeOK, At
<1>5. CASE UNCHANGED vars
  BY <1>5 DEF vars, BackedInv, At, Consuming
<1>6. QED
  BY <1>1, <1>2, <1>3, <1>4, <1>5 DEF Next

\* No approval is consumed twice (run_for_request, record_execution): every
\* further recovery of a request costs an approval of it or a crash.
THEOREM ApprovalsBackRuns == Spec => []ExecutionsBacked
<1>1. BackedInv => ExecutionsBacked
  BY DEF BackedInv, ExecutionsBacked
<1>2. QED
  BY <1>1, InitTyped, InitBacked, NextTyped, NextBacked, PTL DEF Spec

-----------------------------------------------------------------------------
\* What a step has to leave alone for a settled request.
LEMMA SettledKept ==
  ASSUME NEW r \in Requests, Settled(r), log'[r] \in Over,
         \A h \in Handlers :
           \/ hand'[h] = hand[h]
           \/ ~(/\ hand'[h].at = "append" /\ hand'[h].req = r
                /\ hand'[h].decision = "approved"),
         ~(worker'.at = "start" /\ worker'.req = r) \/ worker' = worker,
         runs'[r] = runs[r]
  PROVE  Settled(r)' /\ runs'[r] = runs[r]
BY DEF Settled, At

LEMMA SettledHandler ==
  ASSUME TypeInv, NEW r \in Requests, Settled(r),
         NEW h \in Handlers, Request(h) \/ HandlerStep(h)
  PROVE  Settled(r)' /\ runs'[r] = runs[r]
<1>a. TypeOK /\ InHand /\ log[r] \in Over
  BY DEF TypeInv, Settled
<1>b. {"rejected", "expired"} \subseteq Over /\ "pending" \notin Over
  BY DEF Over, Outcomes
<1>1. ASSUME NEW q \in Requests, ApproveRead(h, q)
      PROVE  Settled(r)' /\ runs'[r] = runs[r]
  <2>1. /\ hand' = [hand EXCEPT ![h] =
              [at |-> "append", req |-> q,
               decision |-> IF CanBeApproved(q) THEN "approved" ELSE "rejected"]]
        /\ UNCHANGED <<log, worker, runs>>
    BY <1>1 DEF ApproveRead, Decide
  <2>2. ~CanBeApproved(r)
    BY <1>a, <1>b DEF CanBeApproved
  <2>3. \A g \in Handlers :
          \/ hand'[g] = hand[g]
          \/ ~(/\ hand'[g].at = "append" /\ hand'[g].req = r
               /\ hand'[g].decision = "approved")
    BY <2>1, <2>2, <1>a DEF TypeOK
  <2>4. QED
    BY <2>1, <2>3, <1>a, SettledKept
<1>2. ASSUME NEW q \in Requests, RejectOrExpire(h, q)
      PROVE  Settled(r)' /\ runs'[r] = runs[r]
  <2>1. log'[r] \in Over /\ UNCHANGED <<hand, worker, runs>>
    BY <1>2, <1>a, <1>b DEF RejectOrExpire, Decide, TypeOK
  <2>2. QED
    BY <2>1, SettledKept
<1>3. ASSUME UNCHANGED <<log, hand, worker, runs>>
      PROVE  Settled(r)' /\ runs'[r] = runs[r]
  BY <1>3, <1>a, SettledKept
<1>4. CASE ApproveAppend(h)
  <2>1. hand[h].req = r => hand[h].decision = "rejected"
    BY <1>4, <1>a DEF ApproveAppend, Settled, TypeOK, InHand
  <2>2. log'[r] \in Over
    BY <2>1, <1>4, <1>a, <1>b DEF ApproveAppend, TypeOK
  <2>3. \A g \in Handlers : hand'[g] = hand[g] \/ hand'[g].at # "append"
    BY <1>4, <1>a DEF ApproveAppend, TypeOK, Free
  <2>4. QED
    BY <2>2, <2>3, <1>4, SettledKept DEF ApproveAppend
<1>5. CASE EnqueueRecovery(h)
  <2>1. \A g \in Handlers : hand'[g] = hand[g] \/ hand'[g].at # "append"
    BY <1>5, <1>a DEF EnqueueRecovery, TypeOK, Free
  <2>2. QED
    BY <2>1, <1>5, <1>a, SettledKept DEF EnqueueRecovery
<1>6. QED
  BY <1>1, <1>2, <1>3, <1>4, <1>5
  DEF Request, HandlerStep, EnqueueLive, RetryJob, CancelJob

LEMMA SettledWorker ==
  ASSUME TypeInv, NEW r \in Requests, Settled(r), WorkerStep
  PROVE  Settled(r)' /\ runs'[r] = runs[r]
<1>a. TypeOK /\ InHand /\ log[r] \in Over /\ ~(worker.at = "start" /\ worker.req = r)
  BY DEF TypeInv, Settled, At
<1>b. "approved" \notin Over /\ Outcomes \subseteq Over
  BY DEF Over, Outcomes
\* A step that does not come to "start".
<1>c. ASSUME worker'.at # "start", UNCHANGED <<log, hand, runs>>
      PROVE  Settled(r)' /\ runs'[r] = runs[r]
  BY <1>a, <1>c, SettledKept
<1>1. ASSUME NEW j \in Jobs, Reap(j) \/ Lease(j)
      PROVE  Settled(r)' /\ runs'[r] = runs[r]
  BY <1>1, <1>a, <1>c DEF Reap, Lease, At, Idle
<1>2. CASE DropCanceled \/ PickRequest \/ YieldToActive \/ TakeJob \/ Consume
           \/ CompleteJob
  <2>1. worker'.at # "start"
    BY <1>2, NotToStart
  <2>2. UNCHANGED <<log, hand, runs>>
    BY <1>2
    DEF DropCanceled, PickRequest, YieldToActive, TakeJob, Consume, CompleteJob
  <2>3. QED
    BY <2>1, <2>2, <1>c
<1>3. CASE Validate
  <2>1. CASE worker.req = r
    <3>1. worker'.at = "record"
      BY <2>1, <1>3, <1>a, <1>b DEF Validate, TypeOK
    <3>2. QED
      BY <3>1, <1>3, <1>c DEF Validate
  <2>2. CASE worker.req # r
    <3>1. worker'.req # r
      BY <2>2, <1>3, <1>a DEF Validate, Move, TypeOK
    <3>2. QED
      BY <3>1, <1>3, <1>a, SettledKept DEF Validate
  <2>3. QED
    BY <2>1, <2>2
<1>4. CASE GiveUp \/ FinishRun
  <2>1. worker'.at = "record"
    BY <1>4, <1>a DEF GiveUp, FinishRun, TypeOK
  <2>2. QED
    BY <2>1, <1>4, <1>c DEF GiveUp, FinishRun
<1>5. CASE StartRun
  <2>1. worker.req \in Requests \ {r}
    BY <1>5, <1>a DEF StartRun, At, InHand
  <2>2. runs'[r] = runs[r] /\ worker'.at = "running" /\ UNCHANGED <<log, hand>>
    BY <2>1, <1>5, <1>a DEF StartRun, Move, TypeOK
  <2>3. QED
    BY <2>2, <1>a, SettledKept
<1>6. CASE Record
  <2>1. worker.verdict \in Over
    BY <1>6, <1>a, <1>b DEF Record, At, InHand
  <2>2. log'[r] \in Over /\ worker'.at = "complete" /\ UNCHANGED <<hand, runs>>
    BY <2>1, <1>6, <1>a DEF Record, Move, TypeOK
  <2>3. QED
    BY <2>2, SettledKept
<1>7. QED
  BY <1>1, <1>2, <1>3, <1>4, <1>5, <1>6 DEF WorkerStep

\* A settled request stays settled and is not recovered again (approve,
\* run_for_request, _validate_approval_for_gate), whatever the handlers, the
\* worker, retries, live_apply jobs and crashes do.
THEOREM SettledStaysFinal == Spec => SettledIsFinal
<1>1. ASSUME TypeInv, [Next]_vars, NEW r \in Requests, Settled(r)
      PROVE  Settled(r)' /\ runs'[r] = runs[r]
  <2>a. log[r] \in Over /\ "none" \notin Over
    BY <1>1 DEF Settled, Over, Outcomes
  <2>1. ASSUME NEW q \in Requests, FileRequest(q)
        PROVE  Settled(r)' /\ runs'[r] = runs[r]
    <3>1. q # r
      BY <2>a, <2>1 DEF FileRequest, Filed
    <3>2. log'[r] = log[r] /\ UNCHANGED <<hand, worker, runs>>
      BY <3>1, <2>1, <1>1 DEF FileRequest, TypeInv, TypeOK
    <3>3. QED
      BY <3>2, <2>a, <1>1, SettledKept
  <2>2. ASSUME NEW h \in Handlers, Request(h) \/ HandlerStep(h)
        PROVE  Settled(r)' /\ runs'[r] = runs[r]
    BY <2>2, <1>1, SettledHandler
  <2>3. CASE WorkerStep
    BY <2>3, <1>1, SettledWorker
  <2>4. CASE Crash
    <3>1. /\ UNCHANGED <<log, runs>> /\ worker'.at = "idle"
          /\ \A h \in Handlers : hand'[h].at = "idle"
      BY <2>4 DEF Crash, Idle, Free
    <3>2. QED
      BY <3>1, <2>a, <1>1, SettledKept
  <2>5. CASE UNCHANGED vars
    BY <2>5, <2>a, <1>1, SettledKept DEF vars
  <2>6. QED
    BY <2>1, <2>2, <2>3, <2>4, <2>5, <1>1 DEF Next
<1>2. TypeInv /\ [Next]_vars
        => [\A r \in Requests : Settled(r) => Settled(r)' /\ runs'[r] = runs[r]]_vars
  BY <1>1
<1>3. QED
  BY <1>2, InitTyped, NextTyped, PTL DEF Spec, SettledIsFinal
=============================================================================
