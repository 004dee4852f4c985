-------------------------- MODULE JobStore_proofs ---------------------------
(***************************************************************************)
(* Theorems about JobStore, for every set of workers, handler threads and  *)
(* server processes, every mix of jobs and every value of the bounds.  The *)
(* two about attempts and about the abstract queue are for one worker and  *)
(* say so: with two of them the code does not keep what they state.        *)
(***************************************************************************)
EXTENDS JobStore, TLAPS

USE BoundsAssumption, KindAssumption, ActorsAssumption

-----------------------------------------------------------------------------
(***************************************************************************)
(* Records.                                                                *)
(***************************************************************************)
\* What each caller of _update makes of a record is a record again.
LEMMA RecordsMade ==
  ASSUME NEW r \in Record, NEW n \in Nat, NEW lease \in BOOLEAN,
         NEW s \in Statuses
  PROVE  /\ Marked(r, n, lease) \in Record /\ Completed(r, s) \in Record
         /\ Requeued(r) \in Record /\ CanceledQueued(r) \in Record
         /\ CancelRecorded(r) \in Record
  BY DEF Record, Marked, Completed, Requeued, CanceledQueued, CancelRecorded,
         Statuses, Terminal, Active

LEMMA QueuedIsRecord == Queued \in Record
  BY DEF Queued, Record, Statuses, Terminal, Active

LEMMA NoRecIsNone == NoRec \notin Record
<1>1. SUFFICES ASSUME NoRec \in Record PROVE FALSE
  OBVIOUS
<1>2. NoRec.status \in Statuses
  BY <1>1 DEF Record
<1>3. QED
  BY <1>2 DEF NoRec, Statuses, Terminal, Active

LEMMA StampedIsRecord ==
  ASSUME NEW r \in Record, NEW n \in Nat
  PROVE  [r EXCEPT !.at = n] \in Record
  BY DEF Record

\* A record backed by its job stays so when it is marked, requeued, completed
\* with a backed status or canceled on request.
LEMMA CausedMade ==
  ASSUME NEW j \in Jobs, NEW r \in Record, NEW n \in Nat,
         NEW lease \in BOOLEAN, NEW s \in Statuses, Caused(j, r)
  PROVE  /\ Caused(j, Marked(r, n, lease)) /\ Caused(j, Requeued(r))
         /\ Caused(j, [r EXCEPT !.at = n])
         /\ j \in asked => /\ Caused(j, CanceledQueued(r))
                           /\ Caused(j, CancelRecorded(r))
         /\ (/\ s = "succeeded" => runs[j] > 0 \/ Kind[j] = "ui"
             /\ s = "blocked" => runs[j] > 0 \/ Kind[j] \in {"ui", "other"}
             /\ s \in {"canceled", "cancel_requested"} => j \in asked)
            => Caused(j, Completed(r, s))
  BY DEF Caused, Record, Marked, Requeued, CanceledQueued, CancelRecorded,
         Completed

LEMMA QueuedIsCaused == \A j \in Jobs : Caused(j, Queued)
  BY DEF Caused, Queued
-----------------------------------------------------------------------------
(***************************************************************************)
(* Types, and that whoever holds a job holds one that exists.              *)
(***************************************************************************)
TypeInv == TypeOK /\ HeldJobsExist

LEMMA Actors2 == Workers \subseteq Actors /\ Clients \subseteq Actors
  BY DEF Actors

LEMMA InitTyped == Init => TypeInv
<1>1. SUFFICES ASSUME Init PROVE TypeOK /\ HeldJobsExist
  BY DEF TypeInv
<1>2. TypeOK
  BY <1>1 DEF Init, TypeOK, Labels, ClientLabels, WorkerLabels, NoPlan, Jobs
<1>3. HeldJobsExist
  BY <1>1 DEF Init, HeldJobsExist, Created, NoPlan, Unbound, Jobs
<1>4. QED
  BY <1>2, <1>3

\* An actor of which HeldJobsExist asks that its job exists.
HoldsJob(a) == pc[a] \notin Unbound \/ pend[a] # NoRec

LEMMA HeldRecord ==
  ASSUME TypeInv, NEW a \in Actors, HoldsJob(a)
  PROVE  /\ job[a] \in Jobs /\ Created(job[a])
         /\ newest[job[a]] \in Record /\ last[job[a]] \in Record
  BY DEF TypeInv, TypeOK, HeldJobsExist, HoldsJob, Created

LEMMA CreatedRecord ==
  ASSUME TypeInv, NEW j \in Jobs, Created(j)
  PROVE  newest[j] \in Record /\ last[j] \in Record
  BY DEF TypeInv, TypeOK, HeldJobsExist, Created

\* HeldJobsExist only depends on which jobs exist and on who holds what.
LEMMA HeldKept ==
  ASSUME HeldJobsExist, created' = created,
         \A i \in Jobs : /\ (newest'[i] # NoRec <=> newest[i] # NoRec)
                        /\ (last'[i] # NoRec <=> newest[i] # NoRec),
         \A a \in Actors : pc'[a] \notin Unbound \/ pend'[a] # NoRec =>
            \/ job'[a] \in Jobs /\ Created(job'[a])
            \/ /\ pc[a] \notin Unbound \/ pend[a] # NoRec
               /\ job'[a] = job[a],
         \A w \in Workers :
            /\ \A i \in Jobs : plan'[w][i] # "none" => Created(i)
            /\ \A d \in cands'[w] : d.job \in Jobs /\ Created(d.job)
  PROVE  HeldJobsExist'
<1>1. (\A i \in Jobs : /\ (Created(i) <=> i <= created)
                       /\ (Created(i) <=> last[i] # NoRec))'
  BY DEF HeldJobsExist, Created
<1>2. (\A a \in Actors : pc[a] \notin Unbound \/ pend[a] # NoRec =>
         job[a] \in Jobs /\ Created(job[a]))'
  BY DEF HeldJobsExist, Created
<1>3. (\A w \in Workers : /\ \A i \in Jobs : plan[w][i] # "none" => Created(i)
                          /\ \A d \in cands[w] : Created(d.job))'
  BY DEF HeldJobsExist, Created
<1>4. QED
  BY <1>1, <1>2, <1>3 DEF HeldJobsExist

\* The read half of an update, with the rest of the state left alone.
LEMMA BeginTyped ==
  ASSUME TypeInv, NEW a \in Actors, NEW j \in Jobs, NEW r \in Record,
         NEW l \in Labels, Created(j), Begin(a, j, r, l),
         UNCHANGED <<store, ghosts, budget>>, attempt' = attempt,
         plan' \in [Workers -> [Jobs -> {"none", "requeue", "time_out"}]],
         \A w \in Workers : \A i \in Jobs : plan'[w][i] # "none" => plan[w][i] # "none",
         cands' \in [Workers -> SUBSET Candidate],
         \A w \in Workers : cands'[w] \subseteq cands[w],
         verdict' \in [Workers -> Terminal \cup {"none"}]
  PROVE  TypeInv'
<1>a. /\ newest' = newest /\ last' = last /\ clock' = clock /\ created' = created
      /\ runs' = runs /\ asked' = asked /\ budget' = budget
  BY DEF store, ghosts
<1>b. /\ pend' = [pend EXCEPT ![a] = r] /\ pc' = [pc EXCEPT ![a] = l]
      /\ job' = [job EXCEPT ![a] = j] /\ stamped' = stamped
  BY DEF Begin
<1>c. /\ TypeOK /\ HeldJobsExist /\ j \in 0..MaxJobs
  BY DEF TypeInv, Jobs
<1>1. TypeOK'
  BY <1>a, <1>b, <1>c DEF TypeOK
<1>2. HeldJobsExist'
  <2>1. (\A i \in Jobs : /\ (Created(i) <=> i <= created)
                         /\ (Created(i) <=> last[i] # NoRec))'
    BY <1>a, <1>c DEF HeldJobsExist, Created
  <2>2. (\A b \in Actors : pc[b] \notin Unbound \/ pend[b] # NoRec =>
           job[b] \in Jobs /\ Created(job[b]))'
    BY <1>a, <1>b, <1>c DEF HeldJobsExist, Created, TypeOK
  <2>3. (\A w \in Workers : /\ \A i \in Jobs : plan[w][i] # "none" => Created(i)
                            /\ \A d \in cands[w] : Created(d.job))'
    BY <1>a, <1>c DEF HeldJobsExist, Created
  <2>4. QED
    BY <2>1, <2>2, <2>3 DEF HeldJobsExist
<1>3. QED
  BY <1>1, <1>2 DEF TypeInv

\* A step of one actor that does not touch the file or a record in flight.
LEMMA MoveTyped ==
  ASSUME TypeInv, NEW a \in Actors, NEW l \in Labels, pend[a] = NoRec,
         UNCHANGED <<store, pend, stamped>>, Goto(a, l),
         job' \in [Actors -> 0..MaxJobs],
         \A b \in Actors \ {a} : job'[b] = job[b],
         l \notin Unbound => job'[a] \in Jobs /\ Created(job'[a]),
         attempt' \in [Actors -> Nat],
         plan' \in [Workers -> [Jobs -> {"none", "requeue", "time_out"}]],
         \A w \in Workers : \A i \in Jobs : plan'[w][i] # "none" => Created(i),
         cands' \in [Workers -> SUBSET Candidate],
         \A w \in Workers : \A d \in cands'[w] : Created(d.job),
         verdict' \in [Workers -> Terminal \cup {"none"}],
         runs' \in [Jobs -> Nat], asked' \subseteq Jobs,
         budget' \in [cancels: Nat, retries: Nat, crashes: Nat]
  PROVE  TypeInv'
<1>a. /\ newest' = newest /\ last' = last /\ clock' = clock /\ created' = created
      /\ pend' = pend /\ stamped' = stamped /\ pc' = [pc EXCEPT ![a] = l]
  BY DEF store, Goto
<1>b. TypeOK /\ HeldJobsExist
  BY DEF TypeInv
<1>1. TypeOK'
  BY <1>a, <1>b DEF TypeOK
<1>2. HeldJobsExist'
  BY <1>a, <1>b DEF TypeOK, HeldJobsExist, Created
<1>3. QED
  BY <1>1, <1>2 DEF TypeInv

LEMMA WriteTyped ==
  ASSUME TypeInv, NEW a \in Actors, Write(a)
  PROVE  TypeInv'
<1>a. TypeOK /\ HeldJobsExist
  BY DEF TypeInv
<1>b. pend[a] # NoRec /\ job[a] \in Jobs /\ Created(job[a]) /\ pend[a] \in Record
  BY <1>a DEF Write, Stamp, AppendUpdate, HeldJobsExist, TypeOK
<1>1. CASE Stamp(a)
  <2>1. /\ clock[job[a]] + 1 \in Nat
        /\ [pend[a] EXCEPT !.at = clock[job[a]] + 1] \in Record
    BY <1>a, <1>b, StampedIsRecord DEF TypeOK
  <2>2. /\ pend' = [pend EXCEPT ![a] = [pend[a] EXCEPT !.at = clock[job[a]] + 1]]
        /\ clock' = [clock EXCEPT ![job[a]] = @ + 1]
        /\ stamped' = [stamped EXCEPT ![a] = TRUE]
        /\ UNCHANGED <<newest, last, created, pc, job, attempt, verdict, plan, cands, runs, asked, budget>>
    BY <1>1 DEF Stamp, scanner, ghosts
  <2>3. TypeOK'
    BY <2>1, <2>2, <1>a, <1>b DEF TypeOK
  <2>4. HeldJobsExist'
    BY <2>2, <1>a, <1>b DEF TypeOK, HeldJobsExist, Created
  <2>5. QED
    BY <2>3, <2>4 DEF TypeInv
<1>2. CASE AppendUpdate(a)
  <2>1. /\ pend' = [pend EXCEPT ![a] = NoRec]
        /\ stamped' = [stamped EXCEPT ![a] = FALSE]
        /\ last' = [last EXCEPT ![job[a]] = pend[a]]
        /\ \/ newest' = [newest EXCEPT ![job[a]] = pend[a]]
           \/ newest' = newest
        /\ UNCHANGED <<clock, created, pc, job, attempt, verdict, plan, cands, runs, asked, budget>>
    BY <1>2, <1>a DEF AppendUpdate, Line, scanner, ghosts, TypeOK
  <2>2. TypeOK'
    BY <2>1, <1>a, <1>b DEF TypeOK
  <2>3. HeldJobsExist'
    <3>1. \A i \in Jobs : /\ (newest'[i] # NoRec <=> newest[i] # NoRec)
                          /\ (last'[i] # NoRec <=> newest[i] # NoRec)
      BY <2>1, <1>a, <1>b DEF TypeOK, HeldJobsExist, Created
    <3>2. \A b \in Actors : pend'[b] # NoRec => pend[b] # NoRec
      BY <2>1, <1>a DEF TypeOK
    <3>3. QED
      <4>1. \A b \in Actors : pc'[b] \notin Unbound \/ pend'[b] # NoRec =>
              (pc[b] \notin Unbound \/ pend[b] # NoRec) /\ job'[b] = job[b]
        BY <3>2, <2>1
      <4>2. \A w \in Workers :
              /\ \A i \in Jobs : plan'[w][i] # "none" => Created(i)
              /\ \A d \in cands'[w] : d.job \in Jobs /\ Created(d.job)
        BY <2>1, <1>a DEF HeldJobsExist, TypeOK, Candidate
      <4>3. QED
        BY <3>1, <4>1, <4>2, <2>1, <1>a, HeldKept
  <2>4. QED
    BY <2>2, <2>3 DEF TypeInv
<1>3. QED
  BY <1>1, <1>2 DEF Write

\* The shapes of a client's and a worker's step.
LEMMA ClientBegin ==
  ASSUME TypeInv, NEW c \in Clients, NEW r \in Record, NEW l \in Labels,
         HoldsJob(c), Begin(c, job[c], r, l),
         UNCHANGED <<store, attempt, scanner, ghosts, budget>>
  PROVE  TypeInv'
<1>1. job[c] \in Jobs /\ Created(job[c]) /\ c \in Actors
  BY HeldRecord, Actors2
<1>2. /\ plan' = plan /\ cands' = cands /\ verdict' = verdict
  BY DEF scanner
<1>3. TypeOK /\ HeldJobsExist
  BY DEF TypeInv
<1>4. /\ plan' \in [Workers -> [Jobs -> {"none", "requeue", "time_out"}]]
      /\ cands' \in [Workers -> SUBSET Candidate]
      /\ verdict' \in [Workers -> Terminal \cup {"none"}]
  BY <1>2, <1>3 DEF TypeOK
<1>5. QED
  BY <1>1, <1>2, <1>4, BeginTyped

LEMMA ClientTyped ==
  ASSUME TypeInv, NEW c \in Clients, ClientStep(c)
  PROVE  TypeInv'
<1>a. TypeOK /\ HeldJobsExist /\ c \in Actors
  BY Actors2 DEF TypeInv
<1>b. HoldsJob(c) /\ pend[c] = NoRec
  BY DEF HoldsJob, Unbound, ClientStep, RefuseUnsupported, UiGet, UiMark,
         UiComplete, UiAbandon, CancelUpdate, RetryAppend, At
<1>c. job[c] \in Jobs /\ Created(job[c]) /\ newest[job[c]] \in Record
  BY <1>a, <1>b, HeldRecord
<1>d. /\ attempt[c] \in Nat /\ "blocked" \in Statuses
      /\ {"idle", "uiMark", "uiAct"} \subseteq Labels
  BY <1>a DEF TypeOK, Statuses, Terminal, Labels, ClientLabels
<1>1. CASE RefuseUnsupported(c)
  BY <1>1, <1>b, <1>c, <1>d, RecordsMade, ClientBegin DEF RefuseUnsupported
<1>2. CASE UiGet(c)
  <2>1. newest[job[c]].attempt \in Nat
    BY <1>c DEF Record
  <2>2. attempt' \in [Actors -> Nat]
    BY <2>1, <1>2, <1>a DEF UiGet, TypeOK
  <2>3. QED
    BY <2>2, <1>2, <1>a, <1>b, <1>c, <1>d, MoveTyped DEF UiGet, TypeOK,
       HeldJobsExist, scanner, ghosts, Candidate
<1>3. CASE UiMark(c)
  BY <1>3, <1>b, <1>c, <1>d, RecordsMade, ClientBegin DEF UiMark
<1>4. CASE UiComplete(c)
  <2>1. PICK s \in {"succeeded", "failed"} :
          Begin(c, job[c], Completed(newest[job[c]], s), "idle")
    BY <1>4 DEF UiComplete
  <2>2. Completed(newest[job[c]], s) \in Record
    BY <1>c, RecordsMade DEF Statuses, Terminal
  <2>3. QED
    BY <2>1, <2>2, <1>4, <1>b, <1>d, ClientBegin DEF UiComplete
<1>5. CASE CancelUpdate(c)
  BY <1>5, <1>b, <1>c, <1>d, RecordsMade, ClientBegin DEF CancelUpdate
<1>6. CASE RetryAppend(c)
  <2>1. /\ pc' = [pc EXCEPT ![c] = "idle"]
        /\ last' = [last EXCEPT ![job[c]] = Queued]
        /\ \/ newest' = [newest EXCEPT ![job[c]] = Queued]
           \/ newest' = newest
        /\ UNCHANGED <<clock, created, job, pend, stamped, attempt, verdict,
                       plan, cands, runs, asked, budget>>
    BY <1>6, <1>a DEF RetryAppend, Line, scanner, ghosts, TypeOK, Goto
  <2>2. TypeOK'
    BY <2>1, <1>a, <1>c, <1>d, QueuedIsRecord DEF TypeOK
  <2>3. \A i \in Jobs : /\ (newest'[i] # NoRec <=> newest[i] # NoRec)
                        /\ (last'[i] # NoRec <=> newest[i] # NoRec)
    BY <2>1, <1>a, <1>c, QueuedIsRecord, NoRecIsNone DEF TypeOK, HeldJobsExist,
       Created
  <2>4. \A b \in Actors : pc'[b] \notin Unbound \/ pend'[b] # NoRec =>
          (pc[b] \notin Unbound \/ pend[b] # NoRec) /\ job'[b] = job[b]
    BY <2>1, <1>a DEF TypeOK, Unbound
  <2>5. \A w \in Workers :
          /\ \A i \in Jobs : plan'[w][i] # "none" => Created(i)
          /\ \A d \in cands'[w] : d.job \in Jobs /\ Created(d.job)
    BY <2>1, <1>a DEF HeldJobsExist, TypeOK, Candidate
  <2>6. HeldJobsExist'
    BY <2>1, <2>3, <2>4, <2>5, <1>a, HeldKept
  <2>7. QED
    BY <2>2, <2>6 DEF TypeInv
<1>7. CASE UiAbandon(c)
  BY <1>7, <1>a, <1>b, <1>c, <1>d, MoveTyped DEF UiAbandon, TypeOK,
     HeldJobsExist, scanner, ghosts, Candidate, Unbound
<1>8. QED
  BY <1>1, <1>2, <1>3, <1>4, <1>5, <1>6, <1>7 DEF ClientStep

\* Using up a bound.
LEMMA BudgetTyped ==
  ASSUME TypeOK
  PROVE  /\ budget.cancels > 0 => [budget EXCEPT !.cancels = budget.cancels - 1]
                                   \in [cancels: Nat, retries: Nat, crashes: Nat]
         /\ budget.retries > 0 => [budget EXCEPT !.retries = budget.retries - 1]
                                   \in [cancels: Nat, retries: Nat, crashes: Nat]
         /\ budget.crashes > 0 => [budget EXCEPT !.crashes = budget.crashes - 1]
                                   \in [cancels: Nat, retries: Nat, crashes: Nat]
<1>1. budget \in [cancels: Nat, retries: Nat, crashes: Nat]
  BY DEF TypeOK
<1>2. \A n \in Nat : n > 0 => n - 1 \in Nat
  OBVIOUS
<1>3. budget.cancels \in Nat /\ budget.retries \in Nat /\ budget.crashes \in Nat
  BY <1>1
<1>4. QED
  BY <1>1, <1>2, <1>3

LEMMA CreateTyped ==
  ASSUME TypeInv, NEW c \in Clients, NEW l \in Labels, CreateJob(c, l),
         pend[c] = NoRec, budget' \in [cancels: Nat, retries: Nat, crashes: Nat]
  PROVE  TypeInv'
<1>a. TypeOK /\ HeldJobsExist /\ c \in Actors /\ created + 1 \in Jobs
  <2>1. TypeOK /\ HeldJobsExist
    BY DEF TypeInv
  <2>2. c \in Actors
    BY Actors2
  <2>3. created \in 0..MaxJobs /\ created < MaxJobs
    BY <2>1 DEF TypeOK, CreateJob
  <2>4. created + 1 \in Jobs
    BY <2>3, BoundsAssumption DEF Jobs
  <2>5. QED
    BY <2>1, <2>2, <2>4
<1>b. newest[created + 1] = NoRec
  BY <1>a DEF HeldJobsExist, Created, TypeOK
<1>1. /\ pc' = [pc EXCEPT ![c] = l]
      /\ job' = [job EXCEPT ![c] = created + 1]
      /\ newest' = [newest EXCEPT ![created + 1] = Queued]
      /\ last' = [last EXCEPT ![created + 1] = Queued]
      /\ clock' = [clock EXCEPT ![created + 1] = 1]
      /\ created' = created + 1
      /\ UNCHANGED <<pend, stamped, attempt, verdict, plan, cands, runs, asked>>
  BY <1>a, <1>b DEF CreateJob, Line, Goto, scanner, ghosts, TypeOK
<1>2. TypeOK'
  <2>1. created' \in 0..MaxJobs /\ created + 1 \in 0..MaxJobs
    BY <1>1, <1>a DEF Jobs
  <2>2. /\ newest' \in [Jobs -> Record \cup {NoRec}]
        /\ last' \in [Jobs -> Record \cup {NoRec}]
        /\ clock' \in [Jobs -> Nat]
    BY <1>1, <1>a, QueuedIsRecord DEF TypeOK
  <2>3. /\ pc' \in [Actors -> Labels] /\ job' \in [Actors -> 0..MaxJobs]
    BY <2>1, <1>1, <1>a DEF TypeOK
  <2>4. QED
    BY <2>1, <2>2, <2>3, <1>1, <1>a DEF TypeOK
<1>3. HeldJobsExist'
  <2>1. \A i \in Jobs : /\ (Created(i)' <=> Created(i) \/ i = created + 1)
                        /\ (last'[i] # NoRec <=> last[i] # NoRec \/ i = created + 1)
    BY <1>1, <1>a, QueuedIsRecord, NoRecIsNone DEF TypeOK, Created
  <2>2. \A i \in Jobs : Created(i)' <=> i <= created'
    BY <2>1, <1>1, <1>a DEF HeldJobsExist, TypeOK, Jobs
  <2>3. \A b \in Actors : pc'[b] \notin Unbound \/ pend'[b] # NoRec =>
          job'[b] \in Jobs /\ Created(job[b])'
    <3>1. SUFFICES ASSUME NEW b \in Actors, pc'[b] \notin Unbound \/ pend'[b] # NoRec
                   PROVE  job'[b] \in Jobs /\ Created(job[b])'
      OBVIOUS
    <3>2. CASE b = c
      <4>1. job'[b] = created + 1
        BY <3>2, <1>1, <1>a DEF TypeOK
      <4>2. newest'[created + 1] # NoRec
        BY <1>1, <1>a, QueuedIsRecord, NoRecIsNone DEF TypeOK
      <4>3. QED
        BY <4>1, <4>2, <1>a DEF Created
    <3>3. CASE b # c
      <4>1. /\ job'[b] = job[b] /\ pc'[b] = pc[b] /\ pend'[b] = pend[b]
        BY <3>3, <1>1, <1>a DEF TypeOK
      <4>2. job[b] \in Jobs /\ newest[job[b]] # NoRec
        BY <4>1, <3>1, <1>a DEF HeldJobsExist, Created
      <4>3. newest'[job[b]] # NoRec
        BY <4>2, <2>1 DEF Created
      <4>4. QED
        BY <4>1, <4>2, <4>3 DEF Created
    <3>4. QED
      BY <3>2, <3>3
  <2>4. \A w \in Workers : /\ \A i \in Jobs : plan'[w][i] # "none" => Created(i)'
                          /\ \A d \in cands'[w] : Created(d.job)'
    BY <2>1, <1>1, <1>a DEF HeldJobsExist, TypeOK, Candidate
  <2>5. QED
    BY <2>1, <2>2, <2>3, <2>4, <1>a DEF HeldJobsExist
<1>4. QED
  BY <1>2, <1>3 DEF TypeInv

LEMMA RequestTyped ==
  ASSUME TypeInv, NEW c \in Clients, Request(c)
  PROVE  TypeInv'
<1>a. TypeOK /\ HeldJobsExist /\ c \in Actors
  BY Actors2 DEF TypeInv
<1>b. {"idle", "refuse", "uiGet", "cancelQueued", "cancelRunning",
       "retryAppend"} \subseteq Labels
  BY DEF Labels, ClientLabels
<1>1. CASE Enqueue(c)
  <2>1. AfterCreate(Kind[created + 1]) \in Labels
    BY <1>b DEF AfterCreate
  <2>2. QED
    BY <2>1, <1>1, <1>a, CreateTyped DEF Enqueue, At, TypeOK
<1>2. CASE Retry(c)
  <2>1. budget' \in [cancels: Nat, retries: Nat, crashes: Nat]
    BY <1>2, <1>a, BudgetTyped DEF Retry
  <2>2. QED
    BY <2>1, <1>2, <1>b, CreateTyped DEF Retry, At
<1>3. CASE CancelGet(c)
  <2>1. PICK j \in Jobs :
          /\ Created(j) /\ asked' = asked \cup {j}
          /\ job' = [job EXCEPT ![c] = j]
          /\ \E l \in {"cancelQueued", "cancelRunning", "idle"} : Goto(c, l)
    <3>1. PICK j \in Jobs :
          /\ Created(j) /\ asked' = asked \cup {j}
          /\ job' = [job EXCEPT ![c] = j]
          /\ Goto(c, CASE newest[j].status = "queued" -> "cancelQueued"
                       [] newest[j].status \in Terminal -> "idle"
                       [] OTHER -> "cancelRunning")
      BY <1>3 DEF CancelGet
    <3>2. (CASE newest[j].status = "queued" -> "cancelQueued"
             [] newest[j].status \in Terminal -> "idle"
             [] OTHER -> "cancelRunning") \in {"cancelQueued", "cancelRunning", "idle"}
      BY DEF Terminal
    <3>3. QED
      BY <3>1, <3>2
  <2>2. PICK l \in {"cancelQueued", "cancelRunning", "idle"} : Goto(c, l)
    BY <2>1
  <2>3. /\ UNCHANGED <<store, pend, stamped, attempt, plan, cands, verdict, runs>>
        /\ pend[c] = NoRec /\ l \in Labels
    BY <1>3, <1>b DEF CancelGet, At, scanner
  <2>4. budget' \in [cancels: Nat, retries: Nat, crashes: Nat]
    BY <1>3, <1>a, BudgetTyped DEF CancelGet
  <2>5. /\ job' \in [Actors -> 0..MaxJobs] /\ job'[c] = j
        /\ \A b \in Actors \ {c} : job'[b] = job[b]
    BY <2>1, <1>a DEF TypeOK, Jobs
  <2>6. /\ \A w \in Workers : \A i \in Jobs : plan'[w][i] # "none" => Created(i)
        /\ \A w \in Workers : \A d \in cands'[w] : Created(d.job)
    BY <2>3, <1>a DEF HeldJobsExist
  <2>7. /\ attempt' \in [Actors -> Nat]
        /\ plan' \in [Workers -> [Jobs -> {"none", "requeue", "time_out"}]]
        /\ cands' \in [Workers -> SUBSET Candidate]
        /\ verdict' \in [Workers -> Terminal \cup {"none"}]
        /\ runs' \in [Jobs -> Nat] /\ asked' \subseteq Jobs
    BY <2>1, <2>3, <1>a DEF TypeOK
  <2>8. QED
    BY <2>1, <2>2, <2>3, <2>4, <2>5, <2>6, <2>7, <1>a, MoveTyped
<1>4. QED
  BY <1>1, <1>2, <1>3 DEF Request

LEMMA WorkerTyped ==
  ASSUME TypeInv, NEW w \in Workers, WorkerStep(w)
  PROVE  TypeInv'
<1>a. TypeOK /\ HeldJobsExist /\ w \in Actors
  BY Actors2 DEF TypeInv
<1>b. /\ {"idle", "reap", "lease", "mark", "leased", "execute", "gotRunning",
          "gotOther", "remarkGet", "remark", "start", "recoverGet", "recoverMark",
          "recovered", "running", "after"} \subseteq Labels
      /\ Terminal \subseteq Statuses
      /\ Unbound = {"idle", "reap", "lease"}
      /\ {"succeeded", "failed", "blocked", "canceled", "timed_out"} \subseteq Terminal
  BY DEF Labels, WorkerLabels, Statuses, Terminal, Unbound
<1>c. pend[w] = NoRec
  BY DEF WorkerStep, ReapScan, ReapJob, LeaseScan, NothingToLease, RefuseLease,
         LeasePick, LeaseMark, CheckCanceled, CheckLeased, CheckUnsupported,
         ExecuteGet, CheckPassed, RemarkGet, Remark, StartRun, FinishRun,
         LeaveRunning, RecoverGet, AfterRun, At
<1>d. ASSUME pc[w] \notin Unbound
      PROVE  /\ job[w] \in Jobs /\ Created(job[w]) /\ newest[job[w]] \in Record
             /\ newest[job[w]].attempt \in Nat
  BY <1>d, <1>a, HeldRecord DEF HoldsJob, Record
<1>e. /\ job \in [Actors -> 0..MaxJobs] /\ attempt \in [Actors -> Nat]
      /\ plan \in [Workers -> [Jobs -> {"none", "requeue", "time_out"}]]
      /\ \A v \in Workers : \A i \in Jobs : plan[v][i] # "none" => Created(i)
      /\ cands \in [Workers -> SUBSET Candidate]
      /\ \A v \in Workers : \A d \in cands[v] : Created(d.job)
      /\ verdict \in [Workers -> Terminal \cup {"none"}]
      /\ runs \in [Jobs -> Nat] /\ asked \subseteq Jobs
      /\ budget \in [cancels: Nat, retries: Nat, crashes: Nat]
      /\ attempt[w] \in Nat
  BY <1>a DEF TypeOK, HeldJobsExist
\* A step after the lease that only moves the worker on.
<1>f. ASSUME NEW l \in Labels, pc[w] \notin Unbound, Goto(w, l),
             UNCHANGED <<store, job, pend, stamped, attempt, scanner, ghosts, budget>>
      PROVE  TypeInv'
  BY <1>a, <1>c, <1>d, <1>e, <1>f, MoveTyped DEF scanner, ghosts
\* Completing the job it runs.
<1>g. ASSUME NEW s \in Terminal, pc[w] \notin Unbound, Complete(w, s)
      PROVE  TypeInv'
  <2>1. Completed(newest[job[w]], s) \in Record
    BY <1>b, <1>d, <1>g, RecordsMade
  <2>2. verdict' \in [Workers -> Terminal \cup {"none"}]
    BY <1>g, <1>e DEF Complete
  <2>3. QED
    BY <2>1, <2>2, <1>a, <1>b, <1>d, <1>e, <1>g, BeginTyped DEF Complete
\* Marking the job it runs.
<1>h. ASSUME NEW lease \in BOOLEAN, NEW l \in Labels, pc[w] \notin Unbound,
             Begin(w, job[w], Marked(newest[job[w]], attempt[w], lease), l),
             UNCHANGED <<store, attempt, scanner, ghosts, budget>>
      PROVE  TypeInv'
  <2>1. Marked(newest[job[w]], attempt[w], lease) \in Record
    BY <1>b, <1>d, <1>e, <1>h, RecordsMade
  <2>2. QED
    BY <2>1, <1>a, <1>d, <1>e, <1>h, BeginTyped DEF scanner
<1>1. CASE ReapScan(w)
  <2>1. PICK late \in SUBSET Reapable, expired \in SUBSET Reapable :
          plan' = [plan EXCEPT ![w] = [j \in Jobs |->
                     ReapDecision(last[j], j \in late, j \in expired)]]
    BY <1>1 DEF ReapScan
  <2>2. \A j \in Jobs : LET d == ReapDecision(last[j], j \in late, j \in expired)
                       IN  /\ d \in {"none", "requeue", "time_out"}
                           /\ d # "none" => Created(j)
    BY <1>a DEF ReapDecision, InProgress, HeldJobsExist
  <2>3. plan' \in [Workers -> [Jobs -> {"none", "requeue", "time_out"}]]
    BY <2>1, <2>2, <1>e
  <2>4. \A v \in Workers : \A i \in Jobs : plan'[v][i] # "none" => Created(i)
    BY <2>1, <2>2, <1>e
  <2>5. QED
    BY <2>3, <2>4, <1>1, <1>a, <1>b, <1>c, <1>e, MoveTyped DEF ReapScan, ghosts
<1>2. CASE ReapJob(w)
  <2>1. PICK j \in Jobs :
          /\ plan[w][j] # "none" /\ plan' = [plan EXCEPT ![w][j] = "none"]
          /\ Begin(w, j, IF plan[w][j] = "requeue"
                         THEN Requeued(newest[j])
                         ELSE Completed(newest[j], "timed_out"), "reap")
    BY <1>2 DEF ReapJob
  <2>2. Created(j) /\ newest[j] \in Record
    BY <2>1, <1>e, CreatedRecord
  <2>3. (IF plan[w][j] = "requeue" THEN Requeued(newest[j])
         ELSE Completed(newest[j], "timed_out")) \in Record
    BY <2>2, <1>b, RecordsMade
  <2>4. /\ plan' \in [Workers -> [Jobs -> {"none", "requeue", "time_out"}]]
        /\ \A v \in Workers : \A i \in Jobs : plan'[v][i] # "none" => plan[v][i] # "none"
    BY <2>1, <1>e
  <2>5. QED
    BY <2>1, <2>2, <2>3, <2>4, <1>2, <1>a, <1>b, <1>e, BeginTyped DEF ReapJob
<1>3. CASE LeaseScan(w)
  <2>1. \A j \in Jobs : last[j] # NoRec => /\ last[j].attempt \in Nat
                                          /\ Created(j)
    BY <1>a DEF HeldJobsExist, TypeOK, Record
  <2>2. cands' \in [Workers -> SUBSET Candidate]
    BY <2>1, <1>3, <1>e DEF LeaseScan, Candidate
  <2>3. \A v \in Workers : \A d \in cands'[v] : Created(d.job)
    BY <2>1, <1>3, <1>e DEF LeaseScan
  <2>4. QED
    BY <2>2, <2>3, <1>3, <1>a, <1>b, <1>c, <1>e, MoveTyped DEF LeaseScan, ghosts
<1>4. CASE NothingToLease(w)
  BY <1>4, <1>a, <1>b, <1>c, <1>e, MoveTyped DEF NothingToLease, scanner, ghosts
<1>5. CASE RefuseLease(w)
  <2>1. PICK d \in cands[w] :
          /\ cands' = [cands EXCEPT ![w] = @ \ {d}]
          /\ Begin(w, d.job, Completed(newest[d.job], "failed"), "lease")
    BY <1>5 DEF RefuseLease
  <2>2. d.job \in Jobs /\ Created(d.job) /\ newest[d.job] \in Record
    BY <2>1, <1>e, CreatedRecord DEF Candidate
  <2>3. Completed(newest[d.job], "failed") \in Record
    BY <2>2, <1>b, RecordsMade
  <2>4. /\ cands' \in [Workers -> SUBSET Candidate]
        /\ \A v \in Workers : cands'[v] \subseteq cands[v]
    BY <2>1, <1>e
  <2>5. QED
    BY <2>1, <2>2, <2>3, <2>4, <1>5, <1>a, <1>b, <1>e, BeginTyped DEF RefuseLease
<1>6. CASE LeasePick(w)
  <2>1. PICK d \in cands[w] :
          /\ cands' = [cands EXCEPT ![w] = {}]
          /\ attempt' = [attempt EXCEPT ![w] = newest[d.job].attempt + 1]
          /\ job' = [job EXCEPT ![w] = d.job]
    BY <1>6 DEF LeasePick
  <2>2. d.job \in Jobs /\ Created(d.job) /\ newest[d.job] \in Record
    BY <2>1, <1>e, CreatedRecord DEF Candidate
  <2>3. newest[d.job].attempt + 1 \in Nat /\ d.job \in 0..MaxJobs
    BY <2>2 DEF Record, Jobs
  <2>4. /\ attempt' \in [Actors -> Nat] /\ job' \in [Actors -> 0..MaxJobs]
        /\ job'[w] = d.job /\ \A b \in Actors \ {w} : job'[b] = job[b]
    BY <2>1, <2>3, <1>a, <1>e
  <2>5. /\ cands' \in [Workers -> SUBSET Candidate]
        /\ \A v \in Workers : \A e \in cands'[v] : Created(e.job)
    BY <2>1, <1>e
  <2>6. QED
    BY <2>2, <2>4, <2>5, <1>6, <1>a, <1>b, <1>c, <1>e, MoveTyped
    DEF LeasePick, ghosts
<1>7. CASE LeaseMark(w)
  BY <1>7, <1>b, <1>h DEF LeaseMark, At
<1>8. CASE CheckCanceled(w)
  BY <1>8, <1>b, <1>g DEF CheckCanceled
<1>9. CASE CheckLeased(w)
  BY <1>9, <1>b, <1>f DEF CheckLeased, At
<1>10. CASE CheckUnsupported(w)
  BY <1>10, <1>b, <1>g DEF CheckUnsupported, At
<1>11. CASE ExecuteGet(w)
  BY <1>11, <1>b, <1>f DEF ExecuteGet, At
<1>12. CASE CheckPassed(w)
  BY <1>12, <1>b, <1>f DEF CheckPassed, At
<1>13. CASE RemarkGet(w)
  <2>1. pc[w] \notin Unbound
    BY <1>13, <1>b DEF RemarkGet, At
  <2>2. attempt' \in [Actors -> Nat]
    <3>1. newest[job[w]].attempt + (IF pc[w] = "remarkGet" /\ Kind[job[w]] = "op" THEN 1 ELSE 0)
            \in Nat
      BY <2>1, <1>d
    <3>2. QED
      BY <3>1, <1>13, <1>e DEF RemarkGet
  <2>3. QED
    BY <2>1, <2>2, <1>13, <1>a, <1>b, <1>c, <1>d, <1>e, MoveTyped
    DEF RemarkGet, scanner, ghosts
<1>14. CASE Remark(w)
  <2>1. pc[w] \notin Unbound
    BY <1>14, <1>b DEF Remark
  <2>2. CASE pc[w] = "remark"
    BY <2>1, <2>2, <1>14, <1>b, <1>h DEF Remark
  <2>3. CASE pc[w] = "recoverMark"
    BY <2>1, <2>3, <1>14, <1>b, <1>h DEF Remark
  <2>4. QED
    BY <2>2, <2>3, <1>14 DEF Remark
<1>15. CASE StartRun(w)
  <2>1. pc[w] \notin Unbound
    BY <1>15, <1>b DEF StartRun, At
  <2>2. runs' \in [Jobs -> Nat]
    BY <2>1, <1>15, <1>d, <1>e DEF StartRun
  <2>3. QED
    BY <2>1, <2>2, <1>15, <1>a, <1>b, <1>c, <1>d, <1>e, MoveTyped
    DEF StartRun, scanner
<1>16. CASE FinishRun(w)
  BY <1>16, <1>b, <1>g DEF FinishRun, Outcomes, At
<1>17. CASE LeaveRunning(w)
  BY <1>17, <1>b, <1>f DEF LeaveRunning, At
<1>18. CASE AfterRun(w)
  <2>1. pc[w] \notin Unbound
    BY <1>18, <1>b DEF AfterRun, At
  <2>2. CASE Complete(w, "canceled")
    BY <2>1, <2>2, <1>b, <1>g
  <2>3. CASE ~Complete(w, "canceled")
    <3>1. verdict' \in [Workers -> Terminal \cup {"none"}]
      BY <2>3, <1>18, <1>e DEF AfterRun
    <3>2. QED
      BY <2>1, <2>3, <3>1, <1>18, <1>a, <1>b, <1>c, <1>d, <1>e, MoveTyped
      DEF AfterRun, ghosts
  <2>4. QED
    BY <2>2, <2>3
<1>19. CASE RecoverGet(w)
  BY <1>19, <1>b, <1>f DEF RecoverGet, At
<1>20. QED
  BY <1>1, <1>2, <1>3, <1>4, <1>5, <1>6, <1>7, <1>8, <1>9, <1>10, <1>11, <1>12,
     <1>13, <1>14, <1>15, <1>16, <1>17, <1>18, <1>19 DEF WorkerStep

LEMMA CrashTyped ==
  ASSUME TypeInv, NEW s \in Servers, Crash(s)
  PROVE  TypeInv'
<1>a. TypeOK /\ HeldJobsExist /\ "idle" \in Labels /\ "idle" \in Unbound
  BY DEF TypeInv, Labels, ClientLabels, Unbound
<1>1. NoPlan \in [Jobs -> {"none", "requeue", "time_out"}]
  BY DEF NoPlan
<1>2. TypeOK'
  <2>1. /\ pc' \in [Actors -> Labels] /\ pend' \in [Actors -> Record \cup {NoRec}]
        /\ stamped' \in [Actors -> BOOLEAN]
    BY <1>a DEF Crash, TypeOK
  <2>2. /\ verdict' \in [Workers -> Terminal \cup {"none"}]
        /\ plan' \in [Workers -> [Jobs -> {"none", "requeue", "time_out"}]]
        /\ cands' \in [Workers -> SUBSET Candidate]
    BY <1>1, <1>a DEF Crash, TypeOK
  <2>3. budget' \in [cancels: Nat, retries: Nat, crashes: Nat]
    BY <1>a, BudgetTyped DEF Crash
  <2>4. QED
    <3>1. UNCHANGED <<newest, last, clock, created, job, attempt, runs, asked>>
      BY DEF Crash, store, ghosts
    <3>2. QED
      BY <2>1, <2>2, <2>3, <3>1, <1>a DEF TypeOK
<1>3. HeldJobsExist'
  <2>1. \A b \in Actors : pc'[b] \notin Unbound \/ pend'[b] # NoRec =>
          (pc[b] \notin Unbound \/ pend[b] # NoRec) /\ job'[b] = job[b]
    BY <1>a DEF Crash
  <2>2. \A w \in Workers :
          /\ \A i \in Jobs : plan'[w][i] # "none" => Created(i)
          /\ \A d \in cands'[w] : d.job \in Jobs /\ Created(d.job)
    BY <1>a DEF Crash, HeldJobsExist, TypeOK, Candidate, NoPlan
  <2>3. /\ created' = created
        /\ \A i \in Jobs : /\ (newest'[i] # NoRec <=> newest[i] # NoRec)
                           /\ (last'[i] # NoRec <=> newest[i] # NoRec)
    BY <1>a DEF Crash, store, HeldJobsExist, Created
  <2>4. QED
    BY <2>1, <2>2, <2>3, <1>a, HeldKept
<1>4. QED
  BY <1>2, <1>3 DEF TypeInv

LEMMA NextTyped == TypeInv /\ [Next]_vars => TypeInv'
<1>1. SUFFICES ASSUME TypeInv, [Next]_vars PROVE TypeInv'
  OBVIOUS
<1>2. CASE UNCHANGED vars
  BY <1>1, <1>2 DEF vars, store, local, scanner, ghosts, TypeInv, TypeOK,
     HeldJobsExist, Created
<1>3. CASE Next
  BY <1>1, <1>3, WriteTyped, RequestTyped, ClientTyped, WorkerTyped, CrashTyped
  DEF Next
<1>4. QED
  BY <1>1, <1>2, <1>3

\* In every reachable state the variables have their types, both views of the
\* file know exactly the jobs created, and nobody works on any other.
THEOREM TypeCorrect == Spec => [](TypeOK /\ HeldJobsExist)
<1>1. Spec => []TypeInv
  BY InitTyped, NextTyped, PTL DEF Spec
<1>2. QED
  BY <1>1, PTL DEF TypeInv

-----------------------------------------------------------------------------
(***************************************************************************)
(* StatusHasCause.                                                         *)
(***************************************************************************)
\* Causes never go away.
LEMMA CausesGrow ==
  ASSUME NEW j \in Jobs, NEW r, NEW l, asked \subseteq asked',
         runs[j] > 0 => runs'[j] > 0
  PROVE  /\ Caused(j, r) => Caused(j, r)'
         /\ Backed(j, l) => Backed(j, l)'
  BY DEF Caused, Backed

LEMMA InitCause == Init => CauseInv
<1>1. SUFFICES ASSUME Init PROVE CauseInv
  OBVIOUS
<1>2. StatusHasCause
  BY <1>1 DEF Init, StatusHasCause, Created
<1>3. \A a \in Actors : pend[a] = NoRec /\ Backed(job[a], pc[a])
  BY <1>1 DEF Init, Backed
<1>4. QED
  BY <1>2, <1>3 DEF CauseInv

\* A step keeps CauseInv if what it changes in the file is backed, and so are
\* the record and the label of the one actor a that takes it.
LEMMA CauseKept ==
  ASSUME TypeInv, CauseInv, NEW a \in Actors,
         asked \subseteq asked',
         \A j \in Jobs : runs[j] > 0 => runs'[j] > 0,
         \A j \in Jobs : runs'[j] > 0 => Kind[j] \in {"op", "conn"},
         \A j \in Jobs : Created(j)' =>
            /\ (newest'[j] = newest[j] /\ Created(j)) \/ Caused(j, newest[j])'
            /\ (last'[j] = last[j] /\ Created(j)) \/ Caused(j, last[j])',
         \A b \in Actors \ {a} :
            \/ pend'[b] = NoRec /\ pc'[b] = "idle"
            \/ pend'[b] = pend[b] /\ pc'[b] = pc[b] /\ job'[b] = job[b],
         pend'[a] # NoRec => Caused(job[a], pend[a])',
         Backed(job[a], pc[a])'
  PROVE  CauseInv'
<1>1. StatusHasCause'
  <2>1. SUFFICES ASSUME NEW j \in Jobs, Created(j)'
                 PROVE  Caused(j, newest[j])' /\ Caused(j, last[j])'
    BY DEF StatusHasCause
  <2>2. Created(j) => Caused(j, newest[j]) /\ Caused(j, last[j])
    BY DEF CauseInv, StatusHasCause
  <2>3. newest'[j] = newest[j] /\ Created(j) => Caused(j, newest[j])'
    BY <2>2, CausesGrow DEF Caused
  <2>4. last'[j] = last[j] /\ Created(j) => Caused(j, last[j])'
    BY <2>2, CausesGrow DEF Caused
  <2>5. QED
    BY <2>1, <2>3, <2>4
<1>2. ASSUME NEW b \in Actors
      PROVE  /\ pend'[b] # NoRec => Caused(job[b], pend[b])'
             /\ Backed(job[b], pc[b])'
  <2>1. CASE b = a
    BY <2>1
  <2>2. CASE b # a /\ pend'[b] = NoRec /\ pc'[b] = "idle"
    BY <2>2 DEF Backed
  <2>3. CASE b # a /\ pend'[b] = pend[b] /\ pc'[b] = pc[b] /\ job'[b] = job[b]
    <3>1. CASE pc[b] \notin Unbound \/ pend[b] # NoRec
      <4>1. job[b] \in Jobs
        BY <3>1 DEF TypeInv, HeldJobsExist
      <4>2. /\ pend[b] # NoRec => Caused(job[b], pend[b])
            /\ Backed(job[b], pc[b])
        BY DEF CauseInv
      <4>3. QED
        BY <4>1, <4>2, <2>3 DEF Caused, Backed
    <3>2. CASE pc[b] \in Unbound /\ pend[b] = NoRec
      BY <3>2, <2>3 DEF Backed, Unbound
    <3>3. QED
      BY <3>1, <3>2
  <2>4. QED
    BY <2>1, <2>2, <2>3
<1>3. QED
  BY <1>1, <1>2 DEF CauseInv

\* A step that leaves the file and the causes alone.
LEMMA CauseMoved ==
  ASSUME TypeInv, CauseInv, NEW a \in Actors, UNCHANGED <<newest, last, asked, runs>>,
         \A b \in Actors \ {a} :
            pend'[b] = pend[b] /\ pc'[b] = pc[b] /\ job'[b] = job[b],
         pend'[a] # NoRec => Caused(job[a], pend[a])',
         Backed(job[a], pc[a])'
  PROVE  CauseInv'
<1>1. /\ asked \subseteq asked'
      /\ \A j \in Jobs : runs[j] > 0 => runs'[j] > 0
      /\ \A j \in Jobs : runs'[j] > 0 => Kind[j] \in {"op", "conn"}
      /\ \A j \in Jobs : Created(j)' =>
            /\ newest'[j] = newest[j] /\ last'[j] = last[j] /\ Created(j)
  BY DEF CauseInv, StatusHasCause, Created
<1>2. QED
  BY <1>1, CauseKept

\* The read half of an update of a backed record.
LEMMA CauseBegun ==
  ASSUME TypeInv, CauseInv, NEW a \in Actors, NEW j \in Jobs, NEW r \in Record,
         NEW l, Begin(a, j, r, l), UNCHANGED <<store, ghosts>>,
         Caused(j, r), Backed(j, l)
  PROVE  CauseInv'
<1>1. /\ UNCHANGED <<newest, last, asked, runs>>
      /\ \A b \in Actors \ {a} :
            pend'[b] = pend[b] /\ pc'[b] = pc[b] /\ job'[b] = job[b]
      /\ pend'[a] = r /\ pc'[a] = l /\ job'[a] = j
  BY DEF Begin, store, ghosts, TypeInv, TypeOK
<1>2. Caused(job[a], pend[a])' /\ Backed(job[a], pc[a])'
  BY <1>1 DEF Caused, Backed
<1>3. QED
  BY <1>1, <1>2, CauseMoved

\* What CauseInv says of the job an actor holds.
LEMMA HeldCaused ==
  ASSUME TypeInv, CauseInv, NEW j \in Jobs, Created(j)
  PROVE  newest[j] \in Record /\ Caused(j, newest[j])
  BY CreatedRecord DEF CauseInv, StatusHasCause

LEMMA WriteCause ==
  ASSUME TypeInv, CauseInv, NEW a \in Actors, Write(a)
  PROVE  CauseInv'
<1>a. TypeOK /\ HeldJobsExist
  BY DEF TypeInv
<1>b. /\ pend[a] # NoRec /\ job[a] \in Jobs /\ pend[a] \in Record
      /\ Caused(job[a], pend[a]) /\ Backed(job[a], pc[a])
  BY <1>a DEF Write, Stamp, AppendUpdate, HeldJobsExist, TypeOK, CauseInv
<1>1. CASE Stamp(a)
  <2>1. /\ UNCHANGED <<newest, last, asked, runs, pc, job>>
        /\ \A b \in Actors \ {a} : pend'[b] = pend[b]
        /\ pend'[a] = [pend[a] EXCEPT !.at = clock[job[a]] + 1]
    BY <1>1, <1>a DEF Stamp, ghosts, TypeOK
  <2>2. Caused(job[a], [pend[a] EXCEPT !.at = clock[job[a]] + 1])
    BY <1>b DEF Caused, Record
  <2>3. Caused(job[a], pend[a])' /\ Backed(job[a], pc[a])'
    BY <1>b, <2>1, <2>2 DEF Caused, Backed
  <2>4. QED
    BY <2>1, <2>3, CauseMoved
<1>2. CASE AppendUpdate(a)
  <2>1. /\ UNCHANGED <<asked, runs, pc, job>>
        /\ pend' = [pend EXCEPT ![a] = NoRec]
        /\ last' = [last EXCEPT ![job[a]] = pend[a]]
        /\ \/ newest' = [newest EXCEPT ![job[a]] = pend[a]]
           \/ newest' = newest
    BY <1>2, <1>a DEF AppendUpdate, Line, ghosts, TypeOK
  <2>2. \A j \in Jobs : Created(j)' => Created(j) \/ j = job[a]
    BY <2>1, <1>a DEF Created, TypeOK
  <2>3. Caused(job[a], pend[a]) => \A j \in Jobs : Created(j)' =>
            /\ (newest'[j] = newest[j] /\ Created(j)) \/ Caused(j, newest[j])'
            /\ (last'[j] = last[j] /\ Created(j)) \/ Caused(j, last[j])'
    <3>1. SUFFICES ASSUME NEW j \in Jobs, Created(j)'
                   PROVE /\ (newest'[j] = newest[j] /\ Created(j)) \/ Caused(j, newest[j])'
                         /\ (last'[j] = last[j] /\ Created(j)) \/ Caused(j, last[j])'
      BY <1>b
    <3>2. CASE j # job[a]
      BY <2>1, <2>2, <3>1, <3>2, <1>a DEF TypeOK
    <3>3. CASE j = job[a]
      <4>1. Created(j) /\ newest'[j] \in {newest[j], pend[a]} /\ last'[j] = pend[a]
        BY <2>1, <3>3, <1>a, <1>b DEF TypeOK, HeldJobsExist
      <4>2. QED
        BY <4>1, <3>3, <2>1, <1>b DEF Caused
    <3>4. QED
      BY <3>2, <3>3
  <2>4. /\ \A b \in Actors \ {a} :
              pend'[b] = pend[b] /\ pc'[b] = pc[b] /\ job'[b] = job[b]
        /\ pend'[a] = NoRec
    BY <2>1, <1>a DEF TypeOK
  <2>5. Backed(job[a], pc[a])'
    BY <2>1, <1>b DEF Backed
  <2>6. \A j \in Jobs : runs'[j] > 0 => Kind[j] \in {"op", "conn"}
    BY <2>1 DEF CauseInv, StatusHasCause
  <2>7. QED
    BY <2>1, <2>3, <2>4, <2>5, <2>6, <1>b, CauseKept
<1>3. QED
  BY <1>1, <1>2 DEF Write

LEMMA ClientCause ==
  ASSUME TypeInv, CauseInv, NEW c \in Clients, ClientStep(c)
  PROVE  CauseInv'
<1>a. TypeOK /\ HeldJobsExist /\ c \in Actors
  BY Actors2 DEF TypeInv
<1>b. HoldsJob(c) /\ pend[c] = NoRec
  BY DEF HoldsJob, Unbound, ClientStep, RefuseUnsupported, UiGet, UiMark,
         UiComplete, UiAbandon, CancelUpdate, RetryAppend, At
<1>c. /\ job[c] \in Jobs /\ Created(job[c]) /\ newest[job[c]] \in Record
      /\ Caused(job[c], newest[job[c]]) /\ Backed(job[c], pc[c])
      /\ attempt[c] \in Nat
  BY <1>a, <1>b, HeldRecord, HeldCaused DEF CauseInv, TypeOK
<1>d. /\ {"succeeded", "failed", "blocked"} \subseteq Statuses
      /\ Backed(job[c], "idle")
  BY DEF Statuses, Terminal, Backed
<1>1. CASE RefuseUnsupported(c)
  <2>1. Kind[job[c]] = "other"
    BY <1>1, <1>c DEF RefuseUnsupported, At, Backed
  <2>2. /\ Completed(newest[job[c]], "blocked") \in Record
        /\ Caused(job[c], Completed(newest[job[c]], "blocked"))
    BY <2>1, <1>c, <1>d, RecordsMade, CausedMade
  <2>3. QED
    BY <2>2, <1>1, <1>a, <1>c, <1>d, CauseBegun DEF RefuseUnsupported
<1>2. CASE UiGet(c)
  <2>1. /\ UNCHANGED <<newest, last, asked, runs, pend, job>>
        /\ pc' = [pc EXCEPT ![c] = "uiMark"] /\ pc[c] = "uiGet"
    BY <1>2 DEF UiGet, At, Goto, store, ghosts
  <2>2. Backed(job[c], pc[c])'
    BY <2>1, <1>a, <1>c DEF Backed, TypeOK
  <2>3. QED
    BY <2>1, <2>2, <1>a, <1>b, CauseMoved DEF TypeOK
<1>3. CASE UiMark(c)
  <2>1. Backed(job[c], "uiAct")
    BY <1>3, <1>c DEF UiMark, At, Backed
  <2>2. /\ Marked(newest[job[c]], attempt[c], FALSE) \in Record
        /\ Caused(job[c], Marked(newest[job[c]], attempt[c], FALSE))
    BY <1>c, <1>d, RecordsMade, CausedMade
  <2>3. QED
    BY <2>1, <2>2, <1>3, <1>a, <1>c, CauseBegun DEF UiMark
<1>4. CASE UiComplete(c)
  <2>1. PICK s \in {"succeeded", "failed"} :
          Begin(c, job[c], Completed(newest[job[c]], s), "idle")
    BY <1>4 DEF UiComplete
  <2>2. Kind[job[c]] = "ui"
    BY <1>4, <1>c DEF UiComplete, At, Backed
  <2>3. /\ Completed(newest[job[c]], s) \in Record
        /\ Caused(job[c], Completed(newest[job[c]], s))
    BY <2>2, <1>c, <1>d, RecordsMade, CausedMade
  <2>4. QED
    BY <2>1, <2>3, <1>4, <1>a, <1>c, <1>d, CauseBegun DEF UiComplete
<1>5. CASE CancelUpdate(c)
  <2>1. job[c] \in asked
    BY <1>5, <1>c DEF CancelUpdate, At, Backed
  <2>2. /\ CanceledQueued(newest[job[c]]) \in Record
        /\ CancelRecorded(newest[job[c]]) \in Record
        /\ Caused(job[c], CanceledQueued(newest[job[c]]))
        /\ Caused(job[c], CancelRecorded(newest[job[c]]))
    BY <2>1, <1>c, <1>d, RecordsMade, CausedMade
  <2>3. QED
    BY <2>2, <1>5, <1>a, <1>c, <1>d, CauseBegun DEF CancelUpdate
<1>6. CASE RetryAppend(c)
  <2>1. /\ UNCHANGED <<asked, runs, pend, job>>
        /\ pc' = [pc EXCEPT ![c] = "idle"]
        /\ last' = [last EXCEPT ![job[c]] = Queued]
        /\ \/ newest' = [newest EXCEPT ![job[c]] = Queued]
           \/ newest' = newest
    BY <1>6, <1>a DEF RetryAppend, Line, ghosts, TypeOK, Goto
  <2>2. \A j \in Jobs : Created(j)' =>
            /\ (newest'[j] = newest[j] /\ Created(j)) \/ Caused(j, newest[j])'
            /\ (last'[j] = last[j] /\ Created(j)) \/ Caused(j, last[j])'
    <3>1. SUFFICES ASSUME NEW j \in Jobs, Created(j)'
                   PROVE /\ (newest'[j] = newest[j] /\ Created(j)) \/ Caused(j, newest[j])'
                         /\ (last'[j] = last[j] /\ Created(j)) \/ Caused(j, last[j])'
      OBVIOUS
    <3>2. CASE j # job[c]
      BY <2>1, <3>1, <3>2, <1>a DEF TypeOK, Created
    <3>3. CASE j = job[c]
      <4>1. Created(j) /\ newest'[j] \in {newest[j], Queued} /\ last'[j] = Queued
        BY <2>1, <3>3, <1>a, <1>c DEF TypeOK
      <4>2. QED
        BY <4>1 DEF Caused, Queued
    <3>4. QED
      BY <3>2, <3>3
  <2>3. /\ \A b \in Actors \ {c} :
              pend'[b] = pend[b] /\ pc'[b] = pc[b] /\ job'[b] = job[b]
        /\ pend'[c] = NoRec /\ Backed(job[c], pc[c])'
    BY <2>1, <1>a, <1>b DEF TypeOK, Backed
  <2>4. \A j \in Jobs : runs'[j] > 0 => Kind[j] \in {"op", "conn"}
    BY <2>1 DEF CauseInv, StatusHasCause
  <2>5. QED
    BY <2>1, <2>2, <2>3, <2>4, <1>a, CauseKept
<1>7. CASE UiAbandon(c)
  <2>1. /\ UNCHANGED <<newest, last, asked, runs, pend, job>>
        /\ pc' = [pc EXCEPT ![c] = "idle"]
    BY <1>7 DEF UiAbandon, Goto, store, ghosts
  <2>2. Backed(job[c], pc[c])'
    BY <2>1, <1>a, <1>d DEF Backed, TypeOK
  <2>3. QED
    BY <2>1, <2>2, <1>a, <1>b, CauseMoved DEF TypeOK
<1>8. QED
  BY <1>1, <1>2, <1>3, <1>4, <1>5, <1>6, <1>7 DEF ClientStep

LEMMA CreateCause ==
  ASSUME TypeInv, CauseInv, NEW c \in Clients, NEW l \in Labels, CreateJob(c, l),
         pend[c] = NoRec, Backed(created + 1, l)
  PROVE  CauseInv'
<1>a. TypeOK /\ HeldJobsExist /\ c \in Actors /\ created + 1 \in Jobs
  <2>1. TypeOK /\ HeldJobsExist
    BY DEF TypeInv
  <2>2. c \in Actors
    BY Actors2
  <2>3. created \in 0..MaxJobs /\ created < MaxJobs
    BY <2>1 DEF TypeOK, CreateJob
  <2>4. created + 1 \in Jobs
    BY <2>3, BoundsAssumption DEF Jobs
  <2>5. QED
    BY <2>1, <2>2, <2>4
<1>b. newest[created + 1] = NoRec
  BY <1>a DEF HeldJobsExist, Created, TypeOK
<1>1. /\ pc' = [pc EXCEPT ![c] = l]
      /\ job' = [job EXCEPT ![c] = created + 1]
      /\ newest' = [newest EXCEPT ![created + 1] = Queued]
      /\ last' = [last EXCEPT ![created + 1] = Queued]
      /\ UNCHANGED <<pend, runs, asked>>
  BY <1>a, <1>b DEF CreateJob, Line, Goto, ghosts, TypeOK
<1>2. \A j \in Jobs : Created(j)' =>
        /\ (newest'[j] = newest[j] /\ Created(j)) \/ Caused(j, newest[j])'
        /\ (last'[j] = last[j] /\ Created(j)) \/ Caused(j, last[j])'
  <2>1. SUFFICES ASSUME NEW j \in Jobs, Created(j)'
                 PROVE /\ (newest'[j] = newest[j] /\ Created(j)) \/ Caused(j, newest[j])'
                       /\ (last'[j] = last[j] /\ Created(j)) \/ Caused(j, last[j])'
    OBVIOUS
  <2>2. CASE j # created + 1
    BY <2>1, <2>2, <1>1, <1>a DEF Created, TypeOK
  <2>3. CASE j = created + 1
    <3>1. newest'[j] = Queued /\ last'[j] = Queued
      BY <2>3, <1>1, <1>a DEF TypeOK
    <3>2. QED
      BY <3>1 DEF Caused, Queued
  <2>4. QED
    BY <2>2, <2>3
<1>3. /\ \A b \in Actors \ {c} :
            pend'[b] = pend[b] /\ pc'[b] = pc[b] /\ job'[b] = job[b]
      /\ pend'[c] = NoRec
  BY <1>1, <1>a DEF TypeOK
<1>4. Backed(job[c], pc[c])'
  <2>1. job'[c] = created + 1 /\ pc'[c] = l
    BY <1>1, <1>a DEF TypeOK
  <2>2. QED
    BY <2>1, <1>1 DEF Backed
<1>5. \A j \in Jobs : runs'[j] > 0 => Kind[j] \in {"op", "conn"}
  BY <1>1 DEF CauseInv, StatusHasCause
<1>6. QED
  BY <1>1, <1>2, <1>3, <1>4, <1>5, <1>a, CauseKept

LEMMA RequestCause ==
  ASSUME TypeInv, CauseInv, NEW c \in Clients, Request(c)
  PROVE  CauseInv'
<1>a. TypeOK /\ HeldJobsExist /\ c \in Actors
  BY Actors2 DEF TypeInv
<1>b. {"idle", "refuse", "uiGet", "retryAppend"} \subseteq Labels
  BY DEF Labels, ClientLabels
<1>1. CASE Enqueue(c)
  <2>1. /\ AfterCreate(Kind[created + 1]) \in Labels
        /\ Backed(created + 1, AfterCreate(Kind[created + 1]))
    BY <1>b DEF AfterCreate, Backed
  <2>2. QED
    BY <2>1, <1>1, CreateCause DEF Enqueue, At
<1>2. CASE Retry(c)
  <2>1. Backed(created + 1, "retryAppend")
    BY DEF Backed
  <2>2. QED
    BY <2>1, <1>2, <1>b, CreateCause DEF Retry, At
<1>3. CASE CancelGet(c)
  <2>1. PICK j \in Jobs :
          /\ asked' = asked \cup {j}
          /\ job' = [job EXCEPT ![c] = j]
          /\ Goto(c, CASE newest[j].status = "queued" -> "cancelQueued"
                       [] newest[j].status \in Terminal -> "idle"
                       [] OTHER -> "cancelRunning")
    BY <1>3 DEF CancelGet
  <2>2. pc'[c] \in {"cancelQueued", "cancelRunning", "idle"}
    BY <2>1, <1>a DEF Goto, TypeOK
  <2>3. /\ UNCHANGED <<newest, last, runs, pend>> /\ pend[c] = NoRec
    BY <1>3 DEF CancelGet, At, store
  <2>4. /\ job'[c] = j
        /\ \A b \in Actors \ {c} :
              pend'[b] = pend[b] /\ pc'[b] = pc[b] /\ job'[b] = job[b]
    BY <2>1, <2>3, <1>a DEF Goto, TypeOK
  <2>5. Backed(job[c], pc[c])'
    BY <2>1, <2>2, <2>4 DEF Backed
  <2>6. /\ \A i \in Jobs : runs'[i] > 0 => Kind[i] \in {"op", "conn"}
        /\ \A i \in Jobs : Created(i)' =>
              /\ newest'[i] = newest[i] /\ last'[i] = last[i] /\ Created(i)
    BY <2>3 DEF CauseInv, StatusHasCause, Created
  <2>7. QED
    BY <2>1, <2>3, <2>4, <2>5, <2>6, <1>a, CauseKept
<1>4. QED
  BY <1>1, <1>2, <1>3 DEF Request

LEMMA WorkerCause ==
  ASSUME TypeInv, CauseInv, NEW w \in Workers, WorkerStep(w)
  PROVE  CauseInv'
<1>a. TypeOK /\ HeldJobsExist /\ w \in Actors
  BY Actors2 DEF TypeInv
<1>b. /\ Terminal \subseteq Statuses
      /\ Unbound = {"idle", "reap", "lease"}
      /\ Terminal = {"succeeded", "failed", "blocked", "canceled", "timed_out"}
      /\ \A l \in {"idle", "reap", "lease", "mark", "leased", "execute", "after"} :
           \A j : Backed(j, l)
  BY DEF Statuses, Terminal, Unbound, Backed
<1>c. pend[w] = NoRec
  BY DEF WorkerStep, ReapScan, ReapJob, LeaseScan, NothingToLease, RefuseLease,
         LeasePick, LeaseMark, CheckCanceled, CheckLeased, CheckUnsupported,
         ExecuteGet, CheckPassed, RemarkGet, Remark, StartRun, FinishRun,
         LeaveRunning, RecoverGet, AfterRun, At
<1>d. ASSUME pc[w] \notin Unbound
      PROVE  /\ job[w] \in Jobs /\ Created(job[w]) /\ newest[job[w]] \in Record
             /\ Caused(job[w], newest[job[w]]) /\ Backed(job[w], pc[w])
             /\ attempt[w] \in Nat
  BY <1>d, <1>a, HeldRecord, HeldCaused DEF HoldsJob, CauseInv, TypeOK
\* A step that only moves the worker on.
<1>e. ASSUME NEW l, pc' = [pc EXCEPT ![w] = l], Backed(job'[w], l),
             UNCHANGED <<newest, last, pend, asked, runs>>,
             \A b \in Actors \ {w} : job'[b] = job[b]
      PROVE  CauseInv'
  <2>1. \A b \in Actors \ {w} :
          pend'[b] = pend[b] /\ pc'[b] = pc[b] /\ job'[b] = job[b]
    BY <1>e, <1>a DEF TypeOK
  <2>2. Backed(job[w], pc[w])'
    BY <1>e, <1>a DEF Backed, TypeOK
  <2>3. QED
    BY <2>1, <2>2, <1>e, <1>a, <1>c, CauseMoved
\* Completing the job it runs.
<1>f. ASSUME NEW s \in Terminal, pc[w] \notin Unbound, Complete(w, s),
             s = "succeeded" => runs[job[w]] > 0,
             s = "blocked" => runs[job[w]] > 0 \/ Kind[job[w]] \in {"ui", "other"},
             s = "canceled" => job[w] \in asked
      PROVE  CauseInv'
  <2>1. s # "cancel_requested" /\ s \in Statuses
    BY <1>f, <1>b
  <2>2. /\ Completed(newest[job[w]], s) \in Record
        /\ Caused(job[w], Completed(newest[job[w]], s))
    BY <2>1, <1>d, <1>f, RecordsMade, CausedMade
  <2>3. QED
    BY <2>2, <1>a, <1>b, <1>d, <1>f, CauseBegun DEF Complete
\* Marking the job it runs.
<1>g. ASSUME NEW lease \in BOOLEAN, NEW l, pc[w] \notin Unbound,
             Begin(w, job[w], Marked(newest[job[w]], attempt[w], lease), l),
             UNCHANGED <<store, ghosts>>, Backed(job[w], l)
      PROVE  CauseInv'
  <2>1. /\ Marked(newest[job[w]], attempt[w], lease) \in Record
        /\ Caused(job[w], Marked(newest[job[w]], attempt[w], lease))
    BY <1>b, <1>d, <1>g, RecordsMade, CausedMade
  <2>2. QED
    BY <2>1, <1>a, <1>d, <1>g, CauseBegun
<1>h. ASSUME CancelRequested(job[w]), pc[w] \notin Unbound
      PROVE  job[w] \in asked
  BY <1>d, <1>h DEF CancelRequested, Caused
<1>1. CASE ReapScan(w)
  BY <1>1, <1>b, <1>e DEF ReapScan, Goto, store, ghosts
<1>2. CASE ReapJob(w)
  <2>1. PICK j \in Jobs :
          /\ plan[w][j] # "none"
          /\ Begin(w, j, IF plan[w][j] = "requeue"
                         THEN Requeued(newest[j])
                         ELSE Completed(newest[j], "timed_out"), "reap")
    BY <1>2 DEF ReapJob
  <2>2. Created(j) /\ newest[j] \in Record /\ Caused(j, newest[j])
    BY <2>1, <1>a, HeldCaused DEF HeldJobsExist
  <2>3. /\ Requeued(newest[j]) \in Record /\ Completed(newest[j], "timed_out") \in Record
        /\ Caused(j, Requeued(newest[j])) /\ Caused(j, Completed(newest[j], "timed_out"))
    BY <2>2, <1>b, RecordsMade, CausedMade
  <2>4. QED
    BY <2>1, <2>3, <1>2, <1>a, <1>b, CauseBegun DEF ReapJob
<1>3. CASE LeaseScan(w)
  BY <1>3, <1>b, <1>e DEF LeaseScan, Goto, store, ghosts
<1>4. CASE NothingToLease(w)
  BY <1>4, <1>b, <1>e DEF NothingToLease, Goto, store, ghosts
<1>5. CASE RefuseLease(w)
  <2>1. PICK d \in cands[w] :
          Begin(w, d.job, Completed(newest[d.job], "failed"), "lease")
    BY <1>5 DEF RefuseLease
  <2>2. /\ d.job \in Jobs /\ newest[d.job] \in Record /\ Caused(d.job, newest[d.job])
    BY <2>1, <1>a, HeldCaused DEF HeldJobsExist, TypeOK, Candidate
  <2>3. /\ Completed(newest[d.job], "failed") \in Record
        /\ Caused(d.job, Completed(newest[d.job], "failed"))
    BY <2>2, <1>b, RecordsMade, CausedMade
  <2>4. QED
    BY <2>1, <2>2, <2>3, <1>5, <1>a, <1>b, CauseBegun DEF RefuseLease
<1>6. CASE LeasePick(w)
  <2>1. \A b \in Actors \ {w} : job'[b] = job[b]
    BY <1>6, <1>a DEF LeasePick, TypeOK
  <2>2. QED
    BY <2>1, <1>6, <1>b, <1>e DEF LeasePick, Goto, store, ghosts
<1>7. CASE LeaseMark(w)
  BY <1>7, <1>b, <1>g DEF LeaseMark, At
<1>8. CASE CheckCanceled(w)
  <2>1. pc[w] \notin Unbound /\ job[w] \in asked /\ "canceled" \in Terminal
    BY <1>8, <1>b, <1>h DEF CheckCanceled
  <2>2. QED
    BY <2>1, <1>8, <1>f DEF CheckCanceled
<1>9. CASE CheckLeased(w)
  BY <1>9, <1>b, <1>e DEF CheckLeased, Goto, store, ghosts
<1>10. CASE CheckUnsupported(w)
  BY <1>10, <1>b, <1>f DEF CheckUnsupported, At
<1>11. CASE ExecuteGet(w)
  <2>1. \A l \in {"gotRunning", "gotOther"} : Backed(job[w], l)
    BY <1>11 DEF ExecuteGet, Backed
  <2>2. QED
    BY <2>1, <1>11, <1>e DEF ExecuteGet, Goto, store, ghosts
<1>12. CASE CheckPassed(w)
  <2>1. \A l \in {"start", "remarkGet"} : Backed(job[w], l)
    BY <1>12, <1>b, <1>d DEF CheckPassed, At, Backed
  <2>2. QED
    BY <2>1, <1>12, <1>e DEF CheckPassed, Goto, store, ghosts
<1>13. CASE RemarkGet(w)
  <2>1. Backed(job[w], "remark") /\ Backed(job[w], "recoverMark")
    BY <1>13, <1>b, <1>d DEF RemarkGet, At, Backed
  <2>2. QED
    BY <2>1, <1>13, <1>e DEF RemarkGet, Goto, store, ghosts
<1>14. CASE Remark(w)
  <2>1. Backed(job[w], "start") /\ Backed(job[w], "recovered")
    BY <1>14, <1>b, <1>d DEF Remark, Backed
  <2>2. pc[w] \notin Unbound
    BY <1>14, <1>b DEF Remark
  <2>3. CASE pc[w] = "remark"
    BY <2>1, <2>2, <2>3, <1>14, <1>b, <1>g DEF Remark
  <2>4. CASE pc[w] = "recoverMark"
    BY <2>1, <2>2, <2>4, <1>14, <1>b, <1>g DEF Remark
  <2>5. QED
    BY <2>3, <2>4, <1>14 DEF Remark
<1>15. CASE StartRun(w)
  <2>1. /\ job[w] \in Jobs /\ Kind[job[w]] \in {"op", "conn"}
    BY <1>15, <1>b, <1>d DEF StartRun, At, Backed
  <2>2. /\ UNCHANGED <<newest, last, asked, pend, job>>
        /\ runs' = [runs EXCEPT ![job[w]] = @ + 1]
        /\ pc' = [pc EXCEPT ![w] = "running"]
    BY <1>15 DEF StartRun, Goto, store
  <2>3. /\ \A j \in Jobs : runs[j] > 0 => runs'[j] > 0
        /\ \A j \in Jobs : runs'[j] > 0 => runs[j] > 0 \/ j = job[w]
        /\ runs'[job[w]] > 0
    BY <2>1, <2>2, <1>a DEF TypeOK
  <2>4. \A j \in Jobs : runs'[j] > 0 => Kind[j] \in {"op", "conn"}
    BY <2>1, <2>3 DEF CauseInv, StatusHasCause
  <2>5. /\ \A b \in Actors \ {w} :
              pend'[b] = pend[b] /\ pc'[b] = pc[b] /\ job'[b] = job[b]
        /\ pend'[w] = NoRec
    BY <2>2, <1>a, <1>c DEF TypeOK
  <2>6. Backed(job[w], pc[w])'
    BY <2>2, <2>3, <1>a DEF Backed, TypeOK
  <2>7. \A i \in Jobs : Created(i)' =>
          /\ newest'[i] = newest[i] /\ last'[i] = last[i] /\ Created(i)
    BY <2>2 DEF Created
  <2>8. QED
    BY <2>2, <2>3, <2>4, <2>5, <2>6, <2>7, <1>a, CauseKept
<1>16. CASE FinishRun(w)
  <2>1. PICK s \in Outcomes(Kind[job[w]]) : Complete(w, s)
    BY <1>16 DEF FinishRun
  <2>2. s \in Terminal /\ s # "canceled"
    BY <2>1, <1>b DEF Outcomes
  <2>3. pc[w] \notin Unbound /\ runs[job[w]] > 0
    BY <1>16, <1>b, <1>d DEF FinishRun, At, Backed
  <2>4. QED
    BY <2>1, <2>2, <2>3, <1>f
<1>17. CASE LeaveRunning(w)
  BY <1>17, <1>b, <1>e DEF LeaveRunning, Goto, store, ghosts
<1>18. CASE AfterRun(w)
  <2>1. pc[w] \notin Unbound
    BY <1>18, <1>b DEF AfterRun, At
  <2>2. CASE CancelRequested(job[w]) /\ verdict[w] \in {"failed", "timed_out"}
    <3>1. Complete(w, "canceled") /\ job[w] \in asked /\ "canceled" \in Terminal
      BY <2>1, <2>2, <1>18, <1>b, <1>h DEF AfterRun
    <3>2. QED
      BY <2>1, <3>1, <1>f
  <2>3. CASE ~(CancelRequested(job[w]) /\ verdict[w] \in {"failed", "timed_out"})
    BY <2>3, <1>18, <1>b, <1>e DEF AfterRun, Goto, store, ghosts
  <2>4. QED
    BY <2>2, <2>3
<1>19. CASE RecoverGet(w)
  <2>1. Backed(job[w], "recoverGet")
    BY <1>19, <1>b, <1>d DEF RecoverGet, At, Backed
  <2>2. QED
    BY <2>1, <1>19, <1>e DEF RecoverGet, Goto, store, ghosts
<1>20. QED
  BY <1>1, <1>2, <1>3, <1>4, <1>5, <1>6, <1>7, <1>8, <1>9, <1>10, <1>11, <1>12,
     <1>13, <1>14, <1>15, <1>16, <1>17, <1>18, <1>19 DEF WorkerStep

LEMMA CrashCause ==
  ASSUME TypeInv, CauseInv, NEW s \in Servers, Crash(s)
  PROVE  CauseInv'
<1>1. PICK a \in Actors : Home[a] = s
  BY DEF Crash
<1>2. /\ UNCHANGED <<newest, last, asked, runs, job>>
      /\ \A b \in Actors :
           \/ pend'[b] = NoRec /\ pc'[b] = "idle"
           \/ pend'[b] = pend[b] /\ pc'[b] = pc[b] /\ job'[b] = job[b]
      /\ pend'[a] = NoRec /\ pc'[a] = "idle"
  BY <1>1 DEF Crash, store, ghosts
<1>3. /\ \A j \in Jobs : runs'[j] > 0 => Kind[j] \in {"op", "conn"}
      /\ \A i \in Jobs : Created(i)' =>
            /\ newest'[i] = newest[i] /\ last'[i] = last[i] /\ Created(i)
  BY <1>2 DEF CauseInv, StatusHasCause, Created
<1>4. Backed(job[a], pc[a])'
  BY <1>2 DEF Backed
<1>5. QED
  BY <1>2, <1>3, <1>4, CauseKept

LEMMA NextCause == TypeInv /\ CauseInv /\ [Next]_vars => CauseInv'
<1>1. SUFFICES ASSUME TypeInv, CauseInv, [Next]_vars PROVE CauseInv'
  OBVIOUS
<1>2. CASE UNCHANGED vars
  BY <1>1, <1>2 DEF vars, store, local, scanner, ghosts, CauseInv,
     StatusHasCause, Created, Caused, Backed
<1>3. CASE Next
  BY <1>1, <1>3, WriteCause, RequestCause, ClientCause, WorkerCause, CrashCause
  DEF Next
<1>4. QED
  BY <1>1, <1>2, <1>3

\* For any number of workers, handlers, processes, crashes and requests, no view
\* of the file ever shows a success or a refusal without a cause or a cancel
\* nobody asked for, and no action outside the allowlist is ever run.
THEOREM StatusIsCaused == Spec => []StatusHasCause
<1>1. Spec => []TypeInv
  BY InitTyped, NextTyped, PTL DEF Spec
<1>2. Spec => [](TypeInv /\ CauseInv)
  BY <1>1, InitCause, NextCause, PTL DEF Spec
<1>3. CauseInv => StatusHasCause
  BY DEF CauseInv
<1>4. QED
  BY <1>2, <1>3, PTL

-----------------------------------------------------------------------------
(***************************************************************************)
(* QuietIsFinal.                                                           *)
(***************************************************************************)
Undisturbed(j) == /\ newest'[j] = newest[j] /\ last'[j] = last[j]
                  /\ runs'[j] = runs[j]
                  /\ Quiet(j)'

\* A step of actor a leaves a quiet job alone if it writes nothing of it and does
\* not make a hold it.
LEMMA QuietKept ==
  ASSUME NEW j \in Jobs, Quiet(j), NEW a \in Actors,
         newest'[j] = newest[j], last'[j] = last[j], runs'[j] = runs[j],
         \A b \in Actors \ {a} : Holds(b, j)' => Holds(b, j),
         ~Holds(a, j)'
  PROVE  Undisturbed(j)
  BY DEF Quiet, Undisturbed, Created

\* An actor that works on some job works on another one.
LEMMA QuietElsewhere ==
  ASSUME NEW j \in Jobs, Quiet(j), NEW a \in Actors, HoldsJob(a)
  PROVE  job[a] # j
  BY DEF Quiet, Holds, HoldsJob

\* A step of actor a that moves it on, or begins an update, on a job it holds.
LEMMA QuietHeld ==
  ASSUME TypeInv, NEW j \in Jobs, Quiet(j), NEW a \in Actors,
         newest'[j] = newest[j], last'[j] = last[j], runs'[j] = runs[j],
         \A b \in Actors \ {a} :
            pend'[b] = pend[b] /\ pc'[b] = pc[b] /\ job'[b] = job[b],
         job'[a] # j \/ (pc'[a] \in Unbound /\ pend'[a] = NoRec),
         \A w \in Workers : plan'[w][j] # "none" => plan[w][j] # "none",
         \A w \in Workers : \A d \in cands'[w] : d.job = j => d \in cands[w]
  PROVE  Undisturbed(j)
<1>1. \A b \in Actors \ {a} : Holds(b, j)' => Holds(b, j)
  BY DEF Holds
<1>2. ~Holds(a, j)'
  BY DEF Holds, Quiet
<1>3. QED
  BY <1>1, <1>2, QuietKept

LEMMA QuietWrite ==
  ASSUME TypeInv, NEW j \in Jobs, Quiet(j), NEW a \in Actors, Write(a)
  PROVE  Undisturbed(j)
<1>1. TypeOK /\ job[a] # j
  BY QuietElsewhere DEF TypeInv, HoldsJob, Write, Stamp, AppendUpdate
<1>2. CASE Stamp(a)
  <2>1. UNCHANGED <<newest, last, pc, job, plan, cands, runs>>
    BY <1>2 DEF Stamp, scanner, ghosts
  <2>2. \A b \in Actors \ {a} : pend'[b] = pend[b]
    BY <1>1, <1>2 DEF Stamp, TypeOK
  <2>3. QED
    BY <2>1, <2>2, <1>1, QuietHeld
<1>3. CASE AppendUpdate(a)
  <2>1. UNCHANGED <<pc, job, plan, cands, runs>>
    BY <1>3 DEF AppendUpdate, scanner, ghosts
  <2>2. /\ \A b \in Actors \ {a} : pend'[b] = pend[b]
        /\ newest'[j] = newest[j] /\ last'[j] = last[j]
    BY <1>1, <1>3 DEF AppendUpdate, Line, TypeOK
  <2>3. QED
    BY <2>1, <2>2, <1>1, QuietHeld
<1>4. QED
  BY <1>2, <1>3 DEF Write

LEMMA QuietClient ==
  ASSUME TypeInv, NEW j \in Jobs, Quiet(j), NEW c \in Clients,
         ClientStep(c) \/ Request(c)
  PROVE  Undisturbed(j)
<1>a. TypeOK /\ HeldJobsExist /\ c \in Actors
  BY Actors2 DEF TypeInv
\* Beginning an update of the job it holds.
<1>b. ASSUME NEW r, NEW l, HoldsJob(c), Begin(c, job[c], r, l),
             UNCHANGED <<store, attempt, scanner, ghosts, budget>>
      PROVE  Undisturbed(j)
  <2>1. job[c] # j
    BY <1>a, <1>b, QuietElsewhere
  <2>2. /\ UNCHANGED <<newest, last, plan, cands, runs>>
        /\ job'[c] = job[c]
        /\ \A b \in Actors \ {c} :
              pend'[b] = pend[b] /\ pc'[b] = pc[b] /\ job'[b] = job[b]
    BY <1>a, <1>b DEF Begin, store, scanner, ghosts, TypeOK
  <2>3. QED
    BY <2>1, <2>2, <1>a, QuietHeld
\* Creating a job.
<1>c. ASSUME NEW l, CreateJob(c, l) PROVE Undisturbed(j)
  <2>1. created + 1 # j /\ created + 1 \in Jobs
    BY <1>a, <1>c DEF CreateJob, Quiet, HeldJobsExist, TypeOK, Jobs
  <2>2. /\ UNCHANGED <<plan, cands, runs, pend>>
        /\ newest'[j] = newest[j] /\ last'[j] = last[j] /\ job'[c] # j
        /\ \A b \in Actors \ {c} : pc'[b] = pc[b] /\ job'[b] = job[b]
    BY <2>1, <1>a, <1>c DEF CreateJob, Line, Goto, scanner, ghosts, TypeOK
  <2>3. QED
    BY <2>2, <1>a, QuietHeld
<1>1. CASE RefuseUnsupported(c)
  BY <1>1, <1>b DEF RefuseUnsupported, At, HoldsJob, Unbound
<1>2. CASE UiGet(c)
  <2>1. job[c] # j
    BY <1>2, <1>a, QuietElsewhere DEF UiGet, At, HoldsJob, Unbound
  <2>2. /\ UNCHANGED <<newest, last, pend, job, plan, cands, runs>>
        /\ \A b \in Actors \ {c} : pc'[b] = pc[b]
    BY <1>2, <1>a DEF UiGet, Goto, store, scanner, ghosts, TypeOK
  <2>3. QED
    BY <2>1, <2>2, <1>a, QuietHeld
<1>3. CASE UiMark(c)
  BY <1>3, <1>b DEF UiMark, At, HoldsJob, Unbound
<1>4. CASE UiComplete(c)
  BY <1>4, <1>b DEF UiComplete, At, HoldsJob, Unbound
<1>5. CASE CancelUpdate(c)
  BY <1>5, <1>b DEF CancelUpdate, At, HoldsJob, Unbound
<1>6. CASE RetryAppend(c)
  <2>1. job[c] # j
    BY <1>6, <1>a, QuietElsewhere DEF RetryAppend, At, HoldsJob, Unbound
  <2>2. /\ UNCHANGED <<pend, job, plan, cands, runs>>
        /\ newest'[j] = newest[j] /\ last'[j] = last[j]
        /\ \A b \in Actors \ {c} : pc'[b] = pc[b]
    BY <2>1, <1>6, <1>a DEF RetryAppend, Line, Goto, scanner, ghosts, TypeOK
  <2>3. QED
    BY <2>1, <2>2, <1>a, QuietHeld
<1>7. CASE Enqueue(c)
  BY <1>7, <1>c DEF Enqueue
<1>8. CASE Retry(c)
  BY <1>8, <1>c DEF Retry
<1>9. CASE CancelGet(c)
  <2>1. PICK i \in Jobs :
          /\ job' = [job EXCEPT ![c] = i]
          /\ Goto(c, CASE newest[i].status = "queued" -> "cancelQueued"
                       [] newest[i].status \in Terminal -> "idle"
                       [] OTHER -> "cancelRunning")
    BY <1>9 DEF CancelGet
  <2>2. /\ UNCHANGED <<newest, last, pend, plan, cands, runs>> /\ pend[c] = NoRec
    BY <1>9 DEF CancelGet, At, store, scanner
  <2>3. i = j => pc'[c] = "idle"
    <3>1. newest[j].status # "queued" /\ newest[j].status \in Terminal
      BY DEF Quiet, Terminal
    <3>2. QED
      BY <3>1, <2>1, <1>a DEF Goto, TypeOK
  <2>4. /\ job'[c] = i
        /\ \A b \in Actors \ {c} : pc'[b] = pc[b] /\ job'[b] = job[b]
    BY <2>1, <1>a DEF Goto, TypeOK
  <2>5. QED
    BY <2>2, <2>3, <2>4, <1>a, QuietHeld DEF Unbound
<1>10. CASE UiAbandon(c)
  <2>1. job[c] # j
    BY <1>10, <1>a, QuietElsewhere DEF UiAbandon, At, HoldsJob, Unbound
  <2>2. /\ UNCHANGED <<newest, last, pend, job, plan, cands, runs>>
        /\ \A b \in Actors \ {c} : pc'[b] = pc[b]
    BY <1>10, <1>a DEF UiAbandon, Goto, store, scanner, ghosts, TypeOK
  <2>3. QED
    BY <2>1, <2>2, <1>a, QuietHeld
<1>11. QED
  BY <1>1, <1>2, <1>3, <1>4, <1>5, <1>6, <1>7, <1>8, <1>9, <1>10
  DEF ClientStep, Request

LEMMA QuietWorker ==
  ASSUME TypeInv, NEW j \in Jobs, Quiet(j), NEW w \in Workers, WorkerStep(w)
  PROVE  Undisturbed(j)
<1>a. TypeOK /\ HeldJobsExist /\ w \in Actors
  BY Actors2 DEF TypeInv
<1>b. /\ Unbound = {"idle", "reap", "lease"}
      /\ last[j] # NoRec /\ last[j].status \in Terminal
      /\ "queued" \notin Terminal /\ "running" \notin Terminal
      /\ "cancel_requested" \notin Terminal
  BY <1>a DEF Unbound, Quiet, Terminal, HeldJobsExist
\* Beginning an update of another job.
<1>c. ASSUME NEW i \in Jobs, NEW r, NEW l, i # j, Begin(w, i, r, l),
             UNCHANGED <<store, ghosts>>,
             \A v \in Workers : plan'[v][j] # "none" => plan[v][j] # "none",
             \A v \in Workers : cands'[v] \subseteq cands[v]
      PROVE  Undisturbed(j)
  <2>1. /\ UNCHANGED <<newest, last, runs>> /\ job'[w] # j
        /\ \A b \in Actors \ {w} :
              pend'[b] = pend[b] /\ pc'[b] = pc[b] /\ job'[b] = job[b]
    BY <1>a, <1>c DEF Begin, store, ghosts, TypeOK
  <2>2. QED
    BY <2>1, <1>a, <1>c, QuietHeld
\* Moving on.
<1>d. ASSUME NEW l, pc' = [pc EXCEPT ![w] = l],
             \/ pc[w] \notin Unbound /\ job' = job
             \/ job'[w] # j
             \/ l \in Unbound,
             pend[w] = NoRec,
             \A b \in Actors \ {w} : job'[b] = job[b],
             UNCHANGED <<newest, last, pend>>, runs'[j] = runs[j],
             \A v \in Workers : plan'[v][j] # "none" => plan[v][j] # "none",
             \A v \in Workers : \A d \in cands'[v] : d.job = j => d \in cands[v]
      PROVE  Undisturbed(j)
  <2>1. pc[w] \notin Unbound => job[w] # j
    BY <1>a, QuietElsewhere DEF HoldsJob
  <2>2. /\ job'[w] # j \/ (pc'[w] \in Unbound /\ pend'[w] = NoRec)
        /\ \A b \in Actors \ {w} :
              pend'[b] = pend[b] /\ pc'[b] = pc[b] /\ job'[b] = job[b]
    BY <2>1, <1>a, <1>d DEF TypeOK
  <2>3. QED
    BY <2>2, <1>a, <1>d, QuietHeld
<1>e. ASSUME NEW s, pc[w] \notin Unbound, Complete(w, s)
      PROVE  Undisturbed(j)
  <2>1. job[w] # j /\ job[w] \in Jobs
    BY <1>a, <1>e, QuietElsewhere, HeldRecord DEF HoldsJob
  <2>2. QED
    BY <2>1, <1>e, <1>c DEF Complete
<1>f. ASSUME NEW r, NEW l, pc[w] \notin Unbound, Begin(w, job[w], r, l),
             UNCHANGED <<store, attempt, scanner, ghosts, budget>>
      PROVE  Undisturbed(j)
  <2>1. job[w] # j /\ job[w] \in Jobs
    BY <1>a, <1>f, QuietElsewhere, HeldRecord DEF HoldsJob
  <2>2. QED
    BY <2>1, <1>f, <1>c DEF scanner
<1>1. CASE ReapScan(w)
  <2>1. PICK late \in SUBSET Reapable, expired \in SUBSET Reapable :
          plan' = [plan EXCEPT ![w] = [i \in Jobs |->
                     ReapDecision(last[i], i \in late, i \in expired)]]
    BY <1>1 DEF ReapScan
  <2>2. ReapDecision(last[j], j \in late, j \in expired) = "none"
    BY <1>b DEF ReapDecision, InProgress
  <2>3. \A v \in Workers : plan'[v][j] # "none" => plan[v][j] # "none"
    BY <2>1, <2>2, <1>a DEF TypeOK
  <2>4. QED
    BY <2>3, <1>1, <1>b, <1>d DEF ReapScan, At, Goto, store, ghosts
<1>2. CASE ReapJob(w)
  <2>1. PICK i \in Jobs :
          /\ plan[w][i] # "none" /\ plan' = [plan EXCEPT ![w][i] = "none"]
          /\ Begin(w, i, IF plan[w][i] = "requeue"
                         THEN Requeued(newest[i])
                         ELSE Completed(newest[i], "timed_out"), "reap")
    BY <1>2 DEF ReapJob
  <2>2. i # j
    BY <2>1, <1>a DEF Quiet, Holds
  <2>3. \A v \in Workers : plan'[v][j] # "none" => plan[v][j] # "none"
    BY <2>1, <2>2, <1>a DEF TypeOK
  <2>4. QED
    BY <2>1, <2>2, <2>3, <1>2, <1>c DEF ReapJob
<1>3. CASE LeaseScan(w)
  <2>1. \A v \in Workers : \A d \in cands'[v] : d.job = j => d \in cands[v]
    BY <1>3, <1>a, <1>b DEF LeaseScan, TypeOK
  <2>2. QED
    BY <2>1, <1>3, <1>b, <1>d DEF LeaseScan, At, Goto, store, ghosts
<1>4. CASE NothingToLease(w)
  BY <1>4, <1>b, <1>d DEF NothingToLease, At, Goto, store, scanner, ghosts
<1>5. CASE RefuseLease(w)
  <2>1. PICK d \in cands[w] :
          /\ cands' = [cands EXCEPT ![w] = @ \ {d}]
          /\ Begin(w, d.job, Completed(newest[d.job], "failed"), "lease")
    BY <1>5 DEF RefuseLease
  <2>2. d.job # j /\ d.job \in Jobs
    BY <2>1, <1>a DEF Quiet, Holds, TypeOK, Candidate
  <2>3. \A v \in Workers : cands'[v] \subseteq cands[v]
    BY <2>1, <1>a DEF TypeOK
  <2>4. QED
    BY <2>1, <2>2, <2>3, <1>5, <1>c DEF RefuseLease
<1>6. CASE LeasePick(w)
  <2>1. PICK d \in cands[w] :
          /\ cands' = [cands EXCEPT ![w] = {}]
          /\ job' = [job EXCEPT ![w] = d.job]
    BY <1>6 DEF LeasePick
  <2>2. d.job # j
    BY <2>1, <1>a DEF Quiet, Holds
  <2>3. /\ job'[w] # j /\ \A b \in Actors \ {w} : job'[b] = job[b]
        /\ \A v \in Workers : \A e \in cands'[v] : e \in cands[v]
    BY <2>1, <2>2, <1>a DEF TypeOK
  <2>4. QED
    BY <2>3, <1>6, <1>d DEF LeasePick, At, Goto, store, ghosts
<1>7. CASE LeaseMark(w)
  BY <1>7, <1>b, <1>f DEF LeaseMark, At
<1>8. CASE CheckCanceled(w)
  BY <1>8, <1>b, <1>e DEF CheckCanceled
<1>9. CASE CheckLeased(w)
  BY <1>9, <1>b, <1>d DEF CheckLeased, At, Goto, store, scanner, ghosts
<1>10. CASE CheckUnsupported(w)
  BY <1>10, <1>b, <1>e DEF CheckUnsupported, At
<1>11. CASE ExecuteGet(w)
  BY <1>11, <1>b, <1>d DEF ExecuteGet, At, Goto, store, scanner, ghosts
<1>12. CASE CheckPassed(w)
  BY <1>12, <1>b, <1>d DEF CheckPassed, At, Goto, store, scanner, ghosts
<1>13. CASE RemarkGet(w)
  BY <1>13, <1>b, <1>d DEF RemarkGet, At, Goto, store, scanner, ghosts
<1>14. CASE Remark(w)
  <2>1. pc[w] \notin Unbound
    BY <1>14, <1>b DEF Remark
  <2>2. CASE pc[w] = "remark"
    BY <2>1, <2>2, <1>14, <1>b, <1>f DEF Remark
  <2>3. CASE pc[w] = "recoverMark"
    BY <2>1, <2>3, <1>14, <1>b, <1>f DEF Remark
  <2>4. QED
    BY <2>2, <2>3, <1>14 DEF Remark
<1>15. CASE StartRun(w)
  <2>1. pc[w] \notin Unbound
    BY <1>15, <1>b DEF StartRun, At
  <2>2. runs'[j] = runs[j]
    BY <2>1, <1>15, <1>a, QuietElsewhere DEF StartRun, HoldsJob, TypeOK
  <2>3. QED
    BY <2>1, <2>2, <1>15, <1>d DEF StartRun, At, Goto, store, scanner
<1>16. CASE FinishRun(w)
  BY <1>16, <1>b, <1>e DEF FinishRun, At
<1>17. CASE LeaveRunning(w)
  BY <1>17, <1>b, <1>d DEF LeaveRunning, At, Goto, store, scanner, ghosts
<1>18. CASE AfterRun(w)
  <2>1. pc[w] \notin Unbound
    BY <1>18, <1>b DEF AfterRun, At
  <2>2. CASE Complete(w, "canceled")
    BY <2>1, <2>2, <1>e
  <2>3. CASE ~Complete(w, "canceled")
    BY <2>1, <2>3, <1>18, <1>d DEF AfterRun, At, Goto, store, ghosts
  <2>4. QED
    BY <2>2, <2>3
<1>19. CASE RecoverGet(w)
  BY <1>19, <1>b, <1>d DEF RecoverGet, At, Goto, store, scanner, ghosts
<1>20. QED
  BY <1>1, <1>2, <1>3, <1>4, <1>5, <1>6, <1>7, <1>8, <1>9, <1>10, <1>11, <1>12,
     <1>13, <1>14, <1>15, <1>16, <1>17, <1>18, <1>19 DEF WorkerStep

LEMMA QuietCrash ==
  ASSUME TypeInv, NEW j \in Jobs, Quiet(j), NEW s \in Servers, Crash(s)
  PROVE  Undisturbed(j)
<1>1. UNCHANGED <<newest, last, runs, job>>
  BY DEF Crash, store, ghosts
<1>2. \A b \in Actors : pc'[b] \in {"idle", pc[b]} /\ pend'[b] \in {NoRec, pend[b]}
  BY DEF Crash
<1>3. \A w \in Workers : plan'[w][j] \in {"none", plan[w][j]} /\ cands'[w] \subseteq cands[w]
  BY DEF Crash, NoPlan
<1>4. \A b \in Actors : Holds(b, j)' => Holds(b, j)
  BY <1>1, <1>2, <1>3 DEF Holds, Unbound
<1>5. QED
  BY <1>1, <1>4 DEF Quiet, Undisturbed, Created

\* For any number of actors and crashes: no step of anyone disturbs a job that is
\* terminal in both views and in nobody's hands.
THEOREM QuietStaysFinal == Spec => QuietIsFinal
<1>1. Spec => []TypeInv
  BY InitTyped, NextTyped, PTL DEF Spec
<1>2. TypeInv /\ [Next]_vars =>
        [\A j \in Jobs : Quiet(j) => Undisturbed(j)]_vars
  BY QuietWrite, QuietClient, QuietWorker, QuietCrash DEF Next
<1>3. Spec => [][\A j \in Jobs : Quiet(j) => Undisturbed(j)]_vars
  BY <1>1, <1>2, PTL DEF Spec
<1>4. QED
  BY <1>3 DEF QuietIsFinal, Undisturbed

-----------------------------------------------------------------------------
(***************************************************************************)
(* RunsWithinAttempts, with one worker and no retries.                     *)
(*                                                                         *)
(* The attempt in the newest record of a job counts the runs of its action *)
(* - unless a cancel request is on record, which a handler may have        *)
(* written with the attempt it read before.  Such a record is never        *)
(* followed by another run: the flag stays, and the worker looks for it    *)
(* after every lease.                                                      *)
(***************************************************************************)
OneWorker == \A v, w \in Workers : v = w

\* Jobs whose action a worker runs.
Executable(j) == j \in Jobs /\ Kind[j] \in {"op", "conn"}

Counted(j, r) == r.cancel \/ runs[j] <= r.attempt

\* The attempt of r is one more than was run, and the last allowed at most.
Room(j, r) == r.cancel \/ (runs[j] < r.attempt /\ r.attempt <= MaxAttempts)

\* The handlers only ever cancel an executable job.
HandlersCancel ==
  /\ budget.retries = 0
  /\ \A c \in Clients :
       /\ pc[c] # "retryAppend"
       /\ pend[c] # NoRec /\ Executable(job[c]) =>
            pend[c].cancel /\ pend[c].status # "queued"

\* No record is stamped later than the clock.
StampsPast ==
  /\ \A j \in Jobs : Created(j) => newest[j].at <= clock[j]
  /\ \A a \in Actors : stamped[a] => /\ pend[a] # NoRec
                                    /\ pend[a].at <= clock[job[a]]

FileCounts ==
  \A j \in Jobs :
    /\ ~Created(j) => runs[j] = 0
    /\ Created(j) /\ Executable(j) =>
         /\ Counted(j, newest[j])
         /\ last[j].status = "queued" =>
              newest[j].cancel \/ newest[j].attempt = last[j].attempt

\* The record a worker has in flight counts the runs, and a record that was
\* stamped later is a cancel request.
InFlight(w) ==
  pend[w] # NoRec /\ Executable(job[w]) =>
    /\ pc[w] \in {"reap", "lease", "leased", "recovered", "after"}
    /\ Counted(job[w], pend[w])
    /\ stamped[w] /\ newest[job[w]].at > pend[w].at => newest[job[w]].cancel
    /\ pc[w] = "leased" => pend[w].status = "running" /\ Room(job[w], pend[w])
    /\ pc[w] = "recovered" => pend[w].cancel
    /\ pc[w] = "lease" => \A d \in cands[w] : d.job = job[w] =>
                            pend[w].cancel \/ pend[w].attempt = d.attempt

\* What a worker is about to lease has the attempt it read.
Considered(w) ==
  /\ pc[w] # "lease" => cands[w] = {}
  /\ \A d \in cands[w] : Executable(d.job) =>
       newest[d.job].cancel \/ newest[d.job].attempt = d.attempt

\* The labels at which a worker has leased a job and not started its action.
Leased == {"leased", "execute", "gotRunning", "gotOther", "start", "recoverGet",
           "recoverMark", "recovered"}

\* Only a job with a cancel request is found in another status than running.
InHand(w) ==
  pend[w] = NoRec /\ Executable(job[w]) =>
    /\ pc[w] \notin {"remarkGet", "remark"}
    /\ pc[w] = "mark" =>
         \/ newest[job[w]].cancel
         \/ attempt[w] = newest[job[w]].attempt + 1 /\ attempt[w] <= MaxAttempts
    /\ pc[w] \in Leased =>
         /\ Room(job[w], newest[job[w]])
         /\ newest[job[w]].cancel \/ newest[job[w]].status = "running"
    /\ pc[w] \in {"gotOther", "recoverGet", "recoverMark", "recovered"} =>
         newest[job[w]].cancel

\* A worker that has found no cancel request has an attempt left.
MayRun(w) == Executable(job[w]) /\ pc[w] \in Leased \ {"leased"} =>
               runs[job[w]] < MaxAttempts

WorkerInv(w) == InFlight(w) /\ Considered(w) /\ InHand(w) /\ MayRun(w)

RunInv == /\ HandlersCancel /\ StampsPast /\ FileCounts /\ RunsWithinAttempts
          /\ \A w \in Workers : WorkerInv(w)

LEMMA InitRuns == MaxRetries = 0 /\ Init => RunInv
<1>1. SUFFICES ASSUME MaxRetries = 0, Init PROVE RunInv
  OBVIOUS
<1>2. HandlersCancel /\ StampsPast /\ FileCounts /\ RunsWithinAttempts
  BY <1>1, Actors2 DEF Init, HandlersCancel, StampsPast, FileCounts, RunsWithinAttempts, Created
<1>3. ASSUME NEW w \in Workers PROVE WorkerInv(w)
  BY <1>1, Actors2 DEF Init, WorkerInv, InFlight, Considered, InHand, MayRun, Leased
<1>4. QED
  BY <1>2, <1>3 DEF RunInv

\* A step that leaves the workers alone keeps what holds of them if what it
\* writes of an existing job is a cancel request.
LEMMA WorkersUndisturbed ==
  ASSUME TypeInv, RunInv, UNCHANGED <<runs, plan, cands>>,
         \A w \in Workers : /\ pc'[w] = pc[w] /\ pend'[w] = pend[w] /\ job'[w] = job[w]
                            /\ stamped'[w] = stamped[w] /\ attempt'[w] = attempt[w],
         \A j \in Jobs : Created(j) /\ Executable(j) =>
            newest'[j] = newest[j] \/ newest'[j].cancel
  PROVE  \A w \in Workers : WorkerInv(w)'
<1>1. SUFFICES ASSUME NEW w \in Workers PROVE WorkerInv(w)'
  OBVIOUS
<1>2. WorkerInv(w) /\ w \in Actors /\ TypeOK /\ HeldJobsExist
  BY Actors2 DEF RunInv, TypeInv
<1>3. HoldsJob(w) => Created(job[w]) /\ job[w] \in Jobs
  BY <1>2, HeldRecord
<1>4. InFlight(w)'
  BY <1>2, <1>3 DEF WorkerInv, InFlight, HoldsJob, Executable, Counted, Room
<1>5. Considered(w)'
  <2>1. ASSUME NEW d \in cands[w], Executable(d.job)
        PROVE  newest'[d.job].cancel \/ newest'[d.job].attempt = d.attempt
    <3>1. Created(d.job) /\ d.job \in Jobs
      BY <1>2, <2>1 DEF HeldJobsExist, Executable
    <3>2. newest[d.job].cancel \/ newest[d.job].attempt = d.attempt
      BY <1>2, <2>1 DEF WorkerInv, Considered
    <3>3. QED
      BY <2>1, <3>1, <3>2
  <2>2. QED
    BY <2>1, <1>2 DEF WorkerInv, Considered, Executable
<1>6. InHand(w)'
  <2>1. pc[w] \in Leased \cup {"mark"} => HoldsJob(w)
    BY DEF HoldsJob, Unbound, Leased
  <2>2. QED
    BY <2>1, <1>2, <1>3 DEF WorkerInv, InHand, Executable, Room, Leased
<1>7. MayRun(w)'
  BY <1>2 DEF WorkerInv, MayRun, Executable
<1>8. QED
  BY <1>4, <1>5, <1>6, <1>7 DEF WorkerInv

\* What an update leaves of the record it read.
LEMMA FieldsKept ==
  ASSUME NEW r \in Record
  PROVE  /\ \A s \in Statuses : /\ Completed(r, s).cancel <=> r.cancel
                                /\ Completed(r, s).attempt = r.attempt
                                /\ Completed(r, s).status = s
         /\ Requeued(r).cancel <=> r.cancel
         /\ Requeued(r).attempt = r.attempt
         /\ Requeued(r).status = "queued"
         /\ \A n \in Nat, lease \in BOOLEAN :
              /\ Marked(r, n, lease).cancel <=> r.cancel
              /\ Marked(r, n, lease).attempt = n
              /\ Marked(r, n, lease).status = "running"
  BY DEF Completed, Requeued, Marked, Record

\* A step of a handler that does not touch the file.
LEMMA HandlerMoves ==
  ASSUME TypeInv, RunInv, NEW c \in Clients,
         UNCHANGED <<store, plan, cands, runs, stamped>>, pend[c] = NoRec,
         budget'.retries = 0, pc'[c] # "retryAppend",
         \A b \in Actors \ {c} : pc'[b] = pc[b] /\ pend'[b] = pend[b]
                                 /\ job'[b] = job[b] /\ attempt'[b] = attempt[b],
         pend'[c] # NoRec /\ Executable(job'[c]) =>
            pend'[c].cancel /\ pend'[c].status # "queued"
  PROVE  RunInv'
<1>a. /\ UNCHANGED <<newest, last, clock>> /\ c \in Actors /\ ~stamped[c]
      /\ \A w \in Workers : w \in Actors \ {c}
      /\ HandlersCancel /\ StampsPast /\ FileCounts /\ RunsWithinAttempts
  BY Actors2 DEF store, RunInv, StampsPast
<1>1. HandlersCancel'
  BY <1>a, Actors2 DEF HandlersCancel, Executable
<1>2. StampsPast'
  BY <1>a DEF StampsPast, Created
<1>3. FileCounts' /\ RunsWithinAttempts'
  BY <1>a DEF FileCounts, RunsWithinAttempts, Created, Executable, Counted
<1>4. \A w \in Workers : WorkerInv(w)'
  BY <1>a, WorkersUndisturbed
<1>5. QED
  BY <1>1, <1>2, <1>3, <1>4 DEF RunInv

LEMMA HandlerRuns ==
  ASSUME TypeInv, CauseInv, RunInv, NEW c \in Clients, ClientStep(c)
  PROVE  RunInv'
<1>a. TypeOK /\ HeldJobsExist /\ c \in Actors /\ HandlersCancel /\ budget.retries = 0
  BY Actors2 DEF TypeInv, RunInv, HandlersCancel
<1>b. HoldsJob(c) /\ pend[c] = NoRec
  BY DEF HoldsJob, Unbound, ClientStep, RefuseUnsupported, UiGet, UiMark,
         UiComplete, UiAbandon, CancelUpdate, RetryAppend, At
<1>c. job[c] \in Jobs /\ Created(job[c]) /\ newest[job[c]] \in Record
  BY <1>a, <1>b, HeldRecord
<1>d. Backed(job[c], pc[c])
  BY <1>a DEF CauseInv
\* Beginning an update of the job it holds.
<1>e. ASSUME NEW r, NEW l, l # "retryAppend", Begin(c, job[c], r, l),
             Executable(job[c]) => r.cancel /\ r.status # "queued",
             UNCHANGED <<store, attempt, scanner, ghosts, budget>>
      PROVE  RunInv'
  <2>1. /\ UNCHANGED <<plan, cands, runs, stamped, job>> /\ pc'[c] = l /\ pend'[c] = r
        /\ \A b \in Actors \ {c} : pc'[b] = pc[b] /\ pend'[b] = pend[b]
    BY <1>a, <1>e DEF Begin, scanner, ghosts, TypeOK
  <2>2. QED
    BY <2>1, <1>a, <1>b, <1>e, HandlerMoves
<1>1. CASE RefuseUnsupported(c)
  BY <1>1, <1>d, <1>e DEF RefuseUnsupported, At, Backed, Executable
<1>2. CASE UiGet(c)
  <2>1. /\ UNCHANGED <<plan, cands, runs, stamped, job, pend>> /\ pc'[c] = "uiMark"
        /\ \A b \in Actors \ {c} : pc'[b] = pc[b] /\ attempt'[b] = attempt[b]
    BY <1>2, <1>a DEF UiGet, Goto, scanner, ghosts, TypeOK
  <2>2. QED
    BY <2>1, <1>2, <1>a, <1>b, HandlerMoves DEF UiGet
<1>3. CASE UiMark(c)
  BY <1>3, <1>d, <1>e DEF UiMark, At, Backed, Executable
<1>4. CASE UiComplete(c)
  BY <1>4, <1>d, <1>e DEF UiComplete, At, Backed, Executable
<1>5. CASE CancelUpdate(c)
  <2>1. /\ CanceledQueued(newest[job[c]]).cancel
        /\ CanceledQueued(newest[job[c]]).status # "queued"
        /\ CancelRecorded(newest[job[c]]).cancel
        /\ CancelRecorded(newest[job[c]]).status # "queued"
    BY <1>c DEF Record, CanceledQueued, CancelRecorded
  <2>2. QED
    BY <2>1, <1>5, <1>e DEF CancelUpdate
<1>6. CASE RetryAppend(c)
  BY <1>6, <1>a DEF RetryAppend, At, HandlersCancel
<1>7. CASE UiAbandon(c)
  <2>1. /\ UNCHANGED <<plan, cands, runs, stamped, job, pend>> /\ pc'[c] = "idle"
        /\ \A b \in Actors \ {c} : pc'[b] = pc[b] /\ attempt'[b] = attempt[b]
    BY <1>7, <1>a DEF UiAbandon, Goto, scanner, ghosts, TypeOK
  <2>2. QED
    BY <2>1, <1>7, <1>a, <1>b, HandlerMoves DEF UiAbandon
<1>8. QED
  BY <1>1, <1>2, <1>3, <1>4, <1>5, <1>6, <1>7 DEF ClientStep

LEMMA RequestRuns ==
  ASSUME TypeInv, RunInv, NEW c \in Clients, Request(c)
  PROVE  RunInv'
<1>a. /\ TypeOK /\ HeldJobsExist /\ c \in Actors /\ HandlersCancel /\ budget.retries = 0
      /\ StampsPast /\ FileCounts /\ RunsWithinAttempts
      /\ \A w \in Workers : w \in Actors \ {c}
  BY Actors2 DEF TypeInv, RunInv, HandlersCancel
<1>1. CASE Enqueue(c)
  <2>1. PICK l : CreateJob(c, l) /\ l \in {"uiGet", "refuse", "idle"}
    BY <1>1 DEF Enqueue, AfterCreate
  <2>2. /\ pend[c] = NoRec /\ UNCHANGED <<pend, stamped, attempt, plan, cands, runs, budget>>
        /\ job' = [job EXCEPT ![c] = created + 1] /\ pc' = [pc EXCEPT ![c] = l]
        /\ clock' = [clock EXCEPT ![created + 1] = 1]
        /\ Line(created + 1, Queued)
    BY <1>1, <2>1 DEF Enqueue, CreateJob, At, Goto, scanner, ghosts
  <2>3. /\ created + 1 \in Jobs /\ ~Created(created + 1)
        /\ \A j \in Jobs : Created(j) => j # created + 1
    BY <1>a, <2>1 DEF CreateJob, HeldJobsExist, TypeOK, Jobs
  <2>4. /\ newest' = [newest EXCEPT ![created + 1] = Queued]
        /\ last' = [last EXCEPT ![created + 1] = Queued]
    BY <2>2, <2>3 DEF Line, Created
  <2>5. \A j \in Jobs : /\ Created(j) => /\ newest'[j] = newest[j] /\ last'[j] = last[j]
                                        /\ clock'[j] = clock[j]
                        /\ Created(j) => Created(j)'
                        /\ Created(j)' => Created(j) \/ j = created + 1
    BY <2>2, <2>3, <2>4, <1>a DEF Created, TypeOK
  <2>6. /\ newest'[created + 1] = Queued /\ last'[created + 1] = Queued
        /\ clock'[created + 1] = 1
    BY <2>2, <2>3, <2>4, <1>a DEF TypeOK
  <2>7. /\ \A b \in Actors \ {c} : pc'[b] = pc[b] /\ job'[b] = job[b]
        /\ pc'[c] = l
    BY <2>2, <1>a DEF TypeOK
  <2>8. HandlersCancel'
    BY <2>1, <2>2, <2>7, <1>a, Actors2 DEF HandlersCancel, Executable
  <2>9. StampsPast'
    <3>1. \A j \in Jobs : Created(j)' => newest'[j].at <= clock'[j]
      BY <2>5, <2>6, <1>a DEF StampsPast, Queued
    <3>2. ASSUME NEW a \in Actors, stamped'[a]
          PROVE  pend'[a] # NoRec /\ pend'[a].at <= clock'[job'[a]]
      <4>1. pend[a] # NoRec /\ pend[a].at <= clock[job[a]] /\ a # c
        BY <3>2, <2>2, <1>a DEF StampsPast
      <4>2. job[a] \in Jobs /\ Created(job[a])
        BY <4>1, <1>a DEF HeldJobsExist
      <4>3. QED
        BY <4>1, <4>2, <2>2, <2>5, <2>7
    <3>3. QED
      BY <3>1, <3>2 DEF StampsPast
  <2>10. FileCounts'
    <3>1. runs[created + 1] = 0
      BY <2>3, <1>a DEF FileCounts
    <3>2. ASSUME NEW j \in Jobs
          PROVE  /\ ~Created(j)' => runs'[j] = 0
                 /\ Created(j)' /\ Executable(j) =>
                      /\ Counted(j, newest[j])'
                      /\ last'[j].status = "queued" =>
                           newest'[j].cancel \/ newest'[j].attempt = last'[j].attempt
      <4>1. CASE Created(j)
        BY <4>1, <2>2, <2>5, <1>a DEF FileCounts, Counted
      <4>2. CASE ~Created(j)
        BY <4>2, <3>1, <2>2, <2>5, <2>6, <1>a DEF FileCounts, Counted, Queued
      <4>3. QED
        BY <4>1, <4>2
    <3>3. QED
      BY <3>2 DEF FileCounts, Executable
  <2>11. RunsWithinAttempts'
    BY <2>2, <1>a DEF RunsWithinAttempts
  <2>12. \A w \in Workers : WorkerInv(w)'
    <3>1. \A w \in Workers : /\ pc'[w] = pc[w] /\ pend'[w] = pend[w] /\ job'[w] = job[w]
                            /\ stamped'[w] = stamped[w] /\ attempt'[w] = attempt[w]
      BY <2>2, <2>7, <1>a
    <3>2. QED
      BY <3>1, <2>2, <2>5, WorkersUndisturbed
  <2>13. QED
    BY <2>8, <2>9, <2>10, <2>11, <2>12 DEF RunInv
<1>2. CASE CancelGet(c)
  <2>1. PICK j \in Jobs :
          /\ job' = [job EXCEPT ![c] = j]
          /\ Goto(c, CASE newest[j].status = "queued" -> "cancelQueued"
                       [] newest[j].status \in Terminal -> "idle"
                       [] OTHER -> "cancelRunning")
    BY <1>2 DEF CancelGet
  <2>2. /\ pend[c] = NoRec /\ UNCHANGED <<store, pend, stamped, attempt, plan, cands, runs>>
        /\ budget' = [budget EXCEPT !.cancels = @ - 1]
    BY <1>2 DEF CancelGet, At, scanner
  <2>3. /\ \A b \in Actors \ {c} : pc'[b] = pc[b] /\ job'[b] = job[b]
        /\ pc'[c] # "retryAppend" /\ budget'.retries = 0
    BY <2>1, <2>2, <1>a DEF Goto, TypeOK
  <2>4. QED
    BY <2>2, <2>3, HandlerMoves
<1>3. CASE Retry(c)
  BY <1>3, <1>a DEF Retry
<1>4. QED
  BY <1>1, <1>2, <1>3 DEF Request

LEMMA StampRuns ==
  ASSUME TypeInv, RunInv, NEW a \in Actors, Stamp(a)
  PROVE  RunInv'
<1>a. /\ TypeOK /\ HeldJobsExist /\ HandlersCancel
      /\ StampsPast /\ FileCounts /\ RunsWithinAttempts
  BY DEF TypeInv, RunInv
<1>b. /\ pend[a] # NoRec /\ job[a] \in Jobs /\ Created(job[a]) /\ pend[a] \in Record
      /\ newest[job[a]] \in Record /\ clock[job[a]] \in Nat /\ ~stamped[a]
  BY <1>a DEF Stamp, HeldJobsExist, TypeOK, Created
<1>c. /\ UNCHANGED <<newest, last, created, pc, job, attempt, plan, cands, runs, budget>>
      /\ clock' = [clock EXCEPT ![job[a]] = @ + 1]
      /\ pend' = [pend EXCEPT ![a] = [pend[a] EXCEPT !.at = clock[job[a]] + 1]]
      /\ stamped' = [stamped EXCEPT ![a] = TRUE]
  BY DEF Stamp, scanner, ghosts
<1>d. /\ pend'[a] = [pend[a] EXCEPT !.at = clock[job[a]] + 1]
      /\ \A b \in Actors \ {a} : pend'[b] = pend[b] /\ stamped'[b] = stamped[b]
      /\ stamped'[a]
      /\ clock'[job[a]] = clock[job[a]] + 1
      /\ \A j \in Jobs \ {job[a]} : clock'[j] = clock[j]
  BY <1>a, <1>b, <1>c DEF TypeOK
<1>e. /\ pend'[a].status = pend[a].status /\ pend'[a].attempt = pend[a].attempt
      /\ pend'[a].cancel = pend[a].cancel /\ pend'[a].at = clock[job[a]] + 1
      /\ pend'[a] \in Record /\ pend'[a] # NoRec
  BY <1>b, <1>d, StampedIsRecord, NoRecIsNone DEF Record
<1>1. HandlersCancel'
  <2>1. ASSUME NEW c \in Clients
        PROVE  /\ pc'[c] # "retryAppend"
               /\ pend'[c] # NoRec /\ Executable(job[c]) => pend'[c].cancel /\ pend'[c].status # "queued"
    BY <1>a, <1>b, <1>c, <1>d, <1>e, Actors2 DEF HandlersCancel
  <2>2. QED
    BY <2>1, <1>a, <1>c DEF HandlersCancel, Executable
<1>2. StampsPast'
  <2>1. \A j \in Jobs : Created(j) => newest[j].at <= clock'[j]
    BY <1>a, <1>b, <1>d DEF StampsPast, TypeOK, Record, Created
  <2>2. ASSUME NEW b \in Actors, stamped'[b]
        PROVE  pend'[b] # NoRec /\ pend'[b].at <= clock'[job[b]]
    <3>1. CASE b = a
      BY <3>1, <1>b, <1>d, <1>e
    <3>2. CASE b # a
      <4>1. pend[b] # NoRec /\ pend[b].at <= clock[job[b]]
        BY <3>2, <2>2, <1>a, <1>d DEF StampsPast
      <4>2. job[b] \in Jobs /\ pend[b].at \in Nat /\ clock[job[b]] \in Nat
        BY <4>1, <1>a DEF HeldJobsExist, TypeOK, Record
      <4>3. QED
        BY <3>2, <4>1, <4>2, <1>b, <1>d
    <3>3. QED
      BY <3>1, <3>2
  <2>3. QED
    BY <2>1, <2>2, <1>c DEF StampsPast, Created
<1>3. FileCounts' /\ RunsWithinAttempts'
  BY <1>a, <1>c DEF FileCounts, RunsWithinAttempts, Created, Executable, Counted
<1>4. ASSUME NEW w \in Workers PROVE WorkerInv(w)'
  <2>a. WorkerInv(w) /\ w \in Actors
    BY Actors2 DEF RunInv
  <2>1. InFlight(w)'
    <3>1. CASE w = a
      <4>1. newest[job[a]].at <= clock[job[a]] /\ newest[job[a]].at \in Nat
        BY <1>a, <1>b DEF StampsPast, Record
      <4>2. ~(newest[job[a]].at > pend'[a].at)
        BY <4>1, <1>b, <1>e
      <4>3. QED
        BY <3>1, <4>2, <2>a, <1>b, <1>c, <1>e DEF WorkerInv, InFlight, Executable, Counted, Room
    <3>2. CASE w # a
      BY <3>2, <2>a, <1>c, <1>d DEF WorkerInv, InFlight, Executable, Counted, Room
    <3>3. QED
      BY <3>1, <3>2
  <2>2. Considered(w)'
    BY <2>a, <1>c DEF WorkerInv, Considered, Executable
  <2>3. InHand(w)'
    BY <2>a, <1>c, <1>d, <1>e DEF WorkerInv, InHand, Executable, Room, Leased
  <2>4. MayRun(w)'
    BY <2>a, <1>c DEF WorkerInv, MayRun, Executable
  <2>5. QED
    BY <2>1, <2>2, <2>3, <2>4 DEF WorkerInv
<1>5. QED
  BY <1>1, <1>2, <1>3, <1>4 DEF RunInv

LEMMA AppendRuns ==
  ASSUME TypeInv, RunInv, OneWorker, NEW a \in Actors, AppendUpdate(a)
  PROVE  RunInv'
<1>a. /\ TypeOK /\ HeldJobsExist /\ HandlersCancel
      /\ StampsPast /\ FileCounts /\ RunsWithinAttempts
  BY DEF TypeInv, RunInv
<1>b. /\ pend[a] # NoRec /\ job[a] \in Jobs /\ Created(job[a]) /\ pend[a] \in Record
      /\ newest[job[a]] \in Record /\ clock[job[a]] \in Nat /\ stamped[a]
  BY <1>a DEF AppendUpdate, HeldJobsExist, TypeOK, Created
<1>c. /\ UNCHANGED <<clock, created, pc, job, attempt, plan, cands, runs, budget>>
      /\ pend' = [pend EXCEPT ![a] = NoRec]
      /\ stamped' = [stamped EXCEPT ![a] = FALSE]
      /\ Line(job[a], pend[a])
  BY DEF AppendUpdate, scanner, ghosts
<1>d. /\ pend'[a] = NoRec /\ ~stamped'[a]
      /\ \A b \in Actors \ {a} : pend'[b] = pend[b] /\ stamped'[b] = stamped[b]
      /\ last'[job[a]] = pend[a]
      /\ \/ newest'[job[a]] = pend[a]
         \/ newest'[job[a]] = newest[job[a]] /\ newest[job[a]].at > pend[a].at
      /\ \A j \in Jobs \ {job[a]} : newest'[j] = newest[j] /\ last'[j] = last[j]
  <2>1. ~(newest[job[a]].at <= pend[a].at) => newest[job[a]].at > pend[a].at
    BY <1>b DEF Record
  <2>2. QED
    BY <2>1, <1>a, <1>b, <1>c DEF TypeOK, Line
<1>e. \A j \in Jobs : Created(j)' <=> Created(j)
  BY <1>b, <1>d, NoRecIsNone DEF Created
<1>1. HandlersCancel'
  BY <1>a, <1>c, <1>d, Actors2 DEF HandlersCancel, Executable
<1>2. StampsPast'
  <2>1. \A j \in Jobs : Created(j) => newest'[j].at <= clock[j]
    BY <1>a, <1>b, <1>d DEF StampsPast
  <2>2. \A b \in Actors : stamped'[b] => pend'[b] # NoRec /\ pend'[b].at <= clock[job[b]]
    BY <1>a, <1>d DEF StampsPast
  <2>3. QED
    BY <2>1, <2>2, <1>c, <1>e DEF StampsPast
<1>3. RunsWithinAttempts'
  BY <1>a, <1>c DEF RunsWithinAttempts
<1>4. CASE a \in Clients
  <2>a. a \notin Workers /\ \A w \in Workers : w \in Actors \ {a}
    BY <1>4, Actors2
  <2>1. Executable(job[a]) => /\ pend[a].cancel /\ pend[a].status # "queued"
                              /\ newest'[job[a]] = newest[job[a]] \/ newest'[job[a]].cancel
    BY <1>4, <1>a, <1>b, <1>d DEF HandlersCancel
  <2>2. FileCounts'
    <3>1. ASSUME NEW j \in Jobs
          PROVE  /\ ~Created(j) => runs[j] = 0
                 /\ Created(j) /\ Executable(j) =>
                      /\ newest'[j].cancel \/ runs[j] <= newest'[j].attempt
                      /\ last'[j].status = "queued" =>
                           newest'[j].cancel \/ newest'[j].attempt = last'[j].attempt
      BY <2>1, <1>a, <1>d DEF FileCounts, Counted
    <3>2. QED
      BY <3>1, <1>c, <1>e DEF FileCounts, Executable, Counted
  <2>3. \A j \in Jobs : Created(j) /\ Executable(j) =>
          newest'[j] = newest[j] \/ newest'[j].cancel
    BY <2>1, <1>d
  <2>4. \A w \in Workers : WorkerInv(w)'
    BY <2>a, <2>3, <1>c, <1>d, WorkersUndisturbed
  <2>5. QED
    BY <2>2, <2>4, <1>1, <1>2, <1>3 DEF RunInv
<1>5. CASE a \in Workers
  <2>a. WorkerInv(a) /\ \A w \in Workers : w = a
    BY <1>5 DEF RunInv, OneWorker
  <2>1. Executable(job[a]) =>
          newest'[job[a]] = pend[a] \/ (newest'[job[a]] = newest[job[a]] /\ newest'[job[a]].cancel)
    BY <2>a, <1>b, <1>d DEF WorkerInv, InFlight
  <2>2. FileCounts'
    <3>0. Executable(job[a]) => Counted(job[a], pend[a])
      BY <2>a, <1>b DEF WorkerInv, InFlight
    <3>1. ASSUME NEW j \in Jobs
          PROVE  /\ ~Created(j) => runs[j] = 0
                 /\ Created(j) /\ Executable(j) =>
                      /\ newest'[j].cancel \/ runs[j] <= newest'[j].attempt
                      /\ last'[j].status = "queued" =>
                           newest'[j].cancel \/ newest'[j].attempt = last'[j].attempt
      BY <2>1, <3>0, <1>a, <1>d DEF FileCounts, Counted
    <3>2. QED
      BY <3>1, <1>c, <1>e DEF FileCounts, Executable, Counted
  <2>3. InFlight(a)'
    BY <1>d DEF InFlight
  <2>4. Considered(a)'
    <3>1. pc[a] # "lease" => cands[a] = {}
      BY <2>a DEF WorkerInv, Considered
    <3>2. ASSUME NEW d \in cands[a], Executable(d.job)
          PROVE  newest'[d.job].cancel \/ newest'[d.job].attempt = d.attempt
      <4>1. pc[a] = "lease" /\ d.job \in Jobs
        BY <3>1, <3>2 DEF Executable
      <4>2. CASE d.job = job[a]
        <5>1. pend[a].cancel \/ pend[a].attempt = d.attempt
          BY <4>1, <4>2, <3>2, <2>a, <1>b DEF WorkerInv, InFlight
        <5>2. QED
          BY <5>1, <4>2, <2>1, <3>2
      <4>3. CASE d.job # job[a]
        BY <4>1, <4>3, <3>2, <2>a, <1>d DEF WorkerInv, Considered
      <4>4. QED
        BY <4>2, <4>3
    <3>3. QED
      BY <3>1, <3>2, <1>c DEF Considered, Executable
  <2>5. InHand(a)'
    <3>1. SUFFICES ASSUME Executable(job[a])
                   PROVE  /\ pc[a] \notin {"remarkGet", "remark", "mark"}
                          /\ pc[a] \in Leased =>
                               /\ Room(job[a], newest'[job[a]])
                               /\ newest'[job[a]].cancel \/ newest'[job[a]].status = "running"
                          /\ pc[a] \in {"gotOther", "recoverGet", "recoverMark", "recovered"} =>
                               newest'[job[a]].cancel
      BY <1>c DEF InHand, Executable, Room
    <3>2. /\ pc[a] \in {"reap", "lease", "leased", "recovered", "after"}
          /\ pc[a] = "leased" => pend[a].status = "running" /\ Room(job[a], pend[a])
          /\ pc[a] = "recovered" => pend[a].cancel
      BY <3>1, <2>a, <1>b DEF WorkerInv, InFlight
    <3>3. QED
      BY <3>1, <3>2, <2>1 DEF Leased, Room
  <2>6. MayRun(a)'
    BY <2>a, <1>c DEF WorkerInv, MayRun, Executable
  <2>7. \A w \in Workers : WorkerInv(w)'
    BY <2>a, <2>3, <2>4, <2>5, <2>6 DEF WorkerInv
  <2>8. QED
    BY <2>2, <2>7, <1>1, <1>2, <1>3 DEF RunInv
<1>6. QED
  BY <1>4, <1>5 DEF Actors

\* A step of the worker itself does not touch the file.
LEMMA WorkerMoves ==
  ASSUME TypeInv, RunInv, OneWorker, NEW w \in Workers, WorkerInv(w)',
         UNCHANGED <<store, stamped, budget>>, pend[w] = NoRec,
         \A b \in Actors \ {w} : pc'[b] = pc[b] /\ pend'[b] = pend[b]
                                 /\ job'[b] = job[b],
         FileCounts', RunsWithinAttempts'
  PROVE  RunInv'
<1>a. /\ UNCHANGED <<newest, last, clock>> /\ w \in Actors /\ ~stamped[w]
      /\ \A c \in Clients : c \in Actors \ {w}
      /\ HandlersCancel /\ StampsPast /\ \A v \in Workers : v = w
  BY Actors2 DEF store, RunInv, StampsPast, OneWorker
<1>1. HandlersCancel'
  BY <1>a DEF HandlersCancel, Executable
<1>2. StampsPast'
  BY <1>a DEF StampsPast, Created
<1>3. QED
  BY <1>1, <1>2, <1>a DEF RunInv

LEMMA WorkerRuns ==
  ASSUME TypeInv, CauseInv, RunInv, OneWorker, NEW w \in Workers, WorkerStep(w)
  PROVE  RunInv'
<1>a. /\ TypeOK /\ HeldJobsExist /\ w \in Actors /\ WorkerInv(w)
      /\ FileCounts /\ RunsWithinAttempts
  BY Actors2 DEF TypeInv, RunInv
<1>c. pend[w] = NoRec
  BY DEF WorkerStep, ReapScan, ReapJob, LeaseScan, NothingToLease, RefuseLease,
         LeasePick, LeaseMark, CheckCanceled, CheckLeased, CheckUnsupported,
         ExecuteGet, CheckPassed, RemarkGet, Remark, StartRun, FinishRun,
         LeaveRunning, RecoverGet, AfterRun, At
<1>d. ASSUME pc[w] \notin Unbound
      PROVE  /\ job[w] \in Jobs /\ Created(job[w]) /\ newest[job[w]] \in Record
             /\ Executable(job[w]) => Counted(job[w], newest[job[w]])
  BY <1>d, <1>a, HeldRecord DEF HoldsJob, FileCounts
<1>e. ~stamped[w]
  BY <1>a, <1>c DEF RunInv, StampsPast
\* Beginning an update.
<1>f. ASSUME NEW j \in Jobs, NEW r \in Record, NEW l, Begin(w, j, r, l),
             UNCHANGED <<store, ghosts, budget>>,
             l # "lease" => cands'[w] = {},
             cands'[w] \subseteq cands[w],
             Executable(j) =>
               /\ l \in {"reap", "lease", "leased", "recovered", "after"}
               /\ Counted(j, r)
               /\ l = "leased" => r.status = "running" /\ Room(j, r)
               /\ l = "recovered" => r.cancel /\ runs[j] < MaxAttempts
               /\ l = "lease" => \A d \in cands'[w] : d.job = j =>
                                   r.cancel \/ r.attempt = d.attempt
      PROVE  RunInv'
  <2>1. /\ UNCHANGED <<newest, last, clock, runs, stamped>>
        /\ pc'[w] = l /\ pend'[w] = r /\ job'[w] = j /\ r # NoRec
        /\ \A b \in Actors \ {w} : pc'[b] = pc[b] /\ pend'[b] = pend[b]
                                   /\ job'[b] = job[b]
    BY <1>a, <1>f, NoRecIsNone DEF Begin, store, ghosts, TypeOK
  <2>2. InFlight(w)'
    BY <2>1, <1>e, <1>f DEF InFlight, Executable, Counted, Room
  <2>3. Considered(w)'
    BY <2>1, <1>a, <1>f DEF WorkerInv, Considered, Executable
  <2>4. InHand(w)'
    BY <2>1 DEF InHand
  <2>5. MayRun(w)'
    BY <2>1, <1>f DEF MayRun, Leased, Executable
  <2>6. FileCounts' /\ RunsWithinAttempts'
    BY <2>1, <1>a DEF FileCounts, RunsWithinAttempts, Created, Executable, Counted
  <2>7. QED
    BY <2>1, <2>2, <2>3, <2>4, <2>5, <2>6, <1>c, <1>f, WorkerMoves DEF WorkerInv
\* Going on with the same job.
<1>g. ASSUME NEW l, Goto(w, l), UNCHANGED <<store, job, pend, stamped, cands, budget, runs>>,
             pc[w] # "lease", l # "lease",
             Executable(job[w]) =>
               /\ l \notin {"remarkGet", "remark", "mark"}
               /\ l \in Leased =>
                    /\ Room(job[w], newest[job[w]])
                    /\ newest[job[w]].cancel \/ newest[job[w]].status = "running"
                    /\ l # "leased" => runs[job[w]] < MaxAttempts
               /\ l \in {"gotOther", "recoverGet", "recoverMark", "recovered"} =>
                    newest[job[w]].cancel
      PROVE  RunInv'
  <2>1. /\ UNCHANGED <<newest, last, clock>> /\ pc'[w] = l
        /\ \A b \in Actors \ {w} : pc'[b] = pc[b]
    BY <1>a, <1>g DEF Goto, store, TypeOK
  <2>2. InFlight(w)'
    BY <1>c, <1>g DEF InFlight
  <2>3. Considered(w)'
    BY <2>1, <1>a, <1>g DEF WorkerInv, Considered, Executable
  <2>4. InHand(w)'
    BY <2>1, <1>g DEF InHand, Executable, Room
  <2>5. MayRun(w)'
    BY <2>1, <1>g DEF MayRun, Executable
  <2>6. FileCounts' /\ RunsWithinAttempts'
    BY <2>1, <1>a, <1>g DEF FileCounts, RunsWithinAttempts, Created, Executable, Counted
  <2>7. QED
    BY <2>1, <2>2, <2>3, <2>4, <2>5, <2>6, <1>c, <1>g, WorkerMoves DEF WorkerInv
\* Completing the job it runs.
<1>h. ASSUME NEW s \in Terminal, pc[w] \notin Unbound, Complete(w, s)
      PROVE  RunInv'
  <2>1. Completed(newest[job[w]], s) \in Record
    BY <1>d, <1>h, RecordsMade DEF Statuses
  <2>2. Executable(job[w]) => Counted(job[w], Completed(newest[job[w]], s))
    BY <1>d, <1>h DEF Counted, Completed, Record
  <2>3. cands'[w] = {}
    BY <1>h, <1>a DEF Complete, WorkerInv, Considered, Unbound
  <2>4. QED
    BY <2>1, <2>2, <2>3, <1>d, <1>f, <1>h DEF Complete
<1>1. CASE ReapScan(w)
  BY <1>1, <1>g DEF ReapScan, At, Leased, ghosts
<1>2. CASE ReapJob(w)
  <2>1. PICK j \in Jobs :
          /\ plan[w][j] # "none"
          /\ Begin(w, j, IF plan[w][j] = "requeue"
                         THEN Requeued(newest[j])
                         ELSE Completed(newest[j], "timed_out"), "reap")
    BY <1>2 DEF ReapJob
  <2>2. Created(j) /\ newest[j] \in Record
    BY <2>1, <1>a, CreatedRecord DEF HeldJobsExist
  <2>3. Executable(j) => Counted(j, newest[j])
    BY <2>2, <1>a DEF FileCounts
  <2>4. \A r \in {Requeued(newest[j]), Completed(newest[j], "timed_out")} :
          r \in Record /\ (Executable(j) => Counted(j, r))
    <3>1. "timed_out" \in Statuses
      BY DEF Statuses, Terminal
    <3>2. /\ Requeued(newest[j]) \in Record
          /\ Completed(newest[j], "timed_out") \in Record
      BY <2>2, <3>1, RecordsMade
    <3>3. /\ Requeued(newest[j]).cancel <=> newest[j].cancel
          /\ Completed(newest[j], "timed_out").cancel <=> newest[j].cancel
          /\ Requeued(newest[j]).attempt = newest[j].attempt
          /\ Completed(newest[j], "timed_out").attempt = newest[j].attempt
      BY <2>2, <3>1, FieldsKept
    <3>4. QED
      BY <2>3, <3>2, <3>3 DEF Counted
  <2>5. cands'[w] = {} /\ UNCHANGED <<store, ghosts, budget>>
    BY <1>2, <1>a DEF ReapJob, At, WorkerInv, Considered
  <2>6. QED
    BY <2>1, <2>4, <2>5, <1>f
<1>3. CASE LeaseScan(w)
  <2>1. cands'[w] = {[job |-> j, attempt |-> last[j].attempt] : j \in
          {i \in Jobs : last[i] # NoRec /\ last[i].status = "queued"}}
    BY <1>3, <1>a DEF LeaseScan, TypeOK
  <2>2. /\ UNCHANGED <<newest, last, clock, runs, stamped, pend, job>> /\ pc'[w] = "lease"
        /\ \A b \in Actors \ {w} : pc'[b] = pc[b]
    BY <1>3, <1>a DEF LeaseScan, Goto, store, ghosts, TypeOK
  <2>3. ASSUME NEW d \in cands'[w], Executable(d.job)
        PROVE  newest[d.job].cancel \/ newest[d.job].attempt = d.attempt
    <3>1. PICK j \in Jobs : /\ d = [job |-> j, attempt |-> last[j].attempt]
                            /\ last[j] # NoRec /\ last[j].status = "queued"
      BY <2>1, <2>3
    <3>2. d.job = j /\ d.attempt = last[j].attempt /\ Created(j)
      BY <3>1, <1>a DEF HeldJobsExist
    <3>3. QED
      BY <3>1, <3>2, <2>3, <1>a DEF FileCounts
  <2>4. Considered(w)'
    BY <2>2, <2>3 DEF Considered, Executable
  <2>5. InFlight(w)' /\ InHand(w)' /\ MayRun(w)'
    BY <2>2, <1>c DEF InFlight, InHand, MayRun, Leased
  <2>6. FileCounts' /\ RunsWithinAttempts'
    BY <2>2, <1>a DEF FileCounts, RunsWithinAttempts, Created, Executable, Counted
  <2>7. QED
    BY <2>2, <2>4, <2>5, <2>6, <1>3, <1>c, WorkerMoves DEF LeaseScan, WorkerInv
<1>4. CASE NothingToLease(w)
  <2>1. /\ UNCHANGED <<newest, last, clock, runs, stamped, pend, job, cands>> /\ pc'[w] = "idle"
        /\ \A b \in Actors \ {w} : pc'[b] = pc[b]
    BY <1>4, <1>a DEF NothingToLease, Goto, store, ghosts, scanner, TypeOK
  <2>2. Considered(w)'
    BY <2>1, <1>4 DEF NothingToLease, Considered
  <2>3. InFlight(w)' /\ InHand(w)' /\ MayRun(w)'
    BY <2>1, <1>c DEF InFlight, InHand, MayRun, Leased
  <2>4. FileCounts' /\ RunsWithinAttempts'
    BY <2>1, <1>a DEF FileCounts, RunsWithinAttempts, Created, Executable, Counted
  <2>5. QED
    BY <2>1, <2>2, <2>3, <2>4, <1>4, <1>c, WorkerMoves DEF NothingToLease, WorkerInv
<1>5. CASE RefuseLease(w)
  <2>1. PICK d \in cands[w] :
          /\ cands' = [cands EXCEPT ![w] = @ \ {d}]
          /\ Begin(w, d.job, Completed(newest[d.job], "failed"), "lease")
    BY <1>5 DEF RefuseLease
  <2>2. d.job \in Jobs /\ Created(d.job) /\ newest[d.job] \in Record
    BY <2>1, <1>a, CreatedRecord DEF Candidate, HeldJobsExist, TypeOK
  <2>3. DEFINE r == Completed(newest[d.job], "failed")
  <2>4. r \in Record /\ (r.cancel <=> newest[d.job].cancel) /\ r.attempt = newest[d.job].attempt
    <3>1. "failed" \in Statuses
      BY DEF Statuses, Terminal
    <3>2. r \in Record
      BY <2>2, <3>1, RecordsMade
    <3>3. (r.cancel <=> newest[d.job].cancel) /\ r.attempt = newest[d.job].attempt
      BY <2>2, <3>1, FieldsKept
    <3>4. QED
      BY <3>2, <3>3
  <2>5. cands'[w] \subseteq cands[w]
    BY <2>1, <1>a DEF TypeOK
  <2>6. ASSUME Executable(d.job)
        PROVE  /\ Counted(d.job, r)
               /\ \A e \in cands'[w] : e.job = d.job => r.cancel \/ r.attempt = e.attempt
    <3>1. Counted(d.job, newest[d.job])
      BY <2>2, <2>6, <1>a DEF FileCounts
    <3>2. \A e \in cands[w] : e.job = d.job =>
            newest[d.job].cancel \/ newest[d.job].attempt = e.attempt
      BY <2>6, <1>a DEF WorkerInv, Considered
    <3>3. QED
      BY <3>1, <3>2, <2>4, <2>5 DEF Counted
  <2>7. QED
    <3> HIDE DEF r
    <3>1. Begin(w, d.job, r, "lease")
      BY <2>1 DEF r
    <3>2. QED
      BY <3>1, <2>2, <2>4, <2>5, <2>6, <1>5, <1>f DEF RefuseLease
<1>6. CASE LeasePick(w)
  <2>1. PICK d \in cands[w] :
          /\ d.attempt < MaxAttempts
          /\ cands' = [cands EXCEPT ![w] = {}]
          /\ attempt' = [attempt EXCEPT ![w] = newest[d.job].attempt + 1]
          /\ job' = [job EXCEPT ![w] = d.job]
    BY <1>6 DEF LeasePick
  <2>2. /\ d.job \in Jobs /\ Created(d.job) /\ newest[d.job] \in Record
        /\ d.attempt \in Nat
    BY <2>1, <1>a, CreatedRecord DEF Candidate, HeldJobsExist, TypeOK
  <2>3. /\ UNCHANGED <<newest, last, clock, runs, stamped, pend>>
        /\ pc'[w] = "mark" /\ job'[w] = d.job /\ cands'[w] = {}
        /\ attempt'[w] = newest[d.job].attempt + 1
        /\ \A b \in Actors \ {w} : pc'[b] = pc[b] /\ job'[b] = job[b]
    BY <2>1, <1>6, <1>a DEF LeasePick, Goto, store, ghosts, TypeOK
  <2>4. Executable(d.job) =>
          \/ newest[d.job].cancel
          \/ attempt'[w] = newest[d.job].attempt + 1 /\ attempt'[w] <= MaxAttempts
    <3>1. Executable(d.job) => newest[d.job].cancel \/ newest[d.job].attempt = d.attempt
      BY <2>1, <1>a DEF WorkerInv, Considered
    <3>2. newest[d.job].attempt = d.attempt => newest[d.job].attempt + 1 <= MaxAttempts
      BY <2>1, <2>2
    <3>3. QED
      BY <3>1, <3>2, <2>3
  <2>5. InFlight(w)' /\ Considered(w)' /\ MayRun(w)'
    BY <2>3, <1>c DEF InFlight, Considered, MayRun, Leased
  <2>6. InHand(w)'
    BY <2>3, <2>4 DEF InHand, Leased, Executable
  <2>7. FileCounts' /\ RunsWithinAttempts'
    BY <2>3, <1>a DEF FileCounts, RunsWithinAttempts, Created, Executable, Counted
  <2>8. QED
    BY <2>3, <2>5, <2>6, <2>7, <1>6, <1>c, WorkerMoves DEF LeasePick, WorkerInv
<1>7. CASE LeaseMark(w)
  <2>1. /\ pc[w] = "mark" /\ pc[w] \notin Unbound /\ UNCHANGED <<store, ghosts, budget, cands>>
        /\ Begin(w, job[w], Marked(newest[job[w]], attempt[w], TRUE), "leased")
    BY <1>7 DEF LeaseMark, At, Unbound, scanner
  <2>2. DEFINE r == Marked(newest[job[w]], attempt[w], TRUE)
  <2>3. /\ r \in Record /\ r.status = "running" /\ r.attempt = attempt[w]
        /\ (r.cancel <=> newest[job[w]].cancel)
        /\ attempt[w] \in Nat /\ runs[job[w]] \in Nat /\ newest[job[w]].attempt \in Nat
    <3>1. attempt[w] \in Nat /\ runs[job[w]] \in Nat /\ newest[job[w]].attempt \in Nat
      BY <2>1, <1>a, <1>d DEF Record, TypeOK
    <3>2. newest[job[w]] \in Record
      BY <2>1, <1>d
    <3>3. r \in Record
      <4>1. "running" \in Statuses
        BY DEF Statuses, Active
      <4>2. QED
        BY <3>1, <3>2, <4>1, RecordsMade
    <3>4. /\ r.cancel <=> newest[job[w]].cancel
          /\ r.attempt = attempt[w] /\ r.status = "running"
      BY ZenonT(40), <3>1, <3>2, FieldsKept
    <3>5. QED
      BY <3>1, <3>3, <3>4
  <2>4. cands'[w] = {}
    BY <2>1, <1>a DEF WorkerInv, Considered
  <2>5. Executable(job[w]) => Counted(job[w], r) /\ Room(job[w], r)
    <3> HIDE DEF r
    <3>1. SUFFICES ASSUME Executable(job[w]), ~r.cancel
                   PROVE  runs[job[w]] < r.attempt /\ r.attempt <= MaxAttempts
      BY <2>3 DEF Counted, Room
    <3>2. attempt[w] = newest[job[w]].attempt + 1 /\ attempt[w] <= MaxAttempts
      BY <3>1, <2>1, <2>3, <1>a, <1>c DEF WorkerInv, InHand
    <3>3. runs[job[w]] <= newest[job[w]].attempt
      BY <3>1, <2>1, <2>3, <1>d DEF Counted
    <3>4. QED
      BY <3>2, <3>3, <2>3
  <2>6. QED
    <3> HIDE DEF r
    <3>1. Begin(w, job[w], r, "leased")
      BY <2>1 DEF r
    <3>2. QED
      BY <3>1, <2>1, <2>3, <2>4, <2>5, <1>d, <1>f
<1>8. CASE CheckCanceled(w)
  BY <1>8, <1>h DEF CheckCanceled, Unbound, Terminal
\* What the worker knows of a job it has leased.
<1>i. ASSUME pc[w] \in Leased
      PROVE  /\ pc[w] \notin Unbound
             /\ Executable(job[w]) =>
                  /\ Room(job[w], newest[job[w]])
                  /\ newest[job[w]].cancel \/ newest[job[w]].status = "running"
                  /\ pc[w] # "leased" => runs[job[w]] < MaxAttempts
                  /\ pc[w] \in {"gotOther", "recoverGet", "recoverMark", "recovered"} =>
                       newest[job[w]].cancel
  BY <1>a, <1>c, <1>i DEF WorkerInv, InHand, MayRun, Leased, Unbound
<1>9. CASE CheckLeased(w)
  <2>1. pc[w] \in Leased /\ ~newest[job[w]].cancel
    BY <1>9 DEF CheckLeased, At, Leased, CancelRequested
  <2>2. Executable(job[w]) => runs[job[w]] < MaxAttempts
    <3>1. Executable(job[w]) => /\ runs[job[w]] < newest[job[w]].attempt
                                /\ newest[job[w]].attempt <= MaxAttempts
      BY <2>1, <1>i DEF Room
    <3>2. runs[job[w]] \in Nat /\ newest[job[w]].attempt \in Nat
      BY <2>1, <1>a, <1>d, <1>i DEF TypeOK, Record
    <3>3. QED
      BY <3>1, <3>2
  <2>3. QED
    BY <2>1, <2>2, <1>9, <1>g, <1>i DEF CheckLeased, At, scanner, ghosts
<1>10. CASE CheckUnsupported(w)
  BY <1>10, <1>h DEF CheckUnsupported, At, Unbound, Terminal
<1>11. CASE ExecuteGet(w)
  <2>1. pc[w] = "execute" /\ pc[w] \in Leased
    BY <1>11 DEF ExecuteGet, At, Leased
  <2>2. CASE newest[job[w]].status = "running"
    BY <2>1, <2>2, <1>11, <1>g, <1>i DEF ExecuteGet, scanner, ghosts
  <2>3. CASE newest[job[w]].status # "running"
    BY <2>1, <2>3, <1>11, <1>g, <1>i DEF ExecuteGet, scanner, ghosts
  <2>4. QED
    BY <2>2, <2>3
<1>12. CASE CheckPassed(w)
  <2>1. pc[w] \in Leased /\ pc[w] \in {"gotRunning", "gotOther"} /\ ~newest[job[w]].cancel
    BY <1>12 DEF CheckPassed, At, Leased, CancelRequested
  <2>2. UNCHANGED <<store, job, pend, stamped, cands, budget, runs>>
    BY <1>12 DEF CheckPassed, scanner, ghosts
  <2>3. CASE pc[w] = "gotRunning"
    BY <2>1, <2>2, <2>3, <1>12, <1>g, <1>i DEF CheckPassed, At
  <2>4. CASE pc[w] = "gotOther"
    <3>1. ~Executable(job[w]) /\ Goto(w, "remarkGet")
      BY <2>1, <2>4, <1>12, <1>i DEF CheckPassed, At
    <3>2. QED
      BY <3>1, <2>2, <2>4, <1>g
  <2>5. QED
    BY <2>1, <2>3, <2>4
<1>13. CASE RemarkGet(w)
  <2>1. UNCHANGED <<store, job, pend, stamped, cands, budget, runs>>
    BY <1>13 DEF RemarkGet, scanner, ghosts
  <2>2. CASE pc[w] = "remarkGet"
    <3>1. ~Executable(job[w]) /\ Goto(w, "remark")
      BY <2>2, <1>13, <1>a, <1>c DEF RemarkGet, WorkerInv, InHand
    <3>2. QED
      BY <3>1, <2>1, <2>2, <1>g
  <2>3. CASE pc[w] = "recoverGet"
    <3>1. pc[w] \in Leased /\ Goto(w, "recoverMark")
      BY <2>3, <1>13 DEF RemarkGet, Leased
    <3>2. QED
      BY <3>1, <2>1, <2>3, <1>g, <1>i
  <2>4. QED
    BY <2>2, <2>3, <1>13 DEF RemarkGet
<1>14. CASE Remark(w)
  <2>1. /\ pc[w] \notin Unbound /\ UNCHANGED <<store, ghosts, budget, cands>>
        /\ pc[w] \in {"remark", "recoverMark"}
    BY <1>14 DEF Remark, Unbound, scanner
  <2>2. DEFINE r == Marked(newest[job[w]], attempt[w], FALSE)
  <2>3. r \in Record /\ (r.cancel <=> newest[job[w]].cancel)
    <3>1. attempt[w] \in Nat
      BY <1>a DEF TypeOK
    <3>2. newest[job[w]] \in Record
      BY <2>1, <1>d
    <3>3. r \in Record
      <4>1. "running" \in Statuses
        BY DEF Statuses, Active
      <4>2. QED
        BY <3>1, <3>2, <4>1, RecordsMade
    <3>4. /\ r.cancel <=> newest[job[w]].cancel
          /\ r.attempt = attempt[w] /\ r.status = "running"
      BY <3>1, <3>2, FieldsKept
    <3>5. QED
      BY <3>1, <3>3, <3>4
  <2>4. cands'[w] = {}
    BY <2>1, <1>a DEF WorkerInv, Considered, Unbound
  <2>5. CASE pc[w] = "remark"
    <3>1. ~Executable(job[w])
      BY <2>5, <1>a, <1>c DEF WorkerInv, InHand
    <3>2. Begin(w, job[w], r, "start")
      BY <2>5, <1>14 DEF Remark
    <3> HIDE DEF r
    <3>3. QED
      BY <3>1, <3>2, <2>1, <2>3, <2>4, <1>d, <1>f
  <2>6. CASE pc[w] = "recoverMark"
    <3>1. Begin(w, job[w], r, "recovered")
      BY <2>6, <1>14 DEF Remark
    <3> HIDE DEF r
    <3>2. Executable(job[w]) => r.cancel /\ runs[job[w]] < MaxAttempts /\ Counted(job[w], r)
      BY <2>3, <2>6, <1>i DEF Leased, Counted
    <3>3. QED
      BY <3>1, <3>2, <2>1, <2>3, <2>4, <1>d, <1>f
  <2>7. QED
    BY <2>1, <2>5, <2>6
<1>15. CASE StartRun(w)
  <2>1. /\ pc[w] \in Leased /\ pc[w] \in {"start", "recovered"}
        /\ UNCHANGED <<newest, last, clock, store, job, pend, stamped, cands, budget>>
        /\ runs' = [runs EXCEPT ![job[w]] = @ + 1]
    BY <1>15 DEF StartRun, Leased, scanner, store
  <2>2. /\ job[w] \in Jobs /\ Created(job[w]) /\ newest[job[w]] \in Record
        /\ runs[job[w]] \in Nat /\ Executable(job[w])
    <3>1. job[w] \in Jobs /\ Created(job[w]) /\ newest[job[w]] \in Record
      BY <2>1, <1>d, <1>i
    <3>2. Kind[job[w]] \in {"op", "conn"}
      BY <2>1, <1>a DEF CauseInv, Backed
    <3>3. QED
      BY <3>1, <3>2, <1>a DEF TypeOK, Executable
  <2>3. /\ pc'[w] = "running" /\ runs'[job[w]] = runs[job[w]] + 1
        /\ \A b \in Actors \ {w} : pc'[b] = pc[b]
        /\ \A j \in Jobs \ {job[w]} : runs'[j] = runs[j]
    BY <2>1, <2>2, <1>15, <1>a DEF StartRun, Goto, TypeOK
  <2>4. /\ Room(job[w], newest[job[w]]) /\ runs[job[w]] < MaxAttempts
    BY <2>1, <2>2, <1>i
  <2>5. Counted(job[w], newest[job[w]])'
    BY <2>1, <2>2, <2>3, <2>4 DEF Room, Counted, Record
  <2>6. FileCounts'
    <3>1. ASSUME NEW j \in Jobs
          PROVE  /\ ~Created(j) => runs'[j] = 0
                 /\ Created(j) /\ Executable(j) =>
                      /\ newest[j].cancel \/ runs'[j] <= newest[j].attempt
                      /\ last[j].status = "queued" =>
                           newest[j].cancel \/ newest[j].attempt = last[j].attempt
      <4>1. CASE j = job[w]
        BY <4>1, <2>1, <2>2, <2>5, <1>a DEF FileCounts, Counted
      <4>2. CASE j # job[w]
        BY <4>2, <2>3, <1>a DEF FileCounts, Counted
      <4>3. QED
        BY <4>1, <4>2
    <3>2. QED
      BY <3>1, <2>1 DEF FileCounts, Counted, Created, Executable
  <2>7. RunsWithinAttempts'
    BY <2>2, <2>3, <2>4, <1>a DEF RunsWithinAttempts, TypeOK
  <2>8. Considered(w)'
    BY <2>1, <2>3, <1>a DEF WorkerInv, Considered, Executable, Leased
  <2>9. InFlight(w)' /\ InHand(w)' /\ MayRun(w)'
    BY <2>1, <2>3, <1>c DEF InFlight, InHand, MayRun, Leased
  <2>10. QED
    BY <2>1, <2>3, <2>6, <2>7, <2>8, <2>9, <1>c, WorkerMoves DEF WorkerInv
<1>16. CASE FinishRun(w)
  BY <1>16, <1>h DEF FinishRun, Outcomes, At, Unbound, Terminal
<1>17. CASE LeaveRunning(w)
  BY <1>17, <1>g DEF LeaveRunning, At, Leased, scanner, ghosts
<1>18. CASE AfterRun(w)
  <2>1. CASE Complete(w, "canceled")
    BY <2>1, <1>18, <1>h DEF AfterRun, At, Unbound, Terminal
  <2>2. CASE ~Complete(w, "canceled")
    BY <2>2, <1>18, <1>g DEF AfterRun, At, Leased, ghosts
  <2>3. QED
    BY <2>1, <2>2
<1>19. CASE RecoverGet(w)
  <2>1. pc[w] \in Leased /\ pc[w] = "start" /\ Goto(w, "recoverGet")
    BY <1>19 DEF RecoverGet, At, Leased
  <2>2. QED
    BY <2>1, <1>19, <1>g, <1>i DEF RecoverGet, scanner, ghosts
<1>20. QED
  BY <1>1, <1>2, <1>3, <1>4, <1>5, <1>6, <1>7, <1>8, <1>9, <1>10, <1>11, <1>12,
     <1>13, <1>14, <1>15, <1>16, <1>17, <1>18, <1>19 DEF WorkerStep

LEMMA CrashRuns ==
  ASSUME TypeInv, RunInv, NEW s \in Servers, Crash(s)
  PROVE  RunInv'
<1>a. /\ TypeOK /\ HandlersCancel /\ StampsPast /\ FileCounts /\ RunsWithinAttempts
      /\ Clients \subseteq Actors /\ Workers \subseteq Actors
  BY Actors2 DEF TypeInv, RunInv
<1>1. /\ UNCHANGED <<newest, last, clock, runs, job, attempt>>
      /\ \A a \in Actors :
           \/ pc'[a] = "idle" /\ pend'[a] = NoRec /\ ~stamped'[a]
              /\ (a \in Workers => cands'[a] = {})
           \/ pc'[a] = pc[a] /\ pend'[a] = pend[a] /\ stamped'[a] = stamped[a]
              /\ (a \in Workers => cands'[a] = cands[a])
      /\ budget'.retries = budget.retries
  BY <1>a DEF Crash, store, ghosts, TypeOK
<1>2. HandlersCancel'
  BY <1>1, <1>a DEF HandlersCancel, Executable
<1>3. StampsPast'
  BY <1>1, <1>a DEF StampsPast, Created
<1>4. FileCounts' /\ RunsWithinAttempts'
  BY <1>1, <1>a DEF FileCounts, RunsWithinAttempts, Created, Executable, Counted
<1>5. ASSUME NEW w \in Workers PROVE WorkerInv(w)'
  <2>a. WorkerInv(w) /\ w \in Actors
    BY <1>a DEF RunInv
  <2>1. CASE pc'[w] = "idle" /\ pend'[w] = NoRec /\ cands'[w] = {}
    BY <2>1 DEF WorkerInv, InFlight, Considered, InHand, MayRun, Leased
  <2>2. CASE pc'[w] = pc[w] /\ pend'[w] = pend[w] /\ stamped'[w] = stamped[w]
             /\ cands'[w] = cands[w]
    BY <2>a, <2>2, <1>1 DEF WorkerInv, InFlight, Considered, InHand, MayRun, Leased,
       Executable, Counted, Room
  <2>3. QED
    BY <2>a, <2>1, <2>2, <1>1
<1>6. QED
  BY <1>2, <1>3, <1>4, <1>5 DEF RunInv

LEMMA NextRuns ==
  OneWorker /\ TypeInv /\ CauseInv /\ RunInv /\ [Next]_vars => RunInv'
<1>1. SUFFICES ASSUME OneWorker, TypeInv, CauseInv, RunInv, [Next]_vars PROVE RunInv'
  OBVIOUS
<1>2. CASE UNCHANGED vars
  <2>1. /\ UNCHANGED <<newest, last, clock, runs, job, attempt, pc, pend, stamped,
                      plan, cands, budget>>
    BY <1>2 DEF vars, store, local, scanner, ghosts
  <2>2. \A w \in Workers : WorkerInv(w)'
    BY <1>1, <2>1, WorkersUndisturbed
  <2>3. QED
    BY <1>1, <2>1, <2>2 DEF RunInv, HandlersCancel, StampsPast, FileCounts,
       RunsWithinAttempts, Created, Executable, Counted
<1>3. CASE Next
  BY <1>1, <1>3, StampRuns, AppendRuns, RequestRuns, HandlerRuns, WorkerRuns, CrashRuns
  DEF Next, Write
<1>4. QED
  BY <1>1, <1>2, <1>3

\* With one worker and no retry requests - whatever is canceled when, by any
\* number of handlers in any number of processes, and whatever crashes - the
\* action of a job starts no more often than max_attempts.
THEOREM RunsStayWithinAttempts ==
  OneWorker /\ MaxRetries = 0 => (Spec => []RunsWithinAttempts)
<1>1. SUFFICES ASSUME OneWorker, MaxRetries = 0 PROVE Spec => []RunsWithinAttempts
  OBVIOUS
<1>2. Spec => [](TypeInv /\ CauseInv)
  <2>1. Spec => []TypeInv
    BY InitTyped, NextTyped, PTL DEF Spec
  <2>2. QED
    BY <2>1, InitCause, NextCause, PTL DEF Spec
<1>3. Init => RunInv
  BY <1>1, InitRuns
<1>4. TypeInv /\ CauseInv /\ RunInv /\ [Next]_vars => RunInv'
  BY <1>1, NextRuns
<1>5. RunInv => RunsWithinAttempts
  BY DEF RunInv
<1>6. QED
  BY <1>2, <1>3, <1>4, <1>5, PTL DEF Spec

-----------------------------------------------------------------------------
(***************************************************************************)
(* The steps of JobLifecycle, with one worker, no cancel or retry requests *)
(* and only jobs that a worker runs.                                       *)
(***************************************************************************)
Solo == /\ OneWorker /\ MaxRetries = 0 /\ MaxCancels = 0
        /\ \A j \in Jobs : Kind[j] \in {"op", "conn"}

\* The handlers queue jobs and do nothing else.
HandlersQueue ==
  /\ asked = {} /\ budget.cancels = 0
  /\ \A c \in Clients : pc[c] = "idle" /\ pend[c] = NoRec

\* The file has one newest line of each job, and one that waits may be tried.
OneView ==
  \A j \in Jobs :
    /\ last[j] = newest[j]
    /\ Created(j) /\ newest[j].status = "queued" => newest[j].attempt < MaxAttempts

\* No older job waits.
First(j) == \A i \in Jobs : i < j /\ Created(i) => newest[i].status # "queued"

\* What a worker has decided, read or computed from the file is still so there.
Planned(w) ==
  /\ pc[w] # "reap" => plan[w] = NoPlan
  /\ pend[w] # NoRec => plan[w][job[w]] = "none"
  /\ \A j \in Jobs : plan[w][j] # "none" =>
       /\ newest[j].status = "running"
       /\ plan[w][j] = "requeue" => newest[j].attempt < MaxAttempts

Waiting(w) ==
  \A d \in cands[w] :
    /\ newest[d.job].status = "queued"
    /\ \A i \in Jobs : i < d.job /\ Created(i) /\ newest[i].status = "queued" =>
         \E e \in cands[w] : e.job = i

Updating(w) ==
  pend[w] # NoRec =>
    /\ pc[w] \in {"reap", "leased", "after"}
    /\ pc[w] = "reap" =>
         /\ newest[job[w]].status = "running" /\ pend[w].attempt = newest[job[w]].attempt
         /\ \/ pend[w].status = "queued" /\ pend[w].attempt < MaxAttempts
            \/ pend[w].status = "timed_out"
    /\ pc[w] = "leased" =>
         /\ newest[job[w]].status = "queued" /\ First(job[w])
         /\ pend[w].attempt = newest[job[w]].attempt + 1
    /\ pc[w] = "after" =>
         /\ newest[job[w]].status = "running" /\ pend[w].attempt = newest[job[w]].attempt
         /\ pend[w].status \in Lifecycle!EndStates /\ runs[job[w]] > 0

Working(w) ==
  /\ pc[w] = "mark" /\ pend[w] = NoRec => newest[job[w]].status = "queued" /\ First(job[w])
  /\ pc[w] = "running" => newest[job[w]].status = "running" /\ runs[job[w]] > 0

QueueWorker(w) == Planned(w) /\ Waiting(w) /\ Updating(w) /\ Working(w)

QueueInv == HandlersQueue /\ OneView /\ \A w \in Workers : QueueWorker(w)

LEMMA InitQueue == Solo /\ Init => QueueInv
<1>1. SUFFICES ASSUME Solo, Init PROVE QueueInv
  OBVIOUS
<1>2. HandlersQueue /\ OneView
  BY <1>1, Actors2 DEF Solo, Init, HandlersQueue, OneView, Created
<1>3. ASSUME NEW w \in Workers PROVE QueueWorker(w)
  BY <1>1, Actors2 DEF Init, QueueWorker, Planned, Waiting, Updating, Working, NoPlan
<1>4. QED
  BY <1>2, <1>3 DEF QueueInv

\* Nobody asked for a cancel, so none is on record.
LEMMA NoCancels ==
  ASSUME TypeInv, CauseInv, QueueInv
  PROVE  /\ \A j \in Jobs : Created(j) => /\ newest[j] \in Record /\ ~newest[j].cancel
                                          /\ ~CancelRequested(j)
                                          /\ newest[j].status # "canceled"
                                          /\ newest[j].status # "cancel_requested"
         /\ \A a \in Actors : pend[a] # NoRec => /\ pend[a] \in Record /\ ~pend[a].cancel
                                                 /\ job[a] \in Jobs /\ Created(job[a])
                                                 /\ pend[a].status # "canceled"
                                                 /\ pend[a].status # "cancel_requested"
<1>1. asked = {} /\ TypeOK /\ HeldJobsExist
  BY DEF QueueInv, HandlersQueue, TypeInv
<1>2. \A j \in Jobs : Created(j) => newest[j] \in Record /\ Caused(j, newest[j])
  BY CreatedRecord DEF CauseInv, StatusHasCause
<1>3. \A a \in Actors : pend[a] # NoRec => /\ pend[a] \in Record /\ Caused(job[a], pend[a])
                                          /\ job[a] \in Jobs /\ Created(job[a])
  BY <1>1 DEF CauseInv, TypeOK, HeldJobsExist
<1>4. QED
  BY <1>1, <1>2, <1>3 DEF Caused, CancelRequested

\* A step that leaves the worker alone and creates at most the youngest job.
LEMMA WorkersQueue ==
  ASSUME TypeInv, QueueInv, UNCHANGED <<runs, plan, cands>>,
         \A w \in Workers : /\ pc'[w] = pc[w] /\ pend'[w] = pend[w] /\ job'[w] = job[w],
         \A j \in Jobs : Created(j) => newest'[j] = newest[j],
         \A j \in Jobs : Created(j)' => Created(j) \/ j > created
  PROVE  \A w \in Workers : QueueWorker(w)'
<1>1. SUFFICES ASSUME NEW w \in Workers PROVE QueueWorker(w)'
  OBVIOUS
<1>2. QueueWorker(w) /\ w \in Actors /\ TypeOK /\ HeldJobsExist
  BY Actors2 DEF QueueInv, TypeInv
<1>3. HoldsJob(w) => Created(job[w]) /\ job[w] \in Jobs
  BY <1>2, HeldRecord
<1>4. ASSUME NEW j \in Jobs, Created(j), NEW i \in Jobs, i < j, Created(i)'
      PROVE  Created(i) /\ newest'[i] = newest[i]
  BY <1>2, <1>4 DEF HeldJobsExist, TypeOK, Jobs
<1>5. ASSUME NEW j \in Jobs, Created(j), First(j) PROVE First(j)'
  BY <1>4, <1>5 DEF First
<1>6. Planned(w)'
  BY <1>2 DEF QueueWorker, Planned, HeldJobsExist
<1>7. Waiting(w)'
  <2>1. SUFFICES ASSUME NEW d \in cands[w]
                 PROVE  /\ newest'[d.job].status = "queued"
                        /\ \A i \in Jobs : i < d.job /\ Created(i)' /\ newest'[i].status = "queued" =>
                             \E e \in cands[w] : e.job = i
    BY DEF Waiting
  <2>2. d.job \in Jobs /\ Created(d.job)
    BY <1>2, <2>1 DEF HeldJobsExist, TypeOK, Candidate
  <2>3. QED
    BY <1>2, <1>4, <2>1, <2>2 DEF QueueWorker, Waiting
<1>8. Updating(w)'
  <2>1. SUFFICES ASSUME pend[w] # NoRec PROVE Updating(w)'
    BY DEF Updating
  <2>2. Created(job[w]) /\ job[w] \in Jobs
    BY <1>3, <2>1 DEF HoldsJob
  <2>3. QED
    BY <1>2, <1>5, <2>1, <2>2 DEF QueueWorker, Updating
<1>9. Working(w)'
  <2>1. CASE pc[w] \in {"mark", "running"}
    <3>1. Created(job[w]) /\ job[w] \in Jobs
      BY <1>3, <2>1 DEF HoldsJob, Unbound
    <3>2. QED
      BY <1>2, <1>5, <2>1, <3>1 DEF QueueWorker, Working
  <2>2. CASE pc[w] \notin {"mark", "running"}
    BY <2>2 DEF Working
  <2>3. QED
    BY <2>1, <2>2
<1>10. QED
  BY <1>6, <1>7, <1>8, <1>9 DEF QueueWorker

LEMMA RequestQueue ==
  ASSUME Solo, TypeInv, RunInv, QueueInv, NEW c \in Clients, Request(c)
  PROVE  /\ QueueInv'
         /\ /\ created + 1 \in Jobs /\ ~Created(created + 1)
            /\ newest' = [newest EXCEPT ![created + 1] = Queued]
            /\ runs' = runs
<1>a. /\ TypeOK /\ HeldJobsExist /\ c \in Actors /\ budget.retries = 0 /\ budget.cancels = 0
      /\ HandlersQueue /\ OneView /\ \A w \in Workers : w \in Actors \ {c}
  BY Actors2 DEF TypeInv, RunInv, HandlersCancel, QueueInv, HandlersQueue
<1>1. Enqueue(c)
  BY <1>a DEF Request, CancelGet, Retry
<1>2. created + 1 \in Jobs /\ ~Created(created + 1)
  BY <1>1, <1>a DEF Enqueue, HeldJobsExist, TypeOK, Jobs
<1>3. CreateJob(c, "idle")
  BY <1>1, <1>2 DEF Enqueue, AfterCreate, Solo
<1>4. /\ UNCHANGED <<pend, stamped, attempt, plan, cands, runs, asked, budget>>
      /\ job' = [job EXCEPT ![c] = created + 1] /\ pc' = [pc EXCEPT ![c] = "idle"]
      /\ newest' = [newest EXCEPT ![created + 1] = Queued]
      /\ last' = [last EXCEPT ![created + 1] = Queued]
  BY <1>1, <1>2, <1>3 DEF Enqueue, CreateJob, Goto, Line, Created, scanner, ghosts
<1>5. /\ \A j \in Jobs \ {created + 1} : newest'[j] = newest[j] /\ last'[j] = last[j]
      /\ newest'[created + 1] = Queued /\ last'[created + 1] = Queued
      /\ \A b \in Actors \ {c} : pc'[b] = pc[b] /\ job'[b] = job[b]
      /\ pc'[c] = "idle"
  BY <1>2, <1>4, <1>a DEF TypeOK
<1>6. HandlersQueue'
  BY <1>4, <1>5, <1>a, Actors2 DEF HandlersQueue
<1>7. OneView'
  BY <1>5, <1>a DEF OneView, Created, Queued
<1>8. \A w \in Workers : QueueWorker(w)'
  <2>1. /\ \A j \in Jobs : Created(j) => newest'[j] = newest[j]
        /\ \A j \in Jobs : Created(j)' => Created(j) \/ j > created
    <3>1. \A j \in Jobs : Created(j) => newest'[j] = newest[j]
      BY <1>2, <1>5
    <3>2. \A j \in Jobs : Created(j)' => Created(j) \/ j = created + 1
      BY <1>5 DEF Created
    <3>3. created + 1 > created
      BY <1>a DEF TypeOK
    <3>4. QED
      BY <3>1, <3>2, <3>3
  <2>2. \A w \in Workers : pc'[w] = pc[w] /\ pend'[w] = pend[w] /\ job'[w] = job[w]
    BY <1>4, <1>5, <1>a
  <2>3. QED
    BY <2>1, <2>2, <1>4, WorkersQueue
<1>9. QED
  BY <1>2, <1>4, <1>6, <1>7, <1>8 DEF QueueInv

LEMMA HandlersRest ==
  ASSUME QueueInv, NEW c \in Clients, ClientStep(c) \/ Write(c)
  PROVE  FALSE
  BY DEF QueueInv, HandlersQueue, ClientStep, RefuseUnsupported, UiGet, UiMark,
     UiComplete, UiAbandon, CancelUpdate, RetryAppend, At, Write, Stamp, AppendUpdate

LEMMA StampQueue ==
  ASSUME Solo, TypeInv, QueueInv, NEW w \in Workers, Stamp(w)
  PROVE  QueueInv' /\ UNCHANGED <<newest, runs>>
<1>a. /\ TypeOK /\ w \in Actors /\ HandlersQueue /\ OneView /\ QueueWorker(w)
      /\ \A c \in Clients : c \in Actors \ {w}
      /\ \A v \in Workers : v = w
  BY Actors2 DEF TypeInv, QueueInv, Solo, OneWorker
<1>b. pend[w] # NoRec /\ job[w] \in Jobs /\ pend[w] \in Record /\ clock[job[w]] + 1 \in Nat
  BY <1>a DEF Stamp, TypeInv, HeldJobsExist, TypeOK
<1>c. /\ UNCHANGED <<newest, last, created, pc, job, plan, cands, runs, asked, budget>>
      /\ pend' = [pend EXCEPT ![w] = [pend[w] EXCEPT !.at = clock[job[w]] + 1]]
  BY DEF Stamp, scanner, ghosts
<1>d. /\ \A b \in Actors \ {w} : pend'[b] = pend[b]
      /\ pend'[w].status = pend[w].status /\ pend'[w].attempt = pend[w].attempt
      /\ pend'[w] # NoRec
  BY <1>a, <1>b, <1>c, StampedIsRecord, NoRecIsNone DEF TypeOK, Record
<1>1. HandlersQueue' /\ OneView'
  BY <1>a, <1>c, <1>d DEF HandlersQueue, OneView, Created
<1>2. Planned(w)' /\ Waiting(w)'
  BY <1>a, <1>b, <1>c DEF QueueWorker, Planned, Waiting, Created
<1>3. Updating(w)'
  BY <1>a, <1>b, <1>c, <1>d DEF QueueWorker, Updating, First, Created
<1>4. Working(w)'
  BY <1>a, <1>b, <1>c, <1>d DEF QueueWorker, Working, First, Created
<1>5. QED
  BY <1>1, <1>2, <1>3, <1>4, <1>a, <1>c DEF QueueInv, QueueWorker

LEMMA AppendQueue ==
  ASSUME Solo, TypeInv, CauseInv, RunInv, QueueInv, NEW w \in Workers, AppendUpdate(w)
  PROVE  /\ QueueInv' /\ runs' = runs
         /\ newest' = [newest EXCEPT ![job[w]] = pend[w]]
<1>a. /\ TypeOK /\ w \in Actors /\ HandlersQueue /\ OneView /\ QueueWorker(w)
      /\ \A c \in Clients : c \in Actors \ {w}
      /\ \A v \in Workers : v = w
      /\ InFlight(w) /\ Considered(w)
  BY Actors2 DEF TypeInv, QueueInv, Solo, OneWorker, RunInv, WorkerInv
<1>b. /\ pend[w] # NoRec /\ job[w] \in Jobs /\ Created(job[w]) /\ pend[w] \in Record
      /\ newest[job[w]] \in Record /\ stamped[w] /\ ~newest[job[w]].cancel
  BY NoCancels, <1>a DEF AppendUpdate
<1>c. /\ UNCHANGED <<created, pc, job, plan, cands, runs, asked, budget>>
      /\ pend' = [pend EXCEPT ![w] = NoRec]
      /\ Line(job[w], pend[w])
  BY DEF AppendUpdate, scanner, ghosts
<1>d. newest[job[w]].at <= pend[w].at
  <2>1. ~(newest[job[w]].at > pend[w].at)
    BY <1>a, <1>b DEF InFlight, Executable, Solo
  <2>2. QED
    BY <2>1, <1>b DEF Record
<1>e. /\ newest' = [newest EXCEPT ![job[w]] = pend[w]]
      /\ last' = [last EXCEPT ![job[w]] = pend[w]]
  BY <1>c, <1>d DEF Line
<1>f. /\ newest'[job[w]] = pend[w] /\ last'[job[w]] = pend[w]
      /\ \A j \in Jobs \ {job[w]} : newest'[j] = newest[j] /\ last'[j] = last[j]
      /\ \A b \in Actors \ {w} : pend'[b] = pend[b]
      /\ pend'[w] = NoRec
  BY <1>a, <1>b, <1>c, <1>e DEF TypeOK
<1>g. \A j \in Jobs : Created(j)' <=> Created(j)
  BY <1>b, <1>f, NoRecIsNone DEF Created
<1>h. /\ pc[w] \in {"reap", "leased", "after"} /\ Updating(w)
      /\ cands[w] = {}
  BY <1>a, <1>b DEF QueueWorker, Updating, Considered
<1>1. HandlersQueue'
  BY <1>a, <1>c, <1>f DEF HandlersQueue
<1>2. OneView'
  <2>1. pend[w].status = "queued" => pend[w].attempt < MaxAttempts
    <3>1. pc[w] = "leased" => pend[w].status = "running"
      BY <1>a, <1>b DEF InFlight, Executable, Solo
    <3>2. pc[w] = "after" => pend[w].status # "queued"
      <4>1. "queued" \notin Lifecycle!EndStates
        BY DEF Lifecycle!EndStates
      <4>2. QED
        BY <4>1, <1>b, <1>h DEF Updating
    <3>3. pc[w] = "reap" /\ pend[w].status = "queued" => pend[w].attempt < MaxAttempts
      BY <1>b, <1>h DEF Updating
    <3>4. QED
      BY <3>1, <3>2, <3>3, <1>h
  <2>2. QED
    BY <2>1, <1>a, <1>f, <1>g DEF OneView
<1>3. Planned(w)'
  BY <1>a, <1>b, <1>c, <1>f DEF QueueWorker, Planned
<1>4. Waiting(w)'
  BY <1>c, <1>h DEF Waiting
<1>5. Updating(w)' /\ Working(w)'
  BY <1>c, <1>f, <1>h DEF Updating, Working
<1>6. QED
  BY <1>1, <1>2, <1>3, <1>4, <1>5, <1>a, <1>c, <1>e DEF QueueInv, QueueWorker

LEMMA CrashQueue ==
  ASSUME TypeInv, QueueInv, NEW s \in Servers, Crash(s)
  PROVE  QueueInv' /\ UNCHANGED <<newest, runs>>
<1>a. /\ TypeOK /\ HandlersQueue /\ OneView
      /\ Clients \subseteq Actors /\ Workers \subseteq Actors
  BY Actors2 DEF TypeInv, QueueInv
<1>1. /\ UNCHANGED <<newest, last, runs, job, asked>>
      /\ \A a \in Actors :
           \/ pc'[a] = "idle" /\ pend'[a] = NoRec
              /\ (a \in Workers => cands'[a] = {} /\ plan'[a] = NoPlan)
           \/ pc'[a] = pc[a] /\ pend'[a] = pend[a]
              /\ (a \in Workers => cands'[a] = cands[a] /\ plan'[a] = plan[a])
      /\ budget'.cancels = budget.cancels
  BY <1>a DEF Crash, store, ghosts, TypeOK
<1>2. HandlersQueue' /\ OneView'
  BY <1>1, <1>a DEF HandlersQueue, OneView, Created
<1>3. ASSUME NEW w \in Workers PROVE QueueWorker(w)'
  <2>a. QueueWorker(w) /\ w \in Actors
    BY <1>a DEF QueueInv
  <2>1. CASE pc'[w] = "idle" /\ pend'[w] = NoRec /\ cands'[w] = {} /\ plan'[w] = NoPlan
    BY <2>1 DEF QueueWorker, Planned, Waiting, Updating, Working, NoPlan
  <2>2. CASE pc'[w] = pc[w] /\ pend'[w] = pend[w] /\ cands'[w] = cands[w] /\ plan'[w] = plan[w]
    BY <2>a, <2>2, <1>1 DEF QueueWorker, Planned, Waiting, Updating, Working, First, Created
  <2>3. QED
    BY <2>a, <2>1, <2>2, <1>1
<1>4. QED
  BY <1>1, <1>2, <1>3 DEF QueueInv

\* A step of the worker itself leaves the file and the other actors alone.
LEMMA WorkerQueueMoves ==
  ASSUME Solo, TypeInv, QueueInv, NEW w \in Workers, QueueWorker(w)',
         UNCHANGED <<store, asked, budget>>,
         \A b \in Actors \ {w} : pc'[b] = pc[b] /\ pend'[b] = pend[b]
  PROVE  QueueInv'
<1>1. /\ w \in Actors /\ HandlersQueue /\ OneView
      /\ \A c \in Clients : c \in Actors \ {w}
      /\ \A v \in Workers : v = w
      /\ UNCHANGED <<newest, last>>
  BY Actors2 DEF QueueInv, Solo, OneWorker, store
<1>2. HandlersQueue' /\ OneView'
  BY <1>1 DEF HandlersQueue, OneView, Created
<1>3. QED
  BY <1>1, <1>2 DEF QueueInv

LEMMA WorkerQueue ==
  ASSUME Solo, TypeInv, CauseInv, RunInv, QueueInv, NEW w \in Workers, WorkerStep(w)
  PROVE  /\ QueueInv' /\ newest' = newest
         /\ runs' = runs \/ StartRun(w)
<1>a. /\ TypeOK /\ HeldJobsExist /\ w \in Actors /\ WorkerInv(w) /\ QueueWorker(w)
      /\ OneView
  BY Actors2 DEF TypeInv, RunInv, QueueInv
<1>c. pend[w] = NoRec
  BY DEF WorkerStep, ReapScan, ReapJob, LeaseScan, NothingToLease, RefuseLease,
         LeasePick, LeaseMark, CheckCanceled, CheckLeased, CheckUnsupported,
         ExecuteGet, CheckPassed, RemarkGet, Remark, StartRun, FinishRun,
         LeaveRunning, RecoverGet, AfterRun, At
<1>d. ASSUME pc[w] \notin Unbound
      PROVE  /\ job[w] \in Jobs /\ Created(job[w]) /\ newest[job[w]] \in Record
             /\ ~CancelRequested(job[w]) /\ ~newest[job[w]].cancel
             /\ Kind[job[w]] \in {"op", "conn"} /\ Executable(job[w])
             /\ plan[w] = NoPlan
  BY <1>d, <1>a, HeldRecord, NoCancels DEF HoldsJob, Solo, Executable, QueueWorker, Planned, Unbound
\* What the worker knows of a job it has leased.
<1>i. ASSUME pc[w] \in Leased
      PROVE  /\ pc[w] \notin Unbound /\ newest[job[w]].status = "running"
             /\ pc[w] \notin {"gotOther", "recoverGet", "recoverMark", "recovered"}
  <2>1. pc[w] \notin Unbound
    BY <1>i DEF Leased, Unbound
  <2>2. QED
    BY <2>1, <1>a, <1>c, <1>d, <1>i DEF WorkerInv, InHand, Leased
<1>j. pc[w] \notin {"remarkGet", "remark"}
  BY <1>a, <1>c, <1>d DEF WorkerInv, InHand, Unbound
\* Beginning an update.
<1>f. ASSUME NEW j \in Jobs, NEW r \in Record, NEW l, Begin(w, j, r, l),
             UNCHANGED <<store, ghosts, budget>>, cands[w] = {}, cands'[w] = {},
             plan'[w] = NoPlan \/ l = "reap",
             plan'[w][j] = "none", \A i \in Jobs : plan'[w][i] \in {plan[w][i], "none"},
             \/ /\ l = "reap" /\ newest[j].status = "running"
                /\ r.attempt = newest[j].attempt
                /\ \/ r.status = "queued" /\ r.attempt < MaxAttempts
                   \/ r.status = "timed_out"
             \/ /\ l = "leased" /\ newest[j].status = "queued" /\ First(j)
                /\ r.attempt = newest[j].attempt + 1
             \/ /\ l = "after" /\ newest[j].status = "running"
                /\ r.attempt = newest[j].attempt
                /\ r.status \in Lifecycle!EndStates /\ runs[j] > 0
      PROVE  QueueInv' /\ newest' = newest /\ runs' = runs
  <2>1. /\ UNCHANGED <<newest, last, runs, created, asked>>
        /\ pc'[w] = l /\ pend'[w] = r /\ job'[w] = j /\ r # NoRec
        /\ \A b \in Actors \ {w} : pc'[b] = pc[b] /\ pend'[b] = pend[b]
    BY <1>a, <1>f, NoRecIsNone DEF Begin, store, ghosts, TypeOK
  <2>2. Planned(w)'
    BY <2>1, <1>a, <1>f DEF QueueWorker, Planned
  <2>3. Waiting(w)' /\ Working(w)'
    BY <2>1, <1>f DEF Waiting, Working
  <2>4. Updating(w)'
    BY <2>1, <1>f DEF Updating, First, Created
  <2>5. QED
    BY <2>1, <2>2, <2>3, <2>4, <1>f, WorkerQueueMoves DEF QueueWorker
\* Going on with the same job.
<1>g. ASSUME NEW l, Goto(w, l), UNCHANGED <<store, pend, plan, asked, budget, job, runs>>,
             cands[w] = {}, cands'[w] = {}, plan[w] = NoPlan, l \notin {"mark", "running"}
      PROVE  QueueInv' /\ newest' = newest /\ runs' = runs
  <2>1. /\ UNCHANGED <<newest, last>> /\ pc'[w] = l /\ pend'[w] = NoRec
        /\ \A b \in Actors \ {w} : pc'[b] = pc[b] /\ pend'[b] = pend[b]
    BY <1>a, <1>c, <1>g DEF Goto, store, TypeOK
  <2>2. Planned(w)'
    BY <2>1, <1>a, <1>g DEF QueueWorker, Planned
  <2>3. Waiting(w)' /\ Working(w)' /\ Updating(w)'
    BY <2>1, <1>g DEF Waiting, Working, Updating
  <2>4. QED
    BY <2>1, <2>2, <2>3, <1>g, WorkerQueueMoves DEF QueueWorker
<1>k. pc[w] # "lease" => cands[w] = {}
  BY <1>a DEF WorkerInv, Considered
<1>1. CASE ReapScan(w)
  <2>1. PICK late \in SUBSET Reapable, expired \in SUBSET Reapable :
          plan' = [plan EXCEPT ![w] =
                     [j \in Jobs |-> ReapDecision(last[j], j \in late, j \in expired)]]
    BY <1>1 DEF ReapScan
  <2>2. /\ UNCHANGED <<newest, last, runs, pend, job, cands, created, store, asked, budget>>
        /\ pc'[w] = "reap" /\ cands[w] = {} /\ cands'[w] = {}
        /\ \A b \in Actors \ {w} : pc'[b] = pc[b]
    BY <1>1, <1>a, <1>k DEF ReapScan, At, Goto, store, ghosts, TypeOK
  <2>3. ASSUME NEW j \in Jobs, plan'[w][j] # "none"
        PROVE  /\ newest[j].status = "running"
               /\ plan'[w][j] = "requeue" => newest[j].attempt < MaxAttempts
    <3>1. plan'[w][j] = ReapDecision(newest[j], j \in late, j \in expired)
      BY <2>1, <1>a DEF OneView, TypeOK
    <3>2. /\ InProgress(newest[j])
          /\ plan'[w][j] = "requeue" => newest[j].attempt < MaxAttempts
      BY <2>3, <3>1 DEF ReapDecision
    <3>3. newest[j].status # "cancel_requested"
      BY <3>2, NoCancels DEF InProgress, Created
    <3>4. QED
      BY <3>2, <3>3 DEF InProgress
  <2>4. Planned(w)'
    BY <2>2, <2>3, <1>c DEF Planned
  <2>5. Waiting(w)' /\ Updating(w)' /\ Working(w)'
    BY <2>2, <1>c DEF Waiting, Updating, Working
  <2>6. QED
    BY <2>2, <2>4, <2>5, WorkerQueueMoves DEF QueueWorker
<1>2. CASE ReapJob(w)
  <2>1. PICK j \in Jobs :
          /\ plan[w][j] # "none" /\ plan' = [plan EXCEPT ![w][j] = "none"]
          /\ Begin(w, j, IF plan[w][j] = "requeue"
                         THEN Requeued(newest[j])
                         ELSE Completed(newest[j], "timed_out"), "reap")
    BY <1>2 DEF ReapJob
  <2>2. /\ Created(j) /\ newest[j] \in Record /\ newest[j].status = "running"
        /\ plan[w][j] = "requeue" => newest[j].attempt < MaxAttempts
    BY <2>1, <1>a, CreatedRecord DEF HeldJobsExist, QueueWorker, Planned
  <2>3. /\ plan'[w][j] = "none" /\ \A i \in Jobs : plan'[w][i] \in {plan[w][i], "none"}
    BY <2>1, <1>a DEF TypeOK
  <2>4. /\ cands[w] = {} /\ cands'[w] = {} /\ UNCHANGED <<store, ghosts, budget>>
    BY <1>2, <1>k DEF ReapJob, At
  <2>5. "timed_out" \in Statuses
    BY DEF Statuses, Terminal
  <2>6. CASE plan[w][j] = "requeue"
    <3>1. /\ Requeued(newest[j]) \in Record /\ Requeued(newest[j]).status = "queued"
          /\ Requeued(newest[j]).attempt = newest[j].attempt
      BY <2>2, <2>5, RecordsMade, FieldsKept
    <3>2. Begin(w, j, Requeued(newest[j]), "reap")
      BY <2>1, <2>6
    <3>3. QED
      BY <3>1, <3>2, <2>2, <2>3, <2>4, <2>6, <1>f
  <2>7. CASE plan[w][j] # "requeue"
    <3>1. Completed(newest[j], "timed_out") \in Record
      BY <2>2, <2>5, RecordsMade
    <3>2. /\ Completed(newest[j], "timed_out").status = "timed_out"
          /\ Completed(newest[j], "timed_out").attempt = newest[j].attempt
      BY <2>2, <2>5, FieldsKept
    <3>3. Begin(w, j, Completed(newest[j], "timed_out"), "reap")
      BY <2>1, <2>7
    <3>4. QED
      BY <3>1, <3>2, <3>3, <2>2, <2>3, <2>4, <1>f
  <2>8. QED
    BY <2>6, <2>7
<1>3. CASE LeaseScan(w)
  <2>1. cands'[w] = {[job |-> j, attempt |-> last[j].attempt] : j \in
          {i \in Jobs : last[i] # NoRec /\ last[i].status = "queued"}}
    BY <1>3, <1>a DEF LeaseScan, TypeOK
  <2>2. /\ UNCHANGED <<newest, last, created, runs, plan, pend, job, store, asked, budget>>
        /\ pc'[w] = "lease" /\ plan[w] = NoPlan
        /\ \A b \in Actors \ {w} : pc'[b] = pc[b]
    BY <1>3, <1>a DEF LeaseScan, Goto, store, ghosts, TypeOK
  <2>3. Planned(w)' /\ Updating(w)' /\ Working(w)'
    BY <2>2, <1>c DEF Planned, Updating, Working, NoPlan
  <2>4. Waiting(w)'
    <3>1. SUFFICES ASSUME NEW d \in cands'[w]
                   PROVE  /\ newest[d.job].status = "queued"
                          /\ \A i \in Jobs : i < d.job /\ Created(i) /\ newest[i].status = "queued" =>
                               \E e \in cands'[w] : e.job = i
      BY <2>2 DEF Waiting, Created
    <3>2. newest[d.job].status = "queued"
      BY <2>1, <3>1, <1>a DEF OneView
    <3>3. ASSUME NEW i \in Jobs, Created(i), newest[i].status = "queued"
          PROVE  \E e \in cands'[w] : e.job = i
      <4>1. last[i] # NoRec /\ last[i].status = "queued"
        BY <3>3, <1>a DEF OneView, Created
      <4>2. [job |-> i, attempt |-> last[i].attempt] \in cands'[w]
        BY <4>1, <2>1
      <4>3. QED
        BY <4>2
    <3>4. QED
      BY <3>2, <3>3
  <2>5. QED
    BY <2>2, <2>3, <2>4, WorkerQueueMoves DEF QueueWorker
<1>4. CASE NothingToLease(w)
  <2>1. cands[w] = {} /\ pc[w] = "lease" /\ Goto(w, "idle")
        /\ UNCHANGED <<store, pend, plan, asked, budget, job, runs, cands>>
    BY <1>4 DEF NothingToLease, At, scanner, ghosts
  <2>2. plan[w] = NoPlan
    BY <2>1, <1>a DEF QueueWorker, Planned
  <2>3. QED
    BY <2>1, <2>2, <1>g
<1>5. CASE RefuseLease(w)
  <2>1. PICK d \in cands[w] : d.attempt >= MaxAttempts
    BY <1>5 DEF RefuseLease
  <2>2. d.job \in Jobs /\ Created(d.job) /\ newest[d.job] \in Record /\ ~newest[d.job].cancel
    BY <2>1, <1>a, NoCancels DEF HeldJobsExist, TypeOK, Candidate
  <2>3. newest[d.job].attempt = d.attempt
    BY <2>1, <2>2, <1>a DEF WorkerInv, Considered, Executable, Solo
  <2>4. newest[d.job].attempt < MaxAttempts
    BY <2>1, <2>2, <1>a DEF QueueWorker, Waiting, OneView
  <2>5. QED
    BY <2>1, <2>2, <2>3, <2>4 DEF Record
<1>6. CASE LeasePick(w)
  <2>1. PICK d \in cands[w] :
          /\ Oldest(cands[w], d)
          /\ cands' = [cands EXCEPT ![w] = {}]
          /\ job' = [job EXCEPT ![w] = d.job]
    BY <1>6 DEF LeasePick
  <2>2. d.job \in Jobs /\ Created(d.job)
    BY <2>1, <1>a DEF Candidate, HeldJobsExist, TypeOK
  <2>3. /\ UNCHANGED <<newest, last, created, runs, plan, pend, store, asked, budget>>
        /\ pc'[w] = "mark" /\ job'[w] = d.job /\ cands'[w] = {}
        /\ pc[w] = "lease"
        /\ \A b \in Actors \ {w} : pc'[b] = pc[b]
    BY <2>1, <1>6, <1>a DEF LeasePick, At, Goto, store, ghosts, TypeOK
  <2>4. newest[d.job].status = "queued" /\ First(d.job)
    <3>1. ASSUME NEW i \in Jobs, i < d.job, Created(i), newest[i].status = "queued"
          PROVE  FALSE
      <4>1. PICK e \in cands[w] : e.job = i
        BY <2>1, <3>1, <1>a DEF QueueWorker, Waiting
      <4>2. d.job <= i
        BY <2>1, <4>1 DEF Oldest
      <4>3. QED
        BY <4>2, <3>1, <2>2 DEF Jobs
    <3>2. QED
      BY <2>1, <3>1, <1>a DEF First, QueueWorker, Waiting
  <2>5. Planned(w)'
    BY <2>3, <1>a, <1>c DEF QueueWorker, Planned
  <2>6. Waiting(w)' /\ Updating(w)' /\ Working(w)'
    BY <2>3, <2>4, <1>c DEF Waiting, Updating, Working, First, Created
  <2>7. QED
    BY <2>3, <2>5, <2>6, WorkerQueueMoves DEF QueueWorker
<1>7. CASE LeaseMark(w)
  <2>1. /\ pc[w] = "mark" /\ pc[w] \notin Unbound /\ UNCHANGED <<store, ghosts, budget, cands, plan>>
        /\ Begin(w, job[w], Marked(newest[job[w]], attempt[w], TRUE), "leased")
    BY <1>7 DEF LeaseMark, At, Unbound, scanner
  <2>2. DEFINE r == Marked(newest[job[w]], attempt[w], TRUE)
  <2>3. attempt[w] \in Nat /\ "running" \in Statuses
    BY <1>a DEF TypeOK, Statuses, Active
  <2>4. r \in Record /\ r.attempt = attempt[w]
    <3>1. r \in Record
      BY <2>1, <2>3, <1>d, RecordsMade
    <3>2. r.attempt = attempt[w]
      BY <2>1, <2>3, <1>d, FieldsKept
    <3>3. QED
      BY <3>1, <3>2
  <2>5. attempt[w] = newest[job[w]].attempt + 1
    BY <2>1, <1>a, <1>c, <1>d DEF WorkerInv, InHand
  <2>6. newest[job[w]].status = "queued" /\ First(job[w])
    BY <2>1, <1>a, <1>c DEF QueueWorker, Working
  <2>7. /\ plan'[w] = NoPlan /\ plan'[w][job[w]] = "none"
        /\ \A i \in Jobs : plan'[w][i] \in {plan[w][i], "none"}
        /\ cands[w] = {} /\ cands'[w] = {}
    BY <2>1, <1>d, <1>k DEF NoPlan
  <2>8. QED
    <3> HIDE DEF r
    <3>1. Begin(w, job[w], r, "leased")
      BY <2>1 DEF r
    <3>2. QED
      BY <3>1, <2>1, <2>4, <2>5, <2>6, <2>7, <1>d, <1>f
<1>8. CASE CheckCanceled(w)
  BY <1>8, <1>d DEF CheckCanceled, Unbound
\* The steps after the lease that only move the worker on.
<1>l. ASSUME NEW l, pc[w] \notin Unbound, Goto(w, l), l \notin {"mark", "running"},
             UNCHANGED <<store, pend, plan, cands, asked, budget, job, runs>>
      PROVE  QueueInv' /\ newest' = newest /\ runs' = runs
  BY <1>d, <1>g, <1>k, <1>l DEF Unbound
<1>9. CASE CheckLeased(w)
  BY <1>9, <1>l DEF CheckLeased, At, Unbound, scanner, ghosts
<1>10. CASE CheckUnsupported(w)
  BY <1>10, <1>d DEF CheckUnsupported, At, Unbound
<1>11. CASE ExecuteGet(w)
  <2>1. PICK l \in {"gotRunning", "gotOther"} : Goto(w, l)
    BY <1>11 DEF ExecuteGet
  <2>2. QED
    BY <2>1, <1>11, <1>l DEF ExecuteGet, At, Unbound, scanner, ghosts
<1>12. CASE CheckPassed(w)
  <2>1. PICK l \in {"start", "remarkGet"} : Goto(w, l) /\ pc[w] \notin Unbound
    BY <1>12 DEF CheckPassed, At, Unbound
  <2>2. QED
    BY <2>1, <1>12, <1>l DEF CheckPassed, scanner, ghosts
<1>13. CASE RemarkGet(w)
  BY <1>13, <1>i, <1>j DEF RemarkGet, Leased
<1>14. CASE Remark(w)
  BY <1>14, <1>i, <1>j DEF Remark, Leased
<1>15. CASE StartRun(w)
  <2>1. /\ pc[w] \in Leased /\ pc[w] \in {"start", "recovered"}
        /\ UNCHANGED <<newest, last, created, store, job, pend, plan, cands, asked, budget>>
        /\ runs' = [runs EXCEPT ![job[w]] = @ + 1]
    BY <1>15 DEF StartRun, Leased, scanner, store
  <2>2. /\ job[w] \in Jobs /\ runs[job[w]] \in Nat /\ plan[w] = NoPlan /\ cands[w] = {}
    BY <2>1, <1>a, <1>d, <1>i, <1>k DEF TypeOK, Unbound
  <2>3. /\ pc'[w] = "running" /\ runs'[job[w]] > 0
        /\ \A b \in Actors \ {w} : pc'[b] = pc[b]
    <3>1. runs'[job[w]] = runs[job[w]] + 1
      BY <2>1, <2>2, <1>a DEF TypeOK
    <3>2. QED
      BY <3>1, <2>2, <1>15, <1>a DEF StartRun, Goto, TypeOK
  <2>4. Planned(w)' /\ Waiting(w)' /\ Updating(w)'
    BY <2>1, <2>2, <1>c DEF Planned, Waiting, Updating, NoPlan
  <2>5. Working(w)'
    BY <2>1, <2>3, <1>i DEF Working
  <2>6. QED
    BY <2>1, <2>3, <2>4, <2>5, <1>15, WorkerQueueMoves DEF QueueWorker
<1>16. CASE FinishRun(w)
  <2>1. PICK s \in Outcomes(Kind[job[w]]) : Complete(w, s)
    BY <1>16 DEF FinishRun
  <2>2. pc[w] = "running" /\ pc[w] \notin Unbound
    BY <1>16 DEF FinishRun, At, Unbound
  <2>3. s \in Statuses /\ s \in Lifecycle!EndStates
    BY <2>1 DEF Outcomes, Statuses, Terminal, Lifecycle!EndStates
  <2>4. newest[job[w]].status = "running" /\ runs[job[w]] > 0
    BY <2>2, <1>a DEF QueueWorker, Working
  <2>5. Completed(newest[job[w]], s) \in Record
    BY <2>2, <2>3, <1>d, RecordsMade
  <2>6. /\ Completed(newest[job[w]], s).attempt = newest[job[w]].attempt
        /\ Completed(newest[job[w]], s).status = s
    BY <2>2, <2>3, <1>d, FieldsKept
  <2>7. /\ plan'[w] = NoPlan /\ plan'[w][job[w]] = "none"
        /\ \A i \in Jobs : plan'[w][i] \in {plan[w][i], "none"}
        /\ cands[w] = {} /\ cands'[w] = {}
    BY <2>1, <2>2, <1>d, <1>k DEF NoPlan, Complete
  <2>8. QED
    BY <2>1, <2>2, <2>3, <2>4, <2>5, <2>6, <2>7, <1>d, <1>f DEF Complete
<1>17. CASE LeaveRunning(w)
  BY <1>17, <1>l DEF LeaveRunning, At, Unbound, scanner, ghosts
<1>18. CASE AfterRun(w)
  <2>1. pc[w] \notin Unbound /\ ~CancelRequested(job[w])
    BY <1>18, <1>d DEF AfterRun, At, Unbound
  <2>2. QED
    BY <2>1, <1>18, <1>l DEF AfterRun, ghosts
<1>19. CASE RecoverGet(w)
  <2>1. pc[w] \in Leased /\ newest[job[w]].status # "running"
    BY <1>19 DEF RecoverGet, At, Leased
  <2>2. QED
    BY <2>1, <1>i
<1>20. QED
  BY <1>1, <1>2, <1>3, <1>4, <1>5, <1>6, <1>7, <1>8, <1>9, <1>10, <1>11, <1>12,
     <1>13, <1>14, <1>15, <1>16, <1>17, <1>18, <1>19 DEF WorkerStep

\* What JobLifecycle sees of the file.
States == [j \in Jobs |-> IF Created(j) THEN newest[j].status ELSE "new"]
Attempts == [j \in Jobs |-> IF Created(j) THEN newest[j].attempt ELSE 0]

\* A record that is written changes what is seen of its job only.
LEMMA SeenChange ==
  ASSUME NEW j \in Jobs, NEW r \in Record, TypeOK, newest' = [newest EXCEPT ![j] = r]
  PROVE  /\ States' = [States EXCEPT ![j] = r.status]
         /\ Attempts' = [Attempts EXCEPT ![j] = r.attempt]
<1>1. /\ newest'[j] = r /\ r # NoRec
      /\ \A i \in Jobs \ {j} : newest'[i] = newest[i]
  BY NoRecIsNone DEF TypeOK
<1>2. /\ Created(j)' /\ \A i \in Jobs \ {j} : Created(i)' <=> Created(i)
  BY <1>1 DEF Created
<1>3. States' = [i \in Jobs |-> IF i = j THEN r.status ELSE States[i]]
  BY <1>1, <1>2 DEF States
<1>4. Attempts' = [i \in Jobs |-> IF i = j THEN r.attempt ELSE Attempts[i]]
  BY <1>1, <1>2 DEF Attempts
<1>5. QED
  BY <1>3, <1>4 DEF States, Attempts

LEMMA SeenRecord ==
  ASSUME NEW j \in Jobs, Created(j)
  PROVE  States[j] = newest[j].status /\ Attempts[j] = newest[j].attempt
  BY DEF States, Attempts

LEMMA SeenSame ==
  ASSUME newest' = newest
  PROVE  States' = States /\ Attempts' = Attempts
  BY DEF States, Attempts, Created

\* The actions of JobLifecycle, in terms of what it sees.
LEMMA SeenCreate ==
  ASSUME NEW j \in Jobs, \A i \in Jobs : i < j => States[i] # "new",
         States[j] = "new", States' = [States EXCEPT ![j] = "queued"],
         UNCHANGED <<Attempts, runs>>
  PROVE  Lifecycle!Next
<1>1. Lifecycle!Create(j)
  BY DEF Lifecycle!Create, Lifecycle!Moves, Lifecycle!Jobs, Jobs, States, Attempts
<1>2. QED
  BY <1>1 DEF Lifecycle!Next, Lifecycle!Jobs, Jobs

LEMMA SeenTakeUp ==
  ASSUME NEW j \in Jobs, \A i \in Jobs : i < j => States[i] # "queued",
         Attempts[j] < MaxAttempts,
         States[j] = "queued", States' = [States EXCEPT ![j] = "running"],
         Attempts' = [Attempts EXCEPT ![j] = @ + 1], runs' = runs
  PROVE  Lifecycle!Next
<1>1. Lifecycle!TakeUp(j)
  BY DEF Lifecycle!TakeUp, Lifecycle!Moves, Lifecycle!Jobs, Jobs, States, Attempts
<1>2. QED
  BY <1>1 DEF Lifecycle!Next, Lifecycle!Jobs, Jobs

LEMMA SeenStart ==
  ASSUME NEW j \in Jobs, States[j] = "running", runs[j] < Attempts[j],
         runs' = [runs EXCEPT ![j] = @ + 1], UNCHANGED <<States, Attempts>>
  PROVE  Lifecycle!Next
<1>1. Lifecycle!Start(j)
  BY DEF Lifecycle!Start, Lifecycle!Jobs, Jobs, States, Attempts
<1>2. QED
  BY <1>1 DEF Lifecycle!Next, Lifecycle!Jobs, Jobs

LEMMA SeenPutBack ==
  ASSUME NEW j \in Jobs, Attempts[j] < MaxAttempts,
         States[j] = "running", States' = [States EXCEPT ![j] = "queued"],
         UNCHANGED <<Attempts, runs>>
  PROVE  Lifecycle!Next
<1>1. Lifecycle!PutBack(j)
  BY DEF Lifecycle!PutBack, Lifecycle!Moves, Lifecycle!Jobs, Jobs, States, Attempts
<1>2. QED
  BY <1>1 DEF Lifecycle!Next, Lifecycle!Jobs, Jobs

LEMMA SeenEnd ==
  ASSUME NEW j \in Jobs, NEW s \in Lifecycle!EndStates, s # "timed_out" => runs[j] > 0,
         States[j] = "running", States' = [States EXCEPT ![j] = s],
         UNCHANGED <<Attempts, runs>>
  PROVE  Lifecycle!Next
<1>1. Lifecycle!End(j)
  BY DEF Lifecycle!End, Lifecycle!Moves, Lifecycle!Jobs, Jobs, States, Attempts
<1>2. QED
  BY <1>1 DEF Lifecycle!Next, Lifecycle!Jobs, Jobs

LEMMA SeenInit == Init => Lifecycle!Init
  BY DEF Init, Lifecycle!Init, Lifecycle!Jobs, Jobs, Created

\* A job that is created is a Create, a line of the worker's a TakeUp, a PutBack
\* or an End, the start of an action a Start; every other step is a stutter.
LEMMA SeenStep ==
  ASSUME Solo, TypeInv, CauseInv, RunInv, QueueInv, [Next]_vars
  PROVE  QueueInv' /\ [Lifecycle!Next]_(Lifecycle!vars)
<1>a. TypeOK /\ HeldJobsExist /\ Lifecycle!Jobs = Jobs
  BY DEF TypeInv, Lifecycle!Jobs, Jobs
<1>b. ASSUME newest' = newest, runs' = runs PROVE UNCHANGED Lifecycle!vars
  BY <1>b, SeenSame DEF Lifecycle!vars, States, Attempts
<1>1. CASE UNCHANGED vars
  <2>1. UNCHANGED <<newest, last, created, pc, job, pend, plan, cands, runs, asked, budget>>
    BY <1>1 DEF vars, store, local, scanner, ghosts
  <2>2. \A w \in Workers : QueueWorker(w)'
    BY <2>1, WorkersQueue DEF Created
  <2>3. HandlersQueue' /\ OneView'
    BY <2>1 DEF QueueInv, HandlersQueue, OneView, Created
  <2>4. QED
    BY <2>1, <2>2, <2>3, <1>b DEF QueueInv
<1>2. ASSUME NEW c \in Clients, Request(c)
      PROVE  QueueInv' /\ [Lifecycle!Next]_(Lifecycle!vars)
  <2>1. /\ QueueInv' /\ created + 1 \in Jobs /\ ~Created(created + 1)
        /\ newest' = [newest EXCEPT ![created + 1] = Queued]
        /\ runs' = runs
    BY <1>2, RequestQueue
  <2>2. /\ States' = [States EXCEPT ![created + 1] = "queued"]
        /\ Attempts' = [Attempts EXCEPT ![created + 1] = 0]
    BY <2>1, <1>a, QueuedIsRecord, SeenChange DEF Queued
  <2>3. States[created + 1] = "new" /\ Attempts[created + 1] = 0
    BY <2>1 DEF States, Attempts
  <2>4. Attempts' = Attempts
    BY <2>2, <2>3 DEF Attempts
  <2>5. ASSUME NEW i \in Jobs, i < created + 1 PROVE States[i] # "new"
    <3>1. Created(i) /\ newest[i] \in Record
      BY <2>5, <1>a DEF HeldJobsExist, TypeOK, Jobs, Created
    <3>2. newest[i].status # "new"
      BY <3>1 DEF Record, Statuses, Terminal, Active
    <3>3. QED
      BY <3>1, <3>2, SeenRecord
  <2>6. Lifecycle!Next
    BY <2>1, <2>2, <2>3, <2>4, <2>5, SeenCreate
  <2>7. QED
    BY <2>1, <2>6
<1>3. ASSUME NEW w \in Workers, AppendUpdate(w)
      PROVE  QueueInv' /\ [Lifecycle!Next]_(Lifecycle!vars)
  <2>1. /\ QueueInv' /\ runs' = runs
        /\ newest' = [newest EXCEPT ![job[w]] = pend[w]]
    BY <1>3, AppendQueue
  <2>2. /\ pend[w] # NoRec /\ w \in Actors /\ QueueWorker(w) /\ InFlight(w)
    BY <1>3, Actors2 DEF AppendUpdate, QueueInv, RunInv, WorkerInv
  <2>3. /\ pend[w] \in Record /\ ~pend[w].cancel /\ job[w] \in Jobs
        /\ Created(job[w]) /\ newest[job[w]] \in Record
    BY <2>2, NoCancels
  <2>4. /\ States' = [States EXCEPT ![job[w]] = pend[w].status]
        /\ Attempts' = [Attempts EXCEPT ![job[w]] = pend[w].attempt]
    BY <2>1, <2>3, <1>a, SeenChange
  <2>5. States[job[w]] = newest[job[w]].status /\ Attempts[job[w]] = newest[job[w]].attempt
    BY <2>3, SeenRecord
  <2>6. pend[w].attempt = newest[job[w]].attempt => Attempts' = Attempts
    BY <2>4, <2>5 DEF Attempts
  <2>7. Updating(w)
    BY <2>2 DEF QueueWorker
  <2>8. CASE pc[w] = "reap"
    <3>1. /\ States[job[w]] = "running" /\ Attempts' = Attempts
          /\ \/ pend[w].status = "queued" /\ Attempts[job[w]] < MaxAttempts
             \/ pend[w].status = "timed_out"
      BY <2>2, <2>5, <2>6, <2>7, <2>8 DEF Updating
    <3>2. CASE pend[w].status = "queued" /\ Attempts[job[w]] < MaxAttempts
      BY <3>1, <3>2, <2>1, <2>3, <2>4, SeenPutBack
    <3>3. CASE pend[w].status = "timed_out"
      <4>1. "timed_out" \in Lifecycle!EndStates
        BY DEF Lifecycle!EndStates
      <4>2. QED
        BY <4>1, <3>1, <3>3, <2>1, <2>3, <2>4, SeenEnd
    <3>4. QED
      BY <3>1, <3>2, <3>3
  <2>9. CASE pc[w] = "leased"
    <3>1. /\ States[job[w]] = "queued" /\ First(job[w])
          /\ pend[w].attempt = Attempts[job[w]] + 1 /\ pend[w].status = "running"
          /\ pend[w].attempt <= MaxAttempts
      BY <2>2, <2>3, <2>5, <2>7, <2>9 DEF Updating, InFlight, Executable, Solo, Room
    <3>2. Attempts[job[w]] < MaxAttempts
      BY <3>1, <2>3, <2>5 DEF Record
    <3>3. ASSUME NEW i \in Jobs, i < job[w] PROVE States[i] # "queued"
      BY <3>1, <3>3 DEF First, States
    <3>4. Attempts' = [Attempts EXCEPT ![job[w]] = @ + 1]
      BY <3>1, <2>4
    <3>5. QED
      BY <3>1, <3>2, <3>3, <3>4, <2>1, <2>3, <2>4, SeenTakeUp
  <2>10. CASE pc[w] = "after"
    <3>1. /\ States[job[w]] = "running" /\ Attempts' = Attempts
          /\ pend[w].status \in Lifecycle!EndStates /\ runs[job[w]] > 0
      BY <2>2, <2>5, <2>6, <2>7, <2>10 DEF Updating
    <3>2. QED
      BY <3>1, <2>1, <2>3, <2>4, SeenEnd
  <2>11. QED
    BY <2>2, <2>7, <2>8, <2>9, <2>10 DEF Updating
<1>4. ASSUME NEW w \in Workers, WorkerStep(w)
      PROVE  QueueInv' /\ [Lifecycle!Next]_(Lifecycle!vars)
  <2>1. QueueInv' /\ newest' = newest /\ (runs' = runs \/ StartRun(w))
    BY <1>4, WorkerQueue
  <2>2. CASE StartRun(w)
    <3>1. /\ pend[w] = NoRec /\ pc[w] \in Leased /\ HoldsJob(w) /\ w \in Actors
          /\ runs' = [runs EXCEPT ![job[w]] = @ + 1]
      BY <2>2, Actors2 DEF StartRun, Leased, HoldsJob, Unbound
    <3>2. /\ job[w] \in Jobs /\ Created(job[w]) /\ newest[job[w]] \in Record
          /\ ~newest[job[w]].cancel
      BY <3>1, HeldRecord, NoCancels
    <3>3. /\ Room(job[w], newest[job[w]]) /\ newest[job[w]].status = "running"
      BY <3>1, <3>2 DEF RunInv, WorkerInv, InHand, Executable, Solo
    <3>4. /\ States[job[w]] = "running" /\ runs[job[w]] < Attempts[job[w]]
      BY <3>2, <3>3, SeenRecord DEF Room
    <3>5. QED
      BY <3>1, <3>2, <3>4, <2>1, SeenSame, SeenStart
  <2>3. QED
    BY <2>1, <2>2, <1>b
<1>5. CASE \E s \in Servers : Crash(s)
  BY <1>5, <1>b, CrashQueue
<1>6. ASSUME NEW w \in Workers, Stamp(w)
      PROVE  QueueInv' /\ [Lifecycle!Next]_(Lifecycle!vars)
  BY <1>6, <1>b, StampQueue
<1>7. CASE Next
  BY <1>7, <1>2, <1>3, <1>4, <1>5, <1>6, HandlersRest DEF Next, Write, Actors
<1>8. QED
  BY <1>1, <1>7

\* With one worker, no cancel and no retry requests and only jobs a worker runs,
\* the file starts as JobLifecycle does, and every step of a handler, of the
\* worker or of a crash is a step or a stutter of it: the queue is first in, first
\* out, an attempt runs its action once at most, and an end state is final.
THEOREM FileIsAQueue ==
  Solo => (Spec => Lifecycle!Init /\ [][Lifecycle!Next]_(Lifecycle!vars))
<1>1. SUFFICES ASSUME Solo
               PROVE  Spec => Lifecycle!Init /\ [][Lifecycle!Next]_(Lifecycle!vars)
  OBVIOUS
<1>2. Spec => [](TypeInv /\ CauseInv)
  <2>1. Spec => []TypeInv
    BY InitTyped, NextTyped, PTL DEF Spec
  <2>2. QED
    BY <2>1, InitCause, NextCause, PTL DEF Spec
<1>3. Init => RunInv /\ QueueInv /\ Lifecycle!Init
  BY <1>1, InitRuns, InitQueue, SeenInit DEF Solo
<1>4. TypeInv /\ CauseInv /\ RunInv /\ QueueInv /\ [Next]_vars => RunInv' /\ QueueInv'
  BY <1>1, NextRuns, SeenStep DEF Solo
<1>5. TypeInv /\ CauseInv /\ RunInv /\ QueueInv /\ [Next]_vars
      => [Lifecycle!Next]_(Lifecycle!vars)
  BY <1>1, SeenStep
<1>6. QED
  BY <1>2, <1>3, <1>4, <1>5, PTL DEF Spec
=============================================================================
