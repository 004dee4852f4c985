----------------------- MODULE MonitorControl_proofs -----------------------
(***************************************************************************)
(* What MonitorControl guarantees for every set of pids, and any number of *)
(* jobs and upsets: its types, that there is one monitor which its file    *)
(* names, that no command outlives its job, and that the status of a job   *)
(* is true to what its command did.                                        *)
(***************************************************************************)
EXTENDS MonitorControl, FiniteSetTheorems, TLAPS

Statuses == {"none", "queued", "running", "cancel_requested"} \cup Ended

Busy == {"running", "cancel_requested"}

Truncating == {"truncate", "write"}
TruncatingStopped == {"truncate_stopped", "write_stopped"}

\* CheckCanceled leads to the action of the job; "none" is that of a job that was never enqueued,
\* which no proof below has to rule out.
Places == {"none", "idle", "check", "start_monitor", "spawn", "truncate", "write", "stop_monitor",
           "truncate_stopped", "write_stopped", "command", "poll", "terminate_canceled",
           "terminate_late", "wait_late", "wait_canceled", "returned", "late"}

JobRecord == [action : Actions \cup {"none"}, status : Statuses, cancel : BOOLEAN,
              did : {"nothing", "all", "part"}, cut : BOOLEAN]
ProcRecord == [kind : {"none", "monitor", "command"}, state : {"none", "running", "zombie"},
               ours : BOOLEAN, asked : BOOLEAN, code : Nat, job : Jobs \cup {Unbound}]
WorkerRecord == [at : Places, job : Jobs \cup {Unbound}, pid : Pids \cup {NoPid}, code : Nat]
FileRecord == [pid : Pids \cup {NoPid}, status : {"", "running", "stopping", "stopped"}]

Types ==
  /\ job \in [Jobs -> JobRecord]
  /\ proc \in [Pids -> ProcRecord]
  /\ file \in FileRecord
  /\ worker \in WorkerRecord
  /\ lost \in BOOLEAN

\* The worker has a job, which is not over, exactly while it is not free.
WorkerHasJob ==
  /\ worker.at = "idle" => worker = Free
  /\ worker.at # "idle" => worker.job \in Jobs /\ job[worker.job].status \in Busy

\* The command of the worker, as long as it waits for it.
WorkerHasCommand ==
  worker.at \in Watched =>
    /\ worker.pid \in Pids
    /\ proc[worker.pid].kind = "command" /\ proc[worker.pid].ours
    /\ proc[worker.pid].job = worker.job

\* No other command of this server runs.
OnlyCommand ==
  \A p \in Pids : Running(p) /\ proc[p].kind = "command" /\ proc[p].ours
                    => worker.at \in Watched /\ worker.pid = p

\* Where the pid of a running monitor is kept: the file, or, while the file is rewritten, the
\* worker's memory; and there is none when the worker is about to start one.
Keeper ==
  ~lost => \A p \in Pids : Running(p) /\ proc[p].kind = "monitor" =>
    /\ worker.at # "spawn"
    /\ worker.at \in Truncating \cup TruncatingStopped => worker.pid = p
    /\ worker.at \notin Truncating \cup {"write_stopped"} => file.pid = p

IInv == Types /\ WorkerHasJob /\ WorkerHasCommand /\ OnlyCommand /\ Keeper

-----------------------------------------------------------------------------
(***************************************************************************)
(* Processes.                                                              *)
(***************************************************************************)
\* What Over leaves of a process is a process record that does not run.
LEMMA OverType ==
  ASSUME Types, NEW p \in Pids, NEW code \in Nat
  PROVE  Over(p, code) \in ProcRecord /\ Over(p, code).state # "running"
<1>t. proc[p] \in ProcRecord
  BY DEF Types
<1>1. CASE proc[p].ours
  <2>1. Over(p, code) = [proc[p] EXCEPT !.state = "zombie", !.code = code]
    BY <1>1 DEF Over
  <2>2. QED
    BY <2>1, <1>t DEF ProcRecord
<1>2. CASE ~proc[p].ours
  <2>1. Over(p, code) = NoProc
    BY <1>2 DEF Over
  <2>2. QED
    BY <2>1 DEF ProcRecord, NoProc, Unbound
<1>3. QED
  BY <1>1, <1>2

\* Popen starts one process; every process that ran goes on as it was, and no other runs.
LEMMA PopenEffect ==
  ASSUME Types, NEW kind \in {"monitor", "command"}, NEW p \in Pids, Popen(kind, p)
  PROVE  /\ proc' \in [Pids -> ProcRecord]
         /\ proc'[p].kind = kind /\ proc'[p].ours /\ proc'[p].job = worker.job
         /\ \A q \in Pids : q # p /\ proc'[q].state = "running" => proc'[q] = proc[q]
<1>t. proc \in [Pids -> ProcRecord] /\ worker.job \in Jobs \cup {Unbound}
  BY DEF Types, WorkerRecord
<1>1. Reaped \in [Pids -> ProcRecord]
  BY <1>t DEF Reaped, NoProc, ProcRecord, Unbound
<1>2. /\ proc' \in [Pids -> ProcRecord]
      /\ proc'[p] = [kind |-> kind, state |-> "running", ours |-> TRUE, asked |-> FALSE,
                     code |-> 0, job |-> worker.job]
      /\ \A q \in Pids : q # p => proc'[q] = Reaped[q]
  BY <1>1, <1>t DEF Popen, ProcRecord
<1>3. \A q \in Pids : Reaped[q].state = "running" => Reaped[q] = proc[q]
  BY DEF Reaped, NoProc
<1>4. QED
  BY <1>2, <1>3

-----------------------------------------------------------------------------
(***************************************************************************)
(* Types.                                                                  *)
(***************************************************************************)
LEMMA InitIInv == Init => IInv
<1> SUFFICES ASSUME Init PROVE IInv
  OBVIOUS
<1>1. Types
  BY DEF Init, Types, JobRecord, ProcRecord, WorkerRecord, FileRecord, NoJob, NoProc, Free,
         Empty, Unbound, NoPid, Statuses, Ended, Places, Watched, Waiting
<1>2. worker = Free /\ worker.at = "idle"
  BY DEF Init, Free
<1>3. \A p \in Pids : ~Running(p)
  BY DEF Init, Running, NoProc
<1>4. WorkerHasJob /\ WorkerHasCommand /\ OnlyCommand /\ Keeper
  BY <1>2, <1>3 DEF WorkerHasJob, WorkerHasCommand, OnlyCommand, Keeper, Watched, Waiting
<1>5. QED
  BY <1>1, <1>4 DEF IInv

LEMMA TypesStep == IInv /\ [Next]_vars => Types'
<1> SUFFICES ASSUME IInv, [Next]_vars PROVE Types'
  OBVIOUS
<1>t. /\ Types
      /\ job \in [Jobs -> JobRecord] /\ proc \in [Pids -> ProcRecord]
      /\ file \in FileRecord /\ worker \in WorkerRecord /\ lost \in BOOLEAN
  BY DEF IInv, Types
<1>c. ASSUME NEW status \in Statuses, Complete(status)
      PROVE  job' \in [Jobs -> JobRecord]
  BY ZenonT(40), <1>c, <1>t DEF Complete, JobRecord
<1>f. Free \in WorkerRecord
  BY DEF Free, WorkerRecord, Places, Unbound, NoPid
<1>1. CASE \E j \in Jobs : RequestCancel(j)
  BY <1>1, <1>t DEF RequestCancel, Types, JobRecord, Statuses, Ended
<1>2. CASE \E j \in Jobs, action \in Actions : Enqueue(j, action)
  <2>1. PICK j \in Jobs, action \in Actions : Enqueue(j, action)
    BY <1>2
  <2>2. [NoJob EXCEPT !.action = action, !.status = "queued"] \in JobRecord
    BY DEF NoJob, JobRecord, Statuses
  <2>3. job' \in [Jobs -> JobRecord]
    BY <2>1, <2>2, <1>t DEF Enqueue
  <2>4. QED
    BY <2>1, <2>3, <1>t DEF Enqueue, Types
<1>3. CASE \E p \in Pids : MonitorStops(p)
  <2>1. PICK p \in Pids : MonitorStops(p)
    BY <1>3
  <2>2. Over(p, 0) \in ProcRecord
    BY <1>t, OverType
  <2>3. QED
    BY <2>1, <2>2, <1>t DEF MonitorStops, Types
<1>4. CASE \E p \in Pids : MonitorCrashes(p)
  <2>1. PICK p \in Pids : MonitorCrashes(p)
    BY <1>4
  <2>2. Over(p, 1) \in ProcRecord
    BY <1>t, OverType
  <2>3. QED
    BY <2>1, <2>2, <1>t DEF MonitorCrashes, Types
<1>5. CASE \E p \in Pids : CommandEnds(p)
  <2>1. PICK p \in Pids : CommandEnds(p)
    BY <1>5
  <2>2. PICK code \in {0, 1, 15} :
          /\ proc' = [proc EXCEPT ![p] = Over(p, code)]
          /\ job' = IF proc[p].ours
                    THEN [job EXCEPT ![proc[p].job].did = IF code = 0 THEN "all" ELSE "part"]
                    ELSE job
    BY <2>1 DEF CommandEnds
  <2>3. Over(p, code) \in ProcRecord
    BY <1>t, OverType
  <2>4. job' \in [Jobs -> JobRecord]
    <3>1. CASE proc[p].ours
      <4>1. PICK did \in {"all", "part"} : job' = [job EXCEPT ![proc[p].job].did = did]
        BY <2>2, <3>1
      <4>2. QED
        BY ZenonT(40), <4>1, <1>t DEF JobRecord
    <3>2. CASE ~proc[p].ours
      BY <2>2, <3>2, <1>t
    <3>3. QED
      BY <3>1, <3>2
  <2>5. QED
    BY <2>1, <2>2, <2>3, <2>4, <1>t DEF CommandEnds, Types
<1>6. CASE \E j \in Jobs : Lease(j)
  <2>1. PICK j \in Jobs : Lease(j)
    BY <1>6
  <2>2. job' \in [Jobs -> JobRecord]
    BY <2>1, <1>t DEF Lease, JobRecord, Statuses
  <2>3. worker' \in WorkerRecord
    BY <2>1, <1>f DEF Lease, WorkerRecord, Places
  <2>4. QED
    BY <2>1, <2>2, <2>3, <1>t DEF Lease, Types
<1>7. CASE CheckCanceled
  <2>1. CASE job[worker.job].cancel
    BY <2>1, <1>7, <1>t, <1>f, <1>c DEF CheckCanceled, Types, Statuses, Ended
  <2>2. CASE ~job[worker.job].cancel
    <3>1. worker.job \in Jobs
      BY <1>7 DEF IInv, WorkerHasJob, CheckCanceled
    <3>2. job[worker.job].action \in Actions \cup {"none"}
      BY <3>1, <1>t DEF JobRecord
    <3>3. job[worker.job].action \in Places
      BY <3>2 DEF Actions, Places
    <3>4. QED
      BY <2>2, <1>7, <3>1, <3>3, <1>t DEF CheckCanceled, Types, WorkerRecord
  <2>3. QED
    BY <2>1, <2>2
<1>8. CASE StartLook
  BY <1>8, <1>t, <1>f, <1>c DEF StartLook, Types, WorkerRecord, Places, Statuses, Ended
<1>9. CASE SpawnMonitor
  <2>1. PICK p \in Pids : Popen("monitor", p)
                           /\ worker' = [worker EXCEPT !.at = "truncate", !.pid = p]
    BY <1>9 DEF SpawnMonitor
  <2>2. proc' \in [Pids -> ProcRecord]
    BY <2>1, <1>t, PopenEffect
  <2>3. worker' \in WorkerRecord
    BY <2>1, <1>t DEF WorkerRecord, Places, Truncating
  <2>4. QED
    BY <1>9, <2>2, <2>3, <1>t DEF SpawnMonitor, Types
<1>10. CASE Truncate
  BY <1>10, <1>t DEF Truncate, Types, WorkerRecord, FileRecord, Empty, NoPid, Places, Truncating,
                     TruncatingStopped
<1>11. CASE WriteStarted
  BY <1>11, <1>t, <1>f, <1>c DEF WriteStarted, Types, FileRecord, WorkerRecord, Statuses, Ended
<1>12. CASE StopLook
  <2>1. proc' \in [Pids -> ProcRecord]
    BY ZenonT(40), <1>12, <1>t DEF StopLook, ProcRecord
  <2>2. worker' \in WorkerRecord
    BY <1>12, <1>t DEF StopLook, WorkerRecord, FileRecord, Places, TruncatingStopped
  <2>3. QED
    BY <1>12, <2>1, <2>2, <1>t DEF StopLook, Types
<1>13. CASE WriteStopped
  BY <1>13, <1>t, <1>f, <1>c DEF WriteStopped, Types, FileRecord, WorkerRecord, Statuses, Ended
<1>14. CASE StartCommand
  <2>1. PICK p \in Pids : Popen("command", p)
                           /\ worker' = [worker EXCEPT !.at = "poll", !.pid = p]
    BY <1>14 DEF StartCommand
  <2>2. proc' \in [Pids -> ProcRecord]
    BY <2>1, <1>t, PopenEffect
  <2>3. worker' \in WorkerRecord
    BY <2>1, <1>t DEF WorkerRecord, Places, Watched
  <2>4. QED
    BY <1>14, <2>2, <2>3, <1>t DEF StartCommand, Types
<1>15. CASE PollCancel
  <2>1. job' \in [Jobs -> JobRecord]
    BY ZenonT(40), <1>15, <1>t DEF PollCancel, JobRecord
  <2>2. worker' \in WorkerRecord
    BY <1>15, <1>t DEF PollCancel, WorkerRecord, Places
  <2>3. QED
    BY <1>15, <2>1, <2>2, <1>t DEF PollCancel, Types
<1>16. CASE PollDeadline
  <2>1. job' \in [Jobs -> JobRecord]
    BY <1>16, <1>t DEF PollDeadline, JobRecord
  <2>2. worker' \in WorkerRecord
    BY <1>16, <1>t DEF PollDeadline, WorkerRecord, Places
  <2>3. QED
    BY <1>16, <2>1, <2>2, <1>t DEF PollDeadline, Types
<1>17. CASE Terminate
  <2>1. proc' \in [Pids -> ProcRecord]
    BY ZenonT(40), <1>17, <1>t DEF Terminate, ProcRecord
  <2>2. worker' \in WorkerRecord
    BY <1>17, <1>t DEF Terminate, WorkerRecord, Places, Watched, Waiting
  <2>3. QED
    BY <1>17, <2>1, <2>2, <1>t DEF Terminate, Types
<1>18. CASE Kill
  <2>1. worker.pid \in Pids
    BY <1>18 DEF IInv, WorkerHasCommand, Kill, Watched
  <2>2. Over(worker.pid, 9) \in ProcRecord
    BY <2>1, <1>t, OverType
  <2>3. QED
    BY ZenonT(40), <1>18, <2>2, <1>t DEF Kill, Types, JobRecord
<1>19. CASE Collect
  <2>1. worker.pid \in Pids
    BY <1>19 DEF IInv, WorkerHasCommand, Collect, Watched
  <2>2. Returned(proc[worker.pid].code, worker.at = "wait_canceled") \in Nat
    BY <2>1, <1>t DEF Returned, ProcRecord
  <2>3. worker' \in WorkerRecord
    BY <1>19, <2>2, <1>t DEF Collect, WorkerRecord, Places, NoPid, Waiting
  <2>4. proc' \in [Pids -> ProcRecord]
    BY <1>19, <1>t DEF Collect, ProcRecord, NoProc, Unbound
  <2>5. QED
    BY <1>19, <2>3, <2>4, <1>t DEF Collect, Types
<1>20. CASE CompleteCommand
  <2>1. Outcome(worker.code, worker.at = "late", job[worker.job].cancel) \in Statuses
    BY DEF Outcome, Statuses, Ended
  <2>2. QED
    BY <1>20, <2>1, <1>t, <1>f, <1>c DEF CompleteCommand, Types
<1>21. CASE Crash
  <2>1. proc' \in [Pids -> ProcRecord]
    <3>1. NoProc \in ProcRecord
      BY DEF ProcRecord, NoProc, Unbound
    <3>2. \A p \in Pids : [proc[p] EXCEPT !.ours = FALSE] \in ProcRecord
      BY <1>t DEF ProcRecord
    <3>3. QED
      BY <1>21, <3>1, <3>2 DEF Crash
  <2>2. job' \in [Jobs -> JobRecord]
    BY <1>21, <1>t DEF Crash, JobRecord, Statuses, Ended
  <2>3. lost' \in BOOLEAN
    BY <1>21, <1>t DEF Crash
  <2>4. QED
    BY <1>21, <2>1, <2>2, <2>3, <1>t, <1>f DEF Crash, Types
<1>22. CASE UNCHANGED vars
  BY <1>22, <1>t DEF vars, Types
<1>23. QED
  BY <1>1, <1>2, <1>3, <1>4, <1>5, <1>6, <1>7, <1>8, <1>9, <1>10, <1>11, <1>12, <1>13, <1>14,
     <1>15, <1>16, <1>17, <1>18, <1>19, <1>20, <1>21, <1>22 DEF Next, WorkerStep

-----------------------------------------------------------------------------
(***************************************************************************)
(* What the steps of the worker, of the processes and of the operator do   *)
(* to the rest of the invariant.                                           *)
(***************************************************************************)
\* While nothing but jobs and the worker changes, a job that is not over keeps its worker.
LEMMA WorkerHasJobStep == IInv /\ [Next]_vars => WorkerHasJob'
<1> SUFFICES ASSUME IInv, [Next]_vars PROVE WorkerHasJob'
  OBVIOUS
<1>t. /\ job \in [Jobs -> JobRecord] /\ WorkerHasJob
      /\ worker \in WorkerRecord
  BY DEF IInv, Types
<1>i. Free.at = "idle"
  BY DEF Free
<1>1. CASE \E j \in Jobs : RequestCancel(j)
  BY <1>1, <1>t DEF RequestCancel, WorkerHasJob, Busy, JobRecord
<1>2. CASE \E j \in Jobs, action \in Actions : Enqueue(j, action)
  <2>1. PICK j \in Jobs, action \in Actions : Enqueue(j, action)
    BY <1>2
  <2>2. job[j].status = "none"
    BY <2>1 DEF Enqueue, NoJob
  <2>3. worker' = worker /\ \A i \in Jobs : i # j => job'[i] = job[i]
    BY <2>1, <1>t DEF Enqueue
  <2>4. QED
    BY <2>2, <2>3, <1>t DEF WorkerHasJob, Busy
<1>3. CASE \E p \in Pids : MonitorStops(p) \/ MonitorCrashes(p)
  BY <1>3, <1>t DEF MonitorStops, MonitorCrashes, WorkerHasJob
<1>4. CASE \E p \in Pids : CommandEnds(p)
  <2>1. PICK p \in Pids : CommandEnds(p)
    BY <1>4
  <2>2. worker' = worker /\ \A j \in Jobs : job'[j].status = job[j].status
    <3>1. PICK code \in {0, 1, 15} :
            job' = IF proc[p].ours
                   THEN [job EXCEPT ![proc[p].job].did = IF code = 0 THEN "all" ELSE "part"]
                   ELSE job
      BY <2>1 DEF CommandEnds
    <3>2. CASE proc[p].ours
      <4>1. PICK did \in {"all", "part"} : job' = [job EXCEPT ![proc[p].job].did = did]
        BY <3>1, <3>2
      <4>2. \A j \in Jobs : job'[j].status = job[j].status
        BY <4>1, <1>t DEF JobRecord
      <4>3. QED
        BY <4>2, <2>1 DEF CommandEnds
    <3>3. CASE ~proc[p].ours
      BY <3>1, <3>3, <2>1 DEF CommandEnds
    <3>4. QED
      BY <3>2, <3>3
  <2>3. QED
    BY <2>2, <1>t DEF WorkerHasJob
<1>5. CASE \E j \in Jobs : Lease(j)
  <2>1. PICK j \in Jobs : Lease(j)
    BY <1>5
  <2>2. worker'.at = "check" /\ worker'.job = j /\ job'[j].status = "running"
    BY <2>1, <1>t DEF Lease, Free, JobRecord
  <2>3. QED
    BY <2>2 DEF WorkerHasJob, Busy
<1>6. CASE CheckCanceled \/ StartLook \/ CompleteCommand
  <2>1. CASE worker' = Free
    BY <2>1, <1>i DEF WorkerHasJob
  <2>2. CASE /\ UNCHANGED job /\ worker'.job = worker.job
             /\ worker.at # "idle" /\ worker'.at # "idle"
    BY <2>2, <1>t DEF WorkerHasJob
  <2>3. CASE CheckCanceled
    <3>1. worker.job \in Jobs /\ job[worker.job].action # "idle"
      BY <2>3, <1>t DEF CheckCanceled, WorkerHasJob, JobRecord, Actions
    <3>2. QED
      BY <2>3, <3>1, <2>1, <2>2, <1>t DEF CheckCanceled, WorkerRecord
  <2>4. CASE StartLook \/ CompleteCommand
    BY <2>4, <1>t, <2>1, <2>2 DEF StartLook, CompleteCommand, WorkerRecord
  <2>5. QED
    BY <1>6, <2>3, <2>4
<1>7. CASE SpawnMonitor \/ Truncate \/ StopLook \/ StartCommand \/ Terminate \/ Collect
  <2>1. UNCHANGED job /\ worker'.job = worker.job /\ worker.at # "idle" /\ worker'.at # "idle"
    BY <1>7, <1>t DEF SpawnMonitor, Truncate, StopLook, StartCommand, Terminate, Collect,
                      WorkerRecord, Waiting
  <2>2. QED
    BY <2>1, <1>t DEF WorkerHasJob
<1>8. CASE WriteStarted \/ WriteStopped \/ Crash
  BY <1>8, <1>i DEF WriteStarted, WriteStopped, Crash, WorkerHasJob
<1>9. CASE PollCancel \/ PollDeadline \/ Kill
  <2>1. worker'.job = worker.job /\ worker.at # "idle" /\ worker'.at # "idle"
    BY <1>9, <1>t DEF PollCancel, PollDeadline, Kill, WorkerRecord, Waiting
  <2>2. job'[worker.job].status = job[worker.job].status
    BY <1>9, <1>t, <2>1 DEF PollCancel, PollDeadline, Kill, WorkerHasJob, JobRecord
  <2>3. QED
    BY <2>1, <2>2, <1>t DEF WorkerHasJob
<1>10. CASE UNCHANGED vars
  BY <1>10, <1>t DEF vars, WorkerHasJob
<1>11. QED
  BY <1>1, <1>2, <1>3, <1>4, <1>5, <1>6, <1>7, <1>8, <1>9, <1>10 DEF Next, WorkerStep

\* A process that does not belong to the worker leaves its command and the monitors alone:
\* whatever ends becomes a process that does not run.
LEMMA WorkerHasCommandStep == IInv /\ [Next]_vars => (WorkerHasCommand /\ OnlyCommand)'
<1> SUFFICES ASSUME IInv, [Next]_vars PROVE (WorkerHasCommand /\ OnlyCommand)'
  OBVIOUS
<1>t. /\ Types /\ WorkerHasCommand /\ OnlyCommand /\ WorkerHasJob
      /\ proc \in [Pids -> ProcRecord] /\ worker \in WorkerRecord
  BY DEF IInv, Types
<1> DEFINE Same(p) == /\ proc'[p].kind = proc[p].kind /\ proc'[p].ours = proc[p].ours
                      /\ proc'[p].job = proc[p].job
\* A step that keeps the worker where it waits, and who the processes are.
<1>k. ASSUME worker'.pid = worker.pid, worker'.job = worker.job,
             worker'.at \in Watched <=> worker.at \in Watched,
             \A p \in Pids : p = worker.pid \/ proc'[p].state = "running" => Same(p),
             \A p \in Pids : proc'[p].state = "running" => proc[p].state = "running"
      PROVE  (WorkerHasCommand /\ OnlyCommand)'
  BY <1>k, <1>t DEF WorkerHasCommand, OnlyCommand, Running
\* A step of a worker that waits for nobody.
<1>n. ASSUME worker.at \notin Watched, worker'.at \notin Watched,
             \A p \in Pids : proc'[p].state = "running"
               => \/ proc'[p].kind # "command" \/ ~proc'[p].ours
                  \/ proc[p].state = "running" /\ Same(p)
      PROVE  (WorkerHasCommand /\ OnlyCommand)'
  BY <1>n, <1>t DEF WorkerHasCommand, OnlyCommand, Running
<1>1. CASE \E j \in Jobs : RequestCancel(j) \/ \E action \in Actions : Enqueue(j, action)
  BY <1>1, <1>k DEF RequestCancel, Enqueue
<1>2. CASE \E p \in Pids : MonitorStops(p) \/ MonitorCrashes(p) \/ CommandEnds(p)
  <2>1. PICK p \in Pids, code \in {0, 1, 15} :
          Running(p) /\ proc' = [proc EXCEPT ![p] = Over(p, code)] /\ worker' = worker
    BY <1>2 DEF MonitorStops, MonitorCrashes, CommandEnds
  <2>2. Over(p, code).state # "running"
    BY <1>t, OverType
  <2>3. p = worker.pid /\ worker.at \in Watched => Same(p)
    <3>1. SUFFICES ASSUME p = worker.pid, worker.at \in Watched PROVE Same(p)
      OBVIOUS
    <3>2. proc[p].ours
      BY <3>1, <1>t DEF WorkerHasCommand
    <3>3. Over(p, code) = [proc[p] EXCEPT !.state = "zombie", !.code = code]
      BY <3>2 DEF Over
    <3>4. QED
      BY <2>1, <3>3, <1>t DEF ProcRecord
  <2>4. QED
    BY <2>1, <2>2, <2>3, <1>t DEF WorkerHasCommand, OnlyCommand, Running
<1>3. CASE \E j \in Jobs : Lease(j)
  BY <1>3, <1>n DEF Lease, Free, Watched, Waiting
<1>4. CASE CheckCanceled \/ StartLook \/ Truncate \/ WriteStarted \/ WriteStopped
            \/ CompleteCommand
  <2>1. worker.at \notin Watched /\ UNCHANGED proc
    BY <1>4 DEF CheckCanceled, StartLook, Truncate, WriteStarted, WriteStopped, CompleteCommand,
                Watched, Waiting
  <2>2. worker'.at \notin Watched
    <3>1. CASE CheckCanceled
      <4>1. worker.job \in Jobs
        BY <3>1, <1>t DEF CheckCanceled, WorkerHasJob
      <4>2. job[worker.job].action \notin Watched
        BY <4>1, <1>t DEF Types, JobRecord, Actions, Watched, Waiting
      <4>3. QED
        BY <3>1, <4>2, <1>t DEF CheckCanceled, WorkerRecord, Free, Watched, Waiting
    <3>2. CASE ~CheckCanceled
      BY <1>4, <3>2, <1>t DEF StartLook, Truncate, WriteStarted, WriteStopped, CompleteCommand,
                              WorkerRecord, Free, Watched, Waiting
    <3>3. QED
      BY <3>1, <3>2
  <2>3. QED
    BY <2>1, <2>2, <1>n
<1>5. CASE SpawnMonitor
  <2>1. PICK p \in Pids : Popen("monitor", p)
                           /\ worker' = [worker EXCEPT !.at = "truncate", !.pid = p]
    BY <1>5 DEF SpawnMonitor
  <2>2. /\ proc'[p].kind = "monitor"
        /\ \A q \in Pids : q # p /\ proc'[q].state = "running" => proc'[q] = proc[q]
    BY <2>1, <1>t, PopenEffect
  <2>3. worker.at \notin Watched /\ worker'.at \notin Watched
    BY <1>5, <2>1, <1>t DEF SpawnMonitor, WorkerRecord, Watched, Waiting
  <2>4. QED
    BY <2>2, <2>3, <1>n
<1>6. CASE StopLook
  <2>1. worker.at \notin Watched /\ worker'.at \notin Watched
    BY <1>6, <1>t DEF StopLook, WorkerRecord, Watched, Waiting
  <2>2. \A p \in Pids : proc'[p].state = proc[p].state /\ Same(p)
    BY <1>6, <1>t DEF StopLook, ProcRecord
  <2>3. QED
    BY <2>1, <2>2, <1>n
<1>7. CASE StartCommand
  <2>1. PICK p \in Pids : Popen("command", p)
                           /\ worker' = [worker EXCEPT !.at = "poll", !.pid = p]
    BY <1>7 DEF StartCommand
  <2>2. /\ proc'[p].kind = "command" /\ proc'[p].ours /\ proc'[p].job = worker.job
        /\ \A q \in Pids : q # p /\ proc'[q].state = "running" => proc'[q] = proc[q]
    BY <2>1, <1>t, PopenEffect
  <2>3. worker'.at \in Watched /\ worker'.pid = p /\ worker'.job = worker.job
    BY <2>1, <1>t DEF WorkerRecord, Watched
  <2>4. worker.at \notin Watched
    BY <1>7 DEF StartCommand, Watched, Waiting
  <2>5. QED
    BY <2>2, <2>3, <2>4, <1>t DEF WorkerHasCommand, OnlyCommand, Running
<1>8. CASE PollCancel \/ PollDeadline
  BY <1>8, <1>t, <1>k DEF PollCancel, PollDeadline, WorkerRecord, Watched, Waiting
<1>9. CASE Terminate
  <2>1. worker'.pid = worker.pid /\ worker'.job = worker.job
        /\ worker.at \in Watched /\ worker'.at \in Watched
    BY <1>9, <1>t DEF Terminate, WorkerRecord, Watched, Waiting
  <2>2. \A p \in Pids : proc'[p].state = proc[p].state /\ Same(p)
    BY <1>9, <1>t DEF Terminate, ProcRecord
  <2>3. QED
    BY <2>1, <2>2, <1>k
<1>10. CASE Kill
  <2>1. worker.pid \in Pids /\ proc[worker.pid].ours /\ worker.at \in Watched
    BY <1>10, <1>t DEF Kill, Watched, WorkerHasCommand
  <2>2. Over(worker.pid, 9) = [proc[worker.pid] EXCEPT !.state = "zombie", !.code = 9]
    BY <2>1 DEF Over
  <2>3. \A p \in Pids : /\ Same(p)
                        /\ proc'[p].state = "running" => proc[p].state = "running"
    <3> SUFFICES ASSUME NEW p \in Pids
                 PROVE  /\ Same(p)
                        /\ proc'[p].state = "running" => proc[p].state = "running"
      OBVIOUS
    <3>1. CASE p = worker.pid
      <4>1. proc'[p] = [proc[p] EXCEPT !.state = "zombie", !.code = 9]
        BY <1>10, <2>2, <3>1, <1>t DEF Kill
      <4>2. proc[p] \in ProcRecord
        BY <1>t
      <4>3. QED
        BY <4>1, <4>2 DEF ProcRecord
    <3>2. CASE p # worker.pid
      BY <1>10, <3>2, <1>t DEF Kill
    <3>3. QED
      BY <3>1, <3>2
  <2>4. worker'.pid = worker.pid /\ worker'.job = worker.job /\ worker'.at = worker.at
    BY <1>10 DEF Kill
  <2>5. \A p \in Pids : p = worker.pid \/ proc'[p].state = "running" => Same(p)
    BY <2>3
  <2>6. \A p \in Pids : proc'[p].state = "running" => proc[p].state = "running"
    BY <2>3
  <2> HIDE DEF Same
  <2>7. QED
    BY <2>4, <2>5, <2>6, <1>k
<1>11. CASE Collect
  <2>1. worker.at \in Watched /\ ~Running(worker.pid)
    BY <1>11 DEF Collect, Watched, Running
  <2>2. worker'.at \notin Watched
    BY <1>11, <1>t DEF Collect, WorkerRecord, Watched, Waiting
  <2>3. \A p \in Pids : proc'[p].state = "running" => proc'[p] = proc[p]
    BY <1>11, <1>t DEF Collect, NoProc
  <2>4. QED
    BY <2>1, <2>2, <2>3, <1>t DEF WorkerHasCommand, OnlyCommand, Running
<1>12. CASE Crash
  <2>1. worker'.at \notin Watched
    BY <1>12 DEF Crash, Free, Watched, Waiting
  <2>2. \A p \in Pids : proc'[p].state = "running" => ~proc'[p].ours
    BY <1>12, <1>t DEF Crash, ProcRecord, NoProc, Running
  <2>3. QED
    BY <2>1, <2>2 DEF WorkerHasCommand, OnlyCommand, Running
<1>13. CASE UNCHANGED vars
  BY <1>13, <1>k DEF vars
<1>14. QED
  BY <1>1, <1>2, <1>3, <1>4, <1>5, <1>6, <1>7, <1>8, <1>9, <1>10, <1>11, <1>12, <1>13
  DEF Next, WorkerStep

\* A step after which a monitor runs, and which leaves the file and the worker's memory so that
\* both still name what they named.
LEMMA KeeperStep == IInv /\ [Next]_vars => Keeper'
<1> SUFFICES ASSUME IInv, [Next]_vars PROVE Keeper'
  OBVIOUS
<1>t. /\ Types /\ Keeper /\ WorkerHasCommand /\ WorkerHasJob
      /\ proc \in [Pids -> ProcRecord] /\ worker \in WorkerRecord
      /\ file \in FileRecord /\ lost \in BOOLEAN
  BY DEF IInv, Types
<1> DEFINE Monitor(p) == Running(p) /\ proc[p].kind = "monitor"
           Rewriting == Truncating \cup TruncatingStopped
           Away == Truncating \cup {"write_stopped"}
           SameMonitors == \A p \in Pids : Monitor(p)' => Monitor(p)
\* Nothing moves but processes that are no monitors, jobs and the worker outside of Rewriting.
<1>k. ASSUME lost' = lost, file'.pid = file.pid, SameMonitors,
             worker.at \notin Rewriting, worker'.at \notin Rewriting, worker'.at # "spawn"
      PROVE  Keeper'
  BY <1>k, <1>t DEF Keeper, Truncating, TruncatingStopped
\* Nothing moves but what ends.
<1>u. ASSUME lost' = lost, file' = file, worker' = worker, SameMonitors
      PROVE  Keeper'
  BY <1>u, <1>t DEF Keeper
<1>1. CASE \E j \in Jobs : RequestCancel(j) \/ \E action \in Actions : Enqueue(j, action)
  BY <1>1, <1>u DEF RequestCancel, Enqueue, Running
<1>2. CASE \E p \in Pids : MonitorStops(p) \/ MonitorCrashes(p) \/ CommandEnds(p)
  <2>1. PICK p \in Pids, code \in {0, 1, 15} :
          proc' = [proc EXCEPT ![p] = Over(p, code)] /\ UNCHANGED <<worker, file, lost>>
    BY <1>2 DEF MonitorStops, MonitorCrashes, CommandEnds
  <2>2. Over(p, code).state # "running"
    BY <1>t, OverType
  <2>3. SameMonitors
    BY <2>1, <2>2, <1>t DEF Running
  <2>4. QED
    BY <2>1, <2>3, <1>u
<1>3. CASE \E j \in Jobs : Lease(j)
  <2>1. worker.at \notin Rewriting /\ worker'.at \notin Rewriting /\ worker'.at # "spawn"
    BY <1>3 DEF Lease, Free, Truncating, TruncatingStopped
  <2>2. QED
    BY <1>3, <2>1, <1>k DEF Lease, Running
<1>4. CASE CheckCanceled
  <2>1. worker.job \in Jobs
    BY <1>4, <1>t DEF CheckCanceled, WorkerHasJob
  <2>2. job[worker.job].action \in Actions \cup {"none"}
    BY <2>1, <1>t DEF Types, JobRecord
  <2>3. worker.at \notin Rewriting /\ worker'.at \notin Rewriting /\ worker'.at # "spawn"
    BY <1>4, <2>2, <1>t DEF CheckCanceled, WorkerRecord, Free, Actions, Truncating,
                            TruncatingStopped
  <2>4. QED
    BY <1>4, <2>3, <1>k DEF CheckCanceled, Running
\* No process has the pid of the file: then no monitor runs.
<1>5. CASE StartLook
  <2>1. CASE PidIsAlive(file.pid)
    <3>1. worker.at \notin Rewriting /\ worker'.at \notin Rewriting /\ worker'.at # "spawn"
      BY <1>5, <2>1 DEF StartLook, Free, Truncating, TruncatingStopped
    <3>2. QED
      BY <1>5, <3>1, <1>k DEF StartLook, Running
  <2>2. CASE ~PidIsAlive(file.pid)
    <3>1. worker.at \notin Away
      BY <1>5 DEF StartLook, Truncating
    <3>2. ASSUME ~lost, NEW p \in Pids, Monitor(p) PROVE FALSE
      <4>1. file.pid = p
        BY <3>1, <3>2, <1>t DEF Keeper
      <4>2. p # NoPid
        BY PidsAssumption
      <4>3. QED
        BY <4>1, <4>2, <3>2, <2>2 DEF PidIsAlive
    <3>3. lost' = lost /\ proc' = proc
      BY <1>5 DEF StartLook
    <3>4. QED
      BY <3>2, <3>3 DEF Keeper, Running
  <2>3. QED
    BY <2>1, <2>2
\* There was none: the one that is started is the only one.
<1>6. CASE SpawnMonitor
  <2>1. PICK p \in Pids : Popen("monitor", p)
                           /\ worker' = [worker EXCEPT !.at = "truncate", !.pid = p]
    BY <1>6 DEF SpawnMonitor
  <2>2. \A q \in Pids : q # p /\ proc'[q].state = "running" => proc'[q] = proc[q]
    BY <2>1, <1>t, PopenEffect
  <2>3. worker'.at = "truncate" /\ worker'.pid = p
    BY <2>1, <1>t DEF WorkerRecord
  <2>4. ~lost => \A q \in Pids : ~Monitor(q)
    BY <1>6, <1>t DEF SpawnMonitor, Keeper
  <2>5. ~lost => \A q \in Pids : Monitor(q)' => q = p
    BY <2>2, <2>4 DEF Running
  <2>6. lost' = lost
    BY <1>6 DEF SpawnMonitor
  <2>7. QED
    BY <2>3, <2>5, <2>6 DEF Keeper, Truncating
<1>7. CASE Truncate
  <2>1. /\ worker.at \in Rewriting /\ worker'.at \in {"write", "write_stopped"}
        /\ worker'.pid = worker.pid
    BY <1>7, <1>t DEF Truncate, WorkerRecord, Truncating, TruncatingStopped
  <2>2. lost' = lost /\ proc' = proc
    BY <1>7 DEF Truncate
  <2>3. QED
    BY <2>1, <2>2, <1>t DEF Keeper, Running, Truncating, TruncatingStopped
<1>8. CASE WriteStarted \/ WriteStopped
  <2>1. worker.at \in Rewriting /\ worker' = Free /\ file'.pid = worker.pid
    BY <1>8 DEF WriteStarted, WriteStopped, Truncating, TruncatingStopped
  <2>2. lost' = lost /\ proc' = proc
    BY <1>8 DEF WriteStarted, WriteStopped
  <2>3. QED
    BY <2>1, <2>2, <1>t DEF Keeper, Running, Free, Truncating, TruncatingStopped
<1>9. CASE StopLook
  <2>1. /\ worker.at \notin Rewriting /\ worker'.at = "truncate_stopped"
        /\ worker'.pid = file.pid /\ file' = file /\ lost' = lost
    BY <1>9, <1>t DEF StopLook, WorkerRecord, Truncating, TruncatingStopped
  <2>2. SameMonitors
    BY <1>9, <1>t DEF StopLook, ProcRecord, Running
  <2>3. QED
    BY <2>1, <2>2, <1>t DEF Keeper, Truncating, TruncatingStopped
<1>10. CASE StartCommand
  <2>1. PICK p \in Pids : Popen("command", p)
                           /\ worker' = [worker EXCEPT !.at = "poll", !.pid = p]
    BY <1>10 DEF StartCommand
  <2>2. /\ proc'[p].kind = "command"
        /\ \A q \in Pids : q # p /\ proc'[q].state = "running" => proc'[q] = proc[q]
    BY <2>1, <1>t, PopenEffect
  <2>3. SameMonitors
    BY <2>2 DEF Running
  <2>4. /\ worker.at \notin Rewriting /\ worker'.at \notin Rewriting /\ worker'.at # "spawn"
        /\ file' = file /\ lost' = lost
    BY <1>10, <2>1, <1>t DEF StartCommand, WorkerRecord, Truncating, TruncatingStopped
  <2>5. QED
    BY <2>3, <2>4, <1>k
<1>11. CASE PollCancel \/ PollDeadline \/ Terminate \/ Collect \/ CompleteCommand
  <2>1. worker.at \notin Rewriting /\ file' = file /\ lost' = lost
    BY <1>11 DEF PollCancel, PollDeadline, Terminate, Collect, CompleteCommand, Waiting,
                 Truncating, TruncatingStopped
  <2>2. worker'.at \in {"terminate_canceled", "terminate_late", "wait_late", "wait_canceled",
                       "late", "returned", "idle"}
    <3>1. CASE PollCancel \/ PollDeadline \/ CompleteCommand
      BY <3>1, <1>t DEF PollCancel, PollDeadline, CompleteCommand, WorkerRecord, Free
    <3>2. CASE Terminate
      BY <3>2, <1>t DEF Terminate, WorkerRecord
    <3>3. CASE Collect
      BY <3>3, <1>t DEF Collect, WorkerRecord
    <3>4. QED
      BY <1>11, <3>1, <3>2, <3>3
  <2>3. SameMonitors
    BY <1>11, <1>t DEF PollCancel, PollDeadline, Terminate, Collect, CompleteCommand, NoProc,
                       ProcRecord, Running
  <2>4. QED
    BY <2>1, <2>2, <2>3, <1>k DEF Truncating, TruncatingStopped
<1>12. CASE Kill
  <2>1. worker.pid \in Pids
    BY <1>12, <1>t DEF Kill, WorkerHasCommand, Watched
  <2>2. Over(worker.pid, 9).state # "running"
    BY <2>1, <1>t, OverType
  <2>3. SameMonitors
    BY <1>12, <2>2, <1>t DEF Kill, Running
  <2>4. QED
    BY <1>12, <2>3, <1>u DEF Kill
\* What the worker knew alone is lost with it, and said to be.
<1>13. CASE Crash
  <2>1. ~lost' => ~lost /\ worker.at \notin Away
    BY <1>13, <1>t DEF Crash, Truncating
  <2>2. file' = file /\ worker' = Free
    BY <1>13 DEF Crash
  <2>3. SameMonitors
    BY <1>13, <1>t DEF Crash, ProcRecord, NoProc, Running
  <2>4. QED
    BY <2>1, <2>2, <2>3, <1>t DEF Keeper, Free, Truncating, TruncatingStopped
<1>14. CASE UNCHANGED vars
  BY <1>14, <1>u DEF vars, Running
<1>15. QED
  BY <1>1, <1>2, <1>3, <1>4, <1>5, <1>6, <1>7, <1>8, <1>9, <1>10, <1>11, <1>12, <1>13, <1>14
  DEF Next, WorkerStep

-----------------------------------------------------------------------------
(***************************************************************************)
(* The theorems.                                                           *)
(***************************************************************************)
\* Every step keeps what the theorems rest on.
THEOREM Inductive == Spec => []IInv
<1>1. IInv /\ [Next]_vars => IInv'
  BY TypesStep, WorkerHasJobStep, WorkerHasCommandStep, KeeperStep DEF IInv
<1>2. QED
  BY <1>1, InitIInv, PTL DEF Spec

\* The variables hold what their readers expect, whatever the number of pids, jobs and upsets;
\* in particular the command a worker polls or waits for is its own.
THEOREM TypeCorrect == Spec => []TypeOK
<1>1. IInv => TypeOK
  <2> SUFFICES ASSUME IInv PROVE TypeOK
    OBVIOUS
  <2>1. \A j \in Jobs : job[j].status \in {"none", "queued", "running", "cancel_requested"}
                                              \cup Ended
    BY DEF IInv, Types, JobRecord, Statuses
  <2>2. file.pid \in Pids \cup {NoPid} /\ worker.pid \in Pids \cup {NoPid}
    BY DEF IInv, Types, FileRecord, WorkerRecord
  <2>3. worker # Free => job[worker.job].status \in {"running", "cancel_requested"}
    BY DEF IInv, WorkerHasJob, Busy
  <2>4. QED
    BY <2>1, <2>2, <2>3 DEF IInv, WorkerHasCommand, TypeOK
<1>2. QED
  BY <1>1, Inductive, PTL

\* start_monitor, stop_monitor: monitor_process.json names every monitor that runs, except
\* while the worker rewrites it and after a server that ended while it did.
THEOREM AlwaysFindable == Spec => []MonitorIsFindable
<1>1. IInv => MonitorIsFindable
  BY DEF IInv, Keeper, MonitorIsFindable, Monitors, Truncating
<1>2. QED
  BY <1>1, Inductive, PTL

\* start_monitor: however starts, stops, crashes and reused pids follow each other, there is
\* one monitor, unless the server ended before it had written down the pid.
THEOREM AlwaysOneMonitor == Spec => []OneMonitor
<1>1. IInv => OneMonitor
  <2> SUFFICES ASSUME IInv, ~lost PROVE Cardinality(Monitors) <= 1
    BY DEF OneMonitor
  <2>1. PICK x : \A p \in Monitors : p = x
    <3>1. CASE worker.at \in Truncating \cup TruncatingStopped
      <4>1. \A p \in Monitors : p = worker.pid
        BY <3>1 DEF IInv, Keeper, Monitors
      <4>2. QED
        BY <4>1
    <3>2. CASE worker.at \notin Truncating \cup TruncatingStopped
      <4>1. \A p \in Monitors : p = file.pid
        BY <3>2 DEF IInv, Keeper, Monitors, TruncatingStopped
      <4>2. QED
        BY <4>1
    <3>3. QED
      BY <3>1, <3>2
  <2>2. Monitors \subseteq {x}
    BY <2>1
  <2>3. IsFiniteSet({x}) /\ Cardinality({x}) = 1
    BY FS_Singleton
  <2>4. Cardinality(Monitors) <= Cardinality({x})
    BY <2>2, <2>3, FS_Subset
  <2>5. QED
    BY <2>3, <2>4
<1>2. QED
  BY <1>1, Inductive, PTL

\* StreamingCommandRunner: no command of a job runs on after the job is over, however the end
\* of the process, a cancel and the deadline fall together.
THEOREM NothingOutlives == Spec => []NothingOutlivesItsJob
<1>1. IInv => NothingOutlivesItsJob
  <2> SUFFICES ASSUME IInv, NEW p \in Pids, Running(p), proc[p].kind = "command", proc[p].ours
               PROVE  job[proc[p].job].status \notin Ended
    BY DEF NothingOutlivesItsJob
  <2>1. worker.at \in Watched /\ worker.pid = p
    BY DEF IInv, OnlyCommand
  <2>2. proc[p].job = worker.job
    BY <2>1 DEF IInv, WorkerHasCommand
  <2>3. job[worker.job].status \in Busy
    BY <2>1 DEF IInv, WorkerHasJob, Watched, Waiting
  <2>4. QED
    BY <2>2, <2>3 DEF Busy, Ended
<1>2. QED
  BY <1>1, Inductive, PTL

-----------------------------------------------------------------------------
(***************************************************************************)
(* The outcomes of commands.                                               *)
(***************************************************************************)
\* What OutcomeIsTrue says of one job.
Truthful(j) ==
  j.action = "command" =>
    /\ j.status = "succeeded" => j.did = "all"
    /\ j.status = "failed" => j.did = "part"
    /\ j.status \in {"canceled", "timed_out"} /\ j.did = "all" => j.cut

\* A job that waits has done nothing.
Waits(j) == j.status \in {"none", "queued"} => j.did = "nothing"

Starting == {"start_monitor", "spawn"} \cup Truncating
Stopping == {"stop_monitor"} \cup TruncatingStopped

\* Where the worker w is with the job j, and its command c: the code it takes tells what was
\* done, and the command is not ended before that is written down.
Told(j, w, c) ==
  /\ w.at \in Starting => j.action = "start_monitor"
  /\ w.at \in Stopping => j.action = "stop_monitor"
  /\ w.at \in {"check", "command"} => j.did = "nothing"
  /\ w.at \in {"terminate_canceled", "wait_canceled"} => j.cancel
  /\ w.at \in {"terminate_canceled", "terminate_late", "late"} \cup Waiting => j.cut
  /\ w.at \in Watched =>
       /\ c.state = "running" => j.did = "nothing"
       /\ c.state = "zombie" => j.did = IF c.code = 0 THEN "all" ELSE "part"
  /\ w.at = "returned" /\ w.code = 0 => j.did = "all"
  /\ w.at = "returned" /\ w.code # 0 => j.did = "part" \/ (j.did = "all" /\ j.cut /\ j.cancel)

ToldInv ==
  /\ \A j \in Jobs : Waits(job[j]) /\ Truthful(job[j])
  /\ worker.at # "idle" => Told(job[worker.job], worker, proc[worker.pid])

LEMMA ToldStep == IInv /\ ToldInv /\ [Next]_vars => ToldInv'
<1> SUFFICES ASSUME IInv, ToldInv, [Next]_vars PROVE ToldInv'
  OBVIOUS
<1>t. /\ Types /\ WorkerHasCommand /\ OnlyCommand /\ WorkerHasJob
      /\ job \in [Jobs -> JobRecord] /\ proc \in [Pids -> ProcRecord] /\ worker \in WorkerRecord
      /\ \A j \in Jobs : Waits(job[j]) /\ Truthful(job[j])
      /\ worker.at # "idle" => Told(job[worker.job], worker, proc[worker.pid])
  BY DEF IInv, Types, ToldInv
\* It is enough to look at the job that changes, and at that of the worker.
<1>d. ASSUME NEW k \in Jobs, NEW x, job' = [job EXCEPT ![k] = x], Waits(x), Truthful(x),
             worker'.at # "idle" =>
               /\ worker'.job \in Jobs
               /\ Told(IF worker'.job = k THEN x ELSE job[worker'.job], worker',
                       proc'[worker'.pid])
      PROVE  ToldInv'
  <2>1. \A j \in Jobs : job'[j] = IF j = k THEN x ELSE job[j]
    BY <1>d, <1>t
  <2>2. QED
    BY <2>1, <1>d, <1>t DEF ToldInv
<1>w. ASSUME UNCHANGED job,
             worker'.at # "idle" => Told(job[worker'.job], worker', proc'[worker'.pid])
      PROVE  ToldInv'
  BY <1>w, <1>t DEF ToldInv
\* The end of a job.
<1>c. ASSUME NEW status \in Ended, Complete(status), worker' = Free, worker.at # "idle",
             Truthful([job[worker.job] EXCEPT !.status = status])
      PROVE  ToldInv'
  <2> DEFINE x == [job[worker.job] EXCEPT !.status = status]
  <2>1. worker.job \in Jobs /\ job[worker.job] \in JobRecord
    BY <1>c, <1>t DEF WorkerHasJob
  <2>2. job' = [job EXCEPT ![worker.job] = x]
    BY <1>c DEF Complete
  <2>3. Waits(x)
    BY <2>1 DEF Waits, JobRecord, Ended
  <2>4. worker'.at = "idle"
    BY <1>c DEF Free
  <2> HIDE DEF x
  <2>5. QED
    BY <2>1, <2>2, <2>3, <2>4, <1>c, <1>d DEF x
\* The command of the worker ends with a code, or is killed.
<1>e. ASSUME NEW code \in Nat, NEW did, worker.at \in Watched, worker' = worker,
             proc' = [proc EXCEPT ![worker.pid] = Over(worker.pid, code)],
             job' = [job EXCEPT ![worker.job].did = did],
             did = IF code = 0 THEN "all" ELSE "part"
      PROVE  ToldInv'
  <2> DEFINE x == [job[worker.job] EXCEPT !.did = did]
  <2>1. /\ worker.at # "idle" /\ worker.job \in Jobs /\ worker.pid \in Pids
        /\ job[worker.job] \in JobRecord /\ job[worker.job].status \in Busy
        /\ proc[worker.pid] \in ProcRecord /\ proc[worker.pid].ours
    BY <1>e, <1>t DEF WorkerHasJob, WorkerHasCommand, Watched, Waiting
  <2>2. job' = [job EXCEPT ![worker.job] = x]
    BY <1>e
  <2>3. Waits(x) /\ Truthful(x)
    BY <2>1 DEF Waits, Truthful, JobRecord, Busy
  <2>4. proc'[worker.pid].state = "zombie" /\ proc'[worker.pid].code = code
    BY <1>e, <2>1, <1>t DEF Over, ProcRecord
  <2>5. x.did = did /\ x.cancel = job[worker.job].cancel /\ x.cut = job[worker.job].cut
        /\ x.action = job[worker.job].action
    BY <2>1 DEF JobRecord
  <2> HIDE DEF x
  <2>6. Told(x, worker, proc'[worker.pid])
    BY <1>e, <1>t, <2>1, <2>4, <2>5 DEF Told, Watched, Waiting, Starting, Stopping, Truncating,
       TruncatingStopped
  <2>7. QED
    BY <2>1, <2>2, <2>3, <2>6, <1>d, <1>e
<1>1. CASE \E j \in Jobs : RequestCancel(j)
  <2>1. PICK j \in Jobs : RequestCancel(j)
    BY <1>1
  <2> DEFINE status == IF job[j].status = "queued" THEN "canceled" ELSE "cancel_requested"
             x == [job[j] EXCEPT !.cancel = TRUE, !.status = status]
  <2>2. job[j].status \in {"queued", "running"} /\ job' = [job EXCEPT ![j] = x]
        /\ UNCHANGED <<proc, worker>>
    BY <2>1, <1>t DEF RequestCancel
  <2>3. /\ x.status = status /\ x.cancel = TRUE /\ x.did = job[j].did /\ x.cut = job[j].cut
        /\ x.action = job[j].action
    BY <1>t DEF JobRecord
  <2> HIDE DEF x
  <2>4. Waits(x) /\ Truthful(x)
    BY <2>2, <2>3, <1>t DEF Waits, Truthful
  <2>5. worker.at # "idle" /\ worker.job = j => Told(x, worker, proc[worker.pid])
    BY <2>3, <1>t DEF Told
  <2>6. QED
    BY <2>2, <2>4, <2>5, <1>d, <1>t DEF WorkerHasJob
<1>2. CASE \E j \in Jobs, action \in Actions : Enqueue(j, action)
  <2>1. PICK j \in Jobs, action \in Actions : Enqueue(j, action)
    BY <1>2
  <2> DEFINE x == [NoJob EXCEPT !.action = action, !.status = "queued"]
  <2>2. job[j].status = "none" /\ job' = [job EXCEPT ![j] = x] /\ UNCHANGED <<proc, worker>>
    BY <2>1 DEF Enqueue, NoJob
  <2>3. Waits(x) /\ Truthful(x)
    BY DEF Waits, Truthful, NoJob
  <2> HIDE DEF x
  <2>4. worker.at # "idle" => worker.job \in Jobs /\ worker.job # j
    BY <2>2, <1>t DEF WorkerHasJob, Busy
  <2>5. QED
    BY <2>2, <2>3, <2>4, <1>d, <1>t
<1>3. CASE \E p \in Pids : MonitorStops(p) \/ MonitorCrashes(p)
  <2>1. PICK p \in Pids, code \in {0, 1} :
          /\ proc[p].kind = "monitor" /\ proc' = [proc EXCEPT ![p] = Over(p, code)]
          /\ UNCHANGED <<job, worker>>
    BY <1>3 DEF MonitorStops, MonitorCrashes
  <2>2. CASE worker.at \in Watched
    <3>1. worker.pid \in Pids /\ worker.pid # p
      BY <2>1, <2>2, <1>t DEF WorkerHasCommand
    <3>2. QED
      BY <2>1, <3>1, <1>t, <1>w
  <2>3. CASE worker.at \notin Watched
    BY <2>1, <2>3, <1>t, <1>w DEF Told
  <2>4. QED
    BY <2>2, <2>3
<1>4. CASE \E p \in Pids : CommandEnds(p)
  <2>1. PICK p \in Pids : CommandEnds(p)
    BY <1>4
  <2>2. PICK code \in {0, 1, 15} :
          /\ proc' = [proc EXCEPT ![p] = Over(p, code)] /\ worker' = worker
          /\ job' = IF proc[p].ours
                    THEN [job EXCEPT ![proc[p].job].did = IF code = 0 THEN "all" ELSE "part"]
                    ELSE job
    BY <2>1 DEF CommandEnds
  <2>3. CASE proc[p].ours
    <3>1. worker.at \in Watched /\ worker.pid = p /\ proc[p].job = worker.job
      BY <2>1, <2>3, <1>t DEF CommandEnds, OnlyCommand, WorkerHasCommand
    <3> DEFINE did == IF code = 0 THEN "all" ELSE "part"
    <3>2. job' = [job EXCEPT ![worker.job].did = did]
      BY <2>2, <2>3, <3>1
    <3> HIDE DEF did
    <3>3. QED
      BY <2>2, <3>1, <3>2, <1>e DEF did
  <2>4. CASE ~proc[p].ours
    <3>1. CASE worker.at \in Watched
      <4>1. worker.pid \in Pids /\ worker.pid # p
        BY <2>4, <3>1, <1>t DEF WorkerHasCommand
      <4>2. QED
        BY <2>2, <2>4, <4>1, <1>t, <1>w
    <3>2. CASE worker.at \notin Watched
      BY <2>2, <2>4, <3>2, <1>t, <1>w DEF Told
    <3>3. QED
      BY <3>1, <3>2
  <2>5. QED
    BY <2>3, <2>4
<1>5. CASE \E j \in Jobs : Lease(j)
  <2>1. PICK j \in Jobs : Lease(j)
    BY <1>5
  <2> DEFINE x == [job[j] EXCEPT !.status = "running"]
  <2>2. job[j].status = "queued" /\ job' = [job EXCEPT ![j] = x]
    BY <2>1 DEF Lease
  <2>3. x.status = "running" /\ x.did = "nothing"
    BY <2>2, <1>t DEF JobRecord, Waits
  <2> HIDE DEF x
  <2>4. worker'.at = "check" /\ worker'.job = j
    BY <2>1 DEF Lease, Free
  <2>5. Waits(x) /\ Truthful(x) /\ Told(x, worker', proc'[worker'.pid])
    BY <2>3, <2>4 DEF Waits, Truthful, Told, Starting, Stopping, Truncating, TruncatingStopped,
       Watched, Waiting
  <2>6. QED
    BY <2>2, <2>4, <2>5, <1>d
<1>6. CASE CheckCanceled
  <2>0. worker.at = "check" /\ worker.job \in Jobs /\ job[worker.job] \in JobRecord
        /\ job[worker.job].did = "nothing"
    BY <1>6, <1>t DEF CheckCanceled, WorkerHasJob, Told
  <2>1. CASE job[worker.job].cancel
    <3>1. Complete("canceled") /\ worker' = Free
      BY <1>6, <2>1 DEF CheckCanceled
    <3>2. Truthful([job[worker.job] EXCEPT !.status = "canceled"])
      BY <2>0 DEF Truthful, JobRecord
    <3>3. QED
      BY <2>0, <3>1, <3>2, <1>c DEF Ended
  <2>2. CASE ~job[worker.job].cancel
    <3>1. UNCHANGED job /\ worker'.at = job[worker.job].action /\ worker'.job = worker.job
      BY <1>6, <2>2, <1>t DEF CheckCanceled, WorkerRecord
    <3>2. job[worker.job].action \in {"start_monitor", "stop_monitor", "command", "none"}
      BY <2>0 DEF JobRecord, Actions
    <3>3. Told(job[worker.job], worker', proc'[worker'.pid])
      BY <2>0, <3>1, <3>2 DEF Told, Starting, Stopping, Truncating, TruncatingStopped, Watched,
         Waiting
    <3>4. QED
      BY <3>1, <3>3, <1>w
  <2>3. QED
    BY <2>1, <2>2
\* start_monitor and stop_monitor have no command.
<1>7. CASE StartLook \/ WriteStarted \/ WriteStopped
  <2>1. /\ worker.at \in Starting \cup Stopping /\ worker.at # "idle" /\ worker.job \in Jobs
        /\ job[worker.job] \in JobRecord
    BY <1>7, <1>t DEF StartLook, WriteStarted, WriteStopped, Starting, Stopping, Truncating,
       TruncatingStopped, WorkerHasJob
  <2>2. job[worker.job].action # "command"
    BY <2>1, <1>t DEF Told
  <2>3. \A status \in Ended : Truthful([job[worker.job] EXCEPT !.status = status])
    BY <2>1, <2>2 DEF Truthful, JobRecord
  <2>4. CASE worker' = Free
    <3>1. \E status \in Ended : Complete(status)
      BY <1>7, <2>4, <2>1 DEF StartLook, WriteStarted, WriteStopped, Ended, Free
    <3>2. QED
      BY <2>1, <2>3, <2>4, <3>1, <1>c
  <2>5. CASE worker' # Free
    <3>1. StartLook /\ UNCHANGED job /\ worker' = [worker EXCEPT !.at = "spawn"]
      BY <1>7, <2>5 DEF StartLook, WriteStarted, WriteStopped
    <3>2. worker'.at = "spawn" /\ worker'.job = worker.job /\ worker.at = "start_monitor"
      BY <3>1, <1>t DEF WorkerRecord, StartLook
    <3>3. Told(job[worker.job], worker', proc'[worker'.pid])
      BY <3>2, <1>t DEF Told, Starting, Stopping, Truncating, TruncatingStopped, Watched, Waiting
    <3>4. QED
      BY <3>1, <3>2, <3>3, <1>w
  <2>6. QED
    BY <2>4, <2>5
<1>8. CASE SpawnMonitor \/ Truncate \/ StopLook
  <2>1. /\ UNCHANGED job /\ worker'.job = worker.job /\ worker.at # "idle"
        /\ \/ worker.at \in Starting /\ worker'.at \in Truncating
           \/ worker.at \in Stopping /\ worker'.at \in TruncatingStopped
    BY <1>8, <1>t DEF SpawnMonitor, Truncate, StopLook, WorkerRecord, Starting, Stopping,
       Truncating, TruncatingStopped
  <2>2. Told(job[worker.job], worker', proc'[worker'.pid])
    BY <2>1, <1>t DEF Told, Starting, Stopping, Truncating, TruncatingStopped, Watched, Waiting
  <2>3. QED
    BY <2>1, <2>2, <1>w
<1>9. CASE StartCommand
  <2>1. PICK p \in Pids : Popen("command", p)
                           /\ worker' = [worker EXCEPT !.at = "poll", !.pid = p]
    BY <1>9 DEF StartCommand
  <2>2. proc'[p].state = "running"
    <3>1. Reaped \in [Pids -> ProcRecord]
      BY <1>t DEF Reaped, NoProc, ProcRecord, Unbound
    <3>2. QED
      BY <2>1, <3>1 DEF Popen
  <2>3. /\ worker'.at = "poll" /\ worker'.pid = p /\ worker'.job = worker.job /\ UNCHANGED job
        /\ worker.at = "command"
    BY <1>9, <2>1, <1>t DEF StartCommand, WorkerRecord
  <2>4. Told(job[worker.job], worker', proc'[worker'.pid])
    BY <2>2, <2>3, <1>t DEF Told, Starting, Stopping, Truncating, TruncatingStopped, Waiting
  <2>5. QED
    BY <2>3, <2>4, <1>w
<1>10. CASE PollCancel \/ PollDeadline
  <2> DEFINE x == [job[worker.job] EXCEPT !.cut = TRUE]
  <2>1. /\ worker.at = "poll" /\ worker.job \in Jobs /\ job[worker.job] \in JobRecord
        /\ job[worker.job].status \in Busy /\ UNCHANGED proc
        /\ job' = [job EXCEPT ![worker.job] = x]
        /\ worker'.job = worker.job /\ worker'.pid = worker.pid
        /\ \/ worker'.at = "terminate_canceled" /\ job[worker.job].cancel
           \/ worker'.at = "terminate_late"
    BY <1>10, <1>t DEF PollCancel, PollDeadline, WorkerRecord, WorkerHasJob
  <2>2. /\ x.status = job[worker.job].status /\ x.did = job[worker.job].did /\ x.cut = TRUE
        /\ x.cancel = job[worker.job].cancel /\ x.action = job[worker.job].action
    BY <2>1 DEF JobRecord
  <2> HIDE DEF x
  <2>3. Waits(x) /\ Truthful(x)
    BY <2>1, <2>2 DEF Waits, Truthful, Busy
  <2>4. Told(x, worker', proc'[worker'.pid])
    BY <2>1, <2>2, <1>t DEF Told, Starting, Stopping, Truncating, TruncatingStopped, Watched,
       Waiting
  <2>5. QED
    BY <2>1, <2>3, <2>4, <1>d
<1>11. CASE Terminate
  <2>1. /\ UNCHANGED job /\ worker'.job = worker.job /\ worker'.pid = worker.pid
        /\ \/ worker.at = "terminate_canceled" /\ worker'.at = "wait_canceled"
           \/ worker.at = "terminate_late" /\ worker'.at = "wait_late"
    BY <1>11, <1>t DEF Terminate, WorkerRecord
  <2>2. worker.pid \in Pids
    BY <2>1, <1>t DEF WorkerHasCommand, Watched
  <2>3. /\ proc'[worker.pid].state = proc[worker.pid].state
        /\ proc'[worker.pid].code = proc[worker.pid].code
    BY <1>11, <2>2, <1>t DEF Terminate, ProcRecord
  <2>4. Told(job[worker.job], worker', proc'[worker'.pid])
    BY <2>1, <2>3, <1>t DEF Told, Starting, Stopping, Truncating, TruncatingStopped, Watched,
       Waiting
  <2>5. QED
    BY <2>1, <2>4, <1>w
<1>12. CASE Kill
  <2>1. worker.at \in Watched
    BY <1>12 DEF Kill, Watched
  <2>2. /\ worker' = worker
        /\ proc' = [proc EXCEPT ![worker.pid] = Over(worker.pid, 9)]
        /\ job' = [job EXCEPT ![worker.job].did = "part"]
    BY <1>12 DEF Kill
  <2>3. 9 \in Nat /\ "part" = IF 9 = 0 THEN "all" ELSE "part"
    OBVIOUS
  <2> HIDE <1>12
  <2>4. QED
    BY <2>1, <2>2, <2>3, <1>e, Zenon
<1>13. CASE Collect
  <2> DEFINE code == Returned(proc[worker.pid].code, worker.at = "wait_canceled")
  <2>1. /\ worker.at \in {"poll"} \cup Waiting /\ proc[worker.pid].state = "zombie"
        /\ UNCHANGED job /\ worker'.job = worker.job /\ worker'.code = code
        /\ worker'.at = IF worker.at = "wait_late" THEN "late" ELSE "returned"
    BY <1>13, <1>t DEF Collect, WorkerRecord
  <2>2. job[worker.job].did = IF proc[worker.pid].code = 0 THEN "all" ELSE "part"
    BY <2>1, <1>t DEF Told, Watched, Waiting
  <2>3. CASE worker.at = "wait_late"
    <3>1. worker'.at = "late" /\ job[worker.job].cut
      BY <2>1, <2>3, <1>t DEF Told, Waiting
    <3>2. Told(job[worker.job], worker', proc'[worker'.pid])
      BY <3>1 DEF Told, Starting, Stopping, Truncating, TruncatingStopped, Watched, Waiting
    <3>3. QED
      BY <2>1, <3>2, <1>w
  <2>4. CASE worker.at = "poll"
    <3>1. worker'.at = "returned" /\ worker'.code = proc[worker.pid].code
      BY <2>1, <2>4 DEF Returned
    <3>2. Told(job[worker.job], worker', proc'[worker'.pid])
      BY <3>1, <2>2 DEF Told, Starting, Stopping, Truncating, TruncatingStopped, Watched, Waiting
    <3>3. QED
      BY <2>1, <3>2, <1>w
  <2>5. CASE worker.at = "wait_canceled"
    <3>1. /\ worker'.at = "returned" /\ worker'.code # 0
          /\ job[worker.job].cut /\ job[worker.job].cancel
      BY <2>1, <2>5, <1>t DEF Returned, Told, Waiting
    <3>2. Told(job[worker.job], worker', proc'[worker'.pid])
      BY <3>1, <2>2 DEF Told, Starting, Stopping, Truncating, TruncatingStopped, Watched, Waiting
    <3>3. QED
      BY <2>1, <3>2, <1>w
  <2>6. QED
    BY <2>1, <2>3, <2>4, <2>5 DEF Waiting
<1>14. CASE CompleteCommand
  <2> DEFINE late == worker.at = "late"
             cancel == job[worker.job].cancel
             status == Outcome(worker.code, late, cancel)
  <2>1. /\ worker.at \in {"returned", "late"} /\ Complete(status) /\ worker' = Free
        /\ worker.job \in Jobs /\ job[worker.job] \in JobRecord
    BY <1>14, <1>t DEF CompleteCommand, WorkerHasJob
  <2>2. status \in Ended
    BY DEF Outcome, Ended
  <2>3. /\ status = "succeeded" => job[worker.job].did = "all"
        /\ status = "failed" => job[worker.job].did = "part"
        /\ status \in {"canceled", "timed_out"} /\ job[worker.job].did = "all"
             => job[worker.job].cut
    BY <2>1, <1>t DEF Outcome, Told
  <2> HIDE DEF status
  <2>4. Truthful([job[worker.job] EXCEPT !.status = status])
    BY <2>1, <2>3 DEF Truthful, JobRecord
  <2>5. QED
    BY <2>1, <2>2, <2>4, <1>c
\* A job that is requeued will do everything again.
<1>15. CASE Crash
  <2>1. CASE UNCHANGED job
    BY <1>15, <2>1, <1>w DEF Crash, Free
  <2>2. CASE ~UNCHANGED job
    <3>1. PICK status \in {"queued", "timed_out"} :
            job' = [job EXCEPT ![worker.job].status = status, ![worker.job].did = "nothing"]
      BY <1>15, <2>2 DEF Crash
    <3>2. worker.job \in Jobs /\ job[worker.job] \in JobRecord
      BY <1>15, <2>2, <1>t DEF Crash, WorkerHasJob
    <3> DEFINE x == [job[worker.job] EXCEPT !.status = status, !.did = "nothing"]
    <3>3. job' = [job EXCEPT ![worker.job] = x]
      BY <3>1, <3>2, <1>t
    <3>4. Waits(x) /\ Truthful(x)
      BY <3>2 DEF Waits, Truthful, JobRecord
    <3> HIDE DEF x
    <3>5. worker'.at = "idle"
      BY <1>15 DEF Crash, Free
    <3>6. QED
      BY <3>2, <3>3, <3>4, <3>5, <1>d
  <2>3. QED
    BY <2>1, <2>2
<1>16. CASE UNCHANGED vars
  BY <1>16, <1>t, <1>w DEF vars
<1>17. QED
  BY <1>1, <1>2, <1>3, <1>4, <1>5, <1>6, <1>7, <1>8, <1>9, <1>10, <1>11, <1>12, <1>13, <1>14,
     <1>15, <1>16 DEF Next, WorkerStep

\* StreamingCommandRunner and run_once: whatever falls together with the end of a command - a
\* cancel, the deadline, the signal, a crash and a restart - the status of its job is true to
\* what the command did.
THEOREM OutcomesAreTrue == Spec => []OutcomeIsTrue
<1>1. Init => ToldInv
  BY DEF Init, ToldInv, Waits, Truthful, NoJob, Free
<1>2. ToldInv => OutcomeIsTrue
  BY DEF ToldInv, Truthful, OutcomeIsTrue
<1>3. QED
  BY <1>1, <1>2, ToldStep, Inductive, PTL DEF Spec
=============================================================================
