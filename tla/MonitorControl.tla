--------------------------- MODULE MonitorControl ---------------------------
(***************************************************************************)
(* The operating-system side of the web server: the monitor daemon that    *)
(* start_monitor and stop_monitor find again by the pid in                 *)
(* monitor_process.json (web_ui/operation_runner.py, runtime_control.py),  *)
(* and the commands StreamingCommandRunner (web_ui/job_worker.py) runs for *)
(* a job, with a deadline and with an operator who may cancel them.        *)
(*                                                                         *)
(* The server is the parent of what it starts and never waits for the      *)
(* monitor: one that is over is a zombie, which os.kill(pid, 0) still      *)
(* finds, until the next Popen of that server cleans up.                   *)
(*                                                                         *)
(* An update of a job is one step here; JobStore has what two of them do   *)
(* to each other.  There is one worker.                                    *)
(***************************************************************************)
EXTENDS Naturals, FiniteSets

CONSTANTS
  Pids,       \* bound: processes at a time
  MaxJobs,    \* bound: the jobs, in the order of their creation
  MaxUpsets   \* bound: crashes of the server, and processes that end unasked

ASSUME BoundsAssumption == MaxJobs \in Nat /\ MaxUpsets \in Nat

Jobs == 1..MaxJobs

Actions == {"start_monitor", "stop_monitor", "command"}

VARIABLES
  job,     \* [Jobs -> [action, status, cancel, did, cut]]: did and cut are history
  proc,    \* [Pids -> [kind, state, ours, asked, code, job]]
  file,    \* monitor_process.json: [pid, status]
  worker,  \* [at, job, pid]: where the worker is
  upsets,  \* upsets so far
  lost     \* history: the server ended between a Popen and the file that tells of it

vars == <<job, proc, file, worker, upsets, lost>>

NoPid == 0
NoJob == [action |-> "none", status |-> "none", cancel |-> FALSE, did |-> "nothing",
          cut |-> FALSE]
Unbound == 0
NoProc == [kind |-> "none", state |-> "none", ours |-> FALSE, asked |-> FALSE, code |-> 0,
           job |-> Unbound]
Free == [at |-> "idle", job |-> Unbound, pid |-> NoPid, code |-> 0]
Empty == [pid |-> NoPid, status |-> ""]   \* missing, or half written: read_monitor_process has {}

ASSUME PidsAssumption == Pids \subseteq Nat \ {NoPid}

Running(p) == proc[p].state = "running"
Ended == {"succeeded", "failed", "blocked", "canceled", "timed_out"}

Init ==
  /\ job = [j \in Jobs |-> NoJob]
  /\ proc = [p \in Pids |-> NoProc]
  /\ file = Empty /\ worker = Free
  /\ upsets = 0 /\ lost = FALSE

-----------------------------------------------------------------------------
(***************************************************************************)
(* Processes.                                                              *)
(***************************************************************************)
\* Popen: the server's own zombies are cleaned up first.
Reaped == [p \in Pids |-> IF proc[p].state = "zombie" THEN NoProc ELSE proc[p]]

Popen(kind, p) ==
  /\ Reaped[p] = NoProc /\ \A q \in Pids : q < p => Reaped[q] # NoProc
  /\ proc' = [Reaped EXCEPT ![p] =
                [kind |-> kind, state |-> "running", ours |-> TRUE, asked |-> FALSE, code |-> 0,
                 job |-> worker.job]]

\* Mutant: a process that ends leaves nothing.
OverAtOnce(p, code) == NoProc

\* A process that ends leaves its code to its parent.
Over(p, code) ==
  IF proc[p].ours THEN [proc[p] EXCEPT !.state = "zombie", !.code = code] ELSE NoProc

\* The handler of SIGTERM lets the monitor finish its cycle; the default ends a command.
\* A command may also hold out.
MonitorStops(p) ==
  /\ Running(p) /\ proc[p].kind = "monitor" /\ proc[p].asked
  /\ proc' = [proc EXCEPT ![p] = Over(p, 0)]
  /\ UNCHANGED <<job, file, worker, upsets, lost>>

MonitorCrashes(p) ==
  /\ Running(p) /\ proc[p].kind = "monitor"
  /\ upsets < MaxUpsets /\ upsets' = upsets + 1
  /\ proc' = [proc EXCEPT ![p] = Over(p, 1)]
  /\ UNCHANGED <<job, file, worker, lost>>

CommandEnds(p) ==
  /\ Running(p) /\ proc[p].kind = "command"
  /\ \E code \in IF proc[p].asked THEN {0, 15} ELSE {0, 1} :
       /\ proc' = [proc EXCEPT ![p] = Over(p, code)]
       /\ job' = IF proc[p].ours
                 THEN [job EXCEPT ![proc[p].job].did = IF code = 0 THEN "all" ELSE "part"]
                 ELSE job
  /\ UNCHANGED <<file, worker, upsets, lost>>

\* Mutant: a monitor that was asked to stop does not count.
PidIsAliveUnasked(pid) == pid # NoPid /\ proc[pid].kind # "none" /\ ~proc[pid].asked

\* pid_is_alive: os.kill(pid, 0) finds a zombie too.
PidIsAlive(pid) == pid # NoPid /\ proc[pid].kind # "none"

-----------------------------------------------------------------------------
(***************************************************************************)
(* Requests and the lease.                                                 *)
(***************************************************************************)
Enqueue(j, action) ==
  /\ job[j] = NoJob /\ \A i \in Jobs : i < j => job[i] # NoJob
  /\ job' = [job EXCEPT ![j] = [NoJob EXCEPT !.action = action, !.status = "queued"]]
  /\ UNCHANGED <<proc, file, worker, upsets, lost>>

\* request_cancel
RequestCancel(j) ==
  /\ job[j].status \in {"queued", "running"} /\ ~job[j].cancel
  /\ job' = [job EXCEPT ![j].cancel = TRUE,
                        ![j].status = IF @ = "queued" THEN "canceled" ELSE "cancel_requested"]
  /\ UNCHANGED <<proc, file, worker, upsets, lost>>

\* lease_next, and the branch of execute_leased_job.
Lease(j) ==
  /\ worker = Free
  /\ job[j].status = "queued" /\ \A i \in Jobs : i < j => job[i].status # "queued"
  /\ job' = [job EXCEPT ![j].status = "running"]
  /\ worker' = [Free EXCEPT !.at = "check", !.job = j]
  /\ UNCHANGED <<proc, file, upsets, lost>>

\* complete
Complete(status) == job' = [job EXCEPT ![worker.job].status = status]

\* The look at the cancel before anything is done.
CheckCanceled ==
  /\ worker.at = "check"
  /\ IF job[worker.job].cancel
     THEN Complete("canceled") /\ worker' = Free
     ELSE worker' = [worker EXCEPT !.at = job[worker.job].action] /\ UNCHANGED job
  /\ UNCHANGED <<proc, file, upsets, lost>>

-----------------------------------------------------------------------------
(***************************************************************************)
(* start_monitor and stop_monitor.                                         *)
(***************************************************************************)
StartLook ==
  /\ worker.at = "start_monitor"
  /\ IF PidIsAlive(file.pid)
     THEN Complete("blocked") /\ worker' = Free
     ELSE worker' = [worker EXCEPT !.at = "spawn"] /\ UNCHANGED job
  /\ UNCHANGED <<proc, file, upsets, lost>>

SpawnMonitor ==
  /\ worker.at = "spawn"
  /\ \E p \in Pids : Popen("monitor", p) /\ worker' = [worker EXCEPT !.at = "truncate", !.pid = p]
  /\ UNCHANGED <<job, file, upsets, lost>>

\* write_text empties the file before it fills it.
Truncate ==
  /\ worker.at \in {"truncate", "truncate_stopped"}
  /\ file' = Empty
  /\ worker' = [worker EXCEPT !.at = IF @ = "truncate" THEN "write" ELSE "write_stopped"]
  /\ UNCHANGED <<job, proc, upsets, lost>>

WriteStarted ==
  /\ worker.at = "write"
  /\ file' = [pid |-> worker.pid, status |-> "running"]
  /\ Complete("succeeded")
  /\ worker' = Free
  /\ UNCHANGED <<proc, upsets, lost>>

\* A SIGTERM to a zombie has no effect, and is no error.
StopLook ==
  /\ worker.at = "stop_monitor"
  /\ proc' = IF PidIsAlive(file.pid) /\ Running(file.pid)
             THEN [proc EXCEPT ![file.pid].asked = TRUE] ELSE proc
  /\ worker' = [worker EXCEPT !.at = "truncate_stopped", !.pid = file.pid,
                              !.code = IF PidIsAlive(file.pid) THEN 0 ELSE 1]
  /\ UNCHANGED <<job, file, upsets, lost>>

\* Mutant: the pid of the monitor is dropped with the signal.
WriteForgotten ==
  /\ worker.at = "write_stopped"
  /\ file' = Empty
  /\ Complete(IF worker.code = 0 THEN "succeeded" ELSE "blocked")
  /\ worker' = Free
  /\ UNCHANGED <<proc, upsets, lost>>

WriteStopped ==
  /\ worker.at = "write_stopped"
  /\ file' = [pid |-> worker.pid, status |-> IF worker.code = 0 THEN "stopping" ELSE "stopped"]
  /\ Complete(IF worker.code = 0 THEN "succeeded" ELSE "blocked")
  /\ worker' = Free
  /\ UNCHANGED <<proc, upsets, lost>>

-----------------------------------------------------------------------------
(***************************************************************************)
(* StreamingCommandRunner.                                                 *)
(***************************************************************************)
StartCommand ==
  /\ worker.at = "command"
  /\ \E p \in Pids : Popen("command", p) /\ worker' = [worker EXCEPT !.at = "poll", !.pid = p]
  /\ UNCHANGED <<job, file, upsets, lost>>

\* process.poll() found it running: a cancel is looked for first, then the deadline.
PollCancel ==
  /\ worker.at = "poll" /\ Running(worker.pid) /\ job[worker.job].cancel
  /\ worker' = [worker EXCEPT !.at = "terminate_canceled"]
  /\ job' = [job EXCEPT ![worker.job].cut = TRUE]
  /\ UNCHANGED <<proc, file, upsets, lost>>

PollDeadline ==
  /\ worker.at = "poll" /\ Running(worker.pid) /\ ~job[worker.job].cancel
  /\ worker' = [worker EXCEPT !.at = "terminate_late"]
  /\ job' = [job EXCEPT ![worker.job].cut = TRUE]
  /\ UNCHANGED <<proc, file, upsets, lost>>

\* Between the poll and the signal the process may have ended by itself.
Terminate ==
  /\ worker.at \in {"terminate_canceled", "terminate_late"}
  /\ proc' = IF Running(worker.pid) THEN [proc EXCEPT ![worker.pid].asked = TRUE] ELSE proc
  /\ worker' = [worker EXCEPT !.at = IF @ = "terminate_late" THEN "wait_late" ELSE "wait_canceled"]
  /\ UNCHANGED <<job, file, upsets, lost>>

Waiting == {"wait_late", "wait_canceled"}

\* Mutant: a command that survives SIGTERM is left alone.
KillNobody ==
  /\ worker.at \in Waiting /\ Running(worker.pid)
  /\ worker' = [worker EXCEPT !.at = IF @ = "wait_late" THEN "late" ELSE "returned",
                              !.pid = NoPid, !.code = 15]
  /\ UNCHANGED <<job, proc, file, upsets, lost>>

\* Mutant: only a command that is late is killed.
KillLate ==
  /\ worker.at = "wait_late" /\ Running(worker.pid)
  /\ proc' = [proc EXCEPT ![worker.pid] = Over(worker.pid, 9)]
  /\ job' = [job EXCEPT ![worker.job].did = "part"]
  /\ UNCHANGED <<file, worker, upsets, lost>>

\* It did not end within cancel_grace_seconds.
Kill ==
  /\ worker.at \in Waiting /\ Running(worker.pid)
  /\ proc' = [proc EXCEPT ![worker.pid] = Over(worker.pid, 9)]
  /\ job' = [job EXCEPT ![worker.job].did = "part"]
  /\ UNCHANGED <<file, worker, upsets, lost>>

\* The return code a canceled command has, when it managed to end with 0.
Returned(code, canceled) == IF canceled /\ code = 0 THEN 15 ELSE code

\* The process is over: poll() or wait() takes its code and it is gone.
Collect ==
  /\ worker.at \in {"poll"} \cup Waiting /\ proc[worker.pid].state = "zombie"
  /\ proc' = [proc EXCEPT ![worker.pid] = NoProc]
  /\ worker' = [worker EXCEPT !.at = IF @ = "wait_late" THEN "late" ELSE "returned", !.pid = NoPid,
                  !.code = Returned(proc[worker.pid].code, worker.at = "wait_canceled")]
  /\ UNCHANGED <<job, file, upsets, lost>>

\* Mutant: the cancel decides, whatever the command returned.
OutcomeOfCancel(code, late, cancel) ==
  IF cancel THEN "canceled" ELSE IF late THEN "timed_out" ELSE IF code = 0 THEN "succeeded" ELSE "failed"

\* _run_monitor_once or the handler of TimeoutExpired, then run_once of the worker:
\* what failed or timed out with a cancel requested is canceled.
Outcome(code, late, cancel) ==
  CASE code = 0 /\ ~late -> "succeeded"
    [] (code # 0 \/ late) /\ cancel -> "canceled"
    [] late /\ ~cancel -> "timed_out"
    [] OTHER -> "failed"

CompleteCommand ==
  /\ worker.at \in {"returned", "late"}
  /\ Complete(Outcome(worker.code, worker.at = "late", job[worker.job].cancel))
  /\ worker' = Free
  /\ UNCHANGED <<proc, file, upsets, lost>>

-----------------------------------------------------------------------------
\* The server ends: its children have no parent any more, and the job it had is requeued or
\* given up when its lease is over.
Crash ==
  /\ upsets < MaxUpsets /\ upsets' = upsets + 1
  /\ proc' = [p \in Pids |-> IF Running(p) THEN [proc[p] EXCEPT !.ours = FALSE] ELSE NoProc]
  /\ \/ /\ worker = Free /\ UNCHANGED job
     \/ /\ worker # Free
        /\ \E status \in {"queued", "timed_out"} :
             job' = [job EXCEPT ![worker.job].status = status, ![worker.job].did = "nothing"]
  /\ lost' = (lost \/ worker.at \in {"truncate", "write", "write_stopped"})
  /\ worker' = Free
  /\ UNCHANGED file

WorkerStep ==
  \/ \E j \in Jobs : Lease(j)
  \/ CheckCanceled \/ StartLook \/ SpawnMonitor \/ Truncate \/ WriteStarted \/ StopLook
  \/ WriteStopped \/ StartCommand \/ PollCancel \/ PollDeadline \/ Terminate \/ Kill
  \/ Collect \/ CompleteCommand

Next ==
  \/ \E j \in Jobs : RequestCancel(j) \/ \E action \in Actions : Enqueue(j, action)
  \/ \E p \in Pids : MonitorStops(p) \/ MonitorCrashes(p) \/ CommandEnds(p)
  \/ WorkerStep \/ Crash

(***************************************************************************)
(* The worker's thread is scheduled, its sleeps and waits end, and the     *)
(* deadline comes.  Nothing is assumed of the processes.                   *)
(***************************************************************************)
Spec == Init /\ [][Next]_vars /\ WF_vars(WorkerStep)

-----------------------------------------------------------------------------
(***************************************************************************)
(* Properties.                                                             *)
(***************************************************************************)
Watched == {"poll", "terminate_canceled", "terminate_late"} \cup Waiting

\* The variables hold what their readers expect: in particular the process the worker waits for
\* is its own command and has not been cleaned up behind its back.
TypeOK ==
  /\ \A j \in Jobs : job[j].status \in {"none", "queued", "running", "cancel_requested"} \cup Ended
  /\ file.pid \in Pids \cup {NoPid}
  /\ worker.pid \in Pids \cup {NoPid}
  /\ worker # Free => job[worker.job].status \in {"running", "cancel_requested"}
  /\ worker.at \in Watched =>
       /\ proc[worker.pid].kind = "command" /\ proc[worker.pid].ours
       /\ proc[worker.pid].job = worker.job

Monitors == {p \in Pids : proc[p].kind = "monitor" /\ Running(p)}

\* _start_monitor: there are never two monitors of a project, also while one is being stopped,
\* unless the server ended before it had written down the pid.
OneMonitor == ~lost => Cardinality(Monitors) <= 1

\* _stop_monitor and runtime(): whenever the worker is not about to write monitor_process.json,
\* it names the monitor that runs, also after a stop that has not taken effect yet.
MonitorIsFindable ==
  ~lost /\ worker.at \notin {"truncate", "write", "truncate_stopped", "write_stopped"}
    => \A p \in Monitors : file.pid = p

\* StreamingCommandRunner and run_once: a command that succeeded did all it had to; one that
\* failed did not; one that is said to be canceled or too late had not done all, unless it ended
\* by itself after the runner had set about ending it.
OutcomeIsTrue ==
  \A j \in Jobs : job[j].action = "command" =>
    /\ job[j].status = "succeeded" => job[j].did = "all"
    /\ job[j].status = "failed" => job[j].did = "part"
    /\ job[j].status \in {"canceled", "timed_out"} /\ job[j].did = "all" => job[j].cut

\* Once a job is over, its command does not run any more, whether it ended, was canceled or
\* was too late, unless the server ended before.
NothingOutlivesItsJob ==
  \A p \in Pids : Running(p) /\ proc[p].kind = "command" /\ proc[p].ours
                    => job[proc[p].job].status \notin Ended

\* A cancel of a running job comes to an end, even if the command ignores SIGTERM and the
\* server is restarted.
CancelIsHeard ==
  \A j \in Jobs : job[j].status = "cancel_requested" ~> job[j].status \in Ended
=============================================================================
