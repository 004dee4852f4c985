---------------------------- MODULE JobLifecycle ----------------------------
(***************************************************************************)
(* What the job queue promises to the operator who queued a job, without   *)
(* the file, the two reads and the append behind each update, the reaper's *)
(* snapshot or the crashes:                                                *)
(*   - the queue is first in, first out: a job that waits is taken up      *)
(*     before every younger one;                                           *)
(*   - a job is taken up at most MaxAttempts times, and each time its      *)
(*     action starts at most once;                                         *)
(*   - an end state is final, and every job reaches one.                   *)
(***************************************************************************)
EXTENDS Naturals

CONSTANTS MaxJobs, MaxAttempts

VARIABLES
  state,     \* [Jobs -> "new", "queued", "running" or an end state]
  attempts,  \* [Jobs -> Nat]: times the job was taken up
  runs       \* [Jobs -> Nat]: times its action was started

vars == <<state, attempts, runs>>

Jobs == 1..MaxJobs

EndStates == {"succeeded", "failed", "blocked", "timed_out"}

Init ==
  /\ state = [j \in Jobs |-> "new"]
  /\ attempts = [j \in Jobs |-> 0]
  /\ runs = [j \in Jobs |-> 0]

Moves(j, from, to) == state[j] = from /\ state' = [state EXCEPT ![j] = to]

Create(j) ==
  /\ \A i \in Jobs : i < j => state[i] # "new"
  /\ Moves(j, "new", "queued")
  /\ UNCHANGED <<attempts, runs>>

TakeUp(j) ==
  /\ \A i \in Jobs : i < j => state[i] # "queued"
  /\ attempts[j] < MaxAttempts
  /\ Moves(j, "queued", "running")
  /\ attempts' = [attempts EXCEPT ![j] = @ + 1]
  /\ UNCHANGED runs

Start(j) ==
  /\ state[j] = "running" /\ runs[j] < attempts[j]
  /\ runs' = [runs EXCEPT ![j] = @ + 1]
  /\ UNCHANGED <<state, attempts>>

PutBack(j) ==
  /\ attempts[j] < MaxAttempts
  /\ Moves(j, "running", "queued")
  /\ UNCHANGED <<attempts, runs>>

\* A job that never started can only time out.
End(j) ==
  /\ \E s \in EndStates :
       /\ s # "timed_out" => runs[j] > 0
       /\ Moves(j, "running", s)
  /\ UNCHANGED <<attempts, runs>>

Next == \E j \in Jobs :
          Create(j) \/ TakeUp(j) \/ Start(j) \/ PutBack(j) \/ End(j)

Spec == /\ Init /\ [][Next]_vars
        /\ \A j \in Jobs : WF_vars(TakeUp(j)) /\ WF_vars(PutBack(j) \/ End(j))
=============================================================================
