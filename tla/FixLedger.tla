------------------------------ MODULE FixLedger ------------------------------
(***************************************************************************)
(* How a fix changes the configuration of a project and how it is undone:  *)
(* fixers/ (local and remote editor and executor), the operations of       *)
(* sessions/troubleshooting_session.py that use them, the rollback jobs of *)
(* web_ui/operation_runner.py and the recovery history they write.         *)
(*                                                                         *)
(* Every session directory has a ledger of what was applied                *)
(* (applied_fixes.json or remote_applied_fixes.json), a list that a        *)
(* rollback pops.  The configuration file of the project is shared by all  *)
(* sessions, and nothing locks it: the steps of two sessions, and of the   *)
(* rollback job of the web UI, interleave at every access to a file.       *)
(* `crossed' says that they did.                                           *)
(***************************************************************************)
EXTENDS Naturals, Sequences, FiniteSets

CONSTANTS
    Sessions,       \* session directories: of a monitor, of an approved recovery, of a person
    Fixes,          \* fix ids
    Several,        \* the fixes that make all their edits (fix-gpu-2); the others make one
    Fields,         \* fields of config.json
    Edits,          \* the edits of a fix, or the candidates of which it makes the first it may
    MaxValue,       \* values of a field are 0..MaxValue; TRUE is 1 and FALSE 0
    NoValue,        \* a field that the file does not have
    Given,          \* the texts the file may start with
    Torn,           \* a file whose writer died in the middle: it does not parse
    NoFile,         \* a backup that was not made
    Ui,             \* the worker of the web UI that runs rollback jobs
    Latest,         \* a rollback request that names no record
    MaxTime, MaxApplies, MaxRequests, MaxAborts     \* bounds

ASSUME SessionsAssumption == Ui \notin Sessions /\ IsFiniteSet(Sessions)
ASSUME EditsAssumption ==
    /\ Several \subseteq Fixes /\ Fixes # {}
    /\ Edits \in [Fixes -> Seq([field : Fields, value : 0..MaxValue])]
    /\ \A f \in Fixes : Len(Edits[f]) > 0
ASSUME BoundsAssumption ==
    MaxValue \in Nat /\ MaxTime \in Nat /\ MaxApplies \in Nat /\ MaxRequests \in Nat /\ MaxAborts \in Nat

Actors == Sessions \cup {Ui}
Content == [Fields -> 0..MaxValue \cup {NoValue}]
Text == Content \cup {Torn}

Places == {{s} : s \in Sessions} \cup {Sessions}
Names == Places \X Fixes \X (0..MaxTime)

ASSUME ModelValuesAssumption ==
    /\ NoValue \notin Nat /\ Torn \notin Content /\ NoFile \notin Text
    /\ Given \subseteq Content

Edit == [backup : Names, field : Fields, before : Text]
Record == [fix : Fixes, edits : Seq(Edit)]
Target == [session : Sessions, index : Nat, record : Record]

VARIABLES
    remote,     \* the project is on a remote host
    config,     \* config.json of the project
    backups,    \* backup files, named by place, fix and second
    ledger,     \* the list in the record file of a session
    newest,     \* the session whose record file was written last; at first there is none, Ui
    time,       \* the clock, in seconds
    pc,         \* where an actor is
    fix,        \* the fix a session is applying
    step,       \* the edit an actor is at
    data,       \* the text an edit was read from
    made,       \* the edits made so far by an apply
    ok,         \* none of them failed so far
    mem,        \* the list an actor has loaded
    on,         \* the session whose ledger the rollback job works on, or Ui
    asked,      \* what the rollback job was asked for
    target,     \* what it found
    history,    \* the records of which the history last said that they were rolled back
    tally       \* bounded counts

files == <<remote, config, backups, ledger, newest>>
work == <<fix, step, data, made, ok>>
job == <<on, asked, target>>

(***************************************************************************)
(* History variables: `crossed', two actors were at work at once;          *)
(* `shared', the sessions that were at work while the job of the web UI    *)
(* had their ledger; `standing', the edits that were written to the file   *)
(* and that no rollback has taken back since, each the session that made   *)
(* it and the name of its backup.  Two things explain a standing edit      *)
(* without a record: `excused', its apply failed or died, or the ledger    *)
(* was torn while the edit stood; `overtaken', its record was saved while  *)
(* a rollback job held an older list of that ledger.                       *)
(***************************************************************************)
VARIABLES crossed, shared, standing, excused, overtaken

vars == <<remote, config, backups, ledger, newest, time, pc, fix, step, data, made, ok, mem,
          on, asked, target, history, tally, crossed, shared, standing, excused, overtaken>>

Busy(a) == pc[a] # "idle"
AtWork(a) == pc[a] \notin {"idle", "queued"}
Crosses(a) == crossed \/ \E b \in Actors \ {a} : AtWork(b)
Goto(a, label) == pc' = [pc EXCEPT ![a] = label]

AnyFix == CHOOSE f \in Fixes : TRUE
LastOf(s) == s[Len(s)]
FrontOf(s) == SubSeq(s, 1, Len(s) - 1)

\* Where a session keeps its backups: the sessions of a remote project share a directory of it.
Place(s) == IF remote THEN Sessions ELSE {s}
TheEdit(s) == Edits[fix[s]][step[s]]

\* Mutant: the name of a backup does not say for which fix.
NowOfAny(s) == <<Place(s), AnyFix, time>>

Now(s) == <<Place(s), fix[s], time>>

\* The ledger an actor rolls back from: its own, or that of the job.
LedgerOf(a) == IF a = Ui THEN on ELSE a

EditsOf(s, edits) == {<<s, edits[k].backup>> : k \in DOMAIN edits}
RecordedIn(e, records) == \E i \in DOMAIN records : e \in EditsOf(e[1], records[i].edits)

\* The edits of an apply that is not yet over, which has no record to write before its end.
Hand == {"read", "backup", "write", "final", "save"}
InHand(s) == IF s # Ui /\ pc[s] \in Hand THEN EditsOf(s, made[s]) ELSE {}

\* The job has read the ledger of s and will write back what it read, less a record.
HeldByJob(s) == on = s /\ pc[Ui] \in {"restore", "pop"}

(***************************************************************************)
(* evaluate_safe_transition for a change of an integer and for the         *)
(* disabling of a boolean: only downwards.  Equality is tested before.     *)
(***************************************************************************)
Admits(text, e) ==
    /\ text[e.field] # NoValue
    /\ text[e.field] > e.value

AlreadyThere(text, e) == text[e.field] = e.value

Has(text, e) == text # Torn /\ text[e.field] # NoValue


\* An actor is done: what it held in memory is gone.
Leave(a) ==
    /\ Goto(a, "idle")
    /\ fix' = [s \in Sessions |-> IF s = a THEN AnyFix ELSE fix[s]]
    /\ step' = [step EXCEPT ![a] = 1]
    /\ data' = [s \in Sessions |-> IF s = a THEN Torn ELSE data[s]]
    /\ made' = [s \in Sessions |-> IF s = a THEN <<>> ELSE made[s]]
    /\ ok' = [s \in Sessions |-> s = a \/ ok[s]]
    /\ mem' = [mem EXCEPT ![a] = <<>>]
    /\ IF a = Ui THEN on' = Ui /\ asked' = Latest /\ target' = Latest ELSE UNCHANGED job

Init ==
    /\ remote \in BOOLEAN
    /\ config \in Given
    /\ backups = [n \in Names |-> NoFile]
    /\ ledger = [s \in Sessions |-> <<>>]
    /\ newest = Ui
    /\ time = 0
    /\ pc = [a \in Actors |-> "idle"]
    /\ fix = [s \in Sessions |-> AnyFix]
    /\ step = [a \in Actors |-> 1]
    /\ data = [s \in Sessions |-> Torn]
    /\ made = [s \in Sessions |-> <<>>]
    /\ ok = [s \in Sessions |-> TRUE]
    /\ mem = [a \in Actors |-> <<>>]
    /\ on = Ui
    /\ asked = Latest
    /\ target = Latest
    /\ history = {}
    /\ tally = [applies |-> 0, requests |-> 0, aborts |-> 0]
    /\ crossed = FALSE
    /\ shared = {}
    /\ standing = {}
    /\ excused = {}
    /\ overtaken = {}

Tick ==
    /\ time < MaxTime
    /\ time' = time + 1
    /\ UNCHANGED <<files, pc, work, mem, job, history, tally, crossed, shared,
                   standing, excused, overtaken>>

-----------------------------------------------------------------------------
(***************************************************************************)
(* Applying a fix.                                                         *)
(***************************************************************************)

\* Where the two executors start with a fix.
LocalStart(f) == IF f \in Several THEN "read" ELSE "plan"
RemoteStart(f) == IF f \in Several THEN "read" ELSE "try"

(***************************************************************************)
(* Two applies of one fix that do not overlap are a run of the project     *)
(* apart, and so are not in one second.  Two that overlap share the name   *)
(* of a backup when both start before either has made it.                  *)
(***************************************************************************)
Starts(s, f, label) ==
    /\ ~Busy(s)
    /\ tally.applies < MaxApplies
    /\ backups[<<Place(s), f, time>>] = NoFile
    /\ Goto(s, label)
    /\ fix' = [fix EXCEPT ![s] = f]
    /\ tally' = [tally EXCEPT !.applies = @ + 1]
    /\ crossed' = Crosses(s)
    /\ shared' = IF AtWork(Ui) /\ on = s THEN shared \cup {s} ELSE shared
    /\ UNCHANGED <<files, time, step, data, made, ok, mem, job, history,
                   standing, excused, overtaken>>

\* apply_fix and remote_apply_fix of a session, up to the dispatch in apply of the executor.
ApplyFix(s, f) == ~remote /\ Starts(s, f, LocalStart(f))
RemoteApplyFix(s, f) == remote /\ Starts(s, f, RemoteStart(f))

(***************************************************************************)
(* The local executor reads the file once and takes the first candidate    *)
(* the rule of the registry admits; failing that, one that is there        *)
(* already counts as done.                                                 *)
(***************************************************************************)
LocalPlan(s) ==
    LET wanted == Edits[fix[s]]
        admitted == {k \in DOMAIN wanted : config # Torn /\ Admits(config, wanted[k])}
        there == {k \in DOMAIN wanted : Has(config, wanted[k]) /\ AlreadyThere(config, wanted[k])}
    IN  /\ pc[s] = "plan"
        /\ \/ \E k \in admitted :
                /\ \A l \in admitted : k <= l
                /\ step' = [step EXCEPT ![s] = k]
                /\ Goto(s, "read")
                /\ UNCHANGED ok
           \/ /\ admitted = {}
              /\ ok' = [ok EXCEPT ![s] = there # {}]
              /\ Goto(s, "final")
              /\ UNCHANGED step
        /\ UNCHANGED <<files, time, fix, data, made, mem, job, history, tally, crossed, shared,
                       standing, excused, overtaken>>

(***************************************************************************)
(* The remote executor starts the editor once for every candidate, and     *)
(* each start reads the file anew.  `there' of an earlier candidate is     *)
(* remembered in ok: a fix that finds nothing to do succeeds if some       *)
(* candidate had its value.                                                *)
(***************************************************************************)
RemoteTry(s) ==
    LET e == TheEdit(s)
        first == step[s] = 1
        there == Has(config, e) /\ AlreadyThere(config, e)
    IN  /\ pc[s] = "try"
        /\ \/ /\ config # Torn /\ Admits(config, e)
              /\ data' = [data EXCEPT ![s] = config]
              /\ ok' = [ok EXCEPT ![s] = TRUE]
              /\ Goto(s, "backup")
              /\ UNCHANGED step
           \/ /\ ~(config # Torn /\ Admits(config, e))
              /\ ok' = [ok EXCEPT ![s] = there \/ (~first /\ @)]
              /\ IF step[s] < Len(Edits[fix[s]])
                 THEN step' = [step EXCEPT ![s] = @ + 1] /\ UNCHANGED pc
                 ELSE Goto(s, "final") /\ UNCHANGED step
              /\ UNCHANGED data
        /\ UNCHANGED <<files, time, fix, made, mem, job, history, tally, crossed, shared,
                       standing, excused, overtaken>>

(***************************************************************************)
(* After an edit: the next one of a fix with several, or the end.          *)
(***************************************************************************)
NextEdit(s) ==
    IF fix[s] \in Several /\ step[s] < Len(Edits[fix[s]])
    THEN Goto(s, "read") /\ step' = [step EXCEPT ![s] = @ + 1]
    ELSE Goto(s, "final") /\ UNCHANGED step

(***************************************************************************)
(* update_json_field, up to the backup.  It does not ask the rule again.   *)
(***************************************************************************)
EditRead(s) ==
    LET e == TheEdit(s)
    IN  /\ pc[s] = "read"
        /\ \/ /\ Has(config, e) /\ ~AlreadyThere(config, e)
              /\ data' = [data EXCEPT ![s] = config]
              /\ Goto(s, "backup")
              /\ UNCHANGED <<step, ok>>
           \/ /\ Has(config, e) => AlreadyThere(config, e)
              /\ ok' = [ok EXCEPT ![s] = @ /\ Has(config, e)]
              /\ NextEdit(s)
              /\ UNCHANGED data
        /\ UNCHANGED <<files, time, fix, made, mem, job, history, tally, crossed, shared,
                       standing, excused, overtaken>>

\* Mutant: the edit is reported with the name of a backup that was not made.
BackupNotMade(s) ==
    /\ pc[s] = "backup"
    /\ made' = [made EXCEPT ![s] = Append(@, [backup |-> Now(s), field |-> TheEdit(s).field,
                                              before |-> Torn])]
    /\ Goto(s, "write")
    /\ UNCHANGED <<files, time, fix, step, data, ok, mem, job, history, tally, crossed, shared,
                   standing, excused, overtaken>>

(***************************************************************************)
(* The backup is a copy of the file, not of the text that was read.        *)
(***************************************************************************)
Backup(s) ==
    /\ pc[s] = "backup"
    /\ backups' = [backups EXCEPT ![Now(s)] = config]
    /\ made' = [made EXCEPT ![s] = Append(@, [backup |-> Now(s), field |-> TheEdit(s).field,
                                              before |-> Torn])]
    /\ Goto(s, "write")
    /\ UNCHANGED <<remote, config, ledger, newest, time, fix, step, data, ok, mem, job, history, tally,
                   crossed, shared, standing, excused, overtaken>>

(***************************************************************************)
(* The file is written from the text that was read.  `before' is what the  *)
(* write replaces.                                                         *)
(***************************************************************************)
EditWrite(s) ==
    LET e == TheEdit(s)
        n == Len(made[s])
    IN  /\ pc[s] = "write"
        /\ config' = [data[s] EXCEPT ![e.field] = e.value]
        /\ made' = [made EXCEPT ![s][n].before = config]
        /\ standing' = standing \cup {<<s, made[s][n].backup>>}
        /\ NextEdit(s)
        /\ UNCHANGED <<remote, backups, ledger, newest, time, fix, data, ok, mem, job, history, tally,
                       crossed, shared, excused, overtaken>>

\* All edits succeeded, and one changed the file.
Recordable(s) == ok[s] /\ made[s] # <<>>

(***************************************************************************)
(* _finalize: a record is written when all edits succeeded and one of them *)
(* changed the file; _append_record loads the list first.  An apply that   *)
(* failed leaves what it had changed.                                      *)
(***************************************************************************)
Finalize(s) ==
    /\ pc[s] = "final"
    /\ \/ /\ Recordable(s)
          /\ mem' = [mem EXCEPT ![s] = ledger[s]]
          /\ Goto(s, "save")
          /\ UNCHANGED <<work, job, excused>>
       \/ /\ ok[s] /\ ~Recordable(s)
          /\ Goto(s, "rerun")
          /\ UNCHANGED <<work, mem, job, excused>>
       \/ /\ ~ok[s]
          /\ Leave(s)
          /\ excused' = excused \cup InHand(s)
    /\ UNCHANGED <<files, time, history, tally, crossed, shared, standing, overtaken>>

\* The record file of s is written; it is now the newest.
Written(s) == newest' = s

SaveLedger(s) ==
    /\ pc[s] = "save"
    /\ ledger' = [ledger EXCEPT ![s] = Append(mem[s], [fix |-> fix[s], edits |-> made[s]])]
    /\ Written(s)
    /\ overtaken' = IF HeldByJob(s) THEN overtaken \cup InHand(s) ELSE overtaken
    /\ Goto(s, "rerun")
    /\ UNCHANGED <<remote, config, backups, time, work, mem, job, history, tally, crossed, shared,
                   standing, excused>>

(***************************************************************************)
(* If the project runs, the fix stays, else the latest record of the       *)
(* session is rolled back, also when the apply had nothing to do and made  *)
(* none.                                                                   *)
(***************************************************************************)
Judge(s) ==
    /\ \/ Leave(s)
       \/ Goto(s, "undo") /\ UNCHANGED <<work, mem, job>>
    /\ UNCHANGED <<files, time, history, tally, crossed, shared, standing, excused, overtaken>>

\* The project is run again, here or over SSH.
RerunLocal(s) == pc[s] = "rerun" /\ ~remote /\ Judge(s)
RerunRemote(s) == pc[s] = "rerun" /\ remote /\ Judge(s)

-----------------------------------------------------------------------------
(***************************************************************************)
(* Rolling back: by the session itself, or by the job of the web UI on the *)
(* ledger of a session.                                                    *)
(***************************************************************************)

\* /rollback and /remote-rollback of a person, at any time.
Undoes(s) ==
    /\ ~Busy(s)
    /\ tally.requests < MaxRequests
    /\ Goto(s, "undo")
    /\ tally' = [tally EXCEPT !.requests = @ + 1]
    /\ crossed' = Crosses(s)
    /\ shared' = IF AtWork(Ui) /\ on = s THEN shared \cup {s} ELSE shared
    /\ UNCHANGED <<files, time, work, mem, job, history, standing, excused, overtaken>>

RollbackLatestApply(s) == ~remote /\ Undoes(s)
RemoteRollbackLatestApply(s) == remote /\ Undoes(s)

RollbackLoad(a) ==
    LET s == LedgerOf(a)
    IN  /\ pc[a] = "undo"
        /\ \/ /\ ledger[s] = <<>>
              /\ Leave(a)
           \/ /\ ledger[s] # <<>>
              /\ mem' = [mem EXCEPT ![a] = ledger[s]]
              /\ step' = [step EXCEPT ![a] = 1]
              /\ Goto(a, "restore")
              /\ UNCHANGED <<fix, data, made, ok, job>>
        /\ UNCHANGED <<files, time, history, tally, crossed, shared, standing, excused, overtaken>>

(***************************************************************************)
(* The edits of the record are restored in the order they were made, each  *)
(* as the whole file its backup holds.                                     *)
(***************************************************************************)
Restore(a) ==
    LET edits == LastOf(mem[a]).edits
    IN  /\ pc[a] = "restore"
        /\ config' = backups[edits[step[a]].backup]
        /\ IF step[a] < Len(edits)
           THEN step' = [step EXCEPT ![a] = @ + 1] /\ UNCHANGED pc
           ELSE Goto(a, "pop") /\ UNCHANGED step
        /\ UNCHANGED <<remote, backups, ledger, newest, time, fix, data, made, ok, mem, job, history, tally,
                       crossed, shared, standing, excused, overtaken>>

\* Mutant: the shortened list is not saved.
PopUnsaved(a) ==
    /\ pc[a] = "pop"
    /\ Written(LedgerOf(a))
    /\ IF a = Ui THEN Goto(a, "report") /\ UNCHANGED <<work, mem, job>> ELSE Leave(a)
    /\ standing' = standing \ EditsOf(LedgerOf(a), LastOf(mem[a]).edits)
    /\ UNCHANGED <<remote, config, backups, ledger, time, history, tally, crossed, shared, excused,
                   overtaken>>

\* Mutant: the last record is rolled back, and the first is popped.
PopOfFirst(a) ==
    /\ pc[a] = "pop"
    /\ ledger' = [ledger EXCEPT ![LedgerOf(a)] = Tail(mem[a])]
    /\ Written(LedgerOf(a))
    /\ IF a = Ui THEN Goto(a, "report") /\ UNCHANGED <<work, mem, job>> ELSE Leave(a)
    /\ standing' = standing \ EditsOf(LedgerOf(a), LastOf(mem[a]).edits)
    /\ UNCHANGED <<remote, config, backups, time, history, tally, crossed, shared, excused, overtaken>>

Pop(a) ==
    /\ pc[a] = "pop"
    /\ ledger' = [ledger EXCEPT ![LedgerOf(a)] = FrontOf(mem[a])]
    /\ Written(LedgerOf(a))
    /\ IF a = Ui THEN Goto(a, "report") /\ UNCHANGED <<work, mem, job>> ELSE Leave(a)
    /\ standing' = standing \ EditsOf(LedgerOf(a), LastOf(mem[a]).edits)
    /\ UNCHANGED <<remote, config, backups, time, history, tally, crossed, shared, excused, overtaken>>

(***************************************************************************)
(* latest_rollback_target: the last record of the record file that was     *)
(* written last, if it has one.  The identity of a record is its file, its *)
(* place in it and what it says.                                           *)
(***************************************************************************)
LatestTargets ==
    {[session |-> s, index |-> Len(ledger[s]), record |-> LastOf(ledger[s])] :
        s \in {t \in Sessions : t = newest /\ ledger[t] # <<>>}}

(***************************************************************************)
(* What the history shows as available: not what was rolled back.  (The    *)
(* entries that an approved recovery registers have an identity that no    *)
(* scanned record has: a job for one of them is blocked and changes        *)
(* nothing.)                                                               *)
(***************************************************************************)
Available == LatestTargets \ history

\* What record_rollback_started and record_rollback_finished make of the state of a record.
Started(t) == history' = history \ {t}
Finished(t) == history' = history \cup {t}

(***************************************************************************)
(* The operator asks for the latest, or for the entry that the history     *)
(* shows as available; the job runs later.                                 *)
(***************************************************************************)
Request(what) ==
    /\ ~Busy(Ui)
    /\ tally.requests < MaxRequests
    /\ what \in Available \cup {Latest}
    /\ asked' = what
    /\ tally' = [tally EXCEPT !.requests = @ + 1]
    /\ Goto(Ui, "queued")
    /\ UNCHANGED <<files, time, work, mem, on, target, history, crossed, shared,
                   standing, excused, overtaken>>

\* Mutant: the latest is taken for the one that was asked for.
MeetsAny(t) == t \in Target

Meets(t) == asked \in {Latest, t}

(***************************************************************************)
(* The job resolves its target: blocked if there is none, or if it is not  *)
(* the one that was asked for.  Otherwise it records that it starts.       *)
(***************************************************************************)
Resolve ==
    /\ pc[Ui] = "queued"
    /\ \/ \E t \in LatestTargets :
            /\ Meets(t)
            /\ target' = t
            /\ on' = t.session
            /\ crossed' = Crosses(Ui)
            /\ shared' = IF AtWork(t.session) THEN shared \cup {t.session} ELSE shared
            /\ Started(t)
            /\ Goto(Ui, "undo")
            /\ UNCHANGED asked
       \/ /\ \A t \in LatestTargets : ~Meets(t)
          /\ Goto(Ui, "idle")
          /\ asked' = Latest
          /\ UNCHANGED <<target, on, history, crossed, shared>>
    /\ UNCHANGED <<files, time, work, mem, tally, standing, excused, overtaken>>

(***************************************************************************)
(* record_rollback_finished: the success is booked for the target.         *)
(***************************************************************************)
Report ==
    /\ pc[Ui] = "report"
    /\ Finished(target)
    /\ Leave(Ui)
    /\ UNCHANGED <<files, time, tally, crossed, shared, standing, excused, overtaken>>

-----------------------------------------------------------------------------
(***************************************************************************)
(* An exception, an SSH call that timed out after the editor had done its  *)
(* work, or the death of the process, wherever it is.  A file that was     *)
(* being written is left as it was or in pieces; a ledger in pieces reads  *)
(* as an empty list.                                                       *)
(***************************************************************************)
Abort(a) ==
    /\ AtWork(a)
    /\ tally.aborts < MaxAborts
    /\ Leave(a)
    /\ tally' = [tally EXCEPT !.aborts = @ + 1]
    /\ \/ /\ UNCHANGED files
          /\ excused' = excused \cup InHand(a)
       \/ /\ pc[a] \in {"write", "restore"}
          /\ config' = Torn
          /\ excused' = excused \cup InHand(a)
          /\ UNCHANGED <<remote, backups, ledger, newest>>
       \/ /\ pc[a] \in {"save", "pop"}
          /\ ledger' = [ledger EXCEPT ![LedgerOf(a)] = <<>>]
          /\ Written(LedgerOf(a))
          /\ excused' = excused \cup InHand(a) \cup {e \in standing : e[1] = LedgerOf(a)}
          /\ UNCHANGED <<remote, config, backups>>
    /\ UNCHANGED <<time, history, crossed, shared, standing, overtaken>>

ApplyStep(s) ==
    \/ \E f \in Fixes : ApplyFix(s, f) \/ RemoteApplyFix(s, f)
    \/ LocalPlan(s) \/ RemoteTry(s) \/ EditRead(s) \/ Backup(s) \/ EditWrite(s)
    \/ Finalize(s) \/ SaveLedger(s) \/ RerunLocal(s) \/ RerunRemote(s)
    \/ RollbackLatestApply(s) \/ RemoteRollbackLatestApply(s)

Next ==
    \/ Tick
    \/ \E s \in Sessions : ApplyStep(s)
    \/ \E a \in Actors : RollbackLoad(a) \/ Restore(a) \/ Pop(a) \/ Abort(a)
    \/ \E what \in Available \cup {Latest} : Request(what)
    \/ Resolve
    \/ Report

Spec == Init /\ [][Next]_vars

-----------------------------------------------------------------------------
(***************************************************************************)
(* Properties.                                                             *)
(***************************************************************************)

Labels == {"idle", "plan", "try", "read", "backup", "write", "final", "save", "rerun",
           "undo", "restore", "pop", "queued", "report"}

\* The variables are of their types (fixers/, the record files and the job of the web UI).
TypeOK ==
    /\ remote \in BOOLEAN
    /\ config \in Text
    /\ backups \in [Names -> Text \cup {NoFile}]
    /\ ledger \in [Sessions -> Seq(Record)]
    /\ newest \in Actors
    /\ time \in 0..MaxTime
    /\ pc \in [Actors -> Labels]
    /\ fix \in [Sessions -> Fixes]
    /\ step \in [Actors -> Nat \ {0}]
    /\ data \in [Sessions -> Text]
    /\ made \in [Sessions -> Seq(Edit)]
    /\ ok \in [Sessions -> BOOLEAN]
    /\ mem \in [Actors -> Seq(Record)]
    /\ on \in Actors
    /\ asked \in Target \cup {Latest}
    /\ target \in Target \cup {Latest}
    /\ history \subseteq Target
    /\ tally \in [applies : 0..MaxApplies, requests : 0..MaxRequests, aborts : 0..MaxAborts]
    /\ crossed \in BOOLEAN
    /\ shared \subseteq Sessions
    /\ standing \subseteq Sessions \X Names
    /\ excused \subseteq Sessions \X Names
    /\ overtaken \subseteq Sessions \X Names

(***************************************************************************)
(* While actors do not overlap, the backup of a record with one edit is    *)
(* what that edit replaced, however many applies and rollbacks, failures   *)
(* and crashes came after it: undoing it cannot bring back anything else   *)
(* (update_json_field, rollback_latest).                                   *)
(***************************************************************************)
UndoIsExact ==
    crossed \/ \A s \in Sessions : \A i \in DOMAIN ledger[s] :
        LET edits == ledger[s][i].edits
        IN  Len(edits) = 1 => backups[edits[1].backup] = edits[1].before

(***************************************************************************)
(* Whatever applies and rolls back at the same time, an edit that was      *)
(* written and not taken back is in a record of the ledger of its session, *)
(* so that a rollback can still reach it (_append_record, _save_records,   *)
(* rollback_latest).  Exempt are the edits of an apply that is not over,   *)
(* failed or died, those that stood when the write of the ledger was cut   *)
(* short, and those whose record was saved while a rollback job held an    *)
(* older list; no other record is lost, by a list that somebody writes     *)
(* back or otherwise.                                                      *)
(***************************************************************************)
EditsAreRecorded ==
    \A e \in standing \ (excused \cup overtaken) :
        e \in InHand(e[1]) \/ RecordedIn(e, ledger[e[1]])

(***************************************************************************)
(* The history never says of a record that it was rolled back that is      *)
(* still there to roll back, unless the session was at work on its ledger  *)
(* during the job (record_rollback_finished).                              *)
(***************************************************************************)
HistoryIsTrue ==
    \A t \in history : t.session \notin shared =>
        ~ (t.index \in DOMAIN ledger[t.session] /\ ledger[t.session][t.index] = t.record)

(***************************************************************************)
(* Between the request of an operator and the end of the job that runs it, *)
(* any session may apply and roll back; the record the job pops is still   *)
(* the one that was asked for, and the only one, unless its own session    *)
(* was at work during the job (_rollback_latest,                           *)
(* _execute_rollback_history_job).                                         *)
(***************************************************************************)
RequestedIsRolledBack ==
    [][on \notin shared /\ Pop(Ui) =>
        /\ ledger[on] # <<>>
        /\ ledger'[on] = FrontOf(ledger[on])
        /\ target = [session |-> on, index |-> Len(ledger[on]), record |-> LastOf(ledger[on])]
        /\ asked \in {Latest, target}]_vars

(***************************************************************************)
(* A rollback leaves the file as the first edit of the record found it.    *)
(***************************************************************************)
RollbackRestores ==
    [][\A a \in Actors : ~crossed /\ Pop(a) =>
        config = LastOf(mem[a]).edits[1].before]_vars
=============================================================================
