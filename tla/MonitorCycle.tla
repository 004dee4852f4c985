---------------------------- MODULE MonitorCycle ----------------------------
(***************************************************************************)
(* The monitor daemon of one project: a cycle reads what is new in a log,  *)
(* selects events, has each handled (recovery, alert, report) and marks it *)
(* seen; then it sleeps.  An application writes, rotates and truncates the *)
(* log meanwhile.  The process may die at any point and is started again.  *)
(*                                                                         *)
(* An event is its fingerprint, which is a hash of its type and signature. *)
(* A line of the log holds one event, and lines stand for bytes.           *)
(*                                                                         *)
(* There are three ways of reading.  "local" keeps an offset in memory,    *)
(* "remote" a watermark (inode and offset) in the saved state, and "tail"  *)
(* (watermarks off or in shadow mode) reads the last lines every time.     *)
(***************************************************************************)
EXTENDS Naturals, Sequences, FiniteSets

CONSTANTS
  Fingerprints,
  Types,
  Type,         \* [Fingerprints -> Types]: the event type
  Rank,         \* [Fingerprints -> Nat]: priority and severity of the type
  Hash,         \* [Fingerprints -> Nat]: the order in which fingerprints sort
  Fixable,      \* the fingerprints a safe fix is registered for
  MaxEvents,    \* the lesser of max_events_per_run and MAX_EVENTS_PER_CYCLE
  MaxAuto,      \* MAX_AUTO_RECOVER_PER_CYCLE
  MaxReports,   \* max_reports_per_cycle
  MaxPerType,   \* max_reports_per_event_type_per_cycle, and the same of alerts
  MaxAlerts,    \* max_alerts_per_cycle
  MaxSeen,      \* max_seen_fingerprints
  TailLines,    \* tail_lines
  MaxDelta,     \* remote_log_max_bytes_per_poll
  Modes,        \* the ways of reading the log that the project may have
  MaxLines,     \* bound: lines written to the log
  MaxRotations, \* bound: rotations and truncations of the log
  MaxFails,     \* bound: exceptions while an event is handled
  MaxCrashes    \* bound: ends of the process

ASSUME FunctionsAssumption ==
  /\ Type \in [Fingerprints -> Types]
  /\ Rank \in [Fingerprints -> Nat]
  /\ Hash \in [Fingerprints -> Nat]
  /\ Fixable \subseteq Fingerprints
  /\ Modes \subseteq {"local", "remote", "tail"}
ASSUME LimitsAssumption ==
  /\ MaxEvents \in Nat /\ MaxAuto \in Nat \ {0} /\ MaxReports \in Nat
  /\ MaxPerType \in Nat /\ MaxAlerts \in Nat /\ MaxSeen \in Nat
  /\ TailLines \in Nat /\ MaxDelta \in Nat
\* The default limits are 3 events and 3 alerts.
ASSUME AlertsAssumption == MaxEvents <= MaxAlerts
ASSUME BoundsAssumption ==
  MaxLines \in Nat /\ MaxRotations \in Nat /\ MaxFails \in Nat /\ MaxCrashes \in Nat

VARIABLES
  mode,     \* how the log is read
  auto,     \* auto_report: a second report is written for each event
  log,      \* the log file
  inode,    \* the file the path names
  mark,     \* [inode, offset]: how far the log is read
  stat,     \* [inode, size]: what stat said in this poll
  pc,       \* where the daemon is
  todo,     \* the events of this cycle still to be looked at
  seen,     \* seen_fingerprints in memory
  saved,    \* seen_fingerprints in project_status.json
  cycle,    \* the counters of this cycle
  quiet,    \* fingerprints reported less than a report cooldown ago
  alerted,  \* fingerprints this process has alerted
  cooling,  \* a fix was made less than a project cooldown ago
  did,      \* [fixes, reports]: what this cycle did
  handled,  \* [Fingerprints -> Nat]: times the recovery runner was called
  told,     \* fingerprints that were ever alerted
  excused,  \* [Fingerprints -> Nat]: failures and crashes that undid a handling
  budget    \* what is left of the bounds

source == <<mode, auto, log, inode>>
limits == <<quiet, alerted, cooling>>
tally  == <<handled, told, excused>>
vars   == <<source, mark, stat, pc, todo, seen, saved, cycle, limits, did,
            tally, budget>>

Least(a, b) == IF a < b THEN a ELSE b

Lines(s)   == {s[i] : i \in 1..Len(s)}
LastOf(s)  == SubSeq(s, Len(s) + 1 - Least(TailLines, Len(s)), Len(s))

Origin == [inode |-> 0, offset |-> 0]
NoStat == [inode |-> 0, size |-> 0]

NewCycle == [handled |-> 0, auto |-> 0, reports |-> 0, alerts |-> 0,
             records |-> 0, typeReports |-> [t \in Types |-> 0],
             typeAlerts |-> [t \in Types |-> 0]]
Nothing  == [fixes |-> 0, reports |-> 0]

Init ==
  /\ mode \in Modes /\ auto \in BOOLEAN
  /\ log = <<>> /\ inode = 1
  /\ mark = Origin /\ stat = NoStat
  /\ pc = "down" /\ todo = <<>>
  /\ seen = {} /\ saved = {}
  /\ cycle = NewCycle /\ did = Nothing
  /\ quiet = {} /\ alerted = {} /\ cooling = FALSE
  /\ handled = [f \in Fingerprints |-> 0]
  /\ told = {}
  /\ excused = [f \in Fingerprints |-> 0]
  /\ budget = [lines |-> MaxLines, rotations |-> MaxRotations,
               fails |-> MaxFails, crashes |-> MaxCrashes]

Has(what)   == budget[what] > 0
Spend(what) == budget' = [budget EXCEPT ![what] = @ - 1]

-----------------------------------------------------------------------------
(***************************************************************************)
(* The application that is watched.  What it does while events are handled *)
(* is seen by the next cycle, as if it was done after them.                *)
(***************************************************************************)
Unread == pc \in {"sleep", "read"}

Write(f) ==
  /\ Unread /\ Has("lines") /\ Spend("lines")
  /\ log' = Append(log, f)
  /\ UNCHANGED <<mode, auto, inode, mark, stat, pc, todo, seen, saved, cycle,
                 limits, did, tally>>

\* A new file under the same name, or the same file cut to nothing.
Rotate ==
  /\ Unread /\ log # <<>> /\ Has("rotations") /\ Spend("rotations")
  /\ log' = <<>>
  /\ inode' \in {inode, inode + 1}
  /\ UNCHANGED <<mode, auto, mark, stat, pc, todo, seen, saved, cycle, limits,
                 did, tally>>

-----------------------------------------------------------------------------
(***************************************************************************)
(* The life of the process.                                                *)
(***************************************************************************)
\* Mutant: the saved state is not loaded.
StartAfresh ==
  /\ pc = "down"
  /\ pc' = "sleep"
  /\ UNCHANGED <<source, mark, stat, todo, seen, saved, cycle, limits, did, tally,
                 budget>>

Start ==
  /\ pc = "down"
  /\ pc' = "sleep"
  /\ seen' = saved
  /\ UNCHANGED <<source, mark, stat, todo, saved, cycle, limits, did, tally,
                 budget>>

\* The event in hand has been to the recovery runner and is not marked yet.
Unmarked == IF pc \in {"notify", "mark"} THEN {Head(todo)} ELSE {}

Crash ==
  /\ pc # "down" /\ Has("crashes") /\ Spend("crashes")
  /\ pc' = "down"
  /\ excused' = [f \in Fingerprints |->
       IF f \in Unmarked \cup (seen \ saved) THEN excused[f] + 1 ELSE excused[f]]
  /\ mark' = IF mode = "remote" THEN mark ELSE Origin
  /\ stat' = NoStat /\ todo' = <<>> /\ seen' = {}
  /\ quiet' = {} /\ alerted' = {} /\ cooling' = FALSE
  /\ cycle' = NewCycle /\ did' = Nothing
  /\ UNCHANGED <<source, saved, handled, told>>

BeginCycle ==
  /\ pc = "sleep"
  /\ pc' = IF mode = "remote" THEN "stat" ELSE "read"
  /\ cycle' = NewCycle /\ did' = Nothing
  /\ UNCHANGED <<source, mark, stat, todo, seen, saved, limits, tally, budget>>

-----------------------------------------------------------------------------
(***************************************************************************)
(* Reading.                                                                *)
(***************************************************************************)
FirstAt(w, f) == CHOOSE i \in 1..Len(w) : w[i] = f /\ \A j \in 1..i-1 : w[j] # f

\* Mutant: seen events are not put last.
BeforeByRank(w, e, f) ==
  \/ Rank[e] < Rank[f]
  \/ Rank[e] = Rank[f] /\ FirstAt(w, e) < FirstAt(w, f)

\* The order in which the events of a window are taken: unseen ones first.
Before(w, e, f) ==
  \/ e \notin seen /\ f \in seen
  \/ /\ e \in seen <=> f \in seen
     /\ \/ Rank[e] < Rank[f]
        \/ Rank[e] = Rank[f] /\ FirstAt(w, e) < FirstAt(w, f)

\* s is the different events of w in order, cut to MaxEvents.  So allow_event,
\* which has the same limit, refuses none.
Selects(w, s) ==
  /\ Len(s) < MaxEvents => Lines(w) \subseteq Lines(s)
  /\ \A i, j \in DOMAIN s : i < j => Before(w, s[i], s[j])
  /\ \A e \in Lines(s), f \in Lines(w) \ Lines(s) : Before(w, e, f)

Take(w) ==
  /\ \E n \in 0..MaxEvents : \E s \in [1..n -> Lines(w)] :
       Selects(w, s) /\ todo' = s
  /\ pc' = "pick"

\* The remote watcher asks for inode and size before it reads.
Stat ==
  /\ pc = "stat"
  /\ pc' = "read"
  /\ stat' \in {[inode |-> inode, size |-> Len(log)], NoStat}
  /\ UNCHANGED <<source, mark, todo, seen, saved, cycle, limits, did, tally,
                 budget>>

\* From the offset to the end; a file that has become shorter is read anew.
ReadLocal ==
  /\ pc = "read" /\ mode = "local"
  /\ LET from == IF Len(log) < mark.offset THEN 0 ELSE mark.offset
     IN  Take(SubSeq(log, from + 1, Len(log)))
  /\ mark' = [mark EXCEPT !.offset = Len(log)]
  /\ UNCHANGED <<source, stat, seen, saved, cycle, limits, did, tally, budget>>

\* Where the remote watcher reads on from, and whether it asks for a range: the
\* first time, and when there is too much, it reads the last lines instead.
ReadFrom ==
  IF mark.inode = stat.inode /\ stat.size >= mark.offset THEN mark.offset ELSE 0
InRange == mark # Origin /\ stat.size - ReadFrom <= MaxDelta
NoNews  == stat # NoStat /\ InRange /\ stat.size = ReadFrom

\* Either way the watermark goes to the size stat saw, and is saved.
ReadRemote ==
  /\ pc = "read" /\ mode = "remote" /\ stat # NoStat
  /\ Take(IF InRange
          THEN SubSeq(log, ReadFrom + 1, Least(stat.size, Len(log)))
          ELSE LastOf(log))
  /\ mark' = [inode |-> stat.inode, offset |-> stat.size]
  /\ stat' = NoStat
  /\ UNCHANGED <<source, seen, saved, cycle, limits, did, tally, budget>>

\* The last lines, and the mark stays: there are no watermarks, or stat or the
\* range read has failed.
ReadTail ==
  /\ pc = "read"
  /\ \/ mode = "tail"
     \/ mode = "remote" /\ (stat = NoStat \/ InRange) /\ ~NoNews
  /\ Take(LastOf(log))
  /\ stat' = NoStat
  /\ UNCHANGED <<source, mark, seen, saved, cycle, limits, did, tally, budget>>

\* The file is not there, or the last read has failed as well.
ReadNothing ==
  /\ pc = "read" /\ ~NoNews
  /\ todo' = <<>> /\ pc' = "pick"
  /\ stat' = NoStat
  /\ UNCHANGED <<source, mark, seen, saved, cycle, limits, did, tally, budget>>

-----------------------------------------------------------------------------
(***************************************************************************)
(* The events of a cycle, one after the other.                             *)
(***************************************************************************)
Event   == Head(todo)
Picking == pc = "pick" /\ todo # <<>>

\* is_auto_recover_candidate: what the gate finds depends on the configuration
\* file of the project and on ports, so it may be another when it is asked again.
Verdicts(f) == IF f \in Fixable THEN BOOLEAN ELSE {FALSE}

\* Mutant: the report after the alert is forgotten.
ReportsOne == 1
\* _expected_reports_for_event
Reports == IF auto THEN 2 ELSE 1

ReportFits(f) ==
  /\ cycle.reports + Reports <= MaxReports
  /\ cycle.typeReports[Type[f]] < MaxPerType
  /\ f \notin quiet

\* Mutant: what is left is counted, from nothing.
CountedDown(candidate) == cycle.auto - (IF candidate THEN 1 ELSE 0)

\* The candidate that is let through uses up the limit, reported or not.
Counted(candidate) == cycle.auto + (IF candidate THEN 1 ELSE 0)

SkipSeen ==
  /\ Picking /\ Event \in seen
  /\ todo' = Tail(todo)
  /\ UNCHANGED <<source, mark, stat, pc, seen, saved, cycle, limits, did, tally,
                 budget>>

SkipExtraCandidate ==
  /\ Picking /\ Event \notin seen
  /\ TRUE \in Verdicts(Event) /\ cycle.auto >= MaxAuto
  /\ todo' = Tail(todo)
  /\ UNCHANGED <<source, mark, stat, pc, seen, saved, cycle, limits, did, tally,
                 budget>>

SkipUnreported ==
  /\ Picking /\ Event \notin seen
  /\ ~ReportFits(Event)
  /\ \E candidate \in Verdicts(Event) :
       /\ candidate => cycle.auto < MaxAuto
       /\ cycle' = [cycle EXCEPT !.auto = Counted(candidate)]
  /\ todo' = Tail(todo)
  /\ UNCHANGED <<source, mark, stat, pc, seen, saved, limits, did, tally, budget>>

Admit ==
  /\ Picking /\ Event \notin seen
  /\ ReportFits(Event)
  /\ \E candidate \in Verdicts(Event) :
       /\ candidate => cycle.auto < MaxAuto
       /\ cycle' = [cycle EXCEPT !.auto = Counted(candidate),
                                 !.handled = @ + 1,
                                 !.reports = @ + Reports,
                                 !.typeReports[Type[Event]] = @ + 1]
  /\ quiet' = quiet \cup {Event}
  /\ pc' = "recover"
  /\ UNCHANGED <<source, mark, stat, todo, seen, saved, alerted, cooling, did,
                 tally, budget>>

\* Mutant: reserve() does not check.
MayFixAlways == TRUE
MayFix == ~cooling

\* The gate decides, the cooldown is reserved, a fix is made or not, and the
\* report of the recovery is written.  The cooldowns of the fingerprint and of
\* the type, which are longer than that of the project, are in the verdict.
Recover ==
  /\ pc = "recover"
  /\ \E fix \in Verdicts(Event) :
       /\ fix => MayFix
       /\ cooling' = (cooling \/ fix)
       /\ did' = [did EXCEPT !.fixes = @ + (IF fix THEN 1 ELSE 0),
                             !.reports = @ + 1]
  /\ handled' = [handled EXCEPT ![Event] = @ + 1]
  /\ pc' = "notify"
  /\ UNCHANGED <<source, mark, stat, todo, seen, saved, cycle, quiet, alerted,
                 told, excused, budget>>

\* Mutant: the alert limit is off by one.
AlertFitsLess(f) ==
  /\ f \notin alerted
  /\ cycle.alerts + 1 < MaxAlerts
  /\ cycle.typeAlerts[Type[f]] < MaxPerType

AlertFits(f) ==
  /\ f \notin alerted
  /\ cycle.alerts < MaxAlerts
  /\ cycle.typeAlerts[Type[f]] < MaxPerType

\* The alert (notifications are on), unless a limit suppresses it, and the second
\* report of the event, whose failure is caught.
Notify ==
  /\ pc = "notify"
  /\ pc' = "mark"
  /\ IF AlertFits(Event)
     THEN /\ alerted' = alerted \cup {Event}
          /\ told' = told \cup {Event}
          /\ cycle' = [cycle EXCEPT !.alerts = @ + 1,
                                    !.typeAlerts[Type[Event]] = @ + 1]
     ELSE UNCHANGED <<alerted, told, cycle>>
  /\ did' \in {did, [did EXCEPT !.reports = @ + (IF auto THEN 1 ELSE 0)]}
  /\ UNCHANGED <<source, mark, stat, todo, seen, saved, quiet, cooling, handled,
                 excused, budget>>

\* An exception from anything _handle_event calls: the event is not marked.
HandleFails ==
  /\ pc \in {"recover", "notify", "mark"} /\ Has("fails") /\ Spend("fails")
  /\ pc' = "pick" /\ todo' = Tail(todo)
  /\ excused' = [f \in Fingerprints |->
       IF f \in Unmarked THEN excused[f] + 1 ELSE excused[f]]
  /\ UNCHANGED <<source, mark, stat, seen, saved, cycle, limits, did, handled,
                 told>>

\* save() keeps the last MaxSeen of the sorted fingerprints.
Kept(S) == {f \in S : Cardinality({g \in S : Hash[g] > Hash[f]}) < MaxSeen}

MarkSeen ==
  /\ pc = "mark"
  /\ pc' = "pick" /\ todo' = Tail(todo)
  /\ seen' = seen \cup {Event}
  /\ saved' = Kept(seen')
  /\ cycle' = [cycle EXCEPT !.records = @ + 1]
  /\ UNCHANGED <<source, mark, stat, limits, did, tally, budget>>

\* The summary, if an event was handled and a report is left for it.
EndCycle ==
  /\ pc = "pick" /\ todo = <<>>
  /\ pc' = "end"
  /\ IF cycle.records > 0 /\ cycle.reports + 1 <= MaxReports
     THEN /\ cycle' = [cycle EXCEPT !.reports = @ + 1]
          /\ did' \in {did, [did EXCEPT !.reports = @ + 1]}
     ELSE UNCHANGED <<cycle, did>>
  /\ UNCHANGED <<source, mark, stat, todo, seen, saved, limits, tally, budget>>

\* _finish_cycle_health writes the counters out; begin_cycle would replace them.
FinishCycle ==
  /\ pc = "end"
  /\ pc' = "sleep"
  /\ cycle' = NewCycle /\ did' = Nothing
  /\ UNCHANGED <<source, mark, stat, todo, seen, saved, limits, tally, budget>>

\* Cooldowns run out.  A cycle is taken to be shorter than any of them.
ReportAgain(f) ==
  /\ pc = "sleep" /\ f \in quiet
  /\ quiet' = quiet \ {f}
  /\ UNCHANGED <<source, mark, stat, pc, todo, seen, saved, cycle, alerted,
                 cooling, did, tally, budget>>

FixAgain ==
  /\ pc = "sleep" /\ cooling
  /\ cooling' = FALSE
  /\ UNCHANGED <<source, mark, stat, pc, todo, seen, saved, cycle, quiet, alerted,
                 did, tally, budget>>

-----------------------------------------------------------------------------
Read == ReadLocal \/ ReadRemote \/ ReadTail \/ ReadNothing
Pick == SkipSeen \/ SkipExtraCandidate \/ SkipUnreported \/ Admit
Handle == Recover \/ Notify \/ HandleFails \/ MarkSeen

Daemon == BeginCycle \/ Stat \/ Read \/ Pick \/ Handle \/ EndCycle \/ FinishCycle

Next ==
  \/ \E f \in Fingerprints : Write(f)
  \/ Rotate
  \/ Start
  \/ Crash
  \/ Daemon
  \/ \E f \in Fingerprints : ReportAgain(f)
  \/ FixAgain

Spec == Init /\ [][Next]_vars

\* The daemon loops for ever and systemd starts it again; a log that is there is
\* not unreadable for ever; a cooldown runs out.
Fairness ==
  /\ WF_vars(Start) /\ WF_vars(Daemon)
  /\ SF_vars(ReadTail)
  /\ \A f \in Fingerprints : SF_vars(ReportAgain(f))

FairSpec == Spec /\ Fairness

-----------------------------------------------------------------------------
(***************************************************************************)
(* Properties.                                                             *)
(***************************************************************************)
\* Every variable has its type.
TypeOK ==
  /\ mode \in Modes /\ auto \in BOOLEAN
  /\ log \in Seq(Fingerprints) /\ inode \in Nat
  /\ mark \in [inode: Nat, offset: Nat] /\ stat \in [inode: Nat, size: Nat]
  /\ pc \in {"down", "sleep", "stat", "read", "pick", "recover", "notify", "mark",
             "end"}
  /\ todo \in Seq(Fingerprints)
  /\ seen \subseteq Fingerprints /\ saved \subseteq Fingerprints
  /\ cycle \in [handled: Nat, auto: Nat, reports: Nat, alerts: Nat, records: Nat,
                typeReports: [Types -> Nat], typeAlerts: [Types -> Nat]]
  /\ quiet \subseteq Fingerprints /\ alerted \subseteq Fingerprints
  /\ cooling \in BOOLEAN
  /\ did \in [fixes: Nat, reports: Nat]
  /\ handled \in [Fingerprints -> Nat] /\ excused \in [Fingerprints -> Nat]
  /\ told \subseteq Fingerprints
  /\ budget \in [lines: Nat, rotations: Nat, fails: Nat, crashes: Nat]

\* An event has been admitted and is not through yet.
Busy == pc \in {"recover", "notify", "mark"}

\* What makes TypeOK inductive, and that nothing saved is forgotten while up.
InHand ==
  /\ Busy => todo # <<>> /\ Event \notin seen
  /\ pc # "down" => saved \subseteq seen

\* An event is handled once, however often the log is read again: each further
\* call of the recovery runner for it is owed to an exception or a crash before
\* the event was marked, or to a mark the size of the saved set pushed out.
NoNeedlessRepeat == \A f \in Fingerprints : handled[f] <= 1 + excused[f]

\* What makes NoNeedlessRepeat inductive: the events the process would not take
\* up again, or has in hand, are the ones that one call is not excused for.
Standing == IF pc = "down" THEN saved ELSE seen \cup Unmarked

RepeatInv ==
  \A f \in Fingerprints :
    handled[f] <= excused[f] + (IF f \in Standing THEN 1 ELSE 0)

\* One cycle makes at most one fix (README: at most one auto_recover per
\* cycle), also when an event that was no candidate becomes one.
OneFixPerCycle == did.fixes <= 1

\* What makes it inductive: a fix made leaves the cooldown running.
FixInv ==
  /\ did.fixes <= 1
  /\ did.fixes > 0 => cooling
  /\ pc \in {"down", "sleep"} => did.fixes = 0

\* A cycle never writes more reports than were reserved, or than the limit.
ReportsReserved == did.reports <= cycle.reports /\ cycle.reports <= MaxReports

\* What makes it inductive: the reports of the event in hand still to be written.
Unwritten == IF pc = "recover" THEN Reports ELSE IF pc = "notify" /\ auto THEN 1 ELSE 0

ReportInv == did.reports + Unwritten <= cycle.reports /\ cycle.reports <= MaxReports

\* An event is not put away without an alert: what the alert limits suppress has
\* been alerted before, the others being met by the limits on events and reports.
SeenWasAlerted == seen \subseteq told

\* What makes it inductive: there are no more alerts than events handled, of each
\* type and in all, without the one that is due.
Due == pc \in {"recover", "notify"}

AlertInv ==
  /\ seen \subseteq told /\ saved \subseteq told /\ alerted \subseteq told
  /\ pc = "mark" => Event \in told
  /\ pc \in {"stat", "read"} => cycle = NewCycle
  /\ cycle.alerts + (IF Due THEN 1 ELSE 0) <= cycle.handled
  /\ pc = "pick" \/ Busy =>
       cycle.handled + Len(todo) <= MaxEvents + (IF Busy THEN 1 ELSE 0)
  /\ \A t \in Types :
       /\ cycle.typeAlerts[t] + (IF Due /\ t = Type[Event] THEN 1 ELSE 0)
            <= cycle.typeReports[t]
       /\ cycle.typeReports[t] <= MaxPerType

\* With the last lines read every time, an event that stays among them is handled
\* in the end, however many candidates, failures and cooldowns come before it.
TailIsHandled ==
  \A f \in Fingerprints :
    mode = "tail" /\ f \in Lines(LastOf(log)) ~>
      f \in seen \/ f \notin Lines(LastOf(log))
=============================================================================
