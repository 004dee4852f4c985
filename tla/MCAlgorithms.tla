--------------------------- MODULE MCAlgorithms ---------------------------
(***************************************************************************)
(* The functions of the program that keep no state, each called once with  *)
(* every input of a small set: a behaviour is one call, with what went in  *)
(* and what came out, and every property relates the two.                  *)
(***************************************************************************)
EXTENDS RegistryGovernance

CONSTANTS MaxFiles,    \* bound: files in an inventory
          MaxHistory,  \* bound: events the monitor has handled, or records in a list
          ReportDays, KeepReports, AlertDays, KeepAlerts,
          AcceptanceDays, KeepRuns, KeepBackups   \* the limits of the retention plan

ASSUME BoundsAssumption == MaxFiles \in Nat /\ MaxHistory \in Nat

\* What the options of the script are unless somebody asks for less than the newest one.
ASSUME LimitsAssumption ==
  /\ {ReportDays, AlertDays, AcceptanceDays} \subseteq Int
  /\ {KeepReports, KeepAlerts, KeepRuns, KeepBackups} \subseteq Nat \ {0}

\* Bound: where three lines stand in a window of six.
Gaps == {<<1, 2, 3>>, <<1, 3, 6>>, <<1, 5, 6>>}

VARIABLE call
vars == <<call>>

Router == INSTANCE FixPlanning
Reporter == INSTANCE EventReports
Compactor == INSTANCE StateCompaction
Sweeper == INSTANCE Retention

NotCalled == [of |-> "nothing", in |-> <<>>, out |-> <<>>]
Called(of, in, out) == call' = [of |-> of, in |-> in, out |-> out]

\* The first element of a set of strings, in no order that matters.
Some(S) == CHOOSE x \in S : TRUE

-----------------------------------------------------------------------------
(***************************************************************************)
(* Windows of log lines: a line for every pattern of every rule, and three *)
(* lines, near and far, of rules that suppress each other.                 *)
(***************************************************************************)
Blank == [text |-> <<>>, id |-> Detector!NoId, marked |-> FALSE, time |-> 0]
Line(text, id) == [text |-> text, id |-> id, marked |-> id # Detector!NoId, time |-> 0]

Telling(pattern) == [i \in DOMAIN pattern.parts |-> {Some(pattern.parts[i])}]

Conflicting ==
  { <<{"no space left on device"}>>, <<{"cache"}, {"write"}, {"failed"}>>,
    <<{"redis cache backend"}, {"timeout"}>>, <<{"redis"}, {"connection refused"}>>,
    <<{"optional webhook"}, {"failed"}>>, <<{"no module named"}>>, <<{"connection refused"}>>,
    <<{"fallback"}, {"local rule engine"}, {"optional integration"}>> }

Placed(gaps, lines) ==
  [n \in 1..6 |-> IF \E k \in DOMAIN gaps : gaps[k] = n
                  THEN lines[CHOOSE k \in DOMAIN gaps : gaps[k] = n] ELSE Blank]

Windows ==
  {<<Line(Telling(p), Detector!NoId)>> : p \in UNION {r.patterns : r \in Range(Detector!RULES)}}
  \cup {Placed(gaps, lines) : gaps \in Gaps,
          lines \in [1..3 -> {Line(t, id) : t \in Conflicting, id \in {Detector!NoId, "b1"}}]}
  \cup {Placed(gaps, [k \in 1..3 |-> Line(t, ids[k])]) : gaps \in Gaps, t \in Conflicting,
          ids \in [1..3 -> {Detector!NoId, "b1", "b2"}]}

Detect == \E lines \in Windows : Called("detect_all", lines, Detector!DetectAll(lines))

(***************************************************************************)
(* ErrorEventDetector.detect_all: a window is silent only when no rule     *)
(* matches a line of it - the two kinds of suppression never take each     *)
(* other's events away until nothing is left - and an event is never put   *)
(* together from lines with different markers.                             *)
(***************************************************************************)
WindowIsReported ==
  call.of = "detect_all" =>
    LET lines == call.in
    IN  /\ call.out = <<>> <=> \A r \in Range(Detector!RULES) : Detector!Matched(r, lines) = {}
        /\ \A e \in Range(call.out) : \A i, j \in e.covers :
              lines[i].marked /\ lines[j].marked => lines[i].id = lines[j].id

-----------------------------------------------------------------------------
(***************************************************************************)
(* Setups: the shipped one with up to two changes somebody made to a       *)
(* table.                                                                  *)
(***************************************************************************)
Project == [auto |-> TRUE, dry |-> FALSE, enabled |-> TRUE, escalate |-> {}, rollback |-> TRUE,
            dir |-> TRUE, allow |-> {"fix-gpu-1", "fix-cache-1"}]

Touched == {"gpu_oom", "cache_write_failed", "disk_full", "traceback"}

OtherFix == "fix-worker-1"

\* One change of one table, for one event type.
Changes ==
  {[do |-> do, at |-> e] : e \in Touched,
     do \in {"layer", "fixes", "risk", "rollback", "precheck", "confirm", "issue", "unmapped",
             "blurred", "guard", "executor", "remote", "domain", "spec", "twice", "manual"}}
  \cup {[do |-> "none", at |-> "gpu_oom"]}

Runtime(s, e, ep) == [s EXCEPT !.runtime[e] = ep]
At(rows, e) == CHOOSE i \in DOMAIN rows : rows[i].event = e
HasSpec(s, e) == \E spec \in Range(s.safe) : spec.event = e

Changed(s, change) ==
  LET e == change.at
      ep == s.runtime[e]
      fix == FixOfEvent(e)
  IN  CASE change.do = "layer" -> Runtime(s, e, [ep EXCEPT !.layer = "safe_auto_recover"])
        [] change.do = "fixes" -> Runtime(s, e, [ep EXCEPT !.fixes = <<OtherFix>>])
        [] change.do = "risk" -> Runtime(s, e, [ep EXCEPT !.risk = "critical"])
        [] change.do = "rollback" -> Runtime(s, e, [ep EXCEPT !.rollback = ~@])
        [] change.do = "precheck" -> Runtime(s, e, [ep EXCEPT !.precheck = ~@])
        [] change.do = "confirm" -> Runtime(s, e, [ep EXCEPT !.confirm = ~@])
        [] change.do = "issue" -> [s EXCEPT !.detector[e] = "log"]
        [] change.do = "unmapped" -> [s EXCEPT !.remediation = [x \in DOMAIN @ \ {e} |-> @[x]]]
        [] change.do = "blurred" ->
              [s EXCEPT !.precheck = [f \in DOMAIN @ |-> IF f = fix THEN @[OtherFix] ELSE @[f]]]
        [] change.do = "guard" ->
              [s EXCEPT !.guarded = [x \in DOMAIN @ |-> IF x = e THEN {OtherFix} ELSE @[x]]]
        [] change.do = "executor" -> [s EXCEPT !.local = @ \ {fix}]
        [] change.do = "remote" -> [s EXCEPT !.remote = @ \ {fix}]
        [] change.do = "domain" ->
              [s EXCEPT !.domains[At(s.domains, e)].layer = "safe_auto_recover",
                        !.domains[At(s.domains, e)].fix = OtherFix]
        [] change.do = "spec" ->
              IF HasSpec(s, e) THEN [s EXCEPT !.safe = RemoveAt(@, At(@, e))] ELSE s
        [] change.do = "twice" ->
              IF HasSpec(s, e)
              THEN [s EXCEPT !.safe = Append(@, [@[At(@, e)] EXCEPT !.fix = OtherFix])] ELSE s
        [] change.do = "manual" -> [s EXCEPT !.manualEvents = @ \cup {e}]
        [] OTHER -> s

Setups == {Changed(Changed(Shipped(Project), a), b) : a \in Changes, b \in Changes}

Govern == \E s \in Setups : Called("governance", s, Governance(s))

PolicyOf(s) ==
  [default |-> "manual_escalation", unknown |-> "diagnose_only", dry |-> FALSE,
   events |-> s.runtime, allow |-> {}, forbidden |-> {}]

\* The tables say of this event and its fix what the registry says.
Agreed(s, e, fix) ==
  /\ \E spec \in Range(s.safe) :
       /\ spec.event = e /\ spec.fix = fix
       /\ s.detector[e] = spec.issue /\ s.precheck[fix] = spec
  /\ e \in s.safeEvents \ s.manualEvents
  /\ fix \in s.local \cap s.remote
  /\ s.remediation[e] = fix
  /\ s.runtime[e].rollback /\ s.runtime[e].precheck /\ ~s.runtime[e].confirm

(***************************************************************************)
(* validate_safe_recovery_registry_governance: tables in which it finds    *)
(* nothing let the policy allow a fix only for the one event the registry  *)
(* has it for, and detector, precheck and both executors know the fix and  *)
(* the event as the registry does; the shipped tables are such tables.     *)
(***************************************************************************)
GovernedIsCoherent ==
  call.of = "governance" =>
    LET s == call.in
    IN  /\ s = Shipped(Project) => call.out = {}
        /\ call.out = {} =>
             \A e \in DOMAIN s.runtime, fix \in SafeFixes :
               Resolve(PolicyOf(s), e, 10, fix).allowed => Agreed(s, e, fix)

-----------------------------------------------------------------------------
(***************************************************************************)
(* Inventories of a project: reports, alerts that refer to them, archived  *)
(* alerts in JSON and in markdown, the files of the monitor, acceptance    *)
(* runs.                                                                   *)
(***************************************************************************)
File(path, root, name) ==
  [path |-> path, root |-> root, name |-> name, archived |-> FALSE, project |-> "p",
   prefix |-> "none", run |-> "none", stamped |-> FALSE, age |-> 40, big |-> FALSE, says |-> {},
   stem |-> "none", items |-> <<>>]
Aged(file, age) == [file EXCEPT !.age = age]
Alert(reports, nested, action, gate, rollback) ==
  [torn |-> FALSE, reports |-> reports, nested |-> nested, action |-> action, status |-> "ok", layer |-> "none",
   gate |-> gate, rollback |-> rollback]
Archived(path, name, items, age) ==
  [File(path, "alerts", name) EXCEPT !.archived = TRUE, !.stem = "a1", !.items = items, !.age = age]

\* A file of an acceptance run; the one named after the prefix alone has no time stamp.
Run(path, run, age) ==
  [File(path, "acceptance", "x") EXCEPT !.prefix = "r16", !.run = run, !.stamped = run # "r16",
                                        !.age = age]

Plain == Alert({"report1"}, {}, "auto_recover", FALSE, FALSE)
Nested == Alert({}, {"report2"}, "auto_recover", FALSE, FALSE)
ByHand == Alert({"report1"}, {}, "manual_escalation", FALSE, FALSE)
Undone == Alert({"report2"}, {}, "auto_recover", FALSE, TRUE)
Torn == [Plain EXCEPT !.torn = TRUE]

Files == <<
  File("report1", "monitors", "event_final_report"),
  Aged(File("report2", "monitors", "fix_plan"), 50),
  Aged(File("report3", "monitors", "combined_evidence"), 1),
  [File("report4", "monitors", "final_report") EXCEPT !.says = {"manual"}],
  Archived("alert1.json", "json", <<ByHand>>, 60),
  Archived("alert1.json", "json", <<Plain>>, 60),
  Archived("alert1.md", "markdown", <<>>, 60),
  [Archived("alert2.json", "json", <<Undone>>, 50) EXCEPT !.stem = "a2"],
  [Archived("alert2.md", "markdown", <<>>, 50) EXCEPT !.stem = "a2"],
  [Archived("alert3.md", "markdown", <<>>, 2) EXCEPT !.stem = "a3"],
  [File("alerts.jsonl", "alerts", "alerts_jsonl") EXCEPT !.items = <<Nested, Plain>>],
  [File("alerts.jsonl", "alerts", "alerts_jsonl") EXCEPT !.items = <<Nested, Torn, Plain>>],
  File("applied.json", "monitors", "remote_applied_fixes"),
  [File("daemon.log", "state", "daemon_log") EXCEPT !.big = TRUE],
  File("daemon.log.1", "state", "daemon_log_backup"),
  Aged(File("daemon.log.2", "state", "daemon_log_backup"), 41),
  File("project_status.json", "state", "project_status"),
  Run("run1/a", "r16_1", 40), Run("run2/a", "r16_2", 45), Run("run2/b", "r16_2", 3),
  Run("run3/a", "r16_3", 1), Run("r16/a", "r16", 2),
  [Aged(File("report5", "monitors", "fix_plan"), 1) EXCEPT !.project = "q"],
  [Archived("alert4.json", "json", <<Plain>>, 1) EXCEPT !.stem = "a4"],
  [Archived("alert5.md", "markdown", <<>>, 60) EXCEPT !.project = "q"] >>

\* Files with different paths, each at its place among all of them.
Inventories ==
  {[i \in I |-> Files[i]] : I \in {J \in UNION {kSubset(n, DOMAIN Files) : n \in 0..MaxFiles} :
                                     \A i, j \in J : Files[i].path = Files[j].path => i = j}}

Sweep == \E files \in Inventories : Called("retention", files, Sweeper!Plan(files))

\* The alerts in a file before the first line that is torn.
Readable(file) ==
  {file.items[i] : i \in {k \in DOMAIN file.items : \A j \in 1..k : ~file.items[j].torn}}

\* The files whose alerts the plan reads, and an alert that is evidence by itself.
AlertLog(f) == f.root = "alerts" /\ f.name = "alerts_jsonl"
AlertJson(f) == f.root = "alerts" /\ f.archived /\ f.name = "json"
AlertText(f) == f.root = "alerts" /\ f.archived /\ f.name = "markdown"
IsEvidence(item) ==
  "manual_escalation" \in {item.action, item.status, item.layer} \/ item.gate \/ item.rollback

Pinned(f) ==
  \/ f.root = "monitors" /\ f.name = "remote_applied_fixes"
  \/ f.root = "alerts" /\ f.name \in {"latest_alert", "alerts_jsonl"}
  \/ f.root = "state" /\ f.name \in {"daemon_log", "project_status", "events", "alerts", "recoveries"}

\* What the limits on the number count together; a run of the acceptance tests counts as one.
Kind(f) ==
  CASE f.root = "monitors" -> "report"
    [] AlertJson(f) \/ AlertText(f) -> "alert"
    [] f.root = "state" /\ f.name = "daemon_log_backup" -> "backup"
    [] f.root = "acceptance" -> "run"
    [] OTHER -> "none"
Alike(f, g) ==
  Kind(f) = Kind(g) /\ IF Kind(f) = "run" THEN Sweeper!RunPrefix(f) = Sweeper!RunPrefix(g)
                                          ELSE f.project = g.project
Together(f, g) == f = g \/ (Kind(f) = "run" /\ Kind(g) = "run" /\ f.run = g.run)

\* No file is both protected and a candidate.
OneFate(plan) == plan.delete \cap plan.protected = {}

\* A report an alert refers to stays, also when the reference is further down in the alert.
ReportsOfAlertsStay(files, plan) ==
  \A f \in {a \in files : AlertLog(a) \/ AlertJson(a)}, g \in {m \in files : m.root = "monitors"} :
    \A item \in Readable(f) :
      g.path \in item.reports \cup item.nested => g.path \notin plan.delete

\* Of an alert that is evidence, neither the JSON nor the markdown of the same name goes.
EvidenceStays(files, plan) ==
  \A f \in {a \in files : AlertJson(a)} : \A item \in Readable(f) :
    IsEvidence(item) =>
      /\ f.path \notin plan.delete
      /\ \A g \in {a \in files : AlertText(a)} :
           g.stem = f.stem /\ g.project = f.project => g.path \notin plan.delete

\* Of the files that are counted together, the newest stays, with the rest of its run.
NewestStays(files, plan) ==
  \A f \in files : Kind(f) # "none" =>
    \E g \in files : /\ Alike(f, g)
                     /\ \A h \in files : Alike(f, h) => g.age <= h.age
                     /\ \A h \in files : Together(g, h) => h.path \notin plan.delete

(***************************************************************************)
(* r14_retention_dry_run: no file is both protected and a candidate for    *)
(* deletion; a report an alert that can be read refers to stays; of an     *)
(* alert a person has to look at, or that tells of a closed gate or a      *)
(* rollback, neither the JSON nor its markdown goes; the state, the ledger *)
(* of remote fixes and the alert log stay; and the newest report, alert    *)
(* and log backup of a project, and the newest acceptance run with the     *)
(* same prefix, stay however old they are.                                 *)
(***************************************************************************)
EvidenceIsKept ==
  call.of = "retention" =>
    LET files == Range(call.in)
        plan == call.out
    IN  /\ OneFate(plan)
        /\ ReportsOfAlertsStay(files, plan)
        /\ EvidenceStays(files, plan)
        /\ \A f \in files : Pinned(f) => f.path \notin plan.delete
        /\ NewestStays(files, plan)

-----------------------------------------------------------------------------
(***************************************************************************)
(* Logs and states of the monitor, and a report index.                     *)
(***************************************************************************)
Unknown == Compactor!None
Entries == {[print |-> p, at |-> t] : p \in {"a", "b", "c"}, t \in {Unknown, 1, 3}}
           \cup {[print |-> Compactor!Empty, at |-> Unknown]}
Unrepeated(seen) == \A i, j \in DOMAIN seen : seen[i].print = seen[j].print => i = j
Statuses ==
  {[reading |-> "ok", seen |-> seen] :
     seen \in {s \in BoundedSeq(Entries, MaxHistory) : Unrepeated(s)}}
  \cup {[reading |-> r, seen |-> <<>>] : r \in {"missing", "empty", "invalid", "not_list"}}
Logs == BoundedSeq({[torn |-> FALSE, print |-> "a", at |-> t] : t \in {Unknown, 2, 4}}
                   \cup {[torn |-> TRUE]}, 2)
Now == 5

CompactSeen ==
  \E status \in Statuses, log \in Logs, count \in {Unknown, 0, 2}, age \in {Unknown, 2} :
    Called("compaction", [status |-> status, log |-> log, count |-> count, age |-> age],
           Compactor!CompactionPlan(status, log, count, age, Now))

IndexRecords ==
  {[path |-> p, type |-> t, print |-> "a", event |-> "gpu_oom", job |-> j, at |-> at] :
     p \in {"x", "y"}, t \in {"event_report", "draft"}, j \in {"none", "job1"}, at \in {1, 2}}
Order ==
  [id \in {Compactor!ReportId(Compactor!Stored(r)) : r \in IndexRecords} |->
     (IF id[1] = "x" THEN 0 ELSE 1) + (IF id[5] = "none" THEN 0 ELSE 2)]

CompactIndex ==
  \E rows \in BoundedSeq({Compactor!Stored(r) : r \in IndexRecords}, 2), more \in IndexRecords :
    Called("index", [rows |-> rows, more |-> more], Compactor!Compacted(rows, Order))

\* When a fingerprint was seen, as far as anything says so.
AtOf(entry, log) ==
  IF entry.at # Unknown THEN {entry.at}
  ELSE {e.at : e \in {x \in Range(log) : ~x.torn /\ x.print = entry.print}} \ {Unknown}

(***************************************************************************)
(* The plan for seen_fingerprints: every fingerprint stays or goes, and    *)
(* some stays; no fingerprint goes that was seen within the limit on the   *)
(* age or whose time nobody knows, so the monitor does not alert of it     *)
(* again; without a limit none goes, and of a file that cannot be read     *)
(* nothing.                                                                *)
(***************************************************************************)
ForgetsOnlyTheOld ==
  call.of = "compaction" =>
    LET in == call.in
        all == {e.print : e \in Range(in.status.seen)} \ {Compactor!Empty}
        keep == call.out.keep
        drop == call.out.drop
    IN  /\ keep \cup drop = all /\ keep \cap drop = {}
        /\ all # {} => keep # {}
        /\ in.age # Unknown =>
             \A e \in Range(in.status.seen) : e.print \in drop =>
               AtOf(e, in.log) # {} /\ \A t \in AtOf(e, in.log) : t < Now - in.age
        /\ in.age = Unknown /\ in.count = Unknown => drop = {}
        /\ in.status.reading # "ok" => drop = {}

(***************************************************************************)
(* The report index: compacting it changes no list of reports, also after  *)
(* another report is registered.                                           *)
(***************************************************************************)
CompactedIndexIsSame ==
  call.of = "index" =>
    LET reports(rows) == Compactor!Reports(rows, Order)
        more(rows) == Compactor!Register(rows, call.in.more)
    IN  /\ reports(call.out) = reports(call.in.rows)
        /\ reports(more(call.out)) = reports(more(call.in.rows))
        /\ Compactor!GroupedForEvent(call.out, Order, "a") =
             Compactor!GroupedForEvent(call.in.rows, Order, "a")

\* The compaction of the files of the monitor loses nothing: no fingerprint too early, no report.
CompactionKeeps == ForgetsOnlyTheOld /\ CompactedIndexIsSame

-----------------------------------------------------------------------------
(***************************************************************************)
(* Evidence, from a phrase or two of every area.                           *)
(***************************************************************************)
Sayings ==
  {"hip out of memory", "oom-kill", "no space left on device", "df -h /tmp", "no module named",
   "pip=/", "python=/", "address already in use", "lsof -i", "slurmstepd", "pending", "squeue",
   "conda", "quota"}
AtMost(S, n) == UNION {kSubset(k, S) : k \in 0..n}

Evidences ==
  {[path |-> path, early |-> early, tail |-> tail, named |-> named, read |-> TRUE] :
     path \in {{}, {"port"}}, early \in {{}, {"squeue"}, {"no module named"}},
     tail \in AtMost(Sayings, 3),
     named \in {{}, {"hip out of memory"}, {"no module named"}, {"address already in use"}}}
  \cup {[path |-> {"port"}, early |-> {}, tail |-> tail, named |-> {}, read |-> FALSE] :
          tail \in AtMost(Sayings, 2)}

PlanFixes ==
  \/ \E evidence \in Evidences : Called("plan", evidence, Router!Generate(evidence))
  \/ \E evidence \in Evidences :
       Called("question", evidence, [route |-> Router!Classify(evidence, FALSE)])

FixTypes(fixes) == {f.issue : f \in Range(fixes)}
Executable == SafeFixes \cup Router!DirectFixes

(***************************************************************************)
(* generate_fix_plan: an area the end of the evidence speaks strongly of   *)
(* gets its fixes, whatever else is in it - the keywords of the router and *)
(* the phrases of the session are tables of their own, and only "python=/" *)
(* is in one of them alone; a failure the log names as the primary one     *)
(* comes first; and what is offered with apply_supported is something the  *)
(* executors do, except fix-gpu-3.  Among the tools a route offers is one  *)
(* that its table has for every area, and none is offered twice.           *)
(***************************************************************************)
PlanAnswersEvidence ==
  /\ call.of = "plan" /\ call.in.read =>
       LET text == Router!Read(call.in.tail \cup call.in.named)
           fixes == call.out.fixes
           named == Router!NamedArea(Router!Read(call.in.named))
       IN  /\ \A row \in Range(Router!StrongPhrases) :
                (row.says \ {"python=/"}) \cap text # {} => row.area \in FixTypes(fixes)
           /\ named \in FixTypes(fixes) => fixes[1].issue = named
           /\ \A f \in Range(fixes) : f.supported /\ f.fix # "fix-gpu-3" => f.fix \in Executable
           /\ \A i, j \in DOMAIN fixes : fixes[i].fix = fixes[j].fix => i = j
  /\ call.of \in {"plan", "question"} =>
       LET route == call.out.route
           tools == route.primaryTools \o route.optionalTools
       IN  /\ \A i, j \in DOMAIN tools : tools[i] = tools[j] => i = j
           /\ \A area \in Range(Router!RouteTypes(route)) \ {"log", "unknown"} :
                Range(Router!AreaTools(area)) \cap Range(tools) # {}

-----------------------------------------------------------------------------
(***************************************************************************)
(* Events the monitor handles one after the other, two of them with the    *)
(* same fingerprint.                                                       *)
(***************************************************************************)
Found ==
  {[print |-> "f1", type |-> "gpu_oom", says |-> {"hip out of memory"}],
   [print |-> "f2", type |-> "cache_write_failed", says |-> {"no space left on device"}],
   [print |-> "f3", type |-> "network_port", says |-> {"address already in use"}]}
Fresh == Reporter!NewSession({"port"})

\* One event more, in the session of the monitor and, to compare, in one of its own.
HandleEvent ==
  \E e \in Found, o \in Reporter!Outcomes :
    LET session == IF call = NotCalled THEN Fresh ELSE call.out.session
        found == [monitor |-> Reporter!AddEvent(session, e), alone |-> Reporter!AddEvent(Fresh, e)]
    IN  \E recovered \in {[s \in DOMAIN found |-> Reporter!Recover(found[s], e, o)]} :
        \E noted \in {[s \in DOMAIN found |-> Reporter!RecordNotification(recovered[s], e, o)]} :
          call' = [of |-> "reports", in |-> Append(call.in, [event |-> e, outcome |-> o]),
                   out |-> [session |-> noted.monitor,
                            reports |-> [s \in DOMAIN found |->
                               <<Reporter!RecoveryReport(found[s], recovered[s], e),
                                 Reporter!EventReport(found[s], noted[s])>>]]]

\* What a report says of the event itself, apart from the fix plan that is part of the evidence.
Own(report) ==
  [shown |-> report.shown, reruns |-> report.reruns, recovery |-> report.recovery,
   notification |-> report.notification,
   evidence |-> [i \in DOMAIN report.evidence |->
                   [source |-> report.evidence[i].source, print |-> report.evidence[i].print]]]

(***************************************************************************)
(* The reports of an event say of its evidence, its recovery, its rerun    *)
(* and its notification what they would say in a session of its own,       *)
(* whatever the session of the monitor did before; when nothing was        *)
(* executed for the event, so do the area of failure and the initial       *)
(* failure.  (The outcome section is not among them: see the README.)      *)
(***************************************************************************)
ReportIsTheEventsOwn ==
  call.of = "reports" =>
    \A n \in 1..2 :
      LET report == call.out.reports.monitor[n]
          alone == call.out.reports.alone[n]
      IN  /\ Own(report) = Own(alone)
          /\ call.in[Len(call.in)].outcome = "blocked" =>
               report.route = alone.route /\ report.initial = alone.initial

-----------------------------------------------------------------------------
(***************************************************************************)
(* Configurations the fixes meet.                                          *)
(***************************************************************************)
Values(candidate) ==
  CASE candidate.rule = "disable_bool" -> <<Bool(TRUE), Bool(FALSE), Num(1), Num(0)>>
    [] candidate.rule = "lower_int" ->
          <<Num(candidate.new.it - 1), candidate.new, Num(candidate.new.it + 1), Bool(TRUE)>>
    [] candidate.rule = "safe_enum_downgrade" -> <<Str("redis"), Str("local"), candidate.new, Num(0)>>
    [] OTHER -> <<Num(9100), candidate.new, Bool(TRUE), Str("9100")>>

\* The configuration with these of the spec's fields, each with one of its values.
ConfigOf(spec, pick) ==
  LET at(f) == CHOOSE k \in DOMAIN pick : spec.candidates[k].field = f
  IN  [f \in {spec.candidates[k].field : k \in DOMAIN pick} |->
         Values(spec.candidates[at(f)])[pick[at(f)]]]

ApplySafeFix ==
  \E spec \in Range(SafeSpecs) :
    \E K \in AtMost(DOMAIN spec.candidates, 3), port \in {"free", "taken"} : \E pick \in [K -> 1..4] :
      LET content == ConfigOf(spec, pick)
      IN  Called("apply", [spec |-> spec, content |-> content, port |-> port],
                 LocalChoice(spec, content, port))

GateOf(in) ==
  Gate([Project EXCEPT !.allow = SafeFixes],
       [type |-> in.spec.event, issue |-> in.spec.issue, sure |-> TRUE, domains |-> {},
        text |-> TRUE],
       [reading |-> "read_ok", content |-> in.content, port |-> in.port], TRUE)

(***************************************************************************)
(* The three places that judge a change of a field agree: what the local   *)
(* executor writes is what the script on a remote host would write, and    *)
(* where the gate lets a fix pass the executor finds something to write.   *)
(* What is written is one field the file has, and it is lowered, disabled  *)
(* or degraded; the same field is not written again.                       *)
(***************************************************************************)
SameFixEverywhere ==
  call.of = "apply" =>
    LET in == call.in
        k == call.out
        new == WrittenBy(in.spec, in.content, k)
        field == in.spec.candidates[k].field
    IN  /\ k = RemoteChoice(in.spec, in.content, in.port = "free")
        /\ GateOf(in).go => k > 0
        /\ k > 0 =>
             /\ field \in DOMAIN in.content /\ DOMAIN new = DOMAIN in.content
             /\ \A f \in DOMAIN new : f # field => new[f] = in.content[f]
             /\ Degrades(field, in.content[field], new[field])
             /\ LocalChoice(in.spec, new, in.port) # k

-----------------------------------------------------------------------------
Init == call = NotCalled

Next ==
  \/ /\ call = NotCalled
     /\ \/ Detect \/ Govern \/ Sweep \/ CompactSeen \/ CompactIndex \/ PlanFixes \/ ApplySafeFix
  \/ /\ call.of \in {"nothing", "reports"}
     /\ Len(call.in) < MaxHistory
     /\ HandleEvent

Spec == Init /\ [][Next]_vars

=============================================================================
