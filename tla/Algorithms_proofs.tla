-------------------------- MODULE Algorithms_proofs --------------------------
(***************************************************************************)
(* What the algorithms that keep no state promise for every input: for     *)
(* every configuration a safe fix meets, every set of governed tables,     *)
(* every inventory of files and every limit of the retention plan, every   *)
(* list of fingerprints, every event in any two sessions, any evidence.    *)
(* The calls of MCAlgorithms are among these.  What is about the tables    *)
(* and the detector alone is in RecoveryPolicy_proofs.                     *)
(***************************************************************************)
EXTENDS MCAlgorithms, RecoveryPolicy_proofs

-----------------------------------------------------------------------------
(***************************************************************************)
(* One safe fix, judged in three places.                                   *)
(***************************************************************************)
LEMMA OneOfFour ==
  ASSUME NEW a, NEW b, NEW c, NEW d, NEW n \in 1..4
  PROVE  <<a, b, c, d>>[n] \in {a, b, c, d}
OBVIOUS

\* The values a fix may meet are values.
LEMMA ValuesAreValues ==
  ASSUME NEW c, IsCandidate(c), NEW n \in 1..4
  PROVE  IsValue(Values(c)[n])
<1>0. \A b \in BOOLEAN : IsValue(Bool(b))
  BY DEF Bool, IsValue
<1>1. \A k \in Int : IsValue(Num(k)) /\ Num(k).it = k
  BY DEF Num, IsValue
<1>2. \A s : IsValue(Str(s))
  BY SMTT(30) DEF Str, IsValue
<1> DEFINE on == Bool(TRUE)
           off == Bool(FALSE)
           one == Num(1)
           zero == Num(0)
           near == Str("redis")
           local == Str("local")
           port == Num(9100)
           text == Str("9100")
           less == Num(c.new.it - 1)
           more == Num(c.new.it + 1)
           v1 == <<on, off, one, zero>>
           v2 == <<less, c.new, more, on>>
           v3 == <<near, local, c.new, zero>>
           v4 == <<port, c.new, on, text>>
<1>3. Values(c) = CASE c.rule = "disable_bool" -> v1
                    [] c.rule = "lower_int" -> v2
                    [] c.rule = "safe_enum_downgrade" -> v3
                    [] OTHER -> v4
  BY Zenon DEF Values
<1>4. /\ IsValue(on) /\ IsValue(off) /\ IsValue(one) /\ IsValue(zero)
      /\ IsValue(near) /\ IsValue(local) /\ IsValue(port) /\ IsValue(text)
      /\ c.new.it \in Int => IsValue(less) /\ IsValue(more)
  <2>1. IsValue(on) /\ IsValue(off)
    BY <1>0
  <2>2. IsValue(one) /\ IsValue(zero) /\ IsValue(port)
    BY <1>1
  <2>3. IsValue(near) /\ IsValue(local) /\ IsValue(text)
    BY <1>2
  <2>4. c.new.it \in Int => IsValue(less) /\ IsValue(more)
    BY <1>1
  <2> HIDE DEF on, off, one, zero, near, local, port, text, less, more
  <2>5. QED
    BY <2>1, <2>2, <2>3, <2>4
<1> HIDE DEF on, off, one, zero, near, local, port, text, less, more
<1>5. /\ v1[n] \in {on, off, one, zero}
      /\ v2[n] \in {less, c.new, more, on}
      /\ v3[n] \in {near, local, c.new, zero}
      /\ v4[n] \in {port, c.new, on, text}
  BY OneOfFour
<1> HIDE DEF v1, v2, v3, v4
<1>6. CASE c = Off(c.field)
  <2>1. PICK f : c = Off(f)
    BY <1>6, Zenon
  <2>2. c.rule = "disable_bool"
    BY <2>1 DEF Off
  <2>3. Values(c) = v1
    BY <2>2, <1>3
  <2>4. QED
    BY <2>3, <1>4, <1>5
<1>7. ASSUME NEW k \in Nat, c = Lower(c.field, k)
      PROVE  IsValue(Values(c)[n])
  <2>1. PICK f : c = Lower(f, k)
    BY <1>7, Zenon
  <2>2. c.rule = "lower_int" /\ c.new = Num(k)
    BY <2>1 DEF Lower
  <2>3. IsValue(c.new) /\ IsValue(less) /\ IsValue(more)
    BY <2>2, <1>1, <1>4
  <2>4. Values(c) = v2
    BY <2>2, <1>3
  <2>5. QED
    BY <2>3, <2>4, <1>4, <1>5
<1>8. ASSUME NEW s \in DowngradeValues, c = Degrade(c.field, s)
      PROVE  IsValue(Values(c)[n])
  <2>1. PICK f : c = Degrade(f, s)
    BY <1>8, Zenon
  <2>2. c.rule = "safe_enum_downgrade" /\ c.new = Str(s)
    BY <2>1 DEF Degrade
  <2>3. Values(c) = v3
    BY <2>2, <1>3
  <2>4. QED
    BY <2>2, <2>3, <1>2, <1>4, <1>5
<1>9. CASE c = Port("metrics_port", 9101)
  <2>1. c.rule = "port_available" /\ c.new = Num(9101)
    BY <1>9 DEF Port
  <2>2. Values(c) = v4
    BY <2>1, <1>3
  <2>3. QED
    BY <2>1, <2>2, <1>1, <1>4, <1>5
<1>10. QED
  BY <1>6, <1>7, <1>8, <1>9 DEF IsCandidate

LEMMA InputsAreConfigs ==
  ASSUME NEW spec \in Range(SafeSpecs), NEW K \in SUBSET (DOMAIN spec.candidates),
         NEW pick \in [K -> 1..4]
  PROVE  IsConfig(ConfigOf(spec, pick))
<1> DEFINE at(f) == CHOOSE k \in DOMAIN pick : spec.candidates[k].field = f
<1>1. \A k \in DOMAIN spec.candidates : IsCandidate(spec.candidates[k])
  BY SpecsRegistered DEF Registered
<1>2. ASSUME NEW f \in {spec.candidates[k].field : k \in DOMAIN pick}
      PROVE  IsValue(Values(spec.candidates[at(f)])[pick[at(f)]])
  <2>1. at(f) \in DOMAIN pick
    OBVIOUS
  <2> HIDE DEF at
  <2>2. pick[at(f)] \in 1..4 /\ IsCandidate(spec.candidates[at(f)])
    BY <1>1, <2>1
  <2>3. QED
    BY <2>2, ValuesAreValues
<1>3. ConfigOf(spec, pick)
        = [f \in {spec.candidates[k].field : k \in DOMAIN pick} |->
              Values(spec.candidates[at(f)])[pick[at(f)]]]
  BY Zenon DEF ConfigOf
<1> HIDE DEF at
<1>4. QED
  BY <1>2, <1>3 DEF IsConfig

\* A call of apply_safe_fix with a registered fix, and what it returned.
AppliedCall(c) ==
  c.of = "apply" =>
    /\ c.in.spec \in Range(SafeSpecs)
    /\ IsConfig(c.in.content)
    /\ c.in.port \in {"free", "taken"}
    /\ c.out = LocalChoice(c.in.spec, c.in.content, c.in.port)

\* A gate that says go lets the fix of the spec pass.
LEMMA GateOfSpec ==
  ASSUME NEW in, in.spec \in Range(SafeSpecs), IsConfig(in.content),
         in.port \in {"free", "taken"}, GateOf(in).go
  PROVE  LocalChoice(in.spec, in.content, in.port) > 0
<1> DEFINE project == [Project EXCEPT !.allow = SafeFixes]
           e == [type |-> in.spec.event, issue |-> in.spec.issue, sure |-> TRUE, domains |-> {},
                 text |-> TRUE]
           world == [reading |-> "read_ok", content |-> in.content, port |-> in.port]
           gate == Gate(project, e, world, TRUE)
<1>1. gate.go
  BY Zenon DEF GateOf
<1>2. /\ e.type = in.spec.event
      /\ world.reading = "read_ok" /\ world.content = in.content /\ world.port = in.port
  OBVIOUS
<1> HIDE DEF project, e, world
<1>3. gate.fix \in SafeFixes /\ SpecOfFix(gate.fix).event = in.spec.event
  BY ZenonT(40), <1>1, <1>2, GateChecked
<1>4. SpecOfFix(gate.fix) = in.spec
  BY <1>3, SafeSpecOfFix, OneFixForAnEvent
<1>5. LocalChoice(SpecOfFix(gate.fix), world.content, world.port) > 0
  BY <1>1, <1>2, GateFindsAnEdit
<1>6. QED
  BY <1>2, <1>4, <1>5

\* The three judges of an edit agree, and what is written is safe, for every safe fix and every
\* configuration of values - not only those the runs enumerate.
LEMMA ApplyIsRight ==
  ASSUME NEW in, in.spec \in Range(SafeSpecs), IsConfig(in.content),
         in.port \in {"free", "taken"}
  PROVE  LET k == LocalChoice(in.spec, in.content, in.port)
             new == WrittenBy(in.spec, in.content, k)
             field == in.spec.candidates[k].field
         IN  /\ k = RemoteChoice(in.spec, in.content, in.port = "free")
             /\ GateOf(in).go => k > 0
             /\ k > 0 =>
                  /\ field \in DOMAIN in.content /\ DOMAIN new = DOMAIN in.content
                  /\ \A f \in DOMAIN new : f # field => new[f] = in.content[f]
                  /\ Degrades(field, in.content[field], new[field])
                  /\ LocalChoice(in.spec, new, in.port) # k
<1> DEFINE k == LocalChoice(in.spec, in.content, in.port)
           new == WrittenBy(in.spec, in.content, k)
           field == in.spec.candidates[k].field
<1>1. k = RemoteChoice(in.spec, in.content, in.port = "free")
  BY SameChoice
<1>2. GateOf(in).go => k > 0
  BY GateOfSpec
<1>3. ASSUME k > 0
      PROVE  /\ field \in DOMAIN in.content /\ DOMAIN new = DOMAIN in.content
             /\ \A f \in DOMAIN in.content \ {field} : new[f] = in.content[f]
             /\ Degrades(field, in.content[field], new[field])
             /\ LocalChoice(in.spec, new, in.port) # k
  BY <1>3, ChoiceIsSafe
<1> HIDE DEF k, new, field
<1>4. k > 0 => \A f \in DOMAIN new : f # field => new[f] = in.content[f]
  BY <1>3
<1>5. QED
  BY <1>1, <1>2, <1>3, <1>4 DEF k, new, field

\* The invariant of the calls: a call of apply_safe_fix is one.
LEMMA OtherCall ==
  ASSUME NEW of, NEW in, NEW out, of # "apply", Called(of, in, out)
  PROVE  AppliedCall(call)'
BY DEF Called, AppliedCall

LEMMA CallsApply == Spec => []AppliedCall(call)
<1>1. Init => AppliedCall(call)
  BY DEF Init, NotCalled, AppliedCall
<1>2. ASSUME AppliedCall(call), [Next]_vars
      PROVE  AppliedCall(call)'
  <2>1. CASE UNCHANGED vars
    BY <1>2, <2>1 DEF vars, AppliedCall
  <2>2. CASE ApplySafeFix
    <3>1. PICK spec \in Range(SafeSpecs) :
            \E K \in AtMost(DOMAIN spec.candidates, 3), port \in {"free", "taken"} :
            \E pick \in [K -> 1..4] :
              LET content == ConfigOf(spec, pick)
              IN  Called("apply", [spec |-> spec, content |-> content, port |-> port],
                         LocalChoice(spec, content, port))
      BY <2>2, Zenon DEF ApplySafeFix
    <3>2. PICK K \in AtMost(DOMAIN spec.candidates, 3), port \in {"free", "taken"} :
            \E pick \in [K -> 1..4] :
              LET content == ConfigOf(spec, pick)
              IN  Called("apply", [spec |-> spec, content |-> content, port |-> port],
                         LocalChoice(spec, content, port))
      BY <3>1
    <3>3. PICK pick \in [K -> 1..4] :
            Called("apply", [spec |-> spec, content |-> ConfigOf(spec, pick), port |-> port],
                   LocalChoice(spec, ConfigOf(spec, pick), port))
      BY <3>2
    <3>4. K \in SUBSET (DOMAIN spec.candidates)
      BY DEF AtMost, kSubset
    <3>5. IsConfig(ConfigOf(spec, pick))
      BY <3>4, InputsAreConfigs
    <3>6. QED
      BY <3>3, <3>5 DEF Called, AppliedCall
  <2>3. CASE Detect \/ Govern \/ Sweep \/ CompactSeen
    BY <2>3, OtherCall, Zenon DEF Detect, Govern, Sweep, CompactSeen
  <2>4. CASE CompactIndex \/ PlanFixes
    BY <2>4, OtherCall, Zenon DEF CompactIndex, PlanFixes
  <2>5. CASE HandleEvent
    BY <2>5 DEF HandleEvent, AppliedCall
  <2>6. QED
    BY <1>2, <2>1, <2>2, <2>3, <2>4, <2>5 DEF Next
<1>3. QED
  BY <1>1, <1>2, PTL DEF Spec

\* SameFixEverywhere: local executor, remote script and gate agree on every safe fix and every
\* configuration; what is written is one field, made less.
THEOREM FixIsTheSame == Spec => []SameFixEverywhere
<1>1. AppliedCall(call) => SameFixEverywhere
  BY ApplyIsRight DEF AppliedCall, SameFixEverywhere
<1>2. QED
  BY <1>1, CallsApply, PTL

-----------------------------------------------------------------------------
(***************************************************************************)
(* The governance of the tables.                                           *)
(***************************************************************************)
\* validate_safe_recovery_registry_governance, for every set of tables it finds nothing in: what
\* the policy allows of itself is what the registry says of the event, for the detector, the
\* precheck and both executors alike.  That the detector's issue is the spec's rests on the rows
\* being made of the specs: the validator compares the detector with the rows only.
THEOREM GovernedTablesAgree ==
  ASSUME NEW s, NEW S, NEW T, s.safe \in Seq(S), s.domains \in Seq(T), SafeRowsAreSpecs(s),
         Governance(s) = {},
         NEW e, e \notin SyntheticEvents, NEW confidence, NEW fix,
         Resolve(PolicyOf(s), e, confidence, fix).allowed
  PROVE  Agreed(s, e, fix)
<1>1. /\ e \in DOMAIN s.runtime /\ s.runtime[e].layer = "safe_auto_recover"
      /\ ~Nameless(fix) /\ fix \in Range(s.runtime[e].fixes)
  <2>1. PolicyOf(s).events = s.runtime
    BY DEF PolicyOf
  <2>2. /\ e \in DOMAIN PolicyOf(s).events
        /\ PolicyOf(s).events[e].layer = "safe_auto_recover"
    BY ResolveAllowed
  <2>3. ~Nameless(fix) /\ fix \in Range(PolicyOf(s).events[e].fixes)
    BY AllowedIsListed
  <2>4. QED
    BY <2>1, <2>2, <2>3
<1>2. PICK d \in Range(s.domains) : d.event = e
  <2>1. DOMAIN s.runtime = Range(Column(s.domains, "event"))
    BY NothingFound DEF RuntimePolicies, UnlessSame, Unless
  <2>2. QED
    BY <1>1, <2>1 DEF Range, Column
<1>3. LET ep == s.runtime[e]
      IN  /\ d.layer = "safe_auto_recover"
          /\ ep.fixes = <<d.fix>> /\ ep.precheck /\ ep.rollback /\ ~ep.confirm
          /\ e \in DOMAIN FixByEvent(s.safe)
          /\ d.fix = FixByEvent(s.safe)[e]
          /\ ~Nameless(d.fix) => e \in DOMAIN s.remediation /\ s.remediation[e] = d.fix
          /\ e \notin SyntheticEvents => s.detector[e] = d.issue
          /\ e \notin s.manualEvents
  BY <1>1, <1>2, SafeRowChecked
<1>4. fix = d.fix
  BY <1>1, <1>3 DEF Range
<1>5. Distinct(Column(s.safe, "event"))
  BY NothingFound DEF SafeRegistryShape, Unless
<1>6. PICK i \in DOMAIN s.safe : s.safe[i].event = e
  BY <1>3, EventsHaveFixes
<1>7. s.safe[i].fix = fix /\ fix \in Range(FixByEvent(s.safe))
  BY <1>3, <1>4, <1>5, <1>6, FixOfSpec DEF Range
<1> DEFINE spec == s.safe[i]
<1>8. spec \in Range(s.safe) /\ d.issue = spec.issue
  BY <1>2, <1>3, <1>6 DEF Range, SafeRowsAreSpecs
<1>9. s.precheck[fix] = spec
  <2>1. DOMAIN s.precheck = Range(FixByEvent(s.safe))
    BY NothingFound DEF PrecheckSpecs, UnlessSame, Unless
  <2> DEFINE found(x) == Unless(x.fix \in DOMAIN s.precheck => s.precheck[x.fix] = x,
                                "precheck_spec_mismatch")
  <2>2. PrecheckSpecs(s.safe, s.precheck) = {}
    BY NothingFound
  <2>3. UNION {found(x) : x \in Range(s.safe)} = {}
    BY <2>2, Zenon DEF PrecheckSpecs, All
  <2>4. found(spec) = {}
    BY <1>8, <2>3
  <2>5. QED
    BY <1>7, <2>1, <2>4 DEF Unless
<1>10. /\ e \in s.safeEvents
       /\ fix \in s.local \cap s.remote
  <2>1. e \in Range(Column(s.safe, "event"))
    BY <1>6 DEF Range, Column
  <2>2. QED
    BY <1>7, <2>1, NothingFound
<1> HIDE DEF spec
<1>11. \E x \in Range(s.safe) :
         x.event = e /\ x.fix = fix /\ s.detector[e] = x.issue /\ s.precheck[fix] = x
  BY <1>3, <1>6, <1>7, <1>8, <1>9 DEF spec
<1>12. QED
  BY <1>1, <1>3, <1>4, <1>10, <1>11 DEF Agreed

-----------------------------------------------------------------------------
(***************************************************************************)
(* The retention plan, for every inventory: files at numbers, with         *)
(* different paths, and runs whose files say the same of their run.        *)
(***************************************************************************)
IsInventory(files) ==
  /\ DOMAIN files \in SUBSET Nat
  /\ \A i \in DOMAIN files : files[i].age \in Nat
  /\ \A i, j \in DOMAIN files : files[i].path = files[j].path => i = j
  /\ \A i, j \in DOMAIN files :
       files[i].root = "acceptance" /\ files[j].root = "acceptance" /\ files[i].run = files[j].run =>
         Sweeper!RunPrefix(files[i]) = Sweeper!RunPrefix(files[j])

IsBackup(f) == f.root = "state" /\ f.name = "daemon_log_backup"

\* What the script takes a file for.
LEMMA ClassifiedIs ==
  ASSUME NEW f
  PROVE  LET c == Sweeper!Classified(f)
         IN  /\ c = [file |-> f, family |-> c.family, type |-> c.type, project |-> c.project,
                     says |-> f.says, told |-> {}, reports |-> {}]
             /\ c.family = "monitor" <=> f.root = "monitors"
             /\ c.type = "alert_jsonl" <=> AlertLog(f)
             /\ c.type = "alert_archive_json" <=> AlertJson(f)
             /\ c.type = "alert_archive_markdown" <=> AlertText(f)
             /\ c.type = "acceptance_artifact" <=> f.root = "acceptance"
             /\ c.type = "daemon_log_backup" <=> IsBackup(f)
             /\ Pinned(f) => c.type \in Sweeper!PinnedTypes
             /\ Pinned(f) \/ Kind(f) # "none" => c.type # "none"
             /\ Kind(f) \in {"report", "alert", "backup"} => c.project = f.project
<1> DEFINE c == Sweeper!Classified(f)
           Record(family, type, project) ==
             [file |-> f, family |-> family, type |-> type, project |-> project,
              says |-> f.says, told |-> {}, reports |-> {}]
<1>1. CASE f.root = "monitors"
  <2>1. c = Record("monitor", Sweeper!MonitorType(f.name), f.project)
    BY <1>1 DEF Sweeper!Classified
  <2>2. QED
    BY <1>1, <2>1 DEF Sweeper!MonitorType, AlertLog, AlertJson, AlertText, IsBackup, Pinned,
         Kind, Sweeper!PinnedTypes
<1>2. CASE f.root = "alerts"
  <2>1. c = Record("alert", Sweeper!AlertType(f.name, f.archived), Sweeper!AlertProject(f))
    BY <1>2 DEF Sweeper!Classified
  <2>2. QED
    BY <1>2, <2>1 DEF Sweeper!AlertType, Sweeper!AlertProject, AlertLog, AlertJson, AlertText,
         IsBackup, Pinned, Kind, Sweeper!PinnedTypes
<1>3. CASE f.root = "acceptance"
  <2>1. c = Record("acceptance", "acceptance_artifact", "acceptance_artifacts")
    BY <1>3 DEF Sweeper!Classified
  <2>2. QED
    BY <1>3, <2>1 DEF AlertLog, AlertJson, AlertText, IsBackup, Pinned, Kind
<1>4. CASE f.root = "state"
  <2>1. c = Record("state", Sweeper!StateType(f.name), f.project)
    BY <1>4 DEF Sweeper!Classified
  <2>2. QED
    BY <1>4, <2>1 DEF Sweeper!StateType, AlertLog, AlertJson, AlertText, IsBackup, Pinned,
         Kind, Sweeper!PinnedTypes
<1>5. CASE f.root \notin {"monitors", "alerts", "acceptance", "state"}
  <2>1. c = Record("none", "none", "none")
    BY <1>5 DEF Sweeper!Classified
  <2>2. QED
    BY <1>5, <2>1 DEF AlertLog, AlertJson, AlertText, IsBackup, Pinned, Kind
<1>6. QED
  BY <1>1, <1>2, <1>3, <1>4, <1>5

\* The records of an inventory, once the alerts are read.
RecordsOf(files) == Sweeper!Enriched(Sweeper!Inventory(files))

MarksOf(f) == Sweeper!ItemMarkers(Sweeper!ItemsOf(f))

PathsOf(f) == UNION {Sweeper!ReportPaths(item) : item \in Sweeper!ItemsOf(f)}

Told == {"says", "told", "reports"}

LEMMA Rewritten ==
  ASSUME NEW r, Told \subseteq DOMAIN r, NEW says, NEW told, NEW reports
  PROVE  LET x == [r EXCEPT !.says = @ \cup says, !.told = told, !.reports = reports]
         IN  /\ x.says = r.says \cup says /\ x.told = told /\ x.reports = reports
             /\ x.file = r.file /\ x.family = r.family /\ x.type = r.type
             /\ x.project = r.project /\ Told \subseteq DOMAIN x
BY DEF Told

LEMMA ReadIs ==
  ASSUME NEW f
  PROVE  LET c == Sweeper!Classified(f)
             r == Sweeper!WithAlerts(c)
         IN  /\ r.file = f /\ r.family = c.family /\ r.type = c.type /\ r.project = c.project
             /\ Told \subseteq DOMAIN r
             /\ AlertLog(f) \/ AlertJson(f) =>
                  /\ r.says = f.says \cup MarksOf(f)
                  /\ r.told = MarksOf(f)
                  /\ r.reports = PathsOf(f)
<1> DEFINE c == Sweeper!Classified(f)
           r == Sweeper!WithAlerts(c)
<1>1. /\ c = [file |-> f, family |-> c.family, type |-> c.type, project |-> c.project,
              says |-> f.says, told |-> {}, reports |-> {}]
      /\ c.type \in {"alert_jsonl", "alert_archive_json"} <=> AlertLog(f) \/ AlertJson(f)
  BY ClassifiedIs
<1> HIDE DEF c
<1>2. c.file = f /\ c.says = f.says /\ Told \subseteq DOMAIN c
  BY <1>1 DEF Told
<1>3. CASE c.type \in {"alert_jsonl", "alert_archive_json"}
  <2>1. r = [c EXCEPT !.says = @ \cup MarksOf(f), !.told = MarksOf(f), !.reports = PathsOf(f)]
    BY <1>2, <1>3, Zenon DEF Sweeper!WithAlerts, MarksOf, PathsOf
  <2> HIDE DEF r
  <2>2. QED
    BY <1>2, <2>1, Rewritten DEF c, r
<1>4. CASE c.type \notin {"alert_jsonl", "alert_archive_json"}
  <2>1. r = c
    BY <1>4, Zenon DEF Sweeper!WithAlerts
  <2> HIDE DEF r
  <2>2. QED
    BY <1>1, <1>2, <1>4, <2>1 DEF c, r
<1>5. QED
  BY <1>3, <1>4

LEMMA RecordIs ==
  ASSUME NEW files
  PROVE  LET all == RecordsOf(files)
             c(i) == Sweeper!Classified(files[i])
         IN  /\ DOMAIN all = {i \in DOMAIN files : c(i).type # "none"}
             /\ \A i \in DOMAIN all :
                  /\ all[i].file = files[i] /\ all[i].family = c(i).family
                  /\ all[i].type = c(i).type /\ all[i].project = c(i).project
                  /\ AlertLog(files[i]) \/ AlertJson(files[i]) =>
                       /\ MarksOf(files[i]) \subseteq all[i].says
                       /\ all[i].reports = PathsOf(files[i])
                  /\ AlertText(files[i]) =>
                       \A j \in DOMAIN all :
                         /\ AlertJson(files[j])
                         /\ files[j].stem = files[i].stem /\ files[j].project = files[i].project
                         => MarksOf(files[j]) \subseteq all[i].says
<1> DEFINE inv == Sweeper!Inventory(files)
           c(i) == Sweeper!Classified(files[i])
           first == [i \in DOMAIN inv |-> Sweeper!WithAlerts(inv[i])]
           told(i) == UNION {j.told : j \in Sweeper!Twins(first, first[i])}
           refs(i) == UNION {j.reports : j \in Sweeper!Twins(first, first[i])}
           all == RecordsOf(files)
<1>1. /\ DOMAIN inv = {i \in DOMAIN files : c(i).type # "none"}
      /\ \A i \in DOMAIN inv : inv[i] = c(i)
  BY DEF Sweeper!Inventory
<1>2. all = [i \in DOMAIN first |->
               IF first[i].type = "alert_archive_markdown"
               THEN [first[i] EXCEPT !.says = @ \cup told(i), !.reports = refs(i)]
               ELSE first[i]]
  BY Zenon DEF RecordsOf, Sweeper!Enriched
<1> HIDE DEF inv, all
<1>3. \A i \in DOMAIN inv :
        /\ first[i].file = files[i] /\ first[i].family = c(i).family
        /\ first[i].type = c(i).type /\ first[i].project = c(i).project
        /\ Told \subseteq DOMAIN first[i]
        /\ AlertLog(files[i]) \/ AlertJson(files[i]) =>
             /\ first[i].says = files[i].says \cup MarksOf(files[i])
             /\ first[i].told = MarksOf(files[i])
             /\ first[i].reports = PathsOf(files[i])
  BY <1>1, ReadIs
<1>4. DOMAIN first = DOMAIN inv
  OBVIOUS
<1> HIDE DEF first
<1>5. ASSUME NEW i \in DOMAIN all
      PROVE  /\ all[i].file = files[i] /\ all[i].family = c(i).family
             /\ all[i].type = c(i).type /\ all[i].project = c(i).project
             /\ first[i].type # "alert_archive_markdown" => all[i] = first[i]
             /\ first[i].type = "alert_archive_markdown" =>
                  told(i) \subseteq all[i].says
  <2>1. i \in DOMAIN inv
    BY <1>2, <1>4
  <2> HIDE DEF told, refs, c
  <2>2. CASE first[i].type = "alert_archive_markdown"
    <3>1. all[i] = [first[i] EXCEPT !.says = @ \cup told(i), !.reports = refs(i)]
      BY <1>2, <1>4, <2>1, <2>2
    <3>2. QED
      BY <1>3, <2>1, <2>2, <3>1 DEF Told
  <2>3. CASE first[i].type # "alert_archive_markdown"
    BY <1>2, <1>3, <1>4, <2>1, <2>3
  <2>4. QED
    BY <2>2, <2>3
<1>6. DOMAIN all = DOMAIN inv
  BY <1>2, <1>4
<1>7. ASSUME NEW i \in DOMAIN all, AlertLog(files[i]) \/ AlertJson(files[i])
      PROVE  /\ MarksOf(files[i]) \subseteq all[i].says
             /\ all[i].reports = PathsOf(files[i])
  <2>1. c(i).type \in {"alert_jsonl", "alert_archive_json"}
    BY <1>7, ClassifiedIs
  <2> HIDE DEF c
  <2>2. QED
    BY <1>3, <1>5, <1>6, <1>7, <2>1
<1>8. ASSUME NEW i \in DOMAIN all, AlertText(files[i]), NEW j \in DOMAIN all, AlertJson(files[j]),
             files[j].stem = files[i].stem, files[j].project = files[i].project
      PROVE  MarksOf(files[j]) \subseteq all[i].says
  <2>1. /\ c(i).type = "alert_archive_markdown" /\ c(j).type = "alert_archive_json"
        /\ c(i).project = files[i].project /\ c(j).project = files[j].project
    BY <1>8, ClassifiedIs DEF Kind, AlertText, AlertJson
  <2> HIDE DEF c
  <2>2. /\ first[i].file = files[i] /\ first[i].type = c(i).type /\ first[i].project = c(i).project
        /\ first[j].file = files[j] /\ first[j].type = c(j).type /\ first[j].project = c(j).project
        /\ first[j].told = MarksOf(files[j])
    BY <1>3, <1>6, <1>8
  <2>3. first[j] \in Sweeper!Twins(first, first[i])
    BY <1>4, <1>6, <1>8, <2>1, <2>2 DEF Sweeper!Twins, Sweeper!Range
  <2>4. first[j].told \subseteq told(i)
    BY <2>3
  <2>5. told(i) \subseteq all[i].says
    BY <1>5, <2>1, <2>2
  <2>6. QED
    BY <2>2, <2>4, <2>5
<1>9. QED
  BY <1>1, <1>5, <1>6, <1>7, <1>8 DEF all

-----------------------------------------------------------------------------
\* The set that is counted has as many elements here as there.
LEMMA SweeperCounts == ASSUME NEW S PROVE Sweeper!Cardinality(S) = Cardinality(S)
BY Zenon DEF Cardinality, Sweeper!Cardinality, IsFiniteSet, Sweeper!IsFiniteSet

\* Somebody is first, and nobody is newer.
LEMMA FirstInRank ==
  ASSUME NEW group \in SUBSET Nat, group # {}, NEW age, \A j \in group : age[j] \in Nat
  PROVE  \E b \in group : /\ Sweeper!RankIn(group, age, b) = 1
                          /\ \A j \in group : age[b] <= age[j]
<1>1. PICK m \in {age[j] : j \in group} : \A n \in {age[j] : j \in group} : m <= n
  <2>1. {age[j] : j \in group} \in SUBSET Nat /\ {age[j] : j \in group} # {}
    OBVIOUS
  <2>2. QED
    BY <2>1, LeastNumber
<1> DEFINE youngest == {j \in group : age[j] = m}
<1>2. PICK b \in youngest : \A j \in youngest : b <= j
  <2>1. youngest \in SUBSET Nat /\ youngest # {}
    BY <1>1
  <2>2. QED
    BY <2>1, LeastNumber
<1> DEFINE before == {j \in group : age[j] < age[b] \/ (age[j] = age[b] /\ j < b)}
<1>3. before = {}
  <2>1. SUFFICES ASSUME NEW j \in before PROVE FALSE
    OBVIOUS
  <2>2. j \in Nat /\ b \in Nat /\ m <= age[j] /\ m \in Nat /\ age[j] \in Nat /\ age[b] = m
    BY <1>1, <1>2
  <2>3. j \in youngest /\ j < b
    BY <2>2
  <2>4. QED
    BY <1>2, <2>2, <2>3
<1>4. Sweeper!RankIn(group, age, b) = 1
  <2>1. Sweeper!RankIn(group, age, b) = 1 + Cardinality(before)
    BY SweeperCounts, Zenon DEF Sweeper!RankIn
  <2>2. QED
    BY <1>3, <2>1, FS_EmptySet
<1>5. QED
  BY <1>1, <1>2, <1>4

\* What has a record.
LEMMA HasRecord ==
  ASSUME NEW files, NEW i \in DOMAIN files
  PROVE  /\ i \in DOMAIN RecordsOf(files) <=> Sweeper!Classified(files[i]).type # "none"
         /\ Pinned(files[i]) \/ Kind(files[i]) # "none" \/ AlertLog(files[i]) \/ AlertJson(files[i])
              => i \in DOMAIN RecordsOf(files)
<1>1. i \in DOMAIN RecordsOf(files) <=> Sweeper!Classified(files[i]).type # "none"
  BY ZenonT(40), RecordIs
<1>2. ASSUME Pinned(files[i]) \/ Kind(files[i]) # "none" \/ AlertLog(files[i]) \/ AlertJson(files[i])
      PROVE  Sweeper!Classified(files[i]).type # "none"
  BY <1>2, ClassifiedIs
<1>3. QED
  BY <1>1, <1>2

\* A file the plan deletes is one nothing protects.
LEMMA DeletedIs ==
  ASSUME NEW files, IsInventory(files), NEW i \in DOMAIN files,
         files[i].path \in Sweeper!Plan(files).delete
  PROVE  /\ i \in DOMAIN RecordsOf(files)
         /\ Sweeper!Deletable(files, RecordsOf(files), i)
         /\ ~Sweeper!Protected(RecordsOf(files), i)
<1> DEFINE all == RecordsOf(files)
           gone == {k \in DOMAIN all : Sweeper!Deletable(files, all, k)}
<1>1. Sweeper!Plan(files).delete = {all[k].file.path : k \in gone}
  BY Zenon DEF Sweeper!Plan, RecordsOf
<1> HIDE DEF all
<1>2. PICK k \in gone : all[k].file.path = files[i].path
  BY <1>1
<1>3. k \in DOMAIN files /\ all[k].file = files[k]
  BY <1>2, RecordIs DEF all
<1>4. k = i
  BY <1>2, <1>3 DEF IsInventory
<1>5. QED
  BY <1>2, <1>4 DEF all, Sweeper!Deletable

LEMMA OneFateOnly ==
  ASSUME NEW files, IsInventory(files)
  PROVE  OneFate(Sweeper!Plan(files))
<1> DEFINE all == RecordsOf(files)
           plan == Sweeper!Plan(files)
           staying == {k \in DOMAIN all :
                         \/ Sweeper!Protected(all, k)
                         \/ /\ all[k].type \in Sweeper!ArchivedAlerts
                            /\ ~Sweeper!ReportExists(files, all[k])}
<1>1. plan.protected = {all[k].file.path : k \in staying}
  BY Zenon DEF Sweeper!Plan, RecordsOf
<1>2. plan.delete \subseteq {all[k].file.path : k \in DOMAIN all}
  BY DEF Sweeper!Plan, RecordsOf
<1> HIDE DEF all, plan
<1>3. ASSUME NEW p \in plan.delete \cap plan.protected PROVE FALSE
  <2>1. PICK k \in staying : all[k].file.path = p
    BY <1>1, <1>3
  <2>2. k \in DOMAIN all /\ k \in DOMAIN files /\ files[k].path = p
    BY <2>1, RecordIs DEF all
  <2>3. Sweeper!Deletable(files, all, k) /\ ~Sweeper!Protected(all, k)
    BY <1>3, <2>2, DeletedIs DEF all, plan
  <2>4. /\ all[k].type \in Sweeper!ArchivedAlerts
        /\ ~Sweeper!ReportExists(files, all[k])
    BY <2>1, <2>3
  <2>5. all[k].family # "monitor"
    <3>1. /\ all[k].type = Sweeper!Classified(files[k]).type
          /\ all[k].family = Sweeper!Classified(files[k]).family
      BY <2>2, RecordIs DEF all
    <3>2. AlertJson(files[k]) \/ AlertText(files[k])
      BY <2>4, <3>1, ClassifiedIs DEF Sweeper!ArchivedAlerts
    <3>3. QED
      BY <3>1, <3>2, ClassifiedIs DEF AlertJson, AlertText
  <2>6. QED
    BY <2>3, <2>4, <2>5 DEF Sweeper!Deletable, Sweeper!ArchivedAlerts
<1>4. QED
  BY <1>3 DEF OneFate, plan

\* The alerts the plan reads are those that can be read.
LEMMA ReadableIs == ASSUME NEW f PROVE Sweeper!ItemsOf(f) = Readable(f)
BY DEF Sweeper!ItemsOf, Readable

LEMMA ReportsStay ==
  ASSUME NEW files, IsInventory(files)
  PROVE  ReportsOfAlertsStay(Range(files), Sweeper!Plan(files))
<1> DEFINE all == RecordsOf(files)
<1> SUFFICES ASSUME NEW i \in DOMAIN files, AlertLog(files[i]) \/ AlertJson(files[i]),
                    NEW j \in DOMAIN files, files[j].root = "monitors",
                    NEW item \in Readable(files[i]),
                    files[j].path \in item.reports \cup item.nested,
                    files[j].path \in Sweeper!Plan(files).delete
             PROVE  FALSE
  BY DEF ReportsOfAlertsStay, Range
<1>1. j \in DOMAIN all /\ ~Sweeper!Protected(all, j)
  BY DeletedIs
<1>2. i \in DOMAIN all
  BY HasRecord
<1>3. all[i].reports = PathsOf(files[i])
  BY <1>2, RecordIs
<1>4. files[j].path \in PathsOf(files[i])
  BY ReadableIs DEF PathsOf, Sweeper!ReportPaths
<1>5. all[j].file = files[j] /\ all[j].family = "monitor"
  <2>1. Sweeper!Classified(files[j]).family = "monitor"
    BY ClassifiedIs
  <2>2. QED
    BY <1>1, <2>1, RecordIs
<1> HIDE DEF all
<1>6. files[j].path \in Sweeper!Referenced(all)
  BY <1>2, <1>3, <1>4 DEF Sweeper!Referenced, Sweeper!Range
<1>7. QED
  BY <1>1, <1>5, <1>6 DEF Sweeper!Protected

LEMMA AlertsStay ==
  ASSUME NEW files, IsInventory(files)
  PROVE  EvidenceStays(Range(files), Sweeper!Plan(files))
<1> DEFINE all == RecordsOf(files)
<1>1. SUFFICES ASSUME NEW i \in DOMAIN files, AlertJson(files[i]),
                    NEW item \in Readable(files[i]), IsEvidence(item),
                    NEW j \in DOMAIN files, files[j].path \in Sweeper!Plan(files).delete,
                    \/ j = i
                    \/ /\ AlertText(files[j])
                       /\ files[j].stem = files[i].stem /\ files[j].project = files[i].project
             PROVE  FALSE
  BY DEF EvidenceStays, Range
<1>2. j \in DOMAIN all /\ ~Sweeper!Protected(all, j)
  BY <1>1, DeletedIs
<1>3. i \in DOMAIN all
  BY <1>1, HasRecord
<1>4. MarksOf(files[i]) # {}
  <2>1. item \in Sweeper!ItemsOf(files[i])
    BY <1>1, ReadableIs
  <2>2. CASE "manual_escalation" \in {item.action, item.status, item.layer}
    BY <2>1, <2>2 DEF MarksOf, Sweeper!ItemMarkers, Sweeper!Markers
  <2>3. CASE item.gate
    BY <2>1, <2>3 DEF MarksOf, Sweeper!ItemMarkers, Sweeper!Markers
  <2>4. CASE item.rollback
    BY <2>1, <2>4 DEF MarksOf, Sweeper!ItemMarkers, Sweeper!Markers
  <2>5. QED
    BY <1>1, <2>2, <2>3, <2>4 DEF IsEvidence
<1>5. MarksOf(files[i]) \subseteq all[j].says
  BY <1>1, <1>2, <1>3, RecordIs
<1> HIDE DEF all
<1>6. QED
  BY <1>2, <1>4, <1>5 DEF Sweeper!Protected

LEMMA PinnedStay ==
  ASSUME NEW files, IsInventory(files), NEW i \in DOMAIN files, Pinned(files[i])
  PROVE  files[i].path \notin Sweeper!Plan(files).delete
<1> DEFINE all == RecordsOf(files)
<1>1. SUFFICES ASSUME files[i].path \in Sweeper!Plan(files).delete PROVE FALSE
  OBVIOUS
<1>2. i \in DOMAIN all /\ ~Sweeper!Protected(all, i)
  BY <1>1, DeletedIs
<1>3. all[i].type \in Sweeper!PinnedTypes
  <2>1. Sweeper!Classified(files[i]).type \in Sweeper!PinnedTypes
    BY ClassifiedIs
  <2>2. QED
    BY <1>2, <2>1, RecordIs
<1> HIDE DEF all
<1>4. QED
  BY <1>2, <1>3 DEF Sweeper!Protected

-----------------------------------------------------------------------------
\* The files of a project that are counted with one, for reports, alerts and log backups.
CountedWith(files, i) ==
  {j \in DOMAIN files : Kind(files[j]) = Kind(files[i]) /\ files[j].project = files[i].project}

\* What the script takes a file for that is counted, and the other way round.
LEMMA KindIs ==
  ASSUME NEW files, NEW i \in DOMAIN RecordsOf(files)
  PROVE  LET r == RecordsOf(files)[i]
         IN  /\ r.file = files[i]
             /\ r.family = "monitor" <=> Kind(files[i]) = "report"
             /\ r.type \in Sweeper!ArchivedAlerts <=> Kind(files[i]) = "alert"
             /\ r.type = "daemon_log_backup" <=> Kind(files[i]) = "backup"
             /\ r.type = "acceptance_artifact" <=> Kind(files[i]) = "run"
             /\ Kind(files[i]) \in {"report", "alert", "backup"} => r.project = files[i].project
<1> DEFINE r == RecordsOf(files)[i]
           c == Sweeper!Classified(files[i])
<1>1. /\ i \in DOMAIN files /\ r.file = files[i] /\ r.family = c.family /\ r.type = c.type
      /\ r.project = c.project
  BY RecordIs
<1>2. /\ c.family = "monitor" <=> files[i].root = "monitors"
      /\ c.type \in Sweeper!ArchivedAlerts <=> AlertJson(files[i]) \/ AlertText(files[i])
      /\ c.type = "daemon_log_backup" <=> IsBackup(files[i])
      /\ c.type = "acceptance_artifact" <=> files[i].root = "acceptance"
      /\ Kind(files[i]) \in {"report", "alert", "backup"} => c.project = files[i].project
  BY ClassifiedIs DEF Sweeper!ArchivedAlerts
<1> HIDE DEF r, c
<1>3. /\ files[i].root = "monitors" <=> Kind(files[i]) = "report"
      /\ AlertJson(files[i]) \/ AlertText(files[i]) <=> Kind(files[i]) = "alert"
      /\ IsBackup(files[i]) <=> Kind(files[i]) = "backup"
      /\ files[i].root = "acceptance" <=> Kind(files[i]) = "run"
  BY DEF Kind, AlertJson, AlertText, IsBackup
<1>4. QED
  BY <1>1, <1>2, <1>3 DEF r

\* Who is first of those that are counted together is one of the latest.
LEMMA FirstIsLatest ==
  ASSUME NEW files, NEW i \in DOMAIN RecordsOf(files),
         Kind(files[i]) \in {"report", "alert", "backup"},
         Sweeper!RankIn(CountedWith(files, i), Sweeper!Ages(RecordsOf(files)), i) = 1
  PROVE  Sweeper!IsLatest(RecordsOf(files), i)
<1> DEFINE all == RecordsOf(files)
<1>1. \A j \in DOMAIN all :
        /\ all[j].family = "monitor" <=> Kind(files[j]) = "report"
        /\ all[j].type \in Sweeper!ArchivedAlerts <=> Kind(files[j]) = "alert"
        /\ all[j].type = "daemon_log_backup" <=> Kind(files[j]) = "backup"
        /\ all[j].type = "acceptance_artifact" <=> Kind(files[j]) = "run"
        /\ Kind(files[j]) \in {"report", "alert", "backup"} => all[j].project = files[j].project
  BY KindIs
<1>2. \A j \in DOMAIN files : Kind(files[j]) # "none" => j \in DOMAIN all
  BY HasRecord
<1>3. DOMAIN all \subseteq DOMAIN files
  BY RecordIs
<1>4. KeepReports >= 1 /\ KeepAlerts >= 1 /\ KeepBackups >= 1
  BY LimitsAssumption
<1> HIDE DEF all
<1>5. CASE Kind(files[i]) = "report"
  <2>1. {j \in DOMAIN all : all[j].family = "monitor" /\ all[j].project = all[i].project}
          = CountedWith(files, i)
    BY <1>1, <1>2, <1>3, <1>5 DEF CountedWith, all
  <2>2. Sweeper!MonitorRank(all, i) = 1
    BY <2>1, Zenon DEF Sweeper!MonitorRank, all
  <2>3. QED
    BY <1>1, <1>4, <1>5, <2>2 DEF Sweeper!IsLatest, all
<1>6. CASE Kind(files[i]) = "alert"
  <2>1. {j \in DOMAIN all : /\ all[j].type \in Sweeper!ArchivedAlerts
                            /\ all[j].project = all[i].project}
          = CountedWith(files, i)
    BY <1>1, <1>2, <1>3, <1>6 DEF CountedWith, all
  <2>2. Sweeper!AlertRank(all, i) = 1
    BY <2>1, Zenon DEF Sweeper!AlertRank, all
  <2>3. QED
    BY <1>1, <1>4, <1>6, <2>2 DEF Sweeper!IsLatest, Sweeper!ArchivedAlerts, all
<1>7. CASE Kind(files[i]) = "backup"
  <2>1. {j \in DOMAIN all : all[j].type = "daemon_log_backup" /\ all[j].project = all[i].project}
          = CountedWith(files, i)
    BY <1>1, <1>2, <1>3, <1>7 DEF CountedWith, all
  <2>2. Sweeper!BackupRank(all, i) = 1
    BY <2>1, Zenon DEF Sweeper!BackupRank, all
  <2>3. all[i].family # "monitor" /\ all[i].type = "daemon_log_backup"
    BY <1>1, <1>7 DEF all
  <2>4. QED
    BY <1>4, <2>2, <2>3 DEF Sweeper!IsLatest, Sweeper!ArchivedAlerts, all
<1>8. QED
  BY <1>5, <1>6, <1>7

\* The latest are protected.
LEMMA LatestStays ==
  ASSUME NEW files, IsInventory(files), NEW i \in DOMAIN RecordsOf(files),
         Sweeper!IsLatest(RecordsOf(files), i)
  PROVE  files[i].path \notin Sweeper!Plan(files).delete
<1>1. i \in DOMAIN files
  BY RecordIs
<1>2. Sweeper!Protected(RecordsOf(files), i)
  BY DEF Sweeper!Protected
<1>3. QED
  BY <1>1, <1>2, DeletedIs

LEMMA NewestCountedStays ==
  ASSUME NEW files, IsInventory(files), NEW i \in DOMAIN files,
         Kind(files[i]) \in {"report", "alert", "backup"}
  PROVE  \E b \in DOMAIN files :
           /\ Alike(files[i], files[b])
           /\ \A h \in DOMAIN files : Alike(files[i], files[h]) => files[b].age <= files[h].age
           /\ \A h \in DOMAIN files : Together(files[b], files[h]) =>
                files[h].path \notin Sweeper!Plan(files).delete
<1> DEFINE all == RecordsOf(files)
           age == Sweeper!Ages(all)
           group == CountedWith(files, i)
<1>1. \A j \in group : j \in DOMAIN files /\ j \in DOMAIN all /\ age[j] = files[j].age
  <2>1. \A j \in DOMAIN files : Kind(files[j]) # "none" => j \in DOMAIN all
    BY HasRecord
  <2>2. \A j \in DOMAIN all : all[j].file = files[j]
    BY RecordIs
  <2>3. QED
    BY <2>1, <2>2 DEF CountedWith, Sweeper!Ages
<1>2. group \in SUBSET Nat /\ group # {} /\ \A j \in group : age[j] \in Nat
  <2>1. i \in group
    BY DEF CountedWith
  <2>2. QED
    BY <1>1, <2>1 DEF IsInventory
<1> HIDE DEF age
<1>3. PICK b \in group : Sweeper!RankIn(group, age, b) = 1 /\ \A j \in group : age[b] <= age[j]
  BY <1>2, FirstInRank
<1>4. CountedWith(files, b) = group /\ Kind(files[b]) = Kind(files[i])
  BY DEF CountedWith
<1>5. Sweeper!IsLatest(all, b)
  <2>1. Sweeper!RankIn(CountedWith(files, b), Sweeper!Ages(all), b) = 1
    BY <1>3, <1>4 DEF age
  <2>2. QED
    BY <1>1, <1>4, <2>1, FirstIsLatest
<1>6. \A j \in DOMAIN files : Alike(files[i], files[j]) <=> j \in group
  BY DEF Alike, CountedWith
<1>7. \A h \in DOMAIN files : Alike(files[i], files[h]) => files[b].age <= files[h].age
  BY <1>1, <1>3, <1>6
<1>8. ASSUME NEW h \in DOMAIN files, Together(files[b], files[h]) PROVE h = b
  <2>1. files[h] = files[b]
    BY <1>4, <1>8 DEF Together
  <2>2. QED
    BY <1>1, <2>1 DEF IsInventory
<1>9. files[b].path \notin Sweeper!Plan(files).delete
  BY <1>1, <1>5, LatestStays
<1> HIDE DEF group
<1>10. QED
  BY <1>1, <1>3, <1>6, <1>7, <1>8, <1>9

LEMMA NewestRunStays ==
  ASSUME NEW files, IsInventory(files), NEW i \in DOMAIN files, Kind(files[i]) = "run"
  PROVE  \E g \in DOMAIN files :
           /\ Alike(files[i], files[g])
           /\ \A h \in DOMAIN files : Alike(files[i], files[h]) => files[g].age <= files[h].age
           /\ \A h \in DOMAIN files : Together(files[g], files[h]) =>
                files[h].path \notin Sweeper!Plan(files).delete
<1> DEFINE all == RecordsOf(files)
           age == Sweeper!Ages(all)
           members(j) == {k \in DOMAIN all : /\ all[k].type = "acceptance_artifact"
                                             /\ all[k].file.run = all[j].file.run}
           first(j) == CHOOSE k \in members(j) : \A l \in members(j) : k <= l
           series(j) == {k \in DOMAIN all :
                           /\ all[k].type = "acceptance_artifact"
                           /\ Sweeper!RunPrefix(all[k].file) = Sweeper!RunPrefix(all[j].file)}
           runs(j) == {first(k) : k \in series(j)}
           least(j) == CHOOSE a \in {age[k] : k \in members(j)} : \A k \in members(j) : a <= age[k]
           newest(j) == [k \in runs(j) |-> least(k)]
<1>1. \A j : Sweeper!RunRank(all, j) = Sweeper!RankIn(runs(j), newest(j), first(j))
  BY Zenon DEF Sweeper!RunRank
<1>2. \A j \in DOMAIN all :
        /\ j \in DOMAIN files /\ j \in Nat /\ all[j].file = files[j]
        /\ all[j].type = "acceptance_artifact" <=> Kind(files[j]) = "run"
  <2>1. \A j \in DOMAIN all : /\ j \in DOMAIN files /\ all[j].file = files[j]
                              /\ all[j].type = "acceptance_artifact" <=> Kind(files[j]) = "run"
    BY RecordIs, KindIs
  <2>2. \A j \in DOMAIN files : j \in Nat
    BY DEF IsInventory
  <2> HIDE DEF all
  <2>3. QED
    BY <2>1, <2>2
<1>3. \A j \in DOMAIN all : age[j] = files[j].age /\ age[j] \in Nat
  BY <1>2 DEF Sweeper!Ages, IsInventory
<1>4. \A j \in DOMAIN files : Kind(files[j]) = "run" => j \in DOMAIN all
  BY HasRecord
<1> HIDE DEF all, age
<1> DEFINE Runs == {j \in DOMAIN all : all[j].type = "acceptance_artifact"}
<1>5. \A j \in Runs : \A k \in members(j) :
        /\ j \in members(j) /\ members(j) \subseteq Runs
        /\ members(k) = members(j) /\ first(k) = first(j)
  <2>1. ASSUME NEW j \in Runs, NEW k \in members(j)
        PROVE  j \in members(j) /\ members(j) \subseteq Runs /\ members(k) = members(j)
    OBVIOUS
  <2> HIDE DEF members, Runs
  <2>2. QED
    BY <2>1
<1>6. \A j \in Runs : first(j) \in members(j) /\ first(j) \in Nat
  <2>1. \A j \in Runs : members(j) \in SUBSET Nat /\ members(j) # {}
    BY <1>2, <1>5
  <2> HIDE DEF members, Runs
  <2>2. QED
    BY <2>1, LeastNumber
<1>7. ASSUME NEW j \in Runs
      PROVE  /\ least(j) \in {age[k] : k \in members(j)} /\ least(j) \in Nat
             /\ \A k \in members(j) : least(j) <= age[k]
  <2> DEFINE ages == {age[k] : k \in members(j)}
  <2>1. ages \in SUBSET Nat /\ ages # {}
    BY <1>3, <1>5
  <2> HIDE DEF members, Runs
  <2>2. PICK a \in ages : \A n \in ages : a <= n
    BY <2>1, LeastNumber
  <2>3. \A k \in members(j) : a <= age[k]
    BY <2>2
  <2>4. least(j) \in ages /\ \A k \in members(j) : least(j) <= age[k]
    BY <2>3
  <2>5. QED
    BY <2>1, <2>4
<1>8. i \in Runs /\ i \in series(i)
  BY <1>2, <1>4
<1>9. \A k \in series(i) : k \in Runs
  OBVIOUS
<1>10. runs(i) \in SUBSET Nat /\ runs(i) # {} /\ runs(i) \subseteq Runs
  <2> HIDE DEF members, first, series, Runs
  <2>1. QED
    BY <1>5, <1>6, <1>8, <1>9
<1>11. \A k \in runs(i) : newest(i)[k] = least(k) /\ newest(i)[k] \in Nat
  <2> HIDE DEF least, Runs
  <2>1. QED
    BY <1>7, <1>10
<1>12. PICK b \in runs(i) : /\ Sweeper!RankIn(runs(i), newest(i), b) = 1
                            /\ \A j \in runs(i) : newest(i)[b] <= newest(i)[j]
  <2> HIDE DEF runs, newest
  <2>1. QED
    BY <1>10, <1>11, FirstInRank
<1>13. PICK g \in members(b) : least(b) = age[g]
  BY <1>7, <1>10
<1>14. PICK k \in series(i) : b = first(k)
  OBVIOUS
<1>15. /\ g \in members(k) /\ members(g) = members(k) /\ first(g) = b
       /\ g \in DOMAIN files /\ Kind(files[g]) = "run" /\ files[g].run = files[k].run
       /\ k \in DOMAIN files /\ Kind(files[k]) = "run"
  <2>1. k \in Runs /\ b \in members(k) /\ b \in Runs
    BY <1>5, <1>6, <1>9, <1>14
  <2>2. members(b) = members(k) /\ first(b) = first(k)
    BY <1>5, <2>1
  <2>3. g \in members(k) /\ members(g) = members(k) /\ first(g) = b
    <3> HIDE DEF members, first, Runs, series
    <3>1. QED
      BY <1>5, <1>13, <1>14, <2>1, <2>2
  <2>4. g \in DOMAIN all /\ all[g].type = "acceptance_artifact" /\ all[g].file.run = all[k].file.run
    BY <2>3
  <2> HIDE DEF members, first, series
  <2>5. QED
    BY SMTT(30), <1>2, <2>1, <2>3, <2>4
<1>16. \A j \in DOMAIN files : Kind(files[j]) = "run" <=> files[j].root = "acceptance"
  BY DEF Kind, AlertJson, AlertText
<1>17. \A h \in DOMAIN files : /\ Kind(files[h]) = "run" /\ files[h].run = files[g].run
                               => /\ h \in members(k)
                                  /\ Sweeper!RunPrefix(files[h]) = Sweeper!RunPrefix(files[i])
  <2>1. ASSUME NEW h \in DOMAIN files, Kind(files[h]) = "run", files[h].run = files[g].run
        PROVE  h \in members(k)
    BY <1>2, <1>4, <1>15, <2>1
  <2>2. ASSUME NEW h \in DOMAIN files, Kind(files[h]) = "run", files[h].run = files[g].run
        PROVE  Sweeper!RunPrefix(files[h]) = Sweeper!RunPrefix(files[i])
    <3>1. Sweeper!RunPrefix(files[k]) = Sweeper!RunPrefix(files[i])
      BY <1>2, <1>8
    <3>2. Sweeper!RunPrefix(files[h]) = Sweeper!RunPrefix(files[k])
      BY <1>15, <1>16, <2>2 DEF IsInventory
    <3>3. QED
      BY <3>1, <3>2
  <2>3. QED
    BY <2>1, <2>2
<1>18. ASSUME NEW h \in DOMAIN files, Kind(files[h]) = "run", files[h].run = files[g].run
       PROVE  files[h].path \notin Sweeper!Plan(files).delete
  <2>1. h \in DOMAIN all /\ h \in members(k)
    BY <1>4, <1>17, <1>18
  <2>2. first(h) = b
    <3>1. k \in Runs
      BY <1>9
    <3> HIDE DEF members, first, Runs, series
    <3>2. QED
      BY <1>5, <1>14, <2>1, <3>1
  <2>3. series(h) = series(i)
    <3>1. Sweeper!RunPrefix(all[h].file) = Sweeper!RunPrefix(all[i].file)
      BY <1>2, <1>8, <1>17, <1>18, <2>1
    <3>2. QED
      BY <3>1
  <2>4. runs(h) = runs(i) /\ newest(h) = newest(i)
    <3>1. runs(h) = runs(i)
      BY <2>3
    <3> HIDE DEF runs, least
    <3>2. QED
      BY <3>1
  <2>5. Sweeper!RunRank(all, h) = 1
    <3> HIDE DEF runs, newest, first
    <3>1. QED
      BY <1>1, <1>12, <2>2, <2>4
  <2>6. all[h].family # "monitor" /\ all[h].type = "acceptance_artifact"
    <3>1. h \in DOMAIN RecordsOf(files)
      BY <2>1 DEF all
    <3>2. QED
      BY <1>18, <3>1, KindIs DEF all
  <2>7. KeepRuns >= 1
    BY LimitsAssumption
  <2>8. Sweeper!IsLatest(all, h)
    BY <2>5, <2>6, <2>7 DEF Sweeper!IsLatest, Sweeper!ArchivedAlerts
  <2>9. QED
    BY <2>1, <2>8, LatestStays DEF all
<1>19. ASSUME NEW h \in DOMAIN files, Alike(files[i], files[h])
       PROVE  files[g].age <= files[h].age
  <2>1. Kind(files[h]) = "run" /\ Sweeper!RunPrefix(files[i]) = Sweeper!RunPrefix(files[h])
    BY <1>19 DEF Alike
  <2>2. h \in series(i)
    BY <1>2, <1>4, <1>8, <2>1
  <2>3. h \in Runs /\ first(h) \in runs(i)
    BY SMTT(30), <1>9, <2>2
  <2>4. first(h) \in members(h) /\ members(first(h)) = members(h) /\ h \in members(h)
    BY <1>5, <1>6, <2>3
  <2>5. least(first(h)) <= age[h]
    BY ZenonT(40), <1>7, <1>10, <2>3, <2>4
  <2>6. least(b) <= least(first(h))
    BY ZenonT(40), <1>11, <1>12, <2>3
  <2>7. age[g] = files[g].age /\ age[h] = files[h].age /\ age[g] \in Nat /\ age[h] \in Nat
    BY <1>3, <1>4, <1>15, <2>1
  <2>8. least(first(h)) \in Nat
    BY ZenonT(40), <1>7, <1>10, <2>3
  <2> HIDE DEF least
  <2>9. QED
    BY <1>13, <2>5, <2>6, <2>7, <2>8
<1>20. Alike(files[i], files[g])
  BY <1>15, <1>17 DEF Alike
<1>21. \A h \in DOMAIN files : Together(files[g], files[h]) =>
         Kind(files[h]) = "run" /\ files[h].run = files[g].run
  BY <1>15 DEF Together
<1>22. QED
  BY <1>15, <1>18, <1>19, <1>20, <1>21

LEMMA NewestStay ==
  ASSUME NEW files, IsInventory(files)
  PROVE  NewestStays(Range(files), Sweeper!Plan(files))
<1>1. SUFFICES ASSUME NEW i \in DOMAIN files, Kind(files[i]) # "none"
               PROVE  \E b \in DOMAIN files :
                        /\ Alike(files[i], files[b])
                        /\ \A h \in DOMAIN files :
                             Alike(files[i], files[h]) => files[b].age <= files[h].age
                        /\ \A h \in DOMAIN files : Together(files[b], files[h]) =>
                             files[h].path \notin Sweeper!Plan(files).delete
  BY DEF NewestStays, Range
<1>2. Kind(files[i]) \in {"report", "alert", "backup", "run", "none"}
  BY DEF Kind
<1>3. QED
  BY <1>1, <1>2, NewestCountedStays, NewestRunStays

\* r14_retention_dry_run, for every inventory and every limit: no file is both protected and a
\* candidate, evidence and what alerts refer to stays, and so does the newest of every kind.
THEOREM PlanKeepsEvidence ==
  ASSUME NEW files, IsInventory(files)
  PROVE  LET plan == Sweeper!Plan(files)
         IN  /\ OneFate(plan)
             /\ ReportsOfAlertsStay(Range(files), plan)
             /\ EvidenceStays(Range(files), plan)
             /\ \A f \in Range(files) : Pinned(f) => f.path \notin plan.delete
             /\ NewestStays(Range(files), plan)
<1>1. \A f \in Range(files) : Pinned(f) => f.path \notin Sweeper!Plan(files).delete
  BY PinnedStay DEF Range
<1>2. QED
  BY <1>1, OneFateOnly, ReportsStay, AlertsStay, NewestStay

-----------------------------------------------------------------------------
(***************************************************************************)
(* The inventories of the runs are such inventories.                       *)
(***************************************************************************)
Ordinary(f) == "age" \in DOMAIN f /\ f.age \in Nat /\ f.root # "acceptance"

OfRun(f) == f.age \in Nat /\ f.root = "acceptance" /\ Sweeper!RunPrefix(f) = "r16"

LEMMA OrdinaryFiles ==
  ASSUME NEW path, NEW root, NEW name, root # "acceptance"
  PROVE  Ordinary(File(path, root, name))
BY DEF Ordinary, File

LEMMA OrdinaryChanged ==
  ASSUME NEW f, Ordinary(f), NEW x, NEW age \in Nat
  PROVE  /\ Ordinary(Aged(f, age))
         /\ Ordinary([f EXCEPT !.says = x])
         /\ Ordinary([f EXCEPT !.stem = x])
         /\ Ordinary([f EXCEPT !.items = x])
         /\ Ordinary([f EXCEPT !.big = x])
         /\ Ordinary([f EXCEPT !.project = x])
BY DEF Ordinary, Aged

LEMMA OrdinaryAlerts ==
  ASSUME NEW path, NEW name, NEW items, NEW age \in Nat
  PROVE  Ordinary(Archived(path, name, items, age))
<1>1. Ordinary(File(path, "alerts", name))
  BY OrdinaryFiles
<1>2. QED
  BY <1>1 DEF Ordinary, Archived

LEMMA FilesOfRuns ==
  ASSUME NEW path, NEW run, NEW age \in Nat
  PROVE  OfRun(Run(path, run, age))
BY DEF OfRun, Run, File, Sweeper!RunPrefix

LEMMA FilesAre == DOMAIN Files \subseteq Nat /\ \A f \in Range(Files) : Ordinary(f) \/ OfRun(f)
<1> DEFINE f1 == File("report1", "monitors", "event_final_report")
           f2 == Aged(File("report2", "monitors", "fix_plan"), 50)
           f3 == Aged(File("report3", "monitors", "combined_evidence"), 1)
           f4 == [File("report4", "monitors", "final_report") EXCEPT !.says = {"manual"}]
           f5 == Archived("alert1.json", "json", <<ByHand>>, 60)
           f6 == Archived("alert1.json", "json", <<Plain>>, 60)
           f7 == Archived("alert1.md", "markdown", <<>>, 60)
           f8 == [Archived("alert2.json", "json", <<Undone>>, 50) EXCEPT !.stem = "a2"]
           f9 == [Archived("alert2.md", "markdown", <<>>, 50) EXCEPT !.stem = "a2"]
           f10 == [Archived("alert3.md", "markdown", <<>>, 2) EXCEPT !.stem = "a3"]
           f11 == [File("alerts.jsonl", "alerts", "alerts_jsonl") EXCEPT !.items = <<Nested, Plain>>]
           f12 == [File("alerts.jsonl", "alerts", "alerts_jsonl") EXCEPT !.items = <<Nested, Torn, Plain>>]
           f13 == File("applied.json", "monitors", "remote_applied_fixes")
           f14 == [File("daemon.log", "state", "daemon_log") EXCEPT !.big = TRUE]
           f15 == File("daemon.log.1", "state", "daemon_log_backup")
           f16 == Aged(File("daemon.log.2", "state", "daemon_log_backup"), 41)
           f17 == File("project_status.json", "state", "project_status")
           f18 == Run("run1/a", "r16_1", 40)
           f19 == Run("run2/a", "r16_2", 45)
           f20 == Run("run2/b", "r16_2", 3)
           f21 == Run("run3/a", "r16_3", 1)
           f22 == Run("r16/a", "r16", 2)
           f23 == [Aged(File("report5", "monitors", "fix_plan"), 1) EXCEPT !.project = "q"]
           f24 == [Archived("alert4.json", "json", <<Plain>>, 1) EXCEPT !.stem = "a4"]
           f25 == [Archived("alert5.md", "markdown", <<>>, 60) EXCEPT !.project = "q"]
           all == <<f1, f2, f3, f4, f5, f6, f7, f8, f9, f10, f11, f12, f13, f14, f15, f16,
                  f17, f18, f19, f20, f21, f22, f23, f24, f25>>
<1>1. Files = all
  BY Zenon DEF Files
<1>2. Ordinary(f1) /\ Ordinary(f13) /\ Ordinary(f15) /\ Ordinary(f17)
  BY OrdinaryFiles
<1>3. Ordinary(f5) /\ Ordinary(f6) /\ Ordinary(f7)
  BY OrdinaryAlerts
<1>4. Ordinary(f2)
  BY OrdinaryFiles, OrdinaryAlerts, OrdinaryChanged
<1>5. Ordinary(f3)
  BY OrdinaryFiles, OrdinaryAlerts, OrdinaryChanged
<1>6. Ordinary(f4)
  BY OrdinaryFiles, OrdinaryAlerts, OrdinaryChanged
<1>7. Ordinary(f8)
  BY OrdinaryFiles, OrdinaryAlerts, OrdinaryChanged
<1>8. Ordinary(f9)
  BY OrdinaryFiles, OrdinaryAlerts, OrdinaryChanged
<1>9. Ordinary(f10)
  BY OrdinaryFiles, OrdinaryAlerts, OrdinaryChanged
<1>10. Ordinary(f11)
  BY OrdinaryFiles, OrdinaryAlerts, OrdinaryChanged
<1>11. Ordinary(f12)
  BY OrdinaryFiles, OrdinaryAlerts, OrdinaryChanged
<1>12. Ordinary(f14)
  BY OrdinaryFiles, OrdinaryAlerts, OrdinaryChanged
<1>13. Ordinary(f16)
  BY OrdinaryFiles, OrdinaryAlerts, OrdinaryChanged
<1>14. Ordinary(f23)
  BY OrdinaryFiles, OrdinaryAlerts, OrdinaryChanged
<1>15. Ordinary(f24)
  BY OrdinaryFiles, OrdinaryAlerts, OrdinaryChanged
<1>16. Ordinary(f25)
  BY OrdinaryFiles, OrdinaryAlerts, OrdinaryChanged
<1>17. OfRun(f18) /\ OfRun(f19) /\ OfRun(f20) /\ OfRun(f21) /\ OfRun(f22)
  BY FilesOfRuns
<1> HIDE DEF f1, f2, f3, f4, f5, f6, f7, f8, f9, f10, f11, f12, f13, f14, f15, f16, f17,
             f18, f19, f20, f21, f22, f23, f24, f25
<1>18. DOMAIN all = 1..25 /\ Range(all) = {f1, f2, f3, f4, f5, f6, f7, f8, f9, f10, f11, f12, f13, f14, f15, f16, f17, f18,
        f19, f20, f21, f22, f23, f24, f25}
  BY DEF Range
<1> HIDE DEF all
<1>19. QED
  BY <1>1, <1>2, <1>3, <1>4, <1>5, <1>6, <1>7, <1>8, <1>9, <1>10, <1>11, <1>12, <1>13,
     <1>14, <1>15, <1>16, <1>17, <1>18

LEMMA InventoriesAre == ASSUME NEW files \in Inventories PROVE IsInventory(files)
<1>1. PICK I \in SUBSET DOMAIN Files :
        /\ files = [i \in I |-> Files[i]]
        /\ \A i, j \in I : Files[i].path = Files[j].path => i = j
  BY DEF Inventories, kSubset
<1>2. \A i \in I : Ordinary(files[i]) \/ OfRun(files[i])
  BY <1>1, FilesAre DEF Range
<1>3. DOMAIN files = I /\ I \in SUBSET Nat
  BY <1>1, FilesAre
<1>4. \A i, j \in I : files[i].path = files[j].path => i = j
  BY <1>1
<1>5. QED
  BY <1>2, <1>3, <1>4 DEF IsInventory, Ordinary, OfRun

\* EvidenceIsKept: whatever the limits are, no inventory loses evidence.
THEOREM NoEvidenceIsDeleted == Spec => []EvidenceIsKept
<1>1. Init => EvidenceIsKept
  BY DEF Init, NotCalled, EvidenceIsKept
<1>2. ASSUME NEW of, NEW in, NEW out, of # "retention", Called(of, in, out)
      PROVE  EvidenceIsKept'
  BY <1>2 DEF Called, EvidenceIsKept
<1>3. ASSUME EvidenceIsKept, [Next]_vars
      PROVE  EvidenceIsKept'
  <2>1. CASE UNCHANGED vars
    BY <1>3, <2>1 DEF vars, EvidenceIsKept
  <2>2. CASE Sweep
    <3>1. PICK files \in Inventories : Called("retention", files, Sweeper!Plan(files))
      BY <2>2 DEF Sweep
    <3>2. call'.in = files /\ call'.out = Sweeper!Plan(files)
      BY <3>1 DEF Called
    <3>3. IsInventory(files)
      BY InventoriesAre
    <3>4. QED
      BY <3>2, <3>3, PlanKeepsEvidence DEF EvidenceIsKept
  <2>3. CASE Detect \/ Govern \/ CompactSeen \/ CompactIndex
    BY <1>2, <2>3, Zenon DEF Detect, Govern, CompactSeen, CompactIndex
  <2>4. CASE PlanFixes \/ ApplySafeFix
    BY <1>2, <2>4, Zenon DEF PlanFixes, ApplySafeFix
  <2>5. CASE HandleEvent
    BY <2>5 DEF HandleEvent, EvidenceIsKept
  <2>6. QED
    BY <1>3, <2>1, <2>2, <2>3, <2>4, <2>5 DEF Next
<1>4. QED
  BY <1>1, <1>3, PTL DEF Spec

-----------------------------------------------------------------------------
(***************************************************************************)
(* The fingerprints the monitor may forget, for every state and every log: *)
(* a state has no fingerprint twice, and times are numbers.                *)
(***************************************************************************)
IsState(status) ==
  /\ \E S : status.seen \in Seq(S)
  /\ \A i \in DOMAIN status.seen : status.seen[i].at \in Int
  /\ Unrepeated(status.seen)
  /\ status.reading # "ok" => status.seen = <<>>

IsLog(log) ==
  /\ \E S : log \in Seq(S)
  /\ \A i \in DOMAIN log : ~log[i].torn => log[i].at \in Int

\* In a finite set, with an order that goes in no circle, nothing is above one of the elements.
LEMMA SomeIsTop ==
  ASSUME NEW S, IsFiniteSet(S), S # {}, NEW above \in SUBSET (S \X S),
         \A x \in S : <<x, x>> \notin above,
         \A x, y, z \in S : <<x, y>> \in above /\ <<y, z>> \in above => <<x, z>> \in above
  PROVE  \E top \in S : \A x \in S : <<x, top>> \notin above
<1> DEFINE over(x) == {y \in S : <<y, x>> \in above}
           sizes == {Cardinality(over(x)) : x \in S}
<1>1. \A x \in S : IsFiniteSet(over(x)) /\ Cardinality(over(x)) \in Nat
  <2>1. \A x \in S : over(x) \in SUBSET S
    OBVIOUS
  <2> HIDE DEF over
  <2>2. \A x \in S : IsFiniteSet(over(x))
    BY <2>1, FS_Subset
  <2>3. QED
    BY <2>2, FS_CardinalityType
<1> HIDE DEF over
<1>2. sizes \in SUBSET Nat /\ sizes # {}
  BY <1>1
<1>3. PICK m \in sizes : \A n \in sizes : m <= n
  BY <1>2, LeastNumber
<1>4. PICK top \in S : m = Cardinality(over(top))
  BY <1>3
<1>5. ASSUME NEW x \in S, <<x, top>> \in above PROVE FALSE
  <2>1. over(x) \in SUBSET over(top) /\ x \in over(top) /\ x \notin over(x)
    BY <1>5 DEF over
  <2>2. Cardinality(over(top)) <= Cardinality(over(x))
    BY <1>3, <1>4
  <2>3. Cardinality(over(x)) <= Cardinality(over(top))
    BY <1>1, <2>1, FS_Subset
  <2>4. Cardinality(over(top)) = Cardinality(over(x))
    BY <1>1, <2>2, <2>3
  <2>5. over(top) = over(x)
    BY <1>1, <2>1, <2>4, FS_Subset
  <2>6. QED
    BY <2>1, <2>5
<1>6. QED
  BY <1>5

LEMMA SomeIsLargest ==
  ASSUME NEW S \in SUBSET Int, IsFiniteSet(S), S # {}
  PROVE  \E m \in S : \A n \in S : n <= m
<1> DEFINE above == {p \in S \X S : p[1] > p[2]}
<1>1. /\ above \in SUBSET (S \X S)
      /\ \A x \in S : <<x, x>> \notin above
      /\ \A x, y, z \in S : <<x, y>> \in above /\ <<y, z>> \in above => <<x, z>> \in above
      /\ \A x, y \in S : <<x, y>> \notin above => x <= y
  OBVIOUS
<1> HIDE DEF above
<1>2. PICK top \in S : \A x \in S : <<x, top>> \notin above
  BY <1>1, SomeIsTop
<1>3. QED
  BY <1>1, <1>2

\* What stands in a sequence is a finite set.
LEMMA FiniteSource ==
  ASSUME NEW n \in Nat, NEW T, NEW f \in [1..n -> T]
  PROVE  IsFiniteSet({f[i] : i \in 1..n})
<1> DEFINE image == {f[i] : i \in 1..n}
<1>1. f \in Surjection(1..n, image)
  BY DEF Surjection
<1>2. IsFiniteSet(1..n)
  BY FS_Interval
<1> HIDE DEF image
<1>3. IsFiniteSet(image)
  BY <1>1, <1>2, FS_Surjection
<1>4. QED
  BY <1>3 DEF image

\* The latest time the log has for a fingerprint is one of its times, and none is later.
LEMMA LoggedIs ==
  ASSUME NEW log, IsLog(log), NEW print
  PROVE  LET times == {e.at : e \in {x \in Range(log) : ~x.torn /\ x.print = print}}
                        \ {Compactor!None}
             latest == Compactor!EventTime(log, print)
         IN  /\ times \in SUBSET Int
             /\ times = {} => latest = Compactor!None
             /\ times # {} => latest \in times /\ \A t \in times : t <= latest
<1> DEFINE kept == {x \in Range(log) : ~x.torn /\ x.print = print}
           times == {e.at : e \in kept} \ {Compactor!None}
           latest == Compactor!EventTime(log, print)
<1>1. Compactor!Range(log) = Range(log)
  BY DEF Compactor!Range, Range
<1>2. latest = IF times = {} THEN Compactor!None
               ELSE CHOOSE t \in times : \A u \in times : u <= t
  <2> DEFINE found == {e.at : e \in {x \in Compactor!Range(log) : ~x.torn /\ x.print = print}}
                        \ {Compactor!None}
  <2>1. latest = IF found = {} THEN Compactor!None
                 ELSE CHOOSE t \in found : \A u \in found : u <= t
    BY Zenon DEF Compactor!EventTime
  <2>2. found = times
    BY <1>1
  <2> HIDE DEF found, times, latest
  <2>3. QED
    BY <2>1, <2>2
<1>3. times \in SUBSET Int
  BY DEF IsLog, Range
<1>4. IsFiniteSet(times)
  <2>1. PICK S : log \in Seq(S)
    BY DEF IsLog
  <2> DEFINE at == [i \in 1..Len(log) |-> log[i].at]
  <2>2. Len(log) \in Nat /\ DOMAIN log = 1..Len(log)
    BY <2>1
  <2>3. at \in [1..Len(log) -> {log[i].at : i \in 1..Len(log)}]
    OBVIOUS
  <2>4. times \in SUBSET {at[i] : i \in 1..Len(log)}
    BY <2>2 DEF Range
  <2> HIDE DEF at, times
  <2>5. IsFiniteSet({at[i] : i \in 1..Len(log)})
    BY <2>2, <2>3, FiniteSource
  <2>6. QED
    BY <2>4, <2>5, FS_Subset
<1> HIDE DEF times, latest
<1>5. CASE times = {}
  BY <1>2, <1>3, <1>5 DEF times, latest
<1>6. CASE times # {}
  <2>1. PICK m \in times : \A n \in times : n <= m
    BY <1>3, <1>4, <1>6, SomeIsLargest
  <2>2. latest \in times /\ \A t \in times : t <= latest
    BY <1>2, <1>6, <2>1
  <2>3. QED
    BY <1>3, <1>6, <2>2 DEF times, latest
<1>7. QED
  BY <1>5, <1>6

\* The records of a state with their times.
RecordOf(status, log, i) ==
  LET e == status.seen[i]
  IN  [print |-> e.print, index |-> i,
       at |-> IF e.at # Compactor!None THEN e.at ELSE Compactor!EventTime(log, e.print)]

Printed(status) == {i \in DOMAIN status.seen : status.seen[i].print # Compactor!Empty}

LEMMA TimedIs ==
  ASSUME NEW status, status.reading = "ok", NEW log
  PROVE  Compactor!Timed(status, log) = {RecordOf(status, log, i) : i \in Printed(status)}
<1> DEFINE before(i) == [print |-> status.seen[i].print, at |-> status.seen[i].at, index |-> i]
           timed(r) == IF r.at # Compactor!None THEN r
                       ELSE [r EXCEPT !.at = Compactor!EventTime(log, r.print)]
<1>1. Compactor!Normalized(status) = {before(i) : i \in Printed(status)}
  BY DEF Compactor!Normalized, Printed
<1>2. Compactor!Timed(status, log) = {timed(r) : r \in Compactor!Normalized(status)}
  BY Zenon DEF Compactor!Timed
<1>3. \A i : timed(before(i)) = RecordOf(status, log, i)
  BY DEF RecordOf
<1> HIDE DEF before, timed
<1>4. QED
  BY <1>1, <1>2, <1>3

\* The records are a finite set of numbered records, one for every fingerprint.
LEMMA RecordsAre ==
  ASSUME NEW status, IsState(status), NEW log, IsLog(log)
  PROVE  LET records == Compactor!Timed(status, log)
         IN  /\ IsFiniteSet(records)
             /\ \A r \in records : r.at \in Int /\ r.index \in Int
             /\ \A r, s \in records : r.print = s.print => r = s
             /\ \A r, s \in records : r.index = s.index => r = s
             /\ {r.print : r \in records}
                  = {e.print : e \in Range(status.seen)} \ {Compactor!Empty}
             /\ \A r \in records : \E i \in Printed(status) : r = RecordOf(status, log, i)
<1> DEFINE records == Compactor!Timed(status, log)
           rec(i) == RecordOf(status, log, i)
<1>0. PICK S : status.seen \in Seq(S)
  BY DEF IsState
<1>1. Len(status.seen) \in Nat /\ DOMAIN status.seen = 1..Len(status.seen)
  BY <1>0
<1>2. CASE status.reading # "ok"
  <2>1. status.seen = <<>>
    BY <1>2 DEF IsState
  <2>2. Compactor!Normalized(status) = {}
    BY <1>2 DEF Compactor!Normalized
  <2>3. records = {}
    BY <2>2 DEF Compactor!Timed
  <2>4. {e.print : e \in Range(status.seen)} = {}
    BY <2>1 DEF Range
  <2> HIDE DEF records
  <2>5. QED
    BY <2>3, <2>4, FS_EmptySet DEF records
<1>3. CASE status.reading = "ok"
  <2>1. records = {rec(i) : i \in Printed(status)}
    BY <1>3, TimedIs
  <2>2. \A i \in Printed(status) : /\ i \in DOMAIN status.seen /\ i \in Int
                                   /\ rec(i).print = status.seen[i].print /\ rec(i).index = i
                                   /\ rec(i).print # Compactor!Empty
    BY <1>1 DEF RecordOf, Printed
  <2>3. ASSUME NEW i \in Printed(status) PROVE rec(i).at \in Int
    <3>1. Compactor!EventTime(log, status.seen[i].print) \in Int
      <4>1. Compactor!None \in Int
        BY DEF Compactor!None
      <4> DEFINE times == {e.at : e \in {x \in Range(log) : ~x.torn /\ x.print = status.seen[i].print}}
                            \ {Compactor!None}
                 latest == Compactor!EventTime(log, status.seen[i].print)
      <4>2. /\ times \in SUBSET Int
            /\ times = {} => latest = Compactor!None
            /\ times # {} => latest \in times
        BY LoggedIs
      <4> HIDE DEF times, latest
      <4>3. latest \in Int
        BY <4>1, <4>2
      <4>4. QED
        BY <4>3 DEF latest
    <3>2. status.seen[i].at \in Int
      BY <2>2 DEF IsState
    <3>3. QED
      BY <3>1, <3>2 DEF RecordOf
  <2> HIDE DEF rec
  <2>4. IsFiniteSet(records)
    <3> DEFINE f == [i \in 1..Len(status.seen) |-> rec(i)]
    <3>1. f \in [1..Len(status.seen) -> {rec(i) : i \in 1..Len(status.seen)}]
      OBVIOUS
    <3>2. Printed(status) \subseteq 1..Len(status.seen)
      BY <1>1 DEF Printed
    <3>3. records \in SUBSET {f[i] : i \in 1..Len(status.seen)}
      BY <2>1, <3>2
    <3> HIDE DEF f, records
    <3>4. IsFiniteSet({f[i] : i \in 1..Len(status.seen)})
      BY <1>1, <3>1, FiniteSource
    <3>5. QED
      BY <3>3, <3>4, FS_Subset
  <2> HIDE DEF records
  <2>5. \A r \in records : r.at \in Int /\ r.index \in Int
    BY <2>1, <2>2, <2>3
  <2>6. \A r, s \in records : r.print = s.print => r = s
    BY <2>1, <2>2 DEF IsState, Unrepeated
  <2>7. \A r, s \in records : r.index = s.index => r = s
    BY <2>1, <2>2
  <2>8. {r.print : r \in records} = {e.print : e \in Range(status.seen)} \ {Compactor!Empty}
    <3>1. ASSUME NEW r \in records
          PROVE  r.print \in {e.print : e \in Range(status.seen)} \ {Compactor!Empty}
      BY <2>1, <2>2 DEF Range
    <3>2. ASSUME NEW e \in Range(status.seen), e.print # Compactor!Empty
          PROVE  e.print \in {r.print : r \in records}
      <4>1. PICK i \in DOMAIN status.seen : e = status.seen[i]
        BY DEF Range
      <4>2. i \in Printed(status)
        BY <3>2, <4>1 DEF Printed
      <4>3. rec(i) \in records /\ rec(i).print = e.print
        BY <2>1, <2>2, <4>1, <4>2
      <4>4. QED
        BY <4>3
    <3>3. QED
      BY <3>1, <3>2
  <2>9. \A r \in records : \E i \in Printed(status) : r = RecordOf(status, log, i)
    BY <2>1 DEF rec
  <2>10. QED
    BY <2>4, <2>5, <2>6, <2>7, <2>8, <2>9 DEF records
<1>4. QED
  BY <1>2, <1>3

LEMMA CompactorCounts == ASSUME NEW S PROVE Compactor!Cardinality(S) = Cardinality(S)
BY Zenon DEF Cardinality, Compactor!Cardinality, IsFiniteSet, Compactor!IsFiniteSet

\* One record is the newest.
LEMMA NewestRecord ==
  ASSUME NEW records, IsFiniteSet(records), records # {},
         \A r \in records : r.at \in Int /\ r.index \in Int
  PROVE  \E r \in records : Compactor!NewerThan(r, records) = 0
<1> DEFINE above == {p \in records \X records : Compactor!Newer(p[1], p[2])}
<1>1. above \in SUBSET (records \X records)
  OBVIOUS
<1>2. \A r, s \in records : <<r, s>> \in above <=> Compactor!Newer(r, s)
  OBVIOUS
<1>3. \A r \in records : ~Compactor!Newer(r, r)
  BY DEF Compactor!Newer
<1>4. ASSUME NEW r \in records, NEW s \in records, NEW t \in records,
             Compactor!Newer(r, s), Compactor!Newer(s, t)
      PROVE  Compactor!Newer(r, t)
  BY <1>4 DEF Compactor!Newer
<1> HIDE DEF above
<1>5. PICK top \in records : \A r \in records : <<r, top>> \notin above
  BY SMTT(30), <1>1, <1>2, <1>3, <1>4, SomeIsTop
<1>6. {s \in records : Compactor!Newer(s, top)} = {}
  BY <1>2, <1>5
<1>7. Compactor!NewerThan(top, records) = Cardinality({s \in records : Compactor!Newer(s, top)})
  BY CompactorCounts, Zenon DEF Compactor!NewerThan
<1>8. QED
  BY <1>6, <1>7, FS_EmptySet

\* What goes is out of the policy, and is not the one record that stays whatever the policy says.
LEMMA SplitIs ==
  ASSUME NEW status, IsState(status), NEW log, IsLog(log), NEW count, NEW age, NEW now
  PROVE  LET records == Compactor!Timed(status, log)
             plan == Compactor!CompactionPlan(status, log, count, age, now)
             all == {e.print : e \in Range(status.seen)} \ {Compactor!Empty}
         IN  /\ plan.keep \cup plan.drop = all
             /\ plan.keep \cap plan.drop = {}
             /\ all # {} => plan.keep # {}
             /\ \A p \in plan.drop : \E r \in records :
                  r.print = p /\ Compactor!OutsidePolicy(r, records, count, age, now)
<1> DEFINE records == Compactor!Timed(status, log)
           plan == Compactor!CompactionPlan(status, log, count, age, now)
           out == {r \in records : Compactor!OutsidePolicy(r, records, count, age, now)}
           newest == {r.print : r \in {s \in records : Compactor!NewerThan(s, records) = 0}}
           rescued == IF out = records THEN newest ELSE {}
           Prints(rs) == {r.print : r \in rs}
           all == {e.print : e \in Range(status.seen)} \ {Compactor!Empty}
<1>1. /\ plan.keep = Prints(records \ out) \cup rescued
      /\ plan.drop = Prints(out) \ rescued
  <2>1. /\ plan.keep = Compactor!Split(records, count, age, now).keep
        /\ plan.drop = Compactor!Split(records, count, age, now).drop
    BY DEF Compactor!CompactionPlan
  <2>2. Compactor!Split(records, count, age, now) =
          [keep |-> Prints(records \ out) \cup rescued, drop |-> Prints(out) \ rescued]
    BY Zenon DEF Compactor!Split
  <2> HIDE DEF records, plan, out, rescued
  <2>3. QED
    BY <2>1, <2>2
<1>2. /\ IsFiniteSet(records)
      /\ \A r \in records : r.at \in Int /\ r.index \in Int
      /\ \A r, s \in records : r.print = s.print => r = s
      /\ Prints(records) = all
  BY RecordsAre
<1>3. records # {} => newest # {}
  <2> HIDE DEF records
  <2>1. QED
    BY <1>2, NewestRecord
<1>4. newest \subseteq Prints(records) /\ out \subseteq records
  OBVIOUS
<1> HIDE DEF records, plan, newest, all
<1>5. \A p \in plan.drop : \E r \in records :
        r.print = p /\ Compactor!OutsidePolicy(r, records, count, age, now)
  BY <1>1
<1> HIDE DEF out
<1>6. plan.keep \cup plan.drop = all
  BY <1>1, <1>2, <1>4
<1>7. plan.keep \cap plan.drop = {}
  BY <1>1, <1>2, <1>4
<1>8. all # {} => plan.keep # {}
  <2>1. CASE out = records
    BY <1>1, <1>2, <1>3, <2>1
  <2>2. CASE out # records
    <3>1. PICK r \in records : r \notin out
      BY <1>4, <2>2
    <3>2. r.print \in Prints(records \ out)
      BY <3>1
    <3>3. QED
      BY <1>1, <3>2
  <2>3. QED
    BY <2>1, <2>2
<1>9. QED
  BY <1>5, <1>6, <1>7, <1>8 DEF records, plan, all

\* The plan for seen_fingerprints, for every state, log and policy: what goes was last seen
\* before the limit on the age, one stays, and without a limit all do.
THEOREM PlanForgetsTheOld ==
  ASSUME NEW status, IsState(status), NEW log, IsLog(log), NEW count, NEW age, NEW now \in Int,
         age \in Int
  PROVE  LET plan == Compactor!CompactionPlan(status, log, count, age, now)
             all == {e.print : e \in Range(status.seen)} \ {Compactor!Empty}
         IN  /\ plan.keep \cup plan.drop = all /\ plan.keep \cap plan.drop = {}
             /\ all # {} => plan.keep # {}
             /\ age # Unknown =>
                  \A e \in Range(status.seen) : e.print \in plan.drop =>
                    AtOf(e, log) # {} /\ \A t \in AtOf(e, log) : t < now - age
             /\ age = Unknown /\ count = Unknown => plan.drop = {}
             /\ status.reading # "ok" => plan.drop = {}
<1> DEFINE records == Compactor!Timed(status, log)
           plan == Compactor!CompactionPlan(status, log, count, age, now)
           all == {e.print : e \in Range(status.seen)} \ {Compactor!Empty}
<1>1. /\ plan.keep \cup plan.drop = all
      /\ plan.keep \cap plan.drop = {}
      /\ all # {} => plan.keep # {}
      /\ \A p \in plan.drop : \E r \in records :
           r.print = p /\ Compactor!OutsidePolicy(r, records, count, age, now)
  BY SplitIs
<1>2. ASSUME age # Unknown, NEW e \in Range(status.seen), e.print \in plan.drop
      PROVE  AtOf(e, log) # {} /\ \A t \in AtOf(e, log) : t < now - age
  <2>1. PICK r \in records :
          r.print = e.print /\ Compactor!OutsidePolicy(r, records, count, age, now)
    BY <1>1, <1>2
  <2>2. r.at # Compactor!None /\ r.at < now - age
    BY <1>2, <2>1 DEF Compactor!OutsidePolicy, Unknown
  <2>3. PICK i \in Printed(status) : r = RecordOf(status, log, i)
    BY RecordsAre
  <2>4. status.seen[i] = e
    <3>1. i \in DOMAIN status.seen /\ status.seen[i].print = e.print
      BY <2>1, <2>3 DEF Printed, RecordOf
    <3>2. QED
      BY <3>1 DEF IsState, Unrepeated, Range
  <2>5. r.at = IF e.at # Compactor!None THEN e.at ELSE Compactor!EventTime(log, e.print)
    BY <2>3, <2>4 DEF RecordOf
  <2>6. r.at \in Int
    BY RecordsAre
  <2>7. CASE e.at # Unknown
    BY <2>2, <2>5, <2>7 DEF AtOf, Unknown
  <2>8. CASE e.at = Unknown
    <3> DEFINE times == {x.at : x \in {y \in Range(log) : ~y.torn /\ y.print = e.print}}
                          \ {Compactor!None}
               latest == Compactor!EventTime(log, e.print)
    <3>1. /\ times \in SUBSET Int
          /\ times = {} => latest = Compactor!None
          /\ times # {} => latest \in times /\ \A t \in times : t <= latest
      BY LoggedIs
    <3>2. AtOf(e, log) = times
      BY <2>8, Zenon DEF AtOf, Unknown
    <3>3. r.at = latest
      BY <2>5, <2>8 DEF Unknown
    <3> HIDE DEF times, latest
    <3>4. times # {}
      BY <2>2, <3>1, <3>3
    <3>5. \A t \in times : t \in Int /\ t <= r.at
      BY <3>1, <3>3, <3>4
    <3>6. QED
      BY <2>2, <2>6, <3>2, <3>4, <3>5
  <2>9. QED
    BY <2>7, <2>8
<1>3. ASSUME age = Unknown, count = Unknown PROVE plan.drop = {}
  <2> HIDE DEF records, plan
  <2>1. QED
    BY <1>1, <1>3 DEF Compactor!OutsidePolicy, Unknown
<1>4. ASSUME status.reading # "ok" PROVE plan.drop = {}
  <2>1. Range(status.seen) = {}
    BY <1>4 DEF IsState, Range
  <2>2. all = {}
    BY <2>1
  <2> HIDE DEF all, plan
  <2>3. QED
    BY <1>1, <2>2
<1> HIDE DEF records, plan, all
<1>5. QED
  BY <1>1, <1>2, <1>3, <1>4 DEF plan, all

LEMMA SequencesAre ==
  ASSUME NEW S, NEW n \in Nat, NEW s \in BoundedSeq(S, n)
  PROVE  s \in Seq(S)
BY DEF BoundedSeq, SeqOf

LEMMA StatesAre == ASSUME NEW status \in Statuses PROVE IsState(status)
<1>1. CASE \E seen \in {s \in BoundedSeq(Entries, MaxHistory) : Unrepeated(s)} :
             status = [reading |-> "ok", seen |-> seen]
  <2>1. PICK seen \in BoundedSeq(Entries, MaxHistory) :
          Unrepeated(seen) /\ status = [reading |-> "ok", seen |-> seen]
    BY <1>1
  <2>2. seen \in Seq(Entries)
    BY BoundsAssumption, SequencesAre
  <2>3. \A e \in Entries : e.at \in Int
    BY DEF Entries, Unknown, Compactor!None
  <2>4. status.seen = seen /\ status.reading = "ok"
    BY <2>1
  <2>5. QED
    BY <2>1, <2>2, <2>3, <2>4 DEF IsState
<1>2. CASE \E r \in {"missing", "empty", "invalid", "not_list"} :
             status = [reading |-> r, seen |-> <<>>]
  <2>1. status.seen = <<>>
    BY <1>2
  <2>2. status.seen \in Seq({})
    BY <2>1
  <2>3. DOMAIN status.seen = {}
    BY <2>1
  <2>4. QED
    BY <2>1, <2>2, <2>3 DEF IsState, Unrepeated
<1>3. QED
  BY <1>1, <1>2 DEF Statuses

LEMMA LogsAre == ASSUME NEW log \in Logs PROVE IsLog(log)
<1> DEFINE lines == {[torn |-> FALSE, print |-> "a", at |-> t] : t \in {Unknown, 2, 4}}
                      \cup {[torn |-> TRUE]}
<1>1. log \in Seq(lines)
  BY SequencesAre DEF Logs
<1>2. \A line \in lines : ~line.torn => line.at \in Int
  BY DEF Unknown, Compactor!None
<1> HIDE DEF lines
<1>3. QED
  BY <1>1, <1>2 DEF IsLog

-----------------------------------------------------------------------------
(***************************************************************************)
(* The report index.                                                       *)
(***************************************************************************)
\* Records with a time, and ids that a rank tells apart.
IsIndex(index, rank) ==
  /\ \E S : index \in Seq(S)
  /\ \A i \in DOMAIN index : index[i].at \in Int /\ rank[Compactor!ReportId(index[i])] \in Int
  /\ \A i, j \in DOMAIN index :
       rank[Compactor!ReportId(index[i])] = rank[Compactor!ReportId(index[j])] =>
         Compactor!ReportId(index[i]) = Compactor!ReportId(index[j])

\* The record at k is the last of its report.
IsLast(index, k) ==
  \A j \in DOMAIN index : Compactor!ReportId(index[j]) = Compactor!ReportId(index[k]) => j <= k

LEMMA LastOfIs ==
  ASSUME NEW S, NEW index \in Seq(S), NEW i \in DOMAIN index
  PROVE  \E k \in DOMAIN index :
           /\ Compactor!LastOf(index, Compactor!ReportId(index[i])) = index[k]
           /\ Compactor!ReportId(index[k]) = Compactor!ReportId(index[i])
           /\ IsLast(index, k)
<1> DEFINE id == Compactor!ReportId(index[i])
           same == {k \in DOMAIN index : Compactor!ReportId(index[k]) = id}
           P(k) == Compactor!ReportId(index[k]) = id
                   /\ \A j \in DOMAIN index : Compactor!ReportId(index[j]) = id => j <= k
<1>1. DOMAIN index = 1..Len(index) /\ Len(index) \in Nat
  OBVIOUS
<1>2. IsFiniteSet(DOMAIN index) /\ same \in SUBSET (DOMAIN index)
  BY <1>1, FS_Interval
<1>3. IsFiniteSet(same) /\ same \in SUBSET Int /\ same # {}
  BY <1>1, <1>2, FS_Subset
<1>4. \E m \in same : \A n \in same : n <= m
  BY <1>3, SomeIsLargest
<1>5. \E k \in DOMAIN index : P(k)
  BY <1>4
<1> HIDE DEF P, id
<1> DEFINE k == CHOOSE k \in DOMAIN index : P(k)
<1>6. k \in DOMAIN index /\ P(k)
  BY <1>5
<1>7. Compactor!LastOf(index, id) = index[k]
  BY DEF Compactor!LastOf, P
<1> HIDE DEF k
<1>8. QED
  BY <1>6, <1>7 DEF P, id, IsLast

\* The latest records are the last of their reports.
LEMMA LatestIs ==
  ASSUME NEW S, NEW index \in Seq(S)
  PROVE  /\ Compactor!Latest(index) = {index[k] : k \in {j \in DOMAIN index : IsLast(index, j)}}
         /\ \A i \in DOMAIN index : \E k \in DOMAIN index :
              IsLast(index, k) /\ Compactor!ReportId(index[k]) = Compactor!ReportId(index[i])
<1> DEFINE lasts == {index[k] : k \in {j \in DOMAIN index : IsLast(index, j)}}
<1>1. DOMAIN index = 1..Len(index) /\ Len(index) \in Nat
  OBVIOUS
<1>2. ASSUME NEW x, x \in Compactor!Latest(index) PROVE x \in lasts
  <2>1. PICK r \in Range(index) : x = Compactor!LastOf(index, Compactor!ReportId(r))
    BY <1>2, Zenon DEF Compactor!Latest, Compactor!Range, Range
  <2>2. PICK i \in DOMAIN index : r = index[i]
    BY DEF Range
  <2>3. PICK k \in DOMAIN index :
          Compactor!LastOf(index, Compactor!ReportId(index[i])) = index[k] /\ IsLast(index, k)
    BY LastOfIs
  <2>4. QED
    BY <2>1, <2>2, <2>3
<1>3. ASSUME NEW k \in DOMAIN index, IsLast(index, k) PROVE index[k] \in Compactor!Latest(index)
  <2>1. PICK l \in DOMAIN index :
          /\ Compactor!LastOf(index, Compactor!ReportId(index[k])) = index[l]
          /\ Compactor!ReportId(index[l]) = Compactor!ReportId(index[k])
          /\ IsLast(index, l)
    BY LastOfIs
  <2>2. k <= l /\ l <= k
    BY <1>3, <2>1 DEF IsLast
  <2>3. k = l
    BY <1>1, <2>2
  <2>4. index[k] \in Range(index)
    BY DEF Range
  <2>5. QED
    BY <2>1, <2>3, <2>4, Zenon DEF Compactor!Latest, Compactor!Range, Range
<1>4. \A i \in DOMAIN index : \E k \in DOMAIN index :
        IsLast(index, k) /\ Compactor!ReportId(index[k]) = Compactor!ReportId(index[i])
  BY LastOfIs
<1>5. \A x \in lasts : x \in Compactor!Latest(index)
  BY <1>3
<1> HIDE DEF lasts
<1>6. Compactor!Latest(index) = lasts
  BY <1>2, <1>5
<1>7. QED
  BY <1>4, <1>6 DEF lasts

\* Of every report there is one latest record, and there are finitely many.
LEMMA LatestAreFew ==
  ASSUME NEW S, NEW index \in Seq(S)
  PROVE  /\ IsFiniteSet(Compactor!Latest(index))
         /\ \A x, y \in Compactor!Latest(index) :
              Compactor!ReportId(x) = Compactor!ReportId(y) => x = y
         /\ \A x \in Compactor!Latest(index) : \E i \in DOMAIN index : x = index[i]
<1> DEFINE last == {j \in DOMAIN index : IsLast(index, j)}
           all == {index[k] : k \in last}
<1>1. DOMAIN index = 1..Len(index) /\ Len(index) \in Nat
  OBVIOUS
<1>2. IsFiniteSet(last)
  <2>1. IsFiniteSet(DOMAIN index) /\ last \in SUBSET (DOMAIN index)
    BY <1>1, FS_Interval
  <2>2. QED
    BY <2>1, FS_Subset
<1>3. \A k \in last : k \in Int /\ k \in DOMAIN index
  BY <1>1
<1>4. \A j, k \in last : Compactor!ReportId(index[j]) = Compactor!ReportId(index[k]) => j = k
  BY <1>3 DEF IsLast
<1>5. IsFiniteSet(all)
  <2> DEFINE at == [k \in last |-> index[k]]
  <2>1. at \in Surjection(last, all)
    BY DEF Surjection
  <2>2. QED
    BY <1>2, <2>1, FS_Surjection
<1>6. Compactor!Latest(index) = all
  BY LatestIs
<1> HIDE DEF last
<1>7. \A x, y \in all : Compactor!ReportId(x) = Compactor!ReportId(y) => x = y
  BY <1>4
<1>8. \A x \in all : \E i \in DOMAIN index : x = index[i]
  BY <1>3
<1> HIDE DEF all
<1>9. QED
  BY <1>5, <1>6, <1>7, <1>8

\* The order of the reports that are listed.
LaterPairs(S, rank) == {p \in S \X S : Compactor!Later(rank, p[1], p[2])}

LEMMA ReportsAreLatest ==
  ASSUME NEW index, NEW rank, IsIndex(index, rank)
  PROVE  LET reports == Compactor!Reports(index, rank)
             latest == Compactor!Latest(index)
         IN  /\ reports \in Seq(latest)
             /\ \A x \in latest : \E i \in DOMAIN reports : reports[i] = x
             /\ \A i, j \in DOMAIN reports : reports[i] = reports[j] => i = j
<1> DEFINE latest == Compactor!Latest(index)
           reports == Compactor!Reports(index, rank)
           n == 1..Cardinality(latest)
           id(r) == Compactor!ReportId(r)
           above == LaterPairs(latest, rank)
<1>1. PICK S : index \in Seq(S)
  BY DEF IsIndex
<1>2. /\ IsFiniteSet(latest)
      /\ \A x, y \in latest : id(x) = id(y) => x = y
      /\ \A x \in latest : \E i \in DOMAIN index : x = index[i]
  BY <1>1, LatestAreFew
<1>3. \A x \in latest : x.at \in Int /\ rank[id(x)] \in Int
  <2> HIDE DEF latest
  <2>1. QED
    BY <1>2 DEF IsIndex
<1>4. \A x, y \in latest : rank[id(x)] = rank[id(y)] => x = y
  <2> HIDE DEF latest
  <2>1. TAKE x \in latest, y \in latest
  <2>2. PICK i \in DOMAIN index : x = index[i]
    BY <1>2
  <2>3. PICK j \in DOMAIN index : y = index[j]
    BY <1>2
  <2>4. rank[id(x)] = rank[id(y)] => id(x) = id(y)
    BY <2>2, <2>3 DEF IsIndex
  <2>5. QED
    BY <1>2, <2>4
<1>5. \A x, y \in latest : <<x, y>> \in above <=>
        x.at > y.at \/ (x.at = y.at /\ rank[id(x)] > rank[id(y)])
  <2> HIDE DEF latest
  <2>1. QED
    BY DEF LaterPairs, Compactor!Later
<1>6. above \in SUBSET (latest \X latest)
  BY DEF LaterPairs
<1> HIDE DEF latest, above, id
<1>7. Strict(latest, above)
  BY <1>3, <1>5, <1>6 DEF Strict
<1>8. \A x, y \in latest : x = y \/ <<x, y>> \in above \/ <<y, x>> \in above
  <2>1. SUFFICES ASSUME NEW x \in latest, NEW y \in latest
                 PROVE  x = y \/ <<x, y>> \in above \/ <<y, x>> \in above
    BY Zenon
  <2>2. /\ x.at \in Int /\ rank[id(x)] \in Int
        /\ y.at \in Int /\ rank[id(y)] \in Int
    BY <1>3
  <2>3. \/ x.at > y.at \/ y.at > x.at
        \/ x.at = y.at /\ (\/ rank[id(x)] > rank[id(y)] \/ rank[id(y)] > rank[id(x)]
                           \/ rank[id(x)] = rank[id(y)])
    BY <2>2
  <2>4. CASE x.at > y.at \/ (x.at = y.at /\ rank[id(x)] > rank[id(y)])
    BY <1>5, <2>4
  <2>5. CASE y.at > x.at \/ (x.at = y.at /\ rank[id(y)] > rank[id(x)])
    BY <1>5, <2>5
  <2>6. CASE rank[id(x)] = rank[id(y)]
    BY <1>4, <2>6
  <2>7. QED
    BY <2>3, <2>4, <2>5, <2>6
<1>9. \E s : Sorting(s, latest, above)
  BY <1>2, <1>7, <1>8, SortingExists
<1> DEFINE P(s) == \A i, j \in n : i < j => Compactor!Later(rank, s[i], s[j])
<1>10. ASSUME NEW s \in [n -> latest]
       PROVE  P(s) <=> Sorting(s, latest, above)
  <2>1. \A i, j \in n : Compactor!Later(rank, s[i], s[j]) <=> <<s[i], s[j]>> \in above
    BY <1>5 DEF Compactor!Later, id
  <2>2. QED
    BY <2>1 DEF Sorting
<1>11. \E s \in [n -> latest] : P(s)
  BY <1>9, <1>10 DEF Sorting
<1>12. reports = CHOOSE s \in [n -> latest] : P(s)
  BY Zenon DEF Compactor!Reports, Compactor!NewestFirst, Compactor!Cardinality, Cardinality, latest
<1> HIDE DEF P, reports
<1>13. reports \in [n -> latest] /\ P(reports)
  BY <1>11, <1>12
<1>14. Sorting(reports, latest, above)
  BY <1>10, <1>13
<1>15. /\ reports \in Seq(latest)
       /\ \A x \in latest : \E i \in 1..Len(reports) : reports[i] = x
       /\ \A i, j \in 1..Len(reports) : reports[i] = reports[j] => i = j
  BY <1>2, <1>7, <1>14, SortingIsFull
<1>16. DOMAIN reports = 1..Len(reports)
  BY <1>15
<1>17. QED
  BY <1>15, <1>16 DEF reports, latest

\* Compacting and then listing, and compacting and then registering, see the same records.
LEMMA CompactedHasLatest ==
  ASSUME NEW index, NEW rank, IsIndex(index, rank)
  PROVE  LET compacted == Compactor!Compacted(index, rank)
         IN  /\ compacted \in Seq(Compactor!Latest(index))
             /\ Compactor!Latest(compacted) = Compactor!Latest(index)
<1> DEFINE latest == Compactor!Latest(index)
           reports == Compactor!Reports(index, rank)
           compacted == Compactor!Compacted(index, rank)
<1>1. /\ reports \in Seq(latest)
      /\ \A x \in latest : \E i \in DOMAIN reports : reports[i] = x
      /\ \A i, j \in DOMAIN reports : reports[i] = reports[j] => i = j
  BY ReportsAreLatest
<1>2. compacted = [i \in 1..Len(reports) |-> reports[(Len(reports) - i) + 1]]
  BY DEF Compactor!Compacted, Compactor!Reverse
<1>3. PICK S : index \in Seq(S)
  BY DEF IsIndex
<1>4. \A x, y \in latest : Compactor!ReportId(x) = Compactor!ReportId(y) => x = y
  BY <1>3, LatestAreFew
<1> HIDE DEF latest, reports, compacted
<1>5. Len(reports) \in Nat /\ DOMAIN reports = 1..Len(reports)
  BY <1>1
<1>6. \A i \in 1..Len(reports) : (Len(reports) - i) + 1 \in DOMAIN reports
  BY <1>5
<1>7. \A i \in DOMAIN reports : reports[i] \in latest
  BY <1>1
<1>8. DOMAIN compacted = 1..Len(reports) /\ \A i \in 1..Len(reports) : compacted[i] \in latest
  BY <1>2, <1>6, <1>7
<1>9. compacted \in Seq(latest) /\ Len(compacted) = Len(reports)
  <2>1. compacted \in [1..Len(reports) -> latest]
    BY <1>2, <1>8
  <2>2. QED
    BY <1>5, <2>1
<1>10. ASSUME NEW j \in DOMAIN compacted PROVE IsLast(compacted, j)
  <2>1. SUFFICES ASSUME NEW k \in DOMAIN compacted,
                        Compactor!ReportId(compacted[k]) = Compactor!ReportId(compacted[j])
                 PROVE  k <= j
    BY DEF IsLast
  <2>2. compacted[k] = compacted[j]
    BY <1>4, <1>8, <2>1
  <2>3. (Len(reports) - k) + 1 = (Len(reports) - j) + 1
    BY <1>1, <1>2, <1>6, <1>8, <2>2
  <2>4. QED
    BY <1>5, <1>8, <2>3
<1>11. \A x \in latest : \E i \in DOMAIN compacted : compacted[i] = x
  <2>1. TAKE x \in latest
  <2>2. PICK i \in DOMAIN reports : reports[i] = x
    BY <1>1
  <2>3. (Len(reports) - i) + 1 \in 1..Len(reports)
        /\ (Len(reports) - ((Len(reports) - i) + 1)) + 1 = i
    BY <1>5
  <2>4. QED
    BY <1>2, <1>8, <2>2, <2>3
<1>12. Compactor!Latest(compacted) =
         {compacted[k] : k \in {j \in DOMAIN compacted : IsLast(compacted, j)}}
  BY <1>9, LatestIs
<1>13. Compactor!Latest(compacted) = latest
  BY <1>8, <1>10, <1>11, <1>12
<1>14. QED
  BY <1>9, <1>13 DEF latest, compacted

\* A report that is registered takes the place of its earlier record.
LEMMA LatestAfter ==
  ASSUME NEW S, NEW index \in Seq(S), NEW report
  PROVE  LET new == Compactor!Stored(report)
             id == Compactor!ReportId(new)
         IN  Compactor!Latest(Compactor!Register(index, report)) =
               {r \in Compactor!Latest(index) : Compactor!ReportId(r) # id} \cup {new}
<1> DEFINE new == Compactor!Stored(report)
           id == Compactor!ReportId(new)
           more == Append(index, new)
           lasts == {j \in DOMAIN index : IsLast(index, j)}
<1>1. Compactor!Register(index, report) = more
  BY DEF Compactor!Register
<1> HIDE DEF new
<1>2. /\ more \in Seq(S \cup {new})
      /\ DOMAIN more = DOMAIN index \cup {Len(index) + 1}
      /\ Len(index) + 1 \notin DOMAIN index
      /\ \A i \in DOMAIN index : more[i] = index[i] /\ i <= Len(index) /\ i \in Int
      /\ more[Len(index) + 1] = new
      /\ Len(index) \in Nat
  OBVIOUS
<1> DEFINE end == Len(index) + 1
<1> HIDE DEF more, id
<1>3. IsLast(more, end)
  BY <1>2 DEF IsLast
<1>4. \A k \in DOMAIN index :
        IsLast(more, k) <=> IsLast(index, k) /\ Compactor!ReportId(index[k]) # id
  <2>1. TAKE k \in DOMAIN index
  <2>2. IsLast(more, k) => IsLast(index, k) /\ Compactor!ReportId(index[k]) # id
    BY <1>2 DEF IsLast, id
  <2>3. IsLast(index, k) /\ Compactor!ReportId(index[k]) # id => IsLast(more, k)
    BY <1>2 DEF IsLast, id
  <2>4. QED
    BY <2>2, <2>3
<1>5. Compactor!Latest(more) = {more[k] : k \in {j \in DOMAIN more : IsLast(more, j)}}
  BY <1>2, LatestIs
<1>6. Compactor!Latest(index) = {index[k] : k \in lasts}
  BY LatestIs
<1> DEFINE after == {r \in Compactor!Latest(index) : Compactor!ReportId(r) # id} \cup {new}
<1>7. ASSUME NEW x \in Compactor!Latest(more) PROVE x \in after
  <2>1. PICK k \in DOMAIN more : IsLast(more, k) /\ x = more[k]
    BY <1>5
  <2>2. CASE k = end
    BY <1>2, <2>1, <2>2
  <2>3. CASE k \in DOMAIN index
    BY <1>2, <1>4, <1>6, <2>1, <2>3
  <2>4. QED
    BY <1>2, <2>1, <2>2, <2>3
<1>8. ASSUME NEW x \in after PROVE x \in Compactor!Latest(more)
  <2>1. CASE x = new
    BY <1>2, <1>3, <1>5, <2>1
  <2>2. CASE x \in Compactor!Latest(index) /\ Compactor!ReportId(x) # id
    <3>1. PICK k \in DOMAIN index : IsLast(index, k) /\ x = index[k]
      BY <1>6, <2>2
    <3>2. IsLast(more, k) /\ x = more[k] /\ k \in DOMAIN more
      BY <1>2, <1>4, <2>2, <3>1
    <3>3. QED
      BY <1>5, <3>2
  <2>3. QED
    BY <2>1, <2>2
<1>9. Compactor!Latest(more) = after
  BY <1>7, <1>8
<1>10. QED
  BY <1>1, <1>9 DEF new, id

(***************************************************************************)
(* For every index of reports: compacting it changes no list of reports,   *)
(* also after another report is registered, however its times and records  *)
(* that replace others are ordered.                                        *)
(***************************************************************************)
THEOREM CompactedIndexStays ==
  ASSUME NEW index, NEW rank, IsIndex(index, rank), NEW report, NEW print
  PROVE  LET compacted == Compactor!Compacted(index, rank)
             more(rows) == Compactor!Register(rows, report)
         IN  /\ Compactor!Reports(compacted, rank) = Compactor!Reports(index, rank)
             /\ Compactor!Reports(more(compacted), rank) = Compactor!Reports(more(index), rank)
             /\ Compactor!GroupedForEvent(compacted, rank, print) =
                  Compactor!GroupedForEvent(index, rank, print)
<1> DEFINE compacted == Compactor!Compacted(index, rank)
           more(rows) == Compactor!Register(rows, report)
<1>1. compacted \in Seq(Compactor!Latest(index))
      /\ Compactor!Latest(compacted) = Compactor!Latest(index)
  BY CompactedHasLatest
<1>2. PICK S : index \in Seq(S)
  BY DEF IsIndex
<1> HIDE DEF compacted
<1>3. Compactor!Latest(more(compacted)) = Compactor!Latest(more(index))
  BY <1>1, <1>2, LatestAfter
<1>4. Compactor!Reports(compacted, rank) = Compactor!Reports(index, rank)
  BY <1>1 DEF Compactor!Reports
<1>5. Compactor!Reports(more(compacted), rank) = Compactor!Reports(more(index), rank)
  BY <1>3 DEF Compactor!Reports
<1>6. Compactor!GroupedForEvent(compacted, rank, print) =
        Compactor!GroupedForEvent(index, rank, print)
  BY <1>4 DEF Compactor!GroupedForEvent
<1>7. QED
  BY <1>4, <1>5, <1>6 DEF compacted

\* Different ids have different ranks.
LEMMA OrderTellsApart ==
  ASSUME NEW r \in {Compactor!Stored(x) : x \in IndexRecords},
         NEW s \in {Compactor!Stored(x) : x \in IndexRecords}
  PROVE  /\ r.at \in Int /\ Order[Compactor!ReportId(r)] \in Int
         /\ Order[Compactor!ReportId(r)] = Order[Compactor!ReportId(s)] =>
              Compactor!ReportId(r) = Compactor!ReportId(s)
<1> DEFINE Id(p, j) == <<p, "event_report", "a", "gpu_oom", j>>
           Nr(p, j) == (IF p = "x" THEN 0 ELSE 1) + (IF j = "none" THEN 0 ELSE 2)
<1>1. ASSUME NEW x \in IndexRecords
      PROVE  \E p \in {"x", "y"}, j \in {"none", "job1"}, at \in {1, 2} :
               /\ Compactor!Stored(x).at = at
               /\ Compactor!ReportId(Compactor!Stored(x)) = Id(p, j)
               /\ Order[Id(p, j)] = Nr(p, j)
  <2>1. PICK p \in {"x", "y"}, t \in {"event_report", "draft"}, j \in {"none", "job1"}, at \in {1, 2} :
          x = [path |-> p, type |-> t, print |-> "a", event |-> "gpu_oom", job |-> j, at |-> at]
    BY DEF IndexRecords
  <2>2. /\ Compactor!Stored(x).at = at /\ Compactor!Stored(x).path = p
        /\ Compactor!Stored(x).type = "event_report" /\ Compactor!Stored(x).print = "a"
        /\ Compactor!Stored(x).event = "gpu_oom" /\ Compactor!Stored(x).job = j
    BY <2>1 DEF Compactor!Stored, Compactor!ReportTypes
  <2>3. Compactor!ReportId(Compactor!Stored(x)) = Id(p, j)
    BY <2>2 DEF Compactor!ReportId
  <2>4. Id(p, j) \in {Compactor!ReportId(Compactor!Stored(r0)) : r0 \in IndexRecords}
    BY <2>3
  <2>5. Order[Id(p, j)] = Nr(p, j)
    BY <2>4 DEF Order
  <2>6. QED
    BY <2>2, <2>3, <2>5
<1>2. PICK p \in {"x", "y"}, j \in {"none", "job1"}, at \in {1, 2} :
        r.at = at /\ Compactor!ReportId(r) = Id(p, j) /\ Order[Id(p, j)] = Nr(p, j)
  BY <1>1
<1>3. PICK q \in {"x", "y"}, k \in {"none", "job1"} :
        Compactor!ReportId(s) = Id(q, k) /\ Order[Id(q, k)] = Nr(q, k)
  BY <1>1
<1>4. Nr(p, j) = Nr(q, k) => p = q /\ j = k
  OBVIOUS
<1>5. Nr(p, j) \in Int /\ at \in Int
  OBVIOUS
<1> HIDE DEF Nr, Id
<1>6. QED
  BY <1>2, <1>3, <1>4, <1>5

LEMMA RowsAreIndexes ==
  ASSUME NEW rows \in BoundedSeq({Compactor!Stored(r) : r \in IndexRecords}, 2)
  PROVE  IsIndex(rows, Order)
<1> DEFINE stored == {Compactor!Stored(r) : r \in IndexRecords}
<1>1. rows \in Seq(stored)
  BY SequencesAre
<1>2. \A r, s \in stored :
        /\ r.at \in Int /\ Order[Compactor!ReportId(r)] \in Int
        /\ Order[Compactor!ReportId(r)] = Order[Compactor!ReportId(s)] =>
             Compactor!ReportId(r) = Compactor!ReportId(s)
  BY OrderTellsApart
<1> HIDE DEF stored
<1>3. \A i \in DOMAIN rows : rows[i] \in stored
  BY <1>1
<1>4. QED
  BY <1>1, <1>2, <1>3 DEF IsIndex

\* CompactionKeeps: no call forgets a fingerprint it should not, or changes what is reported.
THEOREM CompactionIsSafe == Spec => []CompactionKeeps
<1>1. Init => CompactionKeeps
  BY DEF Init, NotCalled, CompactionKeeps, ForgetsOnlyTheOld, CompactedIndexIsSame
<1>2. ASSUME NEW of, NEW in, NEW out, of # "compaction", of # "index", Called(of, in, out)
      PROVE  CompactionKeeps'
  <2>1. call'.of = of
    BY <1>2 DEF Called
  <2>2. QED
    BY <1>2, <2>1, Zenon DEF CompactionKeeps, ForgetsOnlyTheOld, CompactedIndexIsSame
<1>3. ASSUME CompactionKeeps, [Next]_vars
      PROVE  CompactionKeeps'
  <2>1. CASE UNCHANGED vars
    BY <1>3, <2>1, Zenon DEF vars, CompactionKeeps, ForgetsOnlyTheOld, CompactedIndexIsSame
  <2>2. CASE CompactSeen
    <3>1. PICK status \in Statuses, log \in Logs, count \in {Unknown, 0, 2}, age \in {Unknown, 2} :
            Called("compaction", [status |-> status, log |-> log, count |-> count, age |-> age],
                   Compactor!CompactionPlan(status, log, count, age, Now))
      BY <2>2 DEF CompactSeen
    <3>2. IsState(status) /\ IsLog(log)
      BY StatesAre, LogsAre
    <3>3. /\ call'.in.status = status /\ call'.in.log = log
          /\ call'.in.count = count /\ call'.in.age = age
          /\ call'.out = Compactor!CompactionPlan(status, log, count, age, Now)
      BY <3>1 DEF Called
    <3>4. age \in Int /\ Now \in Int
      BY DEF Unknown, Compactor!None, Now
    <3> DEFINE all == {e.print : e \in Range(status.seen)} \ {Compactor!Empty}
               plan == Compactor!CompactionPlan(status, log, count, age, Now)
    <3>5. /\ plan.keep \cup plan.drop = all /\ plan.keep \cap plan.drop = {}
          /\ all # {} => plan.keep # {}
          /\ age # Unknown =>
               \A e \in Range(status.seen) : e.print \in plan.drop =>
                 AtOf(e, log) # {} /\ \A t \in AtOf(e, log) : t < Now - age
          /\ age = Unknown /\ count = Unknown => plan.drop = {}
          /\ status.reading # "ok" => plan.drop = {}
      BY <3>2, <3>4, PlanForgetsTheOld
    <3>6. all = {e.print : e \in Range(call'.in.status.seen)} \ {Compactor!Empty}
      BY <3>3
    <3> HIDE DEF all, plan
    <3>7. QED
      <4>1. ForgetsOnlyTheOld'
        BY <3>3, <3>5, <3>6, Zenon DEF ForgetsOnlyTheOld, plan
      <4>2. call'.of = "compaction"
        BY <3>1 DEF Called
      <4>3. CompactedIndexIsSame'
        BY <4>2 DEF CompactedIndexIsSame
      <4>4. QED
        BY <4>1, <4>3 DEF CompactionKeeps
  <2>3. CASE CompactIndex
    <3>1. PICK rows \in BoundedSeq({Compactor!Stored(r) : r \in IndexRecords}, 2),
               more \in IndexRecords :
            Called("index", [rows |-> rows, more |-> more], Compactor!Compacted(rows, Order))
      BY <2>3 DEF CompactIndex
    <3>2. /\ call'.of = "index" /\ call'.in.rows = rows /\ call'.in.more = more
          /\ call'.out = Compactor!Compacted(rows, Order)
      BY <3>1 DEF Called
    <3>3. IsIndex(rows, Order)
      BY RowsAreIndexes
    <3> DEFINE out == Compactor!Compacted(rows, Order)
    <3>4. /\ Compactor!Reports(out, Order) = Compactor!Reports(rows, Order)
          /\ Compactor!Reports(Compactor!Register(out, more), Order) =
               Compactor!Reports(Compactor!Register(rows, more), Order)
          /\ Compactor!GroupedForEvent(out, Order, "a") =
               Compactor!GroupedForEvent(rows, Order, "a")
      BY <3>3, CompactedIndexStays
    <3> HIDE DEF out
    <3>5. CompactedIndexIsSame'
      BY <3>2, <3>4, Zenon DEF CompactedIndexIsSame, out
    <3>6. ForgetsOnlyTheOld'
      BY <3>2 DEF ForgetsOnlyTheOld
    <3>7. QED
      BY <3>5, <3>6 DEF CompactionKeeps
  <2>7. CASE Detect \/ Govern \/ Sweep
    BY <1>2, <2>7, Zenon DEF Detect, Govern, Sweep
  <2>4. CASE PlanFixes \/ ApplySafeFix
    BY <1>2, <2>4, Zenon DEF PlanFixes, ApplySafeFix
  <2>5. CASE HandleEvent
    <3>1. call'.of = "reports"
      BY <2>5 DEF HandleEvent
    <3>2. QED
      BY <3>1, Zenon DEF CompactionKeeps, ForgetsOnlyTheOld, CompactedIndexIsSame
  <2>6. QED
    BY <1>3, <2>1, <2>2, <2>3, <2>4, <2>5, <2>7 DEF Next
<1>4. QED
  BY <1>1, <1>3, PTL DEF Spec

-----------------------------------------------------------------------------
(***************************************************************************)
(* What a report says of its event, for every two sessions the event is    *)
(* handled in.                                                             *)
(***************************************************************************)
SessionWith(items, rerun, recovery, notification, path) ==
  [items |-> items, rerun |-> rerun, recovery |-> recovery, notification |-> notification,
   path |-> path]

IsSession(s) ==
  /\ \E S : s.items \in Seq(S)
  /\ s = SessionWith(s.items, s.rerun, s.recovery, s.notification, s.path)

\* What is added to the evidence from an event on: until the recovery is decided, until it is
\* executed, and with the record of it.
DecisionTrail(e) ==
  Append(Append(Append(<<>>, Reporter!Item("monitor_error_event", e.print, e.says)),
                Reporter!Item("recovery_policy", Reporter!NoPrint, {"port"})),
         Reporter!Item("r15_auto_recovery_gate", e.print, {}))

ApplyTrail(e) == Append(DecisionTrail(e), Reporter!Item("safe_apply", Reporter!NoPrint, {}))

RerunTrail(e, says) == Append(ApplyTrail(e), Reporter!Item("project_rerun", Reporter!NoPrint, says))

ExecutionTrail(e, outcome) ==
  CASE outcome = "blocked" -> DecisionTrail(e)
    [] outcome = "failed" -> ApplyTrail(e)
    [] outcome = "recovered" -> RerunTrail(e, {})
    [] outcome = "undone" -> Append(RerunTrail(e, e.says),
                                    Reporter!Item("safe_apply_rollback", Reporter!NoPrint, {}))
    [] outcome = "kept" -> RerunTrail(e, e.says)

RecoveryTrail(e, outcome, plan) ==
  Append(ExecutionTrail(e, outcome),
         Reporter!Item("auto_recovery", e.print, {"port"} \cup Reporter!PlanSays(plan)))

\* A session has these items after those of s, and what it keeps otherwise.
Extends(t, s, more) ==
  /\ IsSession(t)
  /\ \E S : more \in Seq(S)
  /\ t.items = s.items \o more
  /\ t.recovery = s.recovery /\ t.notification = s.notification

IsSequence(s) == \E S : s \in Seq(S)

LEMMA AppendIs ==
  ASSUME NEW w, NEW y, IsSequence(w)
  PROVE  IsSequence(Append(w, y))
<1>1. PICK S : w \in Seq(S)
  BY DEF IsSequence
<1>2. w \in Seq(S \cup {y}) /\ y \in S \cup {y}
  BY <1>1
<1>3. Append(w, y) \in Seq(S \cup {y})
  BY <1>2
<1>4. QED
  BY <1>3 DEF IsSequence

\* Appending to a concatenation is appending to its second part.
AppendsLast(w, v, y) == Append(w \o v, y) = w \o Append(v, y)

LEMMA AppendToConcat ==
  ASSUME NEW w, NEW v, NEW y, IsSequence(w), IsSequence(v)
  PROVE  AppendsLast(w, v, y)
<1>1. PICK S, T : w \in Seq(S) /\ v \in Seq(T)
  BY DEF IsSequence
<1> DEFINE all == S \cup T \cup {y}
<1>2. w \in Seq(all) /\ v \in Seq(all) /\ y \in all
  BY <1>1
<1> HIDE DEF all
<1>3. w \o v \in Seq(all) /\ <<y>> \in Seq(all) /\ Append(v, y) \in Seq(all)
  BY <1>2, ConcatProperties
<1>4. Append(w \o v, y) \in Seq(all) /\ w \o Append(v, y) \in Seq(all)
  BY <1>2, <1>3, ConcatProperties
<1>5. /\ Len(Append(w \o v, y)) = Len(w \o Append(v, y))
      /\ \A i \in 1..Len(Append(w \o v, y)) : Append(w \o v, y)[i] = (w \o Append(v, y))[i]
  BY <1>2, <1>3, ConcatProperties
<1>6. QED
  BY <1>3, <1>4, <1>5, SeqEqual DEF AppendsLast

LEMMA AddExtends ==
  ASSUME NEW s, IsSession(s), NEW t, NEW more, Extends(t, s, more), NEW item
  PROVE  Extends(Reporter!AddEvidence(t, item), s, Append(more, item))
<1> DEFINE u == Reporter!AddEvidence(t, item)
<1>1. t = SessionWith(t.items, t.rerun, t.recovery, t.notification, t.path)
  BY DEF Extends, IsSession
<1>2. u = SessionWith(Append(t.items, item), t.rerun, t.recovery, t.notification, t.path)
  BY <1>1 DEF Reporter!AddEvidence, SessionWith
<1>3. /\ u.items = Append(t.items, item)
      /\ u.recovery = t.recovery /\ u.notification = t.notification
      /\ u = SessionWith(u.items, u.rerun, u.recovery, u.notification, u.path)
  BY <1>2 DEF SessionWith
<1> HIDE DEF u
<1>4. IsSequence(s.items) /\ IsSequence(more)
  BY DEF Extends, IsSession, IsSequence
<1>5. Append(s.items \o more, item) = s.items \o Append(more, item)
  <2>1. AppendsLast(s.items, more, item)
    BY <1>4, AppendToConcat
  <2>2. QED
    BY <2>1 DEF AppendsLast
<1>6. t.items = s.items \o more
  BY DEF Extends
<1>7. u.items = s.items \o Append(more, item)
  BY <1>3, <1>5, <1>6
<1>8. IsSequence(Append(more, item)) /\ IsSequence(Append(t.items, item))
  <2>1. IsSequence(t.items)
    BY DEF Extends, IsSession, IsSequence
  <2>2. QED
    BY <1>4, <2>1, AppendIs
<1>9. (\E S : Append(more, item) \in Seq(S)) /\ \E S : u.items \in Seq(S)
  BY <1>3, <1>8 DEF IsSequence
<1>10. QED
  BY <1>3, <1>7, <1>9 DEF Extends, IsSession, u

LEMMA ExtendsItself ==
  ASSUME NEW s, IsSession(s)
  PROVE  Extends(s, s, <<>>)
<1>1. PICK S : s.items \in Seq(S)
  BY DEF IsSession
<1>2. s.items \o <<>> = s.items /\ <<>> \in Seq(S)
  BY <1>1
<1>3. QED
  BY <1>2 DEF Extends

\* The evidence of an event in the session, from the event on.
LEMMA ExecutedExtends ==
  ASSUME NEW s, IsSession(s), NEW e, NEW outcome \in Reporter!Outcomes
  PROVE  LET decided == Reporter!AddEvidence(
                          Reporter!AddEvidence(Reporter!AddEvent(s, e),
                            Reporter!Item("recovery_policy", Reporter!NoPrint, {"port"})),
                          Reporter!Item("r15_auto_recovery_gate", e.print, {}))
         IN  Extends(Reporter!Executed(decided, e, outcome), s, ExecutionTrail(e, outcome))
<1> DEFINE decided == Reporter!AddEvidence(
                        Reporter!AddEvidence(Reporter!AddEvent(s, e),
                          Reporter!Item("recovery_policy", Reporter!NoPrint, {"port"})),
                        Reporter!Item("r15_auto_recovery_gate", e.print, {}))
           applied == Reporter!Applied(decided)
           rerun(ok) == Reporter!Rerun(applied, ok, e)
<1>1. Extends(decided, s, DecisionTrail(e))
  BY ExtendsItself, AddExtends DEF DecisionTrail, Reporter!AddEvent
<1> HIDE DEF decided
<1>2. Extends(applied, s, ApplyTrail(e))
  BY <1>1, AddExtends DEF ApplyTrail, Reporter!Applied
<1> HIDE DEF applied
<1>3. ASSUME NEW ok \in BOOLEAN
      PROVE  Extends(rerun(ok), s, RerunTrail(e, IF ok THEN {} ELSE e.says))
  <2> DEFINE item == Reporter!Item("project_rerun", Reporter!NoPrint, IF ok THEN {} ELSE e.says)
             added == Reporter!AddEvidence(applied, item)
  <2>1. rerun(ok) = [added EXCEPT !.rerun = ok]
    BY DEF Reporter!Rerun
  <2>2. Extends(added, s, Append(ApplyTrail(e), item))
    BY <1>2, AddExtends
  <2> HIDE DEF added, item
  <2>3. rerun(ok) = SessionWith(added.items, ok, added.recovery, added.notification, added.path)
    BY <2>1, <2>2 DEF Extends, IsSession, SessionWith
  <2> HIDE DEF rerun
  <2>4. Extends(rerun(ok), s, Append(ApplyTrail(e), item))
    BY <2>2, <2>3 DEF Extends, IsSession, SessionWith
  <2>5. QED
    BY <2>4 DEF RerunTrail, item
<1> HIDE DEF rerun
<1>4. /\ Extends(rerun(TRUE), s, RerunTrail(e, {}))
      /\ Extends(rerun(FALSE), s, RerunTrail(e, e.says))
  BY <1>3
<1>5. CASE outcome = "blocked"
  BY <1>1, <1>5 DEF Reporter!Executed, ExecutionTrail, decided
<1>6. CASE outcome = "failed"
  BY <1>2, <1>6 DEF Reporter!Executed, ExecutionTrail, decided, applied
<1>7. CASE outcome = "recovered"
  BY <1>4, <1>7 DEF Reporter!Executed, ExecutionTrail, decided, applied, rerun
<1>8. CASE outcome = "kept"
  BY <1>4, <1>8 DEF Reporter!Executed, ExecutionTrail, decided, applied, rerun
<1>9. CASE outcome = "undone"
  <2>1. Extends(Reporter!RolledBack(rerun(FALSE)), s,
                Append(RerunTrail(e, e.says),
                       Reporter!Item("safe_apply_rollback", Reporter!NoPrint, {})))
    BY <1>4, AddExtends DEF Reporter!RolledBack
  <2>2. QED
    BY <1>9, <2>1 DEF Reporter!Executed, ExecutionTrail, decided, applied, rerun
<1>10. QED
  BY <1>5, <1>6, <1>7, <1>8, <1>9 DEF Reporter!Outcomes

LEMMA RecoveredExtends ==
  ASSUME NEW s, IsSession(s), NEW e, NEW outcome \in Reporter!Outcomes
  PROVE  LET t == Reporter!Recover(Reporter!AddEvent(s, e), e, outcome)
         IN  \E plan :
               /\ outcome = "blocked" => plan = <<>>
               /\ IsSession(t)
               /\ t.items = s.items \o RecoveryTrail(e, outcome, plan)
               /\ \E S : RecoveryTrail(e, outcome, plan) \in Seq(S)
               /\ t.notification = s.notification
               /\ t.recovery = [print |-> e.print, applied |-> outcome \notin {"blocked", "failed"},
                                rerun |-> outcome = "recovered", rolled |-> outcome = "undone"]
<1> DEFINE decided == Reporter!AddEvidence(
                        Reporter!AddEvidence(Reporter!AddEvent(s, e),
                          Reporter!Item("recovery_policy", Reporter!NoPrint, {"port"})),
                        Reporter!Item("r15_auto_recovery_gate", e.print, {}))
           plan == IF outcome = "blocked" THEN <<>> ELSE Reporter!FixPlan(decided)
           done == Reporter!Executed(decided, e, outcome)
           told == [print |-> e.print, applied |-> outcome \notin {"blocked", "failed"},
                    rerun |-> outcome = "recovered", rolled |-> outcome = "undone"]
           item == Reporter!Item("auto_recovery", e.print, {"port"} \cup Reporter!PlanSays(plan))
           added == Reporter!AddEvidence(done, item)
           t == Reporter!Recover(Reporter!AddEvent(s, e), e, outcome)
<1>1. Extends(done, s, ExecutionTrail(e, outcome))
  BY ExecutedExtends
<1>2. t = [added EXCEPT !.recovery = told]
  BY DEF Reporter!Recover, Reporter!RecordRecovery
<1> HIDE DEF done
<1>3. Extends(added, s, RecoveryTrail(e, outcome, plan))
  BY <1>1, AddExtends DEF RecoveryTrail
<1>4. outcome = "blocked" => plan = <<>>
  OBVIOUS
<1> HIDE DEF plan, told, added, t
<1>5. t = SessionWith(added.items, added.rerun, told, added.notification, added.path)
  BY <1>2, <1>3 DEF Extends, IsSession, SessionWith
<1>6. IsSession(t) /\ t.items = added.items /\ t.recovery = told /\ t.notification = added.notification
  BY <1>3, <1>5 DEF Extends, IsSession, SessionWith
<1>7. QED
  BY <1>3, <1>4, <1>6 DEF Extends, told, t

\* From the event on there is exactly what was added with it and after it.
LEMMA SinceEvent ==
  ASSUME NEW items, \E S : items \in Seq(S), NEW more, \E S : more \in Seq(S)
  PROVE  Reporter!Since(items \o more, Len(items) + 1) = more
<1>1. PICK S, T : items \in Seq(S) /\ more \in Seq(T)
  OBVIOUS
<1> DEFINE all == S \cup T
<1>2. items \in Seq(all) /\ more \in Seq(all)
  BY <1>1
<1> HIDE DEF all
<1>3. Len(items \o more) = Len(items) + Len(more)
  BY <1>2, ConcatProperties
<1>4. SubSeq(items \o more, Len(items) + 1, Len(items) + Len(more)) = more
  <2> DEFINE part == SubSeq(items \o more, Len(items) + 1, Len(items) + Len(more))
  <2>1. items \o more \in Seq(all) /\ Len(items) \in Nat /\ Len(more) \in Nat
    BY <1>2, ConcatProperties
  <2>2. /\ part \in Seq(all) /\ Len(part) = Len(more)
        /\ \A i \in 1..Len(more) : part[i] = (items \o more)[Len(items) + i]
    BY <1>2, <1>3, <2>1
  <2>3. \A i \in 1..Len(more) : (items \o more)[Len(items) + i] = more[i]
    BY <1>2, <2>1, ConcatProperties
  <2> HIDE DEF part
  <2>4. \A i \in 1..Len(more) : part[i] = more[i]
    BY <2>2, <2>3
  <2>5. QED
    BY <1>2, <2>2, <2>4, SeqEqual DEF part
<1>5. QED
  BY <1>3, <1>4 DEF Reporter!Since

LEMMA StartIsEvent ==
  ASSUME NEW s, IsSession(s), NEW e
  PROVE  LET found == Reporter!AddEvent(s, e)
         IN  /\ Reporter!EventStart(found, e.print) = Len(s.items) + 1
             /\ Len(found.items) = Len(s.items) + 1
<1> DEFINE found == Reporter!AddEvent(s, e)
           item == Reporter!Item("monitor_error_event", e.print, e.says)
           n == Len(s.items) + 1
           having == {i \in DOMAIN found.items : found.items[i].print = e.print}
<1>1. Extends(found, s, Append(<<>>, item))
  BY ExtendsItself, AddExtends DEF Reporter!AddEvent
<1>2. PICK S : s.items \in Seq(S)
  BY DEF IsSession
<1>3. found.items = Append(s.items, item)
  <2>1. s.items \in Seq(S \cup {item}) /\ item \in S \cup {item}
    BY <1>2
  <2>2. found.items = s.items \o <<item>>
    BY <1>1 DEF Extends
  <2>3. QED
    BY <2>1, <2>2, AppendIsConcat
<1> HIDE DEF found
<1>4. n \in Nat /\ Len(found.items) = n /\ DOMAIN found.items = 1..n /\ found.items[n] = item
  BY <1>2, <1>3
<1>5. item.print = e.print
  BY DEF Reporter!Item
<1> HIDE DEF item
<1>6. n \in having /\ \A i \in having : i \in 1..n
  BY <1>4, <1>5
<1>7. Reporter!EventStart(found, e.print) = CHOOSE i \in having : \A j \in having : j <= i
  BY <1>6 DEF Reporter!EventStart
<1> HIDE DEF having
<1>8. \A i \in having : (\A j \in having : j <= i) => i = n
  BY <1>4, <1>6
<1>9. \A j \in having : j <= n
  BY <1>4, <1>6
<1> HIDE DEF n
<1>10. (CHOOSE i \in having : \A j \in having : j <= i) = n
  BY <1>6, <1>8, <1>9
<1>11. QED
  BY <1>4, <1>7, <1>10 DEF found, n

\* Two trails that differ at most in what the record of the recovery says.
SameTrail(u, v) ==
  /\ \E S : u \in Seq(S) /\ v \in Seq(S)
  /\ DOMAIN u = DOMAIN v
  /\ \A i \in DOMAIN u :
       /\ u[i].source = v[i].source /\ u[i].print = v[i].print
       /\ u[i].source # "auto_recovery" => u[i] = v[i]

LEMMA TrailsGrow ==
  ASSUME NEW u, NEW v, SameTrail(u, v), NEW x, NEW y, x.source = y.source, x.print = y.print,
         x.source # "auto_recovery" => x = y
  PROVE  SameTrail(Append(u, x), Append(v, y))
<1>1. PICK S : u \in Seq(S) /\ v \in Seq(S)
  BY DEF SameTrail
<1> DEFINE all == S \cup {x, y}
<1>2. u \in Seq(all) /\ v \in Seq(all) /\ x \in all /\ y \in all
  BY <1>1
<1> HIDE DEF all
<1>3. Len(u) \in Nat /\ DOMAIN u = 1..Len(u) /\ DOMAIN v = 1..Len(v) /\ Len(v) = Len(u)
  <2>1. Len(u) \in Nat /\ DOMAIN u = 1..Len(u) /\ DOMAIN v = 1..Len(v) /\ Len(v) \in Nat
    BY <1>2
  <2>2. 1..Len(u) = 1..Len(v)
    BY <2>1 DEF SameTrail
  <2>3. \A m, n \in Nat : 1..m = 1..n => m <= n
    <3>1. \A m, n \in Nat : m \in 1..n => m <= n
      OBVIOUS
    <3>2. \A m \in Nat : m = 0 \/ m \in 1..m
      OBVIOUS
    <3>3. \A n \in Nat : 0 <= n
      OBVIOUS
    <3>4. QED
      BY <3>1, <3>2, <3>3, Zenon
  <2>4. Len(u) = Len(v)
    <3>1. Len(u) <= Len(v) /\ Len(v) <= Len(u)
      BY <2>1, <2>2, <2>3, Zenon
    <3>2. \A m, n \in Nat : m <= n /\ n <= m => m = n
      OBVIOUS
    <3>3. QED
      BY <2>1, <3>1, <3>2, Zenon
  <2>5. QED
    BY <2>1, <2>4
<1>4. /\ Append(u, x) \in Seq(all) /\ Append(v, y) \in Seq(all)
      /\ DOMAIN Append(u, x) = 1..(Len(u) + 1) /\ DOMAIN Append(v, y) = 1..(Len(u) + 1)
      /\ \A i \in 1..Len(u) : Append(u, x)[i] = u[i] /\ Append(v, y)[i] = v[i]
      /\ Append(u, x)[Len(u) + 1] = x /\ Append(v, y)[Len(u) + 1] = y
  BY <1>2, <1>3
<1>5. \A i \in 1..(Len(u) + 1) : i \in 1..Len(u) \/ i = Len(u) + 1
  BY <1>3
<1>6. QED
  BY <1>3, <1>4, <1>5 DEF SameTrail

LEMMA TrailItself ==
  ASSUME NEW u, \E S : u \in Seq(S)
  PROVE  SameTrail(u, u)
BY DEF SameTrail

\* What alike trails show, and the recovery and the notification that go with them, is the same.
LEMMA OwnIsSame ==
  ASSUME NEW u, NEW v, SameTrail(u, v), NEW s, NEW t, s.recovery = t.recovery,
         Reporter!Has(u, "notification") => s.notification = t.notification
  PROVE  Own(Reporter!ScopedReport(s, u)) = Own(Reporter!ScopedReport(t, v))
<1> DEFINE Sources(w) == {w[i].source : i \in DOMAIN w}
           listed == {"safe_apply", "safe_apply_rollback", "project_rerun", "auto_recovery"}
           Bare(w) == [i \in DOMAIN w |-> [source |-> w[i].source, print |-> w[i].print]]
           Kept(w) == [i \in {j \in DOMAIN w : w[j].source = "project_rerun"} |-> w[i]]
           With(w, source) == {j \in DOMAIN w : w[j].source = source} # {}
           Recovery(r, w) == IF With(w, "auto_recovery") THEN Reporter!RecoverySection(r) ELSE Reporter!Nothing
           Notification(n, w) == IF With(w, "notification") THEN n ELSE Reporter!Nothing
           OwnOf(r, n, w) == [shown |-> Sources(w) \cap listed, reruns |-> Kept(w),
                              recovery |-> Recovery(r, w), notification |-> Notification(n, w),
                              evidence |-> Bare(w)]
<1>1. ASSUME NEW r, NEW w
      PROVE  /\ Own(Reporter!ScopedReport(r, w)) = OwnOf(r.recovery, r.notification, w)
             /\ Reporter!Has(w, "notification") <=> With(w, "notification")
  <2>1. Reporter!Shown(w) = Sources(w) \cap listed
    BY DEF Reporter!Shown, Reporter!Range
  <2>2. /\ Reporter!From(w, "project_rerun") = Kept(w)
        /\ Reporter!Has(w, "auto_recovery") <=> With(w, "auto_recovery")
        /\ Reporter!Has(w, "notification") <=> With(w, "notification")
    BY DEF Reporter!From, Reporter!Has
  <2> DEFINE route == Reporter!Router!Classify(Reporter!Previewed(w), FALSE)
             report == Reporter!ScopedReport(r, w)
  <2>3. report = Reporter!ReportOf(r, w, route, Reporter!Has(w, "auto_recovery"), Reporter!Has(w, "notification"))
    BY Zenon DEF Reporter!ScopedReport
  <2> HIDE DEF route, report, Sources, listed, Kept, With
  <2>4. /\ report.shown = Sources(w) \cap listed /\ report.reruns = Kept(w)
        /\ report.recovery = Recovery(r.recovery, w)
        /\ report.notification = Notification(r.notification, w)
        /\ report.evidence = w
    BY <2>1, <2>2, <2>3 DEF Reporter!ReportOf
  <2>5. QED
    BY <2>2, <2>4 DEF Own, report
<1>2. DOMAIN u = DOMAIN v /\ \A i \in DOMAIN u : u[i].source = v[i].source /\ u[i].print = v[i].print
  BY DEF SameTrail
<1>3. \A i \in DOMAIN u : u[i].source = "project_rerun" => u[i] = v[i]
  BY DEF SameTrail
<1>4. Sources(u) = Sources(v) /\ Bare(u) = Bare(v)
  BY <1>2
<1>5. Kept(u) = Kept(v)
  <2>1. {j \in DOMAIN u : u[j].source = "project_rerun"} = {j \in DOMAIN v : v[j].source = "project_rerun"}
    BY <1>2
  <2>2. QED
    BY <1>3, <2>1
<1>6. With(u, "auto_recovery") = With(v, "auto_recovery") /\ With(u, "notification") = With(v, "notification")
  BY <1>2
<1> HIDE DEF Sources, listed, Bare, Kept, With
<1>7. QED
  BY <1>1, <1>4, <1>5, <1>6

\* The trails of an event in two sessions are alike, and without a notification.
LEMMA TrailsAreSame ==
  ASSUME NEW e, NEW outcome \in Reporter!Outcomes, NEW plan, NEW other,
         \E S : RecoveryTrail(e, outcome, plan) \in Seq(S)
  PROVE  /\ SameTrail(RecoveryTrail(e, outcome, plan), RecoveryTrail(e, outcome, other))
         /\ ~Reporter!Has(RecoveryTrail(e, outcome, plan), "notification")
<1> DEFINE Silent(w) == (\E S : w \in Seq(S)) /\ \A i \in DOMAIN w : w[i].source # "notification"
           Good(w) == SameTrail(w, w) /\ Silent(w)
<1>1. ASSUME NEW w, Silent(w), NEW x, x.source # "notification"
      PROVE  Silent(Append(w, x))
  <2>1. PICK S : w \in Seq(S)
    BY <1>1
  <2>2. w \in Seq(S \cup {x}) /\ x \in S \cup {x}
    BY <2>1
  <2>3. /\ Append(w, x) \in Seq(S \cup {x})
        /\ Len(w) \in Nat /\ DOMAIN w = 1..Len(w) /\ DOMAIN Append(w, x) = 1..(Len(w) + 1)
        /\ \A i \in 1..Len(w) : Append(w, x)[i] = w[i]
        /\ Append(w, x)[Len(w) + 1] = x
    BY <2>2
  <2>4. \A i \in 1..(Len(w) + 1) : i \in 1..Len(w) \/ i = Len(w) + 1
    BY <2>3
  <2>5. QED
    BY <1>1, <2>3, <2>4
<1>2. Silent(<<>>)
  <2>1. <<>> \in Seq({})
    OBVIOUS
  <2>2. DOMAIN <<>> = {}
    OBVIOUS
  <2>3. QED
    BY <2>1, <2>2
<1> HIDE DEF Silent
<1>3. ASSUME NEW source, NEW print, NEW says
      PROVE  /\ Reporter!Item(source, print, says).source = source
             /\ Reporter!Item(source, print, says).print = print
  BY DEF Reporter!Item
<1>4. Silent(DecisionTrail(e))
  <2> DEFINE event == Reporter!Item("monitor_error_event", e.print, e.says)
             start == Append(<<>>, event)
             next == Append(start, Reporter!Item("recovery_policy", Reporter!NoPrint, {"port"}))
  <2>1. Silent(start)
    <3>1. event.source # "notification"
      BY <1>3
    <3> HIDE DEF event
    <3>2. QED
      BY <1>1, <1>2, <3>1, Zenon
  <2> HIDE DEF start, event
  <2>2. Silent(next)
    BY <1>1, <1>3, <2>1
  <2> HIDE DEF next
  <2>3. Silent(Append(next, Reporter!Item("r15_auto_recovery_gate", e.print, {})))
    BY <1>1, <1>3, <2>2
  <2>4. QED
    BY <2>3 DEF DecisionTrail, start, next, event
<1>5. Silent(ApplyTrail(e))
  BY <1>1, <1>3, <1>4 DEF ApplyTrail
<1>6. \A says : Silent(RerunTrail(e, says))
  BY <1>1, <1>3, <1>5 DEF RerunTrail
<1>7. Silent(Append(RerunTrail(e, e.says), Reporter!Item("safe_apply_rollback", Reporter!NoPrint, {})))
  BY <1>1, <1>3, <1>6
<1>8. Silent(ExecutionTrail(e, outcome))
  BY <1>4, <1>5, <1>6, <1>7 DEF ExecutionTrail, Reporter!Outcomes
<1>9. \A p : Silent(RecoveryTrail(e, outcome, p))
  BY <1>1, <1>3, <1>8 DEF RecoveryTrail
<1>10. SameTrail(ExecutionTrail(e, outcome), ExecutionTrail(e, outcome))
  BY <1>8, TrailItself DEF Silent
<1>11. SameTrail(RecoveryTrail(e, outcome, plan), RecoveryTrail(e, outcome, other))
  BY <1>3, <1>10, TrailsGrow DEF RecoveryTrail
<1>12. ~Reporter!Has(RecoveryTrail(e, outcome, plan), "notification")
  BY <1>9 DEF Silent, Reporter!Has, Reporter!From
<1>13. QED
  BY <1>11, <1>12

\* A session has these items after those.
After(s, before, more) == s.items = before \o more

\* The record of the notification comes after the trail and changes the notification alone.
Noted(noted, done, before, trail, e, outcome) ==
  LET full == Append(trail, Reporter!Item("notification", Reporter!NoPrint, {}))
  IN  /\ IsSession(noted)
      /\ noted.items = before \o full /\ IsSequence(full)
      /\ noted.recovery = done.recovery
      /\ noted.notification =
           [print |-> e.print,
            status |-> CASE outcome = "recovered" -> "recovered"
                         [] outcome = "undone" -> "rollback_done"
                         [] outcome = "blocked" -> "manual_escalation"
                         [] OTHER -> "auto_recover"]

LEMMA NotedExtends ==
  ASSUME NEW before, NEW trail, NEW done, NEW e, NEW outcome,
         IsSequence(before), IsSequence(trail), IsSession(done), After(done, before, trail)
  PROVE  Noted(Reporter!RecordNotification(done, e, outcome), done, before, trail, e, outcome)
<1> DEFINE note == Reporter!Item("notification", Reporter!NoPrint, {})
           notice == [print |-> e.print,
                      status |-> CASE outcome = "recovered" -> "recovered"
                                   [] outcome = "undone" -> "rollback_done"
                                   [] outcome = "blocked" -> "manual_escalation"
                                   [] OTHER -> "auto_recover"]
           noted == Reporter!RecordNotification(done, e, outcome)
           added == Reporter!AddEvidence(done, note)
<1>1. Extends(added, done, Append(<<>>, note))
  BY ExtendsItself, AddExtends
<1>2. noted = [added EXCEPT !.notification = notice]
  BY Zenon DEF Reporter!RecordNotification
<1>3. added.items = Append(done.items, note)
  <2>1. added = [done EXCEPT !.items = Append(@, note)]
    BY DEF Reporter!AddEvidence
  <2>2. QED
    BY <2>1 DEF IsSession, SessionWith
<1> HIDE DEF added, note, notice, noted
<1>4. noted = SessionWith(added.items, added.rerun, added.recovery, notice, added.path)
  BY <1>1, <1>2 DEF Extends, IsSession, SessionWith
<1>5. /\ IsSession(noted) /\ noted.items = added.items
      /\ noted.recovery = done.recovery /\ noted.notification = notice
  BY <1>1, <1>4 DEF Extends, IsSession, SessionWith
<1>6. Append(before \o trail, note) = before \o Append(trail, note)
  BY AppendToConcat DEF AppendsLast
<1>7. noted.items = before \o Append(trail, note)
  BY <1>3, <1>5, <1>6 DEF After
<1>8. IsSequence(Append(trail, note))
  BY AppendIs
<1>9. QED
  BY <1>5, <1>7, <1>8 DEF noted, note, notice, Noted

\* Both reports of an event, for every two sessions it may be handled in, whatever they did before:
\* they say the same of what is the event's own and, if nothing was executed, of its area.
THEOREM ReportsTellOfTheEvent ==
  ASSUME NEW s, IsSession(s), NEW t, IsSession(t), NEW e, NEW outcome \in Reporter!Outcomes
  PROVE  LET found(x) == Reporter!AddEvent(x, e)
             recovered(x) == Reporter!Recover(found(x), e, outcome)
             noted(x) == Reporter!RecordNotification(recovered(x), e, outcome)
             first(x) == Reporter!RecoveryReport(found(x), recovered(x), e)
             second(x) == Reporter!EventReport(found(x), noted(x))
         IN  /\ IsSession(noted(s))
             /\ Own(first(s)) = Own(first(t)) /\ Own(second(s)) = Own(second(t))
             /\ outcome = "blocked" =>
                  /\ first(s).route = first(t).route /\ first(s).initial = first(t).initial
                  /\ second(s).route = second(t).route /\ second(s).initial = second(t).initial
<1> DEFINE found(x) == Reporter!AddEvent(x, e)
           recovered(x) == Reporter!Recover(found(x), e, outcome)
           noted(x) == Reporter!RecordNotification(recovered(x), e, outcome)
           first(x) == Reporter!RecoveryReport(found(x), recovered(x), e)
           second(x) == Reporter!EventReport(found(x), noted(x))
           told == [print |-> e.print, applied |-> outcome \notin {"blocked", "failed"},
                    rerun |-> outcome = "recovered", rolled |-> outcome = "undone"]
           note == Reporter!Item("notification", Reporter!NoPrint, {})
           status == CASE outcome = "recovered" -> "recovered"
                       [] outcome = "undone" -> "rollback_done"
                       [] outcome = "blocked" -> "manual_escalation"
                       [] OTHER -> "auto_recover"
           notice == [print |-> e.print, status |-> status]
           trail(plan) == RecoveryTrail(e, outcome, plan)
           full(plan) == Append(trail(plan), note)
<1>1. ASSUME NEW x, IsSession(x)
      PROVE  \E plan :
               /\ outcome = "blocked" => plan = <<>>
               /\ \E S : trail(plan) \in Seq(S)
               /\ first(x) = Reporter!ScopedReport(recovered(x), trail(plan))
               /\ second(x) = Reporter!ScopedReport(noted(x), full(plan))
               /\ recovered(x).recovery = told /\ noted(x).recovery = told
               /\ noted(x).notification = notice
               /\ IsSession(noted(x))
  <2>1. PICK plan :
          /\ outcome = "blocked" => plan = <<>>
          /\ IsSession(recovered(x))
          /\ recovered(x).items = x.items \o trail(plan)
          /\ \E S : trail(plan) \in Seq(S)
          /\ recovered(x).recovery = told
    BY <1>1, RecoveredExtends
  <2>2. /\ Reporter!EventStart(found(x), e.print) = Len(x.items) + 1
        /\ Len(found(x).items) = Len(x.items) + 1
    BY <1>1, StartIsEvent
  <2>3. first(x) = Reporter!ScopedReport(recovered(x), trail(plan))
    <3>1. Reporter!Since(recovered(x).items, Len(x.items) + 1) = trail(plan)
      BY <1>1, <2>1, SinceEvent DEF IsSession
    <3>2. QED
      BY <2>2, <3>1 DEF Reporter!RecoveryReport
  <2>4. /\ IsSession(noted(x)) /\ noted(x).items = x.items \o full(plan)
        /\ \E S : full(plan) \in Seq(S)
        /\ noted(x).recovery = recovered(x).recovery /\ noted(x).notification = notice
    <3>1. IsSequence(x.items)
      BY <1>1 DEF IsSession, IsSequence
    <3>2. After(recovered(x), x.items, trail(plan))
      BY <2>1 DEF After
    <3>3. IsSequence(trail(plan)) /\ IsSession(recovered(x))
      BY <2>1 DEF IsSequence
    <3> HIDE DEF trail, told, recovered
    <3>4. Noted(noted(x), recovered(x), x.items, trail(plan), e, outcome)
      BY <3>1, <3>2, <3>3, NotedExtends
    <3>5. /\ IsSession(noted(x)) /\ noted(x).items = x.items \o full(plan)
          /\ IsSequence(full(plan))
          /\ noted(x).recovery = recovered(x).recovery /\ noted(x).notification = notice
      BY <3>4 DEF Noted
    <3> HIDE DEF noted, full, notice
    <3>6. QED
      BY <3>5 DEF IsSequence
  <2>5. second(x) = Reporter!ScopedReport(noted(x), full(plan))
    <3> HIDE DEF full, noted, found
    <3>1. Reporter!Since(noted(x).items, Len(x.items) + 1) = full(plan)
      BY <1>1, <2>4, SinceEvent DEF IsSession
    <3>2. QED
      BY <2>2, <3>1 DEF Reporter!EventReport
  <2> HIDE DEF trail, told, recovered, found, noted, note, notice
  <2> HIDE DEF first, second, full
  <2>6. QED
    BY <2>1, <2>3, <2>4, <2>5
<1> HIDE DEF found, recovered, noted, first, second, told, note, notice
<1>2. PICK p :
        /\ outcome = "blocked" => p = <<>>
        /\ \E S : trail(p) \in Seq(S)
        /\ first(s) = Reporter!ScopedReport(recovered(s), trail(p))
        /\ second(s) = Reporter!ScopedReport(noted(s), full(p))
        /\ recovered(s).recovery = told /\ noted(s).recovery = told
        /\ noted(s).notification = notice
        /\ IsSession(noted(s))
  BY <1>1
<1>3. PICK q :
        /\ outcome = "blocked" => q = <<>>
        /\ \E S : trail(q) \in Seq(S)
        /\ first(t) = Reporter!ScopedReport(recovered(t), trail(q))
        /\ second(t) = Reporter!ScopedReport(noted(t), full(q))
        /\ recovered(t).recovery = told /\ noted(t).recovery = told
        /\ noted(t).notification = notice
  BY <1>1
<1>4. SameTrail(trail(p), trail(q)) /\ ~Reporter!Has(trail(p), "notification")
  BY <1>2, TrailsAreSame
<1> HIDE DEF trail
<1>5. Own(first(s)) = Own(first(t))
  BY <1>2, <1>3, <1>4, OwnIsSame
<1>6. SameTrail(full(p), full(q))
  BY <1>4, TrailsGrow
<1> HIDE DEF full
<1>7. Own(second(s)) = Own(second(t))
  BY <1>2, <1>3, <1>6, OwnIsSame
<1>8. \A a, b, w : /\ Reporter!ScopedReport(a, w).route = Reporter!ScopedReport(b, w).route
                  /\ Reporter!ScopedReport(a, w).initial = Reporter!ScopedReport(b, w).initial
  BY DEF Reporter!ScopedReport, Reporter!ReportOf
<1>9. QED
  BY <1>2, <1>3, <1>5, <1>7, <1>8 DEF found, recovered, noted, first, second

\* The invariant of the calls: the session of the monitor is a session.
EventCall ==
  call.of = "reports" =>
    /\ IsSession(call.out.session)
    /\ \E S : call.in \in Seq(S)

LEMMA FoundAre == IsSession(Fresh)
<1>1. Fresh = SessionWith(<<>>, FALSE, Reporter!Nothing, Reporter!Nothing, {"port"})
  BY DEF Fresh, Reporter!NewSession, SessionWith
<1>2. <<>> \in Seq({})
  OBVIOUS
<1>3. QED
  BY <1>1, <1>2 DEF IsSession, SessionWith

LEMMA HandledEvent ==
  ASSUME HandleEvent, EventCall, call = NotCalled \/ call.of = "reports"
  PROVE  EventCall' /\ ReportIsTheEventsOwn'
<1> DEFINE session == IF call = NotCalled THEN Fresh ELSE call.out.session
<1>1. IsSession(session) /\ \E S : call.in \in Seq(S)
  <2>1. CASE call = NotCalled
    <3>1. call.in = <<>> /\ <<>> \in Seq({})
      BY <2>1 DEF NotCalled
    <3>2. QED
      BY <2>1, <3>1, FoundAre
  <2>2. CASE call # NotCalled
    BY <2>2 DEF EventCall
  <2>3. QED
    BY <2>1, <2>2
<1> HIDE DEF session
<1>2. PICK e \in Found, o \in Reporter!Outcomes :
        LET found == [monitor |-> Reporter!AddEvent(session, e), alone |-> Reporter!AddEvent(Fresh, e)]
        IN  \E recovered \in {[s \in DOMAIN found |-> Reporter!Recover(found[s], e, o)]} :
            \E noted \in {[s \in DOMAIN found |-> Reporter!RecordNotification(recovered[s], e, o)]} :
              call' = [of |-> "reports", in |-> Append(call.in, [event |-> e, outcome |-> o]),
                       out |-> [session |-> noted.monitor,
                                reports |-> [s \in DOMAIN found |->
                                   <<Reporter!RecoveryReport(found[s], recovered[s], e),
                                     Reporter!EventReport(found[s], noted[s])>>]]]
  BY Zenon DEF HandleEvent, session
<1> DEFINE found == [monitor |-> Reporter!AddEvent(session, e), alone |-> Reporter!AddEvent(Fresh, e)]
           recovered == [s \in DOMAIN found |-> Reporter!Recover(found[s], e, o)]
           noted == [s \in DOMAIN found |-> Reporter!RecordNotification(recovered[s], e, o)]
           Recovered(x) == Reporter!Recover(Reporter!AddEvent(x, e), e, o)
           WithNote(x) == Reporter!RecordNotification(Recovered(x), e, o)
           First(x) == Reporter!RecoveryReport(Reporter!AddEvent(x, e), Recovered(x), e)
           Second(x) == Reporter!EventReport(Reporter!AddEvent(x, e), WithNote(x))
           step == [event |-> e, outcome |-> o]
<1>3. /\ DOMAIN found = {"monitor", "alone"}
      /\ found["monitor"] = Reporter!AddEvent(session, e) /\ found["alone"] = Reporter!AddEvent(Fresh, e)
  OBVIOUS
<1>4. /\ recovered["monitor"] = Recovered(session) /\ recovered["alone"] = Recovered(Fresh)
  BY <1>3
<1>5. /\ noted["monitor"] = WithNote(session) /\ noted["alone"] = WithNote(Fresh)
  BY <1>3, <1>4
<1> DEFINE Outcome(w, v) ==
             call' = [of |-> "reports", in |-> Append(call.in, step),
                      out |-> [session |-> v.monitor,
                               reports |-> [s \in DOMAIN found |->
                                  <<Reporter!RecoveryReport(found[s], w[s], e),
                                    Reporter!EventReport(found[s], v[s])>>]]]
<1>6. Outcome(recovered, noted)
  <2>1. \E w \in {recovered} :
          \E v \in {[s \in DOMAIN found |-> Reporter!RecordNotification(w[s], e, o)]} : Outcome(w, v)
    BY <1>2, Zenon
  <2> HIDE DEF Outcome
  <2>2. QED
    BY <2>1
<1> HIDE DEF found, recovered, noted
<1>7. /\ call'.of = "reports" /\ call'.in = Append(call.in, step)
      /\ call'.out.session = WithNote(session)
      /\ call'.out.reports.monitor = <<First(session), Second(session)>>
      /\ call'.out.reports.alone = <<First(Fresh), Second(Fresh)>>
  BY <1>3, <1>4, <1>5, <1>6
<1>8. /\ IsSession(WithNote(session))
      /\ Own(First(session)) = Own(First(Fresh)) /\ Own(Second(session)) = Own(Second(Fresh))
      /\ o = "blocked" =>
           /\ First(session).route = First(Fresh).route
           /\ First(session).initial = First(Fresh).initial
           /\ Second(session).route = Second(Fresh).route
           /\ Second(session).initial = Second(Fresh).initial
  BY <1>1, FoundAre, ReportsTellOfTheEvent
<1> HIDE DEF WithNote, First, Second
<1>9. /\ \E S : call'.in \in Seq(S)
      /\ call'.in[Len(call'.in)].outcome = o
  <2>1. PICK S : call.in \in Seq(S)
    BY <1>1
  <2>2. call.in \in Seq(S \cup {step}) /\ step \in S \cup {step} /\ step.outcome = o
    BY <2>1
  <2> HIDE DEF step
  <2>3. /\ Append(call.in, step) \in Seq(S \cup {step})
        /\ Append(call.in, step)[Len(Append(call.in, step))] = step
    BY <2>2
  <2>4. QED
    BY <1>7, <2>2, <2>3
<1>10. EventCall'
  BY <1>7, <1>8, <1>9 DEF EventCall
<1>11. ASSUME NEW n \in 1..2
       PROVE  LET report == call'.out.reports.monitor[n]
                  alone == call'.out.reports.alone[n]
              IN  /\ Own(report) = Own(alone)
                  /\ call'.in[Len(call'.in)].outcome = "blocked" =>
                       report.route = alone.route /\ report.initial = alone.initial
  <2>1. CASE n = 1
    BY <1>7, <1>8, <1>9, <2>1
  <2>2. CASE n = 2
    BY <1>7, <1>8, <1>9, <2>2
  <2>3. QED
    BY <2>1, <2>2
<1>12. ReportIsTheEventsOwn'
  BY <1>11 DEF ReportIsTheEventsOwn
<1>13. QED
  BY <1>10, <1>12

\* The invariant of the calls: nothing was called, an event was handled, or another call was made.
EventCalls ==
  EventCall /\ ReportIsTheEventsOwn /\ (call.of = "nothing" => call = NotCalled)

LEMMA OtherThanEvents ==
  ASSUME NEW of, NEW in, NEW out, of # "reports", of # "nothing", Called(of, in, out)
  PROVE  EventCalls'
<1>1. call'.of # "reports" /\ call'.of # "nothing"
  BY DEF Called
<1>2. QED
  BY <1>1 DEF EventCalls, EventCall, ReportIsTheEventsOwn

\* ReportIsTheEventsOwn: after any number of events the reports of the next one are its own.
THEOREM ReportsAreTheEventsOwn == Spec => []ReportIsTheEventsOwn
<1>1. Init => EventCalls
  BY DEF Init, NotCalled, EventCalls, EventCall, ReportIsTheEventsOwn
<1>2. ASSUME EventCalls, [Next]_vars
      PROVE  EventCalls'
  <2>1. CASE UNCHANGED vars
    BY <1>2, <2>1 DEF vars, EventCalls, EventCall, ReportIsTheEventsOwn
  <2>2. CASE Detect \/ Govern \/ Sweep \/ CompactSeen
    BY OtherThanEvents, <2>2, Zenon DEF Detect, Govern, Sweep, CompactSeen
  <2>3. CASE CompactIndex \/ PlanFixes \/ ApplySafeFix
    BY OtherThanEvents, <2>3, Zenon DEF CompactIndex, PlanFixes, ApplySafeFix
  <2>4. CASE call.of \in {"nothing", "reports"} /\ HandleEvent
    <3>1. EventCall' /\ ReportIsTheEventsOwn'
      BY <1>2, <2>4, HandledEvent DEF EventCalls
    <3>2. call'.of = "reports"
      BY <2>4 DEF HandleEvent
    <3>3. QED
      BY <3>1, <3>2 DEF EventCalls
  <2>5. QED
    BY <1>2, <2>1, <2>2, <2>3, <2>4 DEF Next
<1>3. EventCalls => ReportIsTheEventsOwn
  BY DEF EventCalls
<1>4. QED
  BY <1>1, <1>2, <1>3, PTL DEF Spec

-----------------------------------------------------------------------------
(***************************************************************************)
(* The sequences without repetitions the router folds together.            *)
(***************************************************************************)
LEMMA RouterLargest == ASSUME NEW S PROVE Router!Max(S) = Largest(S)
BY Zenon DEF Router!Max, Largest

\* What a sequence becomes, element after element.
UnrepeatedStep(kept, x) == IF x \in Router!Range(kept) THEN kept ELSE Append(kept, x)

LEMMA UnrepeatedSteps ==
  ASSUME NEW A, NEW s \in Seq(A)
  PROVE  \E acc : /\ acc[0] = <<>>
                  /\ \A k \in 1..Len(s) : acc[k] = UnrepeatedStep(acc[k - 1], s[k])
                  /\ acc[Len(s)] = Router!Unrepeated(s)
<1> DEFINE n == Len(s)
           Y == Seq(A)
           next == [p \in Y \X (1..n) |-> UnrepeatedStep(p[1], s[p[2]])]
           Def(g) == g = [S \in SUBSET (DOMAIN s) |->
                            IF S = {} THEN <<>>
                            ELSE UnrepeatedStep(g[S \ {Largest(S)}], s[Largest(S)])]
           it == CHOOSE g : Def(g)
<1>1. n \in Nat /\ DOMAIN s = 1..n /\ <<>> \in Y
  OBVIOUS
<1>2. Router!Unrepeated(s) = it[DOMAIN s]
  BY RouterLargest, Zenon DEF Router!Unrepeated, Router!FoldLeft, Router!MapThenFoldSet, UnrepeatedStep
<1>3. \A y \in Y : \A k \in 1..n : UnrepeatedStep(y, s[k]) \in Y
  <2>1. \A k \in 1..n : s[k] \in A
    BY <1>1
  <2>2. \A y \in Y : \A x \in A : Append(y, x) \in Y
    OBVIOUS
  <2>3. QED
    BY <2>1, <2>2 DEF UnrepeatedStep
<1> HIDE DEF Y, n
<1>4. next \in [Y \X (1..n) -> Y]
  BY <1>3
<1>5. \A y \in Y : \A k \in 1..n : next[<<y, k>>] = UnrepeatedStep(y, s[k])
  OBVIOUS
<1> HIDE DEF next
<1>6. PICK h \in [SUBSET (1..n) -> Y] : Folds(h, n, <<>>, next)
  BY <1>1, <1>4, FoldExists
<1>7. Def(h)
  <2>1. ASSUME NEW S \in SUBSET (1..n), S # {}
        PROVE  h[S] = UnrepeatedStep(h[S \ {Largest(S)}], s[Largest(S)])
    <3>1. Largest(S) \in 1..n /\ S \ {Largest(S)} \in SUBSET (1..n)
      BY <1>1, <2>1, SomeLargest
    <3>2. h[S] = next[<<h[S \ {Largest(S)}], Largest(S)>>]
      BY <1>6, <2>1 DEF Folds
    <3>3. QED
      BY <1>5, <1>6, <3>1, <3>2
  <2>2. h[{}] = <<>>
    <3>1. {} \in SUBSET (1..n)
      OBVIOUS
    <3>2. QED
      BY <1>6, <3>1 DEF Folds
  <2>3. QED
    BY <1>1, <1>6, <2>1, <2>2
<1>8. Def(it)
  BY <1>7, Zenon
<1> HIDE DEF it
<1>9. ASSUME NEW S \in SUBSET (1..n)
      PROVE  it[S] = IF S = {} THEN <<>> ELSE UnrepeatedStep(it[S \ {Largest(S)}], s[Largest(S)])
  BY <1>1, <1>8
<1> DEFINE acc == [k \in 0..n |-> it[1..k]]
<1>10. acc[0] = <<>>
  <2>1. 1..0 = {} /\ {} \in SUBSET (1..n) /\ 0 \in 0..n
    BY <1>1
  <2>2. QED
    BY <1>9, <2>1
<1>11. ASSUME NEW k \in 1..n
       PROVE  acc[k] = UnrepeatedStep(acc[k - 1], s[k])
  <2>1. 1..k \in SUBSET (1..n) /\ 1..k # {} /\ k \in 0..n /\ k - 1 \in 0..n /\ k \in Nat /\ k > 0
    <3>1. k \in 0..n /\ k - 1 \in 0..n /\ k \in Nat /\ k > 0 /\ k \in 1..k
      BY <1>1
    <3>2. \A i \in 1..k : i \in 1..n
      BY <1>1
    <3>3. QED
      BY <3>1, <3>2
  <2>2. Largest(1..k) = k /\ (1..k) \ {k} = 1..(k - 1)
    BY <2>1, LargestUpto
  <2>3. it[1..k] = UnrepeatedStep(it[(1..k) \ {k}], s[k])
    BY <1>9, <2>1, <2>2
  <2>4. QED
    BY <2>1, <2>2, <2>3
<1>12. acc[n] = Router!Unrepeated(s)
  BY <1>1, <1>2
<1> HIDE DEF acc
<1>13. QED
  BY <1>10, <1>11, <1>12 DEF n

LEMMA AppendUnrepeated ==
  ASSUME NEW A, NEW s \in Seq(A), NEW x \in A
  PROVE  /\ Append(s, x) \in Seq(A)
         /\ Router!Range(Append(s, x)) = Router!Range(s) \cup {x}
         /\ NoRepeats(s) /\ x \notin Router!Range(s) => NoRepeats(Append(s, x))
         /\ s # <<>> => Append(s, x)[1] = s[1]
         /\ s = <<>> => Append(s, x)[1] = x
         /\ Append(s, x) # <<>>
<1>1. /\ Append(s, x) \in Seq(A)
      /\ Range(Append(s, x)) = Range(s) \cup {x}
      /\ NoRepeats(s) /\ x \notin Range(s) => NoRepeats(Append(s, x))
      /\ s # <<>> => Append(s, x)[1] = s[1]
      /\ s = <<>> => Append(s, x)[1] = x
      /\ Append(s, x) # <<>>
  BY AppendNoRepeats
<1>2. Router!Range(s) = Range(s) /\ Router!Range(Append(s, x)) = Range(Append(s, x))
  BY DEF Range, Router!Range
<1>3. QED
  BY <1>1, <1>2

LEMMA UnrepeatedIs ==
  ASSUME NEW A, NEW s \in Seq(A)
  PROVE  /\ Router!Unrepeated(s) \in Seq(A)
         /\ Router!Range(Router!Unrepeated(s)) = Router!Range(s)
         /\ NoRepeats(Router!Unrepeated(s))
         /\ s # <<>> => Router!Unrepeated(s) # <<>> /\ Router!Unrepeated(s)[1] = s[1]
<1> DEFINE n == Len(s)
<1>1. PICK acc : /\ acc[0] = <<>>
                 /\ \A k \in 1..n : acc[k] = UnrepeatedStep(acc[k - 1], s[k])
                 /\ acc[n] = Router!Unrepeated(s)
  BY UnrepeatedSteps
<1>2. n \in Nat /\ DOMAIN s = 1..n /\ (s = <<>> <=> n = 0) /\ \A k \in 1..n : s[k] \in A
  BY EmptySeq
<1> HIDE DEF n
<1> DEFINE Seen(k) == {s[i] : i \in 1..k}
           Holds(k) == /\ acc[k] \in Seq(A) /\ Router!Range(acc[k]) = Seen(k) /\ NoRepeats(acc[k])
                       /\ k > 0 => acc[k] # <<>> /\ acc[k][1] = s[1]
           Good == {k \in 0..n : Holds(k)}
<1>3. 0 \in Good
  <2>1. <<>> \in Seq(A) /\ DOMAIN <<>> = {} /\ 1..0 = {}
    OBVIOUS
  <2>2. Router!Range(<<>>) = {} /\ NoRepeats(<<>>) /\ Seen(0) = {}
    BY <2>1 DEF Router!Range, NoRepeats
  <2>3. 0 \in 0..n /\ ~(0 > 0)
    BY <1>2
  <2> HIDE DEF Seen
  <2>4. Holds(0)
    BY <1>1, <2>1, <2>2, <2>3
  <2>5. QED
    BY <2>3, <2>4
<1>4. ASSUME NEW k \in 1..n, k - 1 \in Good
      PROVE  k \in Good
  <2>1. Holds(k - 1) /\ k - 1 \in 0..n /\ s[k] \in A /\ k \in 0..n /\ k \in Nat
    BY <1>2, <1>4
  <2>2. Seen(k) = Seen(k - 1) \cup {s[k]}
    <3>1. \A i \in 1..k : i \in 1..(k - 1) \/ i = k
      BY <2>1
    <3>2. k \in 1..k /\ \A i \in 1..(k - 1) : i \in 1..k
      BY <1>2, <2>1
    <3>3. QED
      BY <3>1, <3>2
  <2> HIDE DEF Seen
  <2>3. k - 1 > 0 \/ k - 1 = 0
    BY <1>2, <2>1
  <2>4. acc[k] = UnrepeatedStep(acc[k - 1], s[k])
    BY <1>1
  <2>5. CASE s[k] \in Router!Range(acc[k - 1])
    <3>1. acc[k] = acc[k - 1] /\ Seen(k) = Seen(k - 1)
      BY <2>1, <2>2, <2>4, <2>5 DEF UnrepeatedStep
    <3>2. k - 1 # 0
      BY <1>1, <2>5 DEF Router!Range
    <3>3. QED
      BY <2>1, <2>3, <3>1, <3>2
  <2>6. CASE s[k] \notin Router!Range(acc[k - 1])
    <3>1. acc[k] = Append(acc[k - 1], s[k])
      BY <2>4, <2>6 DEF UnrepeatedStep
    <3>2. /\ acc[k] \in Seq(A)
          /\ Router!Range(acc[k]) = Router!Range(acc[k - 1]) \cup {s[k]}
          /\ NoRepeats(acc[k]) /\ acc[k] # <<>>
          /\ acc[k - 1] # <<>> => acc[k][1] = acc[k - 1][1]
          /\ acc[k - 1] = <<>> => acc[k][1] = s[k]
      BY <2>1, <2>6, <3>1, AppendUnrepeated
    <3>3. acc[k][1] = s[1]
      <4>1. CASE k - 1 = 0
        <5>1. k = 1
          BY <2>1, <4>1
        <5>2. QED
          BY <1>1, <3>2, <5>1
      <4>2. CASE k - 1 > 0
        BY <2>1, <3>2, <4>2
      <4>3. QED
        BY <2>3, <4>1, <4>2
    <3>4. QED
      BY <2>1, <2>2, <3>2, <3>3
  <2>7. QED
    BY <2>5, <2>6
<1> HIDE DEF Good
<1>5. n \in Good
  <2>1. 0..n \subseteq Good
    BY <1>2, <1>3, <1>4, UptoInduction
  <2>2. QED
    BY <1>2, <2>1
<1>6. Holds(n)
  BY <1>5 DEF Good
<1>7. Seen(n) = Router!Range(s)
  BY <1>2 DEF Router!Range
<1>8. s # <<>> => n > 0
  BY <1>2
<1> HIDE DEF Seen
<1>9. QED
  BY <1>1, <1>6, <1>7, <1>8

AmongStep(kept, x, T) == IF x \in T THEN Append(kept, x) ELSE kept

LEMMA AmongSteps ==
  ASSUME NEW A, NEW s \in Seq(A), NEW T
  PROVE  \E acc : /\ acc[0] = <<>>
                  /\ \A k \in 1..Len(s) : acc[k] = AmongStep(acc[k - 1], s[k], T)
                  /\ acc[Len(s)] = Router!Among(s, T)
<1> DEFINE n == Len(s)
           Y == Seq(A)
           next == [p \in Y \X (1..n) |-> AmongStep(p[1], s[p[2]], T)]
           Def(g) == g = [S \in SUBSET (DOMAIN s) |->
                            IF S = {} THEN <<>>
                            ELSE AmongStep(g[S \ {Largest(S)}], s[Largest(S)], T)]
           it == CHOOSE g : Def(g)
<1>1. n \in Nat /\ DOMAIN s = 1..n /\ <<>> \in Y
  OBVIOUS
<1>2. Router!Among(s, T) = it[DOMAIN s]
  BY RouterLargest, Zenon DEF Router!Among, Router!FoldLeft, Router!MapThenFoldSet, AmongStep
<1>3. \A y \in Y : \A k \in 1..n : AmongStep(y, s[k], T) \in Y
  <2>1. \A k \in 1..n : s[k] \in A
    BY <1>1
  <2>2. \A y \in Y : \A x \in A : Append(y, x) \in Y
    OBVIOUS
  <2>3. QED
    BY <2>1, <2>2 DEF AmongStep
<1> HIDE DEF Y, n
<1>4. next \in [Y \X (1..n) -> Y]
  BY <1>3
<1>5. \A y \in Y : \A k \in 1..n : next[<<y, k>>] = AmongStep(y, s[k], T)
  OBVIOUS
<1> HIDE DEF next
<1>6. PICK h \in [SUBSET (1..n) -> Y] : Folds(h, n, <<>>, next)
  BY <1>1, <1>4, FoldExists
<1>7. Def(h)
  <2>1. ASSUME NEW S \in SUBSET (1..n), S # {}
        PROVE  h[S] = AmongStep(h[S \ {Largest(S)}], s[Largest(S)], T)
    <3>1. Largest(S) \in 1..n /\ S \ {Largest(S)} \in SUBSET (1..n)
      BY <1>1, <2>1, SomeLargest
    <3>2. h[S] = next[<<h[S \ {Largest(S)}], Largest(S)>>]
      BY <1>6, <2>1 DEF Folds
    <3>3. QED
      BY <1>5, <1>6, <3>1, <3>2
  <2>2. h[{}] = <<>>
    <3>1. {} \in SUBSET (1..n)
      OBVIOUS
    <3>2. QED
      BY <1>6, <3>1 DEF Folds
  <2>3. QED
    BY <1>1, <1>6, <2>1, <2>2
<1>8. Def(it)
  BY <1>7, Zenon
<1> HIDE DEF it
<1>9. ASSUME NEW S \in SUBSET (1..n)
      PROVE  it[S] = IF S = {} THEN <<>> ELSE AmongStep(it[S \ {Largest(S)}], s[Largest(S)], T)
  BY <1>1, <1>8
<1> DEFINE acc == [k \in 0..n |-> it[1..k]]
<1>10. acc[0] = <<>>
  <2>1. 1..0 = {} /\ {} \in SUBSET (1..n) /\ 0 \in 0..n
    BY <1>1
  <2>2. QED
    BY <1>9, <2>1
<1>11. ASSUME NEW k \in 1..n
       PROVE  acc[k] = AmongStep(acc[k - 1], s[k], T)
  <2>1. 1..k \in SUBSET (1..n) /\ 1..k # {} /\ k \in 0..n /\ k - 1 \in 0..n /\ k \in Nat /\ k > 0
    <3>1. k \in 0..n /\ k - 1 \in 0..n /\ k \in Nat /\ k > 0 /\ k \in 1..k
      BY <1>1
    <3>2. \A i \in 1..k : i \in 1..n
      BY <1>1
    <3>3. QED
      BY <3>1, <3>2
  <2>2. Largest(1..k) = k /\ (1..k) \ {k} = 1..(k - 1)
    BY <2>1, LargestUpto
  <2>3. it[1..k] = AmongStep(it[(1..k) \ {k}], s[k], T)
    BY <1>9, <2>1, <2>2
  <2>4. QED
    BY <2>1, <2>2, <2>3
<1>12. acc[n] = Router!Among(s, T)
  BY <1>1, <1>2
<1> HIDE DEF acc
<1>13. QED
  BY <1>10, <1>11, <1>12 DEF n

\* The elements that are in a set: those alone, as often as before, and the first one first.
LEMMA AmongIs ==
  ASSUME NEW A, NEW s \in Seq(A), NEW T
  PROVE  /\ Router!Among(s, T) \in Seq(A)
         /\ Router!Range(Router!Among(s, T)) = Router!Range(s) \cap T
         /\ NoRepeats(s) => NoRepeats(Router!Among(s, T))
         /\ s # <<>> /\ s[1] \in T => Router!Among(s, T) # <<>> /\ Router!Among(s, T)[1] = s[1]
<1> DEFINE n == Len(s)
<1>1. PICK acc : /\ acc[0] = <<>>
                 /\ \A k \in 1..n : acc[k] = AmongStep(acc[k - 1], s[k], T)
                 /\ acc[n] = Router!Among(s, T)
  BY AmongSteps
<1>2. n \in Nat /\ DOMAIN s = 1..n /\ (s = <<>> <=> n = 0) /\ \A k \in 1..n : s[k] \in A
  BY EmptySeq
<1> HIDE DEF n
<1> DEFINE Seen(k) == {s[i] : i \in 1..k}
           First(k) == s[1] \in T => acc[k] # <<>> /\ acc[k][1] = s[1]
           Holds(k) == /\ acc[k] \in Seq(A) /\ Router!Range(acc[k]) = Seen(k) \cap T
                       /\ NoRepeats(s) => NoRepeats(acc[k])
                       /\ k > 0 => First(k)
           Good == {k \in 0..n : Holds(k)}
<1>3. 0 \in Good
  <2>1. <<>> \in Seq(A) /\ DOMAIN <<>> = {} /\ 1..0 = {}
    OBVIOUS
  <2>2. Router!Range(<<>>) = {} /\ NoRepeats(<<>>) /\ Seen(0) = {}
    BY <2>1 DEF Router!Range, NoRepeats
  <2>3. 0 \in 0..n /\ ~(0 > 0)
    BY <1>2
  <2> HIDE DEF Seen, First
  <2>4. Holds(0)
    BY <1>1, <2>1, <2>2, <2>3
  <2>5. QED
    BY <2>3, <2>4
<1>4. ASSUME NEW k \in 1..n, k - 1 \in Good
      PROVE  k \in Good
  <2>1. Holds(k - 1) /\ k - 1 \in 0..n /\ s[k] \in A /\ k \in 0..n /\ k \in Nat
    BY <1>2, <1>4
  <2>2. Seen(k) = Seen(k - 1) \cup {s[k]}
    <3>1. \A i \in 1..k : i \in 1..(k - 1) \/ i = k
      BY <2>1
    <3>2. k \in 1..k /\ \A i \in 1..(k - 1) : i \in 1..k
      BY <1>2, <2>1
    <3>3. QED
      BY <3>1, <3>2
  <2>3. k - 1 > 0 \/ k - 1 = 0
    BY <1>2, <2>1
  <2>4. acc[k] = AmongStep(acc[k - 1], s[k], T)
    BY <1>1
  <2>5. CASE s[k] \notin T
    <3>1. acc[k] = acc[k - 1] /\ Seen(k) \cap T = Seen(k - 1) \cap T
      BY <2>2, <2>4, <2>5 DEF AmongStep
    <3>2. First(k)
      <4>1. CASE k - 1 = 0
        <5>1. k = 1
          BY <2>1, <4>1
        <5>2. QED
          BY <2>5, <5>1
      <4>2. CASE k - 1 > 0
        BY <2>1, <3>1, <4>2
      <4>3. QED
        BY <2>3, <4>1, <4>2
    <3> HIDE DEF Seen, First
    <3>3. QED
      BY <2>1, <3>1, <3>2
  <2>6. CASE s[k] \in T
    <3>1. acc[k] = Append(acc[k - 1], s[k])
      BY <2>4, <2>6 DEF AmongStep
    <3>2. /\ acc[k] \in Seq(A)
          /\ Router!Range(acc[k]) = Router!Range(acc[k - 1]) \cup {s[k]}
          /\ NoRepeats(acc[k - 1]) /\ s[k] \notin Router!Range(acc[k - 1]) => NoRepeats(acc[k])
          /\ acc[k] # <<>>
          /\ acc[k - 1] # <<>> => acc[k][1] = acc[k - 1][1]
          /\ acc[k - 1] = <<>> => acc[k][1] = s[k]
      BY <2>1, <3>1, AppendUnrepeated
    <3>3. First(k)
      <4>1. CASE k - 1 = 0
        <5>1. k = 1
          BY <2>1, <4>1
        <5>2. QED
          BY <1>1, <3>2, <5>1
      <4>2. CASE k - 1 > 0
        BY <2>1, <3>2, <4>2
      <4>3. QED
        BY <2>3, <4>1, <4>2
    <3>4. NoRepeats(s) => s[k] \notin Seen(k - 1)
      <4>1. \A i \in 1..(k - 1) : i \in 1..n /\ i # k
        BY <1>2, <2>1
      <4>2. QED
        BY <1>2, <4>1 DEF NoRepeats
    <3>5. Seen(k) \cap T = (Seen(k - 1) \cap T) \cup {s[k]}
      BY <2>2, <2>6
    <3> HIDE DEF Seen, First
    <3>6. QED
      BY <2>1, <3>2, <3>3, <3>4, <3>5
  <2>7. QED
    BY <2>5, <2>6
<1> HIDE DEF Good
<1>5. n \in Good
  <2>1. 0..n \subseteq Good
    BY <1>2, <1>3, <1>4, UptoInduction
  <2>2. QED
    BY <1>2, <2>1
<1>6. Holds(n)
  BY <1>5 DEF Good
<1>7. Seen(n) = Router!Range(s)
  BY <1>2 DEF Router!Range
<1>8. s # <<>> => n > 0
  BY <1>2
<1> HIDE DEF Seen
<1>9. QED
  BY <1>1, <1>6, <1>7, <1>8

LEMMA ConcatIs ==
  ASSUME NEW A, NEW s \in Seq(A), NEW t \in Seq(A)
  PROVE  /\ s \o t \in Seq(A)
         /\ Router!Range(s \o t) = Router!Range(s) \cup Router!Range(t)
         /\ s # <<>> => s \o t # <<>> /\ (s \o t)[1] = s[1]
<1> DEFINE both == s \o t
<1>1. /\ both \in Seq(A) /\ Len(s) \in Nat /\ Len(t) \in Nat
      /\ DOMAIN s = 1..Len(s) /\ DOMAIN t = 1..Len(t) /\ DOMAIN both = 1..(Len(s) + Len(t))
      /\ \A i \in 1..Len(s) : both[i] = s[i]
      /\ \A i \in 1..Len(t) : both[Len(s) + i] = t[i]
      /\ Len(both) = Len(s) + Len(t)
  OBVIOUS
<1>2. s # <<>> => Len(s) # 0 /\ 1 \in 1..Len(s)
  BY <1>1, EmptySeq
<1>3. both = <<>> => Len(both) = 0
  BY <1>1, EmptySeq
<1> HIDE DEF both
<1>4. \A i \in 1..(Len(s) + Len(t)) : i \in 1..Len(s) \/ (i - Len(s) \in 1..Len(t) /\ Len(s) + (i - Len(s)) = i)
  BY <1>1
<1>5. /\ \A i \in 1..Len(s) : i \in 1..(Len(s) + Len(t))
      /\ \A i \in 1..Len(t) : Len(s) + i \in 1..(Len(s) + Len(t))
  BY <1>1
<1>6. Router!Range(both) = Router!Range(s) \cup Router!Range(t)
  <2>1. ASSUME NEW i \in DOMAIN both PROVE both[i] \in Router!Range(s) \cup Router!Range(t)
    <3>1. CASE i \in 1..Len(s)
      BY <1>1, <3>1 DEF Router!Range
    <3>2. CASE i - Len(s) \in 1..Len(t) /\ Len(s) + (i - Len(s)) = i
      <4>1. both[i] = t[i - Len(s)]
        BY <1>1, <3>2
      <4>2. QED
        BY <1>1, <3>2, <4>1 DEF Router!Range
    <3>3. QED
      BY <1>1, <1>4, <3>1, <3>2
  <2>2. ASSUME NEW i \in DOMAIN s PROVE s[i] \in Router!Range(both)
    BY <1>1, <1>5 DEF Router!Range
  <2>3. ASSUME NEW i \in DOMAIN t PROVE t[i] \in Router!Range(both)
    <3>1. Len(s) + i \in DOMAIN both /\ both[Len(s) + i] = t[i]
      BY <1>1, <1>5
    <3>2. QED
      BY <3>1 DEF Router!Range
  <2>4. QED
    BY <2>1, <2>2, <2>3 DEF Router!Range
<1>7. s # <<>> => both # <<>> /\ both[1] = s[1]
  BY <1>1, <1>2, <1>3
<1>8. QED
  BY <1>1, <1>6, <1>7 DEF both

\* The sequences one after the other: the elements of all, and the first of the first one first.
LEMMA FlattenSteps ==
  ASSUME NEW A, NEW seqs \in Seq(Seq(A)), seqs # <<>>
  PROVE  \E f : /\ f[1] = seqs[1]
                /\ \A k \in 1..Len(seqs) : k # 1 => f[k] = f[k - 1] \o seqs[k]
                /\ f[Len(seqs)] = Router!FlattenSeq(seqs)
<1> DEFINE n == Len(seqs)
           Def(k, g) == g = [i \in 1..k |-> IF i = 1 THEN seqs[i] ELSE g[i - 1] \o seqs[i]]
           it == CHOOSE g : Def(n, g)
           Good == {k \in 0..n : \E g : Def(k, g)}
<1>1. n \in Nat /\ n # 0
  BY EmptySeq
<1>2. Router!FlattenSeq(seqs) = it[n]
  BY <1>1, Zenon DEF Router!FlattenSeq
<1> HIDE DEF n
<1>3. 0 \in Good
  <2> DEFINE g == [i \in 1..0 |-> seqs[i]]
  <2>1. Def(0, g)
    OBVIOUS
  <2>2. 0 \in 0..n
    BY <1>1
  <2>3. QED
    BY <2>1, <2>2, Zenon
<1>4. ASSUME NEW k \in 1..n, k - 1 \in Good
      PROVE  k \in Good
  <2>1. PICK h : Def(k - 1, h)
    BY <1>4
  <2> DEFINE g == [i \in 1..k |-> IF i = k THEN IF k = 1 THEN seqs[k] ELSE h[k - 1] \o seqs[k] ELSE h[i]]
  <2>2. \A i \in 1..k : g[i] = IF i = k THEN IF k = 1 THEN seqs[k] ELSE h[k - 1] \o seqs[k] ELSE h[i]
    OBVIOUS
  <2> HIDE DEF g
  <2>3. \A i \in 1..(k - 1) : h[i] = IF i = 1 THEN seqs[i] ELSE h[i - 1] \o seqs[i]
    BY <2>1
  <2>4. ASSUME NEW i \in 1..k
        PROVE  g[i] = IF i = 1 THEN seqs[i] ELSE g[i - 1] \o seqs[i]
    <3>1. i # 1 => i - 1 \in 1..k /\ i - 1 # k
      BY <1>1
    <3>2. i # 1 => g[i - 1] = h[i - 1]
      BY <2>2, <3>1
    <3>3. CASE i = k
      BY <2>2, <3>2, <3>3
    <3>4. CASE i # k
      <4>1. i \in 1..(k - 1)
        BY <1>1, <3>4
      <4>2. g[i] = h[i]
        BY <2>2, <3>4
      <4>3. QED
        BY <2>3, <3>2, <4>1, <4>2
    <3>5. QED
      BY <3>3, <3>4
  <2>5. Def(k, g)
    BY <2>4 DEF g
  <2>6. k \in 0..n
    BY <1>1
  <2>7. QED
    BY <2>5, <2>6, Zenon
<1>5. n \in Good
  <2> HIDE DEF Good
  <2>1. 0..n \subseteq Good
    BY <1>1, <1>3, <1>4, UptoInduction
  <2>2. QED
    BY <1>1, <2>1
<1>6. Def(n, it)
  BY <1>5, Zenon
<1> HIDE DEF it
<1>7. \A k \in 1..n : it[k] = IF k = 1 THEN seqs[k] ELSE it[k - 1] \o seqs[k]
  BY <1>6
<1>8. 1 \in 1..n
  BY <1>1
<1>9. it[1] = seqs[1]
  BY <1>7, <1>8
<1>10. \A k \in 1..n : k # 1 => it[k] = it[k - 1] \o seqs[k]
  BY <1>7
<1>11. QED
  BY <1>2, <1>9, <1>10 DEF n

LEMMA FlattenIs ==
  ASSUME NEW A, NEW seqs \in Seq(Seq(A)), seqs # <<>>
  PROVE  /\ Router!FlattenSeq(seqs) \in Seq(A)
         /\ Router!Range(Router!FlattenSeq(seqs)) = UNION {Router!Range(seqs[i]) : i \in DOMAIN seqs}
         /\ seqs[1] # <<>> =>
              Router!FlattenSeq(seqs) # <<>> /\ Router!FlattenSeq(seqs)[1] = seqs[1][1]
<1> DEFINE n == Len(seqs)
           Seen(k) == UNION {Router!Range(seqs[i]) : i \in 1..k}
<1>1. PICK f : /\ f[1] = seqs[1]
               /\ \A k \in 1..n : k # 1 => f[k] = f[k - 1] \o seqs[k]
               /\ f[n] = Router!FlattenSeq(seqs)
  BY FlattenSteps
<1>2. n \in Nat /\ n # 0 /\ DOMAIN seqs = 1..n /\ \A k \in 1..n : seqs[k] \in Seq(A)
  BY EmptySeq
<1> HIDE DEF n
<1> DEFINE Holds(k) == /\ f[k] \in Seq(A) /\ Router!Range(f[k]) = Seen(k)
                       /\ seqs[1] # <<>> => f[k] # <<>> /\ f[k][1] = seqs[1][1]
           Good == {k \in 0..n : k # 0 => Holds(k)}
<1>3. 0 \in Good
  BY <1>2
<1>4. ASSUME NEW k \in 1..n, k - 1 \in Good
      PROVE  k \in Good
  <2>1. k \in 0..n /\ k # 0 /\ k \in Nat /\ seqs[k] \in Seq(A)
    BY <1>2
  <2>2. CASE k = 1
    <3>1. Seen(1) = Router!Range(seqs[1])
      OBVIOUS
    <3> HIDE DEF Seen
    <3>2. Holds(1)
      BY <1>1, <2>1, <2>2, <3>1
    <3>3. QED
      BY <2>1, <2>2, <3>2
  <2>3. CASE k # 1
    <3>1. k - 1 # 0
      BY <2>1, <2>3
    <3>2. Holds(k - 1)
      BY <1>4, <3>1
    <3>3. f[k] = f[k - 1] \o seqs[k]
      BY <1>1, <2>3
    <3>4. Seen(k) = Seen(k - 1) \cup Router!Range(seqs[k])
      <4>1. \A i \in 1..k : i \in 1..(k - 1) \/ i = k
        BY <2>1
      <4>2. k \in 1..k /\ \A i \in 1..(k - 1) : i \in 1..k
        BY <2>1
      <4>3. QED
        BY <4>1, <4>2
    <3> HIDE DEF Seen
    <3>5. /\ f[k] \in Seq(A)
          /\ Router!Range(f[k]) = Router!Range(f[k - 1]) \cup Router!Range(seqs[k])
          /\ f[k - 1] # <<>> => f[k] # <<>> /\ f[k][1] = f[k - 1][1]
      <4> DEFINE u == f[k - 1]
                 v == seqs[k]
      <4>1. u \in Seq(A) /\ v \in Seq(A) /\ f[k] = u \o v
        BY <2>1, <3>2, <3>3
      <4> HIDE DEF u, v
      <4>2. /\ u \o v \in Seq(A)
            /\ Router!Range(u \o v) = Router!Range(u) \cup Router!Range(v)
            /\ u # <<>> => u \o v # <<>> /\ (u \o v)[1] = u[1]
        BY <4>1, ConcatIs
      <4>3. QED
        BY <4>1, <4>2 DEF u, v
    <3>6. QED
      BY <2>1, <3>2, <3>4, <3>5
  <2>4. QED
    BY <2>2, <2>3
<1> HIDE DEF Good
<1>5. n \in Good
  <2>1. 0..n \subseteq Good
    BY <1>2, <1>3, <1>4, UptoInduction
  <2>2. QED
    BY <1>2, <2>1
<1>6. Holds(n)
  BY <1>2, <1>5 DEF Good
<1>7. Seen(n) = UNION {Router!Range(seqs[i]) : i \in DOMAIN seqs}
  BY <1>2
<1> HIDE DEF Seen
<1>8. QED
  BY <1>1, <1>6, <1>7

-----------------------------------------------------------------------------
(***************************************************************************)
(* From the evidence to the fixes, for any evidence.                       *)
(***************************************************************************)
LEMMA ReadHas ==
  ASSUME NEW P, NEW Q, P \subseteq Q
  PROVE  /\ P \subseteq Router!Read(Q) /\ Router!Read(P) \subseteq Router!Read(Q)
         /\ \A p \in P : Router!Inside(p) \subseteq Router!Read(Q)
BY DEF Router!Read

\* A phrase the session looks for is one of the router's, or holds one and is held by none.
LEMMA OftenInside ==
  ASSUME NEW q
  PROVE  Router!Inside(q) \subseteq
           {"cuda", "hip", "outofmemoryerror", "oom", "df -h", "df -ih", "no space", "disk",
            "quota", "module", "import", "port", "python", "pip", "address already", "9100",
            "lsof", "slurm", "pending", "scontrol"}
BY DEF Router!Inside

TellsOf(area, p) ==
  \/ p \in Router!Keywords(area)
  \/ /\ p \in {"df -h /tmp", "df -ih /tmp", "pip=/", "lsof -i", "scontrol show job"}
     /\ Router!Inside(p) \cap Router!Keywords(area) # {}

StrongRow(i) == Router!StrongPhrases[i]

LEMMA StrongRows ==
  /\ DOMAIN Router!StrongPhrases = 1..5
  /\ StrongRow(1).area = "gpu"
  /\ StrongRow(1).says =
       {"hip out of memory", "cuda out of memory", "outofmemoryerror", "oom-kill",
        "accelerator memory constraints", "vram used memory", "vram free memory"}
  /\ StrongRow(2).area = "disk"
  /\ StrongRow(2).says =
       {"no space left on device", "errno 28", "disk quota exceeded", "df -h /tmp",
        "df -ih /tmp"}
  /\ StrongRow(3).area = "python_env"
  /\ StrongRow(3).says =
       {"modulenotfounderror", "importerror", "no module named",
        "do not belong to the same environment", "python interpreter", "python=/",
        "pip=/"}
  /\ StrongRow(4).area = "network_port"
  /\ StrongRow(4).says =
       {"address already in use", "errno 98", "connection refused", "ss -lntp",
        "lsof -i"}
  /\ StrongRow(5).area = "slurm"
  /\ StrongRow(5).says =
       {"slurmstepd", "jobstate=pending", "reason=resources", "submitted batch job",
        "scontrol show job", "squeue", "sinfo"}
<1> DEFINE s1 == {"hip out of memory", "cuda out of memory", "outofmemoryerror", "oom-kill",
                  "accelerator memory constraints", "vram used memory", "vram free memory"}
           s2 == {"no space left on device", "errno 28", "disk quota exceeded", "df -h /tmp",
                  "df -ih /tmp"}
           s3 == {"modulenotfounderror", "importerror", "no module named",
                  "do not belong to the same environment", "python interpreter", "python=/",
                  "pip=/"}
           s4 == {"address already in use", "errno 98", "connection refused", "ss -lntp",
                  "lsof -i"}
           s5 == {"slurmstepd", "jobstate=pending", "reason=resources", "submitted batch job",
                  "scontrol show job", "squeue", "sinfo"}
<1>1. Router!StrongPhrases =
       << [area |-> "gpu", says |-> s1],
          [area |-> "disk", says |-> s2],
          [area |-> "python_env", says |-> s3],
          [area |-> "network_port", says |-> s4],
          [area |-> "slurm", says |-> s5] >>
  BY Zenon DEF Router!StrongPhrases
<1> HIDE DEF s1, s2, s3, s4, s5
<1>2. /\ DOMAIN Router!StrongPhrases = 1..5
      /\ StrongRow(1).area = "gpu" /\ StrongRow(1).says = s1
      /\ StrongRow(2).area = "disk" /\ StrongRow(2).says = s2
      /\ StrongRow(3).area = "python_env" /\ StrongRow(3).says = s3
      /\ StrongRow(4).area = "network_port" /\ StrongRow(4).says = s4
      /\ StrongRow(5).area = "slurm" /\ StrongRow(5).says = s5
  BY <1>1 DEF StrongRow
<1>3. QED
  BY <1>2, Zenon DEF s1, s2, s3, s4, s5

LEMMA StrongIsTelling ==
  ASSUME NEW row \in Router!Range(Router!StrongPhrases), NEW p \in row.says, p # "python=/"
  PROVE  row.area \in Router!Areas /\ TellsOf(row.area, p)
<1> DEFINE Tells(r) == r.area \in Router!Areas /\ \A q \in r.says : q = "python=/" \/ TellsOf(r.area, q)
<1>1. Tells(StrongRow(1))
  <2>1. {"hip out of memory", "cuda out of memory", "outofmemoryerror", "oom-kill", "accelerator memory constraints", "vram used memory", "vram free memory"} \subseteq Router!Keywords("gpu")
    BY DEF Router!Keywords
  <2>2. /\ StrongRow(1).area = "gpu"
        /\ StrongRow(1).says = {"hip out of memory", "cuda out of memory", "outofmemoryerror", "oom-kill",
             "accelerator memory constraints", "vram used memory", "vram free memory"}
    BY StrongRows, Zenon
  <2>3. QED
    BY <2>1, <2>2 DEF TellsOf, Router!Areas
<1>2. Tells(StrongRow(2))
  <2>1. {"no space left on device", "errno 28", "disk quota exceeded"} \subseteq Router!Keywords("disk")
    BY DEF Router!Keywords
  <2>2. Router!Inside("df -h /tmp") = {"df -h"} /\ "df -h" \in Router!Keywords("disk")
    BY DEF Router!Inside, Router!Keywords
  <2>3. Router!Inside("df -ih /tmp") = {"df -ih"} /\ "df -ih" \in Router!Keywords("disk")
    BY DEF Router!Inside, Router!Keywords
  <2>4. /\ StrongRow(2).area = "disk"
        /\ StrongRow(2).says = {"no space left on device", "errno 28", "disk quota exceeded", "df -h /tmp",
             "df -ih /tmp"}
    BY StrongRows, Zenon
  <2>5. QED
    BY <2>1, <2>2, <2>3, <2>4 DEF TellsOf, Router!Areas
<1>3. Tells(StrongRow(3))
  <2>1. {"modulenotfounderror", "importerror", "no module named", "do not belong to the same environment", "python interpreter"} \subseteq Router!Keywords("python_env")
    BY DEF Router!Keywords
  <2>2. Router!Inside("pip=/") = {"pip"} /\ "pip" \in Router!Keywords("python_env")
    BY DEF Router!Inside, Router!Keywords
  <2>3. /\ StrongRow(3).area = "python_env"
        /\ StrongRow(3).says = {"modulenotfounderror", "importerror", "no module named",
             "do not belong to the same environment", "python interpreter", "python=/",
             "pip=/"}
    BY StrongRows, Zenon
  <2>4. QED
    BY <2>1, <2>2, <2>3 DEF TellsOf, Router!Areas
<1>4. Tells(StrongRow(4))
  <2>1. {"address already in use", "errno 98", "connection refused", "ss -lntp"} \subseteq Router!Keywords("network_port")
    BY DEF Router!Keywords
  <2>2. Router!Inside("lsof -i") = {"lsof"} /\ "lsof" \in Router!Keywords("network_port")
    BY DEF Router!Inside, Router!Keywords
  <2>3. /\ StrongRow(4).area = "network_port"
        /\ StrongRow(4).says = {"address already in use", "errno 98", "connection refused", "ss -lntp",
             "lsof -i"}
    BY StrongRows, Zenon
  <2>4. QED
    BY <2>1, <2>2, <2>3 DEF TellsOf, Router!Areas
<1>5. Tells(StrongRow(5))
  <2>1. {"slurmstepd", "jobstate=pending", "reason=resources", "submitted batch job", "squeue", "sinfo"} \subseteq Router!Keywords("slurm")
    BY DEF Router!Keywords
  <2>2. Router!Inside("scontrol show job") = {"scontrol"} /\ "scontrol" \in Router!Keywords("slurm")
    BY DEF Router!Inside, Router!Keywords
  <2>3. /\ StrongRow(5).area = "slurm"
        /\ StrongRow(5).says = {"slurmstepd", "jobstate=pending", "reason=resources", "submitted batch job",
             "scontrol show job", "squeue", "sinfo"}
    BY StrongRows, Zenon
  <2>4. QED
    BY <2>1, <2>2, <2>3 DEF TellsOf, Router!Areas
<1> HIDE DEF Tells
<1>6. PICK i \in 1..5 : row = StrongRow(i)
  <2>1. DOMAIN Router!StrongPhrases = 1..5
    BY StrongRows, Zenon
  <2>2. QED
    BY <2>1 DEF Router!Range, StrongRow
<1>7. Tells(row)
  <2>1. i = 1 \/ i = 2 \/ i = 3 \/ i = 4 \/ i = 5
    OBVIOUS
  <2>2. QED
    BY <1>1, <1>2, <1>3, <1>4, <1>5, <1>6, <2>1
<1>8. QED
  BY <1>7 DEF Tells

LEMMA TellingIsDetected ==
  ASSUME NEW said, NEW all, said \subseteq all, NEW area \in Router!Areas,
         NEW p \in Router!Read(said), TellsOf(area, p)
  PROVE  area \in DOMAIN Router!Scores(Router!Read(all))
<1>1. Router!Keywords(area) \cap Router!Read(all) # {}
  <2>1. CASE p \in Router!Keywords(area)
    BY <2>1, ReadHas
  <2>2. CASE /\ p \in {"df -h /tmp", "df -ih /tmp", "pip=/", "lsof -i", "scontrol show job"}
             /\ Router!Inside(p) \cap Router!Keywords(area) # {}
    <3>1. p \in said
      <4>1. \A q : p \notin Router!Inside(q)
        BY <2>2, OftenInside
      <4>2. QED
        BY <4>1 DEF Router!Read
    <3>2. Router!Inside(p) \subseteq Router!Read(all)
      BY <3>1, ReadHas
    <3>3. QED
      BY <2>2, <3>2
  <2>3. QED
    BY <2>1, <2>2 DEF TellsOf
<1>2. QED
  BY <1>1 DEF Router!Scores

\* The router: the areas it finds, the first of them its primary one.
LEMMA OrderedIs ==
  ASSUME NEW found, found \subseteq Router!Areas
  PROVE  /\ Router!Ordered(found) \in Seq(Router!Areas)
         /\ Router!Range(Router!Ordered(found)) = found
         /\ NoRepeats(Router!Ordered(found))
         /\ found # {} => Router!Ordered(found)[1] \in found
<1> DEFINE all == Router!ISSUE_PRIORITY
<1>1. /\ all \in Seq(Router!Areas) /\ DOMAIN all = 1..5
      /\ all[1] = "gpu" /\ all[2] = "slurm" /\ all[3] = "disk" /\ all[4] = "python_env"
      /\ all[5] = "network_port"
  BY DEF Router!ISSUE_PRIORITY, Router!Areas
<1>2. \A i \in 1..5 : i = 1 \/ i = 2 \/ i = 3 \/ i = 4 \/ i = 5
  OBVIOUS
<1> HIDE DEF all
<1>3. NoRepeats(all)
  BY <1>1, <1>2 DEF NoRepeats
<1>4. Router!Range(all) = Router!Areas
  BY <1>1, <1>2 DEF Router!Range, Router!Areas
<1>5. /\ Router!Ordered(found) \in Seq(Router!Areas)
      /\ Router!Range(Router!Ordered(found)) = Router!Areas \cap found
      /\ NoRepeats(Router!Ordered(found))
  BY <1>1, <1>3, <1>4, AmongIs DEF Router!Ordered, all
<1>6. ASSUME found # {}
      PROVE  Router!Ordered(found)[1] \in found
  <2>1. DOMAIN Router!Ordered(found) # {}
    BY <1>5, <1>6 DEF Router!Range
  <2>2. 1 \in DOMAIN Router!Ordered(found)
    BY <1>5, <2>1
  <2>3. QED
    BY <1>5, <2>2 DEF Router!Range
<1>7. QED
  BY <1>5, <1>6

LEMMA PrimaryIs ==
  ASSUME NEW text, NEW named, NEW found, found \subseteq Router!Areas, found # {}
  PROVE  /\ Router!DetectPrimary(text, named, found) \in Router!Areas
         /\ Router!NamedArea(named) # "none" =>
              Router!DetectPrimary(text, named, found) = Router!NamedArea(named)
<1>1. Router!NamedArea(named) \in Router!Areas \cup {"none"}
  BY DEF Router!NamedArea, Router!Areas
<1>2. Router!Ordered(found)[1] \in Router!Areas
  BY OrderedIs
<1>3. {"gpu", "slurm"} \subseteq Router!Areas
  BY DEF Router!Areas
<1>4. QED
  BY <1>1, <1>2, <1>3 DEF Router!DetectPrimary

\* What the router makes of the areas it finds.
Route(evidence, log) == Router!Classify(evidence, log)

FoundIn(evidence) == DOMAIN Router!Scores(Router!Previewed(evidence))

LEMMA RouteIs ==
  ASSUME NEW e, NEW log \in BOOLEAN, FoundIn(e) # {}
  PROVE  LET r == Route(e, log)
         IN  /\ r.primary \in Router!Areas
             /\ r.secondary = Router!Ordered(FoundIn(e) \ {r.primary})
             /\ Router!RouteTypes(r) \in Seq(Router!Areas)
             /\ Router!RouteTypes(r) # <<>> /\ Router!RouteTypes(r)[1] = r.primary
             /\ Router!Range(Router!RouteTypes(r)) = FoundIn(e) \cup {r.primary}
             /\ r.primaryTools = Router!PrimaryTools(r.primary, Router!RouteTypes(r), log)
             /\ r.optionalTools = Router!OptionalTools(Router!RouteTypes(r), r.primaryTools)
             /\ e.read /\ Router!NamedArea(Router!Read(e.named)) # "none" =>
                  r.primary = Router!NamedArea(Router!Read(e.named))
<1> DEFINE text == Router!Previewed(e)
           found == FoundIn(e)
           named == IF e.read THEN Router!Read(e.named) ELSE {}
           primary == Router!DetectPrimary(text, named, found)
           second == Router!Secondary(primary, found)
           areas == <<primary>> \o second
           tools == Router!PrimaryTools(primary, areas, log)
           r == Route(e, log)
<1>1. found \subseteq Router!Areas
  BY DEF FoundIn, Router!Scores
<1>2. /\ r.primary = primary /\ r.secondary = second /\ r.primaryTools = tools
      /\ r.optionalTools = Router!OptionalTools(areas, tools)
  <2>1. DOMAIN Router!Scores(Router!Previewed(e)) # {}
    BY DEF FoundIn
  <2> DEFINE sure == 45 + 8 * Router!Cardinality(UNION {Router!Scores(text)[a] : a \in DOMAIN Router!Scores(text)})
             capped == IF sure < 98 THEN sure ELSE 98
  <2>2. r = Router!RouteWith(primary, second, capped, tools, Router!OptionalTools(areas, tools))
    BY <2>1, Zenon DEF Route, Router!Classify, FoundIn
  <2> HIDE DEF primary, second, tools, areas, sure, capped, r
  <2>3. QED
    BY <2>2 DEF Router!RouteWith
<1> HIDE DEF text, named, r, tools
<1>3. primary \in Router!Areas /\ (Router!NamedArea(named) # "none" => primary = Router!NamedArea(named))
  BY <1>1, PrimaryIs
<1> HIDE DEF primary, found
<1>4. second \in Seq(Router!Areas) /\ Router!Range(second) = found \ {primary}
  BY <1>1, OrderedIs DEF Router!Secondary
<1>5. Router!RouteTypes(r) = areas
  BY <1>2 DEF Router!RouteTypes
<1>6. /\ areas \in Seq(Router!Areas) /\ areas # <<>> /\ areas[1] = primary
      /\ Router!Range(areas) = found \cup {primary}
  <2> HIDE DEF second
  <2>1. <<primary>> \in Seq(Router!Areas) /\ <<primary>> # <<>> /\ <<primary>>[1] = primary
    BY <1>3
  <2>2. Router!Range(<<primary>>) = {primary}
    BY DEF Router!Range
  <2>3. /\ areas \in Seq(Router!Areas)
        /\ Router!Range(areas) = Router!Range(<<primary>>) \cup Router!Range(second)
        /\ areas # <<>> /\ areas[1] = <<primary>>[1]
    BY <1>4, <2>1, ConcatIs
  <2> HIDE DEF areas
  <2>4. QED
    BY <1>4, <2>1, <2>2, <2>3
<1>7. e.read => named = Router!Read(e.named)
  BY DEF named
<1>8. second = Router!Ordered(found \ {primary})
  BY DEF Router!Secondary
<1> HIDE DEF areas, second
<1>9. QED
  BY <1>2, <1>3, <1>5, <1>6, <1>7, <1>8 DEF r, found, tools

LEMMA TuplesAre ==
  \A a, b, c : <<a>> \in Seq({a}) /\ <<a, b, c>> \in Seq({a, b, c})
OBVIOUS

\* The fixes of the areas, and that something executes them.
LEMMA HostFixes == {"fix-network-1", "fix-gpu-1"} \subseteq SafeFixes
<1> DEFINE s1 == SafeSpec("network_port", "network_port", "fix-network-1",
                          <<Port("metrics_port", 9101)>>)
           s2 == SafeSpec("gpu_oom", "gpu", "fix-gpu-1",
                          Lowers(<<"batch_size", "train_batch_size", "per_device_train_batch_size",
                                   "samples_per_gpu", "training.batch_size", "model.batch_size">>, 4))
<1>1. s1.fix = "fix-network-1" /\ s2.fix = "fix-gpu-1"
  BY DEF SafeSpec
<1>2. HostSpecs = <<s1, s2>>
  BY Zenon DEF HostSpecs
<1> HIDE DEF s1, s2
<1>3. PICK A, B, C, D : /\ HostSpecs \in Seq(A) /\ OptionalSpecs \in Seq(B)
                        /\ ServiceSpecs \in Seq(C) /\ LoadSpecs \in Seq(D)
  BY HostEvents, OptionalEvents, ServiceEvents, LoadEvents DEF Named
<1> DEFINE h == HostSpecs
           o == OptionalSpecs
           v == ServiceSpecs
           l == LoadSpecs
<1>4. h \in Seq(A) /\ o \in Seq(B) /\ v \in Seq(C) /\ l \in Seq(D) /\ SafeSpecs = h \o o \o v \o l
  BY <1>3 DEF SafeSpecs
<1>5. h = <<s1, s2>>
  BY <1>2
<1> HIDE DEF h, o, v, l
<1>6. /\ h \o o \in Seq(A \cup B)
      /\ \A i \in DOMAIN h : i \in DOMAIN (h \o o) /\ (h \o o)[i] = h[i]
  BY <1>4, ConcatElements
<1>7. /\ h \o o \o v \in Seq((A \cup B) \cup C)
      /\ \A i \in DOMAIN (h \o o) : i \in DOMAIN (h \o o \o v) /\ (h \o o \o v)[i] = (h \o o)[i]
  BY <1>4, <1>6, ConcatElements
<1>8. \A i \in DOMAIN (h \o o \o v) : i \in DOMAIN SafeSpecs /\ SafeSpecs[i] = (h \o o \o v)[i]
  BY <1>4, <1>7, ConcatElements
<1>9. 1 \in DOMAIN h /\ 2 \in DOMAIN h /\ h[1] = s1 /\ h[2] = s2
  BY <1>5
<1>10. s1 \in Range(SafeSpecs) /\ s2 \in Range(SafeSpecs)
  <2>1. ASSUME NEW i \in DOMAIN h PROVE i \in DOMAIN SafeSpecs /\ SafeSpecs[i] = h[i]
    BY <1>6, <1>7, <1>8
  <2>2. QED
    BY <1>9, <2>1 DEF Range
<1>11. QED
  BY <1>1, <1>10 DEF SafeFixes

AreaFixes == UNION {Router!Range(Router!FixesOf(area)) : area \in Router!Areas}

FixesAreOf(area, ids) ==
  LET fixes == Router!FixesOf(area)
  IN  /\ fixes \in Seq(Router!Range(fixes)) /\ fixes # <<>> /\ 1 \in DOMAIN fixes
      /\ \A i \in DOMAIN fixes : fixes[i].issue = area /\ fixes[i].fix \in ids
      /\ \A i \in DOMAIN fixes : fixes[i].supported \in BOOLEAN
      /\ \A i \in DOMAIN fixes :
           fixes[i].supported = TRUE /\ fixes[i].fix # "fix-gpu-3" => fixes[i].fix \in Executable
      /\ \A i, j \in DOMAIN fixes : fixes[i].fix = fixes[j].fix => i = j

LEMMA GpuFixesAre == FixesAreOf("gpu", {"fix-gpu-1", "fix-gpu-2", "fix-gpu-3"})
<1> DEFINE f1 == Router!Fix("fix-gpu-1", "gpu", "confirm_required", TRUE,
                             {"cuda", "hip", "dcu", "oom", "nvidia-smi", "hy-smi", "gpu", "gpu words"})
           f2 == Router!Fix("fix-gpu-2", "gpu", "confirm_required", TRUE,
                             {"hy-smi", "pytorch_hip_alloc_conf", "pytorch_cuda_alloc_conf", "gpu", "gpu words"})
           f3 == Router!Fix("fix-gpu-3", "gpu", "confirm_required", TRUE,
                             {"cuda", "hip", "dcu", "pytorch_hip_alloc_conf", "pytorch_cuda_alloc_conf", "gpu",
                              "gpu words"})
<1>1. /\ f1.fix = "fix-gpu-1" /\ f1.issue = "gpu" /\ f1.supported = TRUE
      /\ f2.fix = "fix-gpu-2" /\ f2.issue = "gpu" /\ f2.supported = TRUE
      /\ f3.fix = "fix-gpu-3" /\ f3.issue = "gpu" /\ f3.supported = TRUE
  BY DEF Router!Fix
<1>2. Router!FixesOf("gpu") = <<f1, f2, f3>>
  BY Zenon DEF Router!FixesOf, Router!GpuFixes
<1> HIDE DEF f1, f2, f3
<1> DEFINE fixes == Router!FixesOf("gpu")
<1>3. /\ DOMAIN fixes = 1..3 /\ fixes # <<>> /\ fixes[1] = f1 /\ fixes[2] = f2 /\ fixes[3] = f3
      /\ fixes \in Seq({f1, f2, f3})
  <2>1. DOMAIN fixes = 1..3 /\ fixes # <<>>
    BY <1>2
  <2>2. fixes[1] = f1 /\ fixes[2] = f2 /\ fixes[3] = f3
    BY <1>2
  <2>3. fixes \in Seq({f1, f2, f3})
    <3>1. \A a, b, c : <<a, b, c>> \in Seq({a, b, c})
      OBVIOUS
    <3>2. QED
      BY <1>2, <3>1, Zenon
  <2>4. QED
    BY <2>1, <2>2, <2>3
<1> HIDE DEF fixes
<1>4. \A i \in 1..3 : i = 1 \/ i = 2 \/ i = 3
  OBVIOUS
<1>5. fixes \in Seq(Router!Range(fixes))
  <2>1. Router!Range(fixes) = {f1, f2, f3}
    BY <1>3, <1>4 DEF Router!Range
  <2>2. QED
    BY <1>3, <2>1
<1>6. {"fix-gpu-1", "fix-gpu-2"} \subseteq Executable
  BY HostFixes DEF Executable, Router!DirectFixes
<1>7. /\ \A i \in DOMAIN fixes : fixes[i].issue = "gpu" /\ fixes[i].fix \in {"fix-gpu-1", "fix-gpu-2", "fix-gpu-3"}
      /\ \A i \in DOMAIN fixes : fixes[i].supported \in BOOLEAN
      /\ \A i \in DOMAIN fixes :
           fixes[i].supported = TRUE /\ fixes[i].fix # "fix-gpu-3" => fixes[i].fix \in Executable
  BY <1>1, <1>3, <1>4, <1>6
<1>8. \A i, j \in DOMAIN fixes : fixes[i].fix = fixes[j].fix => i = j
  BY <1>1, <1>3, <1>4
<1>9. QED
  BY <1>3, <1>5, <1>7, <1>8 DEF FixesAreOf, fixes

LEMMA PythonFixesAre == FixesAreOf("python_env", {"fix-python-1"})
<1> DEFINE f1 == Router!Fix("fix-python-1", "python_env", "confirm_required", TRUE,
                             {"modulenotfounderror", "which python", "pip", "python words"})
<1>1. /\ f1.fix = "fix-python-1" /\ f1.issue = "python_env" /\ f1.supported = TRUE
  BY DEF Router!Fix
<1>2. Router!FixesOf("python_env") = <<f1>>
  BY Zenon DEF Router!FixesOf, Router!PythonFixes
<1> HIDE DEF f1
<1> DEFINE fixes == Router!FixesOf("python_env")
<1>3. /\ DOMAIN fixes = 1..1 /\ fixes # <<>> /\ fixes[1] = f1
      /\ fixes \in Seq({f1})
  <2>1. DOMAIN fixes = 1..1 /\ fixes # <<>>
    BY <1>2
  <2>2. fixes[1] = f1
    BY <1>2
  <2>3. fixes \in Seq({f1})
    BY <1>2, TuplesAre, Zenon
  <2>4. QED
    BY <2>1, <2>2, <2>3
<1> HIDE DEF fixes
<1>4. \A i \in 1..1 : i = 1
  OBVIOUS
<1>5. fixes \in Seq(Router!Range(fixes))
  <2>1. Router!Range(fixes) = {f1}
    BY <1>3, <1>4 DEF Router!Range
  <2>2. QED
    BY <1>3, <2>1
<1>6. {"fix-python-1"} \subseteq Executable
  BY HostFixes DEF Executable, Router!DirectFixes
<1>7. /\ \A i \in DOMAIN fixes : fixes[i].issue = "python_env" /\ fixes[i].fix \in {"fix-python-1"}
      /\ \A i \in DOMAIN fixes : fixes[i].supported \in BOOLEAN
      /\ \A i \in DOMAIN fixes :
           fixes[i].supported = TRUE /\ fixes[i].fix # "fix-gpu-3" => fixes[i].fix \in Executable
  BY <1>1, <1>3, <1>4, <1>6
<1>8. \A i, j \in DOMAIN fixes : fixes[i].fix = fixes[j].fix => i = j
  BY <1>1, <1>3, <1>4
<1>9. QED
  BY <1>3, <1>5, <1>7, <1>8 DEF FixesAreOf, fixes

LEMMA DiskFixesAre == FixesAreOf("disk", {"fix-disk-1"})
<1> DEFINE f1 == Router!Fix("fix-disk-1", "disk", "confirm_required", TRUE,
                             {"no space left on device", "df -h /tmp", "df -ih /tmp", "du -sh"})
<1>1. /\ f1.fix = "fix-disk-1" /\ f1.issue = "disk" /\ f1.supported = TRUE
  BY DEF Router!Fix
<1>2. Router!FixesOf("disk") = <<f1>>
  BY Zenon DEF Router!FixesOf, Router!DiskFixes
<1> HIDE DEF f1
<1> DEFINE fixes == Router!FixesOf("disk")
<1>3. /\ DOMAIN fixes = 1..1 /\ fixes # <<>> /\ fixes[1] = f1
      /\ fixes \in Seq({f1})
  <2>1. DOMAIN fixes = 1..1 /\ fixes # <<>>
    BY <1>2
  <2>2. fixes[1] = f1
    BY <1>2
  <2>3. fixes \in Seq({f1})
    BY <1>2, TuplesAre, Zenon
  <2>4. QED
    BY <2>1, <2>2, <2>3
<1> HIDE DEF fixes
<1>4. \A i \in 1..1 : i = 1
  OBVIOUS
<1>5. fixes \in Seq(Router!Range(fixes))
  <2>1. Router!Range(fixes) = {f1}
    BY <1>3, <1>4 DEF Router!Range
  <2>2. QED
    BY <1>3, <2>1
<1>6. {"fix-disk-1"} \subseteq Executable
  BY HostFixes DEF Executable, Router!DirectFixes
<1>7. /\ \A i \in DOMAIN fixes : fixes[i].issue = "disk" /\ fixes[i].fix \in {"fix-disk-1"}
      /\ \A i \in DOMAIN fixes : fixes[i].supported \in BOOLEAN
      /\ \A i \in DOMAIN fixes :
           fixes[i].supported = TRUE /\ fixes[i].fix # "fix-gpu-3" => fixes[i].fix \in Executable
  BY <1>1, <1>3, <1>4, <1>6
<1>8. \A i, j \in DOMAIN fixes : fixes[i].fix = fixes[j].fix => i = j
  BY <1>1, <1>3, <1>4
<1>9. QED
  BY <1>3, <1>5, <1>7, <1>8 DEF FixesAreOf, fixes

LEMMA NetworkFixesAre == FixesAreOf("network_port", {"fix-network-1"})
<1> DEFINE f1 == Router!Fix("fix-network-1", "network_port", "confirm_required", TRUE,
                             {"address already in use", "ss -lntp", "lsof -i", "tensorboard", "9100", "port",
                              "port words"})
<1>1. /\ f1.fix = "fix-network-1" /\ f1.issue = "network_port" /\ f1.supported = TRUE
  BY DEF Router!Fix
<1>2. Router!FixesOf("network_port") = <<f1>>
  BY Zenon DEF Router!FixesOf, Router!NetworkFixes
<1> HIDE DEF f1
<1> DEFINE fixes == Router!FixesOf("network_port")
<1>3. /\ DOMAIN fixes = 1..1 /\ fixes # <<>> /\ fixes[1] = f1
      /\ fixes \in Seq({f1})
  <2>1. DOMAIN fixes = 1..1 /\ fixes # <<>>
    BY <1>2
  <2>2. fixes[1] = f1
    BY <1>2
  <2>3. fixes \in Seq({f1})
    BY <1>2, TuplesAre, Zenon
  <2>4. QED
    BY <2>1, <2>2, <2>3
<1> HIDE DEF fixes
<1>4. \A i \in 1..1 : i = 1
  OBVIOUS
<1>5. fixes \in Seq(Router!Range(fixes))
  <2>1. Router!Range(fixes) = {f1}
    BY <1>3, <1>4 DEF Router!Range
  <2>2. QED
    BY <1>3, <2>1
<1>6. {"fix-network-1"} \subseteq Executable
  BY HostFixes DEF Executable, Router!DirectFixes
<1>7. /\ \A i \in DOMAIN fixes : fixes[i].issue = "network_port" /\ fixes[i].fix \in {"fix-network-1"}
      /\ \A i \in DOMAIN fixes : fixes[i].supported \in BOOLEAN
      /\ \A i \in DOMAIN fixes :
           fixes[i].supported = TRUE /\ fixes[i].fix # "fix-gpu-3" => fixes[i].fix \in Executable
  BY <1>1, <1>3, <1>4, <1>6
<1>8. \A i, j \in DOMAIN fixes : fixes[i].fix = fixes[j].fix => i = j
  BY <1>1, <1>3, <1>4
<1>9. QED
  BY <1>3, <1>5, <1>7, <1>8 DEF FixesAreOf, fixes

LEMMA SlurmFixesAre == FixesAreOf("slurm", {"fix-slurm-1"})
<1> DEFINE f1 == Router!Fix("fix-slurm-1", "slurm", "manual_only", FALSE,
                             {"slurm", "slurmstepd", "oom-kill", "oom", "gpu", "sbatch", "squeue", "pending", "partition",
                              "gres", "scontrol show job", "sinfo", "slurm words"})
<1>1. /\ f1.fix = "fix-slurm-1" /\ f1.issue = "slurm" /\ f1.supported = FALSE
  BY DEF Router!Fix
<1>2. Router!FixesOf("slurm") = <<f1>>
  BY Zenon DEF Router!FixesOf, Router!SlurmFixes
<1> HIDE DEF f1
<1> DEFINE fixes == Router!FixesOf("slurm")
<1>3. /\ DOMAIN fixes = 1..1 /\ fixes # <<>> /\ fixes[1] = f1
      /\ fixes \in Seq({f1})
  <2>1. DOMAIN fixes = 1..1 /\ fixes # <<>>
    BY <1>2
  <2>2. fixes[1] = f1
    BY <1>2
  <2>3. fixes \in Seq({f1})
    BY <1>2, TuplesAre, Zenon
  <2>4. QED
    BY <2>1, <2>2, <2>3
<1> HIDE DEF fixes
<1>4. \A i \in 1..1 : i = 1
  OBVIOUS
<1>5. fixes \in Seq(Router!Range(fixes))
  <2>1. Router!Range(fixes) = {f1}
    BY <1>3, <1>4 DEF Router!Range
  <2>2. QED
    BY <1>3, <2>1
<1>6. {} \subseteq Executable
  BY HostFixes DEF Executable, Router!DirectFixes
<1>7. /\ \A i \in DOMAIN fixes : fixes[i].issue = "slurm" /\ fixes[i].fix \in {"fix-slurm-1"}
      /\ \A i \in DOMAIN fixes : fixes[i].supported \in BOOLEAN
      /\ \A i \in DOMAIN fixes :
           fixes[i].supported = TRUE /\ fixes[i].fix # "fix-gpu-3" => fixes[i].fix \in Executable
  BY <1>1, <1>3, <1>4, <1>6
<1>8. \A i, j \in DOMAIN fixes : fixes[i].fix = fixes[j].fix => i = j
  BY <1>1, <1>3, <1>4
<1>9. QED
  BY <1>3, <1>5, <1>7, <1>8 DEF FixesAreOf, fixes

\* Every area has fixes of its own, and a fix identifier is one fix.
IdsOf(area) ==
  CASE area = "gpu" -> {"fix-gpu-1", "fix-gpu-2", "fix-gpu-3"}
    [] area = "python_env" -> {"fix-python-1"}
    [] area = "disk" -> {"fix-disk-1"}
    [] area = "network_port" -> {"fix-network-1"}
    [] area = "slurm" -> {"fix-slurm-1"}

LEMMA FixesAre == \A area \in Router!Areas : FixesAreOf(area, IdsOf(area))
<1>1. \A area \in Router!Areas :
        area = "gpu" \/ area = "python_env" \/ area = "disk" \/ area = "network_port" \/ area = "slurm"
  BY DEF Router!Areas
<1>2. /\ IdsOf("gpu") = {"fix-gpu-1", "fix-gpu-2", "fix-gpu-3"}
      /\ IdsOf("python_env") = {"fix-python-1"}
      /\ IdsOf("disk") = {"fix-disk-1"}
      /\ IdsOf("network_port") = {"fix-network-1"}
      /\ IdsOf("slurm") = {"fix-slurm-1"}
  BY DEF IdsOf
<1>3. QED
  BY <1>1, <1>2, GpuFixesAre, PythonFixesAre, DiskFixesAre, NetworkFixesAre, SlurmFixesAre, Zenon

LEMMA IdsAreOfOne ==
  \A a, b \in Router!Areas : a # b => IdsOf(a) \cap IdsOf(b) = {}
BY DEF Router!Areas, IdsOf

LEMMA OneFixForAnId ==
  ASSUME NEW f \in AreaFixes, NEW g \in AreaFixes, f.fix = g.fix
  PROVE  f = g
<1>1. PICK a \in Router!Areas, b \in Router!Areas :
        f \in Router!Range(Router!FixesOf(a)) /\ g \in Router!Range(Router!FixesOf(b))
  BY DEF AreaFixes
<1>2. PICK i \in DOMAIN Router!FixesOf(a), j \in DOMAIN Router!FixesOf(b) :
        f = Router!FixesOf(a)[i] /\ g = Router!FixesOf(b)[j]
  BY <1>1 DEF Router!Range
<1>a. FixesAreOf(a, IdsOf(a)) /\ FixesAreOf(b, IdsOf(b))
  BY FixesAre
<1>3. f.fix \in IdsOf(a) /\ g.fix \in IdsOf(b)
  <2>1. Router!FixesOf(a)[i].fix \in IdsOf(a)
    <3>1. \A k \in DOMAIN Router!FixesOf(a) : Router!FixesOf(a)[k].fix \in IdsOf(a)
      BY <1>a DEF FixesAreOf
    <3>2. QED
      BY <1>2, <3>1
  <2>2. Router!FixesOf(b)[j].fix \in IdsOf(b)
    <3>1. \A k \in DOMAIN Router!FixesOf(b) : Router!FixesOf(b)[k].fix \in IdsOf(b)
      BY <1>a DEF FixesAreOf
    <3>2. QED
      BY <1>2, <3>1
  <2>3. QED
    BY <1>2, <2>1, <2>2
<1>4. a = b
  BY <1>3, IdsAreOfOne
<1>5. i = j
  <2>1. i \in DOMAIN Router!FixesOf(a) /\ j \in DOMAIN Router!FixesOf(a)
    BY <1>2, <1>4
  <2>2. Router!FixesOf(a)[i].fix = Router!FixesOf(a)[j].fix
    BY <1>2, <1>4
  <2>3. QED
    BY <1>a, <2>1, <2>2 DEF FixesAreOf
<1>6. QED
  BY <1>2, <1>4, <1>5

\* The plan: the fixes of the areas that are allowed, each once, those of the first area first.
LEMMA PlanIs ==
  ASSUME NEW r, Router!RouteTypes(r) \in Seq(Router!Areas), Router!RouteTypes(r) # <<>>, NEW allowed
  PROVE  LET types == Router!RouteTypes(r)
             plan == Router!FixPlan(r, allowed)
         IN  /\ plan \in Seq(AreaFixes) /\ NoRepeats(plan)
             /\ Router!Range(plan) =
                  UNION {Router!Range(Router!FixesOf(a)) : a \in Router!Range(types) \cap allowed}
             /\ types[1] \in allowed => plan # <<>> /\ plan[1] = Router!FixesOf(types[1])[1]
<1> DEFINE all == Router!RouteTypes(r)
           types == Router!Among(all, allowed)
           seqs == [i \in DOMAIN types |-> Router!FixesOf(types[i])]
           flat == Router!FlattenSeq(seqs)
           plan == Router!FixPlan(r, allowed)
<1>1. /\ types \in Seq(Router!Areas)
      /\ Router!Range(types) = Router!Range(all) \cap allowed
      /\ all[1] \in allowed => types # <<>> /\ types[1] = all[1]
  <2>1. all \in Seq(Router!Areas) /\ all # <<>>
    OBVIOUS
  <2> HIDE DEF all
  <2>2. types \in Seq(Router!Areas)
    BY <2>1, AmongIs
  <2>3. Router!Range(types) = Router!Range(all) \cap allowed
    BY <2>1, AmongIs
  <2>4. ASSUME all[1] \in allowed
        PROVE  types # <<>> /\ types[1] = all[1]
    <3>1. types # <<>>
      BY <2>1, <2>4, AmongIs
    <3>2. types[1] = all[1]
      BY <2>1, <2>4, AmongIs
    <3>3. QED
      BY <3>1, <3>2
  <2> HIDE DEF types
  <2>5. QED
    BY <2>2, <2>3, <2>4
<1>2. plan = Router!Unrepeated(flat)
  BY Zenon DEF Router!FixPlan
<1> HIDE DEF types, all, plan
<1>3. \A a \in Router!Areas : /\ Router!FixesOf(a) \in Seq(AreaFixes)
                             /\ Router!FixesOf(a) # <<>>
  <2>1. ASSUME NEW a \in Router!Areas
        PROVE  Router!FixesOf(a) \in Seq(AreaFixes) /\ Router!FixesOf(a) # <<>>
    <3>1. Router!FixesOf(a) \in Seq(Router!Range(Router!FixesOf(a))) /\ Router!FixesOf(a) # <<>>
      BY FixesAre DEF FixesAreOf
    <3>2. Router!Range(Router!FixesOf(a)) \subseteq AreaFixes
      BY DEF AreaFixes
    <3>3. QED
      BY <3>1, <3>2
  <2>2. QED
    BY <2>1
<1>4. /\ DOMAIN types = 1..Len(types) /\ Len(types) \in Nat
      /\ \A i \in DOMAIN types : types[i] \in Router!Areas
  BY <1>1
<1>5. /\ seqs \in Seq(Seq(AreaFixes)) /\ DOMAIN seqs = DOMAIN types /\ Len(seqs) = Len(types)
      /\ \A i \in DOMAIN types : seqs[i] = Router!FixesOf(types[i])
  BY <1>3, <1>4
<1> HIDE DEF seqs
<1>6. /\ flat \in Seq(AreaFixes)
      /\ Router!Range(flat) = UNION {Router!Range(seqs[i]) : i \in DOMAIN seqs}
      /\ types # <<>> => flat # <<>> /\ flat[1] = Router!FixesOf(types[1])[1]
  <2>1. CASE types = <<>>
    <3>1. Len(types) = 0
      BY <2>1
    <3>2. seqs = <<>>
      BY <1>5, <3>1, EmptySeq
    <3>3. flat = <<>>
      BY <1>5, <3>1, <3>2 DEF Router!FlattenSeq
    <3>4. <<>> \in Seq(AreaFixes) /\ DOMAIN <<>> = {}
      OBVIOUS
    <3>5. Router!Range(flat) = {} /\ DOMAIN seqs = {}
      BY <3>2, <3>3, <3>4 DEF Router!Range
    <3>6. QED
      BY <2>1, <3>3, <3>4, <3>5
  <2>2. CASE types # <<>>
    <3>1. Len(types) # 0 /\ 1 \in DOMAIN types
      BY <1>1, <1>4, <2>2, EmptySeq
    <3>2. seqs # <<>> /\ seqs[1] # <<>> /\ seqs[1] = Router!FixesOf(types[1])
      <4>1. Len(seqs) # 0
        BY <1>5, <3>1
      <4>2. seqs # <<>>
        BY <4>1
      <4>3. QED
        BY <1>3, <1>4, <1>5, <3>1, <4>2
    <3>3. /\ flat \in Seq(AreaFixes)
          /\ Router!Range(flat) = UNION {Router!Range(seqs[i]) : i \in DOMAIN seqs}
          /\ flat # <<>> /\ flat[1] = seqs[1][1]
      BY <1>5, <3>2, FlattenIs
    <3>4. QED
      BY <3>2, <3>3
  <2>3. QED
    BY <2>1, <2>2
<1> HIDE DEF flat
<1>7. /\ plan \in Seq(AreaFixes) /\ NoRepeats(plan)
      /\ Router!Range(plan) = Router!Range(flat)
      /\ flat # <<>> => plan # <<>> /\ plan[1] = flat[1]
  BY <1>2, <1>6, UnrepeatedIs
<1>8. Router!Range(flat) =
        UNION {Router!Range(Router!FixesOf(a)) : a \in Router!Range(all) \cap allowed}
  <2>1. Router!Range(types) = {types[i] : i \in DOMAIN types}
    BY DEF Router!Range
  <2>2. Router!Range(flat) = UNION {Router!Range(Router!FixesOf(types[i])) : i \in DOMAIN types}
    BY <1>5, <1>6
  <2>3. QED
    BY <1>1, <2>1, <2>2
<1>9. all[1] \in allowed => plan # <<>> /\ plan[1] = Router!FixesOf(all[1])[1]
  BY <1>1, <1>6, <1>7
<1>10. QED
  BY <1>7, <1>8, <1>9 DEF plan, all

\* generate_fix_plan, for any evidence.
PlanOf(e) == Router!Generate(e)

SaidLast(e) == Router!Read(e.tail \cup e.named)

LEMMA PlanOfIs ==
  ASSUME NEW e
  PROVE  /\ PlanOf(e).route = Route(e, TRUE)
         /\ PlanOf(e).fixes = Router!FixPlan(Route(e, TRUE), Router!StrongTypes(Route(e, TRUE), e))
<1>1. PlanOf(e) = [route |-> Route(e, TRUE),
                   fixes |-> Router!FixPlan(Route(e, TRUE), Router!StrongTypes(Route(e, TRUE), e))]
  BY Zenon DEF PlanOf, Router!Generate, Route
<1>2. QED
  BY <1>1

\* Where the router finds nothing, the plan is empty.
LEMMA NothingPlanned ==
  ASSUME NEW e, FoundIn(e) = {}
  PROVE  Router!Range(PlanOf(e).fixes) = {}
<1> DEFINE r == Route(e, TRUE)
           allowed == Router!StrongTypes(r, e)
           types == Router!Among(Router!RouteTypes(r), allowed)
           seqs == [i \in DOMAIN types |-> Router!FixesOf(types[i])]
           flat == Router!FlattenSeq(seqs)
<1>1. r = Router!RouteWith("log", <<>>, 55, <<"diagnose_log_file">>, <<"read_log_file">>)
  BY Zenon DEF Route, Router!Classify, FoundIn
<1>2. Router!RouteTypes(r) = <<"log">> \o <<>>
  <2> HIDE DEF r
  <2>1. r.primary = "log" /\ r.secondary = <<>>
    BY <1>1 DEF Router!RouteWith
  <2>2. QED
    BY <2>1 DEF Router!RouteTypes
<1>3. <<"log">> \o <<>> = <<"log">> /\ <<"log">> \in Seq({"log"})
  OBVIOUS
<1>4. PlanOf(e).fixes = Router!Unrepeated(flat)
  BY PlanOfIs, Zenon DEF Router!FixPlan
<1> HIDE DEF r, allowed
<1>5. types \in Seq({"log"})
  BY <1>2, <1>3, AmongIs
<1> HIDE DEF types
<1>6. \A i \in DOMAIN types : types[i] = "log"
  BY <1>5
<1>7. Router!FixesOf("log") = <<>>
  BY DEF Router!FixesOf
<1>8. /\ seqs \in Seq(Seq({})) /\ DOMAIN seqs = DOMAIN types /\ Len(seqs) = Len(types)
      /\ \A i \in DOMAIN seqs : seqs[i] = <<>>
  <2>1. DOMAIN types = 1..Len(types) /\ Len(types) \in Nat /\ <<>> \in Seq({})
    BY <1>5
  <2>2. \A i \in DOMAIN types : Router!FixesOf(types[i]) = <<>>
    BY <1>6, <1>7
  <2>3. \A i \in DOMAIN types : Router!FixesOf(types[i]) \in Seq({})
    BY <2>1, <2>2
  <2>4. /\ seqs \in Seq(Seq({})) /\ DOMAIN seqs = DOMAIN types /\ Len(seqs) = Len(types)
        /\ \A i \in DOMAIN types : seqs[i] = Router!FixesOf(types[i])
    BY <2>1, <2>3
  <2>5. QED
    BY <2>2, <2>4
<1> HIDE DEF seqs
<1>9. flat \in Seq({})
  <2>1. CASE seqs = <<>>
    <3>1. Len(seqs) = 0 /\ <<>> \in Seq({})
      BY <2>1
    <3>2. QED
      BY <2>1, <3>1 DEF Router!FlattenSeq
  <2>2. CASE seqs # <<>>
    BY <1>8, <2>2, FlattenIs
  <2>3. QED
    BY <2>1, <2>2
<1> HIDE DEF flat
<1>10. Router!Unrepeated(flat) \in Seq({})
  BY <1>9, UnrepeatedIs
<1>11. ASSUME NEW s \in Seq({}) PROVE Router!Range(s) = {}
  <2>1. DOMAIN s = {}
    BY <1>11
  <2>2. QED
    BY <2>1 DEF Router!Range
<1>12. QED
  BY <1>4, <1>10, <1>11

\* An area the end of the evidence speaks strongly of is found, kept and planned for.
LEMMA StrongIsPlanned ==
  ASSUME NEW e, e.read = TRUE, NEW row \in Router!Range(Router!StrongPhrases),
         NEW p \in row.says, p # "python=/", p \in SaidLast(e)
  PROVE  row.area \in FixTypes(PlanOf(e).fixes)
<1> DEFINE said == e.tail \cup e.named
           all == e.path \cup said
           r == Route(e, TRUE)
           allowed == Router!StrongTypes(r, e)
           area == row.area
<1>1. area \in Router!Areas /\ TellsOf(area, p)
  BY StrongIsTelling
<1>2. area \in FoundIn(e)
  <2>1. Router!Previewed(e) = Router!Read(all)
    BY DEF Router!Previewed
  <2>2. p \in Router!Read(said) /\ said \subseteq all
    BY DEF SaidLast
  <2> HIDE DEF said, all, area
  <2>3. area \in DOMAIN Router!Scores(Router!Read(all))
    BY <1>1, <2>2, TellingIsDetected
  <2>4. QED
    BY <2>1, <2>3 DEF FoundIn
<1>3. area \in Router!Range(Router!RouteTypes(r))
  BY <1>2, RouteIs
<1>4. area \in allowed
  <2> DEFINE text == Router!Read(e.early \cup e.tail \cup e.named)
             strong == {w \in Router!Range(Router!StrongPhrases) :
                          w.says \cap text # {} /\ w.area \in Router!Range(Router!RouteTypes(r))}
  <2>1. p \in text
    <3>1. said \subseteq e.early \cup e.tail \cup e.named
      OBVIOUS
    <3>2. Router!Read(said) \subseteq text
      BY <3>1, ReadHas
    <3>3. QED
      BY <3>2 DEF SaidLast
  <2>2. row \in strong
    BY <1>3, <2>1
  <2>3. allowed = CASE strong # {} -> {w.area : w \in strong}
                    [] strong = {} /\ r.primary \notin {"unknown", "log"} /\ r.confidence >= 70 ->
                          {r.primary}
                    [] OTHER -> {}
    BY Zenon DEF Router!StrongTypes
  <2> HIDE DEF strong, allowed, text, r
  <2>4. allowed = {w.area : w \in strong}
    BY <2>2, <2>3
  <2>5. QED
    BY <2>2, <2>4
<1>5. /\ Router!RouteTypes(r) \in Seq(Router!Areas) /\ Router!RouteTypes(r) # <<>>
  BY <1>2, RouteIs
<1> HIDE DEF r, allowed
<1> DEFINE plan == Router!FixPlan(r, allowed)
<1>6. Router!Range(plan) =
        UNION {Router!Range(Router!FixesOf(a)) : a \in Router!Range(Router!RouteTypes(r)) \cap allowed}
  BY <1>5, PlanIs
<1> HIDE DEF plan
<1>7. Router!Range(Router!FixesOf(area)) \subseteq Router!Range(plan)
  BY <1>3, <1>4, <1>6
<1>8. PICK f \in Router!Range(Router!FixesOf(area)) : f.issue = area
  <2>1. 1 \in DOMAIN Router!FixesOf(area) /\ Router!FixesOf(area)[1].issue = area
    BY <1>1, FixesAre DEF FixesAreOf
  <2>2. QED
    BY <2>1 DEF Router!Range
<1>9. PlanOf(e).fixes = plan
  BY PlanOfIs DEF plan, r, allowed
<1>10. QED
  BY <1>7, <1>8, <1>9 DEF FixTypes, Range, Router!Range

\* The fixes offered: every area spoken of strongly has its own, a named failure comes first, what is
\* supported is executed, and no fix is offered twice - for any evidence.
THEOREM PlanAnswersAnyEvidence ==
  ASSUME NEW e, e.read = TRUE
  PROVE  LET fixes == PlanOf(e).fixes
             named == Router!NamedArea(Router!Read(e.named))
         IN  /\ \A row \in Router!Range(Router!StrongPhrases) :
                  (row.says \ {"python=/"}) \cap SaidLast(e) # {} => row.area \in FixTypes(fixes)
             /\ named \in FixTypes(fixes) => fixes[1].issue = named
             /\ \A f \in Router!Range(fixes) : f.supported /\ f.fix # "fix-gpu-3" => f.fix \in Executable
             /\ \A i, j \in DOMAIN fixes : fixes[i].fix = fixes[j].fix => i = j
<1> DEFINE fixes == PlanOf(e).fixes
           named == Router!NamedArea(Router!Read(e.named))
           r == Route(e, TRUE)
           allowed == Router!StrongTypes(r, e)
           types == Router!RouteTypes(r)
<1>1. ASSUME NEW row \in Router!Range(Router!StrongPhrases),
             (row.says \ {"python=/"}) \cap SaidLast(e) # {}
      PROVE  row.area \in FixTypes(fixes)
  BY <1>1, StrongIsPlanned
<1>2. ASSUME FoundIn(e) = {}
      PROVE  Router!Range(fixes) = {} /\ DOMAIN fixes = {} /\ FixTypes(fixes) = {}
  <2>1. Router!Range(fixes) = {}
    BY <1>2, NothingPlanned
  <2> HIDE DEF fixes
  <2>2. QED
    BY <2>1 DEF Router!Range, FixTypes, Range
<1>3. ASSUME FoundIn(e) # {}
      PROVE  /\ named \in FixTypes(fixes) => fixes[1].issue = named
             /\ \A f \in Router!Range(fixes) : f.supported /\ f.fix # "fix-gpu-3" => f.fix \in Executable
             /\ \A i, j \in DOMAIN fixes : fixes[i].fix = fixes[j].fix => i = j
  <2>1. /\ types \in Seq(Router!Areas) /\ types # <<>> /\ types[1] = r.primary
        /\ named # "none" => r.primary = named
    BY <1>3, RouteIs
  <2>2. fixes = Router!FixPlan(r, allowed)
    BY PlanOfIs
  <2>3. /\ fixes \in Seq(AreaFixes) /\ NoRepeats(fixes)
        /\ Router!Range(fixes) =
             UNION {Router!Range(Router!FixesOf(a)) : a \in Router!Range(types) \cap allowed}
        /\ types[1] \in allowed => fixes # <<>> /\ fixes[1] = Router!FixesOf(types[1])[1]
    <3>1. Router!RouteTypes(r) \in Seq(Router!Areas) /\ Router!RouteTypes(r) # <<>>
      BY <2>1
    <3> HIDE DEF r, allowed, fixes
    <3>2. QED
      BY <2>2, <3>1, PlanIs
  <2> HIDE DEF r, allowed, types, fixes, named
  <2>4. Router!Range(types) \subseteq Router!Areas
    BY <2>1 DEF Router!Range
  <2>5. ASSUME NEW f \in Router!Range(fixes)
        PROVE  \E a \in Router!Range(types) \cap allowed :
                 f.issue = a /\ (f.supported /\ f.fix # "fix-gpu-3" => f.fix \in Executable)
    <3>1. PICK a \in Router!Range(types) \cap allowed : f \in Router!Range(Router!FixesOf(a))
      BY <2>3
    <3>2. FixesAreOf(a, IdsOf(a))
      BY <2>4, FixesAre
    <3>3. PICK i \in DOMAIN Router!FixesOf(a) : f = Router!FixesOf(a)[i]
      BY <3>1 DEF Router!Range
    <3>4. /\ f.issue = a /\ f.supported \in BOOLEAN
          /\ f.supported = TRUE /\ f.fix # "fix-gpu-3" => f.fix \in Executable
      BY <3>2, <3>3 DEF FixesAreOf
    <3>5. f.supported => f.supported = TRUE
      BY <3>4
    <3>6. QED
      BY <3>4, <3>5
  <2>6. ASSUME named \in FixTypes(fixes)
        PROVE  fixes[1].issue = named
    <3>1. PICK f \in Router!Range(fixes) : f.issue = named
      BY <2>6 DEF FixTypes, Range, Router!Range
    <3>2. named \in Router!Range(types) \cap allowed
      BY <2>5, <3>1
    <3>3. named # "none" /\ named \in Router!Areas
      BY <2>4, <3>2 DEF Router!Areas
    <3>4. types[1] = named /\ fixes[1] = Router!FixesOf(named)[1]
      BY <2>1, <2>3, <3>2, <3>3
    <3>5. Router!FixesOf(named)[1].issue = named
      BY <3>3, FixesAre DEF FixesAreOf
    <3>6. QED
      BY <3>4, <3>5
  <2>7. ASSUME NEW i \in DOMAIN fixes, NEW j \in DOMAIN fixes, fixes[i].fix = fixes[j].fix
        PROVE  i = j
    <3>1. fixes[i] \in AreaFixes /\ fixes[j] \in AreaFixes
      BY <2>3
    <3>2. fixes[i] = fixes[j]
      BY <2>7, <3>1, OneFixForAnId
    <3>3. QED
      BY <2>3, <3>2 DEF NoRepeats
  <2>8. QED
    BY <2>5, <2>6, <2>7
<1>4. CASE FoundIn(e) = {}
  BY <1>1, <1>2, <1>4
<1>5. CASE FoundIn(e) # {}
  BY <1>1, <1>3, <1>5
<1>6. QED
  BY <1>4, <1>5

-----------------------------------------------------------------------------
(***************************************************************************)
(* The tools of a route.                                                   *)
(***************************************************************************)
LEMMA NoRepeatsConcat ==
  ASSUME NEW A, NEW s \in Seq(A), NEW t \in Seq(A), NoRepeats(s), NoRepeats(t),
         Router!Range(s) \cap Router!Range(t) = {}
  PROVE  NoRepeats(s \o t)
<1> DEFINE both == s \o t
<1>1. /\ DOMAIN s = 1..Len(s) /\ DOMAIN t = 1..Len(t) /\ Len(s) \in Nat /\ Len(t) \in Nat
      /\ DOMAIN both = 1..(Len(s) + Len(t))
      /\ \A i \in 1..Len(s) : both[i] = s[i]
      /\ \A i \in 1..Len(t) : both[Len(s) + i] = t[i]
  OBVIOUS
<1> HIDE DEF both
<1>2. \A i \in DOMAIN both : i \in DOMAIN s \/ (i - Len(s) \in DOMAIN t /\ i = Len(s) + (i - Len(s)))
  BY <1>1
<1>3. ASSUME NEW i \in DOMAIN both, NEW j \in DOMAIN both, both[i] = both[j]
      PROVE  i = j
  <2>1. CASE i \in DOMAIN s /\ j \in DOMAIN s
    BY <1>1, <1>3, <2>1 DEF NoRepeats
  <2>2. CASE i \in DOMAIN s /\ j - Len(s) \in DOMAIN t /\ j = Len(s) + (j - Len(s))
    <3>1. both[i] = s[i] /\ both[j] = t[j - Len(s)]
      BY <1>1, <2>2
    <3>2. both[i] \in Router!Range(s) /\ both[j] \in Router!Range(t)
      BY <2>2, <3>1 DEF Router!Range
    <3>3. QED
      BY <1>3, <3>2
  <2>3. CASE j \in DOMAIN s /\ i - Len(s) \in DOMAIN t /\ i = Len(s) + (i - Len(s))
    <3>1. both[j] = s[j] /\ both[i] = t[i - Len(s)]
      BY <1>1, <2>3
    <3>2. both[j] \in Router!Range(s) /\ both[i] \in Router!Range(t)
      BY <2>3, <3>1 DEF Router!Range
    <3>3. QED
      BY <1>3, <3>2
  <2>4. CASE /\ i - Len(s) \in DOMAIN t /\ i = Len(s) + (i - Len(s))
             /\ j - Len(s) \in DOMAIN t /\ j = Len(s) + (j - Len(s))
    <3>1. both[j] = t[j - Len(s)] /\ both[i] = t[i - Len(s)]
      BY <1>1, <2>4
    <3>2. i - Len(s) = j - Len(s)
      BY <1>3, <2>4, <3>1 DEF NoRepeats
    <3>3. QED
      BY <1>1, <3>2
  <2>5. QED
    BY <1>2, <2>1, <2>2, <2>3, <2>4
<1>4. QED
  BY <1>3 DEF NoRepeats, both

LEMMA ShortSequences ==
  ASSUME NEW S, NEW a \in S, NEW b \in S, NEW c \in S, NEW d \in S
  PROVE  /\ <<a>> \in Seq(S) /\ <<a, b>> \in Seq(S) /\ <<a, b, c>> \in Seq(S)
         /\ <<a, b, c, d>> \in Seq(S)
         /\ <<a>> # <<>> /\ <<a, b>> # <<>> /\ <<a, b, c>> # <<>> /\ <<a, b, c, d>> # <<>>
         /\ NoRepeats(<<a>>) /\ (a # b => NoRepeats(<<a, b>>))
<1>1. /\ <<a>> \in Seq(S) /\ <<a, b>> \in Seq(S) /\ <<a, b, c>> \in Seq(S)
      /\ <<a, b, c, d>> \in Seq(S)
  OBVIOUS
<1>2. <<a>> # <<>> /\ <<a, b>> # <<>> /\ <<a, b, c>> # <<>> /\ <<a, b, c, d>> # <<>>
  OBVIOUS
<1>3. NoRepeats(<<a>>)
  <2>1. \A i \in DOMAIN <<a>> : i = 1
    OBVIOUS
  <2>2. QED
    BY <2>1 DEF NoRepeats
<1>4. ASSUME a # b PROVE NoRepeats(<<a, b>>)
  <2>1. \A i \in DOMAIN <<a, b>> : i = 1 \/ i = 2
    OBVIOUS
  <2>2. <<a, b>>[1] = a /\ <<a, b>>[2] = b
    OBVIOUS
  <2>3. QED
    BY <1>4, <2>1, <2>2 DEF NoRepeats
<1>5. QED
  BY <1>1, <1>2, <1>3, <1>4

Tools ==
  {"diagnose_mixed_log_file", "diagnose_log_file", "diagnose_slurm_file", "diagnose_slurm_text",
   "diagnose_python_error_text", "check_gpu_status", "check_disk_usage", "check_slurm_queue",
   "check_slurm_nodes", "check_slurm_job", "check_python_environment", "check_python_package",
   "run_shell_command", "read_log_file"}

\* Some tool of the router's second table is also in its first.
ToolsAreOf(area) ==
  /\ Router!MoreTools(area) \in Seq(Tools) /\ Router!MoreTools(area) # <<>>
  /\ Router!Range(Router!MoreTools(area)) \cap Router!Range(Router!AreaTools(area)) # {}

LEMMA ToolsAre == \A area \in Router!Areas : ToolsAreOf(area)
<1>1. ASSUME NEW area, NEW i \in DOMAIN Router!MoreTools(area), NEW j \in DOMAIN Router!AreaTools(area),
             Router!MoreTools(area)[i] = Router!AreaTools(area)[j]
      PROVE  Router!Range(Router!MoreTools(area)) \cap Router!Range(Router!AreaTools(area)) # {}
  BY <1>1 DEF Router!Range
<1>2. ToolsAreOf("gpu")
  <2>1. Router!MoreTools("gpu") = <<"check_gpu_status", "run_shell_command">>
    BY DEF Router!MoreTools
  <2>2. Router!AreaTools("gpu") = <<"diagnose_mixed_log_file", "diagnose_log_file", "check_gpu_status",
                                    "run_shell_command">>
    BY DEF Router!AreaTools
  <2>3. 1 \in DOMAIN Router!MoreTools("gpu") /\ 3 \in DOMAIN Router!AreaTools("gpu")
        /\ Router!MoreTools("gpu")[1] = Router!AreaTools("gpu")[3]
    BY <2>1, <2>2
  <2>4. Router!MoreTools("gpu") \in Seq(Tools) /\ Router!MoreTools("gpu") # <<>>
    <3>1. <<"check_gpu_status", "run_shell_command">> \in Seq(Tools)
      BY DEF Tools
    <3>2. <<"check_gpu_status", "run_shell_command">> # <<>>
      OBVIOUS
    <3>3. QED
      BY <2>1, <3>1, <3>2
  <2>5. QED
    BY <1>1, <2>3, <2>4 DEF ToolsAreOf
<1>3. ToolsAreOf("disk")
  <2>1. Router!MoreTools("disk") = <<"check_disk_usage", "run_shell_command">>
    BY DEF Router!MoreTools
  <2>2. Router!AreaTools("disk") = <<"check_disk_usage", "diagnose_log_file", "diagnose_mixed_log_file",
                                     "run_shell_command">>
    BY DEF Router!AreaTools
  <2>3. 1 \in DOMAIN Router!MoreTools("disk") /\ 1 \in DOMAIN Router!AreaTools("disk")
        /\ Router!MoreTools("disk")[1] = Router!AreaTools("disk")[1]
    BY <2>1, <2>2
  <2>4. Router!MoreTools("disk") \in Seq(Tools) /\ Router!MoreTools("disk") # <<>>
    <3>1. <<"check_disk_usage", "run_shell_command">> \in Seq(Tools)
      BY DEF Tools
    <3>2. <<"check_disk_usage", "run_shell_command">> # <<>>
      OBVIOUS
    <3>3. QED
      BY <2>1, <3>1, <3>2
  <2>5. QED
    BY <1>1, <2>3, <2>4 DEF ToolsAreOf
<1>4. ToolsAreOf("network_port")
  <2>1. Router!MoreTools("network_port") = <<"run_shell_command">>
    BY DEF Router!MoreTools
  <2>2. Router!AreaTools("network_port") = <<"diagnose_mixed_log_file", "diagnose_log_file",
                                             "run_shell_command">>
    BY DEF Router!AreaTools
  <2>3. 1 \in DOMAIN Router!MoreTools("network_port") /\ 3 \in DOMAIN Router!AreaTools("network_port")
        /\ Router!MoreTools("network_port")[1] = Router!AreaTools("network_port")[3]
    BY <2>1, <2>2
  <2>4. Router!MoreTools("network_port") \in Seq(Tools) /\ Router!MoreTools("network_port") # <<>>
    <3>1. <<"run_shell_command">> \in Seq(Tools)
      BY DEF Tools
    <3>2. <<"run_shell_command">> # <<>>
      OBVIOUS
    <3>3. QED
      BY <2>1, <3>1, <3>2
  <2>5. QED
    BY <1>1, <2>3, <2>4 DEF ToolsAreOf
<1>5. ToolsAreOf("slurm")
  <2>1. Router!MoreTools("slurm") = <<"diagnose_slurm_text", "check_slurm_queue", "check_slurm_nodes",
                                      "check_slurm_job">>
    BY DEF Router!MoreTools
  <2>2. Router!AreaTools("slurm") = <<"diagnose_mixed_log_file", "diagnose_slurm_file",
                                      "diagnose_slurm_text", "check_slurm_queue", "check_slurm_nodes",
                                      "check_slurm_job">>
    BY DEF Router!AreaTools
  <2>3. 1 \in DOMAIN Router!MoreTools("slurm") /\ 3 \in DOMAIN Router!AreaTools("slurm")
        /\ Router!MoreTools("slurm")[1] = Router!AreaTools("slurm")[3]
    BY <2>1, <2>2
  <2>4. Router!MoreTools("slurm") \in Seq(Tools) /\ Router!MoreTools("slurm") # <<>>
    <3>1. <<"diagnose_slurm_text", "check_slurm_queue", "check_slurm_nodes", "check_slurm_job">> \in Seq(Tools)
      BY DEF Tools
    <3>2. <<"diagnose_slurm_text", "check_slurm_queue", "check_slurm_nodes", "check_slurm_job">> # <<>>
      OBVIOUS
    <3>3. QED
      BY <2>1, <3>1, <3>2
  <2>5. QED
    BY <1>1, <2>3, <2>4 DEF ToolsAreOf
<1>6. ToolsAreOf("python_env")
  <2>1. Router!MoreTools("python_env") = <<"diagnose_python_error_text", "check_python_environment",
                                           "check_python_package">>
    BY DEF Router!MoreTools
  <2>2. Router!AreaTools("python_env") = <<"diagnose_mixed_log_file", "diagnose_python_error_text",
                                           "check_python_environment", "check_python_package",
                                           "diagnose_log_file">>
    BY DEF Router!AreaTools
  <2>3. 1 \in DOMAIN Router!MoreTools("python_env") /\ 2 \in DOMAIN Router!AreaTools("python_env")
        /\ Router!MoreTools("python_env")[1] = Router!AreaTools("python_env")[2]
    BY <2>1, <2>2
  <2>4. Router!MoreTools("python_env") \in Seq(Tools) /\ Router!MoreTools("python_env") # <<>>
    <3>1. <<"diagnose_python_error_text", "check_python_environment", "check_python_package">> \in Seq(Tools)
      BY DEF Tools
    <3>2. <<"diagnose_python_error_text", "check_python_environment", "check_python_package">> # <<>>
      OBVIOUS
    <3>3. QED
      BY <2>1, <3>1, <3>2
  <2>5. QED
    BY <1>1, <2>3, <2>4 DEF ToolsAreOf
<1>7. QED
  BY <1>2, <1>3, <1>4, <1>5, <1>6 DEF Router!Areas

LEMMA PrimaryToolsAre ==
  ASSUME NEW primary \in Router!Areas, NEW areas, NEW log \in BOOLEAN
  PROVE  LET tools == Router!PrimaryTools(primary, areas, log)
         IN  tools \in Seq(Tools) /\ NoRepeats(tools)
<1> DEFINE tools == Router!PrimaryTools(primary, areas, log)
<1>1. \A a \in Tools : <<a>> \in Seq(Tools) /\ NoRepeats(<<a>>)
  BY ShortSequences, Zenon
<1> DEFINE two == <<"check_slurm_queue", "check_slurm_nodes">>
<1>2. two \in Seq(Tools) /\ NoRepeats(two)
  <2>1. two \in Seq(Tools)
    BY DEF Tools
  <2>2. DOMAIN two = {1, 2} /\ two[1] # two[2]
    OBVIOUS
  <2> HIDE DEF two
  <2>3. QED
    BY <2>1, <2>2 DEF NoRepeats
<1>3. \/ tools = <<"diagnose_mixed_log_file">> \/ tools = <<"diagnose_slurm_file">>
      \/ tools = <<"diagnose_log_file">> \/ tools = <<"check_disk_usage">>
      \/ tools = <<"check_gpu_status">> \/ tools = <<"run_shell_command">>
      \/ tools = <<"check_python_environment">> \/ tools = two
  <2> HIDE DEF two
  <2>1. CASE log = TRUE
    BY <2>1 DEF Router!PrimaryTools
  <2>2. CASE log = FALSE
    BY <2>2 DEF Router!PrimaryTools, Router!Areas, two
  <2>3. QED
    BY <2>1, <2>2
<1> HIDE DEF tools, two
<1>4. tools \in Seq(Tools) /\ NoRepeats(tools)
  <2>1. \/ tools = two
        \/ \E a \in Tools : tools = <<a>>
    BY <1>3 DEF Tools
  <2>2. CASE \E a \in Tools : tools = <<a>>
    <3>1. PICK a \in Tools : tools = <<a>>
      BY <2>2
    <3>2. QED
      BY <1>1, <3>1, Zenon
  <2>3. QED
    BY <1>2, <2>1, <2>2, Zenon
<1>5. QED
  BY <1>4 DEF tools

\* What is offered besides: the tools of the areas that are not among the first ones.
LEMMA OptionalIs ==
  ASSUME NEW areas \in Seq(Router!Areas), areas # <<>>, NEW first
  PROVE  LET more == Router!OptionalTools(areas, first)
         IN  /\ more \in Seq(Tools) /\ NoRepeats(more)
             /\ Router!Range(more) =
                  (UNION {Router!Range(Router!MoreTools(a)) : a \in Router!Range(areas)})
                    \ Router!Range(first)
<1> DEFINE seqs == [i \in DOMAIN areas |-> Router!MoreTools(areas[i])]
           flat == Router!FlattenSeq(seqs)
           all == Router!Unrepeated(flat)
           more == Router!OptionalTools(areas, first)
           offered == UNION {Router!Range(Router!MoreTools(a)) : a \in Router!Range(areas)}
<1>1. more = Router!Among(all, Router!Range(all) \ Router!Range(first))
  BY Zenon DEF Router!OptionalTools
<1> HIDE DEF more
<1>2. /\ DOMAIN areas = 1..Len(areas) /\ Len(areas) \in Nat /\ Len(areas) # 0
      /\ \A i \in DOMAIN areas : areas[i] \in Router!Areas
  BY EmptySeq
<1>3. \A a \in Router!Areas : Router!MoreTools(a) \in Seq(Tools) /\ Router!MoreTools(a) # <<>>
  BY ToolsAre DEF ToolsAreOf
<1>4. /\ seqs \in Seq(Seq(Tools)) /\ DOMAIN seqs = DOMAIN areas /\ Len(seqs) = Len(areas)
      /\ \A i \in DOMAIN areas : seqs[i] = Router!MoreTools(areas[i])
  BY <1>2, <1>3
<1> HIDE DEF seqs
<1>5. seqs # <<>>
  <2>1. seqs = <<>> => Len(seqs) = 0
    OBVIOUS
  <2>2. QED
    BY <1>2, <1>4, <2>1
<1>6. /\ flat \in Seq(Tools)
      /\ Router!Range(flat) = UNION {Router!Range(seqs[i]) : i \in DOMAIN seqs}
  BY <1>4, <1>5, FlattenIs
<1> HIDE DEF flat
<1>7. all \in Seq(Tools) /\ NoRepeats(all) /\ Router!Range(all) = Router!Range(flat)
  BY <1>6, UnrepeatedIs
<1> HIDE DEF all
<1>8. /\ more \in Seq(Tools) /\ NoRepeats(more)
      /\ Router!Range(more) = Router!Range(all) \ Router!Range(first)
  <2> DEFINE T == Router!Range(all) \ Router!Range(first)
  <2>1. Router!Range(all) \cap T = T
    OBVIOUS
  <2> HIDE DEF T
  <2>2. more \in Seq(Tools) /\ NoRepeats(more)
    BY <1>1, <1>7, AmongIs DEF T
  <2>3. Router!Range(more) = Router!Range(all) \cap T
    BY <1>1, <1>7, AmongIs DEF T
  <2>4. QED
    BY <2>1, <2>2, <2>3 DEF T
<1>9. Router!Range(flat) = offered
  <2>1. Router!Range(areas) = {areas[i] : i \in DOMAIN areas}
    BY DEF Router!Range
  <2>2. Router!Range(flat) = UNION {Router!Range(Router!MoreTools(areas[i])) : i \in DOMAIN areas}
    BY <1>4, <1>6
  <2>3. QED
    BY <2>1, <2>2
<1> HIDE DEF offered
<1>10. Router!Range(more) = offered \ Router!Range(first)
  BY <1>7, <1>8, <1>9
<1>11. QED
  BY <1>8, <1>10 DEF more, offered

\* The tools a route offers.
ToolsAnswer(route) ==
  LET tools == route.primaryTools \o route.optionalTools
  IN  /\ NoRepeats(tools)
      /\ \A area \in Router!Range(Router!RouteTypes(route)) \ {"log", "unknown"} :
           Router!Range(Router!AreaTools(area)) \cap Router!Range(tools) # {}

\* For any evidence, and for a question with and without a log.
THEOREM ToolsAnswerAnyEvidence ==
  ASSUME NEW e, NEW log \in BOOLEAN
  PROVE  ToolsAnswer(Route(e, log))
<1> DEFINE r == Route(e, log)
           types == Router!RouteTypes(r)
           first == r.primaryTools
           more == r.optionalTools
           tools == first \o more
           offered == UNION {Router!Range(Router!MoreTools(a)) : a \in Router!Range(types)}
<1>1. CASE FoundIn(e) # {}
  <2>1. /\ r.primary \in Router!Areas
        /\ types \in Seq(Router!Areas) /\ types # <<>>
        /\ first = Router!PrimaryTools(r.primary, types, log)
        /\ more = Router!OptionalTools(types, first)
    BY <1>1, RouteIs
  <2> HIDE DEF types, first, more
  <2>2. first \in Seq(Tools) /\ NoRepeats(first)
    BY <2>1, PrimaryToolsAre
  <2>3. /\ more \in Seq(Tools) /\ NoRepeats(more)
        /\ Router!Range(more) = offered \ Router!Range(first)
    BY <2>1, OptionalIs
  <2>4. Router!Range(tools) = Router!Range(first) \cup Router!Range(more)
    BY <2>2, <2>3, ConcatIs
  <2>5. NoRepeats(tools)
    <3> HIDE DEF offered
    <3>1. Router!Range(first) \cap Router!Range(more) = {}
      BY <2>3
    <3>2. QED
      BY <2>2, <2>3, <3>1, NoRepeatsConcat
  <2> HIDE DEF tools
  <2>6. ASSUME NEW area \in Router!Range(types)
        PROVE  Router!Range(Router!AreaTools(area)) \cap Router!Range(tools) # {}
    <3>1. area \in Router!Areas
      BY <2>1 DEF Router!Range
    <3>2. Router!Range(Router!MoreTools(area)) \cap Router!Range(Router!AreaTools(area)) # {}
      BY <3>1, ToolsAre DEF ToolsAreOf
    <3>3. ASSUME NEW x \in Router!Range(Router!MoreTools(area))
          PROVE  x \in Router!Range(tools)
      <4>1. x \in offered
        OBVIOUS
      <4> HIDE DEF tools, offered
      <4>2. x \in Router!Range(first) \/ x \in Router!Range(more)
        BY <2>3, <4>1
      <4>3. QED
        BY <2>4, <4>2
    <3>4. QED
      BY <3>2, <3>3
  <2>7. QED
    BY <2>5, <2>6 DEF ToolsAnswer, tools, types, first, more
<1>2. CASE FoundIn(e) = {}
  <2> DEFINE one == <<"diagnose_log_file">>
             three == <<"run_shell_command", "check_disk_usage", "check_gpu_status">>
             read == <<"read_log_file">>
  <2>1. \/ r = Router!RouteWith("log", <<>>, 55, one, read)
        \/ r = Router!RouteWith("unknown", <<>>, 20, one, three)
    BY <1>2, Zenon DEF Route, Router!Classify, FoundIn
  <2> HIDE DEF r
  <2>2. /\ r.primary \in {"log", "unknown"} /\ r.secondary = <<>> /\ first = one
        /\ more = read \/ more = three
    <3> HIDE DEF one, three, read
    <3>1. QED
      BY <2>1 DEF Router!RouteWith
  <2>3. Router!Range(types) \ {"log", "unknown"} = {}
    <3>1. types = <<r.primary>> \o <<>>
      BY <2>2 DEF Router!RouteTypes
    <3>2. <<r.primary>> \o <<>> = <<r.primary>>
      OBVIOUS
    <3>3. Router!Range(<<r.primary>>) = {r.primary}
      BY DEF Router!Range
    <3>4. QED
      BY <2>2, <3>1, <3>2, <3>3
  <2>4. NoRepeats(tools)
    <3>1. /\ one \in Seq(Tools) /\ NoRepeats(one) /\ Router!Range(one) = {"diagnose_log_file"}
      <4>1. one \in Seq(Tools) /\ DOMAIN one = {1} /\ one[1] = "diagnose_log_file"
        BY DEF Tools
      <4> HIDE DEF one
      <4>2. QED
        BY <4>1 DEF NoRepeats, Router!Range
    <3>2. /\ read \in Seq(Tools) /\ NoRepeats(read) /\ "diagnose_log_file" \notin Router!Range(read)
      <4>1. read \in Seq(Tools) /\ DOMAIN read = {1} /\ read[1] # "diagnose_log_file"
        BY DEF Tools
      <4> HIDE DEF read
      <4>2. QED
        BY <4>1 DEF NoRepeats, Router!Range
    <3>3. /\ three \in Seq(Tools) /\ NoRepeats(three) /\ "diagnose_log_file" \notin Router!Range(three)
      <4>1. /\ three \in Seq(Tools) /\ DOMAIN three = {1, 2, 3}
            /\ three[1] = "run_shell_command" /\ three[2] = "check_disk_usage"
            /\ three[3] = "check_gpu_status"
        BY DEF Tools
      <4> HIDE DEF three
      <4>2. QED
        BY <4>1 DEF NoRepeats, Router!Range
    <3> HIDE DEF one, read, three
    <3>4. more \in Seq(Tools) /\ NoRepeats(more) /\ Router!Range(first) \cap Router!Range(more) = {}
      BY <2>2, <3>1, <3>2, <3>3
    <3>5. first \in Seq(Tools) /\ NoRepeats(first)
      BY <2>2, <3>1
    <3> HIDE DEF first, more
    <3>6. QED
      BY <3>4, <3>5, NoRepeatsConcat
  <2> HIDE DEF tools, types, first, more
  <2>5. QED
    BY <2>3, <2>4 DEF ToolsAnswer, tools, types, first, more, r
<1>3. QED
  BY <1>1, <1>2

\* What a plan and a question get.
PlannedCall ==
  /\ call.of = "plan" => call.out = PlanOf(call.in)
  /\ call.of = "question" => call.out.route = Route(call.in, FALSE)

LEMMA OtherThanPlans ==
  ASSUME NEW of, NEW in, NEW out, of # "plan", of # "question", Called(of, in, out)
  PROVE  PlannedCall'
BY DEF Called, PlannedCall

LEMMA EvidenceIsRead == \A e \in Evidences : e.read \in BOOLEAN
<1> DEFINE P == {{}, {"port"}}
           Q == {{}, {"squeue"}, {"no module named"}}
           T == AtMost(Sayings, 3)
           N == {{}, {"hip out of memory"}, {"no module named"}, {"address already in use"}}
           A == {[path |-> path, early |-> early, tail |-> tail, named |-> named, read |-> TRUE] :
                   path \in P, early \in Q, tail \in T, named \in N}
           B == {[path |-> {"port"}, early |-> {}, tail |-> tail, named |-> {}, read |-> FALSE] :
                   tail \in AtMost(Sayings, 2)}
<1>1. Evidences = A \cup B
  BY DEF Evidences
<1> HIDE DEF P, Q, T, N
<1>2. ASSUME NEW e \in A PROVE e.read \in BOOLEAN
  <2>1. PICK path \in P, early \in Q, tail \in T, named \in N :
          e = [path |-> path, early |-> early, tail |-> tail, named |-> named, read |-> TRUE]
    BY <1>2
  <2> HIDE DEF A
  <2>2. QED
    BY <2>1
<1>3. ASSUME NEW e \in B PROVE e.read \in BOOLEAN
  <2>1. PICK tail : e = [path |-> {"port"}, early |-> {}, tail |-> tail, named |-> {}, read |-> FALSE]
    BY <1>3
  <2>2. QED
    BY <2>1
<1> HIDE DEF A, B
<1>4. QED
  BY <1>1, <1>2, <1>3

LEMMA PlannedIsAnswered ==
  ASSUME PlannedCall, call.of = "plan" => call.in.read \in BOOLEAN
  PROVE  PlanAnswersEvidence
<1>1. ASSUME call.of = "plan", call.in.read
      PROVE  LET text == Router!Read(call.in.tail \cup call.in.named)
                 fixes == call.out.fixes
                 named == Router!NamedArea(Router!Read(call.in.named))
             IN  /\ \A row \in Range(Router!StrongPhrases) :
                      (row.says \ {"python=/"}) \cap text # {} => row.area \in FixTypes(fixes)
                 /\ named \in FixTypes(fixes) => fixes[1].issue = named
                 /\ \A f \in Range(fixes) : f.supported /\ f.fix # "fix-gpu-3" => f.fix \in Executable
                 /\ \A i, j \in DOMAIN fixes : fixes[i].fix = fixes[j].fix => i = j
  <2> DEFINE e == call.in
             fixes == PlanOf(e).fixes
             named == Router!NamedArea(Router!Read(e.named))
  <2>1. e.read = TRUE /\ call.out.fixes = fixes
    BY <1>1 DEF PlannedCall
  <2>2. /\ \A row \in Router!Range(Router!StrongPhrases) :
             (row.says \ {"python=/"}) \cap SaidLast(e) # {} => row.area \in FixTypes(fixes)
        /\ named \in FixTypes(fixes) => fixes[1].issue = named
        /\ \A f \in Router!Range(fixes) : f.supported /\ f.fix # "fix-gpu-3" => f.fix \in Executable
        /\ \A i, j \in DOMAIN fixes : fixes[i].fix = fixes[j].fix => i = j
    BY <2>1, PlanAnswersAnyEvidence
  <2>3. \A s : Range(s) = Router!Range(s)
    BY DEF Range, Router!Range
  <2>4. SaidLast(e) = Router!Read(call.in.tail \cup call.in.named)
    BY DEF SaidLast
  <2> HIDE DEF fixes, named
  <2>5. QED
    BY <2>1, <2>2, <2>3, <2>4, Zenon DEF named
<1>2. ASSUME call.of \in {"plan", "question"}
      PROVE  LET route == call.out.route
                 tools == route.primaryTools \o route.optionalTools
             IN  /\ \A i, j \in DOMAIN tools : tools[i] = tools[j] => i = j
                 /\ \A area \in Range(Router!RouteTypes(route)) \ {"log", "unknown"} :
                      Range(Router!AreaTools(area)) \cap Range(tools) # {}
  <2>1. PICK log \in BOOLEAN : call.out.route = Route(call.in, log)
    BY <1>2, PlanOfIs DEF PlannedCall
  <2>2. ToolsAnswer(call.out.route)
    BY <2>1, ToolsAnswerAnyEvidence
  <2>3. \A s : Range(s) = Router!Range(s)
    BY DEF Range, Router!Range
  <2>4. QED
    BY <2>2, <2>3, Zenon DEF ToolsAnswer, NoRepeats
<1>3. QED
  BY <1>1, <1>2, Zenon DEF PlanAnswersEvidence

\* PlanAnswersEvidence: whatever the evidence, what is strongly said is planned for, a failure the log
\* names comes first, and every area has a tool.
THEOREM PlansAnswerEvidence == Spec => []PlanAnswersEvidence
<1> DEFINE Inv == PlannedCall /\ (call.of = "plan" => call.in.read \in BOOLEAN)
<1>1. Init => Inv
  BY DEF Init, NotCalled, PlannedCall
<1>2. ASSUME Inv, [Next]_vars
      PROVE  Inv'
  <2>1. CASE UNCHANGED vars
    BY <1>2, <2>1 DEF vars, PlannedCall
  <2>2. ASSUME NEW of, NEW in, NEW out, of # "plan", of # "question", Called(of, in, out)
        PROVE  Inv'
    BY <2>2, OtherThanPlans DEF Called
  <2>3. CASE Detect \/ Govern \/ Sweep \/ CompactSeen
    BY <2>2, <2>3, Zenon DEF Detect, Govern, Sweep, CompactSeen
  <2>4. CASE CompactIndex \/ ApplySafeFix
    BY <2>2, <2>4, Zenon DEF CompactIndex, ApplySafeFix
  <2>5. CASE PlanFixes
    <3>1. CASE \E evidence \in Evidences : Called("plan", evidence, Router!Generate(evidence))
      <4>1. PICK evidence \in Evidences : Called("plan", evidence, Router!Generate(evidence))
        BY <3>1
      <4>2. evidence.read \in BOOLEAN
        BY EvidenceIsRead
      <4>3. QED
        BY <4>1, <4>2 DEF Called, PlannedCall, PlanOf
    <3>2. CASE \E evidence \in Evidences :
                 Called("question", evidence, [route |-> Router!Classify(evidence, FALSE)])
      <4>1. PICK evidence \in Evidences :
              Called("question", evidence, [route |-> Router!Classify(evidence, FALSE)])
        BY <3>2
      <4> DEFINE route == Router!Classify(evidence, FALSE)
      <4>2. route = Route(evidence, FALSE)
        BY DEF Route
      <4> HIDE DEF route
      <4>3. call' = [of |-> "question", in |-> evidence, out |-> [route |-> route]]
        BY <4>1 DEF Called, route
      <4>4. QED
        BY <4>2, <4>3 DEF PlannedCall
    <3>3. QED
      BY <2>5, <3>1, <3>2 DEF PlanFixes
  <2>6. CASE HandleEvent
    BY <2>6 DEF HandleEvent, PlannedCall
  <2>7. QED
    BY <1>2, <2>1, <2>3, <2>4, <2>5, <2>6 DEF Next
<1>3. Inv => PlanAnswersEvidence
  BY PlannedIsAnswered
<1>4. QED
  BY <1>1, <1>2, <1>3, PTL DEF Spec

-----------------------------------------------------------------------------
(***************************************************************************)
(* The windows of the run are windows.                                     *)
(***************************************************************************)
MarkedHasId(line) == line.marked => line.id # Detector!NoId

LEMMA LineHasId == ASSUME NEW text, NEW id PROVE MarkedHasId(Line(text, id))
BY DEF MarkedHasId, Line

LEMMA BlankHasId == MarkedHasId(Blank)
BY DEF MarkedHasId, Blank

LEMMA OneLineIsWindow ==
  ASSUME NEW line, MarkedHasId(line)
  PROVE  IsWindow(<<line>>)
<1>1. <<line>> \in Seq({line})
  OBVIOUS
<1>2. \A n \in DOMAIN <<line>> : <<line>>[n] = line
  OBVIOUS
<1>3. QED
  BY <1>1, <1>2 DEF IsWindow, MarkedHasId

LEMMA PlacedIsWindow ==
  ASSUME NEW gaps \in Gaps, NEW lines, \A k \in 1..3 : MarkedHasId(lines[k])
  PROVE  IsWindow(Placed(gaps, lines))
<1> DEFINE w == Placed(gaps, lines)
           at(n) == CHOOSE k \in DOMAIN gaps : gaps[k] = n
<1>1. DOMAIN gaps = 1..3
  BY DEF Gaps
<1>2. w = [n \in 1..6 |-> IF \E k \in DOMAIN gaps : gaps[k] = n THEN lines[at(n)] ELSE Blank]
  BY DEF Placed
<1>3. \A n \in 1..6 : (\E k \in DOMAIN gaps : gaps[k] = n) => at(n) \in DOMAIN gaps
  OBVIOUS
<1> HIDE DEF at, w
<1>4. DOMAIN w = 1..6
  BY <1>2
<1>5. ASSUME NEW n \in 1..6 PROVE MarkedHasId(w[n])
  <2>1. CASE \E k \in DOMAIN gaps : gaps[k] = n
    <3>1. w[n] = lines[at(n)] /\ at(n) \in 1..3
      BY <1>1, <1>2, <1>3, <2>1
    <3>2. QED
      BY <3>1
  <2>2. CASE ~\E k \in DOMAIN gaps : gaps[k] = n
    <3>1. w[n] = Blank
      BY <1>2, <2>2
    <3>2. QED
      BY <3>1, BlankHasId
  <2>3. QED
    BY <2>1, <2>2
<1>6. w \in Seq({w[n] : n \in 1..6})
  <2> DEFINE S == {w[n] : n \in 1..6}
  <2>1. \A n \in 1..6 : w[n] \in S
    OBVIOUS
  <2>2. w = [n \in 1..6 |-> w[n]]
    BY <1>2
  <2> HIDE DEF S
  <2>3. w \in [1..6 -> S]
    BY <2>1, <2>2
  <2>4. 6 \in Nat
    OBVIOUS
  <2>5. w \in Seq(S)
    BY <2>3, <2>4, SeqDef
  <2>6. QED
    BY <2>5 DEF S
<1>7. QED
  BY <1>4, <1>5, <1>6 DEF IsWindow, MarkedHasId, w

LEMMA WindowsAre == \A w \in Windows : IsWindow(w)
<1> DEFINE Free == Detector!NoId
           P == UNION {r.patterns : r \in Range(Detector!RULES)}
           L == {Line(t, id) : t \in Conflicting, id \in {Free, "b1"}}
           T == [1..3 -> L]
           I == [1..3 -> {Free, "b1", "b2"}]
           A == {<<Line(Telling(p), Free)>> : p \in P}
           B == {Placed(gaps, lines) : gaps \in Gaps, lines \in T}
           C == {Placed(gaps, [k \in 1..3 |-> Line(t, ids[k])]) :
                   gaps \in Gaps, t \in Conflicting, ids \in I}
<1>1. Windows = A \cup B \cup C
  BY DEF Windows
<1>2. \A l \in L : MarkedHasId(l)
  BY LineHasId
<1>3. \A lines \in T : \A k \in 1..3 : MarkedHasId(lines[k])
  <2> HIDE DEF L
  <2>1. QED
    BY <1>2
<1> HIDE DEF P, T, I
<1>4. ASSUME NEW w \in A PROVE IsWindow(w)
  BY <1>4, LineHasId, OneLineIsWindow
<1>5. ASSUME NEW w \in B PROVE IsWindow(w)
  <2>1. PICK gaps \in Gaps, lines \in T : w = Placed(gaps, lines)
    BY <1>5
  <2>2. QED
    BY <1>3, <2>1, PlacedIsWindow
<1>6. ASSUME NEW w \in C PROVE IsWindow(w)
  <2>1. PICK gaps \in Gaps, t \in Conflicting, ids \in I :
          w = Placed(gaps, [k \in 1..3 |-> Line(t, ids[k])])
    BY <1>6
  <2> DEFINE lines == [k \in 1..3 |-> Line(t, ids[k])]
  <2>2. \A k \in 1..3 : MarkedHasId(lines[k])
    BY LineHasId
  <2> HIDE DEF lines
  <2>3. QED
    BY <2>1, <2>2, PlacedIsWindow DEF lines
<1> HIDE DEF A, B, C
<1>7. QED
  BY <1>1, <1>4, <1>5, <1>6

\* What a window gets.
DetectedCall ==
  call.of = "detect_all" => IsWindow(call.in) /\ call.out = Detector!DetectAll(call.in)

LEMMA OtherThanWindows ==
  ASSUME NEW of, NEW in, NEW out, of # "detect_all", Called(of, in, out)
  PROVE  DetectedCall'
BY DEF Called, DetectedCall

LEMMA DetectedIsReported ==
  ASSUME DetectedCall
  PROVE  WindowIsReported
<1>1. ASSUME call.of = "detect_all"
      PROVE  LET lines == call.in
             IN  /\ call.out = <<>> <=>
                      \A r \in Range(Detector!RULES) : Detector!Matched(r, lines) = {}
                 /\ \A e \in Range(call.out) : \A i, j \in e.covers :
                       lines[i].marked /\ lines[j].marked => lines[i].id = lines[j].id
  <2> DEFINE lines == call.in
  <2>1. IsWindow(lines) /\ call.out = Detector!DetectAll(lines)
    BY <1>1 DEF DetectedCall
  <2> HIDE DEF lines
  <2>2. /\ Detector!DetectAll(lines) = <<>> <=>
             \A rule \in Detector!Range(Detector!RULES) : Detector!Matched(rule, lines) = {}
        /\ \A e \in Detector!Range(Detector!DetectAll(lines)) : OneMarker(e, lines)
    BY <2>1, AnyWindowIsReported
  <2>3. \A s : Range(s) = Detector!Range(s)
    BY DEF Range, Detector!Range
  <2>4. QED
    BY <2>1, <2>2, <2>3, Zenon DEF OneMarker, lines
<1>2. QED
  BY <1>1, Zenon DEF WindowIsReported

\* WindowIsReported: no window that a rule matches is passed over in silence.
THEOREM WindowsAreReported == Spec => []WindowIsReported
<1>1. Init => DetectedCall
  BY DEF Init, NotCalled, DetectedCall
<1>2. ASSUME DetectedCall, [Next]_vars
      PROVE  DetectedCall'
  <2>1. CASE UNCHANGED vars
    BY <1>2, <2>1 DEF vars, DetectedCall
  <2>2. ASSUME NEW of, NEW in, NEW out, of # "detect_all", Called(of, in, out)
        PROVE  DetectedCall'
    BY <2>2, OtherThanWindows
  <2>3. CASE Detect
    <3>1. PICK lines \in Windows : Called("detect_all", lines, Detector!DetectAll(lines))
      BY <2>3 DEF Detect
    <3>2. IsWindow(lines)
      BY WindowsAre
    <3> DEFINE out == Detector!DetectAll(lines)
    <3> HIDE DEF out
    <3>3. call' = [of |-> "detect_all", in |-> lines, out |-> out]
      BY <3>1 DEF Called, out
    <3>4. call'.in = lines /\ call'.out = out
      BY <3>3
    <3>5. DetectedCall' = (call'.of = "detect_all" =>
                             IsWindow(call'.in) /\ call'.out = Detector!DetectAll(call'.in))
      BY Zenon DEF DetectedCall
    <3>6. QED
      BY <3>2, <3>4, <3>5, Zenon DEF out
  <2>4. CASE Govern \/ Sweep \/ CompactSeen
    BY <2>2, <2>4, Zenon DEF Govern, Sweep, CompactSeen
  <2>5. CASE CompactIndex \/ PlanFixes \/ ApplySafeFix
    BY <2>2, <2>5, Zenon DEF CompactIndex, PlanFixes, ApplySafeFix
  <2>6. CASE HandleEvent
    BY <2>6 DEF HandleEvent, DetectedCall
  <2>7. QED
    BY <1>2, <2>1, <2>3, <2>4, <2>5, <2>6 DEF Next
<1>3. DetectedCall => WindowIsReported
  BY DetectedIsReported
<1>4. QED
  BY <1>1, <1>2, <1>3, PTL DEF Spec

-----------------------------------------------------------------------------
(***************************************************************************)
(* The setups of the run: a change leaves rows and specs paired.           *)
(***************************************************************************)
LEMMA ChangedRuntime == ASSUME NEW s, PairedTables(s), NEW e, NEW ep PROVE PairedTables(Runtime(s, e, ep))
<1> DEFINE t == Runtime(s, e, ep)
<1>1. DOMAIN t = DOMAIN s /\ t.safe = s.safe /\ t.domains = s.domains
  BY DEF Runtime, PairedTables
<1> HIDE DEF t
<1>2. PairedTables(t)
  BY <1>1, SoundSame
<1>3. QED
  BY <1>2 DEF t

LEMMA ChangedSpec ==
  ASSUME NEW s, PairedTables(s), NEW e, HasSpec(s, e)
  PROVE  PairedTables([s EXCEPT !.safe = RemoveAt(s.safe, At(s.safe, e))])
<1>1. Paired(s.safe, Pairs(Range(SafeSpecs)))
  BY DEF PairedTables
<1>2. At(s.safe, e) \in DOMAIN s.safe
  BY DEF HasSpec, At, Range
<1>3. QED
  BY <1>1, <1>2, PairedLess, SoundSafe

LEMMA ChangedTwice ==
  ASSUME NEW s, PairedTables(s), NEW e, HasSpec(s, e), NEW fix
  PROVE  PairedTables([s EXCEPT !.safe =
                  Append(s.safe, [s.safe[At(s.safe, e)] EXCEPT !.fix = fix])])
<1> DEFINE r == [s.safe[At(s.safe, e)] EXCEPT !.fix = fix]
<1>1. Paired(s.safe, Pairs(Range(SafeSpecs)))
  BY DEF PairedTables
<1>2. At(s.safe, e) \in DOMAIN s.safe
  BY DEF HasSpec, At, Range
<1>3. s.safe[At(s.safe, e)] \in Range(s.safe)
  BY <1>2 DEF Range
<1>4. {"event", "issue"} \subseteq DOMAIN r /\ Pair(r) \in Pairs(Range(SafeSpecs))
  BY <1>1, <1>3, PairedOther DEF Paired
<1> HIDE DEF r
<1>5. QED
  BY <1>1, <1>4, PairedMore, SoundSafe DEF r

LEMMA ChangedIsSound ==
  ASSUME NEW s, PairedTables(s), NEW change
  PROVE  PairedTables(Changed(s, change))
<1> DEFINE e == change.at
           ep == s.runtime[e]
           fix == FixOfEvent(e)
           c1 == Runtime(s, e, [ep EXCEPT !.layer = "safe_auto_recover"])
           c2 == Runtime(s, e, [ep EXCEPT !.fixes = <<OtherFix>>])
           c3 == Runtime(s, e, [ep EXCEPT !.risk = "critical"])
           c4 == Runtime(s, e, [ep EXCEPT !.rollback = ~@])
           c5 == Runtime(s, e, [ep EXCEPT !.precheck = ~@])
           c6 == Runtime(s, e, [ep EXCEPT !.confirm = ~@])
           c7 == [s EXCEPT !.detector[e] = "log"]
           c8 == [s EXCEPT !.remediation = [x \in DOMAIN @ \ {e} |-> @[x]]]
           c9 == [s EXCEPT !.precheck = [f \in DOMAIN @ |-> IF f = fix THEN @[OtherFix] ELSE @[f]]]
           c10 == [s EXCEPT !.guarded = [x \in DOMAIN @ |-> IF x = e THEN {OtherFix} ELSE @[x]]]
           c11 == [s EXCEPT !.local = @ \ {fix}]
           c12 == [s EXCEPT !.remote = @ \ {fix}]
           c13 == [s EXCEPT !.domains[At(s.domains, e)].layer = "safe_auto_recover",
                            !.domains[At(s.domains, e)].fix = OtherFix]
           c14 == IF HasSpec(s, e) THEN [s EXCEPT !.safe = RemoveAt(@, At(@, e))] ELSE s
           c15 == IF HasSpec(s, e)
                  THEN [s EXCEPT !.safe = Append(@, [@[At(@, e)] EXCEPT !.fix = OtherFix])] ELSE s
           c16 == [s EXCEPT !.manualEvents = @ \cup {e}]
<1>1. Changed(s, change) \in {c1, c2, c3, c4, c5, c6, c7, c8, c9, c10, c11, c12, c13, c14, c15,
                             c16, s}
  <2>1. Changed(s, change) =
          CASE change.do = "layer" -> c1 [] change.do = "fixes" -> c2 [] change.do = "risk" -> c3
            [] change.do = "rollback" -> c4 [] change.do = "precheck" -> c5
            [] change.do = "confirm" -> c6 [] change.do = "issue" -> c7
            [] change.do = "unmapped" -> c8 [] change.do = "blurred" -> c9
            [] change.do = "guard" -> c10 [] change.do = "executor" -> c11
            [] change.do = "remote" -> c12 [] change.do = "domain" -> c13
            [] change.do = "spec" -> c14 [] change.do = "twice" -> c15
            [] change.do = "manual" -> c16 [] OTHER -> s
    BY Zenon DEF Changed
  <2> HIDE DEF c1, c2, c3, c4, c5, c6, c7, c8, c9, c10, c11, c12, c13, c14, c15, c16
  <2>2. QED
    BY <2>1
<1>2. PairedTables(c1) /\ PairedTables(c2) /\ PairedTables(c3) /\ PairedTables(c4) /\ PairedTables(c5) /\ PairedTables(c6)
  BY ChangedRuntime, Zenon
<1>3. PairedTables(c7) /\ PairedTables(c8) /\ PairedTables(c9)
  BY SoundOther
<1>4. PairedTables(c10) /\ PairedTables(c11) /\ PairedTables(c12) /\ PairedTables(c16)
  BY SoundOther
<1>5. PairedTables(c13)
  BY ChangedDomain, Zenon
<1>6. PairedTables(c14)
  BY ChangedSpec, Zenon
<1>7. PairedTables(c15)
  BY ChangedTwice, Zenon
<1> HIDE DEF c1, c2, c3, c4, c5, c6, c7, c8, c9, c10, c11, c12, c13, c14, c15, c16
<1>8. QED
  BY <1>1, <1>2, <1>3, <1>4, <1>5, <1>6, <1>7

LEMMA SetupsAreSound == \A s \in Setups : PairedTables(s)
<1>1. ASSUME NEW a, NEW b PROVE PairedTables(Changed(Changed(Shipped(Project), a), b))
  BY ShippedIsSound, ChangedIsSound, Zenon
<1>2. ASSUME NEW s \in Setups PROVE PairedTables(s)
  <2>1. PICK a \in Changes, b \in Changes : s = Changed(Changed(Shipped(Project), a), b)
    BY DEF Setups
  <2>2. QED
    BY <1>1, <2>1
<1>3. QED
  BY <1>2

-----------------------------------------------------------------------------
(***************************************************************************)
(* Every setup of the run.                                                 *)
(***************************************************************************)
\* The registry has no fix for an event nobody could name.
LEMMA SyntheticIsNotAllowed ==
  ASSUME NEW s, PairedTables(s), Governance(s) = {}, NEW e \in SyntheticEvents,
         NEW confidence, NEW fix
  PROVE  ~Resolve(PolicyOf(s), e, confidence, fix).allowed
<1>1. SUFFICES ASSUME Resolve(PolicyOf(s), e, confidence, fix).allowed PROVE FALSE
  OBVIOUS
<1>2. e \in DOMAIN s.runtime /\ s.runtime[e].layer = "safe_auto_recover"
  <2>1. PolicyOf(s).events = s.runtime
    BY DEF PolicyOf
  <2>2. e \in DOMAIN PolicyOf(s).events /\ PolicyOf(s).events[e].layer = "safe_auto_recover"
    BY <1>1, ResolveAllowed
  <2>3. QED
    BY <2>1, <2>2
<1>3. PICK d \in Range(s.domains) : d.event = e
  <2>1. DOMAIN s.runtime = Range(Column(s.domains, "event"))
    BY NothingFound DEF RuntimePolicies, UnlessSame, Unless
  <2>2. QED
    BY <1>2, <2>1 DEF Range, Column
<1>4. e \in DOMAIN FixByEvent(s.safe)
  BY <1>2, <1>3, SafeRowChecked
<1>5. PICK S : s.safe \in Seq(S)
  BY DEF PairedTables, Paired
<1>6. PICK i \in DOMAIN s.safe : s.safe[i].event = e
  BY <1>4, <1>5, EventsHaveFixes
<1>7. PICK x \in Range(SafeSpecs) : e = x.event
  BY <1>6, PairedRow DEF PairedTables, Paired, Range
<1>8. TrioOf(x) \in SpecTrios /\ TrioOf(x)[1] = e
  BY <1>7, SpecTrio DEF TrioOf
<1>9. \A p \in SpecTrios : p[1] # "unknown"
  BY DEF SpecTrios
<1>10. QED
  BY <1>8, <1>9 DEF SyntheticEvents

\* What a setup gets.
GovernedCall ==
  call.of = "governance" => PairedTables(call.in) /\ call.out = Governance(call.in)

LEMMA OtherThanGovernance ==
  ASSUME NEW of, NEW in, NEW out, of # "governance", Called(of, in, out)
  PROVE  GovernedCall'
BY DEF Called, GovernedCall

LEMMA GovernedIsAgreed ==
  ASSUME GovernedCall
  PROVE  GovernedIsCoherent
<1> DEFINE s == call.in
<1>1. ASSUME call.of = "governance"
      PROVE  /\ s = Shipped(Project) => call.out = {}
             /\ call.out = {} =>
                  \A e \in DOMAIN s.runtime, fix \in SafeFixes :
                    Resolve(PolicyOf(s), e, 10, fix).allowed => Agreed(s, e, fix)
  <2>1. PairedTables(s) /\ call.out = Governance(s)
    BY <1>1 DEF GovernedCall
  <2> HIDE DEF s
  <2>2. s = Shipped(Project) => call.out = {}
    BY <2>1, ShippedTablesAreGoverned, Zenon
  <2>3. ASSUME Governance(s) = {}, NEW e, NEW fix, Resolve(PolicyOf(s), e, 10, fix).allowed
        PROVE  Agreed(s, e, fix)
    <3>1. SafeRowsAreSpecs(s)
      BY <2>1, SoundRowsAreSpecs
    <3>2. PICK S, T : s.safe \in Seq(S) /\ s.domains \in Seq(T)
      BY <2>1 DEF PairedTables, Paired
    <3>3. e \notin SyntheticEvents
      BY <2>1, <2>3, SyntheticIsNotAllowed
    <3>4. QED
      BY <2>3, <3>1, <3>2, <3>3, GovernedTablesAgree
  <2>4. QED
    BY <2>1, <2>2, <2>3
<1>2. QED
  BY <1>1, Zenon DEF GovernedIsCoherent

\* GovernedIsCoherent: tables the validator finds nothing in agree about every fix they allow.
THEOREM GovernedAreCoherent == Spec => []GovernedIsCoherent
<1>1. Init => GovernedCall
  BY DEF Init, NotCalled, GovernedCall
<1>2. ASSUME GovernedCall, [Next]_vars
      PROVE  GovernedCall'
  <2>1. CASE UNCHANGED vars
    BY <1>2, <2>1 DEF vars, GovernedCall
  <2>2. ASSUME NEW of, NEW in, NEW out, of # "governance", Called(of, in, out)
        PROVE  GovernedCall'
    BY <2>2, OtherThanGovernance
  <2>3. CASE Govern
    <3>1. PICK s \in Setups : Called("governance", s, Governance(s))
      BY <2>3 DEF Govern
    <3>2. PairedTables(s)
      BY SetupsAreSound
    <3> DEFINE out == Governance(s)
    <3> HIDE DEF out
    <3>3. call' = [of |-> "governance", in |-> s, out |-> out]
      BY <3>1 DEF Called, out
    <3>4. call'.in = s /\ call'.out = out
      BY <3>3
    <3>5. GovernedCall' = (call'.of = "governance" =>
                             PairedTables(call'.in) /\ call'.out = Governance(call'.in))
      BY Zenon DEF GovernedCall
    <3>6. QED
      BY <3>2, <3>4, <3>5, Zenon DEF out
  <2>4. CASE Detect \/ Sweep \/ CompactSeen
    BY <2>2, <2>4, Zenon DEF Detect, Sweep, CompactSeen
  <2>5. CASE CompactIndex \/ PlanFixes \/ ApplySafeFix
    BY <2>2, <2>5, Zenon DEF CompactIndex, PlanFixes, ApplySafeFix
  <2>6. CASE HandleEvent
    BY <2>6 DEF HandleEvent, GovernedCall
  <2>7. QED
    BY <1>2, <2>1, <2>3, <2>4, <2>5, <2>6 DEF Next
<1>3. GovernedCall => GovernedIsCoherent
  BY GovernedIsAgreed
<1>4. QED
  BY <1>1, <1>2, <1>3, PTL DEF Spec

=============================================================================
