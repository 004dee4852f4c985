-------------------------- MODULE StateCompaction --------------------------
(***************************************************************************)
(* The files of a project that only grow, and how they are made smaller.   *)
(* monitors/seen_fingerprints_compactor.py plans which fingerprints the    *)
(* monitor may forget, from its state and from the times in the event log; *)
(* monitors/report_index_store.py keeps an append-only index of reports    *)
(* whose last record of a report counts, and compacts it.                  *)
(*                                                                         *)
(* Times are numbers; None is no time or no limit.                         *)
(***************************************************************************)
EXTENDS Integers, Sequences, FiniteSets, SequencesExt, Functions

None == -1

-----------------------------------------------------------------------------
(***************************************************************************)
(* The fingerprints.  A status is [reading, seen] with reading "missing",  *)
(* "empty", "invalid" (no JSON or not an object), "not_list" or "ok"; an   *)
(* entry of seen is [print, at], where only an entry that is an object can *)
(* have a time, and an entry may be empty.                                 *)
(***************************************************************************)
Empty == "no fingerprint"

\* _read_status and _normalize_seen: the records of the entries that have a fingerprint.
Normalized(status) ==
    IF status.reading # "ok" THEN {}
    ELSE {[print |-> status.seen[i].print, at |-> status.seen[i].at, index |-> i] :
             i \in {j \in DOMAIN status.seen : status.seen[j].print # Empty}}

\* Mutant: the first time an event was logged counts.
EventTimeFirst(log, print) ==
    LET of == SelectSeq(log, LAMBDA e : ~e.torn /\ e.print = print /\ e.at # None)
    IN  IF of = <<>> THEN None ELSE Head(of).at

\* _read_event_times: the latest time in the lines that can be read.
EventTime(log, print) ==
    LET times == {e.at : e \in {x \in Range(log) : ~x.torn /\ x.print = print}} \ {None}
    IN  IF times = {} THEN None ELSE CHOOSE t \in times : \A u \in times : u <= t

Timed(status, log) ==
    {IF r.at # None THEN r ELSE [r EXCEPT !.at = EventTime(log, r.print)] : r \in Normalized(status)}

\* A record without a time counts as the oldest of all.
Newer(r, s) ==
    CASE r.at = s.at -> r.index > s.index
      [] r.at # s.at /\ r.at = None -> FALSE
      [] r.at # s.at /\ s.at = None -> TRUE
      [] OTHER -> r.at > s.at

\* How many records come before this one when the newest are first.
NewerThan(r, records) == Cardinality({s \in records : Newer(s, r)})
AtLeastOne(n) == IF n < 1 THEN 1 ELSE n

\* Is there a rule against this record, and none for it?
OutsidePolicy(r, records, count, age, now) ==
    LET counted == {s.print : s \in {t \in records : NewerThan(t, records) < AtLeastOne(count)}}
    IN  /\ count # None \/ age # None
        /\ count # None => r.print \notin counted
        /\ age # None => r.at # None /\ r.at < now - age

(***************************************************************************)
(* _split_records: what stays and what goes, by fingerprint; one record    *)
(* stays whatever the policy says.                                         *)
(***************************************************************************)
Split(records, count, age, now) ==
    LET out == {r \in records : OutsidePolicy(r, records, count, age, now)}
        rescued == IF out = records
                   THEN {r.print : r \in {s \in records : NewerThan(s, records) = 0}} ELSE {}
    IN  [keep |-> {r.print : r \in records \ out} \cup rescued,
         drop |-> {r.print : r \in out} \ rescued]

\* build_plan with _error_plan and _risk_summary.
CompactionPlan(status, log, count, age, now) ==
    LET records == Timed(status, log)
        split == Split(records, count, age, now)
        broken == status.reading \in {"invalid", "not_list"}
    IN  [keep |-> split.keep, drop |-> split.drop, total |-> Cardinality(records),
         writes |-> FALSE, safe |-> FALSE,
         risk |-> CASE broken -> "safe_error_no_action"
                    [] ~broken /\ records = {} -> "empty"
                    [] OTHER -> IF split.drop = {} THEN "nothing_to_drop" ELSE "backup_first"]

-----------------------------------------------------------------------------
(***************************************************************************)
(* The report index.  A report is [path, type, print, event, job, at]; its *)
(* id is a hash of everything but the time.                                *)
(***************************************************************************)
ReportTypes == {"diagnostic_report", "event_report", "auto_recovery_report", "rollback_report",
                "audit_json"}

ReportId(r) == <<r.path, r.type, r.print, r.event, r.job>>

\* register_report appends; a type it does not know is an event report.
Stored(report) == [report EXCEPT !.type = IF @ \in ReportTypes THEN @ ELSE "event_report"]
Register(index, report) == Append(index, Stored(report))

LastOf(index, id) ==
    index[CHOOSE i \in DOMAIN index : /\ ReportId(index[i]) = id
                                      /\ \A j \in DOMAIN index : ReportId(index[j]) = id => j <= i]

\* The order of reports: by time and then by id (any order of the ids will do).
Later(rank, r, s) == r.at > s.at \/ (r.at = s.at /\ rank[ReportId(r)] > rank[ReportId(s)])

NewestFirst(reports, rank) ==
    LET n == 1..Cardinality(reports)
    IN  CHOOSE s \in [n -> reports] : \A i, j \in n : i < j => Later(rank, s[i], s[j])

\* reports: the last record of every report, newest first.
Latest(index) == {LastOf(index, ReportId(r)) : r \in Range(index)}
Reports(index, rank) == NewestFirst(Latest(index), rank)

\* Mutant: of the records of a report, the one with the latest time is written back.
CompactedByTime(index, rank) ==
    LET of(id) == {r \in Range(index) : ReportId(r) = id}
        latest == {CHOOSE r \in of(ReportId(x)) : \A s \in of(ReportId(x)) : s.at <= r.at :
                      x \in Range(index)}
    IN  Reverse(NewestFirst(latest, rank))

\* compact: the rows are written back with the oldest first.
Compacted(index, rank) == Reverse(Reports(index, rank))

\* grouped_for_event
Grouped(all, print) ==
    LET own == SelectSeq(all, LAMBDA r : r.print = print)
        ofType(rows, type) == SelectSeq(rows, LAMBDA r : r.type = type)
        general == ofType(all, "diagnostic_report")
    IN  [latest |-> SubSeq(general, 1, IF Len(general) < 5 THEN Len(general) ELSE 5),
         event |-> own, auto_recovery |-> ofType(own, "auto_recovery_report"),
         rollback |-> ofType(own, "rollback_report"), audit_json |-> ofType(own, "audit_json")]
GroupedForEvent(index, rank, print) == Grouped(Reports(index, rank), print)
=============================================================================
