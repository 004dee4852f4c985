---------------------------- MODULE ErrorEvents ----------------------------
(***************************************************************************)
(* detectors/error_event_detector.py: what the monitor makes of a window   *)
(* of log lines (detect_all).  A rule looks for phrases in every line,     *)
(* the lines it matches are grouped into blocks, a block becomes an event, *)
(* and events that only repeat what a more specific one says, or that      *)
(* would repair what another one says a person has to look at, are         *)
(* suppressed.                                                             *)
(*                                                                         *)
(* A line is a record [text, id, marked, time]: `text' is its fragments in *)
(* order, each the set of the phrases it contains; `id' is what tells two  *)
(* occurrences apart (or NoId), `marked' that the detector knows it for a  *)
(* marker; `time' is its time stamp.  A regular expression is kept   *)
(* as the phrases it asks for: ways of spelling one phrase (blanks, "_",   *)
(* "-", a number, the nouns after "optional") are that phrase.             *)
(***************************************************************************)
EXTENDS Integers, Sequences, FiniteSets, SequencesExt, Functions

\* A pattern: a phrase of each part in this order, and none of `not' in the line.
Says(phrases) == [parts |-> <<phrases>>, not |-> {}]
Then(first, next) == [parts |-> <<first, next>>, not |-> {}]
Unless(phrases, no) == [parts |-> <<phrases>>, not |-> no]

Rule(event, issue, severity, patterns) ==
    [event |-> event, issue |-> issue, severity |-> severity, patterns |-> patterns]

Down == {"failed", "unavailable", "timeout", "degraded"}
NoSpace == {"no space left on device", "errno 28", "disk quota exceeded"}

StorageRules == <<
    Rule("gpu_oom", "gpu", "high",
         {Says({"cuda out of memory", "hip out of memory", "torch.outofmemoryerror",
                "outofmemoryerror", "oom-kill", "oom kill", "accelerator memory constraints"})}),
    Rule("cache_write_failed", "cache", "medium",
         {[parts |-> <<{"cache"}, {"write", "persist", "flush"}, {"failed", "error", "warning"}>>,
           not |-> {}],
          Says({"failed to write cache", "unable to write cache",
                "fallback: continue with in-memory feature cache"}),
          Then({"cache"}, NoSpace), Then({"feature cache"}, {"failed", "fallback", "unavailable"})}),
    Rule("optional_cache_backend_failed", "optional_cache_backend", "medium",
         {Then({"optional cache backend", "redis cache backend"}, Down),
          [parts |-> <<{"cache backend"}, {"fallback", "degraded"}, {"memory", "local"}>>,
           not |-> {}]}),
    Rule("disk_full", "disk", "high",
         {Unless(NoSpace \cup {"no space left"}, {"cache"}), Says({"no usable temporary directory"}),
          Then({"inode"}, {"full", "exhausted", "no space"})}),
    Rule("network_port", "network_port", "medium",
         {Says({"address already in use", "errno 98", "bind failed", "binding failed",
                "port already in use", "port N already in use",
                "cannot assign requested address"})}) >>

OptionalRules == <<
    Rule("optional_dependency_missing", "optional_dependency", "medium",
         {Then({"optional dependency", "optional integration", "optional plugin"},
               {"missing", "unavailable", "disabled"}),
          Says({"missing optional dependency", "unavailable optional dependency",
                "internal risk sdk unavailable", "missing acme_internal_sdk",
                "optional dependency fallback"}),
          Then({"fallback"}, {"local rule engine", "optional dependency"})}),
    Rule("optional_integration_failed", "optional_integration", "medium",
         {Then({"optional integration", "risk sdk integration", "enrichment client"}, Down),
          Then({"optional webhook"}, {"failed", "unavailable", "timeout", "disabled"}),
          [parts |-> <<{"fallback"}, {"local rule engine", "local enrichment", "degraded mode"},
                       {"optional integration"}>>, not |-> {}]}),
    Rule("notification_sink_failed", "notification_sink", "medium",
         {Then({"notification sink"}, Down),
          Then({"notification webhook", "alert webhook"},
               {"failed", "timeout", "http 5xx", "unavailable"}),
          [parts |-> <<{"fallback"}, {"console", "file"}, {"notification"}>>, not |-> {}],
          [parts |-> <<{"notification"}, {"degraded", "fallback"}, {"console", "file"}>>,
           not |-> {}]}),
    Rule("optional_service_unavailable", "optional_service", "medium",
         {Then({"optional service", "optional enrichment service"}, Down),
          Then({"recommendation service", "risk scoring service"},
               {"optional", "degraded", "fallback", "unavailable", "timeout"}),
          [parts |-> <<{"fallback"}, {"local", "degraded"},
                       {"enrichment", "recommendation", "risk scoring"}>>, not |-> {}]}),
    Rule("python_env", "python_env", "medium",
         {Says({"modulenotfounderror", "no module named", "importerror",
                "python interpreter and pip path do not belong",
                "pkg_resources.distributionnotfound"}),
          Then({"pip path"}, {"python interpreter"})}) >>

LoadRules == <<
    Rule("queue_backpressure", "queue_backpressure", "medium",
         {Says({"queue backpressure"}), Then({"prefetch", "consumer lag"}, {"too high"}),
          Then({"max_inflight"}, {"exhausted", "too high", "limit"}),
          Then({"queue consumer"}, {"lag", "backpressure", "overloaded"})}),
    Rule("observability_export_failed", "observability_export", "medium",
         {Then({"observability exporter", "metrics exporter", "tracing exporter", "otel exporter",
                "telemetry export"}, Down),
          [parts |-> <<{"fallback"}, {"file", "console", "local"},
                       {"metrics", "tracing", "observability", "telemetry"}>>, not |-> {}]}),
    Rule("worker_overload", "worker_overload", "medium",
         {Then({"worker"}, {"overload"}), Says({"worker pool exhausted", "too many workers"}),
          Then({"concurrency"}, {"too high"})}),
    Rule("slurm", "slurm", "high",
         {Says({"slurmstepd", "jobstate=pending", "reason=resources", "cancelled at",
                "exceeded memory"}),
          Then({"node"}, {"down", "drain", "drained", "not responding"}),
          Then({"batch job"}, {"failed"})}),
    Rule("process_crash", "process", "high",
         {Then({"systemd"}, {"failed"}), Then({"main process exited"}, {"status=11"}),
          Says({"core dumped", "segmentation fault", "exited with code", "signal 11", "sigsegv"})}),
    Rule("container_k8s", "container_k8s", "high",
         {Says({"crashloopbackoff", "imagepullbackoff", "errimagepull", "oomkilled",
                "createcontainerconfigerror", "back-off restarting failed container",
                "pod failed scheduling"})}),
    Rule("host_resource", "host_resource", "high",
         {Says({"out of memory: killed process", "out of memory: kill process",
                "cannot allocate memory", "too many open files"}),
          Then({"load average", "system load"}, {"too high"})}) >>

ServiceRules == <<
    Rule("network_connectivity", "network_connectivity", "medium",
         {Says({"temporary failure in name resolution", "name or service not known", "dns failed",
                "dns resolution failed", "connection timed out", "connection refused",
                "tls handshake timeout"})}),
    Rule("dependency_service", "dependency_service", "high",
         {Then({"mysql", "postgresql", "postgres"}, {"connection failed"}),
          Then({"redis"}, {"connection refused"}), Then({"kafka"}, {"broker unavailable"}),
          Then({"rabbitmq", "mq"}, {"connection timeout"}),
          Says({"database connection pool exhausted"})}),
    Rule("process_kill", "process", "high",
         {Says({"sigkill", "exit_status=137", "exited with code 137", "exit with status 137",
                "killed process"}),
          Then({"process"}, {"killed", "terminated"})}),
    Rule("config_path", "config_path", "medium",
         {Then({"config path", "configured path"},
               {"missing", "not found", "invalid", "unreachable"})}),
    Rule("model_path", "model_path", "medium",
         {Then({"model path"}, {"missing", "not found", "invalid", "unreachable"}),
          Then({"model checkpoint", "model weights"}, {"missing", "not found", "unreachable"})}) >>

PersonRules == <<
    Rule("sudo_required", "system", "high",
         {Says({"sudo required", "requires sudo", "root privileges required",
                "privilege escalation required"})}),
    Rule("config_error", "config", "high",
         {Says({"missing required config key", "invalid json", "invalid yaml", "invalid toml",
                "invalid config value", "invalid path", "invalid port", "config file not found"})}),
    Rule("auth_cert", "auth_cert", "high",
         {Says({"http 401", "http 403", "token expired", "invalid token", "certificate expired",
                "certificate verify failed", "tls handshake certificate error"})}),
    Rule("permission_denied", "permission", "high",
         {Says({"permission denied", "eacces", "operation not permitted", "access denied"})}),
    Rule("traceback", "log", "medium",
         {Says({"traceback (most recent call last)", "exception", "fatal", "error:", "failed"})}) >>

RULES == StorageRules \o OptionalRules \o LoadRules \o ServiceRules \o PersonRules

-----------------------------------------------------------------------------
(***************************************************************************)
(* From lines to blocks.                                                   *)
(***************************************************************************)
BLOCK_GAP_LINES == 3

Found(pattern, line) ==
    /\ \A i \in DOMAIN line.text : line.text[i] \cap pattern.not = {}
    /\ \E at \in [DOMAIN pattern.parts -> DOMAIN line.text] :
          /\ \A i \in DOMAIN at : line.text[at[i]] \cap pattern.parts[i] # {}
          /\ \A i, j \in DOMAIN at : i < j => at[i] < at[j]

\* _collect_rule_line_matches: the numbers of the lines a rule matches.
Matched(rule, lines) ==
    {n \in DOMAIN lines : \E pattern \in rule.patterns : Found(pattern, lines[n])}

\* _extract_event_marker
NoId == "none"
Marker(line) == IF line.marked THEN line.id ELSE NoId

\* Mutant: a block that starts without a marker never gets one.
AppendToBlockForgetful(block, n, marker) ==
    [block EXCEPT !.lines = Append(@, n)]

AppendToBlock(block, n, marker) ==
    [block EXCEPT !.lines = Append(@, n), !.marker = IF @ = NoId THEN marker ELSE @]

\* _group_rule_line_matches
Blocks(matched, lines) ==
    LET Take(blocks, n) ==
            LET marker == Marker(lines[n])
                fresh == [lines |-> <<n>>, marker |-> marker]
                open == Last(blocks)
                nearby == n - Last(open.lines) <= BLOCK_GAP_LINES
                changed == marker # NoId /\ open.marker # NoId /\ marker # open.marker
            IN  IF n \notin matched THEN blocks
                ELSE IF blocks = <<>> THEN <<fresh>>
                ELSE IF nearby /\ ~changed
                     THEN Front(blocks) \o <<AppendToBlock(open, n, marker)>>
                     ELSE Append(blocks, fresh)
    IN  FoldLeftDomain(Take, <<>>, lines)

\* _build_signature and _normalize_signature_line: the first line of the block without its time.
Signature(line) == [text |-> line.text, id |-> line.id]

EventOf(rule, block, lines) ==
    LET first == block.lines[1]
    IN  [type |-> rule.event, issue |-> rule.issue, severity |-> rule.severity,
         line |-> first, covers |-> Range(block.lines),
         excerpt |-> SubSeq(lines, first, Last(block.lines)), signature |-> Signature(lines[first])]

Fingerprint(e) == <<e.type, e.issue, e.signature>>

-----------------------------------------------------------------------------
(***************************************************************************)
(* Which events say the same thing.                                        *)
(***************************************************************************)
SpecializedToGeneric(type) ==
    CASE type = "optional_cache_backend_failed" -> {"cache_write_failed"}
      [] type = "cache_write_failed" -> {"disk_full"}
      [] type = "optional_dependency_missing" -> {"python_env"}
      [] type = "optional_integration_failed" -> {"optional_dependency_missing"}
      [] type \in {"notification_sink_failed", "optional_service_unavailable",
                   "observability_export_failed"} -> {"network_connectivity"}
      [] type = "worker_overload" -> {"host_resource"}
      [] OTHER -> {}

ManualToSafe(type) ==
    CASE type = "disk_full" -> {"optional_cache_backend_failed"}
      [] type = "python_env" -> {"optional_integration_failed"}
      [] type = "auth_cert" -> {"notification_sink_failed", "observability_export_failed"}
      [] type = "dependency_service" ->
            {"optional_cache_backend_failed", "optional_service_unavailable", "queue_backpressure"}
      [] type = "network_connectivity" ->
            {"observability_export_failed", "optional_service_unavailable"}
      [] OTHER -> {}

\* The text of one event is found in the text of the other (as whole lines).
Within(inner, outer) ==
    \E i \in 0..(Len(outer) - Len(inner)) : SubSeq(outer, i + 1, i + Len(inner)) = inner

\* _events_are_same_scope
SameScope(d, e) ==
    \/ d.line - e.line \in (0 - BLOCK_GAP_LINES)..BLOCK_GAP_LINES
    \/ Within(d.excerpt, e.excerpt)
    \/ Within(e.excerpt, d.excerpt)

\* Mutant: manual evidence that takes the place of a safe event may be suppressed itself.
KeptForgetsEvidence(e, events) ==
    /\ ~\E m \in events : e.type \in ManualToSafe(m.type) /\ SameScope(e, m)
    /\ ~\E s \in events : e.type \in SpecializedToGeneric(s.type) /\ SameScope(e, s)

\* _suppress_generic_events: is this event of the list reported?
Kept(e, events) ==
    /\ ~\E m \in events : e.type \in ManualToSafe(m.type) /\ SameScope(e, m)
    /\ \/ \E s \in events : /\ SpecializedToGeneric(s.type) # {}
                            /\ s.type \in ManualToSafe(e.type)
                            /\ SameScope(e, s)
       \/ ~\E s \in events : e.type \in SpecializedToGeneric(s.type) /\ SameScope(e, s)

\* _dedupe_detect_all_events: the first of those with the same fingerprint.
Dedupe(events) ==
    FoldLeft(LAMBDA kept, e : IF \E k \in Range(kept) : Fingerprint(k) = Fingerprint(e)
                              THEN kept ELSE Append(kept, e),
             <<>>, events)

RuleNr(e) == CHOOSE r \in DOMAIN RULES : RULES[r].event = e.type
Earlier(d, e) == d.line < e.line \/ (d.line = e.line /\ RuleNr(d) < RuleNr(e))

\* No two events have the same first line and the same rule, so n - 1 events come before the n-th.
InOrder(events) ==
    [n \in 1..Cardinality(events) |->
        CHOOSE e \in events : Cardinality({d \in events : Earlier(d, e)}) = n - 1]

EventsOf(rule, lines) ==
    {EventOf(rule, block, lines) : block \in Range(Blocks(Matched(rule, lines), lines))}

\* The events of all rules, without those that only say that something failed if there are others.
Candidates(lines) ==
    LET all == UNION {EventsOf(rule, lines) : rule \in Range(RULES)}
        telling == {e \in all : e.issue # "log"}
    IN  IF telling # {} THEN telling ELSE all

\* detect_all
DetectAll(lines) ==
    LET events == Candidates(lines)
    IN  Dedupe(InOrder({e \in events : Kept(e, events)}))
=============================================================================
