--------------------------- MODULE RecoveryPolicy ---------------------------
(***************************************************************************)
(* The decision whether a failure may be repaired without a person: the    *)
(* registry of safe fixes (safe_recovery/registry.py), the rule a change   *)
(* of a field has to obey (safe_recovery/semantics.py and its copy in the  *)
(* remote editor), the policy (policies/) and the runtime gate that has    *)
(* the last word (recovery/auto_recovery_runtime_gate.py and               *)
(* auto_recovery_runtime_controls.py).                                     *)
(*                                                                         *)
(* Everything here is a function of its arguments.  An event is a record   *)
(* [type, issue, sure, domains, text]: `domains' are the groups of markers *)
(* its text matches, `sure' says that its confidence reaches what safe     *)
(* recovery asks for.  A world is what the precheck finds on disk:         *)
(* [reading, content, port].                                               *)
(***************************************************************************)
EXTENDS Integers, Sequences, FiniteSets, SequencesExt, Functions

(***************************************************************************)
(* Values of a JSON field, compared the way Python does: TRUE = 1.         *)
(***************************************************************************)
Bool(b) == [kind |-> "bool", it |-> IF b THEN 1 ELSE 0]
Num(n) == [kind |-> "int", it |-> n]
Str(s) == [kind |-> "str", it |-> s]

Numeric == {"bool", "int"}
IsValue(v) ==
    \/ v.kind = "bool" /\ v.it \in {0, 1}
    \/ v.kind = "int" /\ v.it \in Int
    \/ v.kind = "str"
IsConfig(c) == \A field \in DOMAIN c : IsValue(c[field])
PyEqual(a, b) == ({a.kind, b.kind} \subseteq Numeric \/ a.kind = b.kind) /\ a.it = b.it

DowngradeValues == {"memory", "local", "file", "console"}

\* Mutant: an integer may be set to any other.
TransitionAnyInt(rule, old, new, port) ==
    CASE PyEqual(old, new) -> "no_op"
      [] rule = "lower_int" -> "actionable"
      [] OTHER -> "unsafe"

(***************************************************************************)
(* evaluate_safe_transition.  `port' is "free", "taken" or "unchecked".        *)
(***************************************************************************)
Transition(rule, old, new, port) ==
    CASE PyEqual(old, new) -> "no_op"
      [] /\ ~PyEqual(old, new)
         /\ \/ rule = "disable_bool" /\ old = Bool(TRUE) /\ new = Bool(FALSE)
            \/ rule = "lower_int" /\ old.kind = "int" /\ new.kind = "int" /\ old.it > new.it
            \/ rule = "port_available" /\ new.kind = "int" /\ port = "free"
            \/ /\ rule = "safe_enum_downgrade"
               /\ old.kind = "str" /\ new.kind = "str" /\ new.it \in DowngradeValues
            \/ rule = "set_literal" -> "actionable"
      [] /\ ~PyEqual(old, new)
         /\ rule = "port_available" /\ new.kind = "int" /\ port = "unchecked" -> "deferred"
      [] OTHER -> "unsafe"

(***************************************************************************)
(* semantic_transition of the script that runs on the remote host: the     *)
(* same rules once more, except that it always looks at the port.          *)
(***************************************************************************)
RemoteTransition(rule, old, new, free) ==
    IF PyEqual(old, new) THEN "no_op"
    ELSE LET safe ==
               CASE rule = "disable_bool" -> old = Bool(TRUE) /\ new = Bool(FALSE)
                 [] rule = "lower_int" ->
                      old.kind = "int" /\ new.kind = "int" /\ old.it > new.it
                 [] rule = "port_available" -> new.kind = "int" /\ free
                 [] rule = "safe_enum_downgrade" ->
                      {old.kind, new.kind} = {"str"} /\ new.it \in DowngradeValues
                 [] OTHER -> TRUE
         IN  IF safe THEN "actionable" ELSE "unsafe"

-----------------------------------------------------------------------------
(***************************************************************************)
(* The registry.                                                           *)
(***************************************************************************)
Off(field) == [field |-> field, new |-> Bool(FALSE), rule |-> "disable_bool"]
Lower(field, n) == [field |-> field, new |-> Num(n), rule |-> "lower_int"]
Degrade(field, s) == [field |-> field, new |-> Str(s), rule |-> "safe_enum_downgrade"]
Port(field, n) == [field |-> field, new |-> Num(n), rule |-> "port_available"]

Offs(fields) == [i \in DOMAIN fields |-> Off(fields[i])]
Lowers(fields, n) == [i \in DOMAIN fields |-> Lower(fields[i], n)]

SafeSpec(event, issue, fix, candidates) ==
    [event |-> event, issue |-> issue, fix |-> fix, candidates |-> candidates]

HostSpecs == <<
    SafeSpec("network_port", "network_port", "fix-network-1", <<Port("metrics_port", 9101)>>),
    SafeSpec("gpu_oom", "gpu", "fix-gpu-1",
          Lowers(<<"batch_size", "train_batch_size", "per_device_train_batch_size",
                   "samples_per_gpu", "training.batch_size", "model.batch_size">>, 4)) >>

OptionalSpecs == <<
    SafeSpec("cache_write_failed", "cache", "fix-cache-1",
          Offs(<<"cache_enabled", "feature_cache_enabled", "cache.write_enabled",
                 "simulate_cache_write_failed", "simulate_disk_full">>)),
    SafeSpec("optional_dependency_missing", "optional_dependency", "fix-optional-dep-1",
          Offs(<<"optional_dependency_enabled", "optional_dependencies.internal_risk_sdk.enabled",
                 "plugins.internal_risk_sdk.enabled", "risk_sdk_enabled",
                 "simulate_python_env_mismatch">>)),
    SafeSpec("optional_integration_failed", "optional_integration", "fix-optional-integration-1",
          Offs(<<"optional_webhook_enabled", "risk_sdk_enabled", "enrichment_client_enabled",
                 "optional_integrations.risk_sdk.enabled",
                 "optional_integrations.enrichment.enabled",
                 "simulate_optional_integration_failed">>)) >>

ServiceSpecs == <<
    SafeSpec("optional_cache_backend_failed", "optional_cache_backend", "fix-cache-backend-1",
          <<Degrade("cache.backend", "memory"), Degrade("cache.mode", "memory")>> \o
          Offs(<<"cache.redis_enabled", "cache.write_enabled", "feature_cache_enabled",
                 "simulate_optional_cache_backend_failed">>)),
    SafeSpec("optional_service_unavailable", "optional_service", "fix-optional-service-1",
          Offs(<<"optional_services.enrichment.enabled", "optional_services.recommendation.enabled",
                 "optional_services.risk_scoring.enabled", "enrichment_enabled",
                 "recommendation_enabled", "external_risk_scoring_enabled",
                 "simulate_optional_service_unavailable">>)),
    SafeSpec("notification_sink_failed", "notification_sink", "fix-notification-sink-1",
          Offs(<<"notification.webhook_enabled", "notifications.webhook.enabled",
                 "notification.remote_sink_enabled", "notification_sink.webhook_enabled",
                 "simulate_notification_sink_failed">>)) >>

LoadSpecs == <<
    SafeSpec("observability_export_failed", "observability_export", "fix-observability-export-1",
          <<Degrade("observability.exporter_mode", "local"),
            Degrade("observability.metrics_sink", "file"),
            Degrade("observability.tracing_sink", "console")>> \o
          Offs(<<"observability.remote_exporter_enabled", "metrics.remote_exporter_enabled",
                 "tracing.remote_exporter_enabled", "simulate_observability_export_failed">>)),
    SafeSpec("queue_backpressure", "queue_backpressure", "fix-queue-backpressure-1",
          <<Lower("prefetch_count", 2), Lower("max_inflight", 10), Lower("consumer_workers", 2),
            Lower("queue.prefetch_count", 2), Lower("queue.max_inflight", 10),
            Lower("queue.consumer_workers", 2)>>),
    SafeSpec("worker_overload", "worker_overload", "fix-worker-1",
          Lowers(<<"worker_concurrency", "workers", "max_workers", "consumer_workers",
                   "worker.concurrency", "server.workers">>, 2)) >>

SafeSpecs == HostSpecs \o OptionalSpecs \o ServiceSpecs \o LoadSpecs

\* A domain: the strategy for an event type.
Domain(event, issue, layer, fix) ==
    [event |-> event, issue |-> issue, layer |-> layer, fix |-> fix]

SafeDomains ==
    [i \in DOMAIN SafeSpecs |->
        Domain(SafeSpecs[i].event, SafeSpecs[i].issue, "safe_auto_recover", SafeSpecs[i].fix)]

ManualDomains ==
    LET Manual(event, issue) == Domain(event, issue, "manual_escalation", "")
    IN  << Manual("auth_cert", "auth_cert"), Manual("config_error", "config"),
           Manual("container_k8s", "container_k8s"),
           Manual("dependency_service", "dependency_service"), Manual("disk_full", "disk"),
           Manual("host_resource", "host_resource"),
           Manual("network_connectivity", "network_connectivity"),
           Manual("permission_denied", "permission"), Manual("process_crash", "process"),
           Manual("process_kill", "process"),
           Domain("python_env", "python_env", "manual_escalation", "fix-python-1"),
           Manual("slurm", "slurm"), Manual("sudo_required", "system"),
           Manual("unknown", "unknown") >>

DiagnoseDomains ==
    << Domain("config_path", "config_path", "diagnose_only", "fix-config-path-1"),
       Domain("model_path", "model_path", "diagnose_only", "fix-model-path-1"),
       Domain("traceback", "log", "diagnose_only", "") >>

Domains == SafeDomains \o ManualDomains \o DiagnoseDomains

\* The indexes of the registry.
Rows == Range(Domains)
EventTypes == {d.event : d \in Rows}
DomainOf(event) == CHOOSE d \in Rows : d.event = event
SafeFixes == {s.fix : s \in Range(SafeSpecs)}
SpecOfFix(fix) == CHOOSE s \in Range(SafeSpecs) : s.fix = fix
SafeFixOf(event) ==
    IF \E s \in Range(SafeSpecs) : s.event = event
    THEN (CHOOSE s \in Range(SafeSpecs) : s.event = event).fix
    ELSE ""
FixOfEvent(event) == IF event \in EventTypes THEN DomainOf(event).fix ELSE ""

\* The first fix registered for an issue type.
FixOfIssue(issue) ==
    LET with == SelectSeq(Domains, LAMBDA d : d.issue = issue /\ d.fix # "")
    IN  IF with = <<>> THEN "" ELSE Head(with).fix

\* The strictest strategy registered for an issue type.
StrategyOfIssue(issue) ==
    LET layers == {d.layer : d \in {r \in Rows : r.issue = issue}}
    IN  CASE "manual_escalation" \in layers -> "manual_escalation"
          [] "manual_escalation" \notin layers /\ "safe_auto_recover" \in layers ->
                "safe_auto_recover"
          [] layers = {"diagnose_only"} -> "diagnose_only"
          [] OTHER -> "unregistered"

-----------------------------------------------------------------------------
(***************************************************************************)
(* The policy.                                                             *)
(***************************************************************************)
AutoLayers == {"safe_auto_recover", "guarded_auto_recover"}

\* An event type for which nothing may be done without an operator.
Refusal(layer, reason) ==
    [layer |-> layer, allowed |-> FALSE, dry |-> TRUE, fix |-> "", reason |-> reason,
     operator |-> layer \in {"manual_escalation", "disabled", "guarded_auto_recover"}]

EffectiveDry(policy, ep) == IF ep.dry = "default" THEN policy.dry ELSE ep.dry = "yes"

(***************************************************************************)
(* _validate_event_policy with _validate_registry_auto_candidate.          *)
(***************************************************************************)
ValidEventPolicy(policy, event, ep) ==
    /\ ep.fallback \notin AutoLayers
    /\ event = "unknown" => ep.layer \notin AutoLayers
    /\ ep.layer = "disabled" => ep.fixes = <<>>
    /\ ep.layer \in AutoLayers =>
        /\ event \in EventTypes
        /\ DomainOf(event).layer = "safe_auto_recover"
        /\ ep.fixes = <<DomainOf(event).fix>>
        /\ ep.audit
    /\ ep.layer = "safe_auto_recover" => ep.precheck /\ ep.rollback /\ ep.risk = "low"
    /\ ep.layer = "guarded_auto_recover" => EffectiveDry(policy, ep)

ValidPolicy(policy) ==
    /\ policy.default \notin AutoLayers
    /\ policy.unknown \notin AutoLayers
    /\ policy.allow \cap policy.forbidden = {}
    /\ \A event \in DOMAIN policy.events : ValidEventPolicy(policy, event, policy.events[event])

\* Mutant: the allowlist is consulted for the event type, not for the fix.
ResolveAnyFix(policy, event, confidence, fix) ==
    IF event \in DOMAIN policy.events /\ policy.events[event].layer \in AutoLayers
    THEN [layer |-> "safe_auto_recover", allowed |-> TRUE, fix |-> fix, reason |-> "",
          dry |-> EffectiveDry(policy, policy.events[event]), operator |-> FALSE]
    ELSE Refusal("manual_escalation", "no_policy")

(***************************************************************************)
(* resolve_policy_for_event, for a policy that is valid.                   *)
(***************************************************************************)
Resolve(policy, event, confidence, fix) ==
    LET known == event \in DOMAIN policy.events
        ep == policy.events[event]
        forbidden == policy.forbidden \cup (IF known THEN ep.forbidden ELSE {})
    IN  CASE fix # "" /\ fix \in forbidden -> Refusal("disabled", "candidate_fix_id_forbidden")
          [] ~known /\ fix \notin forbidden -> Refusal(policy.unknown, "unknown_event_type")
          [] OTHER ->
                IF ep.layer # "safe_auto_recover" THEN Refusal(ep.layer, "layer")
                ELSE IF confidence < ep.confidence THEN Refusal(ep.fallback, "confidence")
                ELSE IF fix = "" \/ fix \notin Range(ep.fixes) THEN Refusal(ep.fallback, "fix")
                ELSE IF policy.allow # {} /\ fix \notin policy.allow
                     THEN Refusal(ep.fallback, "allowlist")
                ELSE [layer |-> "safe_auto_recover", allowed |-> TRUE, fix |-> fix, reason |-> "",
                      dry |-> EffectiveDry(policy, ep), operator |-> ep.confirm]

(***************************************************************************)
(* The policy the gate builds from the registry and the project.           *)
(***************************************************************************)
ForbiddenActions == {"kill -9", "rm -rf", "pip install", "sudo"}

\* The risk level the registry gives every domain of a layer.
RiskOf(layer) ==
    CASE layer = "safe_auto_recover" -> "low"
      [] layer = "manual_escalation" -> "high"
      [] OTHER -> "medium"

EventPolicyOf(project, d) ==
    LET safe == d.layer = "safe_auto_recover"
    IN  [layer |-> d.layer, risk |-> RiskOf(d.layer),
         confidence |-> IF safe THEN 8 ELSE 0,
         fixes |-> IF safe THEN <<d.fix>> ELSE <<>>, forbidden |-> {},
         precheck |-> safe, rollback |-> safe, confirm |-> d.layer = "manual_escalation",
         audit |-> TRUE, fallback |-> "manual_escalation",
         dry |-> IF ~safe THEN "default" ELSE IF project.dry THEN "yes" ELSE "no"]

RuntimePolicy(project) ==
    [default |-> "manual_escalation", unknown |-> "diagnose_only", dry |-> project.dry,
     events |-> [event \in EventTypes |-> EventPolicyOf(project, DomainOf(event))],
     allow |-> project.allow, forbidden |-> ForbiddenActions]

(***************************************************************************)
(* What CompatibilityRemediationPolicy would do: evidence, not authority.  *)
(***************************************************************************)
ManualByRegistry(e) ==
    IF e.type \in EventTypes
    THEN DomainOf(e.type).layer = "manual_escalation" /\ DomainOf(e.type).fix = ""
    ELSE StrategyOfIssue(e.issue) = "manual_escalation"

LegacyFix(e) == IF FixOfEvent(e.type) # "" THEN FixOfEvent(e.type) ELSE FixOfIssue(e.issue)

LegacyAction(project, e) ==
    IF ~project.auto \/ ManualByRegistry(e) \/ e.issue \in project.escalate
    THEN "manual_escalation"
    ELSE IF LegacyFix(e) = "" THEN "report_only"
    ELSE IF LegacyFix(e) \in project.allow THEN "auto_recover" ELSE "manual_escalation"

-----------------------------------------------------------------------------
(***************************************************************************)
(* The precheck: what the fix would change.                                *)
(***************************************************************************)
Readings == {"read_ok", "remote_deferred_no_write", "config_missing", "invalid_json", "unsafe_path"}

\* The candidates the file has, with what the rule says of each.
Planned(spec, world) ==
    LET there == {k \in DOMAIN spec.candidates :
                    \/ world.reading = "remote_deferred_no_write"
                    \/ world.reading = "read_ok" /\ spec.candidates[k].field \in DOMAIN world.content}
    IN  [k \in there |->
            IF world.reading = "remote_deferred_no_write" THEN "deferred"
            ELSE Transition(spec.candidates[k].rule, world.content[spec.candidates[k].field],
                            spec.candidates[k].new, world.port)]

Actionable(planned) == {k \in DOMAIN planned : planned[k] \in {"actionable", "deferred"}}
OfStatus(planned, status) == {k \in DOMAIN planned : planned[k] = status}

NoOp(planned) ==
    OfStatus(planned, "no_op") # {} /\ Actionable(planned) \cup OfStatus(planned, "unsafe") = {}

\* The least of a set of numbers.
FirstOf(ks) == CHOOSE k \in ks : \A l \in ks : k <= l

\* A row is a condition and the reason it gives; these are the rows that hold.
Holding(rows) == {i \in DOMAIN rows : rows[i][1]}
Reasons(rows) == {rows[i][2] : i \in Holding(rows)}
FirstReason(rows) == rows[FirstOf(Holding(rows))][2]

RollbackPlan(project, fix) == project.rollback /\ fix \in SafeFixes

(***************************************************************************)
(* build_runtime_precheck_result: the reasons against the fix.             *)
(***************************************************************************)
FixRows(project, e, fix, world) ==
    IF fix \notin SafeFixes THEN << <<TRUE, "fix_safety_spec_missing">> >>
    ELSE LET planned == Planned(SpecOfFix(fix), world)
         IN  << <<SpecOfFix(fix).event # e.type, "fix_event_type_mismatch">>,
                <<~project.dir, "project_dir_missing">>,
                <<world.reading \notin {"read_ok", "remote_deferred_no_write"}, world.reading>>,
                <<world.reading = "read_ok" /\ DOMAIN planned = {}, "target_config_field_missing">>,
                <<OfStatus(planned, "unsafe") # {} /\ Actionable(planned) = {},
                  "unsafe_semantic_transition">>,
                <<~RollbackPlan(project, fix), "rollback_plan_unavailable">> >>

(***************************************************************************)
(* Evidence of another domain than the one the fix is for.                 *)
(***************************************************************************)
Ambiguous(e, fix) ==
    /\ fix # "" /\ e.text
    /\ \/ /\ fix \in {"fix-worker-1", "fix-queue-backpressure-1"}
          /\ {"worker_overload", "queue_backpressure"} \subseteq e.domains
       \/ /\ fix = "fix-queue-backpressure-1"
          /\ {"queue_backpressure", "dependency_service"} \subseteq e.domains
       \/ /\ fix = "fix-optional-dep-1"
          /\ "python_env" \in e.domains /\ "optional_dependency" \notin e.domains
       \/ /\ fix = "fix-optional-integration-1"
          /\ "python_env" \in e.domains /\ "optional_integration" \notin e.domains
       \/ /\ fix = "fix-cache-1"
          /\ "disk_full" \in e.domains /\ "cache_write" \notin e.domains

(***************************************************************************)
(* _run_precheck: the reasons of the project are added, ambiguity first.   *)
(***************************************************************************)
ProjectRows(project, e, fix) ==
    <<  <<~project.auto, "project_auto_recover_disabled">>,
        <<e.issue \in project.escalate, "project_escalation_required">>,
        <<SafeFixOf(e.type) \notin {"", fix}, "target_fix_mismatch">>,
        <<SafeFixOf(e.type) = "", "event_type_not_existing_safe_candidate">>,
        <<fix # "" /\ fix \notin project.allow, "fix_id_not_in_project_allowlist">>,
        <<~project.dir, "project_dir_missing">>,
        <<~e.text, "insufficient_evidence">>,
        <<~project.rollback, "rollback_disabled">> >>

ReasonRows(project, e, fix, world) ==
    << <<Ambiguous(e, fix), "ambiguous_event_evidence">> >>
    \o FixRows(project, e, fix, world) \o ProjectRows(project, e, fix)

-----------------------------------------------------------------------------
(***************************************************************************)
(* The gate.                                                               *)
(***************************************************************************)
FirstFailed(rows, noop, count, cool, plan) ==
    IF Holding(rows) # {} THEN FirstReason(rows)
    ELSE IF noop THEN "no_op_already_safe"
    ELSE IF count = 0 THEN "no_actionable_planned_edit"
    ELSE IF ~cool THEN "cooldown_active"
    ELSE IF ~plan THEN "rollback_unavailable" ELSE ""

Blocked(e, reason) ==
    [layer |-> "disabled", dry |-> TRUE, go |-> FALSE, allowed |-> FALSE, operator |-> TRUE,
     fix |-> "", reason |-> reason, reasons |-> {reason}, plan |-> FALSE, count |-> 0,
     unsafe |-> FALSE]

(***************************************************************************)
(* evaluate_runtime_auto_recovery_gate.  `go' is allowed_to_execute.       *)
(***************************************************************************)
Gate(project, e, world, cool) ==
    LET policy == RuntimePolicy(project)
        d == Resolve(policy, e.type, IF e.sure THEN 10 ELSE 0, FixOfEvent(e.type))
        rows == ReasonRows(project, e, d.fix, world)
        planned == IF d.fix \in SafeFixes THEN Planned(SpecOfFix(d.fix), world) ELSE <<>>
        count == Cardinality(Actionable(planned))
        plan == RollbackPlan(project, d.fix)
        ambiguous == Ambiguous(e, d.fix)
        failed == IF d.reason # "" THEN d.reason
                  ELSE FirstFailed(rows, NoOp(planned), count, cool, plan)
        operator == d.operator \/ ambiguous
    IN  IF ~project.enabled THEN Blocked(e, "r15_policy_disabled")
        ELSE IF ~ValidPolicy(policy) THEN Blocked(e, "r15_policy_validation_failed")
        ELSE [layer |-> IF d.layer = "safe_auto_recover" /\ (ambiguous \/ ~d.allowed)
                        THEN "manual_escalation" ELSE d.layer,
              dry |-> d.dry, allowed |-> d.allowed, operator |-> operator, fix |-> d.fix,
              go |-> /\ d.allowed /\ ~d.dry /\ Holding(rows) = {} /\ count > 0 /\ ~NoOp(planned)
                     /\ cool /\ plan /\ ~operator,
              reason |-> IF d.allowed /\ d.dry /\ failed = "" THEN "r15_dry_run" ELSE failed,
              reasons |-> Reasons(rows), plan |-> plan, count |-> count,
              unsafe |-> OfStatus(planned, "unsafe") # {}]

\* is_auto_recover_candidate: what the monitor asks before it gives an event its turn.
Candidate(project, e, world, cool) ==
    LET gate == Gate(project, e, world, cool)
    IN  gate.allowed /\ gate.fix # "" /\ gate.reasons = {}

\* _is_safe_fix_approval_candidate: whether an operator may approve what the gate blocked.
Approvable(gate, e) ==
    /\ gate.fix \in SafeFixes
    /\ gate.fix = FixOfEvent(e.type)
    /\ gate.allowed
    /\ gate.plan
    /\ gate.reasons \subseteq {"ambiguous_event_evidence"}
    /\ gate.count > 0
    /\ ~gate.unsafe

-----------------------------------------------------------------------------
(***************************************************************************)
(* What the executors then do with the file: the index of the candidate    *)
(* that is written, 0 if a field has its value already and none is         *)
(* written, -1 if the fix fails.                                           *)
(***************************************************************************)
\* Mutant: the executor relies on what the gate saw.
LocalChoiceUnchecked(spec, content, port) ==
    LET there == {k \in DOMAIN spec.candidates : spec.candidates[k].field \in DOMAIN content}
    IN  IF there = {} THEN -1 ELSE FirstOf(there)

\* _update_first_safe_registry_field
LocalChoice(spec, content, port) ==
    LET planned == Planned(spec, [reading |-> "read_ok", content |-> content, port |-> port])
    IN  IF Actionable(planned) # {} THEN FirstOf(Actionable(planned))
        ELSE IF OfStatus(planned, "no_op") # {} THEN 0 ELSE -1

\* _apply_first_existing_remote_field: the remote editor is asked for one candidate after another.
RemoteChoice(spec, content, free) ==
    LET there == {k \in DOMAIN spec.candidates : spec.candidates[k].field \in DOMAIN content}
        Says(k) == RemoteTransition(spec.candidates[k].rule, content[spec.candidates[k].field],
                                    spec.candidates[k].new, free)
    IN  IF \E k \in there : Says(k) = "actionable"
        THEN FirstOf({k \in there : Says(k) = "actionable"})
        ELSE IF \E k \in there : Says(k) = "no_op" THEN 0 ELSE -1

WrittenBy(spec, content, k) ==
    IF k > 0 THEN [content EXCEPT ![spec.candidates[k].field] = spec.candidates[k].new] ELSE content

\* The values a fix may put in the place of another, said without the rules of the registry:
\* a smaller number, a fallback that needs no other service, another port for the metrics, or
\* FALSE for TRUE.
Degrades(field, old, new) ==
  \/ old.kind = "int" /\ new.kind = "int" /\ new.it < old.it
  \/ new.kind = "str" /\ new.it \in DowngradeValues
  \/ field = "metrics_port" /\ new.kind = "int"
  \/ old = Bool(TRUE) /\ new = Bool(FALSE)
=============================================================================
