------------------------- MODULE RegistryGovernance -------------------------
(***************************************************************************)
(* safe_recovery/registry_governance.py: the tables that have to agree     *)
(* before a failure may be repaired by itself.  The registry of safe       *)
(* fixes, the detector, the policy, the precheck, the executors and the    *)
(* regression cases each name event types and fixes; the validator lists   *)
(* the disagreements.                                                      *)
(*                                                                         *)
(* A setup holds all of these tables:                                      *)
(*   safe, domains      the registry, as sequences of specs                *)
(*   detector           event type -> issue type                           *)
(*   remediation        event type -> fix                                  *)
(*   runtime            event type -> event policy                         *)
(*   precheck           fix -> safe spec                                   *)
(*   guarded            event type -> fixes                                *)
(*   safeEvents, manualEvents, manualConstants, manualIssues, local,       *)
(*   remote, regression   sets                                             *)
(* An issue is named by the check that found it.                           *)
(***************************************************************************)
EXTENDS RecoveryPolicy

Detector == INSTANCE ErrorEvents

KnownRules == {"disable_bool", "lower_int", "port_available", "safe_enum_downgrade", "set_literal"}
KnownLayers == {"diagnose_only", "manual_escalation", "safe_auto_recover"}
KnownRisks == {"low", "medium", "high", "critical", "unknown"}
SyntheticEvents == {"unknown"}

\* The issue, when there is one.
Unless(ok, issue) == IF ok THEN {} ELSE {issue}
UnlessSame(actual, expected, issue) == Unless(actual = expected, issue)
All(sets) == UNION sets

\* _validate_unique
Distinct(values) == \A i, j \in DOMAIN values : values[i] = values[j] => i = j
Column(specs, field) == [i \in DOMAIN specs |-> specs[i][field]]

\* _is_safe_json_config_path; a path is [absolute, up, json].
SafeJsonConfigPath(path) == ~path.absolute /\ ~path.up /\ path.json

\* A field path is a sequence of names; an empty name is a dot too many.
FieldPathIssues(candidate) ==
    Unless(candidate.path # <<"">>, "registry_candidate_missing_field_path")
    \cup Unless("" \notin Range(candidate.path), "registry_candidate_invalid_field_path")
    \cup Unless(candidate.rule \in KnownRules, "registry_candidate_unknown_semantic_rule")

SafeSpecIssues(spec) ==
    Unless(spec.blank = {} /\ spec.event # "" /\ spec.issue # "" /\ spec.fix # "",
           "registry_missing_field")
    \cup Unless(spec.fix = "" \/ spec.named, "registry_invalid_fix_id")
    \cup Unless(SafeJsonConfigPath(spec.config), "registry_invalid_config_path")
    \cup Unless(spec.candidates # <<>>, "registry_missing_candidates")
    \cup All({FieldPathIssues(c) : c \in Range(spec.candidates)})

\* _validate_safe_registry_shape
SafeRegistryShape(specs) ==
    Unless(Distinct(Column(specs, "event")), "registry_duplicate_event_type")
    \cup Unless(Distinct(Column(specs, "issue")), "registry_duplicate_issue_type")
    \cup Unless(Distinct(Column(specs, "fix")), "registry_duplicate_fix_id")
    \cup All({SafeSpecIssues(s) : s \in Range(specs)})

\* {spec.event_type: spec.fix_id}: of two specs for an event the last one counts.
FixByEvent(specs) ==
    [event \in Range(Column(specs, "event")) |->
        specs[CHOOSE i \in DOMAIN specs :
                 /\ specs[i].event = event
                 /\ \A j \in DOMAIN specs : specs[j].event = event => j <= i].fix]

DomainIssues(d, fixes) ==
    LET safe == d.layer = "safe_auto_recover"
        known == d.event \in DOMAIN fixes
    IN  Unless(d.event # "" /\ d.issue # "" /\ d.layer # "" /\ d.risk # "",
               "domain_registry_missing_field")
        \cup Unless(d.layer \in KnownLayers, "domain_registry_unknown_strategy")
        \cup Unless(d.risk \in KnownRisks, "domain_registry_unknown_risk_level")
        \cup Unless(d.reason, "domain_registry_missing_reason")
        \cup Unless(safe => known, "domain_registry_safe_without_safe_spec")
        \cup Unless(safe /\ known => d.fix = fixes[d.event], "domain_registry_safe_fix_mismatch")
        \cup Unless(safe => d.risk = "low", "domain_registry_safe_risk_not_low")
        \cup Unless(safe => ~d.operator, "domain_registry_safe_operator_required")
        \cup Unless(~safe => ~known, "domain_registry_non_safe_has_safe_spec")
        \cup Unless(~safe => d.fix \notin Range(fixes), "domain_registry_non_safe_reuses_safe_fix")
        \cup Unless(d.layer = "manual_escalation" => d.operator,
                    "domain_registry_manual_operator_not_required")

\* _validate_domain_registry_shape
DomainRegistryShape(domains, safe) ==
    Unless(Distinct(Column(domains, "event")), "registry_duplicate_domain_event_type")
    \cup All({DomainIssues(d, FixByEvent(safe)) : d \in Range(domains)})

EventsOf(domains, layers) == {d.event : d \in {r \in Range(domains) : r.layer \in layers}}

\* _validate_detector_coverage
DetectorCoverage(domains, detector) ==
    LET expected == Range(Column(domains, "event")) \ SyntheticEvents
    IN  UnlessSame(DOMAIN detector, expected, "detector_event_types")
        \cup All({Unless(d.event \in DOMAIN detector, "detector_missing_event_type")
                  \cup Unless(d.event \in DOMAIN detector => detector[d.event] = d.issue,
                              "detector_issue_type_mismatch")
                  : d \in {r \in Range(domains) : r.event \in expected}})

\* _validate_remediation_manual_constants
ManualConstants(domains, events, issues) ==
    LET manual == {d \in Range(domains) : d.layer = "manual_escalation" /\ d.fix = ""}
    IN  IF events = {} /\ issues = {} THEN {}
        ELSE UnlessSame(events, {d.event : d \in manual}, "remediation_manual_event_types")
             \cup UnlessSame(issues, {d.issue : d \in manual}, "remediation_manual_issue_types")

\* _validate_remediation_mapping
RemediationMapping(domains, remediation) ==
    LET expected == {d \in Range(domains) : d.fix # ""}
    IN  UnlessSame(DOMAIN remediation, {d.event : d \in expected},
                   "remediation_mapping_event_types")
        \cup All({Unless(d.event \in DOMAIN remediation /\ remediation[d.event] = d.fix,
                         "remediation_mapping_mismatch") : d \in expected})

EventPolicyIssues(d, ep) ==
    LET safe == d.layer = "safe_auto_recover"
    IN  UnlessSame(ep.layer, d.layer, "runtime_policy_strategy_mismatch")
        \cup UnlessSame(ep.fixes, IF safe THEN <<d.fix>> ELSE <<>>, "runtime_policy_fix_mismatch")
        \cup Unless(ep.audit, "runtime_policy_audit_missing")
        \cup UnlessSame(ep.risk, d.risk, "runtime_policy_risk_mismatch")
        \cup Unless(safe => ep.precheck, "runtime_policy_precheck_missing")
        \cup Unless(safe => ep.rollback, "runtime_policy_rollback_missing")
        \cup Unless(safe => ~ep.confirm, "runtime_policy_operator_required")
        \cup Unless(safe => ep.risk = "low", "runtime_policy_risk_not_low")
        \cup Unless(d.layer = "manual_escalation" => ep.confirm,
                    "runtime_policy_manual_operator_not_required")
        \cup Unless(d.layer = "diagnose_only" => ~ep.confirm,
                    "runtime_policy_diagnose_operator_required")
        \cup Unless(~safe => ~ep.precheck, "runtime_policy_precheck_enabled")
        \cup Unless(~safe => ~ep.rollback, "runtime_policy_rollback_enabled")

\* Mutant: only the layers of the runtime policies are compared with the registry.
RuntimePoliciesLayersOnly(domains, runtime) ==
    All({UnlessSame({e \in DOMAIN runtime : runtime[e].layer = layer},
                    EventsOf(domains, {layer}), "runtime_event_types") : layer \in KnownLayers})

\* _validate_runtime_policies
RuntimePolicies(domains, runtime) ==
    UnlessSame(DOMAIN runtime, Range(Column(domains, "event")), "runtime_event_types")
    \cup All({UnlessSame({e \in DOMAIN runtime : runtime[e].layer = layer},
                         EventsOf(domains, {layer}), "runtime_layer_event_types")
              : layer \in KnownLayers})
    \cup All({IF d.event \notin DOMAIN runtime THEN {"runtime_policy_missing"}
              ELSE EventPolicyIssues(d, runtime[d.event]) : d \in Range(domains)})

\* _validate_precheck_specs
PrecheckSpecs(safe, precheck) ==
    UnlessSame(DOMAIN precheck, Range(FixByEvent(safe)), "precheck_spec_fix_ids")
    \cup All({Unless(s.fix \in DOMAIN precheck => precheck[s.fix] = s, "precheck_spec_mismatch")
              : s \in Range(safe)})

\* _validate_guarded_candidates
GuardedCandidates(safe, guarded) ==
    LET fixes == FixByEvent(safe)
    IN  UnlessSame(DOMAIN guarded, DOMAIN fixes, "guarded_candidate_event_types")
        \cup Unless(\A e \in DOMAIN fixes : e \in DOMAIN guarded /\ guarded[e] = {fixes[e]},
                    "guarded_candidate_fix_mismatch")

(***************************************************************************)
(* validate_safe_recovery_registry_governance                              *)
(***************************************************************************)
Governance(s) ==
    IF s.domains = <<>> THEN {"registry_empty"}
    ELSE LET fixes == Range(FixByEvent(s.safe))
             detected == Range(Column(s.domains, "event")) \ SyntheticEvents
         IN  Unless(s.safe # <<>>, "safe_registry_empty")
             \cup SafeRegistryShape(s.safe)
             \cup DomainRegistryShape(s.domains, s.safe)
             \cup DetectorCoverage(s.domains, s.detector)
             \cup UnlessSame(s.safeEvents, Range(Column(s.safe, "event")),
                             "policy_safe_event_types")
             \cup UnlessSame(s.manualEvents, EventsOf(s.domains, {"manual_escalation"}),
                             "policy_manual_event_types")
             \cup ManualConstants(s.domains, s.manualConstants, s.manualIssues)
             \cup RemediationMapping(s.domains, s.remediation)
             \cup RuntimePolicies(s.domains, s.runtime)
             \cup PrecheckSpecs(s.safe, s.precheck)
             \cup GuardedCandidates(s.safe, s.guarded)
             \cup UnlessSame(s.local, fixes, "local_executor_supported_fix_ids")
             \cup UnlessSame(s.remote, fixes, "remote_executor_supported_fix_ids")
             \cup Unless(detected \subseteq s.regression, "regression_expected_case_missing")
             \cup Unless(Cardinality(Range(Column(s.safe, "issue"))) = Len(s.safe),
                         "registry_duplicate_issue_type_mapping")

-----------------------------------------------------------------------------
(***************************************************************************)
(* The setup the program is shipped with: every table is built from the    *)
(* registry except the detector's rules.                                   *)
(***************************************************************************)
JsonFile == [absolute |-> FALSE, up |-> FALSE, json |-> TRUE]

Described(spec) ==
    [event |-> spec.event, issue |-> spec.issue, fix |-> spec.fix, named |-> TRUE, blank |-> {},
     config |-> JsonFile,
     candidates |-> [k \in DOMAIN spec.candidates |->
                        [path |-> <<spec.candidates[k].field>>, rule |-> spec.candidates[k].rule]]]

DescribedDomain(d) ==
    [event |-> d.event, issue |-> d.issue, layer |-> d.layer, fix |-> d.fix,
     risk |-> RiskOf(d.layer), operator |-> d.layer = "manual_escalation", reason |-> TRUE]

Shipped(project) ==
    LET safe == [i \in DOMAIN SafeSpecs |-> Described(SafeSpecs[i])]
        manual == {d \in Rows : d.layer = "manual_escalation"}
        fixed == {d \in Rows : d.fix # ""}
    IN  [safe |-> safe,
         domains |-> [i \in DOMAIN Domains |-> DescribedDomain(Domains[i])],
         detector |-> [e \in Range(Column(Detector!RULES, "event")) |->
                          (CHOOSE r \in Range(Detector!RULES) : r.event = e).issue],
         safeEvents |-> {s.event : s \in Range(SafeSpecs)},
         manualEvents |-> {d.event : d \in manual},
         manualConstants |-> {d.event : d \in {m \in manual : m.fix = ""}},
         manualIssues |-> {d.issue : d \in {m \in manual : m.fix = ""}},
         remediation |-> [e \in {d.event : d \in fixed} |-> DomainOf(e).fix],
         runtime |-> RuntimePolicy(project).events,
         precheck |-> [f \in SafeFixes |-> CHOOSE s \in Range(safe) : s.fix = f],
         guarded |-> [e \in {s.event : s \in Range(SafeSpecs)} |-> {SafeFixOf(e)}],
         local |-> SafeFixes, remote |-> SafeFixes,
         regression |-> EventTypes \ SyntheticEvents]
=============================================================================
