---------------------------- MODULE FixPlanning ----------------------------
(***************************************************************************)
(* From the evidence of a session to the fixes offered to its user: the    *)
(* router (routers/issue_router.py) finds the areas the evidence is about, *)
(* the session (_strong_fix_issue_types) keeps those the evidence is       *)
(* strong for, and the planner (fixers/remediation_planner.py) lists their *)
(* fixes.  Router and session look for phrases with tables of their own,   *)
(* and the router reads only the end of the evidence.                      *)
(*                                                                         *)
(* The evidence is a record of sets of phrases                             *)
(*   path    what is in the path of the combined evidence                  *)
(*   early   what comes before the last max_chars characters of it         *)
(*   tail    what comes within them                                        *)
(*   named   what follows "primary_failure=" in the tail                   *)
(* and `read' says that the router finds the file under its path.          *)
(* Confidence is counted in hundredths.                                    *)
(***************************************************************************)
EXTENDS Integers, Sequences, FiniteSets, SequencesExt

Areas == {"disk", "gpu", "network_port", "slurm", "python_env"}

\* ISSUE_PRIORITY: the areas, the most severe first.
ISSUE_PRIORITY == <<"gpu", "slurm", "disk", "python_env", "network_port">>

\* ROUTE_RULES: the keywords of an area; those in Chinese are one of them.
Keywords(area) ==
    CASE area = "disk" ->
            {"no space left on device", "disk quota exceeded", "errno 28", "quota", "df -h",
             "df -ih", "du -sh", "inode", "/tmp no space", "disk words"}
      [] area = "gpu" ->
            {"cuda out of memory", "hip out of memory", "outofmemoryerror", "oom-kill",
             "oom kill", "accelerator memory constraints", "exceeded memory", "oom", "gpu", "dcu",
             "cuda", "hip", "nvidia-smi", "hy-smi", "rocm-smi", "pytorch_cuda_alloc_conf",
             "pytorch_hip_alloc_conf", "vram used memory", "vram free memory", "gpu words"}
      [] area = "network_port" ->
            {"address already in use", "errno 98", "connection refused", "connection timed out",
             "port", "tensorboard", "9100", "19100", "bind", "lsof", "ss -lntp", "netstat",
             "port words"}
      [] area = "slurm" ->
            {"slurm", "slurmstepd", "squeue", "sbatch", "scontrol", "sinfo", "sacct", "pending",
             "jobstate=pending", "reason=resources", "nodelist(reason)", "node down", "drain",
             "not responding", "partition", "gres", "submitted batch job", "slurm words"}
      [] area = "python_env" ->
            {"modulenotfounderror", "importerror", "no module named", "pip path",
             "python interpreter", "do not belong to the same environment", "pip", "conda",
             "venv", "virtualenv", "python path", "which python", "site-packages",
             "python words"}

AreaTools(area) ==
    CASE area = "disk" ->
            <<"check_disk_usage", "diagnose_log_file", "diagnose_mixed_log_file",
              "run_shell_command">>
      [] area = "gpu" ->
            <<"diagnose_mixed_log_file", "diagnose_log_file", "check_gpu_status",
              "run_shell_command">>
      [] area = "network_port" ->
            <<"diagnose_mixed_log_file", "diagnose_log_file", "run_shell_command">>
      [] area = "slurm" ->
            <<"diagnose_mixed_log_file", "diagnose_slurm_file", "diagnose_slurm_text",
              "check_slurm_queue", "check_slurm_nodes", "check_slurm_job">>
      [] area = "python_env" ->
            <<"diagnose_mixed_log_file", "diagnose_python_error_text",
              "check_python_environment", "check_python_package", "diagnose_log_file">>

\* Phrases of one table that are found in those of another.
Inside(phrase) ==
    CASE phrase \in {"cuda out of memory", "pytorch_cuda_alloc_conf"} -> {"cuda"}
      [] phrase \in {"hip out of memory", "pytorch_hip_alloc_conf"} -> {"hip"}
      [] phrase = "torch.outofmemoryerror" -> {"outofmemoryerror"}
      [] phrase \in {"oom-kill", "oom kill"} -> {"oom"}
      [] phrase = "df -h /tmp" -> {"df -h"}
      [] phrase = "df -ih /tmp" -> {"df -ih"}
      [] phrase \in {"no space left on device", "/tmp no space"} -> {"no space"}
      [] phrase = "disk quota exceeded" -> {"disk", "quota"}
      [] phrase \in {"modulenotfounderror", "no module named"} -> {"module"}
      [] phrase = "importerror" -> {"import", "port"}
      [] phrase \in {"python interpreter", "python path", "which python", "python=/"} -> {"python"}
      [] phrase \in {"pip path", "pip=/"} -> {"pip"}
      [] phrase = "address already in use" -> {"address already"}
      [] phrase = "19100" -> {"9100"}
      [] phrase = "lsof -i" -> {"lsof"}
      [] phrase = "slurmstepd" -> {"slurm"}
      [] phrase = "jobstate=pending" -> {"pending"}
      [] phrase = "scontrol show job" -> {"scontrol"}
      [] OTHER -> {}

Read(phrases) == phrases \cup UNION {Inside(p) : p \in phrases}

-----------------------------------------------------------------------------
(***************************************************************************)
(* The router.                                                             *)
(***************************************************************************)

\* read_log_preview_from_question and the question itself: what the router reads.
Previewed(evidence) ==
    Read(evidence.path \cup (IF evidence.read THEN evidence.tail \cup evidence.named ELSE {}))

\* _score_issue_types
Scores(text) == [area \in {a \in Areas : Keywords(a) \cap text # {}} |-> Keywords(area) \cap text]

\* The elements of a sequence that are in a set, in order.
Among(s, S) == FoldLeft(LAMBDA kept, x : IF x \in S THEN Append(kept, x) ELSE kept, <<>>, s)

Ordered(areas) == Among(ISSUE_PRIORITY, areas)

\* The area that a primary_failure in the log stands for.
NamedArea(value) ==
    CASE value \cap {"hip out of memory", "cuda out of memory", "oom"} # {} -> "gpu"
      [] value \cap {"hip out of memory", "cuda out of memory", "oom"} = {}
         /\ value \cap {"no space", "disk"} # {} -> "disk"
      [] OTHER ->
            IF value \cap {"module", "import", "python"} # {} THEN "python_env"
            ELSE IF value \cap {"port", "address already"} # {} THEN "network_port"
            ELSE IF value \cap {"slurm", "pending"} # {} THEN "slurm" ELSE "none"

SevereGpuSignals ==
    {"torch.outofmemoryerror", "hip out of memory", "cuda out of memory", "slurmstepd",
     "oom-kill", "accelerator memory constraints"}

\* _detect_primary_failure, for a text in which some area is detected.
DetectPrimary(text, named, detected) ==
    IF NamedArea(named) # "none" THEN NamedArea(named)
    ELSE IF "gpu" \in detected /\ SevereGpuSignals \cap text # {} THEN "gpu"
    ELSE IF detected = {"slurm"} THEN "slurm"
    ELSE Ordered(detected)[1]

\* _primary_tools_for_route
PrimaryTools(primary, areas, log) ==
    CASE log -> IF Len(areas) > 1 THEN <<"diagnose_mixed_log_file">>
                ELSE IF primary = "slurm" THEN <<"diagnose_slurm_file">>
                ELSE <<"diagnose_log_file">>
      [] ~log /\ primary = "disk" -> <<"check_disk_usage">>
      [] ~log /\ primary = "gpu" -> <<"check_gpu_status">>
      [] ~log /\ primary = "network_port" -> <<"run_shell_command">>
      [] ~log /\ primary = "slurm" -> <<"check_slurm_queue", "check_slurm_nodes">>
      [] ~log /\ primary = "python_env" -> <<"check_python_environment">>

MoreTools(area) ==
    CASE area = "gpu" -> <<"check_gpu_status", "run_shell_command">>
      [] area = "disk" -> <<"check_disk_usage", "run_shell_command">>
      [] area = "network_port" -> <<"run_shell_command">>
      [] area = "slurm" -> <<"diagnose_slurm_text", "check_slurm_queue", "check_slurm_nodes",
                             "check_slurm_job">>
      [] area = "python_env" -> <<"diagnose_python_error_text", "check_python_environment",
                                  "check_python_package">>

Unrepeated(s) == FoldLeft(LAMBDA kept, x : IF x \in Range(kept) THEN kept ELSE Append(kept, x),
                          <<>>, s)

\* _optional_tools_for_route
OptionalTools(areas, primaryTools) ==
    LET tools == Unrepeated(FlattenSeq([i \in DOMAIN areas |-> MoreTools(areas[i])]))
    IN  Among(tools, Range(tools) \ Range(primaryTools))

\* Mutant: the areas that come with the primary one are those after the first.
SecondaryAfterFirst(primary, detected) == Tail(Ordered(detected))

Secondary(primary, detected) == Ordered(detected \ {primary})

RouteWith(primary, secondary, confidence, primaryTools, optionalTools) ==
    [primary |-> primary, secondary |-> secondary, confidence |-> confidence,
     primaryTools |-> primaryTools, optionalTools |-> optionalTools]

(***************************************************************************)
(* classify_issue_dict; `log' says that the question has the path of a     *)
(* log, as it always has when a session asks.                              *)
(***************************************************************************)
Classify(evidence, log) ==
    LET text == Previewed(evidence)
        scores == Scores(text)
        detected == DOMAIN scores
        named == IF evidence.read THEN Read(evidence.named) ELSE {}
        primary == DetectPrimary(text, named, detected)
        areas == <<primary>> \o Secondary(primary, detected)
        sure == 45 + 8 * Cardinality(UNION {scores[a] : a \in detected})
        tools == PrimaryTools(primary, areas, log)
    IN  IF detected # {}
        THEN RouteWith(primary, Secondary(primary, detected), IF sure < 98 THEN sure ELSE 98,
                       tools, OptionalTools(areas, tools))
        ELSE IF log THEN RouteWith("log", <<>>, 55, <<"diagnose_log_file">>, <<"read_log_file">>)
        ELSE RouteWith("unknown", <<>>, 20, <<"diagnose_log_file">>,
                       <<"run_shell_command", "check_disk_usage", "check_gpu_status">>)

RouteTypes(route) == <<route.primary>> \o route.secondary

-----------------------------------------------------------------------------
(***************************************************************************)
(* The session.                                                            *)
(***************************************************************************)
StrongPhrases == <<
    [area |-> "gpu",
     says |-> {"hip out of memory", "cuda out of memory", "outofmemoryerror", "oom-kill",
               "accelerator memory constraints", "vram used memory", "vram free memory"}],
    [area |-> "disk",
     says |-> {"no space left on device", "errno 28", "disk quota exceeded", "df -h /tmp",
               "df -ih /tmp"}],
    [area |-> "python_env",
     says |-> {"modulenotfounderror", "importerror", "no module named",
               "do not belong to the same environment", "python interpreter", "python=/",
               "pip=/"}],
    [area |-> "network_port",
     says |-> {"address already in use", "errno 98", "connection refused", "ss -lntp",
               "lsof -i"}],
    [area |-> "slurm",
     says |-> {"slurmstepd", "jobstate=pending", "reason=resources", "submitted batch job",
               "scontrol show job", "squeue", "sinfo"}] >>

\* _strong_fix_issue_types: it reads all of the evidence.
StrongTypes(route, evidence) ==
    LET text == Read(evidence.early \cup evidence.tail \cup evidence.named)
        strong == {r \in Range(StrongPhrases) :
                      r.says \cap text # {} /\ r.area \in Range(RouteTypes(route))}
    IN  CASE strong # {} -> {r.area : r \in strong}
          [] strong = {} /\ route.primary \notin {"unknown", "log"} /\ route.confidence >= 70 ->
                {route.primary}
          [] OTHER -> {}

-----------------------------------------------------------------------------
(***************************************************************************)
(* The planner.  A fix is [fix, issue, risk, supported, says], where       *)
(* `says' are the phrases of the tables above that its text has; the       *)
(* router never finds the last three areas that have fixes.                *)
(***************************************************************************)
Fix(fix, issue, risk, supported, says) ==
    [fix |-> fix, issue |-> issue, risk |-> risk, supported |-> supported, says |-> says]

GpuFixes ==
    << Fix("fix-gpu-1", "gpu", "confirm_required", TRUE,
           {"cuda", "hip", "dcu", "oom", "nvidia-smi", "hy-smi", "gpu", "gpu words"}),
       Fix("fix-gpu-2", "gpu", "confirm_required", TRUE,
           {"hy-smi", "pytorch_hip_alloc_conf", "pytorch_cuda_alloc_conf", "gpu", "gpu words"}),
       Fix("fix-gpu-3", "gpu", "confirm_required", TRUE,
           {"cuda", "hip", "dcu", "pytorch_hip_alloc_conf", "pytorch_cuda_alloc_conf", "gpu",
            "gpu words"}) >>
PythonFixes ==
    << Fix("fix-python-1", "python_env", "confirm_required", TRUE,
           {"modulenotfounderror", "which python", "pip", "python words"}) >>
DiskFixes ==
    << Fix("fix-disk-1", "disk", "confirm_required", TRUE,
           {"no space left on device", "df -h /tmp", "df -ih /tmp", "du -sh"}) >>
NetworkFixes ==
    << Fix("fix-network-1", "network_port", "confirm_required", TRUE,
           {"address already in use", "ss -lntp", "lsof -i", "tensorboard", "9100", "port",
            "port words"}) >>
SlurmFixes ==
    << Fix("fix-slurm-1", "slurm", "manual_only", FALSE,
           {"slurm", "slurmstepd", "oom-kill", "oom", "gpu", "sbatch", "squeue", "pending", "partition",
            "gres", "scontrol show job", "sinfo", "slurm words"}) >>
CacheFixes == << Fix("fix-cache-1", "cache", "low", TRUE, {}) >>
OptionalDependencyFixes == << Fix("fix-optional-dep-1", "optional_dependency", "low", TRUE, {}) >>
WorkerFixes == << Fix("fix-worker-1", "worker_overload", "low", TRUE, {}) >>

FixesOf(issue) ==
    CASE issue = "gpu" -> GpuFixes
      [] issue = "python_env" -> PythonFixes
      [] issue = "disk" -> DiskFixes
      [] issue = "network_port" -> NetworkFixes
      [] issue = "slurm" -> SlurmFixes
      [] issue = "cache" -> CacheFixes
      [] issue = "optional_dependency" -> OptionalDependencyFixes
      [] issue = "worker_overload" -> WorkerFixes
      [] OTHER -> <<>>

\* build_fix_plan
FixPlan(route, allowed) ==
    LET types == Among(RouteTypes(route), allowed)
    IN  Unrepeated(FlattenSeq([i \in DOMAIN types |-> FixesOf(types[i])]))

\* generate_fix_plan, after _refresh_route.
Generate(evidence) ==
    LET route == Classify(evidence, TRUE)
    IN  [route |-> route, fixes |-> FixPlan(route, StrongTypes(route, evidence))]

\* The fixes SafeApplyExecutor.apply does something for that are not in the registry.
DirectFixes == {"fix-gpu-2", "fix-disk-1", "fix-python-1"}
=============================================================================
