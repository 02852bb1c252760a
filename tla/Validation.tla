----------------------------- MODULE Validation -----------------------------
(***************************************************************************)
(* What shiro validate looks at before a workflow runs: the AI steps       *)
(* against the model configuration, which the start of a run reads anew,   *)
(* and the workflow against the pipeline that is to run it (-ci).          *)
(*                                                                         *)
(* A model is [type, url, key, model]: its provider type, whether base_url *)
(* is there, its api_key ("none", "empty", "template": an environment      *)
(* variable that was not set, "set"), whether it names a model.  A job of  *)
(* a pipeline is what the checkers find in its script and keywords:        *)
(* whether it is manual, the command it runs, -fresh, -state-store gitlab, *)
(* a path with .shiro among its artifacts, its needs.                      *)
(***************************************************************************)
EXTENDS FiniteSets, Sequences

CONSTANT Unreadable  \* a configuration file that cannot be read or parsed

-----------------------------------------------------------------------------
(* AI steps.                                                               *)

\* LoadModelConfig; no file is an empty configuration.
LoadModelConfig(config) == IF config = Unreadable THEN << >> ELSE config

\* NewOpenAIProvider wants an API key that is no unresolved template; so does OpenRouter's,
\* which is built on it.
NewOpenAIProvider(m) == m.key = "set"
NewOpenRouterProvider(m) == m.key # "empty" /\ NewOpenAIProvider(m)

\* The model has the fields its type needs, and its provider can be made.
Usable(m) ==
  \/ m.type = "ollama" /\ m.url
  \/ m.type = "openai" /\ m.url /\ m.key # "none" /\ NewOpenAIProvider(m)
  \/ m.type = "gemini" /\ m.key # "none"
  \/ m.type = "openrouter" /\ m.key # "none" /\ NewOpenRouterProvider(m)

\* registerAIProviders: the models that are not usable are skipped with a log line.
registerAIProviders(models) == {n \in DOMAIN models : Usable(models[n])}

\* Mutant: a single model is not taken for the default.
BugResolveDefaultProviderName(models) == "default"

\* The two resolutions of a provider that the step does not name: of all models that are
\* configured, and of those that were not skipped.
resolveDefaultProviderName(models) ==
  IF "default" \notin DOMAIN models /\ Cardinality(DOMAIN models) = 1
  THEN CHOOSE n \in DOMAIN models : TRUE ELSE "default"

resolveDefaultProvider(providers) ==
  IF "default" \notin providers /\ Cardinality(providers) = 1
  THEN CHOOSE n \in providers : TRUE ELSE "default"

\* A step is [provider, model, prompt]: a name or "", and whether the others are there.
Checked(step, models) ==
  IF step.provider = "" THEN resolveDefaultProviderName(models) ELSE step.provider

validateAIWorkflowConfig(steps, models) ==
  \A s \in steps :
    /\ s.prompt
    /\ Checked(s, models) \in DOMAIN models
    /\ s.model \/ models[Checked(s, models)].model

\* AIModule.Run: the provider that is asked, or "" when the step fails before.
Chosen(step, providers, models) ==
  LET p == IF step.provider = "" THEN resolveDefaultProvider(providers) ELSE step.provider IN
  IF p \in providers /\ (step.model \/ models[p].model) /\ step.prompt THEN p ELSE ""

-----------------------------------------------------------------------------
(* Pipelines.                                                              *)

Finding(rule, severity) == [rule |-> rule, severity |-> severity]

\* A pipeline is [file, keys, entries]: its path's platform or "other", and its keys.
AutoDetect(ci) ==
  IF ci.file # "other" THEN ci.file
  ELSE IF "stages" \in ci.keys THEN "gitlab"
  ELSE IF {"on", "jobs"} \subseteq ci.keys THEN "github"
  ELSE "unknown"

Reserved == {"stages", "variables", "image", "services", "before_script", "after_script",
             "cache", "include", "workflow", "default"}

\* Entries of needs are names, mappings with a job, or others.
parseNeeds(needs) == {n.job : n \in {m \in needs : m.form \in {"name", "mapping"}}}

\* A job of GitLab is [name, manual, runs, fresh, gitlab, artifact, needs]; a key of the
\* file has these too, and whether it holds a mapping.  Hidden keys are jobs, too.
parseGitLabCI(entries) ==
  {[name |-> e.name, manual |-> e.manual, runs |-> e.runs, fresh |-> e.fresh,
    gitlab |-> e.gitlab, artifact |-> e.artifact, needs |-> parseNeeds(e.needs)] :
     e \in {f \in entries : f.mapping /\ f.name \notin Reserved}}

jobRunsShiro(job) == job.runs \in {"run", "validate"}

GitLabPauseSteps(pauses, jobs) ==
  LET shiroJobs == {j \in jobs : jobRunsShiro(j)}
      manualJobs == {j \in shiroJobs : j.manual}
      normalJobs == shiroJobs \ manualJobs IN
  IF ~ pauses THEN {}
  ELSE IF manualJobs = {} THEN {Finding("pause-needs-manual-resume", "ERROR")}
  ELSE {Finding("pause-resume-needs-dependency", "WARN") : j \in {m \in manualJobs : m.needs = {}}}
       \cup {Finding("pause-initial-needs-fresh", "WARN") :
               j \in {n \in normalJobs : n.runs = "run" /\ ~ n.fresh}}

checkStateStoreArtifacts(jobs) ==
  {Finding("state-store-gitlab-needs-artifact", "ERROR") :
     j \in {k \in jobs : k.runs = "run" /\ k.gitlab /\ ~ k.artifact}}

\* A job of GitHub is [environment, runs, gitlab]: whether it has one that is named.
parseGitHubActions(entries) ==
  {[environment |-> e.environment \in {"name", "mapping with a name"}, runs |-> e.runs,
    gitlab |-> e.gitlab] : e \in {f \in entries : f.mapping}}

GitHubPauseSteps(pauses, jobs) ==
  IF ~ pauses THEN {}
  ELSE IF \E j \in jobs : j.environment THEN {Finding("pause-environment-protection-found", "INFO")}
  ELSE {Finding("pause-needs-environment-protection", "WARN")}

checkStateStore(jobs) ==
  {Finding("state-store-gitlab-wrong-platform", "ERROR") :
     j \in {k \in jobs : k.runs = "run" /\ k.gitlab}}

GitLabCheck(pauses, jobs) == GitLabPauseSteps(pauses, jobs) \cup checkStateStoreArtifacts(jobs)
GitHubCheck(pauses, jobs) == GitHubPauseSteps(pauses, jobs) \cup checkStateStore(jobs)

RunCheck(pauses, ci) ==
  CASE AutoDetect(ci) = "gitlab" -> GitLabCheck(pauses, parseGitLabCI(ci.entries))
    [] AutoDetect(ci) = "github" /\ "jobs" \in ci.keys ->
         GitHubCheck(pauses, parseGitHubActions(ci.entries))
    [] OTHER -> {Finding("failed", "ERROR")}

\* runCICheck: warnings do not count.
runCICheck(findings) == IF \E f \in findings : f.severity = "ERROR" THEN 1 ELSE 0
=============================================================================
