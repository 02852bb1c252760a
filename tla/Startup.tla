------------------------------- MODULE Startup -------------------------------
(***************************************************************************)
(* A project from validation to the start of a run: shiro validate reads   *)
(* the workflow, the model configuration and the pipeline; shiro run reads *)
(* the workflow, the model configuration and the module registry, which    *)
(* the module commands change meanwhile (ModuleRegistry).                  *)
(***************************************************************************)
EXTENDS ModuleRegistry, Validation

CONSTANTS
  Projects,  \* [valid, steps, pauses, config, ci, commands, apart]: Validate's verdict on the workflow,
             \* its AI steps, whether it pauses, the model configuration, the pipeline or NoCI;
             \* and bounds: how many module commands there are, and whether each begins apart
             \* from all others
  NoCI

ASSUME ProjectsAssumption ==
  \A p \in Projects :
    /\ DOMAIN p = {"valid", "steps", "pauses", "config", "ci", "commands", "apart"}
    /\ p.valid \in BOOLEAN /\ p.commands \in Nat /\ p.apart \in BOOLEAN
    /\ p.config # Unreadable => IsFiniteSet(DOMAIN p.config) /\ DOMAIN p.config \subseteq STRING

VARIABLES
  project,
  verdict,   \* of shiro validate
  providers  \* the AI providers of the run that started

vars == <<registryVars, project, verdict, providers>>

TypeOK ==
  /\ file.kind \in {"absent", "empty", "torn", "map"}
  /\ \A n \in DOMAIN plugins : n \in Name /\ plugins[n] \in {"fragment", "broken", "ready"}
  /\ begun \in 0..project.commands
  /\ \A c \in Command :
       /\ command[c].pc \in {"idle", "fetch", "install", "remove", "save", "write"}
       /\ command[c].pc \in {"save", "write"} =>
            \A n \in DOMAIN command[c].changes :
              command[c].changes[n] = Gone <=> n \notin DOMAIN command[c].modules
  /\ start.pc \in {"none", "scan", "goRun", "up", "fatal"}
  /\ verdict.exit \in {"none", "0", "1"}
  /\ providers \subseteq STRING

Init ==
  /\ RegistryInit
  /\ project \in Projects
  /\ verdict = [exit |-> "none", workflow |-> FALSE, findings |-> {}]
  /\ providers = {}

\* A workflow file that can be parsed, Validate and the AI steps.
validateWorkflowFile(models) == project.valid /\ validateAIWorkflowConfig(project.steps, models)

\* shiro validate.  A configuration that cannot be read ends it; -ci comes last.
ValidateCommand ==
  LET accepted == project.config # Unreadable /\ validateWorkflowFile(project.config)
      findings == IF accepted /\ project.ci # NoCI THEN RunCheck(project.pauses, project.ci) ELSE {} IN
  /\ verdict.exit = "none"
  /\ verdict' = [workflow |-> accepted, findings |-> findings,
                 exit |-> IF accepted /\ runCICheck(findings) = 0 THEN "0" ELSE "1"]
  /\ UNCHANGED <<registryVars, project, providers>>

\* shiro run, up to the execution: the same Validate; an unreadable model configuration is
\* a warning.
RunCommand ==
  /\ UNCHANGED <<project, verdict>>
  /\ \/ project.valid /\ Launch /\ providers' = {}
     \/ DiscoverSubprocessModules /\ UNCHANGED providers
     \/ RegisterRest /\ providers' = registerAIProviders(LoadModelConfig(project.config))

Bounded == begun' <= project.commands /\ (project.apart /\ begun' # begun => AllIdle)

ModuleCommand(c) ==
  /\ Commands(c)
  /\ Bounded
  /\ UNCHANGED <<project, verdict, providers>>

\* shiro init: the workflow and the models give way to examples, and a verdict on the old
\* ones says nothing of these.
NewProject(c) ==
  /\ InitCommand(c)
  /\ Bounded
  /\ project' = [project EXCEPT !.valid = TRUE, !.steps = {}, !.pauses = FALSE, !.config = << >>]
  /\ verdict' = [exit |-> "none", workflow |-> FALSE, findings |-> {}]
  /\ UNCHANGED providers

Next ==
  \/ ValidateCommand \/ RunCommand
  \/ \E c \in Command : ModuleCommand(c) \/ NewProject(c)

Spec == Init /\ [][Next]_vars

-----------------------------------------------------------------------------
(* Properties.                                                             *)

\* What shiro validate says of the AI steps, and what the run does with them.  An accepted
\* step asks the provider that was checked.  When that model is skipped for a field it
\* lacks, the step fails; only a step that names no provider may get another model than the
\* one that was checked: `default' is there but skipped, and there is one other model left.
\* A workflow refused for its AI steps has one that fails, when no model is skipped.
\* (validate.go:97, :129; ai.go:74, :145; run.go:262)
AcceptedStepsGetTheirProvider ==
  (verdict.exit # "none" /\ start.pc = "up" /\ project.config # Unreadable) =>
    /\ verdict.workflow => \A s \in project.steps :
         LET checked == Checked(s, project.config)
             asked == Chosen(s, providers, project.config) IN
         IF checked \in providers THEN asked = checked
         ELSE \/ asked = ""
              \/ s.provider = "" /\ checked = "default" /\ providers = {asked}
    /\ (~ verdict.workflow /\ providers = DOMAIN project.config) =>
         \E s \in project.steps : Chosen(s, providers, project.config) = ""

\* The runs of a pipeline of GitLab that leave the state to a job which continues.
Initial(jobs) == {j \in jobs : j.runs = "run" /\ ~ j.manual}
Continues(m, jobs) == ~ m.fresh /\ \E i \in Initial(jobs) : i.artifact /\ i.name \in m.needs

\* What README.md:233-236 and the comments at gitlab.go:45 and :107 say of a pipeline in
\* which -ci finds nothing: a workflow that pauses has a job that resumes it, without
\* -fresh, and needs an initial job, of which it gets the state.
CheckedPipelinesResume ==
  (/\ verdict.workflow /\ project.ci # NoCI /\ verdict.findings = {}
   /\ project.pauses /\ AutoDetect(project.ci) = "gitlab") =>
     LET jobs == parseGitLabCI(project.ci.entries)
         resumes == {j \in jobs : j.runs = "run" /\ j.manual} IN
     resumes # {} /\ \A m \in resumes : Continues(m, jobs)
=============================================================================
