---------------------------- MODULE StartupProofs ----------------------------
(***************************************************************************)
(* What the verdict on the AI steps of a workflow is worth, for any        *)
(* projects, configurations of models, module commands and faults; then    *)
(* the registry of modules and the runs that start from it, for any number *)
(* of module commands that overlap, fail and are killed.                   *)
(***************************************************************************)
EXTENDS Startup, FiniteSetTheorems, TLAPS

-----------------------------------------------------------------------------
(* The two resolutions of a provider agree.                                *)

\* The default among all models and the default among those that were not skipped are the
\* same when the first of them was not skipped.
LEMMA DefaultsAgree ==
  ASSUME NEW models, IsFiniteSet(DOMAIN models), NEW providers0 \in SUBSET DOMAIN models,
         resolveDefaultProviderName(models) \in providers0
  PROVE  resolveDefaultProvider(providers0) = resolveDefaultProviderName(models)
<1>1. CASE "default" \notin DOMAIN models /\ Cardinality(DOMAIN models) = 1
  <2>1. PICK n : DOMAIN models = {n}
    BY <1>1, FS_Singleton
  <2>2. resolveDefaultProviderName(models) = n
    BY <1>1, <2>1 DEF resolveDefaultProviderName
  <2>3. providers0 = {n}
    BY <2>1, <2>2
  <2>4. Cardinality(providers0) = 1 /\ "default" \notin providers0
    BY <1>1, <2>1, <2>3
  <2>5. QED
    BY <2>2, <2>3, <2>4 DEF resolveDefaultProvider
<1>2. CASE ~ ("default" \notin DOMAIN models /\ Cardinality(DOMAIN models) = 1)
  <2>1. resolveDefaultProviderName(models) = "default"
    BY <1>2 DEF resolveDefaultProviderName
  <2>2. QED
    BY <2>1 DEF resolveDefaultProvider
<1>3. QED
  BY <1>1, <1>2

\* A step that the validation accepts asks the provider that was checked, if it is there.
LEMMA AcceptedIsChosen ==
  ASSUME NEW models, IsFiniteSet(DOMAIN models), NEW steps,
         validateAIWorkflowConfig(steps, models), NEW s \in steps,
         NEW providers0 \in SUBSET DOMAIN models, Checked(s, models) \in providers0
  PROVE  Chosen(s, providers0, models) = Checked(s, models)
<1>1. s.prompt /\ (s.model \/ models[Checked(s, models)].model)
  BY DEF validateAIWorkflowConfig
<1>2. (IF s.provider = "" THEN resolveDefaultProvider(providers0) ELSE s.provider)
        = Checked(s, models)
  BY DefaultsAgree DEF Checked
<1>3. QED
  BY <1>1, <1>2 DEF Chosen

\* Where the default among all models was skipped, the one among those that were not
\* skipped is not there, or `default' was skipped and leaves one other.
LEMMA SkippedDefault ==
  ASSUME NEW models, IsFiniteSet(DOMAIN models), NEW providers0 \in SUBSET DOMAIN models,
         resolveDefaultProviderName(models) \notin providers0,
         resolveDefaultProvider(providers0) \in providers0
  PROVE  /\ resolveDefaultProviderName(models) = "default"
         /\ providers0 = {resolveDefaultProvider(providers0)}
<1>1. "default" \notin providers0 /\ Cardinality(providers0) = 1
  <2>1. CASE "default" \in providers0
    <3>1. resolveDefaultProvider(providers0) = "default"
      BY <2>1 DEF resolveDefaultProvider
    <3>2. "default" \in DOMAIN models
      BY <2>1
    <3>3. resolveDefaultProviderName(models) = "default"
      BY <3>2 DEF resolveDefaultProviderName
    <3>4. QED
      BY <2>1, <3>3
  <2>2. CASE "default" \notin providers0 /\ Cardinality(providers0) # 1
    <3>1. resolveDefaultProvider(providers0) = "default"
      BY <2>2 DEF resolveDefaultProvider
    <3>2. QED
      BY <2>2, <3>1
  <2>3. QED
    BY <2>1, <2>2
<1>2. IsFiniteSet(providers0)
  BY FS_Subset
<1>3. PICK n : providers0 = {n}
  BY <1>1, <1>2, FS_Singleton
<1>4. providers0 = {resolveDefaultProvider(providers0)}
  BY <1>3
<1>5. CASE "default" \notin DOMAIN models /\ Cardinality(DOMAIN models) = 1
  <2>1. PICK m : DOMAIN models = {m}
    BY <1>5, FS_Singleton
  <2>2. resolveDefaultProviderName(models) = m
    BY <1>5, <2>1 DEF resolveDefaultProviderName
  <2>3. n = m
    BY <1>3, <2>1
  <2>4. QED
    BY <1>3, <2>2, <2>3
<1>6. CASE ~ ("default" \notin DOMAIN models /\ Cardinality(DOMAIN models) = 1)
  <2>1. resolveDefaultProviderName(models) = "default"
    BY <1>6 DEF resolveDefaultProviderName
  <2>2. QED
    BY <1>4, <2>1
<1>7. QED
  BY <1>5, <1>6

\* A step whose checked model was skipped fails, or is one that takes the only other model.
LEMMA SkippedIsNotAsked ==
  ASSUME NEW models, IsFiniteSet(DOMAIN models), NEW s,
         NEW providers0 \in SUBSET DOMAIN models, Checked(s, models) \notin providers0
  PROVE  \/ Chosen(s, providers0, models) = ""
         \/ /\ s.provider = "" /\ Checked(s, models) = "default"
            /\ providers0 = {Chosen(s, providers0, models)}
<1>1. CASE s.provider # ""
  <2>1. s.provider \notin providers0
    BY <1>1 DEF Checked
  <2>2. Chosen(s, providers0, models) = ""
    BY <1>1, <2>1 DEF Chosen
  <2>3. QED
    BY <2>2
<1>2. CASE s.provider = ""
  <2>1. Checked(s, models) = resolveDefaultProviderName(models)
    BY <1>2 DEF Checked
  <2>2. \/ Chosen(s, providers0, models) = ""
        \/ /\ Chosen(s, providers0, models) = resolveDefaultProvider(providers0)
           /\ resolveDefaultProvider(providers0) \in providers0
    BY <1>2 DEF Chosen
  <2>3. QED
    BY <1>2, <2>1, <2>2, SkippedDefault
<1>3. QED
  BY <1>1, <1>2

\* When no model is skipped, steps that the validation refuses have one that fails.
LEMMA RefusedFails ==
  ASSUME NEW models, NEW steps, ~ validateAIWorkflowConfig(steps, models)
  PROVE  \E s \in steps : Chosen(s, DOMAIN models, models) = ""
<1>1. PICK s \in steps :
        ~ (/\ s.prompt
           /\ Checked(s, models) \in DOMAIN models
           /\ s.model \/ models[Checked(s, models)].model)
  BY DEF validateAIWorkflowConfig
<1>2. resolveDefaultProvider(DOMAIN models) = resolveDefaultProviderName(models)
  BY DEF resolveDefaultProvider, resolveDefaultProviderName
<1>3. (IF s.provider = "" THEN resolveDefaultProvider(DOMAIN models) ELSE s.provider)
        = Checked(s, models)
  BY <1>2 DEF Checked
<1>4. Chosen(s, DOMAIN models, models) = ""
  BY <1>1, <1>3 DEF Chosen
<1>5. QED
  BY <1>4

-----------------------------------------------------------------------------
(* The inductive invariant.                                                *)

ProjectInv ==
  /\ DOMAIN project = {"valid", "steps", "pauses", "config", "ci", "commands", "apart"}
  /\ project.valid \in BOOLEAN
  /\ project.config # Unreadable => IsFiniteSet(DOMAIN project.config)

\* A verdict is about the workflow, the models and the pipeline that are there now.
VerdictInv ==
  verdict.exit # "none" =>
    /\ verdict.workflow = (project.config # Unreadable /\ validateWorkflowFile(project.config))
    /\ (verdict.workflow /\ project.ci # NoCI) =>
         verdict.findings = RunCheck(project.pauses, project.ci)

\* No run of shiro validate, no verdict.
FreshInv == verdict.exit = "none" => ~ verdict.workflow

\* A run has got past Validate, and has the providers of the models that are there now,
\* unless a new project has been made since, which has no AI steps.
StartInv ==
  /\ DOMAIN start = {"pc", "launches", "since", "types", "http"}
  /\ start.pc \in {"scan", "goRun", "up"} => project.valid
  /\ start.pc = "up" =>
       \/ providers = registerAIProviders(LoadModelConfig(project.config))
       \/ project.steps = {}

IInv == ProjectInv /\ VerdictInv /\ FreshInv /\ StartInv

LEMMA InitHolds == Init => IInv
BY ProjectsAssumption DEF Init, RegistryInit, IInv, ProjectInv, VerdictInv, FreshInv, StartInv

\* No module command has to do with a run that starts.
LEMMA CommandsLeaveStart ==
  ASSUME NEW c \in Command, Commands(c) \/ InitCommand(c)
  PROVE  UNCHANGED start
<1>1. CASE Add(c)
  BY <1>1 DEF Add
<1>2. CASE Installed(c)
  BY <1>2 DEF Installed
<1>3. CASE RemoveModule(c)
  BY <1>3 DEF RemoveModule
<1>4. CASE Open(c)
  BY <1>4 DEF Open
<1>5. CASE saveRegistry(c)
  BY <1>5 DEF saveRegistry
<1>6. CASE Kill(c)
  BY <1>6 DEF Kill
<1>7. CASE \E r \in Repo : BeginAdd(c, r) \/ Install(c, r)
  BY <1>7 DEF BeginAdd, Install
<1>8. CASE \E n \in Name, word \in BOOLEAN : Remove(c, n, word)
  BY <1>8 DEF Remove
<1>9. CASE InitCommand(c)
  BY <1>9 DEF InitCommand
<1>10. QED
  BY <1>1, <1>2, <1>3, <1>4, <1>5, <1>6, <1>7, <1>8, <1>9 DEF Commands

LEMMA RunStep ==
  ASSUME IInv, RunCommand
  PROVE  IInv'
<1>1. ProjectInv' /\ VerdictInv' /\ FreshInv'
  BY DEF RunCommand, IInv, ProjectInv, VerdictInv, FreshInv, validateWorkflowFile
<1>2. StartInv'
  <2>1. CASE project.valid /\ Launch
    BY <2>1 DEF RunCommand, Launch, StartInv
  <2>2. CASE DiscoverSubprocessModules
    BY <2>2 DEF RunCommand, DiscoverSubprocessModules, IInv, StartInv
  <2>3. CASE RegisterRest /\ providers' = registerAIProviders(LoadModelConfig(project.config))
    BY <2>3 DEF RunCommand, RegisterRest, IInv, StartInv
  <2>4. QED
    BY <2>1, <2>2, <2>3 DEF RunCommand
<1>3. QED
  BY <1>1, <1>2 DEF IInv

LEMMA ValidateStep ==
  ASSUME IInv, ValidateCommand
  PROVE  IInv'
<1>1. UNCHANGED <<start, project, providers>>
  BY DEF ValidateCommand, registryVars
<1>2. /\ verdict'.workflow = (project.config # Unreadable /\ validateWorkflowFile(project.config))
      /\ verdict'.exit # "none"
      /\ (verdict'.workflow /\ project.ci # NoCI) =>
           verdict'.findings = RunCheck(project.pauses, project.ci)
  BY DEF ValidateCommand
<1>3. VerdictInv' /\ FreshInv'
  BY <1>1, <1>2 DEF VerdictInv, FreshInv, validateWorkflowFile
<1>4. QED
  BY <1>1, <1>3 DEF IInv, ProjectInv, StartInv

LEMMA NewProjectStep ==
  ASSUME IInv, NEW c \in Command, NewProject(c)
  PROVE  IInv'
<1>1. UNCHANGED <<start, providers>>
  BY CommandsLeaveStart DEF NewProject
<1>2. verdict'.exit = "none" /\ ~ verdict'.workflow
  BY DEF NewProject
<1>3. project' = [project EXCEPT !.valid = TRUE, !.steps = {}, !.pauses = FALSE,
                                 !.config = << >>]
  BY DEF NewProject
<1>4. /\ DOMAIN project' = DOMAIN project
      /\ project'.valid = TRUE /\ project'.steps = {} /\ project'.config = << >>
  BY <1>3 DEF IInv, ProjectInv
<1>5. IsFiniteSet(DOMAIN project'.config)
  BY <1>4, FS_EmptySet
<1>6. QED
  BY <1>1, <1>2, <1>4, <1>5 DEF IInv, ProjectInv, VerdictInv, FreshInv, StartInv

LEMMA StepPreserves == IInv /\ [Next]_vars => IInv'
<1> SUFFICES ASSUME IInv, [Next]_vars
             PROVE  IInv'
  OBVIOUS
<1>1. ASSUME UNCHANGED <<start, project, verdict, providers>>
      PROVE  IInv'
  BY <1>1 DEF IInv, ProjectInv, VerdictInv, FreshInv, StartInv, validateWorkflowFile
<1>2. CASE UNCHANGED vars
  BY <1>1, <1>2 DEF vars, registryVars
<1>3. ASSUME NEW c \in Command, ModuleCommand(c)
      PROVE  IInv'
  BY <1>1, <1>3, CommandsLeaveStart DEF ModuleCommand
<1>4. QED
  BY <1>2, <1>3, RunStep, ValidateStep, NewProjectStep DEF Next

\* What the invariant says of a project, a verdict and a run gives the property.
LEMMA InvariantSuffices == IInv => AcceptedStepsGetTheirProvider
<1> SUFFICES ASSUME IInv, verdict.exit # "none", start.pc = "up", project.config # Unreadable
             PROVE  /\ verdict.workflow => \A s \in project.steps :
                         LET checked == Checked(s, project.config)
                             asked == Chosen(s, providers, project.config) IN
                         IF checked \in providers THEN asked = checked
                         ELSE \/ asked = ""
                              \/ s.provider = "" /\ checked = "default" /\ providers = {asked}
                    /\ (~ verdict.workflow /\ providers = DOMAIN project.config) =>
                         \E s \in project.steps : Chosen(s, providers, project.config) = ""
  BY DEF AcceptedStepsGetTheirProvider
<1>1. project.valid /\ IsFiniteSet(DOMAIN project.config)
  BY DEF IInv, ProjectInv, StartInv
<1>2. verdict.workflow <=> validateAIWorkflowConfig(project.steps, project.config)
  <2>1. verdict.workflow =
          (project.config # Unreadable /\ validateWorkflowFile(project.config))
    BY DEF IInv, VerdictInv
  <2>2. QED
    BY <1>1, <2>1, Zenon DEF validateWorkflowFile
<1>3. CASE project.steps = {}
  BY <1>2, <1>3 DEF validateAIWorkflowConfig
<1>4. CASE providers = registerAIProviders(LoadModelConfig(project.config))
  <2>1. providers \in SUBSET DOMAIN project.config
    BY <1>4 DEF registerAIProviders, LoadModelConfig
  <2>2. QED
    <3>1. ASSUME verdict.workflow, NEW s \in project.steps
          PROVE  LET checked == Checked(s, project.config)
                     asked == Chosen(s, providers, project.config) IN
                 IF checked \in providers THEN asked = checked
                 ELSE \/ asked = ""
                      \/ s.provider = "" /\ checked = "default" /\ providers = {asked}
      <4>1. CASE Checked(s, project.config) \in providers
        <5>1. Chosen(s, providers, project.config) = Checked(s, project.config)
          BY <1>1, <1>2, <2>1, <3>1, <4>1, AcceptedIsChosen
        <5>2. QED
          BY <4>1, <5>1
      <4>2. CASE Checked(s, project.config) \notin providers
        <5>1. \/ Chosen(s, providers, project.config) = ""
              \/ /\ s.provider = "" /\ Checked(s, project.config) = "default"
                 /\ providers = {Chosen(s, providers, project.config)}
          BY <1>1, <2>1, <4>2, SkippedIsNotAsked
        <5>2. QED
          BY <4>2, <5>1
      <4>3. QED
        BY <4>1, <4>2
    <3>2. (~ verdict.workflow /\ providers = DOMAIN project.config) =>
            \E s \in project.steps : Chosen(s, providers, project.config) = ""
      BY <1>2, RefusedFails
    <3>3. QED
      BY <3>1, <3>2
<1>5. QED
  BY <1>3, <1>4 DEF IInv, StartInv

\* An accepted AI step asks the provider that was checked; when that was skipped it fails,
\* or, without a provider of its own, asks the one model that is left beside a skipped
\* `default'.  A refused workflow has a step that fails when no model was skipped.  For any
\* steps and models, whatever happens to the registry meanwhile.
\* (validate.go:97, :129; ai.go:74, :145)
THEOREM VerdictOnAIStepsHolds == Spec => []AcceptedStepsGetTheirProvider
<1>1. Init => IInv
  BY InitHolds
<1>2. IInv /\ [Next]_vars => IInv'
  BY StepPreserves
<1>3. IInv => AcceptedStepsGetTheirProvider
  BY InvariantSuffices
<1>4. QED
  BY <1>1, <1>2, <1>3, PTL DEF Spec

-----------------------------------------------------------------------------
(* The registry: what is known of a module, in maps m, for what commands   *)
(* leave, k, and plugins, p.                                               *)

LoadingPC == {"fetch", "install", "remove"}
SavingPC == {"save", "write"}

Ready(p, n) == n \in DOMAIN p /\ p[n] # "fragment"
NeedsPlugin(v) == v.type = "subprocess" /\ ~ v.gorun

\* What is in m of module n is what the acknowledged commands left, if that is known.
Holds(m, n, k) == k[n] # Unsure => IF n \in DOMAIN m THEN m[n] = k[n] ELSE k[n] = Gone

\* A command has loaded what was left of every module ...
LoadingInv(s, k) ==
  /\ DOMAIN s = {"pc", "repo", "loaded", "alone"}
  /\ s.alone \in BOOLEAN
  /\ s.pc \in {"fetch", "install"} => s.repo \in Repo
  /\ s.loaded.kind \in {"empty", "map"}
  /\ s.pc = "remove" => s.loaded.kind = "map"
  /\ s.loaded.kind = "map" => \A n \in Name : Holds(s.loaded.modules, n, k)

\* ... and changes what it is about, for which a plugin is there, and nothing else.
SavingInv(s, k, p) ==
  /\ DOMAIN s = {"pc", "modules", "changes", "alone"}
  /\ s.alone \in BOOLEAN
  /\ \A n \in DOMAIN s.changes :
       /\ s.changes[n] = Gone <=> n \notin DOMAIN s.modules
       /\ n \in DOMAIN s.modules => s.changes[n] = s.modules[n]
       /\ NeedsPlugin(s.changes[n]) => Ready(p, n)
  /\ \A n \in Name : n \notin DOMAIN s.changes => Holds(s.modules, n, k)

CommandInv(s, k, p) ==
  /\ s.pc \in {"idle"} \cup LoadingPC \cup SavingPC
  /\ s.pc \in LoadingPC => LoadingInv(s, k)
  /\ s.pc \in SavingPC => SavingInv(s, k, p)

\* A command that overlapped no other is alone now.
AloneInv ==
  \A c \in Command : command[c].pc # "idle" /\ command[c].alone =>
    \A d \in Command \ {c} : command[d].pc = "idle"

FileInv ==
  /\ file.kind \in {"absent", "empty", "torn", "map"}
  /\ file.kind = "map" => \A n \in Name : Holds(file.modules, n, known)

KnownInv ==
  /\ Name \subseteq DOMAIN known
  /\ \A n \in Name : NeedsPlugin(known[n]) => Ready(plugins, n)

PluginsInv ==
  \A n \in DOMAIN plugins : n \in Name /\ plugins[n] \in {"fragment", "broken", "ready"}

CommandsInv ==
  /\ command = [c \in Command |-> command[c]]
  /\ \A c \in Command : CommandInv(command[c], known, plugins)

RegistryInv == CommandsInv /\ AloneInv /\ FileInv /\ KnownInv /\ PluginsInv

-----------------------------------------------------------------------------
LEMMA OverIs ==
  ASSUME NEW f, NEW g
  PROVE  /\ DOMAIN Over(f, g) = DOMAIN f \cup DOMAIN g
         /\ \A n \in DOMAIN f : Over(f, g)[n] = f[n]
         /\ \A n \in DOMAIN g : n \notin DOMAIN f => Over(f, g)[n] = g[n]
  BY DEF Over

LEMMA OneIs ==
  ASSUME NEW n, NEW v
  PROVE  DOMAIN One(n, v) = {n} /\ One(n, v)[n] = v
  BY DEF One

LEMMA OneOver ==
  ASSUME NEW n, NEW v, NEW g
  PROVE  /\ DOMAIN Over(One(n, v), g) = {n} \cup DOMAIN g /\ Over(One(n, v), g)[n] = v
         /\ \A i \in DOMAIN g : i # n => Over(One(n, v), g)[i] = g[i]
<1>1. DOMAIN Over(One(n, v), g) = {n} \cup DOMAIN g /\ Over(One(n, v), g)[n] = v
  BY DEF One, Over
<1>2. \A i \in DOMAIN g : i # n => Over(One(n, v), g)[i] = g[i]
  BY DEF One, Over
<1>3. QED
  BY <1>1, <1>2

LEMMA SaveIs ==
  ASSUME NEW m, NEW ch, NEW al
  PROVE  /\ DOMAIN Save(m, ch, al) = {"pc", "modules", "changes", "alone"}
         /\ Save(m, ch, al).pc = "save" /\ Save(m, ch, al).modules = m
         /\ Save(m, ch, al).changes = ch /\ Save(m, ch, al).alone = al
  BY DEF Save

\* Forgetting what is known of modules and new plugins take nothing away.
LEMMA CommandKeeps ==
  ASSUME NEW s, NEW k, NEW k2, NEW p, NEW p2, CommandInv(s, k, p),
         \A n \in Name : k2[n] = k[n] \/ k2[n] = Unsure,
         \A n : Ready(p, n) => Ready(p2, n)
  PROVE  CommandInv(s, k2, p2)
<1>1. ASSUME NEW m, NEW n \in Name, Holds(m, n, k) PROVE Holds(m, n, k2)
  BY <1>1 DEF Holds
<1>2. ASSUME s.pc \in LoadingPC PROVE LoadingInv(s, k2)
  BY <1>1, <1>2 DEF CommandInv, LoadingInv
<1>3. ASSUME s.pc \in SavingPC PROVE SavingInv(s, k2, p2)
  BY <1>1, <1>3 DEF CommandInv, SavingInv
<1>4. QED
  BY <1>2, <1>3 DEF CommandInv

\* The same command, marked as one that overlaps another.
LEMMA MarkedKeeps ==
  ASSUME NEW s, NEW k, NEW p, CommandInv(s, k, p), s.pc # "idle"
  PROVE  /\ CommandInv([s EXCEPT !.alone = FALSE], k, p)
         /\ [s EXCEPT !.alone = FALSE].pc = s.pc
         /\ [s EXCEPT !.alone = FALSE].alone = FALSE
<1> DEFINE t == [s EXCEPT !.alone = FALSE]
<1>1. CASE s.pc \in LoadingPC
  <2>1. LoadingInv(s, k)
    BY <1>1 DEF CommandInv
  <2>2. DOMAIN s = {"pc", "repo", "loaded", "alone"}
    BY <2>1 DEF LoadingInv
  <2>3. /\ DOMAIN t = DOMAIN s /\ t.pc = s.pc /\ t.repo = s.repo /\ t.loaded = s.loaded
        /\ t.alone = FALSE
    BY <2>2
  <2> HIDE DEF t
  <2>4. LoadingInv(t, k)
    BY <2>1, <2>3 DEF LoadingInv
  <2>5. CommandInv(t, k, p)
    BY <1>1, <2>3, <2>4 DEF CommandInv, LoadingPC, SavingPC
  <2>6. QED
    BY <2>3, <2>5 DEF t
<1>2. CASE s.pc \in SavingPC
  <2>1. SavingInv(s, k, p)
    BY <1>2 DEF CommandInv
  <2>2. DOMAIN s = {"pc", "modules", "changes", "alone"}
    BY <2>1 DEF SavingInv
  <2>3. /\ DOMAIN t = DOMAIN s /\ t.pc = s.pc /\ t.modules = s.modules
        /\ t.changes = s.changes /\ t.alone = FALSE
    BY <2>2
  <2> HIDE DEF t
  <2>4. SavingInv(t, k, p)
    BY <2>1, <2>3 DEF SavingInv
  <2>5. CommandInv(t, k, p)
    BY <1>2, <2>3, <2>4 DEF CommandInv, LoadingPC, SavingPC
  <2>6. QED
    BY <2>3, <2>5 DEF t
<1>3. QED
  BY <1>1, <1>2 DEF CommandInv

\* A module is added to what was loaded.
LEMMA AddedInv ==
  ASSUME NEW s, NEW k, NEW p, NEW name, NEW config,
         LoadingInv(s, k), s.loaded.kind = "map", name \notin DOMAIN s.loaded.modules,
         config # Gone, NeedsPlugin(config) => Ready(p, name)
  PROVE  CommandInv(Save(Over(One(name, config), s.loaded.modules), One(name, config), s.alone),
                    k, p)
<1> DEFINE old == s.loaded.modules
           one == One(name, config)
           m == Over(one, old)
           t == Save(m, one, s.alone)
<1>1. DOMAIN one = {name} /\ one[name] = config
  BY OneIs
<1>2. /\ DOMAIN t = {"pc", "modules", "changes", "alone"} /\ t.pc = "save"
      /\ t.modules = m /\ t.changes = one /\ t.alone = s.alone
  BY SaveIs
<1>3. s.alone \in BOOLEAN /\ \A n \in Name : Holds(old, n, k)
  BY DEF LoadingInv
<1> HIDE DEF t, one, old
<1>4. /\ DOMAIN m = {name} \cup DOMAIN old /\ m[name] = config
      /\ \A n \in DOMAIN old : n # name => m[n] = old[n]
  BY <1>1 DEF Over
<1> HIDE DEF m
<1>5. ASSUME NEW n \in Name, n # name PROVE Holds(m, n, k)
  <2>1. Holds(old, n, k)
    BY <1>3
  <2>2. QED
    BY <1>4, <1>5, <2>1 DEF Holds
<1>6. SavingInv(t, k, p)
  BY <1>1, <1>2, <1>3, <1>4, <1>5 DEF SavingInv
<1>7. CommandInv(t, k, p)
  BY <1>2, <1>6 DEF CommandInv, LoadingPC, SavingPC
<1>8. QED
  BY <1>7 DEF t, m, one, old

-----------------------------------------------------------------------------
(* The commands.                                                           *)

\* Where every command satisfies its part, all do.
LEMMA AllCommands ==
  ASSUME command' = [d \in Command |-> command'[d]],
         \A d \in Command : CommandInv(command'[d], known', plugins')
  PROVE  CommandsInv'
  BY DEF CommandsInv, CommandInv, LoadingInv, SavingInv, Holds, Ready, NeedsPlugin

LEMMA BeginKeeps ==
  ASSUME RegistryInv, NEW c \in Command, command[c].pc = "idle",
         command' = [d \in Command |-> command'[d]],
         \A d \in Command \ {c} :
           command'[d] = IF command[d].pc # "idle" THEN [command[d] EXCEPT !.alone = FALSE]
                         ELSE Idle,
         CommandInv(command'[c], known, plugins), command'[c].alone = AllIdle,
         UNCHANGED <<file, known, plugins>>
  PROVE  RegistryInv'
<1>1. ASSUME NEW d \in Command \ {c}
      PROVE  /\ CommandInv(command'[d], known, plugins)
             /\ command'[d].pc = command[d].pc
             /\ command'[d].pc = "idle" \/ command'[d].alone = FALSE
  <2>1. CASE command[d].pc = "idle"
    <3>1. command'[d] = Idle
      BY <2>1
    <3>2. command'[d].pc = "idle"
      BY <3>1 DEF Idle
    <3>3. QED
      BY <2>1, <3>2 DEF CommandInv, LoadingPC, SavingPC
  <2>2. CASE command[d].pc # "idle"
    <3>1. CommandInv(command[d], known, plugins)
      BY DEF RegistryInv, CommandsInv
    <3>2. command'[d] = [command[d] EXCEPT !.alone = FALSE]
      BY <2>2
    <3>3. QED
      BY <2>2, <3>1, <3>2, MarkedKeeps
  <2>3. QED
    BY <2>1, <2>2
<1>2. CommandsInv'
  BY <1>1, AllCommands
<1>3. AloneInv'
  <2>1. command'[c].alone => \A d \in Command \ {c} : command'[d].pc = "idle"
    BY <1>1 DEF AllIdle
  <2>2. QED
    BY <1>1, <2>1 DEF AloneInv
<1>4. FileInv' /\ KnownInv' /\ PluginsInv'
  BY DEF RegistryInv, FileInv, KnownInv, PluginsInv, Holds, Ready, NeedsPlugin
<1>5. QED
  BY <1>2, <1>3, <1>4 DEF RegistryInv

LEMMA MoveKeeps ==
  ASSUME RegistryInv, NEW c \in Command, command[c].pc # "idle",
         command' = [d \in Command |-> command'[d]],
         \A d \in Command \ {c} : command'[d] = command[d],
         CommandInv(command'[c], known, plugins'),
         command'[c].pc # "idle" => command'[c].alone = command[c].alone,
         UNCHANGED known,
         \A n : Ready(plugins, n) => Ready(plugins', n),
         FileInv', PluginsInv'
  PROVE  RegistryInv'
<1>1. \A d \in Command \ {c} : CommandInv(command'[d], known, plugins')
  <2> SUFFICES ASSUME NEW d \in Command \ {c}
               PROVE  CommandInv(command[d], known, plugins')
    OBVIOUS
  <2>1. CommandInv(command[d], known, plugins)
    BY DEF RegistryInv, CommandsInv
  <2>2. QED
    BY <2>1, CommandKeeps
<1>2. CommandsInv'
  BY <1>1, AllCommands
<1>3. AloneInv'
  BY DEF RegistryInv, AloneInv
<1>4. KnownInv'
  BY DEF RegistryInv, KnownInv, NeedsPlugin, Ready
<1>5. QED
  BY <1>2, <1>3, <1>4 DEF RegistryInv

LEMMA ConfigIs ==
  ASSUME NEW type \in STRING, NEW gorun \in BOOLEAN, type # "gone"
  PROVE  /\ Config(type, gorun).type = type /\ Config(type, gorun).gorun = gorun
         /\ Config(type, gorun) # Gone
<1>1. Config(type, gorun).type = type /\ Config(type, gorun).gorun = gorun
  BY DEF Config
<1>2. Gone.type = "gone"
  BY DEF Gone
<1>3. QED
  BY <1>1, <1>2

\* Commands that begin: what they load is the file.
LEMMA LoadStep ==
  ASSUME RegistryInv, NEW c \in Command, NEW pc0 \in LoadingPC, NEW repo,
         pc0 \in {"fetch", "install"} => repo \in Repo,
         pc0 = "remove" => file.kind = "map",
         LoadRegistry(c, pc0, repo), UNCHANGED <<file, known, plugins>>
  PROVE  RegistryInv'
<1> DEFINE s == [pc |-> pc0, repo |-> repo, loaded |-> file, alone |-> AllIdle]
<1>1. /\ DOMAIN s = {"pc", "repo", "loaded", "alone"}
      /\ s.pc = pc0 /\ s.repo = repo /\ s.loaded = file /\ s.alone = AllIdle
  OBVIOUS
<1>2. /\ command[c].pc = "idle"
      /\ command' = [d \in Command |->
           IF d = c THEN s
           ELSE IF command[d].pc # "idle" THEN [command[d] EXCEPT !.alone = FALSE] ELSE Idle]
      /\ file.kind \notin {"absent", "torn"}
  BY DEF LoadRegistry, Begin
<1> HIDE DEF s
<1>3. AllIdle \in BOOLEAN
  BY DEF AllIdle
<1>4. LoadingInv(s, known)
  BY <1>1, <1>2, <1>3 DEF LoadingInv, RegistryInv, FileInv
<1>5. CommandInv(s, known, plugins)
  BY <1>1, <1>4 DEF CommandInv, LoadingPC, SavingPC
<1>6. command'[c] = s
  BY <1>2
<1>7. QED
  BY <1>1, <1>2, <1>5, <1>6, BeginKeeps

LEMMA BuiltinConfig ==
  Config("builtin", FALSE) # Gone /\ ~ NeedsPlugin(Config("builtin", FALSE))
<1>1. Config("builtin", FALSE).type = "builtin"
  BY DEF Config
<1>2. Gone.type = "gone"
  BY DEF Gone
<1>3. QED
  BY <1>1, <1>2 DEF NeedsPlugin

\* The registry of a new project.
LEMMA NewRegistry ==
  ASSUME NEW v, v # Gone, ~ NeedsPlugin(v), NEW al \in BOOLEAN, NEW k, NEW p
  PROVE  CommandInv(Save([n \in Examples |-> v],
                         Over([n \in Examples |-> v], [n \in Name |-> Gone]), al), k, p)
<1> DEFINE e == [n \in Examples |-> v]
           g == [n \in Name |-> Gone]
           ch == Over(e, g)
           s == Save(e, ch, al)
<1>1. /\ DOMAIN s = {"pc", "modules", "changes", "alone"} /\ s.pc = "save"
      /\ s.modules = e /\ s.changes = ch /\ s.alone = al
  BY SaveIs
<1> HIDE DEF s, ch
<1>2. DOMAIN e = Examples /\ \A n \in Examples : e[n] = v
  OBVIOUS
<1>3. DOMAIN g = Name /\ \A n \in Name : g[n] = Gone
  OBVIOUS
<1> HIDE DEF e, g
<1>4. DOMAIN ch = Examples \cup Name
  BY <1>2, <1>3 DEF ch, Over
<1>5. \A n \in DOMAIN ch : ch[n] = IF n \in Examples THEN v ELSE Gone
  BY <1>2, <1>3 DEF ch, Over
<1>6. ~ NeedsPlugin(Gone)
  BY DEF NeedsPlugin, Gone
<1>7. SavingInv(s, k, p)
  BY <1>1, <1>2, <1>4, <1>5, <1>6 DEF SavingInv
<1>8. CommandInv(s, k, p)
  BY <1>1, <1>7 DEF CommandInv, LoadingPC, SavingPC
<1>9. QED
  BY <1>8 DEF s, ch, e, g

LEMMA InitStep ==
  ASSUME RegistryInv, NEW c \in Command, InitCommand(c)
  PROVE  RegistryInv'
<1> DEFINE examples == [n \in Examples |-> Config("builtin", FALSE)]
           s == Save(examples, Over(examples, [n \in Name |-> Gone]), AllIdle)
<1>1. /\ command[c].pc = "idle"
      /\ command' = [d \in Command |->
           IF d = c THEN s
           ELSE IF command[d].pc # "idle" THEN [command[d] EXCEPT !.alone = FALSE] ELSE Idle]
      /\ UNCHANGED <<file, known, plugins>>
  BY DEF InitCommand, Begin
<1>2. AllIdle \in BOOLEAN
  BY DEF AllIdle
<1>3. CommandInv(s, known, plugins)
  BY <1>2, BuiltinConfig, NewRegistry
<1>4. s.alone = AllIdle
  BY SaveIs
<1> HIDE DEF s
<1>5. QED
  BY <1>1, <1>3, <1>4, BeginKeeps

\* AddModule, with the plugin there where one is needed.
LEMMA AddModuleStep ==
  ASSUME RegistryInv, NEW c \in Command, command[c].pc \in {"fetch", "install"},
         NEW name, NEW config, config # Gone,
         command' = AddModule(c, command, name, config),
         NeedsPlugin(config) => Ready(plugins', name),
         UNCHANGED <<file, known>>,
         \A n : Ready(plugins, n) => Ready(plugins', n), PluginsInv'
  PROVE  RegistryInv'
<1> DEFINE s == command[c]
           t == Save(Over(One(name, config), s.loaded.modules), One(name, config), s.alone)
<1>1. CommandInv(s, known, plugins) /\ command = [d \in Command |-> command[d]]
  BY DEF RegistryInv, CommandsInv
<1>2. CommandInv(s, known, plugins')
  BY <1>1, CommandKeeps
<1>3. LoadingInv(s, known)
  BY <1>2 DEF CommandInv, LoadingPC
<1>4. FileInv'
  BY DEF RegistryInv, FileInv, Holds
<1>5. CASE s.loaded.kind = "empty" \/ name \in DOMAIN s.loaded.modules
  <2>1. command' = [command EXCEPT ![c] = Idle]
    BY <1>5 DEF AddModule
  <2>2. /\ command'[c] = Idle /\ command' = [d \in Command |-> command'[d]]
        /\ \A d \in Command \ {c} : command'[d] = command[d]
    BY <1>1, <2>1
  <2>3. Idle.pc = "idle"
    BY DEF Idle
  <2>4. CommandInv(Idle, known, plugins')
    BY <2>3 DEF CommandInv, LoadingPC, SavingPC
  <2>5. QED
    BY <1>4, <2>2, <2>3, <2>4, MoveKeeps
<1>6. CASE ~ (s.loaded.kind = "empty" \/ name \in DOMAIN s.loaded.modules)
  <2>1. command' = [command EXCEPT ![c] = t]
    BY <1>6 DEF AddModule
  <2>2. /\ command'[c] = t /\ command' = [d \in Command |-> command'[d]]
        /\ \A d \in Command \ {c} : command'[d] = command[d]
    BY <1>1, <2>1
  <2>3. t.alone = s.alone
    BY SaveIs
  <2>4. s.loaded.kind = "map" /\ name \notin DOMAIN s.loaded.modules
    BY <1>3, <1>6 DEF LoadingInv
  <2>5. CommandInv(t, known, plugins')
    BY <1>3, <2>4, AddedInv
  <2> HIDE DEF t
  <2>6. QED
    BY <1>4, <2>2, <2>3, <2>5, MoveKeeps
<1>7. QED
  BY <1>5, <1>6

\* A module with a plugin: nothing that was there goes, and no executable is lost.
LEMMA PluginsGrow ==
  ASSUME PluginsInv, NEW name \in Name, NEW w \in {"fragment", "broken", "ready"},
         plugins' = Over(One(name, w), plugins), Ready(plugins, name) => w # "fragment"
  PROVE  /\ PluginsInv' /\ \A n : Ready(plugins, n) => Ready(plugins', n)
         /\ w # "fragment" => Ready(plugins', name)
<1>1. /\ DOMAIN plugins' = {name} \cup DOMAIN plugins /\ plugins'[name] = w
      /\ \A i \in DOMAIN plugins : i # name => plugins'[i] = plugins[i]
  <2> DEFINE one == One(name, w)
  <2>1. DOMAIN one = {name} /\ one[name] = w
    BY OneIs
  <2>2. plugins' = Over(one, plugins)
    OBVIOUS
  <2> HIDE DEF one
  <2>3. QED
    BY <2>1, <2>2 DEF Over
<1>2. PluginsInv'
  BY <1>1 DEF PluginsInv
<1>3. ASSUME NEW n, Ready(plugins, n) PROVE Ready(plugins', n)
  BY <1>1, <1>3 DEF Ready
<1>4. w # "fragment" => Ready(plugins', name)
  BY <1>1 DEF Ready
<1>5. QED
  BY <1>2, <1>3, <1>4

LEMMA PartialGrows ==
  ASSUME PluginsInv, NEW name \in Name, plugins' = Partial(name)
  PROVE  PluginsInv' /\ \A n : Ready(plugins, n) => Ready(plugins', n)
<1> DEFINE w == IF name \in DOMAIN plugins /\ plugins[name] # "fragment" THEN "broken"
                ELSE "fragment"
<1>1. plugins' = Over(One(name, w), plugins)
  BY DEF Partial
<1>2. w \in {"fragment", "broken", "ready"} /\ (Ready(plugins, name) => w # "fragment")
  BY DEF Ready
<1> HIDE DEF w
<1>3. QED
  BY <1>1, <1>2, PluginsGrow

LEMMA HttpConfig ==
  Config("http", FALSE) # Gone /\ ~ NeedsPlugin(Config("http", FALSE))
<1>1. Config("http", FALSE).type = "http"
  BY DEF Config
<1>2. Gone.type = "gone"
  BY DEF Gone
<1>3. QED
  BY <1>1, <1>2 DEF NeedsPlugin

LEMMA GoRunConfig ==
  /\ Config("subprocess", TRUE) # Gone /\ ~ NeedsPlugin(Config("subprocess", TRUE))
  /\ Config("subprocess", FALSE) # Gone
<1>1. Config("subprocess", TRUE).type = "subprocess" /\ Config("subprocess", TRUE).gorun
  BY DEF Config
<1>2. Config("subprocess", FALSE).type = "subprocess"
  BY DEF Config
<1>3. Gone.type = "gone"
  BY DEF Gone
<1>4. QED
  BY <1>1, <1>2, <1>3 DEF NeedsPlugin

LEMMA AddStep ==
  ASSUME RegistryInv, NEW c \in Command, Add(c)
  PROVE  RegistryInv'
<1> DEFINE r == RepoOf[command[c].repo]
<1>1. command[c].pc = "fetch" /\ UNCHANGED <<file, begun, known>>
  BY DEF Add
<1>2. CommandInv(command[c], known, plugins) /\ PluginsInv
  BY DEF RegistryInv, CommandsInv
<1>3. command[c].repo \in Repo
  BY <1>1, <1>2 DEF CommandInv, LoadingPC, LoadingInv
<1>4. Downloads(r) => ModuleName(r) \in Name
  BY <1>3, RegistryConstants DEF Downloads, ModuleName
<1>5. \/ plugins' = plugins /\ \E name : command' = AddModule(c, command, name, Config("http", FALSE))
      \/ Downloads(r) /\ DownloadSubprocessModule(c, ModuleName(r))
      \/ plugins' = plugins
         /\ \E name : command' = AddModule(c, command, name, Config("subprocess", TRUE))
  BY DEF Add
<1> HIDE DEF r
<1>6. CASE /\ plugins' = plugins
           /\ \E name : command' = AddModule(c, command, name, Config("http", FALSE))
  <2>1. PICK name : command' = AddModule(c, command, name, Config("http", FALSE))
    BY <1>6
  <2>2. PluginsInv'
    BY <1>2, <1>6 DEF PluginsInv
  <2>3. QED
    BY <1>1, <1>6, <2>1, <2>2, HttpConfig, AddModuleStep
<1>7. CASE Downloads(r) /\ DownloadSubprocessModule(c, ModuleName(r))
  <2> DEFINE name == ModuleName(r)
  <2>1. name \in Name
    BY <1>4, <1>7
  <2> HIDE DEF name
  <2>2. \/ /\ plugins' = Over(One(name, "ready"), plugins)
           /\ command' = AddModule(c, command, name, Config("subprocess", FALSE))
        \/ /\ plugins' \in {plugins, Partial(name)}
           /\ command' = AddModule(c, command, name, Config("subprocess", TRUE))
    BY <1>7 DEF DownloadSubprocessModule, name
  <2>3. CASE /\ plugins' = Over(One(name, "ready"), plugins)
             /\ command' = AddModule(c, command, name, Config("subprocess", FALSE))
    <3>1. /\ PluginsInv' /\ \A n : Ready(plugins, n) => Ready(plugins', n)
          /\ Ready(plugins', name)
      BY <1>2, <2>1, <2>3, PluginsGrow
    <3>2. QED
      BY <1>1, <2>3, <3>1, GoRunConfig, AddModuleStep
  <2>4. CASE /\ plugins' \in {plugins, Partial(name)}
             /\ command' = AddModule(c, command, name, Config("subprocess", TRUE))
    <3>1. PluginsInv' /\ \A n : Ready(plugins, n) => Ready(plugins', n)
      <4>1. CASE plugins' = plugins
        BY <1>2, <4>1 DEF PluginsInv
      <4>2. CASE plugins' = Partial(name)
        BY <1>2, <2>1, <4>2, PartialGrows
      <4>3. QED
        BY <2>4, <4>1, <4>2
    <3>2. QED
      BY <1>1, <2>4, <3>1, GoRunConfig, AddModuleStep
  <2>5. QED
    BY <2>2, <2>3, <2>4
<1>8. CASE /\ plugins' = plugins
           /\ \E name : command' = AddModule(c, command, name, Config("subprocess", TRUE))
  <2>1. PICK name : command' = AddModule(c, command, name, Config("subprocess", TRUE))
    BY <1>8
  <2>2. PluginsInv'
    BY <1>2, <1>8 DEF PluginsInv
  <2>3. QED
    BY <1>1, <1>8, <2>1, <2>2, GoRunConfig, AddModuleStep
<1>9. QED
  BY <1>5, <1>6, <1>7, <1>8

LEMMA InstalledStep ==
  ASSUME RegistryInv, NEW c \in Command, Installed(c)
  PROVE  RegistryInv'
<1>1. /\ command[c].pc = "install" /\ UNCHANGED <<file, plugins, known>>
      /\ \E name : command' = AddModule(c, command, name, Config("http", FALSE))
  BY DEF Installed
<1>2. PICK name : command' = AddModule(c, command, name, Config("http", FALSE))
  BY <1>1
<1>3. PluginsInv'
  BY <1>1 DEF RegistryInv, PluginsInv
<1>4. QED
  BY <1>1, <1>2, <1>3, HttpConfig, AddModuleStep

LEMMA RemoveStep ==
  ASSUME RegistryInv, NEW c \in Command, RemoveModule(c)
  PROVE  RegistryInv'
<1> DEFINE s == command[c]
           old == s.loaded.modules
           m == [n \in DOMAIN old \ {s.repo} |-> old[n]]
           ch == One(s.repo, Gone)
           t == Save(m, ch, s.alone)
<1>1. /\ s.pc = "remove" /\ command' = [command EXCEPT ![c] = t]
      /\ UNCHANGED <<file, plugins, known>>
  BY DEF RemoveModule
<1>2. CommandInv(s, known, plugins) /\ command = [d \in Command |-> command[d]]
  BY DEF RegistryInv, CommandsInv
<1>3. LoadingInv(s, known) /\ s.loaded.kind = "map"
  BY <1>1, <1>2 DEF CommandInv, LoadingPC, LoadingInv
<1>4. /\ DOMAIN t = {"pc", "modules", "changes", "alone"} /\ t.pc = "save"
      /\ t.modules = m /\ t.changes = ch /\ t.alone = s.alone
  BY SaveIs
<1>5. DOMAIN ch = {s.repo} /\ ch[s.repo] = Gone
  BY OneIs
<1>6. DOMAIN m = DOMAIN old \ {s.repo} /\ \A n \in DOMAIN old : n # s.repo => m[n] = old[n]
  OBVIOUS
<1>7. /\ command'[c] = t /\ command' = [d \in Command |-> command'[d]]
      /\ \A d \in Command \ {c} : command'[d] = command[d]
  BY <1>1, <1>2
<1>8. ~ NeedsPlugin(Gone)
  BY DEF NeedsPlugin, Gone
<1>9. s.alone \in BOOLEAN /\ \A n \in Name : Holds(old, n, known)
  BY <1>3 DEF LoadingInv
<1> HIDE DEF t, ch, m, old
<1>10. ASSUME NEW n \in Name, n # s.repo PROVE Holds(m, n, known)
  <2>1. Holds(old, n, known)
    BY <1>9
  <2>2. QED
    BY <1>6, <1>10, <2>1 DEF Holds
<1>11. SavingInv(t, known, plugins)
  BY <1>4, <1>5, <1>6, <1>8, <1>9, <1>10 DEF SavingInv
<1>12. CommandInv(t, known, plugins')
  BY <1>1, <1>4, <1>11 DEF CommandInv, LoadingPC, SavingPC
<1>13. FileInv' /\ PluginsInv' /\ \A n : Ready(plugins, n) => Ready(plugins', n)
  BY <1>1 DEF RegistryInv, FileInv, PluginsInv, Holds
<1>14. s.pc # "idle" /\ UNCHANGED known
  BY <1>1
<1>15. QED
  BY <1>4, <1>7, <1>12, <1>13, <1>14, MoveKeeps

\* A command that ends and leaves the registry alone, or tears it.
LEMMA EndKeeps ==
  ASSUME RegistryInv, NEW c \in Command, command[c].pc # "idle",
         command' = [command EXCEPT ![c] = Idle], UNCHANGED known,
         file' = file \/ file'.kind \in {"empty", "torn"},
         \A n : Ready(plugins, n) => Ready(plugins', n), PluginsInv'
  PROVE  RegistryInv'
<1>1. command = [d \in Command |-> command[d]]
  BY DEF RegistryInv, CommandsInv
<1>2. /\ command'[c] = Idle /\ command' = [d \in Command |-> command'[d]]
      /\ \A d \in Command \ {c} : command'[d] = command[d]
  BY <1>1
<1>3. Idle.pc = "idle"
  BY DEF Idle
<1>4. CommandInv(Idle, known, plugins')
  BY <1>3 DEF CommandInv, LoadingPC, SavingPC
<1>5. FileInv'
  BY DEF RegistryInv, FileInv, Holds
<1>6. QED
  BY <1>2, <1>3, <1>4, <1>5, MoveKeeps

LEMMA OpenStep ==
  ASSUME RegistryInv, NEW c \in Command, Open(c)
  PROVE  RegistryInv'
<1> DEFINE s == command[c]
           t == [s EXCEPT !.pc = "write"]
<1>1. s.pc = "save" /\ UNCHANGED <<plugins, known>>
  BY DEF Open
<1>2. CommandInv(s, known, plugins) /\ command = [d \in Command |-> command[d]]
  BY DEF RegistryInv, CommandsInv
<1>3. PluginsInv' /\ \A n : Ready(plugins, n) => Ready(plugins', n)
  BY <1>1 DEF RegistryInv, PluginsInv
<1>4. CASE file' = Empty /\ command' = [command EXCEPT ![c].pc = "write"]
  <2>1. SavingInv(s, known, plugins)
    BY <1>1, <1>2 DEF CommandInv, SavingPC
  <2>2. DOMAIN s = {"pc", "modules", "changes", "alone"}
    BY <2>1 DEF SavingInv
  <2>3. /\ DOMAIN t = DOMAIN s /\ t.pc = "write" /\ t.modules = s.modules
        /\ t.changes = s.changes /\ t.alone = s.alone
    BY <2>2
  <2>4. /\ command'[c] = t /\ command' = [d \in Command |-> command'[d]]
        /\ \A d \in Command \ {c} : command'[d] = command[d]
    BY <1>2, <1>4
  <2> HIDE DEF t
  <2>5. SavingInv(t, known, plugins)
    BY <2>1, <2>3 DEF SavingInv
  <2>6. CommandInv(t, known, plugins')
    BY <1>1, <2>3, <2>5 DEF CommandInv, LoadingPC, SavingPC
  <2>7. file'.kind = "empty"
    BY <1>4 DEF Empty
  <2>8. FileInv'
    BY <2>7 DEF FileInv
  <2>9. s.pc # "idle" /\ UNCHANGED known
    BY <1>1
  <2>10. QED
    BY <1>3, <2>3, <2>4, <2>6, <2>8, <2>9, MoveKeeps
<1>5. CASE UNCHANGED file /\ command' = [command EXCEPT ![c] = Idle]
  BY <1>1, <1>3, <1>5, EndKeeps
<1>6. QED
  BY <1>4, <1>5 DEF Open

LEMMA KillStep ==
  ASSUME RegistryInv, NEW c \in Command, Kill(c)
  PROVE  RegistryInv'
<1>1. /\ command[c].pc # "idle" /\ command' = [command EXCEPT ![c] = Idle]
      /\ UNCHANGED <<file, known>>
  BY DEF Kill
<1>2. CommandInv(command[c], known, plugins) /\ PluginsInv
  BY DEF RegistryInv, CommandsInv
<1>3. PluginsInv' /\ \A n : Ready(plugins, n) => Ready(plugins', n)
  <2>1. CASE plugins' = plugins
    BY <1>2, <2>1 DEF PluginsInv
  <2>2. CASE /\ command[c].pc = "fetch" /\ Downloads(RepoOf[command[c].repo])
             /\ plugins' = Partial(ModuleName(RepoOf[command[c].repo]))
    <3>1. command[c].repo \in Repo
      BY <1>2, <2>2 DEF CommandInv, LoadingPC, LoadingInv
    <3>2. ModuleName(RepoOf[command[c].repo]) \in Name
      BY <2>2, <3>1, RegistryConstants DEF Downloads, ModuleName
    <3>3. QED
      BY <1>2, <2>2, <3>2, PartialGrows
  <2>3. QED
    BY <2>1, <2>2 DEF Kill
<1>4. QED
  BY <1>1, <1>3, EndKeeps

\* What a write that ends early, or meets another one, leaves of the file.
LEMMA DamagedKind ==
  ASSUME NEW modules, EndsEarly(modules) \/ Joins(modules)
  PROVE  file'.kind \in {"empty", "torn", "map"}
<1>1. Empty.kind = "empty" /\ Torn.kind = "torn" /\ \A m : Map(m).kind = "map"
  BY DEF Empty, Torn, Map
<1>2. CASE EndsEarly(modules)
  BY <1>1, <1>2 DEF EndsEarly
<1>3. CASE Joins(modules)
  BY <1>1, <1>3 DEF Joins
<1>4. QED
  BY <1>2, <1>3

\* A command ends and leaves a registry of which nothing is known.
LEMMA DamageKeeps ==
  ASSUME RegistryInv, NEW c \in Command, command' = [command EXCEPT ![c] = Idle],
         file'.kind \in {"empty", "torn", "map"}, UNCHANGED plugins,
         known' = [n \in DOMAIN known |-> Unsure]
  PROVE  RegistryInv'
<1>1. /\ command = [d \in Command |-> command[d]]
      /\ \A d \in Command : CommandInv(command[d], known, plugins)
      /\ Name \subseteq DOMAIN known
  BY DEF RegistryInv, CommandsInv, KnownInv
<1>2. /\ command'[c] = Idle /\ command' = [d \in Command |-> command'[d]]
      /\ \A d \in Command \ {c} : command'[d] = command[d]
  BY <1>1
<1>3. Idle.pc = "idle" /\ ~ NeedsPlugin(Unsure)
  BY DEF Idle, NeedsPlugin, Unsure
<1>4. DOMAIN known' = DOMAIN known /\ \A n \in Name : known'[n] = Unsure
  BY <1>1
<1>5. FileInv'
  BY <1>4 DEF FileInv, Holds
<1>6. KnownInv'
  BY <1>1, <1>3, <1>4 DEF KnownInv, NeedsPlugin
<1>7. PluginsInv'
  BY DEF RegistryInv, PluginsInv
<1>8. AloneInv'
  BY <1>2, <1>3 DEF RegistryInv, AloneInv
<1>9. ASSUME NEW d \in Command PROVE CommandInv(command'[d], known', plugins')
  <2>1. CASE d = c
    BY <1>2, <1>3, <2>1 DEF CommandInv, LoadingPC, SavingPC
  <2>2. CASE d # c
    <3>1. CommandInv(command[d], known, plugins) /\ command'[d] = command[d]
      BY <1>1, <1>2, <2>2
    <3>2. \A n : Ready(plugins, n) => Ready(plugins', n)
      OBVIOUS
    <3>3. CommandInv(command[d], known', plugins')
      BY <1>4, <3>1, <3>2, CommandKeeps
    <3>4. QED
      BY <3>1, <3>3
  <2>3. QED
    BY <2>1, <2>2
<1>10. CommandsInv'
  BY <1>2, <1>9, AllCommands
<1>11. QED
  BY <1>5, <1>6, <1>7, <1>8, <1>10 DEF RegistryInv

\* A registry is written: it has what the command made of its modules and, of the others,
\* what the command had loaded.
LEMMA WriteStep ==
  ASSUME RegistryInv, NEW c \in Command, saveRegistry(c)
  PROVE  RegistryInv'
<1> DEFINE s == command[c]
           marks == [n \in DOMAIN s.changes |-> IF s.alone THEN s.changes[n] ELSE Unsure]
<1>1. /\ s.pc = "write" /\ command' = [command EXCEPT ![c] = Idle] /\ UNCHANGED plugins
  BY DEF saveRegistry
<1>2. CommandInv(s, known, plugins) /\ command = [d \in Command |-> command[d]] /\ PluginsInv
  BY DEF RegistryInv, CommandsInv
<1>3. SavingInv(s, known, plugins)
  BY <1>1, <1>2 DEF CommandInv, SavingPC
<1>4. PluginsInv' /\ \A n : Ready(plugins, n) => Ready(plugins', n)
  BY <1>1 DEF RegistryInv, PluginsInv
<1>5. CASE UNCHANGED <<file, known>>
  BY <1>1, <1>4, <1>5, EndKeeps
<1>6. CASE /\ EndsEarly(s.modules) \/ (file # Empty /\ Joins(s.modules))
           /\ known' = [n \in DOMAIN known |-> Unsure]
  BY <1>1, <1>6, DamagedKind, DamageKeeps
<1>7. CASE file' = Map(s.modules) /\ known' = Over(marks, known)
  <2>1. /\ DOMAIN marks = DOMAIN s.changes
        /\ \A n \in DOMAIN s.changes : marks[n] = IF s.alone THEN s.changes[n] ELSE Unsure
    OBVIOUS
  <2>2. known' = Over(marks, known)
    BY <1>7
  <2>3. /\ command'[c] = Idle /\ command' = [d \in Command |-> command'[d]]
        /\ \A d \in Command \ {c} : command'[d] = command[d]
    BY <1>1, <1>2
  <2> HIDE DEF marks
  <2>4. Name \subseteq DOMAIN known
    BY DEF RegistryInv, KnownInv
  <2>5. /\ DOMAIN known' = DOMAIN s.changes \cup DOMAIN known
        /\ \A n \in DOMAIN s.changes :
             known'[n] = IF s.alone THEN s.changes[n] ELSE Unsure
        /\ \A n \in Name : n \notin DOMAIN s.changes => known'[n] = known[n]
    BY <2>1, <2>2, <2>4 DEF Over
  <2>6. Unsure.type = "unsure" /\ ~ NeedsPlugin(Unsure)
    BY DEF Unsure, NeedsPlugin
  <2>7. Idle.pc = "idle"
    BY DEF Idle
  <2>8. ASSUME NEW n \in Name PROVE Holds(s.modules, n, known')
    <3>1. CASE n \in DOMAIN s.changes
      BY <1>3, <2>5, <3>1 DEF SavingInv, Holds
    <3>2. CASE n \notin DOMAIN s.changes
      <4>1. Holds(s.modules, n, known)
        BY <1>3, <3>2 DEF SavingInv
      <4>2. QED
        BY <2>5, <3>2, <4>1 DEF Holds
    <3>3. QED
      BY <3>1, <3>2
  <2>9. FileInv'
    <3>1. file'.kind = "map" /\ file'.modules = s.modules
      BY <1>7 DEF Map
    <3>2. \A n \in Name : Holds(file'.modules, n, known')
      BY <2>8, <3>1
    <3>3. QED
      BY <3>1, <3>2 DEF FileInv, Holds
  <2>10. KnownInv'
    <3>1. Name \subseteq DOMAIN known'
      BY <2>4, <2>5
    <3>2. ASSUME NEW n \in Name, NeedsPlugin(known'[n]) PROVE Ready(plugins, n)
      <4>1. CASE n \in DOMAIN s.changes
        BY <1>3, <2>5, <2>6, <3>2, <4>1 DEF SavingInv
      <4>2. CASE n \notin DOMAIN s.changes
        BY <2>5, <3>2, <4>2 DEF RegistryInv, KnownInv
      <4>3. QED
        BY <4>1, <4>2
    <3>3. QED
      BY <1>1, <3>1, <3>2 DEF KnownInv, NeedsPlugin, Ready
  <2>11. \A d \in Command : CommandInv(command'[d], known', plugins')
    <3>1. CommandInv(command'[c], known', plugins')
      BY <2>3, <2>7 DEF CommandInv, LoadingPC, SavingPC
    <3>2. ASSUME NEW d \in Command \ {c} PROVE CommandInv(command[d], known', plugins')
      <4>1. CASE s.alone
        <5>1. command[d].pc = "idle"
          BY <1>1, <4>1 DEF RegistryInv, AloneInv
        <5>2. QED
          BY <5>1 DEF CommandInv, LoadingPC, SavingPC
      <4>2. CASE ~ s.alone
        <5>1. \A n \in Name : known'[n] = known[n] \/ known'[n] = Unsure
          BY <2>5, <4>2
        <5>2. CommandInv(command[d], known, plugins)
          BY DEF RegistryInv, CommandsInv
        <5>3. QED
          BY <1>4, <5>1, <5>2, CommandKeeps
      <4>3. QED
        BY <4>1, <4>2
    <3>3. QED
      BY <2>3, <3>1, <3>2
  <2>12. CommandsInv'
    BY <2>3, <2>11, AllCommands
  <2>13. AloneInv'
    BY <2>3, <2>7 DEF RegistryInv, AloneInv
  <2>14. QED
    BY <1>4, <2>9, <2>10, <2>12, <2>13 DEF RegistryInv
<1>8. QED
  BY <1>5, <1>6, <1>7 DEF saveRegistry

LEMMA CommandsStep ==
  ASSUME RegistryInv, NEW c \in Command, Commands(c) \/ InitCommand(c)
  PROVE  RegistryInv'
<1>1. ASSUME NEW r \in Repo, BeginAdd(c, r) \/ Install(c, r)
      PROVE  RegistryInv'
  <2>1. UNCHANGED <<file, known, plugins>>
    BY <1>1 DEF BeginAdd, Install
  <2>2. CASE BeginAdd(c, r)
    <3>1. LoadRegistry(c, "fetch", r) /\ "fetch" \in LoadingPC
      BY <2>2 DEF BeginAdd, LoadingPC
    <3>2. QED
      BY <2>1, <3>1, LoadStep
  <2>3. CASE Install(c, r)
    <3>1. LoadRegistry(c, "install", r) /\ "install" \in LoadingPC
      BY <2>3 DEF Install, LoadingPC
    <3>2. QED
      BY <2>1, <3>1, LoadStep
  <2>4. QED
    BY <1>1, <2>2, <2>3
<1>2. ASSUME NEW n \in Name, NEW word \in BOOLEAN, Remove(c, n, word)
      PROVE  RegistryInv'
  <2>1. /\ file.kind = "map" /\ UNCHANGED <<file, known, plugins>>
        /\ \E name : LoadRegistry(c, "remove", name)
    BY <1>2 DEF Remove
  <2>2. PICK name : LoadRegistry(c, "remove", name)
    BY <2>1
  <2>3. "remove" \in LoadingPC
    BY DEF LoadingPC
  <2>4. QED
    BY <2>1, <2>2, <2>3, LoadStep
<1>3. QED
  BY <1>1, <1>2, InitStep, AddStep, InstalledStep, RemoveStep, OpenStep, WriteStep, KillStep
     DEF Commands

-----------------------------------------------------------------------------
(* Runs.                                                                   *)

\* What DiscoverSubprocessModules leaves.
Scanned ==
  /\ DOMAIN start.types = Builtin \cup Executable \cup PathPlugins
  /\ \A b \in Builtin : start.types[b] = "builtin"
  /\ \A n \in Executable \ Builtin : start.types[n] = "plugin"
  /\ \A n \in PathPlugins \ (Builtin \cup Executable) : start.types[n] = "path"

\* As long as no command has begun since a run was started, none is at work, and the run
\* has found what is there now.
RunInv ==
  /\ start.since \in Int /\ start.since <= begun
  /\ start.pc = "scan" => start.types = [b \in Builtin |-> "builtin"]
  /\ (start.pc \in {"scan", "goRun", "up"} /\ start.since = begun) => AllIdle
  /\ (start.pc = "goRun" /\ start.since = begun) => Scanned
  /\ StartedRunsHaveTheirModules

BoundsInv ==
  /\ project.commands \in Nat /\ begun \in 0..project.commands
  /\ project.config # Unreadable => DOMAIN project.config \subseteq STRING
  /\ verdict.exit \in {"none", "0", "1"}
  /\ start.pc \in {"none", "scan", "goRun", "up", "fatal"}
  /\ providers \subseteq STRING

FullInv == IInv /\ RegistryInv /\ RunInv /\ BoundsInv

\* A command that begins is one more; the others have begun.
LEMMA CommandsCount ==
  ASSUME BoundsInv, NEW c \in Command, Commands(c) \/ InitCommand(c)
  PROVE  begun' = begun + 1 \/ (begun' = begun /\ ~ AllIdle)
<1>1. CASE Add(c) \/ Installed(c) \/ RemoveModule(c) \/ Open(c) \/ saveRegistry(c) \/ Kill(c)
  BY <1>1 DEF Add, Installed, RemoveModule, Open, saveRegistry, Kill, AllIdle
<1>2. CASE \E r \in Repo : BeginAdd(c, r) \/ Install(c, r)
  BY <1>2 DEF BeginAdd, Install, LoadRegistry, Begin
<1>3. CASE \E n \in Name, word \in BOOLEAN : Remove(c, n, word)
  BY <1>3 DEF Remove, LoadRegistry, Begin
<1>4. CASE InitCommand(c)
  BY <1>4 DEF InitCommand, Begin
<1>5. QED
  BY <1>1, <1>2, <1>3, <1>4 DEF Commands

LEMMA CommandsKeepRun ==
  ASSUME RunInv, BoundsInv, NEW c \in Command, Commands(c) \/ InitCommand(c)
  PROVE  RunInv'
<1>1. UNCHANGED start
  BY CommandsLeaveStart
<1>2. start.since <= begun' /\ (start.pc \in {"scan", "goRun", "up"} => start.since # begun')
  BY CommandsCount DEF RunInv, BoundsInv
<1>3. StartedRunsHaveTheirModules'
  BY <1>1, <1>2 DEF StartedRunsHaveTheirModules
<1>4. QED
  BY <1>1, <1>2, <1>3 DEF RunInv

\* Nothing of this looks at the project, the verdict and the providers.
LEMMA RegistryFrame ==
  ASSUME RegistryInv, UNCHANGED <<file, plugins, command, known>>
  PROVE  RegistryInv'
<1>1. CommandsInv'
  <2>1. command' = [d \in Command |-> command'[d]]
    BY DEF RegistryInv, CommandsInv
  <2>2. \A d \in Command : CommandInv(command'[d], known', plugins')
    BY DEF RegistryInv, CommandsInv
  <2>3. QED
    BY <2>1, <2>2, AllCommands
<1>2. AloneInv' /\ FileInv' /\ KnownInv' /\ PluginsInv'
  BY DEF RegistryInv, AloneInv, FileInv, KnownInv, PluginsInv, Holds, Ready, NeedsPlugin
<1>3. QED
  BY <1>1, <1>2 DEF RegistryInv

LEMMA LaunchStep ==
  ASSUME IInv, BoundsInv, Launch
  PROVE  RunInv'
<1>1. /\ start'.pc = "scan" /\ start'.types = [b \in Builtin |-> "builtin"]
      /\ start'.since = IF AllIdle THEN begun ELSE -1
      /\ UNCHANGED <<command, begun>>
  BY DEF Launch
<1>2. AllIdle' <=> AllIdle
  BY <1>1 DEF AllIdle
<1>3. StartedRunsHaveTheirModules'
  BY <1>1 DEF StartedRunsHaveTheirModules
<1>4. QED
  BY <1>1, <1>2, <1>3 DEF RunInv, BoundsInv

LEMMA ScanStep ==
  ASSUME IInv, RunInv, DiscoverSubprocessModules
  PROVE  RunInv'
<1> DEFINE b == [n \in Builtin |-> "builtin"]
           x == [n \in Executable |-> "plugin"]
           y == [n \in PathPlugins |-> "path"]
           bx == Over(b, x)
           t == Over(bx, y)
<1>1. /\ start.pc = "scan" /\ start.types = b
      /\ start' = [start EXCEPT !.pc = "goRun", !.types = Over(Over(@, x), y)]
      /\ UNCHANGED <<file, plugins, command, begun, known>>
  BY DEF DiscoverSubprocessModules, RunInv
<1>2. DOMAIN start = {"pc", "launches", "since", "types", "http"}
  BY DEF IInv, StartInv
<1>3. start'.pc = "goRun" /\ start'.types = t /\ start'.since = start.since
  BY <1>1, <1>2
<1>4. DOMAIN b = Builtin /\ \A n \in Builtin : b[n] = "builtin"
  OBVIOUS
<1>5. DOMAIN x = Executable /\ \A n \in Executable : x[n] = "plugin"
  OBVIOUS
<1>6. DOMAIN y = PathPlugins /\ \A n \in PathPlugins : y[n] = "path"
  OBVIOUS
<1> HIDE DEF b, x, y
<1>7. /\ DOMAIN bx = Builtin \cup Executable
      /\ \A n \in Builtin \cup Executable : bx[n] = IF n \in Builtin THEN b[n] ELSE x[n]
  BY <1>4, <1>5 DEF Over
<1> HIDE DEF bx
<1>8. /\ DOMAIN t = Builtin \cup Executable \cup PathPlugins
      /\ \A n \in DOMAIN t : t[n] = IF n \in Builtin \cup Executable THEN bx[n] ELSE y[n]
  BY <1>6, <1>7 DEF Over
<1> HIDE DEF t
<1>9. Executable' = Executable /\ (AllIdle' <=> AllIdle)
  BY <1>1 DEF Executable, AllIdle
<1>10. Scanned'
  BY <1>3, <1>4, <1>5, <1>6, <1>7, <1>8, <1>9 DEF Scanned
<1>11. StartedRunsHaveTheirModules'
  BY <1>3 DEF StartedRunsHaveTheirModules
<1>12. QED
  BY <1>1, <1>3, <1>9, <1>10, <1>11 DEF RunInv

LEMMA RegisterStep ==
  ASSUME IInv, RegistryInv, RunInv, RegisterRest
  PROVE  RunInv'
<1> DEFINE g == [n \in GoRunModules |-> "goRun"]
           f == First(GoRunModules)
           k == [n \in Core |-> "core"]
           t == Over(f, k)
<1>1. /\ start.pc = "goRun" /\ UNCHANGED <<file, plugins, command, begun, known>>
      /\ start' = IF Core \cap DOMAIN f # {} THEN [start EXCEPT !.pc = "fatal"]
                  ELSE [start EXCEPT !.pc = "up", !.types = t]
  BY DEF RegisterRest
<1>2. DOMAIN start = {"pc", "launches", "since", "types", "http"}
  BY DEF IInv, StartInv
<1>3. AllIdle' <=> AllIdle
  BY <1>1 DEF AllIdle
<1>4. CASE Core \cap DOMAIN f # {}
  <2>1. start'.pc = "fatal" /\ start'.since = start.since
    BY <1>1, <1>2, <1>4
  <2>2. StartedRunsHaveTheirModules'
    BY <2>1 DEF StartedRunsHaveTheirModules
  <2>3. QED
    BY <1>1, <2>1, <2>2 DEF RunInv
<1>5. CASE Core \cap DOMAIN f = {}
  <2>1. start'.pc = "up" /\ start'.types = t /\ start'.since = start.since
    BY <1>1, <1>2, <1>5
  <2>2. DOMAIN g = GoRunModules /\ \A n \in GoRunModules : g[n] = "goRun"
    OBVIOUS
  <2>3. DOMAIN k = Core /\ \A n \in Core : k[n] = "core"
    OBVIOUS
  <2> HIDE DEF g, k
  <2>4. f = Over(start.types, g)
    BY DEF First, g
  <2> HIDE DEF f
  <2>5. /\ DOMAIN f = DOMAIN start.types \cup GoRunModules
        /\ \A n \in DOMAIN f : f[n] = IF n \in DOMAIN start.types THEN start.types[n] ELSE g[n]
    BY <2>2, <2>4 DEF Over
  <2>6. /\ DOMAIN t = DOMAIN f \cup Core
        /\ \A n \in DOMAIN t : t[n] = IF n \in DOMAIN f THEN f[n] ELSE k[n]
    BY <2>3 DEF Over
  <2> HIDE DEF t
  <2>7. SUFFICES ASSUME start.since = begun, file.kind = "map"
                 PROVE  /\ \A b \in Builtin : t[b] = "builtin"
                        /\ \A n \in Core : t[n] = "core"
                        /\ \A n \in Name \ Builtin :
                             (known[n].type = "subprocess" /\ Intact(n)) =>
                               /\ n \in DOMAIN t
                               /\ ~ known[n].gorun => t[n] = "plugin" /\ plugins[n] = "ready"
                               /\ known[n].gorun =>
                                    t[n] = IF n \in DOMAIN plugins /\ plugins[n] = "ready"
                                           THEN "plugin"
                                           ELSE IF n \in PathPlugins THEN "path" ELSE "goRun"
    <3>1. CASE start.since = begun /\ file.kind = "map"
      <4>1. StartedRunsHaveTheirModules'
        BY <1>1, <2>1, <2>7, <3>1 DEF StartedRunsHaveTheirModules, Intact
      <4>2. QED
        BY <1>1, <1>3, <2>1, <4>1 DEF RunInv
    <3>2. CASE ~ (start.since = begun /\ file.kind = "map")
      <4>1. StartedRunsHaveTheirModules'
        BY <1>1, <2>1, <3>2 DEF StartedRunsHaveTheirModules
      <4>2. QED
        BY <1>1, <1>3, <2>1, <4>1 DEF RunInv
    <3>3. QED
      BY <3>1, <3>2
  <2>8. Scanned
    BY <1>1, <2>7 DEF RunInv
  <2>9. \A b \in Builtin : t[b] = "builtin"
    BY <2>5, <2>6, <2>8 DEF Scanned
  <2>10. \A n \in Core : t[n] = "core"
    BY <1>5, <2>3, <2>6
  <2>11. ASSUME NEW n \in Name \ Builtin, known[n].type = "subprocess", Intact(n)
         PROVE  /\ n \in DOMAIN t
                /\ ~ known[n].gorun => t[n] = "plugin" /\ plugins[n] = "ready"
                /\ known[n].gorun =>
                     t[n] = IF n \in DOMAIN plugins /\ plugins[n] = "ready"
                            THEN "plugin"
                            ELSE IF n \in PathPlugins THEN "path" ELSE "goRun"
    <3>1. n \in GoRunModules <=> known[n].gorun
      <4>1. Gone.type = "gone" /\ Unsure.type = "unsure"
        BY DEF Gone, Unsure
      <4>2. known[n] # Gone /\ known[n] # Unsure
        BY <2>11, <4>1
      <4>3. Holds(file.modules, n, known)
        BY <2>7 DEF RegistryInv, FileInv
      <4>4. n \in DOMAIN file.modules /\ file.modules[n] = known[n]
        BY <4>2, <4>3 DEF Holds
      <4>5. Modules = file.modules
        BY <2>7 DEF Modules
      <4>6. QED
        BY <2>11, <4>4, <4>5 DEF GoRunModules
    <3>2. n \in Executable <=> Ready(plugins, n)
      BY DEF Executable, Ready
    <3>3. ~ known[n].gorun => Ready(plugins, n)
      BY <2>11 DEF RegistryInv, KnownInv, NeedsPlugin
    <3>4. n \in DOMAIN f
      BY <2>5, <2>8, <3>1, <3>2, <3>3 DEF Scanned
    <3>5. n \in DOMAIN t /\ t[n] = f[n]
      BY <2>6, <3>4
    <3>6. f[n] = IF n \in Executable THEN "plugin"
                 ELSE IF n \in PathPlugins THEN "path" ELSE "goRun"
      BY <2>2, <2>5, <2>8, <3>1, <3>2, <3>3, <3>4 DEF Scanned
    <3>7. Ready(plugins, n) <=> n \in DOMAIN plugins /\ plugins[n] = "ready"
      BY <2>11 DEF Ready, Intact, RegistryInv, PluginsInv
    <3>8. QED
      BY <3>2, <3>3, <3>5, <3>6, <3>7
  <2>12. QED
    BY <2>9, <2>10, <2>11
<1>6. QED
  BY <1>4, <1>5

-----------------------------------------------------------------------------
LEMMA InitFull == Init => FullInv
<1> SUFFICES ASSUME Init PROVE FullInv
  OBVIOUS
<1>1. IInv
  BY InitHolds
<1>2. RegistryInv
  <2>1. /\ file \in InitialFiles /\ plugins \in InitialPlugins
        /\ command = [c \in Command |-> Idle]
        /\ known = [n \in Name |-> IF n \in DOMAIN Modules THEN Modules[n] ELSE Gone]
    BY DEF Init, RegistryInit
  <2>2. CommandsInv /\ AloneInv
    BY <2>1 DEF CommandsInv, AloneInv, CommandInv, LoadingPC, SavingPC, Idle
  <2>3. FileInv
    <3>1. file.kind \in {"absent", "empty", "torn", "map"}
      BY <2>1, RegistryConstants
    <3>2. ASSUME file.kind = "map" PROVE Modules = file.modules
      BY <3>2 DEF Modules
    <3>3. QED
      BY <2>1, <3>1, <3>2 DEF FileInv, Holds
  <2>4. KnownInv
    <3>1. ~ NeedsPlugin(Gone)
      BY DEF NeedsPlugin, Gone
    <3>2. ASSUME NEW n \in DOMAIN Modules PROVE ~ NeedsPlugin(Modules[n])
      <4>1. file.kind = "map" /\ Modules = file.modules
        BY <3>2 DEF Modules
      <4>2. QED
        BY <2>1, <3>2, <4>1, RegistryConstants DEF NeedsPlugin
    <3>3. QED
      BY <2>1, <3>1, <3>2 DEF KnownInv
  <2>5. PluginsInv
    BY <2>1, RegistryConstants DEF PluginsInv
  <2>6. QED
    BY <2>2, <2>3, <2>4, <2>5 DEF RegistryInv
<1>3. RunInv
  BY DEF Init, RegistryInit, RunInv, StartedRunsHaveTheirModules
<1>4. BoundsInv
  BY ProjectsAssumption DEF Init, RegistryInit, BoundsInv
<1>5. QED
  BY <1>1, <1>2, <1>3, <1>4 DEF FullInv

LEMMA RunCommandStep ==
  ASSUME FullInv, RunCommand
  PROVE  RegistryInv' /\ RunInv' /\ BoundsInv'
<1>1. UNCHANGED <<file, plugins, command, known, begun, project, verdict>>
  BY DEF RunCommand, Launch, DiscoverSubprocessModules, RegisterRest
<1>2. RegistryInv'
  BY <1>1, RegistryFrame DEF FullInv
<1>3. RunInv'
  BY LaunchStep, ScanStep, RegisterStep DEF FullInv, RunCommand
<1>4. start'.pc \in {"none", "scan", "goRun", "up", "fatal"}
  <2>1. DOMAIN start = {"pc", "launches", "since", "types", "http"}
    BY DEF FullInv, IInv, StartInv
  <2>2. CASE Launch
    BY <2>2 DEF Launch
  <2>3. CASE DiscoverSubprocessModules
    <3>1. start'.pc = "goRun"
      BY <2>1, <2>3 DEF DiscoverSubprocessModules
    <3>2. QED
      BY <3>1
  <2>4. CASE RegisterRest
    <3>1. start'.pc \in {"fatal", "up"}
      BY <2>1, <2>4 DEF RegisterRest
    <3>2. QED
      BY <3>1
  <2>5. QED
    BY <2>2, <2>3, <2>4 DEF RunCommand
<1>5. providers' \subseteq STRING
  <2>1. CASE providers' = {} \/ providers' = providers
    BY <2>1 DEF FullInv, BoundsInv
  <2>2. CASE providers' = registerAIProviders(LoadModelConfig(project.config))
    <3>1. providers' \subseteq DOMAIN LoadModelConfig(project.config)
      BY <2>2 DEF registerAIProviders
    <3>2. DOMAIN LoadModelConfig(project.config) \subseteq STRING
      <4>1. CASE project.config = Unreadable
        BY <4>1 DEF LoadModelConfig
      <4>2. CASE project.config # Unreadable
        BY <4>2 DEF LoadModelConfig, FullInv, BoundsInv
      <4>3. QED
        BY <4>1, <4>2
    <3>3. QED
      BY <3>1, <3>2
  <2>3. QED
    BY <2>1, <2>2 DEF RunCommand
<1>6. BoundsInv'
  BY <1>1, <1>4, <1>5 DEF FullInv, BoundsInv
<1>7. QED
  BY <1>2, <1>3, <1>6

LEMMA FullStep == FullInv /\ [Next]_vars => FullInv'
<1> SUFFICES ASSUME FullInv, [Next]_vars
             PROVE  FullInv'
  OBVIOUS
<1>1. IInv'
  BY StepPreserves DEF FullInv
<1>2. ASSUME UNCHANGED <<registryVars, project, providers>>, verdict'.exit \in {"none", "0", "1"}
      PROVE  RegistryInv' /\ RunInv' /\ BoundsInv'
  <2>1. UNCHANGED <<file, plugins, command, begun, known, start>>
    BY <1>2 DEF registryVars
  <2>2. RegistryInv'
    BY <2>1, RegistryFrame DEF FullInv
  <2>3. RunInv'
    BY <2>1 DEF FullInv, RunInv, AllIdle, Scanned, Executable, StartedRunsHaveTheirModules, Intact
  <2>4. BoundsInv'
    BY <1>2, <2>1 DEF FullInv, BoundsInv
  <2>5. QED
    BY <2>2, <2>3, <2>4
<1>3. CASE UNCHANGED vars
  BY <1>1, <1>2, <1>3 DEF vars, FullInv, BoundsInv
<1>4. CASE ValidateCommand
  <2>1. UNCHANGED <<registryVars, project, providers>> /\ verdict'.exit \in {"none", "0", "1"}
    BY <1>4 DEF ValidateCommand
  <2>2. QED
    BY <1>1, <1>2, <2>1 DEF FullInv
<1>5. CASE RunCommand
  BY <1>1, <1>5, RunCommandStep DEF FullInv
<1>6. ASSUME NEW c \in Command, ModuleCommand(c)
      PROVE  RegistryInv' /\ RunInv' /\ BoundsInv'
  <2>1. Commands(c) /\ begun' <= project.commands /\ UNCHANGED <<project, verdict, providers>>
    BY <1>6 DEF ModuleCommand, Bounded
  <2>2. RegistryInv' /\ RunInv' /\ UNCHANGED start
    BY <2>1, CommandsStep, CommandsKeepRun, CommandsLeaveStart DEF FullInv
  <2>3. begun' \in 0..project.commands
    BY <2>1, CommandsCount DEF FullInv, BoundsInv
  <2>4. QED
    BY <2>1, <2>2, <2>3 DEF FullInv, BoundsInv
<1>7. ASSUME NEW c \in Command, NewProject(c)
      PROVE  RegistryInv' /\ RunInv' /\ BoundsInv'
  <2>1. InitCommand(c) /\ begun' <= project.commands /\ UNCHANGED providers
    BY <1>7 DEF NewProject, Bounded
  <2>2. RegistryInv' /\ RunInv' /\ UNCHANGED start
    BY <2>1, CommandsStep, CommandsKeepRun, CommandsLeaveStart DEF FullInv
  <2>3. begun' \in 0..project.commands
    BY <2>1, CommandsCount DEF FullInv, BoundsInv
  <2>4. project'.commands = project.commands /\ DOMAIN project'.config = {}
    BY <1>7 DEF NewProject, FullInv, IInv, ProjectInv
  <2>5. verdict'.exit = "none"
    BY <1>7 DEF NewProject
  <2>6. QED
    BY <2>1, <2>2, <2>3, <2>4, <2>5 DEF FullInv, BoundsInv
<1>8. QED
  BY <1>1, <1>3, <1>4, <1>5, <1>6, <1>7 DEF FullInv, Next

\* The invariant of the registry, of runs and of the bounds holds in every reachable state.
THEOREM Invariance == Spec => []FullInv
BY InitFull, FullStep, PTL DEF Spec

\* Every variable of Startup keeps its type, for any projects, repositories and registries.
THEOREM TypeCorrect == Spec => []TypeOK
<1>1. FullInv => TypeOK
  <2> SUFFICES ASSUME FullInv PROVE TypeOK
    OBVIOUS
  <2>1. ASSUME NEW c \in Command
        PROVE  /\ command[c].pc \in {"idle", "fetch", "install", "remove", "save", "write"}
               /\ command[c].pc \in {"save", "write"} =>
                    \A n \in DOMAIN command[c].changes :
                      command[c].changes[n] = Gone <=> n \notin DOMAIN command[c].modules
    <3>1. CommandInv(command[c], known, plugins)
      BY DEF FullInv, RegistryInv, CommandsInv
    <3>2. QED
      BY <3>1 DEF CommandInv, SavingInv, LoadingPC, SavingPC
  <2>2. QED
    BY <2>1 DEF TypeOK, FullInv, RegistryInv, FileInv, PluginsInv, BoundsInv
<1>2. QED
  BY Invariance, <1>1, PTL

\* Between commands, a registry that can be read has of every module what the commands
\* that were acknowledged leave of it, whatever was killed, refused or lost, but for modules
\* of which nothing is known: since their commands overlapped others, or a write ended early
\* or met another one.  For any number of commands and modules.
\* (discovery.go:245, :262, :279)
THEOREM UntouchedStay == Spec => []UntouchedModulesStay
<1>1. FullInv => UntouchedModulesStay
  BY DEF FullInv, RegistryInv, FileInv, Holds, UntouchedModulesStay
<1>2. QED
  BY Invariance, <1>1, PTL

\* A run that starts while no command is at work has its built-in modules and every
\* subprocess module that was added, acknowledged and not removed, as what was said of it
\* and as a whole executable where there is one, unless a later download broke that; for
\* any number of commands and modules.  (run.go:149-195, :237; subprocess.go:205)
THEOREM RunsHaveModules == Spec => []StartedRunsHaveTheirModules
<1>1. FullInv => StartedRunsHaveTheirModules
  BY DEF FullInv, RunInv
<1>2. QED
  BY Invariance, <1>1, PTL
=============================================================================
