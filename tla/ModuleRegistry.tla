--------------------------- MODULE ModuleRegistry ---------------------------
(***************************************************************************)
(* registry.yaml and the plugins directory: the commands shiro init, add,  *)
(* install and remove that change them, and the registration of modules    *)
(* when shiro run starts.  Commands are processes; several may be at work. *)
(*                                                                         *)
(* Atomicity: reading registry.yaml is one step; os.WriteFile is an open   *)
(* that truncates and a write, which may end early; a download ends whole, *)
(* in part or not at all.  A command that ends before it has changed       *)
(* anything is no step.                                                    *)
(***************************************************************************)
EXTENDS Integers, FiniteSets

Builtin == {"slack.notify", "git.diff", "print", "shell.exec", "gitlab", "github"}
Examples == {"slack", "git", "print", "ai"}  \* in the registry of a new project
Core == {"ai.generate", "data.store", "data.load", "data.delete", "data.exists"}

\* A Go map with one entry; a map and, under other keys, the entries of a second one.
One(n, v) == [m \in {n} |-> v]
Over(f, g) == [n \in DOMAIN f \cup DOMAIN g |-> IF n \in DOMAIN f THEN f[n] ELSE g[n]]

CONSTANTS
  Command,       \* processes that run the module commands
  Name,          \* names of modules
  Repo,          \* repositories on GitHub
  RepoOf,        \* repository -> [url, title, yaml]: the last part of its URL, its name
                 \* for the API, and its module.yaml [name, type, artifact] or NoYaml
  NoYaml,
  Place,         \* where the name of a module comes in the order of the YAML text
  PathPlugins,   \* modules with an executable shiro-<module> in PATH
  InitialFiles,  \* contents of registry.yaml to begin with
  InitialPlugins,  \* files that there may be in .shiro/plugins then, from modules removed since
  MaxLaunches    \* bound on the runs that are started

ASSUME RegistryConstants ==
  /\ \A r \in Repo : RepoOf[r].url \in Name /\ RepoOf[r].title \in Name
  /\ \A r \in Repo : RepoOf[r].yaml # NoYaml => RepoOf[r].yaml.name \in Name \cup {""}
  /\ Examples \cup PathPlugins \subseteq Name /\ MaxLaunches \in Nat
  /\ \A f \in InitialFiles :
       f.kind \in {"absent", "empty", "torn"} \/
       (/\ f.kind = "map"
        /\ \A n \in DOMAIN f.modules : f.modules[n].type = "subprocess" => f.modules[n].gorun)
  /\ \A p \in InitialPlugins : \A n \in DOMAIN p : n \in Name /\ p[n] \in {"fragment", "broken", "ready"}

VARIABLES
  file,     \* registry.yaml
  plugins,  \* the files in .shiro/plugins: module -> "fragment" (not executable), "broken", "ready"
  command,  \* per process: where its command is
  begun,    \* commands that were begun
  known,    \* history: what the commands acknowledged leave of each module
  start     \* the run that starts

registryVars == <<file, plugins, command, begun, known, start>>

\* os.ReadFile fails; a text without modules, for which the map stays nil; a text that is
\* not YAML, or not that of a registry.
Absent == [kind |-> "absent"]
Empty == [kind |-> "empty"]
Torn == [kind |-> "torn"]
Map(modules) == [kind |-> "map", modules |-> modules]

Gone == [type |-> "gone"]
Unsure == [type |-> "unsure"]  \* its commands overlapped others, or a write ended early
Idle == [pc |-> "idle"]
AllIdle == \A c \in Command : command[c].pc = "idle"
Modules == IF file.kind = "map" THEN file.modules ELSE << >>

RegistryInit ==
  /\ file \in InitialFiles
  /\ plugins \in InitialPlugins
  /\ command = [c \in Command |-> Idle]
  /\ begun = 0
  /\ known = [n \in Name |-> IF n \in DOMAIN Modules THEN Modules[n] ELSE Gone]
  /\ start = [pc |-> "none", launches |-> 0, since |-> 0, types |-> << >>, http |-> {}]

-----------------------------------------------------------------------------
(* The commands.                                                           *)

Begin(c, state) ==
  /\ command[c].pc = "idle"
  /\ begun' = begun + 1
  /\ command' = [d \in Command |->
       IF d = c THEN state
       ELSE IF command[d].pc # "idle" THEN [command[d] EXCEPT !.alone = FALSE] ELSE Idle]

\* LoadRegistry; what it has read is the process's own from here on.
LoadRegistry(c, pc, repo) ==
  /\ file.kind \notin {"absent", "torn"}
  /\ Begin(c, [pc |-> pc, repo |-> repo, loaded |-> file, alone |-> AllIdle])

\* A command that is ready to save, and what it makes of the modules it is about.
Save(modules, changes, alone) ==
  [pc |-> "save", modules |-> modules, changes |-> changes, alone |-> alone]

\* Mutant: the module is not put into what is saved.
BugForgetModule(c, was, name, config) ==
  IF was[c].loaded.kind = "empty" \/ name \in DOMAIN was[c].loaded.modules
  THEN [was EXCEPT ![c] = Idle]
  ELSE [was EXCEPT ![c] = Save(was[c].loaded.modules, One(name, config), was[c].alone)]

\* Mutant: the module replaces what was loaded.
BugAddModule(c, was, name, config) ==
  IF was[c].loaded.kind = "empty" THEN [was EXCEPT ![c] = Idle]
  ELSE [was EXCEPT ![c] = Save(One(name, config), One(name, config), was[c].alone)]

\* AddModule refuses a module that is there, and panics when the map is nil.
AddModule(c, was, name, config) ==
  IF was[c].loaded.kind = "empty" \/ name \in DOMAIN was[c].loaded.modules
  THEN [was EXCEPT ![c] = Idle]
  ELSE [was EXCEPT ![c] =
         Save(Over(One(name, config), was[c].loaded.modules), One(name, config), was[c].alone)]

Config(type, gorun) == [type |-> type, gorun |-> gorun, endpoints |-> FALSE]

\* shiro init, its last file: whatever there is already is not looked at.
InitCommand(c) ==
  LET examples == [n \in Examples |-> Config("builtin", FALSE)] IN
  /\ Begin(c, Save(examples, Over(examples, [n \in Name |-> Gone]), AllIdle))
  /\ UNCHANGED <<file, plugins, known, start>>

\* addModule up to the fetch of module.yaml: the repository is found.
BeginAdd(c, r) ==
  /\ LoadRegistry(c, "fetch", r)
  /\ UNCHANGED <<file, plugins, known, start>>

\* A module.yaml without a name leaves the one that was in the URL.
ModuleName(r) == IF r.yaml.name # "" THEN r.yaml.name ELSE r.url

\* The repository has an artifact to download.
Downloads(r) == r.yaml # NoYaml /\ r.yaml.type = "subprocess" /\ r.yaml.artifact

\* What an interrupted download leaves: curl writes in place, and a file keeps its mode.
Partial(n) ==
  Over(One(n, IF n \in DOMAIN plugins /\ plugins[n] # "fragment" THEN "broken" ELSE "fragment"),
       plugins)

\* The download, and the fallback to `go run' when it fails.  Only then does AddModule
\* see whether the module is there already.
DownloadSubprocessModule(c, name) ==
  \/ /\ plugins' = Over(One(name, "ready"), plugins)
     /\ command' = AddModule(c, command, name, Config("subprocess", FALSE))
  \/ /\ plugins' \in {plugins, Partial(name)}
     /\ command' = AddModule(c, command, name, Config("subprocess", TRUE))

\* addModule from the fetch of module.yaml, which may fail, to AddModule.
Add(c) ==
  LET r == RepoOf[command[c].repo] IN
  /\ command[c].pc = "fetch"
  /\ UNCHANGED <<file, begun, known, start>>
  /\ \/ /\ UNCHANGED plugins
        /\ command' = AddModule(c, command, r.url, Config("http", FALSE))
     \/ /\ r.yaml # NoYaml /\ r.yaml.type # "subprocess"
        /\ UNCHANGED plugins
        /\ command' = AddModule(c, command, ModuleName(r), Config("http", FALSE))
     \/ /\ Downloads(r)
        /\ DownloadSubprocessModule(c, ModuleName(r))
     \/ /\ r.yaml # NoYaml /\ r.yaml.type = "subprocess" /\ ~ r.yaml.artifact
        /\ UNCHANGED plugins
        /\ command' = AddModule(c, command, ModuleName(r), Config("subprocess", TRUE))

\* installModule: an HTTP module, whatever the repository's module.yaml says.
Install(c, r) ==
  /\ LoadRegistry(c, "install", r)
  /\ UNCHANGED <<file, plugins, known, start>>

Installed(c) ==
  /\ command[c].pc = "install"
  /\ command' = AddModule(c, command, RepoOf[command[c].repo].title, Config("http", FALSE))
  /\ UNCHANGED <<file, plugins, begun, known, start>>

\* removeModule, given the module or the words `module' and the module: it takes the first.
Remove(c, n, word) ==
  LET name == IF word THEN "module" ELSE n IN
  /\ file.kind = "map" /\ name \in DOMAIN file.modules
  /\ LoadRegistry(c, "remove", name)
  /\ UNCHANGED <<file, plugins, known, start>>

\* RemoveModule leaves the plugin where it is.
RemoveModule(c) ==
  LET s == command[c] IN
  /\ s.pc = "remove"
  /\ command' = [command EXCEPT ![c] =
       Save([n \in DOMAIN s.loaded.modules \ {s.repo} |-> s.loaded.modules[n]],
            One(s.repo, Gone), s.alone)]
  /\ UNCHANGED <<file, plugins, begun, known, start>>

\* saveRegistry: the open of os.WriteFile, which may fail.
Open(c) ==
  /\ command[c].pc = "save"
  /\ \/ file' = Empty /\ command' = [command EXCEPT ![c].pc = "write"]
     \/ UNCHANGED file /\ command' = [command EXCEPT ![c] = Idle]
  /\ UNCHANGED <<plugins, begun, known, start>>

\* An entry in a text that ends early: its fields up to some place, of which `type' comes
\* before `endpoints' and `gorun_repo'.
CutEntry(e) ==
  {e, [e EXCEPT !.gorun = FALSE], [e EXCEPT !.gorun = FALSE, !.endpoints = FALSE],
   [type |-> "cut", gorun |-> FALSE, endpoints |-> FALSE]}

\* Where two texts meet, the first one's entry may have fields of the second one's.
JoinedEntry(e, f) ==
  [type : {e.type, "cut"}, gorun : {FALSE, e.gorun, f.gorun},
   endpoints : {FALSE, e.endpoints, f.endpoints}]

UpTo(modules, n, entry) ==
  [m \in {k \in DOMAIN modules : Place[k] <= Place[n]} |-> IF m = n THEN entry ELSE modules[m]]
After(modules, n) == [m \in {k \in DOMAIN modules : Place[k] > Place[n]} |-> modules[m]]

\* The first part of the text, which often is YAML.
EndsEarly(modules) ==
  \/ file' \in {Empty, Torn}
  \/ \E n \in DOMAIN modules : \E e \in CutEntry(modules[n]) : file' = Map(UpTo(modules, n, e))

\* The text, or its first part, over that of another writer, of which the rest remains: a
\* module that both have makes it no YAML.
Joins(modules) ==
  \/ file' = Torn
  \/ \E n \in DOMAIN modules, m \in DOMAIN Modules : \E e \in JoinedEntry(modules[n], Modules[m]) :
       LET rest == After(Modules, m)
           kept == UpTo(modules, n, e) IN
       /\ DOMAIN rest \cap DOMAIN kept = {}
       /\ file' = Map(Over(rest, kept))

\* Its write.  Nothing is known any more of any module when it ends early or another writer
\* has been at the file.
saveRegistry(c) ==
  LET s == command[c] IN
  /\ s.pc = "write"
  /\ command' = [command EXCEPT ![c] = Idle]
  /\ \/ /\ file' = Map(s.modules)
        /\ known' = Over([n \in DOMAIN s.changes |-> IF s.alone THEN s.changes[n] ELSE Unsure],
                         known)
     \/ /\ EndsEarly(s.modules) \/ (file # Empty /\ Joins(s.modules))
        /\ known' = [n \in DOMAIN known |-> Unsure]
     \/ UNCHANGED <<file, known>>
  /\ UNCHANGED <<plugins, begun, start>>

\* A command is killed, in the middle of a download perhaps.
Kill(c) ==
  /\ command[c].pc # "idle"
  /\ command' = [command EXCEPT ![c] = Idle]
  /\ plugins' \in {plugins} \cup
       (IF command[c].pc = "fetch" /\ Downloads(RepoOf[command[c].repo])
        THEN {Partial(ModuleName(RepoOf[command[c].repo]))} ELSE {})
  /\ UNCHANGED <<file, begun, known, start>>

-----------------------------------------------------------------------------
(* The start of shiro run.                                                 *)

\* The HTTP modules, which have a map of their own, and the built-in modules.  A registry
\* that cannot be read is no reason to stop.
Launch ==
  /\ start.pc \notin {"scan", "goRun"}
  /\ start.launches < MaxLaunches
  /\ start' = [pc |-> "scan", launches |-> start.launches + 1,
               since |-> IF AllIdle THEN begun ELSE -1,
               types |-> [b \in Builtin |-> "builtin"],
               http |-> {n \in DOMAIN Modules : Modules[n].type = "http" /\ Modules[n].endpoints}]
  /\ UNCHANGED <<file, plugins, command, begun, known>>

\* Mutant: a file counts before it is executable.
BugExecutable == DOMAIN plugins

Executable == {n \in DOMAIN plugins : plugins[n] # "fragment"}

\* Who comes first under a name keeps it: built-in modules, .shiro/plugins, PATH.
DiscoverSubprocessModules ==
  /\ start.pc = "scan"
  /\ start' = [start EXCEPT !.pc = "goRun",
                 !.types = Over(Over(@, [n \in Executable |-> "plugin"]),
                                [n \in PathPlugins |-> "path"])]
  /\ UNCHANGED <<file, plugins, command, begun, known>>

\* The registry is read a second time.
GoRunModules == {n \in DOMAIN Modules : Modules[n].type = "subprocess" /\ Modules[n].gorun}

First(goRun) == Over(start.types, [n \in goRun |-> "goRun"])

\* registerGoRunModules; then ai.generate and the data modules, for which a name that is
\* taken is the end of the process.
RegisterRest ==
  /\ start.pc = "goRun"
  /\ start' = IF Core \cap DOMAIN First(GoRunModules) # {} THEN [start EXCEPT !.pc = "fatal"]
              ELSE [start EXCEPT !.pc = "up",
                                 !.types = Over(First(GoRunModules), [n \in Core |-> "core"])]
  /\ UNCHANGED <<file, plugins, command, begun, known>>

Commands(c) ==
  \/ Add(c) \/ Installed(c) \/ RemoveModule(c)
  \/ Open(c) \/ saveRegistry(c) \/ Kill(c)
  \/ \E r \in Repo : BeginAdd(c, r) \/ Install(c, r)
  \/ \E n \in Name, word \in BOOLEAN : Remove(c, n, word)

-----------------------------------------------------------------------------
(* Properties.                                                             *)

\* Between commands a registry that can be read has of every module what the commands that
\* were acknowledged leave of it: whatever was killed or refused meanwhile, whatever
\* updates of other modules were lost, and whatever those made of the registry before.
\* Excluded are modules whose commands overlapped others, and, until a command on it is
\* acknowledged again, every module once a write ended early or met another one.
\* (discovery.go:245, :262, :279)
UntouchedModulesStay ==
  (AllIdle /\ file.kind = "map") =>
    \A n \in Name : known[n] # Unsure =>
      IF n \in DOMAIN file.modules THEN known[n] = file.modules[n] ELSE known[n] = Gone

\* The download of n that comes last has not been cut short over an executable.
Intact(n) == n \in DOMAIN plugins => plugins[n] # "broken"

\* A run that starts while no command is at work has its built-in modules, its data and AI
\* modules, and every subprocess module that was added, acknowledged and not removed: its
\* whole executable when it was downloaded, and the source when that is what the command
\* said, unless a whole executable has the name.  Excluded is a module whose executable an
\* interrupted download has broken.  (run.go:149-195, :237; subprocess.go:205)
StartedRunsHaveTheirModules ==
  (start.pc = "up" /\ start.since = begun /\ file.kind = "map") =>
    /\ \A b \in Builtin : start.types[b] = "builtin"
    /\ \A n \in Core : start.types[n] = "core"
    /\ \A n \in Name \ Builtin : (known[n].type = "subprocess" /\ Intact(n)) =>
         /\ n \in DOMAIN start.types
         /\ ~ known[n].gorun => start.types[n] = "plugin" /\ plugins[n] = "ready"
         /\ known[n].gorun =>
              start.types[n] = IF n \in DOMAIN plugins /\ plugins[n] = "ready" THEN "plugin"
                               ELSE IF n \in PathPlugins THEN "path" ELSE "goRun"
=============================================================================
