# Shiro in TLA+

A verification development for `shiro`, the workflow runner of this repository: a
command-line program that runs the steps of a JSON workflow in dependency order,
pauses at approval steps, saves its state to a file and is started again by a manual
CI job that resumes from it.

## 1. Inventory

| Component | Source | State | Operations | Hard because |
|---|---|---|---|---|
| workflow executor | `internal/runtime/executor.go` | `execCtx` (results per step), the order, the position in it | Execute: load, skip, check, run, save, pause | crash between steps, stale or damaged state, several jobs on one file, random order |
| step execution, retry | same, `executeStep`, `executeWithRetry` | attempt, delay, deadline | run, wait, give up | timer against deadline, overflow of durations |
| dependency graph | `internal/runtime/dag.go` | in-degrees, queue, result | topologicalSort | duplicates, cycles, random map order |
| workflow file | `internal/workflow/workflow.go` | none (parsed once) | LoadWorkflow, Validate | second cycle detector that has to agree with the first |
| variable resolution | `internal/workflow/variables.go` | none | Resolve | references to steps that have not run, or did not keep their output |
| run command | `internal/cli/run.go` | flags | RunCommand | -fresh, second save, exit code |
| state stores | `internal/state/*.go` | one JSON file per workflow (and pipeline) | Save, Load, Delete, Exists | not atomic, errors swallowed by the callers |
| data module, data commands | `pkg/data/data.go`, `internal/cli/data.go` | files in the same store, or a map that dies with the process | store, load, delete, exists; set, get, delete, list | names joined with dashes, expiry read after the file, writes that overlap or are killed |
| GitLab, GitHub modules | `internal/gitlab`, `internal/github` | none of their own; comments on the server | post comments with deduplication, read | half of the comments posted, answers lost, retries and later pipelines |
| module registry, plugins | `internal/modules/{module,discovery,subprocess}.go`, `internal/cli/{module,registry,init}.go` | `registry.yaml`, files in `.shiro/plugins`, the map of registered modules | init, add, install, remove; registration when a run starts | whole-file updates, interrupted downloads, order of registration |
| AI providers | `internal/ai`, `pkg/ai`, `internal/cli/validate.go` | the providers that could be made | validate, register, choose, Generate | two resolutions of the default provider |
| CI checker | `internal/cicheck` | none | Check for GitLab and GitHub | rules that have to add up |
| HTTP module client | `internal/modules/http_client.go` | rotation index, health, circuits, timers | Execute, Metadata, Health | endpoint chosen under a lock and used after it, timers |
| the rest | `internal/config`, `internal/errors`, `internal/cli/dryrun.go`, `pkg/{git,shell,slack,print}`, `quickstart`, marketplace | none | text, one command or request each | pure I/O |

Components meet in three places. *Calls*: RunCommand builds the registry and the store,
calls Execute, which calls `Module.Run` for every step. *Shared files*: the jobs of a
pipeline share the state file and the files of the data steps; `shiro module` and `shiro
init` commands share `registry.yaml` and the plugins, which a run reads when it starts; the
jobs of a merge request share its comments, on the server. *Memory shared by goroutines*:
only the load-balanced client, the discoverer and the registry have locks.

What makes each component correct:

- executor: dependencies first; nothing behind a pause step without an approval; what is
  saved is not done twice; exit code 0 means complete or paused, and saved; progress;
- retry: waits grow as configured, one timeout covers everything, outcomes are true;
- graph: the order is complete and respects dependencies; both cycle detectors agree;
- HTTP client: failover, circuits that close again, recovery;
- data: an answer is that of the last acknowledged operation on the address; nothing
  outlives its time to live;
- comments: none is lost behind a success, none is posted again by a retry; a step ends
  when it has a timeout or its server answers;
- registry: no update harms another module, and damage does not spread; a run has the
  modules that were added;
- validation: what it says of AI steps and of pipelines is true of the run (of AI steps it
  is, but for a skipped `default`; of pipelines it is not, finding 3).

`PROJECT.json` lists every hazard at its line, with the property that covers it.

## 2. Modules

| Module | Models | Remarks |
|---|---|---|
| `DepGraph` | graphs, closure, ancestors, topological and Kahn orders | no state; used by `Executor` and `Dag` |
| `Executor` | RunCommand, Execute and the file-backed store, any number of processes | one action per system call on the state file and per module execution |
| `WorkflowLedger` | abstract specification: a ledger of completed steps | what README.md lines 76-83 describe |
| `ExecutorLedger` | refinement mapping from `Executor` to `WorkflowLedger` | `done` is what complete saves have recorded, `waiting` a saved pause step of the last job |
| `Dag` | topologicalSort | one action per step taken off the queue |
| `ValidateCycles` | validateNoCycles, and the sort after it | the recursive visit with its stack; EXTENDS `Dag` |
| `Retry` | executeStep's timeout and executeWithRetry | time in ticks, durations as two's complement numbers |
| `LoadBalancer` | LoadBalancedClient | one action per critical section of its mutex |
| `DataStore` | data steps and data commands over the three stores | one action per system call; the clock ticks in between |
| `ReviewComments` | the gitlab and github modules, with the executor's retries | one action per request; server, network and people are external |
| `ModuleRegistry` | init, add, install, remove on `registry.yaml` and the plugins; registration | one action per system call; used by `Startup` |
| `Validation` | AI configuration, providers, rules for pipelines | pure operators; used by `Startup` |
| `Startup` | composition: validate, run and module commands of one project | |
| `ExecutorProofs`, `LedgerProofs`, `DagProofs`, `RetryProofs`, `LoadBalancerProofs`, `DataStoreProofs`, `ReviewProofs`, `StartupProofs` | theorems | one module of proofs per module, two for `Executor`; `DagProofs` is also about `ValidateCycles`, `StartupProofs` about `ModuleRegistry` |
| `MC...` | small instances for TLC | |

### Executor

A process is at one of the `pc` values

    idle -> (fresh -> remove ->) exists -> load -> graph -> loop
    loop -> save -> write -> loop | finalSave
    loop -> finalSave -> finalWrite -> done          (failed, crashed from anywhere)

`fresh`/`remove` are run.go:202-212, `exists`/`load` executor.go:56-65, `graph`
executor.go:71-74, `loop` the body of the loop, `save`/`write` the two system calls of
the save after a step, `finalSave`/`finalWrite` those of run.go:221. `ctx[r]` is
`execCtx.Steps`: per step `"none"`, `"output"`, or `"note"` for a step with
`save_output: false`. `store` is the state file: absent, empty (truncated), torn (not
JSON) or intact with the context it holds. The file system is modelled as far as
`os.WriteFile` shows: open with O_TRUNC, then a write at offset 0 of whatever the file
holds by then (another writer's document may be longer: torn), into a removed file when
somebody else has removed it (`unlinked`).

`BuildGraph` chooses any order of `KahnOrders`; `Dag` shows that topologicalSort returns no
other (`ReturnedOrderIsKahn`, for every graph by `DagProofs`). The success of a module is a
choice: `StepFails` is enabled for every step that is not done.

`loaded`, `ran`, `durable`, `passes` and `latest` are history variables.

The memory store is not modelled: its state dies with the process, so nothing resumes
from it.

### Dag and ValidateCycles

`Dag` has the state of topologicalSort as it is (`inDegree`, `queue`, `result`); a step
that is taken releases its dependents in any order. `ValidateCycles` adds the search: its
two maps `visiting` and `visited`, the calls of the recursive `visit` in progress
(`stack`), how far each has come in its list (`passed`), and the steps the loop over the
map has not come to (`roots`). `Visit(n)` is a call up to its loop, `VisitDependency` an
iteration of the loop in it, `Return` its end, `VisitRoot` an iteration of the outer loop.
A cycle leaves everything as it is, since `true` is handed through all calls. In the
program the sort runs only when the search has found nothing; in `BothSpec` it runs
either way, or there would be nothing to compare.

### Retry

`Attempt` lets `module.Run` take 0..MaxRunTime ticks; it may overrun the deadline,
because nothing looks at the context before. When timer and deadline are due at the
same time both `TimerFires` and `ContextDone` are enabled, as in a Go select. The
growth of the delay is the conversion of a float to int64: out of range it is the
smallest number on amd64 and saturates on arm64, and `Converted` allows both. The
backoff factor is counted in halves. A `retry` object is a function from JSON keys to
numbers, so that a misspelt key is what it is in the code: nothing.

### LoadBalancer

`call[c].pc` is `pick` (getNextEndpoint), `request` (without the lock), `praise`
(markHealthy), `blame` (markUnhealthy), `open` (openCircuit). Execute and Metadata have
the same control; Health leaves out the circuit. A timer is armed, expired (its callback
runs but has no lock yet) or over; Stop cannot stop an expired one, which then counts as
`stale`. Nothing on the command-line path creates a LoadBalancedClient
(run.go:139 mentions it only), so this module is about the library code.

### DataStore

A name is the sequence of its parts between dashes, so that joining names is
concatenation and `buildKey`'s ambiguities are there: two that read the same share a file.
`Place` is where a job's key is kept. `Address` is what it is asked for by: the store and
the text that namespace, pipeline and key read as, one after the other; where one of them
ends is not part of it. `files` holds what is stored, `known` (history) what the
acknowledged operations have left at each address: a value, nothing, or `Unsure` when
operations on the address overlapped, failed or were killed. `call[j].pc` is `write`
between the truncation of os.WriteFile and its write, and `judge` between the reading of a
file and the check of its expiry. Every system call on a directory may fail: `Load` takes
that for a missing key (`failed` in the answer), `Delete` reports `success: false`,
`Exists` an error. `Given(late, ...)` is `flag.Parse`: options after the key are not seen.

### ReviewComments

`mr` is the sequence of comments on the merge request. A step runs (`run`: everything up
to the list of what is there, with `existing` the page that was read), posts (`post`),
and ends (`done`, `failed`); an attempt that fails starts again from nothing, up to
`MaxAttempts`. GitLab takes one request per comment, GitHub one per review. A request
is answered, refused, or carried out without an answer. A comment's strings are kept
as far as `strings.Contains` tells them apart (`Inside`). Neither client has a timeout
(gitlab.go:40, github.go:32): once the server is `silent` a request waits, and only the
deadline of a step with a `timeout` (executor.go:157; `late` in the model) cuts it off,
with every attempt after it. What GitHub's loop filters is
`Chosen`, the entries at certain positions in their order; `Own` counts positions.

### ModuleRegistry, Validation, Startup

`file` is `registry.yaml`: absent, empty (truncated: a map that stays nil), torn (no YAML),
or a map. The text has the modules one after the other, in the order of their names
(`Place`), so that a write which ends early often leaves a registry that can be read: with
the first modules only, the last of them short of its last fields (`EndsEarly`, `CutEntry`).
A text over another writer's leaves that one's rest behind it (`Joins`, `JoinedEntry`). A
command is `fetch` (adding), `install`, `remove`, `save` or `write`; what it loaded is its
own, and `known` (history) is what acknowledged commands leave of each module, or `Unsure`:
a module when commands on it overlapped, all modules when a write ended early or met another
one. An acknowledged command makes its own modules known again. `plugins` are the files in
`.shiro/plugins`: an interrupted download leaves a `fragment` that is not executable or,
over one that was, a `broken` executable. A `module.yaml` without a name keeps the one from
the URL (`ModuleName`). `start` follows run.go:104-178: HTTP modules and built-in modules
(`scan`), plugins and PATH (`goRun`), modules from source, AI and data modules (`up`, or
`fatal` when a core name is taken). `Validation` has no state: the AI checks of validate.go,
`registerAIProviders` and AIModule.Run's choice, and the parsers and rules of cicheck.
`Startup` puts the commands `validate`, `run`, `init` and the module commands into one
behaviour; `init` replaces the workflow and the models.

## 3. Runs

| Run | Instance | Shows |
|---|---|---|
| `executor_sequential` | 3 jobs, one after the other, 3 workflows of 3 steps, -fresh or not, one crash or refused save | the refinement of the ledger, no repetition of saved steps, exit 0 means saved, resumes make progress |
| `executor_concurrent` | 2 overlapping processes, 6 workflows, one edit between launches, one fault of any kind | dependencies first, approval gate, references, exit code, closure of what is saved |
| `dag` | all graphs of 3 steps with lists of up to 2 entries (duplicates, self-references) plus a step behind them, all acyclic graphs of 4 steps up to renaming | the search's marks, the sort, its verdict, its agreement with the search, that both return |
| `retry` | 12 retry objects, timeouts 0, 3 and 8 s of 2 ticks, durations of 6 bits | backoff, deadline, outcomes, termination |
| `load_balancer` | 2 callers, 2 endpoints (or 1), 2 attempts, one flaky endpoint, one cancelled context | failover, timers of open circuits, recovery |
| `data_store` | a run and a command, of one pipeline or the command of none, 2 keys and 2 namespaces some of which collide, 4 store types, 3 operations, 4 instants of half a second | answers are current, nothing outlives its time to live |
| `review_comments` | 2 jobs, 2 batches of up to 3 comments, 17 settings, 2 attempts, 2 faults, a server that may fall silent, 1 comment of somebody else | successes account for all comments, retries repeat none, steps end |
| `startup` | 2 commands at once with the start of a run, or 3 one after the other; 3 repositories, registries and plugins to begin with; 86 model configurations | the registry, registration, AI steps |
| `executor_torn_state` | violation | a job killed in `os.WriteFile` loses completed steps without a word |
| `executor_final_save` | violation | the second save can destroy the state and still end with exit 0 |
| `pipeline_check` | violation; pipelines of 2 jobs | `-ci` accepts resume jobs that cannot continue the run that paused |
| `review_discussions` | violation | comments of the discussions API are not recognised and are posted again |

**Bounds.** Three steps are enough for a step with a direct and an indirect
dependency, a fork, a join and two pauses in a row; three jobs for first run, failed
resume and second resume; two processes for every pairwise interleaving on the file (a
third adds nothing to what a reader can find in it: the file holds one document, or
rubbish, of one writer). `MaxFaults = 1` per behaviour keeps faults from hiding each
other's effects; `MaxEdits = 1` is one change of the workflow, of six kinds, between
any two steps of the processes. In `Retry` six bits leave room for waits that
grow twice below the cap (1, 2, 4, then 6; 2, 3, 4, then 6 with a factor of 1.5) and
for products that exceed the cap or overflow; a timeout of 3 s ends in the middle of such
waits, one of 8 s after some of them. In `LoadBalancer` two attempts with two endpoints
make `FailoverFindsLive` as tight as three attempts with three. `MaxStale` holds a timer
back while a replaced one's callback waits.

`DataStore`: `MaxOps = 3` is a store, a disturbance (another store, a delete, a killed
job) and a question; `Second = 2` makes an instant between two seconds, `MaxTime = 3`
lets a value of one tick expire in the middle of a second and after it. When the command
is of no pipeline, its key `7-k` and the run's `default` / `k` of pipeline 7 read the same.
`ReviewComments`: `PageSize = 3` is less than two batches and a stranger's comment, so
that merge requests outgrow the page; two attempts and two launches are a retry within
a step and one by a later pipeline; two faults are a lost answer followed by another
failure; a server that has fallen silent stays so, which is the worst it can do to a step.
`Startup`: each project has its own bound on commands: 2, that may overlap each other and
the start of a run; 3, where no two are at work at once, so that the second works on what a
cut one has left and the third on what that made of it; and none where models are
examined, which would only multiply. The registry to begin with has an entry with each of
the two fields that can be cut off, and the plugins may have one of a module removed since.
The two commands are interchangeable, and no property tells them apart (`SYMMETRY`, with
no liveness checked).

**What the sequential run leaves out, and why.** Its properties do not hold when a fault
tears the file or hides it: that is what the two violation runs of the executor show.
They do not hold for overlapping processes either; nothing in the program or its
documents promises that two processes may run on one state file.

**Fairness.** `Executor` needs none: its properties are safety. That a resume makes progress
is said by counting (`ResumesAreBounded`). `Retry` and `Dag`: weak fairness of the
sequential code. `LoadBalancer`: goroutines are scheduled, requests end (this client has a
timeout, http_client.go:23), timers expire and their callbacks get the lock; calls are not
forced and endpoints need not come back. `ReviewComments`: weak fairness of each job's
handler, `Handle(j)`: its process runs, and a request that is answered or refused returns.
The clients have no timeout, so a request to a silent server enables nothing, unless the
step has a deadline; `StepsEnd` is stated for steps that have a timeout or a server that
does not fall silent. Faults, silence, launches and other people's comments are not forced.
`CHECK_DEADLOCK FALSE` is set for `Dag` and `Retry`, functions that return once, and for
`DataStore`, `ReviewComments` and `Startup`, whose commands may all be over; the executor
has `AllEnded`, the state in which every process has ended, and everything else must be able
to move.

## 4. Proofs

`ExecutorProofs` proves, for every set of steps, processes and workflows, any bound on
faults, edits and overlap, and both values of -fresh: type correctness,
`DependenciesComeFirst`, `ApprovalGate`, `ExitZeroMeansCompleteOrPaused`,
`SavedStateIsClosed` and `ReferencesResolve`. Assumptions: `StepAssumption` (finitely
many steps), `WorkflowsAssumption` (workflows are records of that shape),
`NoRunAssumption` and `BoundsAssumption`.

None of these is inductive. The invariant `IInv` has three parts:

- `TypeOK`;
- `ProcInv(r)`, what is known of one process at each `pc`, whatever the others and the
  file do: `ctx = loaded` and `ran` together (`DoneInv`); in the loop the order is a Kahn
  order and everything behind `idx` is done (`LoopInv`); a process that goes on has not
  run a pause step unless it is saving it (`PauseInv`). From `LoopInv` follow
  `DependenciesComeFirst` and, with `AncestorsStandBefore` (in a topological order all
  ancestors stand before a step), that ancestors of the current step are done; by
  `DoneInv` each was loaded or has been run, and by `PauseInv` a pause step among them
  was not run: that is `ApprovalGate`;
- `UneditedInv`: without an edit every context and every readable file is `Faithful`,
  closed under `depends_on`, and holds a note only for a step that does not save its
  output. `SavedStateIsClosed` and `ReferencesResolve` follow.

The other processes cannot touch `ProcInv(r)` (`FrameProc`); what a reader takes over
from the file is any context at all, which is why the gate holds however old or
foreign the state is.

`LedgerProofs` proves, of jobs that run one after the other on a file nobody edits
(`Sequential`: `MaxActive` is 1, `MaxEdits` is 0, and the faults are crashes and refused
writes), that `Executor` implements `WorkflowLedger`, and with it `ResumesAreBounded`,
`SavedStepsNeverRunAgain` and `ExitZeroMeansSaved`, for any number of steps, jobs and
faults. With the excluded ones (a crash between open and write, a write cut short, a failing
read) they fail: finding 1. The invariant
`SInv` adds to `IInv`: only the job launched last can be under way (`AloneInv`); the file
says what is durable except while a job stands between the truncating open and the write
(`FileInv`); a context is what is durable, plus the step
that is about to be saved (`JobInv`); and as long as the workflow is incomplete, every job
that ended with exit code 0 has recorded a pause step of its own (`CountInv`). In the
mapping, the write after a step is the ledger's `Enter`, the deletion by `-fresh` its
`Reset`, the launch of a job its `Approve`; every other step is a stutter.

`DagProofs` proves all safety properties of `Dag` for every finite set of steps and every
`depends_on` lists. The invariant looks at `Order`, the result followed by the queue, to
which a step only adds at the end: the dependencies of whatever stands there have been
taken, and before it (`DependenciesTaken`); of two steps the one whose last dependency was
taken first stands first (`ReleasedInOrder`, the queue is first-in first-out); a set of
steps that wait for each other never gets there (`KnotsStay`). An order that is complete
is therefore a Kahn order of an acyclic graph, and what an incomplete one leaves is a set
of steps that wait for each other. `CountSplits` is the arithmetic of the in-degrees.

It also proves of the search, for any graph and any order of the maps, that its marks are
the calls in progress and these a path of the graph (`VisitingIsThePath`), and that its
answer is the sort's (`ValidateAgreesWithSort`). The invariant `SearchInv` adds: what a
call has passed in its list has been visited (`PassedAreVisited`); from a visited step no
unvisited one and no steps that wait for each other are reached (`VisitedAreSettled`), to
which a returning call adds a step whose dependencies are all visited (`SettledGrows`);
no step is forgotten (`StepsKept`). A mark that is met closes a cycle, the part of the
path from the marked step on (`MarksCloseCycles`). Both answers are then compared through
`Acyclic`: no set of steps waits on itself.

`RetryProofs` proves all safety properties of `Retry` for every retry object, timeout and
width of durations (`RetryConstants`, `RetryFilesAssumption`: the values of the keys are
numbers). `RegularGrowth` says that in a regular configuration no delay can overflow: the
product is monotone, so the two that `Regular` looks at bound all. With it the invariant
ties the delay at hand to the last wait of the log (`DelayInv`) and keeps every start
before the deadline (`DeadlineInv`). `TypeOK`, `OutcomeIsRight` and the half of
`WaitsBackOff` that says that no wait after the first exceeds the cap need no regularity.

`LoadBalancerProofs` proves all safety properties of `LoadBalancer` for any endpoints,
callers and number of attempts. Failover needs a record of a call's failures
(`Record(c, F)`): as long as some endpoint is steady, each failed attempt of the call has
cost an endpoint of its own, none of them is back in rotation, and the next pick, which
finds one in rotation (`PickFinds`), is another. After as many failures as there are
endpoints nothing is left to be steady. No step of another caller or of a timer can
disturb this without ending what is steady (`OthersKeep`).

`DataStoreProofs` proves `NothingOutlivesItsTTL` for any jobs, stores, names, values, times
to live and length of a second (`DataConstants`). A single answer says nothing of what
the next load will find, so the invariant is about contents: whatever is in a file, on
its way into a file or read from one expires no later than it is due (`Timely`,
`FilesInv`, `CallsInv`), and a value without a time to live is due never, which the bounded
clock does not reach (`ClockInv`). A second that begins no later than the moment
(`FloorIsEarlier`) makes new contents timely; a torn or truncated file is never handed
out; the marks that overlapping operations leave in each other's calls leave the
contents alone (`MarkedCallInv`).

It also proves `AnswersAreCurrent`, for any names, whether they collide or not. What ties
addresses to files is `OnePlace`: `buildKey` and the stores join the names that the address
reads as, no fewer and in this order, so that two addresses share a file only if they are one. That users
may take what reads the same for two is in section 5. No map of contents is inductive by itself,
since writers overlap: the invariant says that where the last operation was acknowledged
and overlapped no other, its content is in its place and nobody writes there (`Kept`);
that nothing is known of a place that is being written, where a writer who is alone
finds the file as it truncated it (`Pending`); and that an envelope which was read and
not yet judged is the one that was known (`Judging`).

`TypeOK` needs the first of these invariants, for the content that a write brings, and
what `TypeInv` adds: a write under way is into a directory (`Placed`), and only the memory
store of a run, never a command's, holds anything between two operations (`PlacesInv`).

`ReviewProofs` proves all safety properties of `ReviewComments` for any jobs, settings,
batches, strangers, numbers of attempts, faults and launches and any size of a page.
Assumptions (`ReviewConstants`): a string contains itself, as far as the strings of the
batches go; what the platform can attach to a diff has a file; "stranger" is no job. One
inductive invariant serves the three. `AttemptInv` says where an attempt is: it begins
with nothing, and its loop is over what it has parsed. `AccountInv` is
`SuccessAccountsForAll` for the part of the loop that is behind an attempt: `posted` and
`skipped` add up to it, the job has `posted` entries more than `before`, and each comment
has been posted by this job or was a duplicate when the attempt began. An entry stays
where it is (the list only grows), so no other job, fault or stranger takes this away.

For `RetriesDoNotRepeat` the counts of entries that look alike (`Ours`) are compared
with the counts in a batch (`Among`). `FreshInv`: while an attempt posts, a comment that it did
not find when it began is there as often as the attempt has come by it, so that one more
is still within the batch. It holds at the start because everything the jobs have
written is on the page and recognised (`EntriesInv`: the body, or the path, shows file,
line and text): what was not found is not there. It is kept since a job that posts is
alone (`OverlapInv`); it says nothing once two jobs have overlapped or the page is full,
and this cannot be undone.

`StartupProofs` proves `AcceptedStepsGetTheirProvider` for any projects and
configurations with finitely many models (`ProjectsAssumption`), whatever the module
commands do. `DefaultsAgree` is the core: of two sets of models, one a part of the other,
the default of the larger one is the default of the smaller one if it is in it. The
invariant says that a verdict is about the project as it is now, that a run which
started got past Validate, and that its providers come from the models that are there
now, unless `shiro init` has replaced the project by one without AI steps. When the model
that was checked has been skipped, the two resolutions part: `SkippedIsNotAsked` says that
a step then fails, and `SkippedDefault` which one does not: a step without a provider of
its own, checked against `default`, with one other model left, which it asks.

The second half of `StartupProofs` proves `UntouchedModulesStay`,
`StartedRunsHaveTheirModules` and `TypeOK` for any number of module commands that overlap,
fail and are killed. Assumptions: `RegistryConstants` (names, and that a registry to begin
with relies on no plugin; the plugins to begin with are any), `ProjectsAssumption` (a bound
on commands, names of models are strings). `Holds(m, n, k)` is the core: what a map has of a
module is what the acknowledged commands left of it, where that is known. It is true of the
file and of what every command has loaded (`LoadingInv`), and of what a command is about to
write for the modules it did not change (`SavingInv`); the write of a command that
overlapped others makes its own modules unknown, and while one that overlapped none writes,
no other has anything loaded (`AloneInv`). A write that ends early, or meets another one,
leaves some registry or none (`DamagedKind`) and makes all modules unknown, after which
everything that rests on what is known holds whatever the file says (`DamageKeeps`). A
module that needs a plugin has an executable one, whole or broken (`KnownInv`): an
interrupted download never takes an executable away (`PartialGrows`), and `Intact` is the
case in which it is whole. A run that no command has overtaken has found what is there now
(`RunInv`).

Every invariant, action property and refinement that a passing run checks is thus
proved. Checked by TLC and not proved are the liveness properties `SortReturns`,
`StepReturns`, `Recovers` and `StepsEnd`: the prover has no rules for fairness. What the
theorems take for granted is the named assumptions on the constants, which TLC evaluates
on every instance.

## 5. Findings

1. *The save is not atomic* (`filesystem.go:41`, `gitlab.go:50`) and a file that does not
   parse is ignored (`executor.go:59`): a job killed at the wrong moment makes the resume
   job run completed steps again, against README.md:82.
2. *The final save* (`run.go:221`) rewrites a file that is already right; when it fails
   half way the state is gone and the exit code is 0, against README.md:80.
3. *The pipeline check* (`cicheck/gitlab.go:97`) finds nothing in pipelines whose resume job
   cannot continue the run that paused: any `needs` will do (the comments at :47 and :95
   speak of the initial job), `-fresh` is looked for in initial jobs only (:108, against the
   comment at :107 and README.md:236), and the artifact only where the script names the
   store (:132), which is the default (`run.go:28`).
4. *Deduplication of discussions* (`gitlab/module.go:421`): the bodies of discussions, the
   default of `api_type`, name neither file nor line, so that a retry posts them again,
   against README.md:550. (The test is also generous the other way: `4` is a part of
   `42`, so that a new comment on line 4 is skipped for an old one on line 42.)

Observations that have no run of their own; the models have the behaviour:

- options after the key are ignored by `flag.Parse` (`cli/data.go:24`), in the order that
  the help's own examples use (`cli/data.go:277-278`): `-ttl` and `-namespace` do nothing
  (`DataStore.Given`);
- `shiro remove module X`, as `install`, `search`, `info` and `docs`, take the word `module`
  for the name; only `add` skips it (`ModuleRegistry.Remove`);
- after a save that was cut short before its first module the registry's map is nil
  and every `add` panics (`discovery.go:257`; `AddModule` on an `Empty` file);
- a write of the registry that was cut short often leaves one that still can be read, with
  fewer modules or fields; the next command takes it for whole and saves it
  (`discovery.go:81`, `:285`; `EndsEarly`);
- a plugin whose download was interrupted keeps its mode and comes before the module from
  source that `add` has just announced (`module.go:198-200`); the plugin of a removed module
  is still registered (`Partial`, `RemoveModule`);
- `initial_delay` (`tests/fixtures/workflow-with-retry.json:11-15`) is no key of `RetryConfig`
  (`workflow.go:48`), so that the fixture's retries come back to back, without the backoff of
  README.md:26; `WaitsBackOff` needs a positive first delay;
- key `k` of namespace `default` in pipeline 7 and key `7-k` outside of any pipeline are one
  file of the filesystem store, against the isolation that the comments at
  `data.go:287` and `:377` speak of (`buildKey`);
- `data.load` takes every error of the store for a missing key and hands out the fallback
  for a value that is there (`data.go:156-169`);
- when `default` is configured and skipped, a step that `shiro validate` has checked against it
  (`validate.go:129`) asks the one other model (`pkg/ai/ai.go:145-155`): the second case
  of `AcceptedStepsGetTheirProvider`;
- HTTP modules have a map of their own that `Registry.Get` does not look at;
- no `GITHUB_REF` is ever recognised: eleven characters are compared with ten
  (`github.go:63`; `GetPRNumber`);
- `NewHTTPModuleClient(30)` (`run.go:117`) is thirty nanoseconds.

## 6. Plan

Done: the executor, the graph and the search, the retries, the load balancer, the data
store, the comments, the registry, the validation and the start of a run; the proofs of
all safety properties, the refinement of the ledger included. Left, if the code comes to
call them: the streams of the AI providers and the discoverer's `Discover`.

### Not modelled

- `Stream` of the AI providers, `Discover` of the discoverer, the artifact API,
  `GetMRInfo`, `GetPRInfo` and `PostReviewComment`: nothing in the program calls them;
- formatting, logging, prompts, templates and scaffolding (`quickstart`, the texts of
  `cli/init.go`), error wording, `-dry-run`, `search`, `info`, `docs`: no state;
- the utility modules and the running of a plugin: one blocking call each, whose outcome
  is the choice `StepFails` or success of `Executor`;
- fetching and decoding of REST answers and files, `resolveEnvVars`: text; what an answer
  that cannot be used means to its caller is modelled;
- the marketplace: what it finds is `Repo`.
