------------------------------ MODULE Executor ------------------------------
(***************************************************************************)
(* `shiro run' on one workflow and its state file: RunCommand              *)
(* (internal/cli/run.go), Executor.Execute (internal/runtime/executor.go)  *)
(* and the file-backed state store (internal/state/filesystem.go,          *)
(* gitlab.go).  Every member of Run is one process: the first job of a     *)
(* pipeline, the job that resumes it, a job that is retried, or a second   *)
(* process in the same directory.  Processes share nothing but the files.  *)
(*                                                                         *)
(* Atomicity: one action per system call on the state file (stat, read,    *)
(* remove, open with O_TRUNC, write) and one per module execution, so that *)
(* another process or a crash can come between any two of them.            *)
(***************************************************************************)
EXTENDS DepGraph

CONSTANTS
  Step,        \* step IDs
  Run,         \* the processes; each runs once
  Workflows,   \* the contents the workflow file can have
  Fresh,       \* the values of -fresh, a subset of BOOLEAN
  MaxActive,   \* how many processes may overlap: 1 is "one job after the other"
  MaxEdits,    \* bound on edits of the workflow file between launches
  Faults,      \* the kinds of failure of the environment that may occur
  MaxFaults,   \* bound on their number
  NoRun        \* not a process

Outcome == {"none", "output", "note"}
FaultKinds == {"crash", "tear", "refuse", "partial", "read"}

\* A parsed workflow file, cut down to the fields that steer a run.
WorkflowType ==
  [steps : SUBSET Step, deps : [Step -> SUBSET Step], pause : SUBSET Step,
   refs : [Step -> SUBSET Step], unsaved : SUBSET Step]

ASSUME WorkflowsAssumption == Workflows \subseteq WorkflowType
ASSUME StepAssumption == IsFiniteSet(Step)
ASSUME NoRunAssumption == NoRun \notin Run
ASSUME BoundsAssumption ==
  /\ Fresh \subseteq BOOLEAN
  /\ Faults \subseteq FaultKinds
  /\ MaxActive \in Nat /\ MaxEdits \in Nat /\ MaxFaults \in Nat

VARIABLES
  wfFile,    \* the workflow file
  edits,     \* edits of it so far
  faults,    \* faults so far
  store,     \* the state file: is it there, is it JSON, and the execCtx it holds
  unlinked,  \* processes whose open descriptor is of a state file since removed
  pc,        \* per process: where it is
  wf,        \* per process: the workflow it loaded
  ctx,       \* per process: execCtx.Steps
  order,     \* per process: graph.order
  idx,       \* per process: position of the loop over the order
  loaded,    \* history: steps a process found in the state it resumed from
  ran,       \* history: steps whose module a process ran with success
  durable,   \* history: steps some complete save recorded since the last removal
  passes,    \* history: processes that ended with exit code 0 since then
  latest     \* history: the process launched last

envVars == <<wfFile, edits>>
procVars == <<wf, order>>
history == <<loaded, ran, durable, passes, latest>>
vars == <<wfFile, edits, faults, store, unlinked, pc, wf, ctx, order, idx,
          loaded, ran, durable, passes, latest>>

Ended == {"done", "failed", "crashed"}
Writing == {"write", "finalWrite"}
PC == {"idle", "fresh", "remove", "exists", "load", "graph", "loop", "save",
       "write", "finalSave", "finalWrite"} \cup Ended

Empty == [s \in Step |-> "none"]
Done(c) == {s \in Step : c[s] # "none"}
Active == {r \in Run : pc[r] \notin Ended \cup {"idle"}}
Current(r) == order[r][idx[r]]
InLoop(r) == pc[r] = "loop" /\ idx[r] \in DOMAIN order[r]

\* Workflow.Validate: steps exist, depends_on names steps, and there is no cycle.
Validates(w) ==
  /\ w.steps # {}
  /\ DepsClosed(w.steps, w.deps)
  /\ Acyclic(w.steps, w.deps)

\* VariableResolver.resolvePath finds {{steps.x.field}} in what step x left behind.
RefsResolve(w, c, s) == \A x \in w.refs[s] : c[x] = "output"

TypeOK ==
  /\ wfFile \in Workflows
  /\ edits \in 0..MaxEdits
  /\ faults \in 0..MaxFaults
  /\ store \in [status : {"absent", "empty", "torn", "intact"},
                ctx : [Step -> Outcome]]
  /\ unlinked \in SUBSET Run
  /\ pc \in [Run -> PC]
  /\ wf \in [Run -> Workflows]
  /\ ctx \in [Run -> [Step -> Outcome]]
  /\ order \in [Run -> Seq(Step)]
  /\ idx \in [Run -> Nat]
  /\ loaded \in [Run -> SUBSET Step]
  /\ ran \in [Run -> SUBSET Step]
  /\ durable \in SUBSET Step
  /\ passes \in Nat
  /\ latest \in Run \cup {NoRun}

Init ==
  /\ wfFile \in Workflows
  /\ edits = 0
  /\ faults = 0
  /\ store = [status |-> "absent", ctx |-> Empty]
  /\ unlinked = {}
  /\ pc = [r \in Run |-> "idle"]
  /\ wf = [r \in Run |-> wfFile]
  /\ ctx = [r \in Run |-> Empty]
  /\ order = [r \in Run |-> <<>>]
  /\ idx = [r \in Run |-> 1]
  /\ loaded = [r \in Run |-> {}]
  /\ ran = [r \in Run |-> {}]
  /\ durable = {}
  /\ passes = 0
  /\ latest = NoRun

-----------------------------------------------------------------------------
(* The environment.                                                        *)

\* Somebody edits workflow.json.  The state file is keyed by the workflow's name
\* alone, so it stays.
EditWorkflow ==
  /\ edits < MaxEdits
  /\ edits' = edits + 1
  /\ wfFile' \in Workflows \ {wfFile}
  /\ UNCHANGED <<faults, store, unlinked, pc, ctx, idx, procVars, history>>

\* A fault of kind k is charged to the environment.
Fault(k) ==
  /\ k \in Faults
  /\ faults < MaxFaults
  /\ faults' = faults + 1

\* The process is killed (job timeout, cancelled pipeline, OOM).  Between the two
\* system calls of os.WriteFile that leaves the file truncated: kind "tear".
Crash(r) ==
  /\ r \in Active
  /\ Fault(IF pc[r] \in Writing THEN "tear" ELSE "crash")
  /\ pc' = [pc EXCEPT ![r] = "crashed"]
  /\ UNCHANGED <<envVars, store, unlinked, ctx, idx, procVars, history>>

-----------------------------------------------------------------------------
(* RunCommand up to Execute.                                               *)

\* The workflow file is read and validated; an invalid one ends the process.
Launch(r) ==
  /\ pc[r] = "idle"
  /\ Cardinality(Active) < MaxActive
  /\ \E fresh \in Fresh :
       pc' = [pc EXCEPT ![r] = IF ~ Validates(wfFile) THEN "failed"
                               ELSE IF fresh THEN "fresh" ELSE "exists"]
  /\ wf' = [wf EXCEPT ![r] = wfFile]
  /\ latest' = r
  /\ UNCHANGED <<envVars, faults, store, unlinked, ctx, order, idx,
                 loaded, ran, durable, passes>>

\* -fresh: stateStore.Exists.  An error of stat is fatal here.
FreshExists(r) ==
  /\ pc[r] = "fresh"
  /\ pc' = [pc EXCEPT ![r] = IF store.status = "absent" THEN "exists" ELSE "remove"]
  /\ UNCHANGED <<envVars, faults, store, unlinked, ctx, idx, procVars, history>>

FreshExistsFails(r) ==
  /\ pc[r] = "fresh"
  /\ Fault("read")
  /\ pc' = [pc EXCEPT ![r] = "failed"]
  /\ UNCHANGED <<envVars, store, unlinked, ctx, idx, procVars, history>>

\* -fresh: stateStore.Delete is os.Remove, which fails when another process was
\* faster.  Writers that have the file open go on writing to the removed one.
FreshDelete(r) ==
  /\ pc[r] = "remove"
  /\ IF store.status = "absent"
     THEN /\ pc' = [pc EXCEPT ![r] = "failed"]
          /\ UNCHANGED <<store, unlinked, durable, passes>>
     ELSE /\ pc' = [pc EXCEPT ![r] = "exists"]
          /\ store' = [status |-> "absent", ctx |-> Empty]
          /\ unlinked' = unlinked \cup {q \in Run : pc[q] \in Writing}
          /\ durable' = {}
          /\ passes' = 0
  /\ UNCHANGED <<envVars, faults, ctx, idx, procVars, loaded, ran, latest>>

-----------------------------------------------------------------------------
(* Execute: loading the previous state.                                    *)

\* stateStore.Exists.  An error counts as "no state".
StateExists(r) ==
  /\ pc[r] = "exists"
  /\ \/ /\ pc' = [pc EXCEPT ![r] = IF store.status = "absent" THEN "graph" ELSE "load"]
        /\ UNCHANGED faults
     \/ /\ Fault("read")
        /\ pc' = [pc EXCEPT ![r] = "graph"]
  /\ UNCHANGED <<envVars, store, unlinked, ctx, idx, procVars, history>>

\* Mutant: the loaded context is dropped (execCtx = previousCtx forgotten).
BugLoadState(r) ==
  /\ pc[r] = "load"
  /\ pc' = [pc EXCEPT ![r] = "graph"]
  /\ UNCHANGED <<envVars, faults, store, unlinked, ctx, idx, procVars, history>>

\* stateStore.Load.  A file that is gone, unreadable or not JSON is ignored as
\* well, and the run starts with an empty context.
LoadState(r) ==
  /\ pc[r] = "load"
  /\ pc' = [pc EXCEPT ![r] = "graph"]
  /\ \/ /\ store.status = "intact"
        /\ ctx' = [ctx EXCEPT ![r] = store.ctx]
        /\ loaded' = [loaded EXCEPT ![r] = Done(store.ctx)]
        /\ UNCHANGED faults
     \/ /\ store.status # "intact"
        /\ UNCHANGED <<ctx, loaded, faults>>
     \/ /\ Fault("read")
        /\ UNCHANGED <<ctx, loaded>>
  /\ UNCHANGED <<envVars, store, unlinked, idx, procVars, ran, durable, passes, latest>>

\* buildExecutionGraph; without an order the run ends.
BuildGraph(r) ==
  /\ pc[r] = "graph"
  /\ LET orders == KahnOrders(wf[r].steps, wf[r].deps) IN
     IF orders = {}
     THEN pc' = [pc EXCEPT ![r] = "failed"] /\ UNCHANGED order
     ELSE /\ pc' = [pc EXCEPT ![r] = "loop"]
          /\ \E o \in orders : order' = [order EXCEPT ![r] = o]
  /\ UNCHANGED <<envVars, faults, store, unlinked, wf, ctx, idx, history>>

-----------------------------------------------------------------------------
(* Execute: the loop over the order.                                       *)

\* Mutant: a pause step that is already executed pauses again.
BugPauseBeforeSkip(r) ==
  /\ InLoop(r)
  /\ Current(r) \in Done(ctx[r])
  /\ idx' = [idx EXCEPT ![r] = @ + 1]
  /\ pc' = [pc EXCEPT ![r] = IF Current(r) \in wf[r].pause THEN "finalSave" ELSE "loop"]
  /\ UNCHANGED <<envVars, faults, store, unlinked, ctx, procVars, history>>

\* The step is in execCtx.Steps already.
SkipStep(r) ==
  /\ InLoop(r)
  /\ Current(r) \in Done(ctx[r])
  /\ idx' = [idx EXCEPT ![r] = @ + 1]
  /\ UNCHANGED <<envVars, faults, store, unlinked, pc, ctx, procVars, history>>

\* What lets the module of step s run: the check of line 92, then the references
\* of its config.
Runnable(w, c, s) == w.deps[s] \subseteq Done(c) /\ RefsResolve(w, c, s)

\* Mutant: save_output taken the wrong way round.
BugRunModule(r) ==
  /\ InLoop(r)
  /\ LET s == Current(r) IN
     /\ s \notin Done(ctx[r])
     /\ Runnable(wf[r], ctx[r], s)
     /\ ctx' = [ctx EXCEPT ![r][s] = IF s \in wf[r].unsaved THEN "output" ELSE "note"]
     /\ ran' = [ran EXCEPT ![r] = @ \cup {s}]
  /\ pc' = [pc EXCEPT ![r] = "save"]
  /\ UNCHANGED <<envVars, faults, store, unlinked, idx, procVars,
                 loaded, durable, passes, latest>>

\* executeStep with a module that returns no error.  The result enters execCtx;
\* with save_output false its output is replaced by a note, in memory as well.
RunModule(r) ==
  /\ InLoop(r)
  /\ LET s == Current(r) IN
     /\ s \notin Done(ctx[r])
     /\ Runnable(wf[r], ctx[r], s)
     /\ ctx' = [ctx EXCEPT ![r][s] = IF s \in wf[r].unsaved THEN "note" ELSE "output"]
     /\ ran' = [ran EXCEPT ![r] = @ \cup {s}]
  /\ pc' = [pc EXCEPT ![r] = "save"]
  /\ UNCHANGED <<envVars, faults, store, unlinked, idx, procVars,
                 loaded, durable, passes, latest>>

\* Mutant: a failed step is recorded with its error before Execute returns.
BugRecordFailure(r) ==
  /\ InLoop(r)
  /\ Current(r) \notin Done(ctx[r])
  /\ ctx' = [ctx EXCEPT ![r][Current(r)] = "error"]
  /\ pc' = [pc EXCEPT ![r] = "failed"]
  /\ UNCHANGED <<envVars, faults, store, unlinked, idx, procVars, history>>

\* Mutant: a failed step leaves the loop without an error.
BugBreakOnFailure(r) ==
  /\ InLoop(r)
  /\ Current(r) \notin Done(ctx[r])
  /\ pc' = [pc EXCEPT ![r] = "finalSave"]
  /\ UNCHANGED <<envVars, faults, store, unlinked, ctx, idx, procVars, history>>

\* Dependencies are missing, a reference does not resolve, the step's type is not
\* registered, or the module (after its retries) returns an error: Execute returns
\* the error, nothing of the step is recorded, and RunCommand exits with 1.
StepFails(r) ==
  /\ InLoop(r)
  /\ Current(r) \notin Done(ctx[r])
  /\ pc' = [pc EXCEPT ![r] = "failed"]
  /\ UNCHANGED <<envVars, faults, store, unlinked, ctx, idx, procVars, history>>

\* The order is exhausted: Execute returns, RunCommand saves once more.
Complete(r) ==
  /\ pc[r] = "loop"
  /\ idx[r] \notin DOMAIN order[r]
  /\ pc' = [pc EXCEPT ![r] = "finalSave"]
  /\ UNCHANGED <<envVars, faults, store, unlinked, ctx, idx, procVars, history>>

-----------------------------------------------------------------------------
(* Saving: os.WriteFile opens with O_TRUNC, then writes.                   *)

\* Mutants: step.Pause is not looked at; the error of a save after a step is only logged.
BugNoPause(r) == IF pc[r] \in {"finalSave", "finalWrite"} THEN "done" ELSE "loop"
BugLogSaveError(r) == "done"

\* Where a process goes when its save ends; a failed save after a step ends the
\* run, a failed save at the end of RunCommand is only logged.
AfterSave(r) ==
  IF pc[r] \in {"finalSave", "finalWrite"} THEN "done"
  ELSE IF Current(r) \in wf[r].pause THEN "finalSave" ELSE "loop"
AfterFailedSave(r) == IF pc[r] \in {"finalSave", "finalWrite"} THEN "done" ELSE "failed"

Passed(r) == passes' = IF pc'[r] = "done" THEN passes + 1 ELSE passes

SaveOpen(r) ==
  /\ pc[r] \in {"save", "finalSave"}
  /\ pc' = [pc EXCEPT ![r] = IF @ = "save" THEN "write" ELSE "finalWrite"]
  /\ store' = [status |-> "empty", ctx |-> Empty]
  /\ unlinked' = unlinked \ {r}
  /\ UNCHANGED <<envVars, faults, ctx, idx, procVars, history>>

\* The directory, the disk or json.Marshal refuses before anything is truncated.
SaveRefused(r) ==
  /\ pc[r] \in {"save", "finalSave"}
  /\ Fault("refuse")
  /\ pc' = [pc EXCEPT ![r] = AfterFailedSave(r)]
  /\ Passed(r)
  /\ UNCHANGED <<envVars, store, unlinked, ctx, idx, procVars, loaded, ran, durable, latest>>

\* Mutant: only the results of this process are written.
BugSaveDelta(r) ==
  /\ pc[r] \in Writing
  /\ store' = [status |-> "intact",
               ctx |-> [s \in Step |-> IF s \in ran[r] THEN ctx[r][s] ELSE "none"]]
  /\ durable' = durable \cup ran[r]
  /\ pc' = [pc EXCEPT ![r] = AfterSave(r)]
  /\ idx' = [idx EXCEPT ![r] = IF AfterSave(r) = "loop" THEN @ + 1 ELSE @]
  /\ Passed(r)
  /\ UNCHANGED <<envVars, faults, unlinked, ctx, procVars, loaded, ran, latest>>

\* The write starts at offset 0 of whatever the file holds by now.  Over another
\* process's document, a shorter one leaves the tail of the longer one behind.
SaveWrite(r) ==
  /\ pc[r] \in Writing
  /\ IF r \in unlinked
     THEN UNCHANGED <<store, durable>>
     ELSE \/ /\ store' = [status |-> "intact", ctx |-> ctx[r]]
             /\ durable' = durable \cup Done(ctx[r])
          \/ /\ store.status # "empty"
             /\ store' = [status |-> "torn", ctx |-> Empty]
             /\ UNCHANGED durable
  /\ pc' = [pc EXCEPT ![r] = AfterSave(r)]
  /\ idx' = [idx EXCEPT ![r] = IF AfterSave(r) = "loop" THEN @ + 1 ELSE @]
  /\ Passed(r)
  /\ UNCHANGED <<envVars, faults, unlinked, ctx, procVars, loaded, ran, latest>>

\* The write fails part of the way (disk full): the old document is already gone.
SaveFails(r) ==
  /\ pc[r] \in Writing
  /\ Fault("partial")
  /\ store' = IF r \in unlinked THEN store ELSE [status |-> "torn", ctx |-> Empty]
  /\ pc' = [pc EXCEPT ![r] = AfterFailedSave(r)]
  /\ Passed(r)
  /\ UNCHANGED <<envVars, unlinked, ctx, idx, procVars, loaded, ran, durable, latest>>

-----------------------------------------------------------------------------
\* What the code of process r does.
Progress(r) ==
  \/ FreshExists(r) \/ FreshExistsFails(r) \/ FreshDelete(r)
  \/ StateExists(r) \/ LoadState(r) \/ BuildGraph(r)
  \/ SkipStep(r) \/ RunModule(r) \/ StepFails(r) \/ Complete(r)
  \/ SaveOpen(r) \/ SaveRefused(r) \/ SaveWrite(r) \/ SaveFails(r)

\* Every process has ended: the system rests.
AllEnded ==
  /\ \A r \in Run : pc[r] \in Ended
  /\ UNCHANGED vars

Next ==
  \/ EditWorkflow
  \/ \E r \in Run : Launch(r) \/ Crash(r) \/ Progress(r)
  \/ AllEnded

Spec == Init /\ [][Next]_vars
-----------------------------------------------------------------------------
(* Safety under every interleaving, fault and edit.                        *)

\* When the loop comes to a step it has to run, all dependencies of the step are in
\* execCtx, whatever state was loaded and however old it is: the error return of
\* executor.go:92-95 is never taken.
DependenciesComeFirst ==
  \A r \in Run :
    InLoop(r) /\ Current(r) \notin Done(ctx[r])
      => wf[r].deps[Current(r)] \subseteq Done(ctx[r])

\* The approval gate of the README: a step behind a pause step, directly or not, runs
\* only in a process that found the pause step completed in the state it resumed
\* from, never in the one that ran into the pause.
ApprovalGate ==
  \A r \in Run : \A s \in ran[r] :
    Ancestors(wf[r].steps, wf[r].deps, s) \cap wf[r].pause \subseteq loaded[r]

\* A reference to an ancestor that saves its output always resolves, also after a
\* resume: the error return of executor.go:139 needs a reference that depends_on does
\* not cover, a step with save_output false or an edited workflow.
ReferencesResolve ==
  edits = 0 =>
    \A r \in Run : InLoop(r) =>
      LET w == wf[r]
          s == Current(r)
      IN s \notin Done(ctx[r])
         /\ w.refs[s] \subseteq Ancestors(w.steps, w.deps, s) \ w.unsaved
         => RefsResolve(w, ctx[r], s)

\* Exit code 0 means that the workflow is complete or that this very process ran a
\* pause step: a resumed process never stops at a pause that was passed before.
ExitZeroMeansCompleteOrPaused ==
  \A r \in Run : pc[r] = "done" =>
    wf[r].steps \subseteq Done(ctx[r]) \/ ran[r] \cap wf[r].pause # {}

\* What a readable state file records is closed under depends_on, whoever wrote it:
\* concurrent savers, crashes and refused writes never publish a step without its
\* dependencies.
SavedStateIsClosed ==
  edits = 0 /\ store.status = "intact" => DepsClosed(Done(store.ctx), wfFile.deps)

-----------------------------------------------------------------------------
(* Safety of jobs that run one after the other (MaxActive = 1), as long as *)
(* no fault destroys or hides the file ("tear", "partial", "read").        *)

\* "Resume job loads state, skips completed steps" (README.md:82): a step that a
\* complete save has recorded is not run again until the state is removed.
SavedStepsNeverRunAgain ==
  [][\A r \in Run : (ran'[r] \ ran[r]) \cap durable = {}]_vars

\* "Saves workflow state and pauses" (README.md:80): a process that exits with 0 leaves
\* a readable file behind that holds exactly its execution context.
ExitZeroMeansSaved ==
  [][\A r \in Run : pc[r] # "done" /\ pc'[r] = "done"
        => store'.status = "intact" /\ store'.ctx = ctx[r]]_vars

\* Every approved resume gets somewhere: one more successful job than there are pause
\* steps completes the workflow, however many jobs failed or crashed in between.
ResumesAreBounded ==
  edits = 0 /\ passes > Cardinality(wfFile.pause) => durable = wfFile.steps
=============================================================================
