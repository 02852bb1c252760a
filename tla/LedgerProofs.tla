---------------------------- MODULE LedgerProofs ----------------------------
(***************************************************************************)
(* Jobs that run one after the other on a workflow file nobody edits, with *)
(* crashes and refused writes as the only faults: Executor implements      *)
(* WorkflowLedger, for any number of steps, jobs and faults.               *)
(***************************************************************************)
EXTENDS ExecutorLedger, ExecutorProofs

\* GitLab CI runs the first job of a pipeline and then the resume jobs, one at a time;
\* no fault truncates, shortens or hides the state file.
Sequential == MaxActive = 1 /\ MaxEdits = 0 /\ Faults \subseteq {"crash", "refuse"}

-----------------------------------------------------------------------------
(* The inductive invariant, beside IInv.                                   *)

Rest == Ended \cup {"idle"}
Final == {"finalSave", "finalWrite"}

\* Only the job launched last can be under way, and it has accepted its workflow.
AloneInv ==
  \A r \in Run : pc[r] \notin Rest => r = latest /\ wf[r].steps # {}

\* The file says what is durable, except while a job is between its two system calls.
FileInv ==
  /\ unlinked = {}
  /\ store.status # "torn"
  /\ store.status = "empty" => \E r \in Run : pc[r] \in Writing
  /\ store.status = "absent" => durable = {}
  /\ store.status = "intact" => Done(store.ctx) = durable

\* The context of a job is the durable one, plus the step that it is about to save.
JobInv(r) ==
  /\ pc[r] \in Writing => store.status = "empty"
  /\ pc[r] \in {"remove", "load"} => store.status = "intact"
  /\ pc[r] \in {"graph", "loop"} \cup Final => Done(ctx[r]) = durable
  /\ pc[r] \in {"graph", "loop", "finalSave"} /\ store.status = "intact"
       => store.ctx = ctx[r]
  /\ pc[r] \in {"save", "write"} =>
       /\ Current(r) \in wfFile.steps \ durable
       /\ wf[r].deps[Current(r)] \subseteq durable
       /\ Done(ctx[r]) = durable \cup {Current(r)}

\* Until the workflow is complete every job that ended with exit code 0, and the one
\* that is about to, has recorded a pause step.
Approvals == Cardinality(wfFile.pause \cap durable)
CountInv ==
  /\ durable \subseteq wfFile.steps
  /\ durable # wfFile.steps =>
       /\ passes <= Approvals
       /\ (\E r \in Run : pc[r] \in Final) => passes < Approvals

SInv == IInv /\ AloneInv /\ FileInv /\ (\A r \in Run : JobInv(r)) /\ CountInv

-----------------------------------------------------------------------------
LEMMA InitSInv == Init => SInv
<1> SUFFICES ASSUME Init PROVE SInv
  OBVIOUS
<1>1. IInv
  BY InitIInv
<1>2. AloneInv /\ FileInv /\ \A r \in Run : JobInv(r)
  BY DEF Init, AloneInv, FileInv, JobInv, Rest, Final, Writing
<1>3. CountInv
  <2>1. wfFile.pause \cap durable = {} /\ passes = 0 /\ durable = {}
    BY DEF Init
  <2>2. Approvals = 0
    BY <2>1, FS_EmptySet DEF Approvals
  <2>3. QED
    BY <2>1, <2>2 DEF Init, CountInv, Final
<1>4. QED
  BY <1>1, <1>2, <1>3 DEF SInv

\* The workflow's approvals are finitely many, and recording a step adds at most one.
LEMMA ApprovalsGrow ==
  ASSUME TypeOK, NEW s \in Step, s \notin durable
  PROVE  /\ Approvals \in Nat
         /\ Cardinality(wfFile.pause \cap (durable \cup {s})) =
              IF s \in wfFile.pause THEN Approvals + 1 ELSE Approvals
         /\ Approvals <= Cardinality(wfFile.pause)
         /\ Cardinality(wfFile.pause) \in Nat
<1>1. wfFile.pause \in SUBSET Step
  BY WorkflowsAssumption DEF TypeOK, WorkflowType
<1>2. IsFiniteSet(wfFile.pause)
  BY <1>1, StepAssumption, FS_Subset
<1>3. IsFiniteSet(wfFile.pause \cap durable) /\ Approvals <= Cardinality(wfFile.pause)
  BY <1>2, FS_Subset DEF Approvals
<1>4. Approvals \in Nat /\ Cardinality(wfFile.pause) \in Nat
  BY <1>2, <1>3, FS_CardinalityType DEF Approvals
<1>5. CASE s \in wfFile.pause
  <2>1. wfFile.pause \cap (durable \cup {s}) = (wfFile.pause \cap durable) \cup {s}
    BY <1>5
  <2>2. Cardinality((wfFile.pause \cap durable) \cup {s}) = Approvals + 1
    BY <1>3, FS_AddElement DEF Approvals
  <2>3. QED
    BY <1>3, <1>4, <1>5, <2>1, <2>2
<1>6. CASE s \notin wfFile.pause
  <2>1. wfFile.pause \cap (durable \cup {s}) = wfFile.pause \cap durable
    BY <1>6
  <2>2. QED
    BY <1>3, <1>4, <1>6, <2>1 DEF Approvals
<1>7. QED
  BY <1>5, <1>6

\* The current step of a job in the loop is a step of its workflow.
LEMMA CurrentIsOfWorkflow ==
  ASSUME TypeOK, NEW r \in Run, LoopInv(r), pc[r] \in Looping, idx[r] \in DOMAIN order[r]
  PROVE  Current(r) \in wf[r].steps
<1>1. order[r] \in KahnOrders(wf[r].steps, wf[r].deps) /\ wf[r] \in Workflows
  BY DEF LoopInv, TypeOK
<1>2. order[r] \in Seq(wf[r].steps)
  BY <1>1, OrdersAreSequences
<1>3. QED
  BY <1>2 DEF Current

-----------------------------------------------------------------------------
(* One job acts, the others rest.                                          *)

Acts(r) == Launch(r) \/ Crash(r) \/ Progress(r)

\* What the invariant says to the job that acts.
LEMMA ActorIsAlone ==
  ASSUME Sequential, SInv, NEW r \in Run, Acts(r)
  PROVE  /\ \A q \in Run \ {r} : pc[q] \in Rest /\ pc'[q] \in Rest
         /\ store.status = "empty" => pc[r] \in Writing
         /\ pc[r] = "idle" \/ (latest = r /\ wf[r].steps # {})
         /\ wf[r] = wfFile
         /\ wfFile' = wfFile /\ edits = 0 /\ edits' = 0
<1>1. edits = 0 /\ wf[r] = wfFile
  BY BoundsAssumption DEF Sequential, SInv, IInv, TypeOK, UneditedInv
<1>2. wfFile' = wfFile /\ edits' = edits
  BY DEF Acts, Launch, Crash, Progress, FreshExists, FreshExistsFails, FreshDelete,
    StateExists, LoadState, BuildGraph, SkipStep, RunModule, StepFails, Complete,
    SaveOpen, SaveRefused, SaveWrite, SaveFails, envVars
<1>3. \A q \in Run \ {r} : pc'[q] = pc[q]
  BY OthersSame DEF SInv, IInv, Acts, Same
<1>4. CASE Launch(r)
  <2>1. \A q \in Active : q = latest
    BY DEF SInv, AloneInv, Active, Rest
  <2>2. IsFiniteSet(Active) /\ Cardinality(Active) \in Nat
    <3>1. IsFiniteSet({latest})
      BY FS_Singleton
    <3>2. QED
      BY <2>1, <3>1, FS_Subset, FS_CardinalityType
  <2>3. Cardinality(Active) = 0
    BY <1>4, <2>2 DEF Launch, Sequential
  <2>4. Active = {}
    BY <2>2, <2>3, FS_EmptySet
  <2>5. \A q \in Run : pc[q] \in Rest
    BY <2>4 DEF Active, Rest
  <2>6. store.status # "empty"
    BY <2>5 DEF SInv, FileInv, Rest, Ended, Writing
  <2>7. pc[r] = "idle"
    BY <1>4 DEF Launch
  <2>8. QED
    BY <1>1, <1>2, <1>3, <2>5, <2>6, <2>7
<1>5. CASE Crash(r) \/ Progress(r)
  <2>1. pc[r] \notin Rest
    BY <1>5 DEF Crash, Progress, FreshExists, FreshExistsFails, FreshDelete,
      StateExists, LoadState, BuildGraph, SkipStep, RunModule, StepFails, Complete,
      SaveOpen, SaveRefused, SaveWrite, SaveFails, Active, InLoop, Rest, Ended, Writing
  <2>2. latest = r /\ wf[r].steps # {}
    BY <2>1 DEF SInv, AloneInv
  <2>3. \A q \in Run \ {r} : pc[q] \in Rest
    BY <2>2 DEF SInv, AloneInv
  <2>4. store.status = "empty" => pc[r] \in Writing
    BY <2>3 DEF SInv, FileInv, Rest, Ended, Writing
  <2>5. QED
    BY <1>1, <1>2, <1>3, <2>2, <2>3, <2>4
<1>6. QED
  BY <1>4, <1>5 DEF Acts

\* What has to be shown of a step of r.
FileAt(r) ==
  /\ unlinked = {}
  /\ store.status # "torn"
  /\ store.status = "empty" => pc[r] \in Writing
  /\ store.status = "absent" => durable = {}
  /\ store.status = "intact" => Done(store.ctx) = durable

CountAt(r) ==
  /\ durable \subseteq wfFile.steps
  /\ durable # wfFile.steps =>
       passes <= Approvals /\ (pc[r] \in Final => passes < Approvals)

LEMMA Assemble ==
  ASSUME Sequential, SInv, IInv', NEW r \in Run, Acts(r),
         FileAt(r)', JobInv(r)', CountAt(r)',
         pc'[r] \notin Rest => r = latest' /\ wf'[r].steps # {}
  PROVE  SInv'
<1>1. \A q \in Run \ {r} : pc'[q] \in Rest
  BY ActorIsAlone
<1>2. AloneInv'
  BY <1>1 DEF AloneInv
<1>3. FileInv'
  BY DEF FileInv, FileAt
<1>4. \A q \in Run : JobInv(q)'
  BY <1>1 DEF JobInv, Rest, Ended, Final, Writing
<1>5. CountInv'
  BY <1>1 DEF CountInv, CountAt, Rest, Ended, Final
<1>6. QED
  BY <1>2, <1>3, <1>4, <1>5 DEF SInv

LEMMA ActorAt ==
  ASSUME Sequential, SInv, NEW r \in Run, Acts(r)
  PROVE  FileAt(r) /\ JobInv(r) /\ CountAt(r)
  BY ActorIsAlone DEF SInv, FileInv, FileAt, CountInv, CountAt

\* Steps that leave file, context and ledger alone: r enters no region that promises
\* more about them.
LEMMA QuietStep ==
  ASSUME Sequential, SInv, IInv', NEW r \in Run, Acts(r),
         UNCHANGED <<store, unlinked, durable, passes, wfFile>>,
         ctx'[r] = ctx[r],
         pc[r] \notin Writing, pc'[r] \notin Writing \cup {"save"},
         pc'[r] \in {"remove", "load"} => store.status = "intact",
         pc'[r] \in {"graph", "loop"} \cup Final =>
           /\ Done(ctx[r]) = durable
           /\ store.status = "intact" => store.ctx = ctx[r],
         pc'[r] \in Final => durable = wfFile.steps,
         pc'[r] \notin Rest => r = latest' /\ wf'[r].steps # {}
  PROVE  SInv'
<1>1. FileAt(r) /\ CountAt(r)
  BY ActorAt
<1>2. FileAt(r)'
  BY <1>1 DEF FileAt, Done
<1>3. JobInv(r)'
  BY DEF JobInv, Done, Writing, Final
<1>4. CountAt(r)'
  BY <1>1 DEF CountAt, Approvals
<1>5. QED
  BY <1>2, <1>3, <1>4, Assemble

LEMMA QuietActions ==
  ASSUME Sequential, SInv, IInv', NEW r \in Run,
         \/ Launch(r) \/ Crash(r) \/ FreshExists(r) \/ FreshExistsFails(r)
         \/ StateExists(r) \/ BuildGraph(r) \/ SkipStep(r) \/ StepFails(r) \/ Complete(r)
  PROVE  SInv'
<1>0. Acts(r)
  BY DEF Acts, Progress
<1>1. FileAt(r) /\ JobInv(r) /\ CountAt(r) /\ TypeOK /\ ProcInv(r)
  BY <1>0, ActorAt DEF SInv, IInv
<1>2. store.status \in {"absent", "empty", "intact"}
  BY <1>1 DEF FileAt, TypeOK
<1>3. pc[r] = "idle" \/ (latest = r /\ wf[r].steps # {})
  BY <1>0, ActorIsAlone
<1>4. pc[r] \in Early => ctx[r] = Empty
  BY <1>1 DEF ProcInv, EarlyInv
<1>5. CASE Launch(r)
  <2>1. /\ pc[r] = "idle" /\ pc'[r] \in {"failed", "fresh", "exists"}
        /\ pc'[r] # "failed" => wf'[r].steps # {}
        /\ latest' = r /\ ctx'[r] = ctx[r]
        /\ UNCHANGED <<store, unlinked, durable, passes, wfFile>>
    BY <1>1, <1>5 DEF Launch, TypeOK, Validates, envVars
  <2>2. QED
    BY <1>0, <2>1, QuietStep DEF Rest, Ended, Final, Writing
<1>6. CASE Crash(r)
  <2>1. pc[r] \notin Writing /\ pc'[r] = "crashed" /\ ctx'[r] = ctx[r]
        /\ UNCHANGED <<store, unlinked, durable, passes, wfFile>>
    BY <1>1, <1>6 DEF Crash, Fault, Sequential, TypeOK, envVars, history
  <2>2. QED
    BY <1>0, <2>1, QuietStep DEF Rest, Ended, Final, Writing
<1>7. CASE FreshExists(r) \/ FreshExistsFails(r)
  <2>1. /\ pc[r] = "fresh" /\ pc'[r] = IF store.status = "absent" THEN "exists" ELSE "remove"
        /\ ctx'[r] = ctx[r] /\ latest' = latest /\ wf'[r] = wf[r]
        /\ UNCHANGED <<store, unlinked, durable, passes, wfFile>>
    BY <1>1, <1>7
    DEF FreshExists, FreshExistsFails, Fault, Sequential, TypeOK, envVars, procVars, history
  <2>2. store.status # "empty"
    BY <1>1, <2>1 DEF FileAt, Writing
  <2>3. QED
    BY <1>0, <1>2, <1>3, <2>1, <2>2, QuietStep DEF Rest, Ended, Final, Writing
<1>8. CASE StateExists(r)
  <2>1. /\ pc[r] = "exists" /\ pc'[r] = IF store.status = "absent" THEN "graph" ELSE "load"
        /\ ctx'[r] = ctx[r] /\ latest' = latest /\ wf'[r] = wf[r]
        /\ UNCHANGED <<store, unlinked, durable, passes, wfFile>>
    BY <1>1, <1>8
    DEF StateExists, Fault, Sequential, TypeOK, envVars, procVars, history
  <2>2. store.status # "empty"
    BY <1>1, <2>1 DEF FileAt, Writing
  <2>3. store.status = "absent" => Done(ctx[r]) = durable
    BY <1>1, <1>4, <2>1, DoneOfEmpty DEF FileAt, Early
  <2>4. QED
    BY <1>0, <1>2, <1>3, <2>1, <2>2, <2>3, QuietStep DEF Rest, Ended, Final, Writing
<1>9. CASE BuildGraph(r)
  <2>1. /\ pc[r] = "graph" /\ pc'[r] \in {"failed", "loop"}
        /\ ctx'[r] = ctx[r] /\ latest' = latest /\ wf'[r] = wf[r]
        /\ UNCHANGED <<store, unlinked, durable, passes, wfFile>>
    BY <1>1, <1>9 DEF BuildGraph, TypeOK, envVars, history
  <2>2. QED
    BY <1>0, <1>1, <1>3, <2>1, QuietStep DEF JobInv, Rest, Ended, Final, Writing
<1>10. CASE SkipStep(r) \/ StepFails(r)
  <2>1. /\ pc[r] = "loop" /\ pc'[r] \in {"failed", "loop"}
        /\ ctx'[r] = ctx[r] /\ latest' = latest /\ wf'[r] = wf[r]
        /\ UNCHANGED <<store, unlinked, durable, passes, wfFile>>
    BY <1>1, <1>10 DEF SkipStep, StepFails, InLoop, TypeOK, envVars, procVars, history
  <2>2. QED
    BY <1>0, <1>1, <1>3, <2>1, QuietStep DEF JobInv, Rest, Ended, Final, Writing
<1>11. CASE Complete(r)
  <2>1. /\ pc[r] = "loop" /\ pc'[r] = "finalSave"
        /\ ctx'[r] = ctx[r] /\ latest' = latest /\ wf'[r] = wf[r] /\ ran'[r] = ran[r]
        /\ UNCHANGED <<store, unlinked, durable, passes, wfFile>>
    BY <1>1, <1>11 DEF Complete, TypeOK, envVars, procVars, history
  <2>2. Done(ctx[r]) = durable /\ (store.status = "intact" => store.ctx = ctx[r])
    BY <1>1, <2>1 DEF JobInv
  <2>3. wfFile.steps \subseteq Done(ctx[r])
    <3>1. ran[r] \cap wf[r].pause = {}
      BY <1>1, <2>1 DEF ProcInv, PauseInv
    <3>2. FinalInv(r)'
      BY DEF IInv, ProcInv
    <3>3. wf[r] = wfFile
      BY <1>0, ActorIsAlone
    <3>4. QED
      BY <2>1, <3>1, <3>2, <3>3 DEF FinalInv, Done
  <2>4. durable = wfFile.steps
    BY <1>1, <2>2, <2>3 DEF CountAt
  <2>5. QED
    BY <1>0, <1>3, <2>1, <2>2, <2>4, QuietStep DEF Rest, Ended, Final, Writing
<1>12. QED
  BY <1>5, <1>6, <1>7, <1>8, <1>9, <1>10, <1>11

\* What is loaded is what is durable.
LEMMA LoadStep ==
  ASSUME Sequential, SInv, IInv', NEW r \in Run, LoadState(r)
  PROVE  SInv'
<1>0. Acts(r)
  BY DEF Acts, Progress
<1>1. FileAt(r) /\ JobInv(r) /\ CountAt(r) /\ TypeOK
  BY <1>0, ActorAt DEF SInv, IInv
<1>2. pc[r] = "load" /\ store.status = "intact"
  BY <1>1 DEF LoadState, JobInv
<1>3. /\ pc'[r] = "graph" /\ ctx'[r] = store.ctx /\ latest' = latest /\ wf'[r] = wf[r]
      /\ UNCHANGED <<store, unlinked, durable, passes, wfFile>>
  BY <1>1, <1>2 DEF LoadState, Fault, Sequential, TypeOK, envVars, procVars
<1>4. Done(ctx[r])' = durable
  BY <1>1, <1>2, <1>3 DEF FileAt, Done
<1>5. FileAt(r)' /\ CountAt(r)' /\ JobInv(r)'
  BY <1>1, <1>2, <1>3, <1>4
  DEF FileAt, CountAt, JobInv, Approvals, Done, Writing, Final
<1>6. latest = r /\ wf[r].steps # {}
  BY <1>0, <1>2, ActorIsAlone
<1>7. QED
  BY <1>0, <1>3, <1>5, <1>6, Assemble

\* -fresh starts the ledger again.
LEMMA DeleteStep ==
  ASSUME Sequential, SInv, IInv', NEW r \in Run, FreshDelete(r)
  PROVE  SInv'
<1>0. Acts(r)
  BY DEF Acts, Progress
<1>1. FileAt(r) /\ JobInv(r) /\ CountAt(r) /\ TypeOK
  BY <1>0, ActorAt DEF SInv, IInv
<1>2. pc[r] = "remove" /\ store.status = "intact"
  BY <1>1 DEF FreshDelete, JobInv
<1>3. /\ pc'[r] = "exists" /\ store' = [status |-> "absent", ctx |-> Empty]
      /\ unlinked' = unlinked \cup {q \in Run : pc[q] \in Writing}
      /\ durable' = {} /\ passes' = 0
      /\ latest' = latest /\ wf'[r] = wf[r] /\ wfFile' = wfFile
  BY <1>1, <1>2 DEF FreshDelete, TypeOK, envVars, procVars
<1>4. \A q \in Run : pc[q] \notin Writing
  BY <1>0, <1>2, ActorIsAlone DEF Rest, Ended, Writing
<1>5. Approvals' = 0
  <2>1. wfFile'.pause \cap durable' = {}
    BY <1>3
  <2>2. QED
    BY <2>1, FS_EmptySet DEF Approvals
<1>6. FileAt(r)'
  BY <1>1, <1>3, <1>4 DEF FileAt
<1>7. CountAt(r)' /\ JobInv(r)'
  BY <1>3, <1>5 DEF CountAt, JobInv, Writing, Final
<1>8. latest = r /\ wf[r].steps # {}
  BY <1>0, <1>2, ActorIsAlone
<1>9. QED
  BY <1>0, <1>3, <1>6, <1>7, <1>8, Assemble

\* A module runs for a step that is not durable, after its dependencies.
LEMMA RunStep ==
  ASSUME Sequential, SInv, IInv', NEW r \in Run, RunModule(r)
  PROVE  SInv' /\ Current(r) \in Step \ durable
<1>0. Acts(r)
  BY DEF Acts, Progress
<1>1. FileAt(r) /\ JobInv(r) /\ CountAt(r) /\ TypeOK /\ ProcInv(r)
  BY <1>0, ActorAt DEF SInv, IInv
<1> DEFINE s == Current(r)
           v == IF s \in wf[r].unsaved THEN "note" ELSE "output"
<1>2. /\ pc[r] = "loop" /\ pc'[r] = "save" /\ idx[r] \in DOMAIN order[r]
      /\ order'[r] = order[r] /\ idx'[r] = idx[r] /\ wf'[r] = wf[r] /\ latest' = latest
      /\ ctx' = [ctx EXCEPT ![r][s] = v]
      /\ s \notin Done(ctx[r]) /\ wf[r].deps[s] \subseteq Done(ctx[r])
      /\ UNCHANGED <<store, unlinked, durable, passes, wfFile>>
  BY <1>1 DEF RunModule, Runnable, InLoop, TypeOK, envVars, procVars
<1>3. s \in Step /\ s \in wf[r].steps
  BY <1>1, <1>2, CurrentIsStep, CurrentIsOfWorkflow DEF ProcInv, Looping
<1>4. Current(r)' = s
  BY <1>2 DEF Current
<1>5. Done(ctx[r]) = durable
  BY <1>1, <1>2 DEF JobInv
<1>6. Done(ctx'[r]) = durable \cup {s}
  BY <1>1, <1>2, <1>3, <1>5, DoneOfRecord DEF TypeOK
<1>7. latest = r /\ wf[r].steps # {} /\ wf[r] = wfFile
  BY <1>0, <1>2, ActorIsAlone
<1> HIDE DEF s, v
<1>8. JobInv(r)'
  <2>1. Done(ctx[r])' = Done(ctx'[r])
    BY DEF Done
  <2>2. QED
    BY <1>2, <1>3, <1>4, <1>5, <1>6, <1>7, <2>1 DEF JobInv, Writing, Final
<1>9. FileAt(r)' /\ CountAt(r)'
  BY <1>1, <1>2 DEF FileAt, CountAt, Approvals, Done, Writing, Final
<1>10. SInv'
  BY <1>0, <1>2, <1>7, <1>8, <1>9, Assemble
<1>11. QED
  BY <1>2, <1>3, <1>5, <1>10 DEF s

\* Opening the file empties it; what it said is in the job's context.
LEMMA OpenStep ==
  ASSUME Sequential, SInv, IInv', NEW r \in Run, SaveOpen(r)
  PROVE  SInv'
<1>0. Acts(r)
  BY DEF Acts, Progress
<1>1. FileAt(r) /\ JobInv(r) /\ CountAt(r) /\ TypeOK
  BY <1>0, ActorAt DEF SInv, IInv
<1>2. /\ \/ pc[r] = "save" /\ pc'[r] = "write"
         \/ pc[r] = "finalSave" /\ pc'[r] = "finalWrite"
      /\ store' = [status |-> "empty", ctx |-> Empty]
      /\ unlinked' = unlinked \ {r}
      /\ ctx'[r] = ctx[r] /\ order'[r] = order[r] /\ idx'[r] = idx[r]
      /\ wf'[r] = wf[r] /\ latest' = latest
      /\ UNCHANGED <<durable, passes, wfFile>>
  BY <1>1 DEF SaveOpen, TypeOK, envVars, procVars, history
<1>3. latest = r /\ wf[r].steps # {}
  BY <1>0, <1>2, ActorIsAlone
<1>4. Done(ctx[r])' = Done(ctx[r]) /\ Current(r)' = Current(r)
  BY <1>2 DEF Done, Current
<1>5. FileAt(r)' /\ JobInv(r)'
  BY <1>1, <1>2, <1>4 DEF FileAt, JobInv, Writing, Final
<1>6. CountAt(r)'
  BY <1>1, <1>2 DEF CountAt, Approvals, Final
<1>7. QED
  BY <1>0, <1>2, <1>3, <1>5, <1>6, Assemble

\* At the final save something is durable, and before the workflow is complete a pause
\* step that this job ran is.
LEMMA AtFinalSave ==
  ASSUME Sequential, SInv, NEW r \in Run, Acts(r), pc[r] \in Final
  PROVE  /\ durable # {}
         /\ durable = wfFile.steps \/ ran[r] \cap wfFile.pause \cap durable # {}
<1>1. JobInv(r) /\ CountAt(r) /\ ProcInv(r) /\ wf[r] = wfFile /\ wf[r].steps # {}
  BY ActorAt, ActorIsAlone DEF SInv, IInv, Final
<1>2. Done(ctx[r]) = durable
  BY <1>1 DEF JobInv
<1>3. ran[r] \subseteq durable
  BY <1>1, <1>2 DEF ProcInv, DoneInv
<1>4. wfFile.steps \subseteq durable \/ ran[r] \cap wfFile.pause # {}
  BY <1>1, <1>2 DEF ProcInv, FinalInv, Final
<1>5. QED
  BY <1>1, <1>3, <1>4 DEF CountAt

\* A refused save leaves the old file: at the end of a run it says the same.
LEMMA RefusedStep ==
  ASSUME Sequential, SInv, IInv', NEW r \in Run, SaveRefused(r)
  PROVE  /\ SInv'
         /\ pc'[r] = "done" => store'.status = "intact" /\ store'.ctx = ctx[r]
<1>0. Acts(r)
  BY DEF Acts, Progress
<1>1. FileAt(r) /\ JobInv(r) /\ CountAt(r) /\ TypeOK
  BY <1>0, ActorAt DEF SInv, IInv
<1>2. latest = r /\ wf[r].steps # {}
  BY <1>0, ActorIsAlone DEF SaveRefused
<1>3. CASE pc[r] = "save"
  <2>1. /\ pc'[r] = "failed" /\ ctx'[r] = ctx[r]
        /\ UNCHANGED <<store, unlinked, durable, passes, wfFile>>
    BY <1>1, <1>3 DEF SaveRefused, AfterFailedSave, Passed, TypeOK, envVars
  <2>2. QED
    BY <1>0, <1>3, <2>1, QuietStep DEF Rest, Ended, Final, Writing
<1>4. CASE pc[r] = "finalSave"
  <2>1. /\ pc'[r] = "done" /\ passes' = passes + 1 /\ ctx'[r] = ctx[r]
        /\ UNCHANGED <<store, unlinked, durable, wfFile>>
    BY <1>1, <1>4 DEF SaveRefused, AfterFailedSave, Passed, TypeOK, envVars
  <2>2. store.status = "intact" /\ store.ctx = ctx[r]
    <3>1. store.status \notin {"absent", "empty", "torn"}
      BY <1>0, <1>1, <1>4, AtFinalSave DEF FileAt, Final, Writing
    <3>2. QED
      BY <1>1, <1>4, <3>1 DEF TypeOK, JobInv
  <2>3. Approvals \in Nat
    BY <1>1, WorkflowsAssumption, StepAssumption, FS_Subset, FS_CardinalityType
    DEF Approvals, TypeOK, WorkflowType
  <2>4. CountAt(r)'
    BY <1>1, <1>4, <2>1, <2>3 DEF CountAt, Approvals, Final, TypeOK
  <2>5. FileAt(r)' /\ JobInv(r)'
    BY <1>1, <2>1, <2>2 DEF FileAt, JobInv, Done, Final, Writing
  <2>6. QED
    BY <1>0, <2>1, <2>2, <2>4, <2>5, Assemble DEF Rest, Ended
<1>5. QED
  BY <1>3, <1>4 DEF SaveRefused

\* A write makes the context durable: the step just run, or at the end nothing new.
LEMMA WriteStep ==
  ASSUME Sequential, SInv, IInv', NEW r \in Run, SaveWrite(r)
  PROVE  /\ SInv'
         /\ store'.status = "intact" /\ store'.ctx = ctx[r]
         /\ durable' = IF pc[r] = "write" THEN durable \cup {Current(r)} ELSE durable
<1>0. Acts(r)
  BY DEF Acts, Progress
<1>1. FileAt(r) /\ JobInv(r) /\ CountAt(r) /\ TypeOK /\ TypeOK' /\ ProcInv(r)
  BY <1>0, ActorAt DEF SInv, IInv
<1>2. latest = r /\ wf[r].steps # {} /\ wf[r] = wfFile
  BY <1>0, ActorIsAlone DEF SaveWrite, Writing
<1>3. store.status = "empty" /\ r \notin unlinked
  BY <1>1 DEF SaveWrite, JobInv, FileAt
<1>4. /\ pc[r] \in Writing /\ pc'[r] = AfterSave(r)
      /\ store' = [status |-> "intact", ctx |-> ctx[r]]
      /\ durable' = durable \cup Done(ctx[r])
      /\ passes' = IF pc'[r] = "done" THEN passes + 1 ELSE passes
      /\ ctx'[r] = ctx[r] /\ wf'[r] = wf[r] /\ latest' = latest
      /\ unlinked' = unlinked /\ wfFile' = wfFile
  BY <1>1, <1>3 DEF SaveWrite, Passed, TypeOK, envVars, procVars
<1>5. durable' = IF pc[r] = "write" THEN durable \cup {Current(r)} ELSE durable
  BY <1>1, <1>4 DEF JobInv, Writing, Final
<1>6. durable' = Done(ctx[r])
  BY <1>1, <1>4 DEF JobInv, Writing, Final
<1>7. FileAt(r)'
  BY <1>1, <1>4, <1>6 DEF FileAt, Done
<1>8. pc'[r] \in {"loop", "finalSave", "done"}
  BY <1>4 DEF AfterSave
<1>9. JobInv(r)'
  BY <1>4, <1>6, <1>8 DEF JobInv, Done, Writing, Final
<1>10. CASE pc[r] = "finalWrite"
  <2>1. pc'[r] = "done" /\ passes' = passes + 1 /\ durable' = durable
    BY <1>4, <1>5, <1>10 DEF AfterSave
  <2>2. Approvals \in Nat
    BY <1>1, WorkflowsAssumption, StepAssumption, FS_Subset, FS_CardinalityType
    DEF Approvals, TypeOK, WorkflowType
  <2>3. Approvals' = Approvals
    BY <1>4, <2>1 DEF Approvals
  <2>4. durable # wfFile.steps => passes < Approvals
    BY <1>1, <1>10 DEF CountAt, Final
  <2>5. CountAt(r)'
    BY <1>1, <1>4, <2>1, <2>2, <2>3, <2>4 DEF CountAt, Final, TypeOK
  <2>6. QED
    BY <1>0, <1>4, <1>5, <1>7, <1>9, <2>1, <2>5, Assemble DEF Rest, Ended
<1>11. CASE pc[r] = "write"
  <2> DEFINE s == Current(r)
  <2>1. s \in wfFile.steps \ durable /\ s \in Step
    BY <1>1, <1>11, CurrentIsStep DEF JobInv, ProcInv, SavingInv
  <2>2. pc'[r] = IF s \in wfFile.pause THEN "finalSave" ELSE "loop"
    BY <1>2, <1>4, <1>11 DEF AfterSave
  <2>3. durable' = durable \cup {s} /\ passes' = passes
    BY <1>4, <1>5, <1>8, <1>11, <2>2
  <2> HIDE DEF s
  <2>4. /\ Approvals \in Nat
        /\ Approvals' = IF s \in wfFile.pause THEN Approvals + 1 ELSE Approvals
    BY <1>1, <1>4, <2>1, <2>3, ApprovalsGrow DEF Approvals
  <2>5. durable # wfFile.steps /\ durable' \subseteq wfFile.steps
    BY <1>1, <2>1, <2>3 DEF CountAt
  <2>6. passes <= Approvals /\ passes \in Nat
    BY <1>1, <2>5 DEF CountAt, TypeOK
  <2>7. CountAt(r)'
    BY <1>4, <2>2, <2>3, <2>4, <2>5, <2>6 DEF CountAt, Final
  <2>8. QED
    BY <1>0, <1>2, <1>4, <1>5, <1>7, <1>9, <2>7, Assemble
<1>12. QED
  BY <1>4, <1>10, <1>11 DEF Writing

LEMMA NextSInv ==
  ASSUME Sequential, SInv, [Next]_vars
  PROVE  SInv'
<1>1. IInv'
  BY NextIInv DEF SInv
<1>2. CASE EditWorkflow
  BY <1>2 DEF EditWorkflow, Sequential, SInv, IInv, TypeOK
<1>3. ASSUME NEW r \in Run, Acts(r) PROVE SInv'
  <2>1. ~ SaveFails(r)
    BY DEF SaveFails, Fault, Sequential
  <2>2. QED
    BY <1>1, <1>3, <2>1, QuietActions, LoadStep, DeleteStep, RunStep, OpenStep,
       RefusedStep, WriteStep DEF Acts, Progress
<1>4. CASE AllEnded \/ UNCHANGED vars
  <2>1. UNCHANGED vars
    BY <1>4 DEF AllEnded
  <2>2. AloneInv' /\ FileInv' /\ CountInv'
    BY <2>1 DEF SInv, AloneInv, FileInv, CountInv, Approvals, Done, vars
  <2>3. \A r \in Run : JobInv(r)'
    BY <2>1 DEF SInv, JobInv, Current, Done, vars
  <2>4. QED
    BY <1>1, <2>2, <2>3 DEF SInv
<1>5. QED
  BY <1>2, <1>3, <1>4 DEF Next, Acts

\* The inductive invariant of jobs that run one after the other.
THEOREM SequentialInvariance ==
  ASSUME Sequential
  PROVE  Spec => []SInv
<1>1. Init => SInv
  BY InitSInv
<1>2. SInv /\ [Next]_vars => SInv'
  BY NextSInv
<1>3. QED
  BY <1>1, <1>2, PTL DEF Spec

\* No approved resume is lost: one more job that exits with 0 than there are pause steps
\* completes the workflow, whatever crashed or was refused in between.
THEOREM ResumesBounded ==
  ASSUME Sequential
  PROVE  Spec => []ResumesAreBounded
<1>1. SInv => ResumesAreBounded
  <2> SUFFICES ASSUME SInv PROVE ResumesAreBounded
    OBVIOUS
  <2>1. wfFile.pause \in SUBSET Step /\ passes \in Nat
    BY WorkflowsAssumption DEF SInv, IInv, TypeOK, WorkflowType
  <2>2. IsFiniteSet(wfFile.pause)
    BY <2>1, StepAssumption, FS_Subset
  <2>3. Approvals <= Cardinality(wfFile.pause) /\ Approvals \in Nat
        /\ Cardinality(wfFile.pause) \in Nat
    BY <2>2, FS_Subset, FS_CardinalityType DEF Approvals
  <2>4. durable # wfFile.steps => passes <= Approvals
    BY DEF SInv, CountInv
  <2>5. QED
    BY <2>1, <2>3, <2>4 DEF ResumesAreBounded
<1>2. QED
  BY <1>1, SequentialInvariance, PTL

\* A step that is recorded is never run again before the state is removed.
THEOREM SavedStepsRunOnce ==
  ASSUME Sequential
  PROVE  Spec => SavedStepsNeverRunAgain
<1>1. SInv /\ SInv' /\ [Next]_vars => [\A r \in Run : (ran'[r] \ ran[r]) \cap durable = {}]_vars
  <2> SUFFICES ASSUME SInv, SInv', [Next]_vars, NEW q \in Run
               PROVE  (ran'[q] \ ran[q]) \cap durable = {}
    OBVIOUS
  <2>1. ASSUME NEW r \in Run, RunModule(r) PROVE ran'[q] \ ran[q] \subseteq {Current(r)}
    BY <2>1 DEF RunModule, SInv, IInv, TypeOK
  <2>2. ASSUME NEW r \in Run, RunModule(r) PROVE Current(r) \notin durable
    BY <2>2, RunStep DEF SInv
  <2>3. (\E r \in Run : RunModule(r)) \/ ran' = ran
    BY DEF Next, Progress, EditWorkflow, Launch, Crash, FreshExists, FreshExistsFails,
      FreshDelete, StateExists, LoadState, BuildGraph, SkipStep, StepFails, Complete,
      SaveOpen, SaveRefused, SaveWrite, SaveFails, AllEnded, history, vars
  <2>4. QED
    BY <2>1, <2>2, <2>3
<1>2. QED
  BY <1>1, SequentialInvariance, PTL DEF Spec, SavedStepsNeverRunAgain

\* A job that exits with 0 leaves exactly its context in the state file, also when its
\* last save was refused and only logged.
THEOREM ExitZeroIsSaved ==
  ASSUME Sequential
  PROVE  Spec => ExitZeroMeansSaved
<1> DEFINE A == \A r \in Run : pc[r] # "done" /\ pc'[r] = "done"
                  => store'.status = "intact" /\ store'.ctx = ctx[r]
<1>1. SInv /\ SInv' /\ [Next]_vars => [A]_vars
  <2> SUFFICES ASSUME SInv, SInv', [Next]_vars, NEW r \in Run,
                      pc[r] # "done", pc'[r] = "done"
               PROVE  store'.status = "intact" /\ store'.ctx = ctx[r]
    OBVIOUS
  <2>1. TypeOK
    BY DEF SInv, IInv
  <2>2. ASSUME NEW q \in Run \ {r}, Acts(q) PROVE FALSE
    BY <2>1, <2>2, OthersSame DEF Acts, Same
  <2>3. Acts(r)
    BY <2>2 DEF Next, Acts, EditWorkflow, AllEnded, vars
  <2>4. SaveRefused(r) \/ SaveWrite(r)
    BY <2>1, <2>3 DEF Acts, Progress, Launch, Crash, FreshExists, FreshExistsFails,
      FreshDelete, StateExists, LoadState, BuildGraph, SkipStep, RunModule, StepFails,
      Complete, SaveOpen, SaveFails, Fault, Sequential, TypeOK
  <2>5. QED
    BY <2>4, RefusedStep, WriteStep DEF SInv
<1>2. QED
  BY <1>1, SequentialInvariance, PTL DEF Spec, ExitZeroMeansSaved

-----------------------------------------------------------------------------
(* The refinement: a write after a step is Enter, -fresh is Reset, a new   *)
(* job is Approve, and everything else stutters.                           *)

LEMMA InitialLedger == Init => Ledger!Init
  BY DEF Init, Ledger!Init, Waiting

LEMMA LedgerStep ==
  ASSUME Sequential, SInv, [Next]_vars
  PROVE  [Ledger!Next]_<<wfFile, durable, Waiting>>
<1> USE DEF Ledger!Next
<1>0. TypeOK /\ \A r \in Run : ProcInv(r)
  BY DEF SInv, IInv
<1>1. CASE EditWorkflow
  BY <1>1 DEF EditWorkflow, Sequential, SInv, IInv, TypeOK
<1>2. ASSUME NEW r \in Run, Launch(r) PROVE Ledger!Next
  <2>1. ran'[r] = {} /\ latest' = r /\ UNCHANGED <<wfFile, durable>>
    BY <1>0, <1>2 DEF Launch, ProcInv, EarlyInv, Early, envVars
  <2>2. Waiting' = FALSE
    BY <2>1 DEF Waiting
  <2>3. QED
    BY <2>1, <2>2 DEF Ledger!Approve
<1>3. ASSUME NEW r \in Run, Progress(r) PROVE [Ledger!Next]_<<wfFile, durable, Waiting>>
  <2>1. Acts(r) /\ IInv'
    BY <1>3, NextIInv DEF Acts, SInv
  <2>2. latest = r /\ wf[r] = wfFile /\ wfFile' = wfFile
    <3>1. pc[r] # "idle"
      BY <1>3 DEF Progress, FreshExists, FreshExistsFails, FreshDelete, StateExists,
        LoadState, BuildGraph, SkipStep, RunModule, StepFails, Complete, SaveOpen,
        SaveRefused, SaveWrite, SaveFails, InLoop, Writing
    <3>2. QED
      BY <2>1, <3>1, ActorIsAlone
  <2>3. latest' = latest
    BY <1>3 DEF Progress, FreshExists, FreshExistsFails, FreshDelete, StateExists,
      LoadState, BuildGraph, SkipStep, RunModule, StepFails, Complete, SaveOpen,
      SaveRefused, SaveWrite, SaveFails, history
  <2>4. latest # NoRun
    BY <2>2, NoRunAssumption
  <2>5. CASE FreshDelete(r)
    <3>1. ran[r] = {} /\ ran' = ran
      BY <1>0, <2>5 DEF FreshDelete, ProcInv, EarlyInv, Early
    <3>2. durable' = {} \/ durable' = durable
      BY <2>5 DEF FreshDelete
    <3>3. Waiting = FALSE /\ Waiting' = FALSE
      BY <2>2, <2>3, <2>4, <3>1 DEF Waiting
    <3>4. QED
      BY <2>2, <3>2, <3>3 DEF Ledger!Reset
  <2>6. CASE RunModule(r)
    <3>1. ran'[r] = ran[r] \cup {Current(r)} /\ durable' = durable
      BY <1>0, <2>6 DEF RunModule, TypeOK
    <3>2. Current(r) \notin durable
      BY <2>1, <2>6, RunStep
    <3>3. Waiting' = Waiting
      BY <2>2, <2>3, <2>4, <3>1, <3>2 DEF Waiting
    <3>4. QED
      BY <2>2, <3>1, <3>3
  <2>7. CASE SaveWrite(r) /\ pc[r] = "write"
    <3> DEFINE s == Current(r)
    <3>1. /\ s \in wfFile.steps /\ s \notin durable /\ wfFile.deps[s] \subseteq durable
      BY <2>1, <2>2, <2>7, ActorAt DEF JobInv
    <3>2. s \in ran[r] /\ ran[r] \cap wfFile.pause \subseteq {s}
      BY <1>0, <2>2, <2>7 DEF ProcInv, SavingInv, PauseInv
    <3>3. durable' = durable \cup {s} /\ ran' = ran
      BY <2>1, <2>7, WriteStep DEF SaveWrite
    <3> HIDE DEF s
    <3>4. Waiting = FALSE
      BY <2>2, <3>1, <3>2 DEF Waiting
    <3>5. Waiting' = (s \in wfFile.pause)
      BY <2>2, <2>3, <2>4, <3>2, <3>3 DEF Waiting
    <3>6. Ledger!Enter(s)
      BY <3>1, <3>3, <3>4, <3>5 DEF Ledger!Enter
    <3>7. QED
      BY <2>2, <3>1, <3>6
  <2>8. CASE SaveWrite(r) /\ pc[r] # "write"
    <3>1. durable' = durable /\ ran' = ran
      BY <2>1, <2>8, WriteStep DEF SaveWrite
    <3>2. QED
      BY <2>2, <2>3, <3>1 DEF Waiting
  <2>9. CASE ran' = ran /\ durable' = durable
    BY <2>2, <2>3, <2>9 DEF Waiting
  <2>10. QED
    BY <1>3, <2>5, <2>6, <2>7, <2>8, <2>9 DEF Progress, FreshExists, FreshExistsFails,
      StateExists, LoadState, BuildGraph, SkipStep, StepFails, Complete, SaveOpen,
      SaveRefused, SaveFails, history
<1>4. ASSUME NEW r \in Run, Crash(r) PROVE UNCHANGED <<wfFile, durable, Waiting>>
  BY <1>4 DEF Crash, Waiting, envVars, history
<1>5. CASE AllEnded \/ UNCHANGED vars
  BY <1>5 DEF AllEnded, Waiting, vars
<1>6. QED
  BY <1>1, <1>2, <1>3, <1>4, <1>5 DEF Next

\* The state file implements the ledger of completed steps.
THEOREM LedgerImplemented ==
  ASSUME Sequential
  PROVE  Spec => ImplementsLedger
<1>1. Init => Ledger!Init
  BY InitialLedger
<1>2. SInv /\ [Next]_vars => [Ledger!Next]_<<wfFile, durable, Waiting>>
  BY LedgerStep
<1>3. QED
  BY <1>1, <1>2, SequentialInvariance, PTL DEF Spec, ImplementsLedger, Ledger!Spec
=============================================================================
