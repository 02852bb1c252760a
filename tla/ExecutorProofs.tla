--------------------------- MODULE ExecutorProofs ---------------------------
(***************************************************************************)
(* Safety of Executor for any number of steps, processes, workflows, edits *)
(* and faults.                                                             *)
(***************************************************************************)
EXTENDS Executor, FiniteSetTheorems, TLAPS

-----------------------------------------------------------------------------
(* The inductive invariant: what is known of one process at each pc ...    *)

Early == {"idle", "fresh", "remove", "exists", "load"}
Looping == {"loop", "save", "write"}

\* Until the loop is entered nothing has been run, and the loop starts at 1.
EarlyInv(r) ==
  /\ pc[r] \in Early \cup {"graph"} => ran[r] = {} /\ idx[r] = 1
  /\ pc[r] \in Early => ctx[r] = Empty /\ loaded[r] = {}

\* execCtx holds what was loaded and what was run, nothing else.
DoneInv(r) == Done(ctx[r]) = loaded[r] \cup ran[r]

\* In the loop the order is one of topologicalSort's and what is behind idx is done.
LoopInv(r) ==
  pc[r] \in Looping =>
    /\ order[r] \in KahnOrders(wf[r].steps, wf[r].deps)
    /\ idx[r] >= 1
    /\ \A j \in DOMAIN order[r] : j < idx[r] => order[r][j] \in Done(ctx[r])

\* While a step is saved, it is the current one and has just been run.
SavingInv(r) ==
  pc[r] \in {"save", "write"} =>
    idx[r] \in DOMAIN order[r] /\ Current(r) \in Done(ctx[r]) /\ Current(r) \in ran[r]

\* A process that goes on has not run a pause step, unless it is saving it.
PauseInv(r) ==
  /\ pc[r] = "loop" => ran[r] \cap wf[r].pause = {}
  /\ pc[r] \in {"save", "write"} => ran[r] \cap wf[r].pause \subseteq {Current(r)}

\* The final save is reached with a complete context or after a pause step.
FinalInv(r) ==
  pc[r] \in {"finalSave", "finalWrite", "done"} =>
    wf[r].steps \subseteq Done(ctx[r]) \/ ran[r] \cap wf[r].pause # {}

GateInv(r) ==
  \A s \in ran[r] :
    Ancestors(wf[r].steps, wf[r].deps, s) \cap wf[r].pause \subseteq loaded[r]

ProcInv(r) ==
  /\ EarlyInv(r) /\ DoneInv(r) /\ LoopInv(r) /\ SavingInv(r)
  /\ PauseInv(r) /\ FinalInv(r) /\ GateInv(r)

(* ... and what every context and the state file have in common as long as *)
(* the workflow file is not edited.                                        *)

\* A context that only the workflow w has written to.
Faithful(c, w) ==
  /\ DepsClosed(Done(c), w.deps)
  /\ \A s \in Step : c[s] = "note" => s \in w.unsaved

UneditedInv ==
  edits = 0 =>
    /\ \A r \in Run : wf[r] = wfFile /\ Faithful(ctx[r], wfFile)
    /\ store.status = "intact" => Faithful(store.ctx, wfFile)

IInv == TypeOK /\ (\A r \in Run : ProcInv(r)) /\ UneditedInv

-----------------------------------------------------------------------------
(* Facts about contexts and orders.                                        *)

LEMMA DoneOfEmpty == Done(Empty) = {}
  BY DEF Done, Empty

\* Recording step s of process r adds s to what is done there.
LEMMA DoneOfRecord ==
  ASSUME NEW r \in Run, NEW s \in Step, NEW v \in {"output", "note"},
         ctx \in [Run -> [Step -> Outcome]], ctx' = [ctx EXCEPT ![r][s] = v]
  PROVE  /\ ctx' \in [Run -> [Step -> Outcome]]
         /\ Done(ctx'[r]) = Done(ctx[r]) \cup {s}
         /\ \A q \in Run \ {r} : ctx'[q] = ctx[q]
         /\ \A t \in Step : ctx'[r][t] = IF t = s THEN v ELSE ctx[r][t]
<1>1. \A t \in Step : ctx'[r][t] = IF t = s THEN v ELSE ctx[r][t]
  BY DEF Outcome
<1>2. ctx' \in [Run -> [Step -> Outcome]] /\ \A q \in Run \ {r} : ctx'[q] = ctx[q]
  BY DEF Outcome
<1>3. Done(ctx'[r]) = Done(ctx[r]) \cup {s}
  BY <1>1, <1>2 DEF Done
<1>4. QED
  BY <1>1, <1>2, <1>3

\* Workflows have finitely many steps, so that their orders are sequences.
LEMMA OrdersAreSequences ==
  ASSUME NEW w \in Workflows, NEW o \in KahnOrders(w.steps, w.deps)
  PROVE  /\ o \in Seq(Step) /\ o \in Seq(w.steps)
         /\ IsTopologicalOrder(w.steps, w.deps, o)
<1>1. w.steps \subseteq Step
  BY WorkflowsAssumption DEF WorkflowType
<1>2. Cardinality(w.steps) \in Nat
  BY <1>1, StepAssumption, FS_Subset, FS_CardinalityType
<1>3. o \in [1..Cardinality(w.steps) -> w.steps] /\ IsTopologicalOrder(w.steps, w.deps, o)
  BY DEF KahnOrders, IsKahnOrder
<1>4. o \in Seq(w.steps) /\ Len(o) = Cardinality(w.steps)
  BY <1>2, <1>3
<1>5. QED
  BY <1>1, <1>3, <1>4

\* In a topological order every ancestor of a step stands before it.
LEMMA AncestorsStandBefore ==
  ASSUME NEW S, NEW deps, NEW o \in Seq(S), IsTopologicalOrder(S, deps, o),
         NEW i \in DOMAIN o
  PROVE  \A t \in Ancestors(S, deps, o[i]) : \E j \in 1..(i - 1) : o[j] = t
<1> DEFINE C == {o[j] : j \in 1..(i - 1)}
<1>1. C \in SUBSET S
  OBVIOUS
<1>2. deps[o[i]] \subseteq C
  BY DEF IsTopologicalOrder
<1>3. DepsClosed(C, deps)
  <2> SUFFICES ASSUME NEW j \in 1..(i - 1), NEW d \in deps[o[j]] PROVE d \in C
    BY DEF DepsClosed
  <2>1. PICK k \in 1..(j - 1) : o[k] = d
    BY DEF IsTopologicalOrder
  <2>2. k \in 1..(i - 1)
    OBVIOUS
  <2>3. QED
    BY <2>1, <2>2
<1>4. QED
  BY <1>1, <1>2, <1>3 DEF Ancestors

-----------------------------------------------------------------------------
(* Type correctness.                                                       *)

\* The current step of a process in the loop is a step.
LEMMA CurrentIsStep ==
  ASSUME TypeOK, NEW r \in Run, idx[r] \in DOMAIN order[r]
  PROVE  Current(r) \in Step
  BY DEF TypeOK, Current

LEMMA InitTypeOK == Init => TypeOK
<1> SUFFICES ASSUME Init PROVE TypeOK
  OBVIOUS
<1>1. Empty \in [Step -> Outcome]
  BY DEF Empty, Outcome
<1>2. <<>> \in Seq(Step)
  OBVIOUS
<1>3. QED
  BY <1>1, <1>2, BoundsAssumption DEF Init, TypeOK, PC

LEMMA TypeStep ==
  ASSUME TypeOK, [Next]_vars
  PROVE  TypeOK'
<1> USE DEF TypeOK, PC, Ended, Writing
<1>0. Empty \in [Step -> Outcome]
  BY DEF Empty, Outcome
<1>1. CASE EditWorkflow
  BY <1>1, BoundsAssumption DEF EditWorkflow, procVars, history
<1>2. ASSUME NEW r \in Run, Launch(r) PROVE TypeOK'
  BY <1>2 DEF Launch, envVars
<1>3. ASSUME NEW r \in Run, Crash(r) PROVE TypeOK'
  BY <1>3, BoundsAssumption DEF Crash, Fault, envVars, procVars, history
<1>4. ASSUME NEW r \in Run, Progress(r) PROVE TypeOK'
  <2>1. CASE FreshExists(r)
    BY <2>1 DEF FreshExists, envVars, procVars, history
  <2>2. CASE FreshExistsFails(r)
    BY <2>2, BoundsAssumption DEF FreshExistsFails, Fault, envVars, procVars, history
  <2>3. CASE FreshDelete(r)
    <3>1. pc' \in [Run -> PC]
      BY <2>3 DEF FreshDelete
    <3>2. /\ store' \in [status : {"absent", "empty", "torn", "intact"},
                        ctx : [Step -> Outcome]]
          /\ unlinked' \in SUBSET Run
          /\ durable' \in SUBSET Step
          /\ passes' \in Nat
      BY <1>0, <2>3 DEF FreshDelete
    <3>3. UNCHANGED <<envVars, faults, ctx, idx, procVars, loaded, ran, latest>>
      BY <2>3 DEF FreshDelete
    <3> HIDE <2>3
    <3>4. QED
      BY <3>1, <3>2, <3>3 DEF envVars, procVars
  <2>4. CASE StateExists(r)
    <3>1. pc' \in [Run -> PC]
      BY <2>4 DEF StateExists
    <3>2. faults' \in 0..MaxFaults
      BY <2>4, BoundsAssumption DEF StateExists, Fault
    <3>3. UNCHANGED <<envVars, store, unlinked, ctx, idx, procVars, history>>
      BY <2>4 DEF StateExists
    <3>4. QED
      BY <3>1, <3>2, <3>3 DEF envVars, procVars, history
  <2>5. CASE LoadState(r)
    <3>1. Done(store.ctx) \in SUBSET Step
      BY DEF Done
    <3>2. faults' \in 0..MaxFaults
      BY <2>5, BoundsAssumption DEF LoadState, Fault
    <3>3. ctx' \in [Run -> [Step -> Outcome]] /\ loaded' \in [Run -> SUBSET Step]
      <4>1. \/ /\ ctx' = [ctx EXCEPT ![r] = store.ctx]
               /\ loaded' = [loaded EXCEPT ![r] = Done(store.ctx)]
            \/ UNCHANGED <<ctx, loaded>>
        BY <2>5 DEF LoadState
      <4>2. store.ctx \in [Step -> Outcome]
        OBVIOUS
      <4>3. CASE UNCHANGED <<ctx, loaded>>
        BY <4>3
      <4>4. CASE /\ ctx' = [ctx EXCEPT ![r] = store.ctx]
                 /\ loaded' = [loaded EXCEPT ![r] = Done(store.ctx)]
        <5>1. ctx' \in [Run -> [Step -> Outcome]]
          BY <4>2, <4>4
        <5>2. loaded' \in [Run -> SUBSET Step]
          BY <3>1, <4>4
        <5>3. QED
          BY <5>1, <5>2
      <4>5. QED
        BY <4>1, <4>3, <4>4
    <3>4. pc' \in [Run -> PC]
      BY <2>5 DEF LoadState
    <3>5. UNCHANGED <<envVars, store, unlinked, idx, procVars, ran, durable, passes, latest>>
      BY <2>5 DEF LoadState
    <3>6. QED
      BY <3>2, <3>3, <3>4, <3>5 DEF envVars, procVars
  <2>6. CASE BuildGraph(r)
    <3>1. order' \in [Run -> Seq(Step)]
      <4>1. \A o \in KahnOrders(wf[r].steps, wf[r].deps) : o \in Seq(Step)
        BY OrdersAreSequences
      <4>2. CASE KahnOrders(wf[r].steps, wf[r].deps) = {}
        BY <2>6, <4>2 DEF BuildGraph
      <4>3. CASE KahnOrders(wf[r].steps, wf[r].deps) # {}
        <5>1. PICK o \in KahnOrders(wf[r].steps, wf[r].deps) :
                order' = [order EXCEPT ![r] = o]
          BY <2>6, <4>3 DEF BuildGraph
        <5>2. o \in Seq(Step)
          BY <4>1
        <5>3. QED
          BY <5>1, <5>2
      <4>4. QED
        BY <4>2, <4>3
    <3>2. QED
      BY <2>6, <3>1 DEF BuildGraph, envVars, history
  <2>7. CASE SkipStep(r)
    BY <2>7 DEF SkipStep, envVars, procVars, history
  <2>8. CASE RunModule(r)
    <3> DEFINE v == IF Current(r) \in wf[r].unsaved THEN "note" ELSE "output"
    <3>1. Current(r) \in Step
      BY <2>8, CurrentIsStep DEF RunModule, InLoop
    <3>2. v \in {"output", "note"} /\ ctx' = [ctx EXCEPT ![r][Current(r)] = v]
      BY <2>8 DEF RunModule
    <3> HIDE DEF v
    <3>3. ctx' \in [Run -> [Step -> Outcome]]
      BY <3>1, <3>2, DoneOfRecord
    <3>4. QED
      BY <2>8, <3>1, <3>3 DEF RunModule, envVars, procVars
  <2>9. CASE StepFails(r)
    BY <2>9 DEF StepFails, envVars, procVars, history
  <2>10. CASE Complete(r)
    BY <2>10 DEF Complete, envVars, procVars, history
  <2>11. CASE SaveOpen(r)
    BY <1>0, <2>11 DEF SaveOpen, envVars, procVars, history
  <2>12. CASE SaveRefused(r)
    BY <2>12, BoundsAssumption
    DEF SaveRefused, Fault, AfterFailedSave, Passed, envVars, procVars
  <2>13. CASE SaveWrite(r)
    <3>1. store' \in [status : {"absent", "empty", "torn", "intact"},
                      ctx : [Step -> Outcome]]
      BY <1>0, <2>13 DEF SaveWrite
    <3>2. durable' \in SUBSET Step
      BY <2>13 DEF SaveWrite, Done
    <3>3. AfterSave(r) \in PC
      BY DEF AfterSave
    <3>4. pc' \in [Run -> PC] /\ idx' \in [Run -> Nat] /\ passes' \in Nat
      BY <2>13, <3>3 DEF SaveWrite, Passed
    <3>5. QED
      BY <2>13, <3>1, <3>2, <3>4 DEF SaveWrite, envVars, procVars
  <2>14. CASE SaveFails(r)
    BY <1>0, <2>14, BoundsAssumption
    DEF SaveFails, Fault, AfterFailedSave, Passed, envVars, procVars
  <2>15. QED
    BY <1>4, <2>1, <2>2, <2>3, <2>4, <2>5, <2>6, <2>7, <2>8, <2>9, <2>10,
       <2>11, <2>12, <2>13, <2>14 DEF Progress
<1>5. CASE AllEnded \/ UNCHANGED vars
  BY <1>5 DEF AllEnded, vars
<1>6. QED
  BY <1>1, <1>2, <1>3, <1>4, <1>5 DEF Next

-----------------------------------------------------------------------------
(* What is known of each process is preserved.                             *)

\* A step that leaves process q alone.
SameButPc(q) ==
  /\ wf'[q] = wf[q] /\ ctx'[q] = ctx[q] /\ order'[q] = order[q] /\ idx'[q] = idx[q]
  /\ loaded'[q] = loaded[q] /\ ran'[q] = ran[q]
Same(q) == SameButPc(q) /\ pc'[q] = pc[q]

LEMMA FrameProc ==
  ASSUME NEW q \in Run, ProcInv(q), Same(q)
  PROVE  ProcInv(q)'
<1> USE DEF Same, SameButPc, Current, Done
<1>1. EarlyInv(q)' /\ DoneInv(q)'
  BY DEF ProcInv, EarlyInv, DoneInv
<1>2. LoopInv(q)' /\ SavingInv(q)'
  BY DEF ProcInv, LoopInv, SavingInv
<1>3. PauseInv(q)' /\ FinalInv(q)'
  BY DEF ProcInv, PauseInv, FinalInv
<1>4. GateInv(q)'
  BY DEF ProcInv, GateInv
<1>5. QED
  BY <1>1, <1>2, <1>3, <1>4 DEF ProcInv

\* Process r only moves its pc, and not into a region that promises more.
LEMMA MoveProc ==
  ASSUME NEW r \in Run, ProcInv(r), SameButPc(r),
         pc'[r] # "loop",
         pc'[r] \in Early \cup {"graph"} => pc[r] \in Early,
         pc'[r] \in {"save", "write"} => pc[r] \in {"save", "write"},
         pc'[r] \in {"finalSave", "finalWrite", "done"} =>
           \/ pc[r] \in {"finalSave", "finalWrite", "done"}
           \/ wf[r].steps \subseteq Done(ctx[r])
           \/ ran[r] \cap wf[r].pause # {}
  PROVE  ProcInv(r)'
<1> USE DEF SameButPc, Current, Done
<1>1. EarlyInv(r)' /\ DoneInv(r)'
  BY DEF ProcInv, EarlyInv, DoneInv, Early
<1>2. LoopInv(r)' /\ SavingInv(r)'
  BY DEF ProcInv, LoopInv, SavingInv, Looping
<1>3. PauseInv(r)' /\ FinalInv(r)'
  BY DEF ProcInv, PauseInv, FinalInv
<1>4. GateInv(r)'
  BY DEF ProcInv, GateInv
<1>5. QED
  BY <1>1, <1>2, <1>3, <1>4 DEF ProcInv

\* The steps of one process leave the others alone.
LEMMA OthersSame ==
  ASSUME TypeOK, NEW r \in Run, Launch(r) \/ Crash(r) \/ Progress(r),
         NEW q \in Run \ {r}
  PROVE  Same(q)
<1> USE DEF TypeOK, Same, SameButPc, procVars, history
<1>1. CASE Launch(r)
  BY <1>1 DEF Launch
<1>2. CASE Crash(r)
  BY <1>2 DEF Crash
<1>3. CASE FreshExists(r) \/ FreshExistsFails(r)
  BY <1>3 DEF FreshExists, FreshExistsFails
<1>4. CASE FreshDelete(r)
  BY <1>4 DEF FreshDelete
<1>5. CASE StateExists(r)
  BY <1>5 DEF StateExists
<1>6. CASE LoadState(r)
  BY <1>6 DEF LoadState
<1>7. CASE BuildGraph(r)
  BY <1>7 DEF BuildGraph
<1>8. CASE SkipStep(r) \/ StepFails(r) \/ Complete(r)
  BY <1>8 DEF SkipStep, StepFails, Complete
<1>9. CASE RunModule(r)
  <2>1. ctx'[q] = ctx[q]
    BY <1>9 DEF RunModule
  <2>2. QED
    BY <1>9, <2>1 DEF RunModule
<1>10. CASE SaveOpen(r) \/ SaveRefused(r)
  BY <1>10 DEF SaveOpen, SaveRefused
<1>11. CASE SaveWrite(r)
  BY <1>11 DEF SaveWrite
<1>12. CASE SaveFails(r)
  BY <1>12 DEF SaveFails
<1>13. QED
  BY <1>1, <1>2, <1>3, <1>4, <1>5, <1>6, <1>7, <1>8, <1>9, <1>10, <1>11, <1>12
  DEF Progress

\* Everything before the loop, failures, crashes and the two ends of the loop only
\* move the pc.
LEMMA MovingActions ==
  ASSUME TypeOK, NEW r \in Run, ProcInv(r),
         \/ Crash(r) \/ FreshExists(r) \/ FreshExistsFails(r) \/ FreshDelete(r)
         \/ StateExists(r) \/ StepFails(r) \/ Complete(r)
         \/ SaveOpen(r) \/ SaveRefused(r) \/ SaveFails(r)
  PROVE  ProcInv(r)'
<1> USE DEF TypeOK, SameButPc, procVars, history, Early
<1>1. CASE Crash(r)
  BY <1>1, MoveProc DEF Crash
<1>2. CASE FreshExists(r) \/ FreshExistsFails(r)
  BY <1>2, MoveProc DEF FreshExists, FreshExistsFails
<1>3. CASE FreshDelete(r)
  <2>1. pc[r] = "remove" /\ pc'[r] \in {"failed", "exists"} /\ SameButPc(r)
    BY <1>3 DEF FreshDelete
  <2>2. QED
    BY <2>1, MoveProc
<1>4. CASE StateExists(r)
  <2>1. pc[r] = "exists" /\ pc'[r] \in {"graph", "load"} /\ SameButPc(r)
    BY <1>4 DEF StateExists
  <2>2. QED
    BY <2>1, MoveProc
<1>5. CASE StepFails(r)
  BY <1>5, MoveProc DEF StepFails
<1>6. CASE Complete(r)
  <2>1. pc[r] = "loop" /\ pc'[r] = "finalSave" /\ SameButPc(r)
    BY <1>6 DEF Complete
  <2>2. wf[r].steps \subseteq Done(ctx[r])
    <3>1. order[r] \in KahnOrders(wf[r].steps, wf[r].deps)
      BY <2>1 DEF ProcInv, LoopInv, Looping
    <3>2. /\ order[r] \in Seq(Step)
          /\ IsTopologicalOrder(wf[r].steps, wf[r].deps, order[r])
      BY <3>1, OrdersAreSequences
    <3>3. idx[r] \notin DOMAIN order[r] /\ idx[r] >= 1 /\ idx[r] \in Nat
      BY <1>6 DEF Complete, ProcInv, LoopInv, Looping
    <3>4. \A j \in DOMAIN order[r] : j < idx[r]
      BY <3>2, <3>3
    <3>5. \A j \in DOMAIN order[r] : order[r][j] \in Done(ctx[r])
      BY <2>1, <3>4 DEF ProcInv, LoopInv, Looping
    <3>6. QED
      BY <3>2, <3>5 DEF IsTopologicalOrder, IsPermutationOf
  <2>3. QED
    BY <2>1, <2>2, MoveProc
<1>7. CASE SaveOpen(r)
  <2>1. /\ SameButPc(r)
        /\ \/ pc[r] = "save" /\ pc'[r] = "write"
           \/ pc[r] = "finalSave" /\ pc'[r] = "finalWrite"
    BY <1>7 DEF SaveOpen
  <2>2. QED
    BY <2>1, MoveProc
<1>8. CASE SaveRefused(r) \/ SaveFails(r)
  <2>1. /\ SameButPc(r)
        /\ \/ pc'[r] = "failed"
           \/ pc[r] \in {"finalSave", "finalWrite"} /\ pc'[r] = "done"
    BY <1>8 DEF SaveRefused, SaveFails, AfterFailedSave
  <2>2. QED
    BY <2>1, MoveProc
<1>9. QED
  BY <1>1, <1>2, <1>3, <1>4, <1>5, <1>6, <1>7, <1>8

\* The workflow is loaded anew, while nothing has been loaded or run.
LEMMA LaunchProc ==
  ASSUME TypeOK, NEW r \in Run, ProcInv(r), Launch(r)
  PROVE  ProcInv(r)'
<1>1. /\ pc[r] = "idle" /\ pc'[r] \in {"failed", "fresh", "exists"}
      /\ ctx'[r] = ctx[r] /\ idx'[r] = idx[r] /\ loaded'[r] = loaded[r] /\ ran'[r] = ran[r]
  BY DEF Launch, TypeOK
<1>2. ran[r] = {} /\ idx[r] = 1 /\ ctx[r] = Empty /\ loaded[r] = {}
  BY <1>1 DEF ProcInv, EarlyInv, Early
<1>3. Done(ctx'[r]) = {}
  BY <1>1, <1>2, DoneOfEmpty
<1>4. QED
  BY <1>1, <1>2, <1>3, DoneOfEmpty
  DEF ProcInv, EarlyInv, DoneInv, LoopInv, SavingInv, PauseInv, FinalInv, GateInv,
      Early, Looping, Done, Empty

\* What is loaded is what is done.
LEMMA LoadProc ==
  ASSUME TypeOK, NEW r \in Run, ProcInv(r), LoadState(r)
  PROVE  ProcInv(r)'
<1>1. /\ pc[r] = "load" /\ pc'[r] = "graph"
      /\ wf'[r] = wf[r] /\ idx'[r] = idx[r] /\ ran'[r] = ran[r]
  BY DEF LoadState, TypeOK, procVars
<1>2. ran[r] = {} /\ idx[r] = 1 /\ ctx[r] = Empty /\ loaded[r] = {}
  BY <1>1 DEF ProcInv, EarlyInv, Early
<1>3. \/ ctx'[r] = ctx[r] /\ loaded'[r] = loaded[r]
      \/ ctx'[r] = store.ctx /\ loaded'[r] = Done(store.ctx)
  BY DEF LoadState, TypeOK
<1>4. Done(ctx'[r]) = loaded'[r]
  BY <1>2, <1>3, DoneOfEmpty
<1>5. DoneInv(r)'
  BY <1>1, <1>2, <1>4 DEF DoneInv, Done
<1>6. QED
  BY <1>1, <1>2, <1>5
  DEF ProcInv, EarlyInv, LoopInv, SavingInv, PauseInv, FinalInv, GateInv, Early, Looping

\* The loop starts in front of the first step of one of the sort's orders.
LEMMA GraphProc ==
  ASSUME TypeOK, NEW r \in Run, ProcInv(r), BuildGraph(r)
  PROVE  ProcInv(r)'
<1>1. /\ pc[r] = "graph" /\ pc'[r] \in {"failed", "loop"}
      /\ wf'[r] = wf[r] /\ ctx'[r] = ctx[r] /\ idx'[r] = idx[r]
      /\ loaded'[r] = loaded[r] /\ ran'[r] = ran[r]
  BY DEF BuildGraph, TypeOK, history
<1>2. ran[r] = {} /\ idx[r] = 1
  BY <1>1 DEF ProcInv, EarlyInv
<1>3. ASSUME pc'[r] = "loop"
      PROVE  /\ order'[r] \in KahnOrders(wf[r].steps, wf[r].deps)
             /\ order'[r] \in Seq(Step)
  <2>1. PICK o \in KahnOrders(wf[r].steps, wf[r].deps) : order' = [order EXCEPT ![r] = o]
    BY <1>3 DEF BuildGraph, TypeOK
  <2>2. o \in Seq(Step)
    BY OrdersAreSequences DEF TypeOK
  <2>3. QED
    BY <2>1, <2>2 DEF TypeOK
<1>4. LoopInv(r)'
  <2>1. pc'[r] = "loop" => \A j \in DOMAIN order'[r] : ~ (j < 1)
    BY <1>3
  <2>2. QED
    BY <1>1, <1>2, <1>3, <2>1 DEF LoopInv, Looping
<1>5. DoneInv(r)' /\ GateInv(r)'
  BY <1>1, <1>2 DEF ProcInv, DoneInv, GateInv, Done
<1>6. QED
  BY <1>1, <1>2, <1>4, <1>5
  DEF ProcInv, EarlyInv, SavingInv, PauseInv, FinalInv, Early

\* Advancing over the current step, which is done.
LEMMA AdvancedLoop ==
  ASSUME TypeOK, NEW r \in Run, LoopInv(r), pc[r] \in Looping,
         idx[r] \in DOMAIN order[r], Current(r) \in Done(ctx[r]),
         wf'[r] = wf[r], ctx'[r] = ctx[r], order'[r] = order[r], idx'[r] = idx[r] + 1
  PROVE  LoopInv(r)'
<1>1. order[r] \in Seq(Step) /\ idx[r] \in Nat
  BY DEF TypeOK
<1>2. \A j \in DOMAIN order[r] : j < idx[r] + 1 => order[r][j] \in Done(ctx[r])
  <2> SUFFICES ASSUME NEW j \in DOMAIN order[r], j < idx[r] + 1
               PROVE  order[r][j] \in Done(ctx[r])
    OBVIOUS
  <2>1. CASE j < idx[r]
    BY <2>1 DEF LoopInv
  <2>2. CASE j = idx[r]
    BY <2>2 DEF Current
  <2>3. QED
    BY <1>1, <2>1, <2>2
<1>3. Done(ctx'[r]) = Done(ctx[r])
  OBVIOUS
<1>4. QED
  BY <1>1, <1>2, <1>3 DEF LoopInv, Done

LEMMA SkipProc ==
  ASSUME TypeOK, NEW r \in Run, ProcInv(r), SkipStep(r)
  PROVE  ProcInv(r)'
<1>1. /\ pc[r] = "loop" /\ pc'[r] = "loop" /\ idx[r] \in DOMAIN order[r]
      /\ Current(r) \in Done(ctx[r])
      /\ wf'[r] = wf[r] /\ ctx'[r] = ctx[r] /\ order'[r] = order[r]
      /\ idx'[r] = idx[r] + 1 /\ loaded'[r] = loaded[r] /\ ran'[r] = ran[r]
  BY DEF SkipStep, InLoop, TypeOK, procVars, history
<1>2. LoopInv(r)'
  BY <1>1, AdvancedLoop DEF ProcInv, Looping
<1>3. DoneInv(r)' /\ GateInv(r)' /\ PauseInv(r)'
  BY <1>1 DEF ProcInv, DoneInv, GateInv, PauseInv, Done
<1>4. QED
  BY <1>1, <1>2, <1>3 DEF ProcInv, EarlyInv, SavingInv, FinalInv, Early

\* What stands behind the current step in the loop: its dependencies, and all of its
\* ancestors, are done.
LEMMA AncestorsDone ==
  ASSUME TypeOK, NEW r \in Run, LoopInv(r), InLoop(r)
  PROVE  /\ wf[r].deps[Current(r)] \subseteq Done(ctx[r])
         /\ Ancestors(wf[r].steps, wf[r].deps, Current(r)) \subseteq Done(ctx[r])
<1> DEFINE S == wf[r].steps
           deps == wf[r].deps
           o == order[r]
           i == idx[r]
<1>1. o \in KahnOrders(S, deps) /\ i >= 1 /\ i \in DOMAIN o
      /\ \A j \in DOMAIN o : j < i => o[j] \in Done(ctx[r])
  BY DEF LoopInv, InLoop, Looping
<1>2. o \in Seq(Step) /\ o \in Seq(S) /\ IsTopologicalOrder(S, deps, o)
  BY <1>1, OrdersAreSequences DEF TypeOK
<1>3. i \in 1..Len(o) /\ Len(o) \in Nat
  BY <1>1, <1>2
<1> HIDE DEF S, deps, o, i
<1>4. \A j \in 1..(i - 1) : o[j] \in Done(ctx[r])
  BY <1>1, <1>3, <1>2
<1>5. deps[o[i]] \subseteq Done(ctx[r])
  BY <1>2, <1>3, <1>4 DEF IsTopologicalOrder
<1>6. \A t \in Ancestors(S, deps, o[i]) : \E j \in 1..(i - 1) : o[j] = t
  BY <1>1, <1>2, AncestorsStandBefore
<1>7. QED
  BY <1>4, <1>5, <1>6 DEF Current, S, deps, o, i

\* The module of the current step: its ancestors are done; those that pause were not run
\* by this process, which would have stopped, so they were loaded.
LEMMA RunProc ==
  ASSUME TypeOK, NEW r \in Run, ProcInv(r), RunModule(r)
  PROVE  ProcInv(r)'
<1> DEFINE s == Current(r)
           v == IF s \in wf[r].unsaved THEN "note" ELSE "output"
<1>1. /\ InLoop(r) /\ pc[r] = "loop" /\ pc'[r] = "save" /\ idx[r] \in DOMAIN order[r]
      /\ wf'[r] = wf[r] /\ order'[r] = order[r] /\ idx'[r] = idx[r]
      /\ loaded'[r] = loaded[r] /\ ran'[r] = ran[r] \cup {s}
      /\ ctx' = [ctx EXCEPT ![r][s] = v]
  BY DEF RunModule, InLoop, TypeOK, procVars
<1>2. s \in Step
  BY <1>1, CurrentIsStep
<1>3. Done(ctx'[r]) = Done(ctx[r]) \cup {s}
  BY <1>1, <1>2, DoneOfRecord DEF TypeOK
<1>4. Current(r)' = s
  BY <1>1 DEF Current
<1> HIDE DEF s, v
<1>5. Done(ctx[r])' = Done(ctx'[r])
  BY DEF Done
<1>6. DoneInv(r)'
  BY <1>1, <1>3, <1>5 DEF ProcInv, DoneInv
<1>7. LoopInv(r)' /\ SavingInv(r)'
  BY <1>1, <1>3, <1>4, <1>5 DEF ProcInv, LoopInv, SavingInv, Looping
<1>8. PauseInv(r)'
  BY <1>1, <1>4 DEF ProcInv, PauseInv
<1>9. GateInv(r)'
  <2>1. Ancestors(wf[r].steps, wf[r].deps, s) \subseteq loaded[r] \cup ran[r]
    BY <1>1, AncestorsDone DEF ProcInv, DoneInv, s
  <2>2. ran[r] \cap wf[r].pause = {}
    BY <1>1 DEF ProcInv, PauseInv
  <2>3. Ancestors(wf[r].steps, wf[r].deps, s) \cap wf[r].pause \subseteq loaded[r]
    BY <2>1, <2>2
  <2>4. QED
    BY <1>1, <2>3 DEF ProcInv, GateInv
<1>10. QED
  BY <1>1, <1>6, <1>7, <1>8, <1>9 DEF ProcInv, EarlyInv, FinalInv, Early

\* After a save the process stops at a pause step, and goes on after another one.
LEMMA SaveProc ==
  ASSUME TypeOK, NEW r \in Run, ProcInv(r), SaveWrite(r)
  PROVE  ProcInv(r)'
<1>1. /\ pc[r] \in {"write", "finalWrite"} /\ pc'[r] = AfterSave(r)
      /\ wf'[r] = wf[r] /\ ctx'[r] = ctx[r] /\ order'[r] = order[r]
      /\ loaded'[r] = loaded[r] /\ ran'[r] = ran[r]
      /\ idx'[r] = IF AfterSave(r) = "loop" THEN idx[r] + 1 ELSE idx[r]
  BY DEF SaveWrite, Writing, TypeOK, procVars
<1>2. DoneInv(r)' /\ GateInv(r)'
  BY <1>1 DEF ProcInv, DoneInv, GateInv, Done
<1>3. CASE pc[r] = "finalWrite"
  <2>1. pc'[r] = "done" /\ idx'[r] = idx[r]
    BY <1>1, <1>3 DEF AfterSave
  <2>2. FinalInv(r)'
    BY <1>1, <1>3, <2>1 DEF ProcInv, FinalInv, Done
  <2>3. QED
    BY <1>2, <2>1, <2>2 DEF ProcInv, EarlyInv, LoopInv, SavingInv, PauseInv, Early, Looping
<1>4. CASE pc[r] = "write" /\ Current(r) \in wf[r].pause
  <2>1. pc'[r] = "finalSave"
    BY <1>1, <1>4 DEF AfterSave
  <2>2. ran[r] \cap wf[r].pause # {}
    BY <1>4 DEF ProcInv, SavingInv
  <2>3. FinalInv(r)'
    BY <1>1, <2>2 DEF FinalInv
  <2>4. QED
    BY <1>2, <2>1, <2>3 DEF ProcInv, EarlyInv, LoopInv, SavingInv, PauseInv, Early, Looping
<1>5. CASE pc[r] = "write" /\ Current(r) \notin wf[r].pause
  <2>1. pc'[r] = "loop" /\ idx'[r] = idx[r] + 1
    BY <1>1, <1>5 DEF AfterSave
  <2>2. ran[r] \cap wf[r].pause = {}
    BY <1>5 DEF ProcInv, PauseInv
  <2>3. LoopInv(r)'
    BY <1>1, <1>5, <2>1, AdvancedLoop DEF ProcInv, SavingInv, Looping
  <2>4. QED
    BY <1>1, <1>2, <2>1, <2>2, <2>3 DEF ProcInv, EarlyInv, SavingInv, PauseInv, FinalInv, Early
<1>6. QED
  BY <1>1, <1>3, <1>4, <1>5

LEMMA ProcStep ==
  ASSUME TypeOK, \A r \in Run : ProcInv(r), [Next]_vars
  PROVE  \A r \in Run : ProcInv(r)'
<1>1. CASE EditWorkflow
  <2>1. \A q \in Run : Same(q)
    BY <1>1 DEF EditWorkflow, Same, SameButPc, procVars, history
  <2>2. QED
    BY <2>1, FrameProc
<1>2. ASSUME NEW r \in Run, Launch(r) \/ Crash(r) \/ Progress(r)
      PROVE  \A q \in Run : ProcInv(q)'
  <2>1. \A q \in Run \ {r} : ProcInv(q)'
    BY <1>2, OthersSame, FrameProc
  <2>2. ProcInv(r)'
    BY <1>2, LaunchProc, MovingActions, LoadProc, GraphProc, SkipProc, RunProc, SaveProc
    DEF Progress
  <2>3. QED
    BY <2>1, <2>2
<1>3. CASE AllEnded \/ UNCHANGED vars
  <2>1. \A q \in Run : Same(q)
    BY <1>3 DEF AllEnded, Same, SameButPc, vars
  <2>2. QED
    BY <2>1, FrameProc
<1>4. QED
  BY <1>1, <1>2, <1>3 DEF Next

-----------------------------------------------------------------------------
(* What contexts have in common while the workflow file is not edited.     *)

LEMMA EmptyIsFaithful == \A w \in Workflows : Faithful(Empty, w)
  BY DoneOfEmpty DEF Faithful, DepsClosed, Empty

\* A step that runs finds its dependencies done and leaves a note only when its output
\* is not to be saved.
LEMMA RunIsFaithful ==
  ASSUME TypeOK, NEW r \in Run, RunModule(r), Faithful(ctx[r], wf[r])
  PROVE  Faithful(ctx'[r], wf[r])
<1> DEFINE s == Current(r)
           v == IF s \in wf[r].unsaved THEN "note" ELSE "output"
<1>1. s \in Step
  BY CurrentIsStep DEF RunModule, InLoop
<1>2. ctx' = [ctx EXCEPT ![r][s] = v] /\ wf[r].deps[s] \subseteq Done(ctx[r])
  BY DEF RunModule, Runnable
<1>3. v \in {"output", "note"} /\ (v = "note" => s \in wf[r].unsaved)
  OBVIOUS
<1> HIDE DEF s, v
<1>4. /\ Done(ctx'[r]) = Done(ctx[r]) \cup {s}
      /\ \A t \in Step : ctx'[r][t] = IF t = s THEN v ELSE ctx[r][t]
  <2>1. ctx \in [Run -> [Step -> Outcome]]
    BY DEF TypeOK
  <2>2. QED
    BY <1>1, <1>2, <1>3, <2>1, DoneOfRecord
<1>5. DepsClosed(Done(ctx'[r]), wf[r].deps)
  BY <1>2, <1>4 DEF Faithful, DepsClosed
<1>6. \A t \in Step : ctx'[r][t] = "note" => t \in wf[r].unsaved
  BY <1>3, <1>4 DEF Faithful
<1>7. QED
  BY <1>5, <1>6 DEF Faithful

LEMMA UneditedStep ==
  ASSUME TypeOK, TypeOK', UneditedInv, [Next]_vars
  PROVE  UneditedInv'
<1> SUFFICES ASSUME edits' = 0
             PROVE  /\ \A q \in Run : wf'[q] = wfFile' /\ Faithful(ctx'[q], wfFile')
                    /\ store'.status = "intact" => Faithful(store'.ctx, wfFile')
  BY DEF UneditedInv, Faithful, DepsClosed, Done
<1>1. CASE EditWorkflow
  BY <1>1 DEF EditWorkflow, TypeOK
<1>2. ASSUME NEW r \in Run, Launch(r) \/ Crash(r) \/ Progress(r)
      PROVE  /\ \A q \in Run : wf'[q] = wfFile' /\ Faithful(ctx'[q], wfFile')
             /\ store'.status = "intact" => Faithful(store'.ctx, wfFile')
  <2>1. wfFile' = wfFile /\ edits = 0
    BY <1>2 DEF Launch, Crash, Progress, FreshExists, FreshExistsFails, FreshDelete,
      StateExists, LoadState, BuildGraph, SkipStep, RunModule, StepFails, Complete,
      SaveOpen, SaveRefused, SaveWrite, SaveFails, envVars
  <2>2. /\ \A q \in Run : wf[q] = wfFile /\ Faithful(ctx[q], wfFile)
        /\ store.status = "intact" => Faithful(store.ctx, wfFile)
    BY <2>1 DEF UneditedInv
  <2>3. \A q \in Run \ {r} : wf'[q] = wf[q] /\ ctx'[q] = ctx[q]
    BY <1>2, OthersSame DEF Same, SameButPc
  <2>4. wf'[r] = wfFile
    BY <1>2, <2>2 DEF TypeOK, Launch, Crash, Progress, FreshExists, FreshExistsFails,
      FreshDelete, StateExists, LoadState, BuildGraph, SkipStep, RunModule, StepFails,
      Complete, SaveOpen, SaveRefused, SaveWrite, SaveFails, procVars
  <2>5. Faithful(ctx'[r], wfFile)
    <3>1. CASE RunModule(r)
      BY <2>2, <3>1, RunIsFaithful
    <3>2. CASE LoadState(r)
      <4>1. \/ ctx'[r] = ctx[r]
            \/ store.status = "intact" /\ ctx'[r] = store.ctx
        BY <3>2 DEF LoadState, TypeOK
      <4>2. QED
        BY <2>2, <4>1
    <3>3. CASE ctx' = ctx
      BY <2>2, <3>3
    <3>4. QED
      BY <1>2, <3>1, <3>2, <3>3 DEF Launch, Crash, Progress, FreshExists,
        FreshExistsFails, FreshDelete, StateExists, BuildGraph, SkipStep, StepFails,
        Complete, SaveOpen, SaveRefused, SaveWrite, SaveFails
  <2>6. store'.status = "intact" => Faithful(store'.ctx, wfFile)
    <3>1. CASE SaveWrite(r)
      <4>1. \/ store' = store
            \/ store' = [status |-> "intact", ctx |-> ctx[r]]
            \/ store' = [status |-> "torn", ctx |-> Empty]
        BY <3>1 DEF SaveWrite
      <4>2. QED
        BY <2>2, <4>1
    <3>2. CASE FreshDelete(r)
      <4>1. store' = store \/ store' = [status |-> "absent", ctx |-> Empty]
        BY <3>2 DEF FreshDelete
      <4>2. QED
        BY <2>2, <4>1
    <3>3. CASE SaveOpen(r)
      BY <3>3 DEF SaveOpen
    <3>4. CASE SaveFails(r)
      <4>1. store' = store \/ store' = [status |-> "torn", ctx |-> Empty]
        BY <3>4 DEF SaveFails
      <4>2. QED
        BY <2>2, <4>1
    <3>5. CASE store' = store
      BY <2>2, <3>5
    <3>6. QED
      BY <1>2, <3>1, <3>2, <3>3, <3>4, <3>5 DEF Launch, Crash, Progress, FreshExists,
        FreshExistsFails, StateExists, LoadState, BuildGraph, SkipStep, RunModule,
        StepFails, Complete, SaveRefused
  <2>7. QED
    BY <2>1, <2>2, <2>3, <2>4, <2>5, <2>6
<1>3. CASE AllEnded \/ UNCHANGED vars
  BY <1>3 DEF AllEnded, vars, UneditedInv
<1>4. QED
  BY <1>1, <1>2, <1>3 DEF Next

-----------------------------------------------------------------------------
LEMMA InitIInv == Init => IInv
<1> SUFFICES ASSUME Init PROVE IInv
  OBVIOUS
<1>1. TypeOK
  BY InitTypeOK
<1>2. ASSUME NEW r \in Run PROVE ProcInv(r)
  BY <1>2, DoneOfEmpty
  DEF Init, ProcInv, EarlyInv, DoneInv, LoopInv, SavingInv, PauseInv, FinalInv, GateInv,
      Early, Looping
<1>3. UneditedInv
  BY EmptyIsFaithful DEF Init, UneditedInv
<1>4. QED
  BY <1>1, <1>2, <1>3 DEF IInv

LEMMA NextIInv == IInv /\ [Next]_vars => IInv'
<1> SUFFICES ASSUME IInv, [Next]_vars PROVE IInv'
  OBVIOUS
<1>1. TypeOK'
  BY TypeStep DEF IInv
<1>2. \A r \in Run : ProcInv(r)'
  BY ProcStep DEF IInv
<1>3. UneditedInv'
  BY <1>1, UneditedStep DEF IInv
<1>4. QED
  BY <1>1, <1>2, <1>3 DEF IInv

\* The inductive invariant holds of every behaviour.
THEOREM Invariance == Spec => []IInv
<1>1. Init => IInv
  BY InitIInv
<1>2. IInv /\ [Next]_vars => IInv'
  BY NextIInv
<1>3. QED
  BY <1>1, <1>2, PTL DEF Spec

\* Type correctness.
THEOREM TypeCorrect == Spec => []TypeOK
<1>1. IInv => TypeOK
  BY DEF IInv
<1>2. QED
  BY <1>1, Invariance, PTL

\* No run of Execute ever returns "dependencies not satisfied" (executor.go:92-95).
THEOREM DependenciesAlwaysFirst == Spec => []DependenciesComeFirst
<1>1. IInv => DependenciesComeFirst
  BY AncestorsDone DEF IInv, ProcInv, DependenciesComeFirst
<1>2. QED
  BY <1>1, Invariance, PTL

\* No step behind a pause step runs in a process that did not load the pause step as
\* completed: the approval of README.md cannot be bypassed by crashes, torn files,
\* concurrent processes, -fresh or edits of the workflow.
THEOREM ApprovalIsRequired == Spec => []ApprovalGate
<1>1. IInv => ApprovalGate
  BY DEF IInv, ProcInv, GateInv, ApprovalGate
<1>2. QED
  BY <1>1, Invariance, PTL

\* Exit code 0 is given for completed workflows and at pauses only.
THEOREM ExitZeroIsEarned == Spec => []ExitZeroMeansCompleteOrPaused
<1>1. IInv => ExitZeroMeansCompleteOrPaused
  BY DEF IInv, ProcInv, FinalInv, ExitZeroMeansCompleteOrPaused
<1>2. QED
  BY <1>1, Invariance, PTL

\* A readable state file never records a step without its dependencies.
THEOREM SavedStateAlwaysClosed == Spec => []SavedStateIsClosed
<1>1. IInv => SavedStateIsClosed
  BY DEF IInv, UneditedInv, Faithful, SavedStateIsClosed
<1>2. QED
  BY <1>1, Invariance, PTL

\* References to ancestors that save their output resolve in every run.
THEOREM ReferencesAlwaysResolve == Spec => []ReferencesResolve
<1>1. IInv => ReferencesResolve
  <2> SUFFICES ASSUME IInv, edits = 0, NEW r \in Run, InLoop(r),
                      wf[r].refs[Current(r)]
                        \subseteq Ancestors(wf[r].steps, wf[r].deps, Current(r))
                                  \ wf[r].unsaved
               PROVE  RefsResolve(wf[r], ctx[r], Current(r))
    BY DEF ReferencesResolve
  <2>1. Ancestors(wf[r].steps, wf[r].deps, Current(r)) \subseteq Done(ctx[r])
    BY AncestorsDone DEF IInv, ProcInv
  <2>2. \A x \in Step : ctx[r][x] = "note" => x \in wf[r].unsaved
    BY DEF IInv, UneditedInv, Faithful
  <2>3. ctx[r] \in [Step -> Outcome]
    BY DEF IInv, TypeOK
  <2>4. QED
    BY <2>1, <2>2, <2>3 DEF RefsResolve, Done, Outcome
<1>2. QED
  BY <1>1, Invariance, PTL
=============================================================================
