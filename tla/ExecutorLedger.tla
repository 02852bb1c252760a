--------------------------- MODULE ExecutorLedger ---------------------------
(***************************************************************************)
(* Executor implements WorkflowLedger when jobs run one after the other,   *)
(* the workflow file is not edited and no fault destroys the state file.   *)
(***************************************************************************)
EXTENDS Executor

\* The last process that was launched has saved a pause step that it ran.
Waiting ==
  latest # NoRun /\ (ran[latest] \cap wfFile.pause \cap durable) # {}

Ledger == INSTANCE WorkflowLedger
  WITH Flows <- Workflows, flow <- wfFile, done <- durable, waiting <- Waiting

\* The steps recorded in the state file evolve as the ledger of completed steps does:
\* each is recorded once and after its dependencies, nothing follows a pause step
\* without a new job, and only -fresh removes anything.
ImplementsLedger == Ledger!Spec
=============================================================================
