SPECIFICATION Spec
CONSTANTS
  a = a
  b = b
  c = c
  Step = {a, b, c}
  Run = {r1, r2, r3}
  NoRun = NoRun
  Workflows <- SequentialFlows
  Fresh = {FALSE, TRUE}
  MaxActive = 1
  MaxEdits = 0
  Faults = {"crash", "refuse"}
  MaxFaults = 1
INVARIANT ResumesAreBounded
PROPERTY SavedStepsNeverRunAgain
PROPERTY ExitZeroMeansSaved
PROPERTY ImplementsLedger
CHECK_DEADLOCK TRUE
