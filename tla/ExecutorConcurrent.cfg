SPECIFICATION Spec
CONSTANTS
  a = a
  b = b
  c = c
  Step = {a, b, c}
  Run = {r1, r2}
  NoRun = NoRun
  Workflows <- EditedFlows
  Fresh = {FALSE, TRUE}
  MaxActive = 2
  MaxEdits = 1
  Faults = {"crash", "tear", "refuse", "partial", "read"}
  MaxFaults = 1
SYMMETRY RunSymmetry
INVARIANT TypeOK
INVARIANT DependenciesComeFirst
INVARIANT ApprovalGate
INVARIANT ReferencesResolve
INVARIANT ExitZeroMeansCompleteOrPaused
INVARIANT SavedStateIsClosed
