SPECIFICATION Spec
CONSTANTS
  a = a
  b = b
  c = c
  Step = {a, b, c}
  Run = {r1, r2}
  NoRun = NoRun
  Workflows <- ApprovalFlow
  Fresh = {FALSE}
  MaxActive = 1
  MaxEdits = 0
  Faults = {"tear"}
  MaxFaults = 1
PROPERTY SavedStepsNeverRunAgain
