SPECIFICATION Spec
CONSTANTS
  j1 = j1
  j2 = j2
  Job = {j1, j2}
  Settings <- SettingSet
  Batches <- BatchSet
  Inside <- Substrings
  Placeable <- InDiff
  Stranger <- Others
  PageSize = 3
  MaxAttempts = 2
  MaxLaunches = 2
  MaxFaults = 2
  MaxStrangers = 1
CHECK_DEADLOCK FALSE
INVARIANT DedupWorks
