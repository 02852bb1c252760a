SPECIFICATION Spec
CONSTANTS
  run = run
  command = command
  vmap = vmap
  vtext = vtext
  Nil = Nil
  Unresolved = Unresolved
  NoTTL = NoTTL
  BadTTL = BadTTL
  Job = {run, command}
  KindOf <- Kinds
  Pipelines <- Either
  StoreTypes <- Types
  Key <- Keys
  Namespace <- Namespaces
  Value = {vmap, vtext}
  Resolved <- Resolution
  Lookalike = {vmap}
  TTL <- TTLs
  Second = 2
  MaxTime = 3
  MaxOps = 3
CHECK_DEADLOCK FALSE
INVARIANT TypeOK
 
INVARIANT NothingOutlivesItsTTL
