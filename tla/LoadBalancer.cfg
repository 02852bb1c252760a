SPECIFICATION Spec
CONSTANTS
  e1 = e1
  e2 = e2
  Endpoint = {e1, e2}
  EndpointLists <- Lists
  Flaky = {e1}
  Prober = {c2}
  Caller = {c1, c2}
  RetryAttempts = 2
  MaxCancels = 1
  MaxStale = 1
INVARIANT TypeOK
INVARIANT FailoverFindsLive
INVARIANT OpenCircuitsHaveTimers
PROPERTY Recovers
