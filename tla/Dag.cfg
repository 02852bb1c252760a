SPECIFICATION BothSpec
CONSTANTS
  a = a
  b = b
  c = c
  d = d
  Node = {a, b, c, d}
  DepLists <- Graphs
INVARIANT TypeOK
INVARIANT InDegreeCountsMissing
INVARIANT EveryStepOnce
INVARIANT ReturnedOrderIsKahn
INVARIANT VerdictIsRight
INVARIANT VisitingIsThePath
INVARIANT ValidateAgreesWithSort
PROPERTY SortReturns
\* the function returns and is not called again
CHECK_DEADLOCK FALSE
