SPECIFICATION FairSpec
CONSTANTS
  Ops = {o1}
  Controllers = {c1}
  Others = {x1}
  MaxRevision = 3
PROPERTY
  CancelReturns
CHECK_DEADLOCK FALSE
