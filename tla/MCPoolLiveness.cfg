SPECIFICATION FairSpec
CONSTANTS
  Ops = {o1, hasty}
  hasty = hasty
  Impatient <- MCImpatient
  Limits = {0, 2}
  Enqueuers = {e1}
  Stoppers = {}
  Retriers = {}
  Closers = {c1}
PROPERTIES
  ConcurrencyIsKept
  EveryOperationIsFinalized
  ShutdownReturns
\* every operation may be over and nobody enqueue any more
CHECK_DEADLOCK FALSE
