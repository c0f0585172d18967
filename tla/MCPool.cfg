SPECIFICATION Spec
CONSTANTS
  Ops = {o1, o2}
  hasty = hasty
  Impatient <- MCImpatient
  Limits = {1}
  Enqueuers = {e1}
  Stoppers = {s1}
  Retriers = {e1}
  Closers = {c1}
SYMMETRY Symmetry
INVARIANTS
  InOneListOnly
  FinalizersRunAlone
  SlotsAreLive
  FinalizedMeansOver
  ShutdownIsQuiet
  NobodyWaitsForAFreeSlot
\* every operation may be over and nobody enqueue any more
CHECK_DEADLOCK FALSE
