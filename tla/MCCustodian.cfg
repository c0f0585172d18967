SPECIFICATION Spec
CONSTANTS
  Plans = {p1, p2}
  Recoverers = {r1}
  Releasers = {x1}
  Outcomes = {"Completed", "Failed"}
  MaxPendingSlots = 2
SYMMETRY Symmetry
INVARIANTS
  ReceiptsAreForRunningPlans
  ResidentsKeepTheirSlot
PROPERTY KeepsThePromise
\* every plan may be over
CHECK_DEADLOCK FALSE
