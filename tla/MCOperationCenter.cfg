SPECIFICATION Spec
CONSTANTS
  Ops = {o1, o2}
  Controllers = {c1}
  Others = {x1}
  MaxRevision = 3
SYMMETRY Symmetry
INVARIANTS
  OutcomeReachesTheRecord
  ControlsReachOnlyTheLiving
CHECK_DEADLOCK FALSE
