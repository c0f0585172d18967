SPECIFICATION Spec
CONSTANTS
  Headers = {x1}
  Ids = {a1, a2}
  Helpers = {h1, h2}
  First = "destination"
  MaxReservations = 2
  MaxVersion = 2
  MaxEvents = 2
SYMMETRY Symmetry
INVARIANTS
  StagedSurvives
  SealsAreBacked
  NoTwins
  InspectionIsSound
