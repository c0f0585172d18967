SPECIFICATION FairSpec
CONSTANTS
  Plans = {p1}
  Recoverers = {r1}
  Releasers = {}
  Outcomes = {"Completed", "Failed"}
  MaxPendingSlots = 1
PROPERTY RetryingRecoveryReleases
\* every plan may be over
CHECK_DEADLOCK FALSE
