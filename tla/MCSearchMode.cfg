SPECIFICATION FairSpec
CONSTANTS
  MaxRuns = 2
  MaxChanges = 1
INVARIANTS
  DestructorsNeverWait
PROPERTIES
  OnlyTheWantedSearchCommits
  EverySearchEnds
\* the controller may be gone and every run be over
CHECK_DEADLOCK FALSE
