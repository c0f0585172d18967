SPECIFICATION FairSpec
CONSTANTS
  ItemCount = 3
  Type = "Move"
  Stoppers = {s1, s2}
  Answers <- MCAnswers
INVARIANTS
  FinishMeansSettled
  FinishIsTold
  StopIsKept
  EvidenceAgreesWithState
  SlotsTellTheTruth
  EvidenceIsJournalable
PROPERTIES
  StartedJobEnds
  StopEndsTheRun
\* the operation ends
CHECK_DEADLOCK FALSE
