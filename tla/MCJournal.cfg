SPECIFICATION Spec
CONSTANTS
  p1 = p1
  p2 = p2
  p3 = p3
  Plans <- MCPlans
  SourceCount <- MCSourceCount
  MaxSequence = 4
  MaxEntries = 2
  MaxItemResults = 2
  Offered <- MCOffered
  Handles = {h1, h2, h3}
  Legacy <- MCLegacy
SYMMETRY Symmetry
INVARIANTS
  TypeOK
  ReportedSurvives
  AdmissionSurvives
  NeverUnreadable
  AuthorityMatchesJournal
  MemoryIsDisk
CHECK_DEADLOCK TRUE
