SPECIFICATION Spec
CONSTANTS
  p1 = p1
  p2 = p2
  p3 = p3
  Plans <- MCPlans
  SourceCount <- MCSourceCount
  MaxSequence = 3
  MaxEntries = 2
  MaxItemResults = 2
  Offered <- MCOffered
  Handles = {h1, h2}
  Legacy <- MCLegacy
SYMMETRY Symmetry
INVARIANT ReopenShowsDurableState
