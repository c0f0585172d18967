SPECIFICATION Spec
CONSTANTS
  Callers = {c1, c2, c3}
  Answers <- MCAnswers
SYMMETRY Symmetry
INVARIANTS
  HandlersRunOnce
  OneResult
  EveryTerminalIsJournalable
  RetryIsSafe
PROPERTY AbortNeverUndoesAPublication
\* a destroyed transaction has no further step
CHECK_DEADLOCK FALSE
