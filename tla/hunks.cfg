\* Every list of hunks, every selection: what the splice writes.
CONSTANTS
  MaxLines = 3
  MaxHunks = 3
  Largest = 4
SPECIFICATION Spec
\* One proposal: it ends when it has been accepted.
CHECK_DEADLOCK FALSE
INVARIANTS
  NeverPanics
  SpliceCorrect
