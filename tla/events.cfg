\* Two writers, two documents, a proposal, a receiver of two events.
CONSTANTS
  Writers = {w1, w2}
  Docs = {d1, d2}
  Proposals = {p1}
  Watched = {"committed", "stale"}
  Nothing = Nothing
  Capacity = 2
  OutCapacity = 1
  MaxCommits = 2
SPECIFICATION Spec
SYMMETRY Interchangeable
INVARIANTS
  ETypeOK
  NoSilentLoss
  ListFollows
  Announced
  StaleTold
