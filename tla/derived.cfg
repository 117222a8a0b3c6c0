\* Crashes, failing calls and replaced files between a save and its row in the index.
CONSTANTS
  Paths = {p1, p2}
  Contents = {c1, c2}
  None = None
  MaxRevs = 3
  Faults = {"kill", "power", "io", "swap"}
  MaxFaults = 3
SPECIFICATION Spec
SYMMETRY Interchangeable
INVARIANTS
  DTypeOK
  Consistent
  PrefixSound
  IndexCurrent
  IndexReturns
