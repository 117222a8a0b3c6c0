\* Kills, power losses and failing system calls together, two files.
CONSTANTS
  Paths = {p1, p2}
  Contents = {c1, c2}
  None = None
  MaxRevs = 3
  Faults = {"kill", "power", "io"}
  EditAt = {"idle", "down"}
  MaxFaults = 2
  MaxEdits = 2
SPECIFICATION Spec
SYMMETRY Interchangeable
PROPERTIES
  DurablePrefix
  ScanCaptures
