\* A kill while the engine records bytes a user left on disk.
CONSTANTS
  Paths = {p1}
  Contents = {c1, c2, c3}
  None = None
  MaxRevs = 3
  Faults = {"kill"}
  EditAt = {"idle"}
  MaxFaults = 1
  MaxEdits = 1
SPECIFICATION Spec
SYMMETRY Interchangeable
PROPERTY NeverClobber
