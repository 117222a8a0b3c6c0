\* One failed journal append, no crash at all.
CONSTANTS
  Paths = {p1}
  Contents = {c1, c2, c3}
  None = None
  MaxRevs = 3
  Faults = {"io"}
  EditAt = {}
  MaxFaults = 1
  MaxEdits = 0
SPECIFICATION Spec
SYMMETRY Interchangeable
INVARIANT AckedDurable
