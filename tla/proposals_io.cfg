\* One append to the proposal log whose fsync fails, and a retry.
CONSTANTS
  Paths = {p1}
  Contents = {c1}
  None = None
  MaxRevs = 1
  MaxProps = 1
  Faults = {"io"}
  MaxFaults = 1
SPECIFICATION Spec
INVARIANT ResolvesOnce
