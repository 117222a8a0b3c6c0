\* Sessions that outlive their leases, failing saves, restarts and a clock that is set back.
CONSTANTS
  Sessions = {s1, s2}
  Docs = {d1}
  Outside = Outside
  TTL = 2
  Faults = {"restart", "stepback", "io"}
  MaxClock = 5
  MaxLeases = 3
  MaxRevs = 3
  MaxFaults = 2
SPECIFICATION Spec
SYMMETRY Interchangeable
INVARIANTS
  HolderHolds
  NoOverhang
PROPERTY HolderUndisturbed
