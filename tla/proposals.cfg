\* Kills, power losses and failing appends at every step of two proposals.
CONSTANTS
  Paths = {p1, p2}
  Contents = {c1}
  None = None
  MaxRevs = 3
  MaxProps = 2
  Faults = {"kill", "power", "io"}
  MaxFaults = 2
SPECIFICATION Spec
SYMMETRY Interchangeable
INVARIANTS
  PTypeOK
  ClosedOnce
  ToldDurable
  AcceptedCommitted
  LandsOnce
  LandsOnItsBase
  OrphanIsStale
