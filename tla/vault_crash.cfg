\* Power losses at every step, an editor that writes between operations.
CONSTANTS
  Paths = {p1}
  Contents = {c1, c2, c3}
  None = None
  MaxRevs = 3
  Faults = {"power"}
  EditAt = {"idle", "down"}
  MaxFaults = 2
  MaxEdits = 2
SPECIFICATION FairSpec
INVARIANTS
  TypeOK
  LinearHistory
  AckedDurable
  DurableReadable
  IndexDurable
  IntentCovers
  RestFaithful
PROPERTIES
  BytesStayInStore
  OverwritesOnlyItsBase
  Implements
  Settles
