\* Two documents, a save, two edits, two openings and a fault.
CONSTANTS
  Docs = {d1, d2}
  Nothing = Nothing
  Faults = {"lag", "close", "disconnect"}
  MaxEdits = 2
  MaxSaves = 1
  MaxOpens = 2
  MaxFaults = 1
SPECIFICATION FairSpec
INVARIANTS
  STypeOK
  OthersKept
  CleanShowsHead
  ConflictShown
PROPERTY SavingEnds
