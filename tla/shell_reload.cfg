\* One document, no save and no fault: a reload meets typing.
CONSTANTS
  Docs = {d1}
  Nothing = Nothing
  Faults = {}
  MaxEdits = 3
  MaxSaves = 0
  MaxOpens = 1
  MaxFaults = 0
SPECIFICATION Spec
PROPERTY ReloadsAreSafe
