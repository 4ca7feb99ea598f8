CONSTANTS
  Procs = {forge, atlas}
  Writers = {forge, atlas}
  Ledgers <- MCLedgers
  Default = {}
  Edited <- MCEdited
  Nothing = Nothing
  Torn = Torn
  Faults <- MCFaults
SPECIFICATION Spec
PROPERTY StoreIsAtomic
