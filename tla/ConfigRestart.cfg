CONSTANTS
  Ids = {"d1", "d2"}
  Defs <- MCDefs
  Boot <- UserBoots
  Edits <- RestartEdits
  MaxEdits = 3
  MaxStops = 1
  QueueCap = 1
  Network = {"reorder", "lose"}
  Faults = {"load", "save"}
SPECIFICATION Spec
INVARIANTS
  HotkeysOwned
  UntouchedKept
