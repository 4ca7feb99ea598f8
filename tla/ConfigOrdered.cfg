CONSTANTS
  Ids = {"d1", "d2"}
  Defs <- MCDefs
  Boot <- AllBoots
  Edits <- OrderedEdits
  MaxEdits = 3
  MaxStops = 0
  QueueCap = 2
  Network = {}
  Faults = {}
SPECIFICATION FairSpec
INVARIANTS LastEditKept SavedIsRegistered
PROPERTY
  SavedReachesEngine
