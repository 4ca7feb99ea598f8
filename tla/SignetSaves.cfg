CONSTANTS
  Paths <- TwoPaths
  Default <- DefaultPath
  Loaders <- Threads
  MaxSaves = 3
SPECIFICATION Spec
INVARIANTS LastSaveKept CacheCurrent
