SPECIFICATION FairSpec
CONSTANTS
  kHand = kHand
  kFile = kFile
  kOther = kOther
  NoKey = NoKey
  Keys <- MCKeys
  Script <- MCScript
  Ignores <- MCIgnores
  BootKeys <- MCKeys
  Summonses <- AnySummonses
  Commands <- PauseCommands
  Budget <- FaultBudget
  Faults = {"relay", "runner"}
  ExecCap = 1
  EventCap = 1
  InputCap = 2
INVARIANTS TypeOK LiveRunIsHeld
PROPERTIES PausedRunsNothing RunsAreSerial
