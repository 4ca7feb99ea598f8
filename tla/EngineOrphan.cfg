SPECIFICATION Spec
CONSTANTS
  kHand = kHand
  kFile = kFile
  kOther = kOther
  NoKey = NoKey
  Keys <- MCKeys
  Script <- MCScript
  Ignores <- MCIgnores
  BootKeys <- MCKeys
  Summonses <- GoodSummonses
  Commands <- NoCommands
  Budget <- OrphanBudget
  Faults = {}
  ExecCap = 1
  EventCap = 1
  InputCap = 2
INVARIANT LiveRunIsHeld
