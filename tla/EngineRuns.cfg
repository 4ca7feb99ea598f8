SPECIFICATION FairSpec
CONSTANTS
  kHand = kHand
  kFile = kFile
  kOther = kOther
  NoKey = NoKey
  Keys <- MCKeys
  Script <- MCScript
  Ignores <- MCIgnores
  BootKeys <- MCKeys
  Summonses <- OneDecree
  Commands <- ConfigCommands
  Budget <- RunsBudget
  Faults = {}
  ExecCap = 2
  EventCap = 1
  InputCap = 2
INVARIANTS AbortHandle AbortStopsRun OverlapBound RunsInOrder SummonsRunOnce
PROPERTIES BusyEndsIdle PendingServed
