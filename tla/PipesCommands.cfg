CONSTANTS
  Tasks <- ThreeTasks
  Kinds <- AllKinds
  QueueCap = 1
  MaxToggles = 2
SPECIFICATION FairSpec
INVARIANTS TypeOK SaveBeforeRun PauseAgrees
PROPERTY WrittenIsTaken
