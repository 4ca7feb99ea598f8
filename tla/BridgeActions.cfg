CONSTANTS
  Modifiers = {"ctrl", "shift"}
  Actions <- MCActions
  MaxActions = 3
  Kinds <- AllKinds
  UserMay <- Deletes
  MaxAttempts = 5
  MaxUserSteps = 1
  MaxShells = 1
SPECIFICATION FairSpec
INVARIANTS ClicksWithItsModifiers OkReleases NotLost
PROPERTIES OkIsDone ActionsEnd
