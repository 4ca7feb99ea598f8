CONSTANTS
  HeartbeatTicks = 2
  WatchdogTicks = 4
  RetryTicks = 2
  ReconnectTicks = 1
  Capacity = 2
  CommandCap = 1
  Forges = {f1, f2}
  Events <- AllEvents
  MaxEvents = 2
  MaxFaults = 1
SPECIFICATION FairSpec
INVARIANTS TypeOK TrayAtRest
PROPERTIES NoFalseAlarm HangClosesForge ForgeConnects
