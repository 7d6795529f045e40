SPECIFICATION FairSpec
CONSTANTS
  Capacity = 3
  LogCapacity = 1
  MaxPings = 3
  MaxEvents = 2
  MaxStarts = 2
INVARIANTS TypeOK PluginsAreEnded
PROPERTIES ToPluginSpec FromPluginSpec UiIsFreed
CHECK_DEADLOCK FALSE
