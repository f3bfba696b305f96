SPECIFICATION FanoutSpec
CONSTANTS
  Clients = {"c", "d"}
  Capacity = 1
  Buffer = 1
  HubConfigs <- MCHubConfigs
  MaxEvents = 2
  BusConfigs <- MCBusConfigs
  Visits <- MCVisits
  SkipPaths <- MCSkipPaths
  SkipMethods <- MCSkipMethods
  Anonymous = ""
  OnlineTTL = 2
  BatchSize = 2
  MaxClock = 2
  ActivityConfigs <- MCActivityConfigs
  DayHours = 2
  LogConfigs <- MCLogConfigs
INVARIANTS EventsHeard LogKept ActivityKnown
PROPERTIES InOrder ConnectionsEnd
CHECK_DEADLOCK FALSE
