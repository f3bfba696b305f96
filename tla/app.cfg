SPECIFICATION Spec
CONSTANTS
  NoPort = NoPort
  Configs <- MCConfigs
INVARIANTS CleanupQuiet ConsulTrue ProbesAgree
PROPERTIES HealthyStays RunReturns
CHECK_DEADLOCK FALSE
