SPECIFICATION ChainSpec
CONSTANTS
  Subjects = {"user"}
  Admins = {"user"}
  Lives = {1, 2}
  RefreshWindow = 1
  MaxTime = 1
  NoToken = NoToken
  Addrs = {"near", "far", "other"}
  NoIP = NoIP
  Junk = Junk
  Country <- MCCountry
  MaxAttempts = 2
  Requests <- MCRequests
  Configs <- MCConfigs
  Denied = {"far"}
  Public <- MCPublic
  Methods <- MCMethods
  MethodOptions <- MCMethodOptions
  ServiceOptions <- MCServiceOptions
INVARIANTS AnswersSound EdgesAgree
PROPERTIES CallReturns
CHECK_DEADLOCK FALSE
