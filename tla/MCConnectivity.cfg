SPECIFICATION FairSpec
CONSTANTS
  Relays <- MCRelays
  Circuits = {"c"}
  TargetPrivate = 2
  TargetPublic = 0
  MaxReservations = 2
  MaxPerRelay = 2
  MaxLearned = 1
  RetryMin = 1
  RetryMax = 2
  RequestHorizon = 1
  Listeners = {1, 2, 3, 4}
  Addresses = {"a", "b", "lan"}
  Probeable = {"a", "b"}
  Servers <- MCServers
  NoServer = 0
  Threshold = 2
  EvidenceTTL = 3
  Refresh = 2
  RetryBase = 1
  RetryCap = 2
  CrateTick = 1
  MaxTracked = 1
  MaxObservedEver = 2
  MaxLearnedServers = 1
  Jitters = {0}
  MaxPerCycle = 2
  Scenarios <- MCScenarios
INVARIANTS AdvertisedIsTrue ReservationsAgree HorizonIsExact
PROPERTIES FindsItself
CHECK_DEADLOCK FALSE
