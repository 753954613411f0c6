SPECIFICATION FairSpec
CONSTANTS
  Ids = {1, 2}
  SocketRoom = 1
  MaxInFlight = 1
  ControlLane = 1
  OutboxLimit = 9
  EventLane = 1
  MaxMissed = 2
  Budgets <- MCBudgets
  Outgoing = 1
  EventBuffer = 1
INVARIANTS OutboxNeverStalls CloseMeansReleased NoLostWakeup
PROPERTIES KeepsPromise CallsReturn
CHECK_DEADLOCK FALSE
