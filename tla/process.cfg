SPECIFICATION FairSpec
CONSTANTS
  MaxRetries = 3  NoAnswer = NoAnswer
  Size = 3  Ceilings = {0, 1, 2}  Presses = 2  LoadFails = TRUE
  m = m  w = w  Writers = {m, w}  Main = m
  Attempts = 3  Opens = 2  Others = 1  Nobody = Nobody
  x = x  Requests = {x}
  Cooldown = 5  Window = 10  MaxReloads = 3  Horizon = 20  Mishaps = 1  Wraps = 3
INVARIANTS
  TypeOK
  NothingDoneIsLost StoppedMeansStopped ExitZeroIsComplete
  CleanInterrupt
  ReloadBudget ApiRequestsAreSeen
PROPERTIES
  CallContract UpdateContract MultiEnds DeferredIsDelivered WritersEnd
CHECK_DEADLOCK FALSE
