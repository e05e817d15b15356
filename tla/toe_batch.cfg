SPECIFICATION FairSpec
CONSTANTS
  c1 = c1
  c2 = c2
  t1 = t1
  t2 = t2
  A = A
  B = B
  NoAccount = NoAccount
  Nobody = Nobody
  NoResult = NoResult
  Accounts = {A}
  Strangers = {}
  Clients = {c1}
  ClientAccount <- OneClient
  Tabs = {t1}
  Results = {t1}
  TabAccount <- TabA
  Payloads <- OwnResult
  MaxJobs = 2
  MaxBatch = 2
  JobsPerTick = 2
  Timeout = 1
  ReclaimAge = 2
  TTL = 1
INVARIANT AwaitedClaimStands
PROPERTIES BatchReturns QueueDrains
