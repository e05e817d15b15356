SPECIFICATION Spec
CONSTANTS
  c1 = c1
  c2 = c2
  t1 = t1
  t2 = t2
  A = A
  B = B
  NoAccount = NoAccount
  Nobody = Nobody
  NoResult = NoResult
  Accounts = {A, B}
  Strangers = {}
  Clients = {c1, c2}
  ClientAccount <- OwnAccounts
  Tabs = {t1}
  Results = {t1}
  TabAccount <- TabA
  Payloads <- OwnResult
  MaxJobs = 2
  MaxBatch = 1
  JobsPerTick = 1
  Timeout = 2
  ReclaimAge = 4
  TTL = 1
PROPERTY StalledQueueIsIdle
