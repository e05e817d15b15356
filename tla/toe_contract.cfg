SPECIFICATION Spec
CONSTANTS
  c1 = c1
  c2 = c2
  t1 = t1
  t2 = t2
  A = A
  B = B
  NoAccount = NoAccount
  Nobody = Nobody
  NoResult = NoResult
  Accounts = {A}
  Strangers = {B}
  Clients = {c1}
  ClientAccount <- OneClient
  Tabs = {t1, t2}
  Results = {t1, t2}
  TabAccount <- TabsAB
  Payloads <- OwnResult
  MaxJobs = 2
  MaxBatch = 1
  JobsPerTick = 1
  Timeout = 1
  ReclaimAge = 2
  TTL = 2
INVARIANTS TypeOK OwnersClaimShutsOthersOut AwaitedJobOutlivesTTL
PROPERTY OracleSpec
