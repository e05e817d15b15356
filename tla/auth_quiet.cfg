SPECIFICATION Spec
CONSTANTS
  None = 0
  t1 = t1  t2 = t2
  n1 = n1  n2 = n2  n3 = n3  n4 = n4
  h1 = h1  h2 = h2  h3 = h3
  NoNonce = NoNonce
  Tabs = {t1}
  Threads = {h1, h2}
  Nonces = {n1, n2, n3, n4}
  MaxLogin = 2
  Identity <- Alternate
  Interval = 1  MinSend = 2  MaxBackoff = 4  TTL = 2
  Timeout = 1
  MaxTrouble = 1
  Split = TRUE  Chatty = FALSE
INVARIANTS TypeOK
SYMMETRY Anew
PROPERTIES RewoundByLogin SessionContract
