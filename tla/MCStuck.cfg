SPECIFICATION FairSpec
CONSTANTS
  a = a
  b = b
  c = c
  Local = {1, 2}
  Foreign = {}
  Lsa = {a, b, c}
  Own <- PairOwn
  InitialDbs <- StuckDbs
  Refreshing = {}
  LateHello = {}
  ForeignLsa = {}
  ForeignSeq = {}
  MaxSummary = 2
  Restarting = {}
  MaxDd = 2
  MaxSenders = 1
  MaxRequesters = 1
  MaxPackets = 3
  MaxLsdb = 3
  MaxRestarts = 0
  Lossy = TRUE
CHECK_DEADLOCK FALSE
PROPERTIES ExchangeEnds
