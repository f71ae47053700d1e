SPECIFICATION Spec
CONSTANTS
  a = a
  b = b
  c = c
  Local = {3}
  Foreign = {1, 2}
  Lsa = {a, b}
  Own <- HubOwn
  InitialDbs <- HubDbs
  Refreshing = {}
  LateHello = {}
  ForeignLsa = {}
  ForeignSeq = {0, 1}
  MaxSummary = 1
  Restarting = {}
  MaxDd = 1
  MaxSenders = 1
  MaxRequesters = 1
  MaxPackets = 2
  MaxLsdb = 1
  MaxRestarts = 0
  Lossy = FALSE
CHECK_DEADLOCK FALSE
INVARIANT LaterPollScheduled
