SPECIFICATION Spec
CONSTANTS
  a = a
  b = b
  c = c
  Local = {1}
  Foreign = {2}
  Lsa = {a, b}
  Own <- PollerOwn
  InitialDbs <- PollerDbs
  Refreshing = {1}
  LateHello = {}
  ForeignLsa = {b}
  ForeignSeq = {0, 1}
  MaxSummary = 2
  Restarting = {1}
  MaxDd = 1
  MaxSenders = 1
  MaxRequesters = 2
  MaxPackets = 1
  MaxLsdb = 3
  MaxRestarts = 1
  Lossy = FALSE
CHECK_DEADLOCK FALSE
INVARIANTS RolesOpposed NothingForgotten MissingOnlyWhileGenerating
