SPECIFICATION Spec
CONSTANTS
  a = a
  b = b
  c = c
  Local = {1, 2}
  Foreign = {}
  Lsa = {a, b, c}
  Own <- PairOwn
  InitialDbs <- PairDbs
  Refreshing = {}
  LateHello = {}
  ForeignLsa = {}
  ForeignSeq = {}
  MaxSummary = 3
  Restarting = {}
  MaxDd = 3
  MaxSenders = 1
  MaxRequesters = 1
  MaxPackets = 3
  MaxLsdb = 3
  MaxRestarts = 0
  Lossy = FALSE
CHECK_DEADLOCK FALSE
INVARIANTS TypeOK EndsTold FullMeansSynced NoOrphanDD NoDuplicateLsa RunawayOnlyAsMaster NoLeftoverPoll PollScheduled Lockstep NoListRace
PROPERTY TransfersHeaders
