SPECIFICATION FairSpec
CONSTANTS
  Root = 1
  Databases <- MCDatabases
  Pids = {0, 1, 3, 9}
  Types = {1, 2, 7}
  MaxCost = 4
CHECK_DEADLOCK FALSE
INVARIANTS TypeOK ShortestSoFar CrashMeansIndirect NeighboursOnly
PROPERTY CalcEnds
