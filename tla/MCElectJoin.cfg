SPECIFICATION FairSpec
CONSTANTS
  Local = {1, 2}
  Restarting = {}
  Late = {2}
  Prompt = TRUE
  MaxRestarts = 0
  MaxNlsas = 2
CHECK_DEADLOCK FALSE
INVARIANTS NoElectionCrash OneDr
PROPERTY Settles
