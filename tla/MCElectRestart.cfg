SPECIFICATION Spec
CONSTANTS
  Local = {1, 2}
  Restarting = {1, 2}
  Late = {}
  Prompt = FALSE
  MaxRestarts = 1
  MaxNlsas = 2
CHECK_DEADLOCK FALSE
INVARIANTS TypeOK DrIsKnown CrashMeansSplit
