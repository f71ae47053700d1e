SPECIFICATION Spec
CONSTANTS
  Local = {1, 2}
  Restarting = {}
  Late = {}
  Prompt = FALSE
  MaxRestarts = 0
  MaxNlsas = 2
CHECK_DEADLOCK FALSE
PROPERTY ChangeGenerates
