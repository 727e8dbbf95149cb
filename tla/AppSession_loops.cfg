SPECIFICATION Spec
CONSTANTS
  Tokens = {t1}
  Loops = {l1, l2, l3}
  None = None
  Kills = TRUE
INVARIANTS TokenHasLoop KillAwaited
PROPERTIES TokenForgotten KillReturns
CHECK_DEADLOCK FALSE
