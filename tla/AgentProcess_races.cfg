CONSTANTS
  Versions = {v0, v1}
  First = v0
  Updaters = {u1, u2}
  Consoles = {k1}
  Workers = {w1}
  None = None
SPECIFICATION Spec
PROPERTY ExitLeavesABinary
CHECK_DEADLOCK FALSE
