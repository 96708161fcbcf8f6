CONSTANTS
  Sessions = {s1, s2, s3}
  Ids = {s1, s2, s3}
  IdOf <- OwnIds
  Agents = {user}
  Modes = {native, fitted}
  Native = native
  None = None
  InputOn = {s1}
SPECIFICATION FairSpec
INVARIANTS OneUnsuperseded FreeSlotIsQuiet
PROPERTY SupersededStops
CHECK_DEADLOCK FALSE
