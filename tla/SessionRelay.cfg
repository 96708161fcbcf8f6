CONSTANTS
  Sessions = {s1}
  Viewers = {v1, v2}
  None = None
SPECIFICATION FairSpec
INVARIANTS SessionsAreSound
PROPERTY HandlersEnd
CHECK_DEADLOCK FALSE
