CONSTANTS
  None = None
  Commands = {e1, e2}
  MaxOutput = 3
  Sizes = {2}
  MaxWritten = 2
  InFlight = 2
  d1 = d1
  d2 = d2
  d3 = d3
  t1 = t1
  t2 = t2
  Paints = {p1, p2}
  Pictures = {s1}
  Qualities = {2}
  Ceilings = {0, 600}
  MaxProcs = 2
  MaxUnits = 2
  Paths <- AllPaths
  Starts = {4000}
  MaxWindows = 8
  MaxLate = 0
  NoticeWithin = 7
  f1 = f1
  f2 = f2
  Names = {n1}
  MaxSize = 2
  Buffer = 1
SYMMETRY Interchangeable
SPECIFICATION SafetySpec
INVARIANTS AnswersAreTrue QuietScreenIsShown OutputIsSound TransfersAreWhole
 
CHECK_DEADLOCK FALSE
