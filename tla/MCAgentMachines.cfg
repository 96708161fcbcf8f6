CONSTANTS
  None = None
  Encoders = {e0, e1, e2, e3}
  First = e0
  InputOn = TRUE
  H264 = {e0, e1, e2}
  Versions = {v0, v1}
  v0 = v0
  Updaters = {u1, u2}
  Consoles = {k1, k2}
  Workers = {w1, w2}
  MaxEvents = 2
  Shapes = {1}
  MaxShapes = 2
  MaxTells = 1
  t1 = t1
  Names = {}
  Conns = {c1, c2}
SPECIFICATION MachinesSpec
INVARIANTS EncodersAreOwned OneWorker
PROPERTIES FrameLoopEnds OnlyWillingHostsRemoved AnswersUnlessTwoAreSilent WorkerFollowsConsole  InputNeverDies TerminalEnds LinkSettles
CHECK_DEADLOCK FALSE
