\* One host, three connections: enough for a slot to change hands twice while
\* another role of the host is attached.
CONSTANTS
  Hosts = {h1}
  Conns = {c1, c2, c3}
  Pushers = {p1}
  None = None
  QueueCap = 1
  Links = {l1}
  MaxTime = 3
SYMMETRY Interchangeable
SPECIFICATION HubSpec
INVARIANTS RegistryIsSound WorkOutlivesLink
PROPERTIES ImplementsDirectory TelemetryIsTrue
CHECK_DEADLOCK FALSE
