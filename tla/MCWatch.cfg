CONSTANTS
  Hosts = {h1}
  Rules = {"offline", "service"}
  Fixable = {"service"}
  For = 1
  OfflineAfter = 1
  MaxAttempts = 1
  Window = 2
  Prompt = FALSE
  Devices <- SomeDevices
  W = 3
  MaxLost = 1
  MaxMoved = 1
  A = A
  B = B
  G = G
  G2 = G2
  K = K
  U = U
  Nobody = Nobody
  Addresses = {A, B, G, G2, K, U}
  Block <- Blocks
  Docs <- SomeDocs
  Known = {K}
  Stations <- SomeStations
  MaxEdits = 1
  MaxLogins = 9
  MaxExpiries = 1
SPECIFICATION WatchSpec
INVARIANTS   MapIsTrue
PROPERTY AnnouncedInPairs
CHECK_DEADLOCK FALSE
