CONSTANTS
  None = None
  h1 = h1
  h2 = h2
  all = all
  osLinux = osLinux
  tagA = tagA
  tagB = tagB
  script1 = script1
  script2 = script2
  Setters = {s1}
  SetHosts = {h1, h2}
  Policies <- SomePolicies
  Coverage <- SomeCoverage
  Ranks <- SomeRanks
  Settings <- SomePrefs
  Hosts = {h1}
  Selectors = {all}
  Targets = {h1, all}
  Covers <- OneHost
  Crons <- TwoTimes
  Jobs = {j1}
  Scripts = {s1}
  MaxTime = 7
  MaxStops = 1
  Requests = {q1}
  Handlers = {r1, r2}
  Names = {alice, bob}
  Passwords = {pw}
  MaxResets = 1
  p1 = p1
  p2 = p2
  good = good
  bad = bad
  MaxMoves = 1
  Sampled = {"h1", "h2"}
  Peaks = {1, 2}
  Offsets <- Behind
  Ranges = {1, 4}
  Buckets = 2
  Retention = 2
  Senders = {"router", "switch"}
  Lags <- Around
  Styles = {"full", "classic", "none"}
  Keep = 2
  MaxAge = 2
  Limit = 1
  YearLength = 6
  Slack = 2
  StartTime = 3
  MaxDay = 7
  MaxRows = 2
  Updaters = {r1, r2}
  Builds <- SomeBuilds
  Releases <- SomeReleases
  MaxParts = 3
SPECIFICATION RecordsSpec
INVARIANTS  OncePerTime    ArchiveIsTrue
PROPERTIES   UpdatesGoUp
CHECK_DEADLOCK FALSE
