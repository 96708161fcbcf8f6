CONSTANTS
  a1 = a1
  a2 = a2
  m1 = m1
  m2 = m2
  Reach <- ReachBoth
  None = None
  Ids = {c1}
  Addrs = {a1, a2}
  Machines = {m1, m2}
  Editors = {e1}
  Written <- Either
SPECIFICATION FairSpec
INVARIANT OutageIsAnnounced
PROPERTIES FollowsTheMachine
