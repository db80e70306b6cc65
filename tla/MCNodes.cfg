CONSTANTS
  a1 = a1 a2 = a2
  NoTask = NoTask
  Tasks = {a1, a2}
  MaxAgents = 1
  Faulty = {"restart", "no client", "no watch"}
  MaxFaults = 1
  Followed = {a1}
SPECIFICATION FairSpec
INVARIANT MirrorsFollow
PROPERTIES EndedLeaveNoTrace ReadyNodesOpen
