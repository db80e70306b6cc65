CONSTANTS
  d1 = d1 s1 = s1 s2 = s2 a1 = a1 a2 = a2 r1 = r1 r2 = r2
  Beat = Beat
  KindOf <- KindOfTask
  Wanted <- AllOne
  Tasks = {d1, s1, a1, a2}
  Limit = 1
  Menu = {"agent"}
  Reqs = {r1}
  MaxFaults = 1
SPECIFICATION FairSpec
PROPERTY AgentRestartEnds
