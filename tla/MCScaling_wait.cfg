CONSTANTS
  d1 = d1 s1 = s1 s2 = s2 a1 = a1 a2 = a2 r1 = r1 r2 = r2
  Beat = Beat
  KindOf <- KindOfTask
  Wanted <- AllOne
  Tasks = {d1, s1, a1}
  Limit = 1
  Menu = {"cluster"}
  Reqs = {r1}
  MaxFaults = 0
SPECIFICATION FairSpec
PROPERTY ClusterRestartEnds
