CONSTANTS
  d1 = d1 s1 = s1 a1 = a1 b1 = b1 b2 = b2
  KindOf <- KindOfTask
  Wanted <- AsManyAsTasks
  Tasks = {d1, s1, a1}
  Beats = {b1, b2}
  Stops = {}
  MaxLost = 0
  MaxFaults = 2
SPECIFICATION FairSpec
PROPERTY NeverStarved
