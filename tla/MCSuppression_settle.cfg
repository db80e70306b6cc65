CONSTANTS
  d1 = d1 s1 = s1 a1 = a1 b1 = b1 b2 = b2
  KindOf <- KindOfTask
  Wanted <- AsManyAsTasks
  Tasks = {d1, s1, a1}
  Beats = {b1}
  Stops = {}
  MaxLost = 0
  MaxFaults = 1
SPECIFICATION FairSpec
PROPERTY SettlesSuppressed
