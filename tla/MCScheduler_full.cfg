CONSTANTS
  d1 = d1 d2 = d2 d3 = d3
  s1 = s1 s2 = s2 s3 = s3 s4 = s4 s5 = s5 a1 = a1 a2 = a2
  w1 = w1 w2 = w2 b1 = b1 b2 = b2
  Loop = Loop
  NoTask = NoTask
  KindOf <- KindOfTask
  Max <- OneEach
  Tasks = {d1, s1, s2, s3}
  Cap = 2
  Workers = {w1}
  Beats = {b1}
  Stored = {d1}
  Followed = {}
  MaxFaults = 0
  MaxPending = 0
SPECIFICATION BeatSpec
PROPERTY CommandRestored
