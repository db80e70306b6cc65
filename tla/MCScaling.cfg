CONSTANTS
  d1 = d1 s1 = s1 s2 = s2 a1 = a1 a2 = a2 r1 = r1 r2 = r2
  Beat = Beat
  KindOf <- KindOfTask
  Wanted <- AllOne
  Tasks = {a1}
  Limit = 1
  Menu = {"shutdown", "start", "cluster", "ds", "adjust"}
  Reqs = {r1, r2}
  MaxFaults = 1
SPECIFICATION Spec
INVARIANTS TypeOK NumberRemembered
SYMMETRY Symmetry
