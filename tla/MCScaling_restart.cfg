CONSTANTS
  d1 = d1 s1 = s1 s2 = s2 a1 = a1 a2 = a2 r1 = r1 r2 = r2
  Beat = Beat
  KindOf <- KindOfTask
  Wanted <- AllOne
  Tasks = {d1}
  Limit = 2
  Menu = {"scale", "cluster", "ds", "server", "agent", "shutdown", "start", "adjust"}
  Reqs = {r1}
  MaxFaults = 0
SPECIFICATION Spec
INVARIANT RestoreDurable
PROPERTIES RestartRestores ShutdownAndStart
