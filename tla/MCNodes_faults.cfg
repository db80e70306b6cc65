CONSTANTS
  a1 = a1 a2 = a2
  NoTask = NoTask
  Tasks = {a1}
  MaxAgents = 1
  Faulty = {"agent ends", "kill lost", "node back", "node unready", "delete fails", "list fails", "no watch", "ack lost", "cordon", "scale", "restart"}
  MaxFaults = 2
  Followed = {a1}
SPECIFICATION FairSpec
INVARIANTS TypeOK NestingBounded
PROPERTIES EndedLeaveNoTrace CordonHolds SurplusEnds
