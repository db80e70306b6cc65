CONSTANTS
  p1 = p1 p2 = p2 h1 = h1
  srv = srv a1 = a1 a2 = a2 a3 = a3
  NoTask = NoTask
  Tasks = {srv, a1, a2, a3}
  Passes = {p1, p2}
  Holders = {h1}
  From = 3
  To = 6
  Template <- Templates
SYMMETRY Symmetry
SPECIFICATION Spec
INVARIANTS TypeOK SharingBounded ChosenNearRange
