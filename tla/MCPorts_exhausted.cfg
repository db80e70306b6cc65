CONSTANTS
  p1 = p1 p2 = p2 h1 = h1
  srv = srv a1 = a1 a2 = a2 a3 = a3
  NoTask = NoTask
  Tasks = {srv, a1, a2}
  Passes = {p1}
  Holders = {}
  From = 3
  To = 5
  Template <- Templates
SPECIFICATION Spec
INVARIANT AllSharingBounded
