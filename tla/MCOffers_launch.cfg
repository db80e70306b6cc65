CONSTANTS
  o1 = o1
  o2 = o2
  o3 = o3
  o4 = o4
  o5 = o5
  h1 = h1
  h2 = h2
  p1 = p1
  p2 = p2
  Offers = {o1, o2, o3, o4, o5}
  Hosts = {h1, h2}
  HostOf <- MCHostOf
  Has <- MCHas
  Ports = {p1, p2}
  Amount = 1
  Commands <- MCCommands
  Constraint <- MCConstraint
  Anywhere = Anywhere
  NoOffer = NoOffer
  NoCommand = NoCommand
  EventLen = 3
  MaxLost = 1
SPECIFICATION Spec
INVARIANT MatchedIsLaunchable
