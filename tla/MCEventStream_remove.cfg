CONSTANTS
  f1 = f1 f2 = f2 f3 = f3
  Nil = Nil
  Empty = Empty
  Size <- SizeOfKind
  Ids = {f1, f2, f3}
  MaxWire = 3
  MaxFaults = 2
SPECIFICATION FairSpec
PROPERTY RegisteredKept
