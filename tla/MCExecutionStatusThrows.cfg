\* One worker, and status() may throw: the claimed row is never settled.
SPECIFICATION FairSpec
CONSTANTS
  w1 = w1
  w2 = w2
  o1 = o1
  e1 = e1
  Workers = {w1}
  Operators = {}
  Effects = {e1}
  NoEffect = NoEffect
  MaxVersion = 0
  Faults = {"status"}
PROPERTY
  ClaimSettles
