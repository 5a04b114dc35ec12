\* Three clients on the same row, nothing fails but the broadcast itself.
SPECIFICATION FairSpec
CONSTANTS
  w1 = w1
  w2 = w2
  o1 = o1
  e1 = e1
  Workers = {w1, w2}
  Operators = {o1}
  Effects = {e1}
  NoEffect = NoEffect
  MaxVersion = 0
  Faults = {}
PROPERTY
  ClaimSettles
