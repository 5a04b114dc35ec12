\* One worker, no fault: revalidation comes before the simulation, so what
\* reaches the reservation may have gone stale meanwhile.
SPECIFICATION Spec
CONSTANTS
  w1 = w1
  w2 = w2
  o1 = o1
  e1 = e1
  Workers = {w1}
  Operators = {}
  Effects = {e1}
  NoEffect = NoEffect
  MaxVersion = 1
  Faults = {}
PROPERTY
  ReservesOnlyCanonical
