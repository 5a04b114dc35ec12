\* One executor and a cap for one intervention a day: the second is not refused.
SPECIFICATION Spec
CONSTANTS
  x1 = x1
  x2 = x2
  k1 = k1
  k2 = k2
  k3 = k3
  k4 = k4
  Executors = {x1}
  Keys = {k1, k2, k3, k4}
  NoKey = NoKey
  Cost <- Costs
  MaxSingle = 2
  DailyCap = 3
  Cooldown = 1
  Window = 2
  MaxTime = 3
SYMMETRY Symmetry
INVARIANT
  DailyCapKept
