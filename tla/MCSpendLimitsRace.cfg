\* Two executors load their contexts before either has claimed.
SPECIFICATION Spec
CONSTANTS
  x1 = x1
  x2 = x2
  k1 = k1
  k2 = k2
  k3 = k3
  k4 = k4
  Executors = {x1, x2}
  Keys = {k1, k2, k3, k4}
  NoKey = NoKey
  Cost <- Costs
  MaxSingle = 2
  DailyCap = 6
  Cooldown = 2
  Window = 2
  MaxTime = 3
SYMMETRY Symmetry
PROPERTY
  CooldownKept
