\* Two reserves, every way in which one can be unusable, six policies.
SPECIFICATION Spec
CONSTANTS
  a = a
  b = b
  Assets = {a, b}
  IdOrder <- Order
  Reserves <- ReserveSets
  Policies <- PolicySet
  Shocks = {1, 3, 6}
  UsdPositions <- UsdSet
  Scale = 4
  Wad = 4
  Bps = 2
INVARIANTS
  TypeOK
  MinimumExact
  SupplySuffices
  ChoiceIsCheapest
  UsdChoiceIsCheapest
  StressCommutes
  PartsFitTotals
PROPERTY
  SearchEnds
CHECK_DEADLOCK FALSE
