\* A worker and an operator request, one effect, the policy saved once, every
\* fault: the smallest instance in which claims race, the policy changes between
\* preparation and broadcast, and a crash leaves a row behind.
SPECIFICATION Spec
CONSTANTS
  w1 = w1
  w2 = w2
  o1 = o1
  e1 = e1
  Workers = {w1}
  Operators = {o1}
  Effects = {e1}
  NoEffect = NoEffect
  MaxVersion = 1
  Faults = {"crash", "status", "db", "ack"}
INVARIANTS
  TypeOK
  SoleOwner
  BroadcastAtMostOnce
  DurableBeforeBroadcast
  ConfirmedHasEffect
  AutonomousOnly
PROPERTY
  ImplementsIntervention
