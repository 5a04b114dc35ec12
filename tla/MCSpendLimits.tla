--------------------------- MODULE MCSpendLimits ----------------------------
(* SpendLimits.tla for TLC: names for the model values of the cfg files,   *)
(* what each intervention costs, and the symmetry of the cheap ones.       *)
EXTENDS SpendLimits, TLC

CONSTANTS x1, x2, k1, k2, k3, k4

\* One intervention is too large for the single cap, the others are of its size.
Costs == [k \in Keys |-> IF k = k1 THEN 5 ELSE 2]

Symmetry == Permutations(Keys \ {k1}) \cup Permutations(Executors)
=============================================================================
