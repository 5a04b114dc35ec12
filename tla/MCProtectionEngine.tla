------------------------- MODULE MCProtectionEngine -------------------------
(* ProtectionEngine.tla for TLC: two reserves whose prices and units do    *)
(* not divide each other, with what can make each of them unusable.        *)
EXTENDS ProtectionEngine

CONSTANTS a, b

Order == [x \in Assets |-> IF x = a THEN 1 ELSE 2]

Plain == [price |-> 3, unit |-> 4, lt |-> 1, supplied |-> 9, debt |-> 0, stable |-> 0,
          wallet |-> 9, enabled |-> TRUE, usable |-> TRUE, frozen |-> FALSE,
          isolated |-> FALSE, capacity |-> NoCap]

Ordinary == {[Plain EXCEPT !.debt = d, !.supplied = s, !.wallet = w, !.price = p] :
               d \in {0, 5}, s \in {0, 9}, w \in {2, 14}, p \in {2, 3}}

Special == {[Plain EXCEPT !.enabled = FALSE, !.debt = 3], [Plain EXCEPT !.usable = FALSE, !.debt = 3],
            [Plain EXCEPT !.frozen = TRUE, !.debt = 3], [Plain EXCEPT !.isolated = TRUE, !.debt = 3],
            [Plain EXCEPT !.stable = 1, !.debt = 3], [Plain EXCEPT !.capacity = 2, !.debt = 3],
            [Plain EXCEPT !.lt = 0, !.debt = 3], [Plain EXCEPT !.unit = 1, !.debt = 2],
            [Plain EXCEPT !.price = 1], [Plain EXCEPT !.unit = 1, !.lt = 2, !.supplied = 2]}

ReserveSets == [x \in Assets |-> IF x = a THEN Ordinary ELSE Special]

Base == [target |-> 7, warning |-> 6, emergency |-> 5, maxSingle |-> 9, maxDaily |-> 9,
         approvalAbove |-> 9, spent |-> 0, enabled |-> TRUE, allowRepay |-> TRUE,
         allowAdd |-> TRUE, resting |-> FALSE]

PolicySet == {Base, [Base EXCEPT !.approvalAbove = 1, !.maxSingle = 3],
              [Base EXCEPT !.spent = 7, !.approvalAbove = 1], [Base EXCEPT !.resting = TRUE],
              [Base EXCEPT !.allowRepay = FALSE], [Base EXCEPT !.enabled = FALSE]}

UsdSet == {[collateral |-> c, debt |-> d, lt |-> t, debtWallet |-> w, collateralWallet |-> v] :
             c \in {0, 7, 12}, d \in {0, 3, 8}, t \in {2, 3}, w \in {2, 9}, v \in {1, 30}}
=============================================================================
