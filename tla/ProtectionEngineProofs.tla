----------------------- MODULE ProtectionEngineProofs -----------------------
(***************************************************************************)
(* What an evaluation selects is the minimum effective intervention, for   *)
(* every market, position, policy and scale.                               *)
(*                                                                         *)
(* A search is exact: both quotients in portfolioOutcome are monotone in   *)
(* the amount, whatever the rounding; so an amount that does not reach the *)
(* target rules out every smaller one, and the bisection keeps "hi         *)
(* reaches, nothing below lo does".  The choice is of the cheapest: what a *)
(* policy admits it admits in a smaller amount, so that the exact minimum  *)
(* of a pair stands in for all amounts that reach; and the order of the    *)
(* sort is total, so that a finite set of candidates has a first.  The     *)
(* totals: a position that is searched was summed of its parts.            *)
(***************************************************************************)
EXTENDS ProtectionEngine, FiniteProofs, TLAPS

-----------------------------------------------------------------------------
(* Arithmetic.                                                             *)

LEMMA MulMonotone ==
  ASSUME NEW m \in Int, NEW n \in Int, NEW k \in Nat, m <= n
  PROVE  m * k <= n * k
OBVIOUS

LEMMA Division ==
  ASSUME NEW n \in Int, NEW d \in Nat \ {0}
  PROVE  /\ n \div d \in Int
         /\ (n \div d) * d <= n
         /\ n < (n \div d) * d + d
OBVIOUS

LEMMA QuotientAtMost ==
  ASSUME NEW k \in Int, NEW n \in Int, NEW d \in Nat \ {0}, k * d <= n
  PROVE  k <= n \div d
<1> DEFINE q == n \div d
<1>1. q \in Int /\ n < q * d + d
  BY Division
<1>2. SUFFICES ASSUME q + 1 <= k PROVE FALSE
  BY <1>1
<1>3. (q + 1) * d <= k * d
  BY <1>1, <1>2, MulMonotone
<1>4. (q + 1) * d = q * d + d
  BY <1>1
<1> QED
  BY <1>1, <1>3, <1>4

LEMMA DivMonotone ==
  ASSUME NEW m \in Int, NEW n \in Int, NEW d \in Nat \ {0}, m <= n
  PROVE  m \div d <= n \div d
<1>1. m \div d \in Int /\ (m \div d) * d <= m
  BY Division
<1> QED
  BY <1>1, QuotientAtMost

LEMMA DivAntitone ==
  ASSUME NEW n \in Nat, NEW d \in Nat \ {0}, NEW e \in Nat \ {0}, d <= e
  PROVE  n \div e <= n \div d
<1> DEFINE q == n \div e
<1>1. q \in Int /\ q * e <= n
  BY Division
<1>2. CASE q < 0
  <2>1. 0 * d <= n
    OBVIOUS
  <2>2. 0 <= n \div d /\ n \div d \in Int
    BY <2>1, QuotientAtMost, Division
  <2> QED
    BY <1>1, <1>2, <2>2
<1>3. CASE q >= 0
  <2>1. d * q <= e * q
    BY <1>1, <1>3, MulMonotone
  <2>2. q * d <= n
    BY <1>1, <2>1
  <2> QED
    BY <1>1, <2>2, QuotientAtMost
<1> QED
  BY <1>1, <1>2, <1>3

-----------------------------------------------------------------------------
(* The outcome is monotone in the amount.                                  *)

\* A reserve of a position that portfolioSchema.parse accepts.
ReserveOk(r) ==
  /\ r.price \in Nat \ {0} /\ r.unit \in Nat \ {0}
  /\ r.lt \in Nat /\ r.supplied \in Nat /\ r.debt \in Nat

PositionOk(p) ==
  /\ \A a \in Assets : ReserveOk(p.assets[a])
  /\ p.debt \in Nat /\ p.weighted \in Nat

LEMMA ValueMonotone ==
  ASSUME NEW r, ReserveOk(r), NEW rounding, NEW x \in Nat, NEW y \in Nat, x <= y
  PROVE  /\ Value(x, r, rounding) \in Int
         /\ Value(y, r, rounding) \in Int
         /\ Value(x, r, rounding) <= Value(y, r, rounding)
<1>1. r.price \in Nat /\ r.unit \in Nat \ {0}
  BY DEF ReserveOk
<1>2. x * r.price \in Int /\ y * r.price \in Int /\ x * r.price <= y * r.price
  BY <1>1, MulMonotone
<1>3. /\ x * r.price + r.unit - 1 \in Int
      /\ y * r.price + r.unit - 1 \in Int
      /\ x * r.price + r.unit - 1 <= y * r.price + r.unit - 1
  BY <1>1, <1>2
<1> QED
  BY <1>1, <1>2, <1>3, Division, DivMonotone DEF Value, CeilDiv

LEMMA HealthMonotone ==
  ASSUME NEW v \in Nat, NEW w \in Nat, NEW d \in Nat \ {0}, NEW e \in Nat \ {0},
         v <= w, e <= d
  PROVE  /\ HealthFactor(v, d) \in Int
         /\ HealthFactor(w, e) \in Int
         /\ HealthFactor(v, d) <= HealthFactor(w, e)
<1>1. Wad \in Nat \ {0} /\ Bps \in Nat \ {0}
  BY ScalesPositive
<1>2. v * Wad \in Nat /\ w * Wad \in Nat /\ v * Wad <= w * Wad
  BY <1>1, MulMonotone
<1>3. d * Bps \in Nat \ {0} /\ e * Bps \in Nat \ {0} /\ e * Bps <= d * Bps
  BY <1>1, MulMonotone
<1>4. (v * Wad) \div (d * Bps) <= (w * Wad) \div (d * Bps)
  BY <1>2, <1>3, DivMonotone
<1>5. (w * Wad) \div (d * Bps) <= (w * Wad) \div (e * Bps)
  BY <1>2, <1>3, DivAntitone
<1> QED
  BY <1>2, <1>3, <1>4, <1>5, Division DEF HealthFactor

\* The amounts a search of q may look at.
InRange(p, q, x) == x \in Nat /\ (q[2] = "REPAY_DEBT" => x <= p.assets[q[1]].debt)

LEMMA DebtAntitone ==
  ASSUME NEW p, PositionOk(p), NEW q \in Pairs, NEW x, NEW y,
         InRange(p, q, x), InRange(p, q, y), x <= y
  PROVE  /\ DebtAfter(p, q, x) \in Int
         /\ DebtAfter(p, q, y) \in Int
         /\ DebtAfter(p, q, y) <= DebtAfter(p, q, x)
<1> DEFINE r == p.assets[q[1]]
<1>1. q[1] \in Assets /\ ReserveOk(r) /\ p.debt \in Int
  BY DEF PositionOk, Pairs
<1>2. CASE q[2] = "REPAY_DEBT"
  <2>1. /\ r.debt - y \in Nat /\ r.debt - x \in Nat /\ r.debt \in Nat
        /\ r.debt - y <= r.debt - x
    BY <1>1, <1>2 DEF InRange, ReserveOk
  <2>2. Value(r.debt - y, r, p.rounding) <= Value(r.debt - x, r, p.rounding)
    BY <1>1, <2>1, ValueMonotone
  <2>3. /\ Value(r.debt, r, p.rounding) \in Int
        /\ Value(r.debt - x, r, p.rounding) \in Int
        /\ Value(r.debt - y, r, p.rounding) \in Int
    BY <1>1, <2>1, ValueMonotone
  <2> QED
    BY <1>1, <1>2, <2>2, <2>3 DEF DebtAfter, RemainingDebt
<1>3. CASE q[2] # "REPAY_DEBT"
  BY <1>1, <1>3 DEF DebtAfter
<1> QED
  BY <1>2, <1>3

LEMMA WeightMonotone ==
  ASSUME NEW p, PositionOk(p), NEW q \in Pairs, NEW x \in Nat, NEW y \in Nat, x <= y
  PROVE  /\ WeightAfter(p, q, x) \in Nat
         /\ WeightAfter(p, q, y) \in Nat
         /\ WeightAfter(p, q, x) <= WeightAfter(p, q, y)
<1> DEFINE r == p.assets[q[1]]
           Gain(z) == Value(r.supplied + z, r, "down") - Value(r.supplied, r, "down")
<1>1. q[1] \in Assets /\ ReserveOk(r) /\ p.weighted \in Nat
  BY DEF PositionOk, Pairs
<1>2. r.supplied \in Nat /\ r.lt \in Nat
  BY <1>1 DEF ReserveOk
<1>3. Gain(x) \in Int /\ Gain(y) \in Int /\ 0 <= Gain(x) /\ Gain(x) <= Gain(y)
  <2>1. r.supplied + x \in Nat /\ r.supplied + y \in Nat
    BY <1>2
  <2>2. Value(r.supplied, r, "down") <= Value(r.supplied + x, r, "down")
    BY <1>1, <1>2, <2>1, ValueMonotone
  <2>3. Value(r.supplied + x, r, "down") <= Value(r.supplied + y, r, "down")
    BY <1>1, <1>2, <2>1, ValueMonotone
  <2>4. /\ Value(r.supplied, r, "down") \in Int
        /\ Value(r.supplied + x, r, "down") \in Int
        /\ Value(r.supplied + y, r, "down") \in Int
    BY <1>1, <1>2, <2>1, ValueMonotone
  <2> QED
    BY <2>2, <2>3, <2>4
<1> HIDE DEF Gain
<1>4. 0 * r.lt <= Gain(x) * r.lt /\ Gain(x) * r.lt <= Gain(y) * r.lt
  BY <1>2, <1>3, MulMonotone
<1>5. Gain(x) * r.lt \in Int /\ Gain(y) * r.lt \in Int
  BY <1>2, <1>3
<1>6. RaisedWeight(p, q[1], x) = p.weighted + Gain(x) * r.lt
  BY DEF RaisedWeight, Gain
<1>7. RaisedWeight(p, q[1], y) = p.weighted + Gain(y) * r.lt
  BY DEF RaisedWeight, Gain
<1>8. RaisedWeight(p, q[1], x) \in Nat /\ RaisedWeight(p, q[1], y) \in Nat
  <2> DEFINE m == Gain(x) * r.lt
             n == Gain(y) * r.lt
  <2>1. 0 * r.lt = 0
    BY <1>2
  <2>2. m \in Nat /\ n \in Nat
    BY <2>1, <1>4, <1>5
  <2> HIDE DEF m, n
  <2>3. p.weighted + m \in Nat /\ p.weighted + n \in Nat
    BY <1>1, <2>2
  <2> QED
    BY <2>3, <1>6, <1>7 DEF m, n
<1>9. RaisedWeight(p, q[1], x) <= RaisedWeight(p, q[1], y)
  <2> DEFINE m == Gain(x) * r.lt
             n == Gain(y) * r.lt
  <2>1. m \in Int /\ n \in Int /\ m <= n
    BY <1>4, <1>5
  <2> HIDE DEF m, n
  <2>2. p.weighted + m <= p.weighted + n
    BY <1>1, <2>1
  <2> QED
    BY <2>2, <1>6, <1>7 DEF m, n
<1> QED
  BY <1>1, <1>8, <1>9 DEF WeightAfter

\* An amount reaches the target if a smaller one does and the total is not
\* overdrawn.
LEMMA ReachesMonotone ==
  ASSUME NEW p, PositionOk(p), NEW q \in Pairs, NEW x, NEW y, NEW target \in Nat,
         InRange(p, q, x), InRange(p, q, y), x <= y,
         DebtAfter(p, q, y) >= 0, Reaches(p, q, x, target)
  PROVE  Reaches(p, q, y, target)
<1> DEFINE d == DebtAfter(p, q, x)
           e == DebtAfter(p, q, y)
           v == WeightAfter(p, q, x)
           w == WeightAfter(p, q, y)
<1>1. d \in Int /\ e \in Int /\ e <= d
  BY DebtAntitone
<1>2. v \in Nat /\ w \in Nat /\ v <= w
  BY WeightMonotone DEF InRange
<1>3. d >= 0 /\ (d # 0 => HealthFactor(v, d) >= target)
  BY DEF Reaches
<1> HIDE DEF d, e, v, w
<1>4. ASSUME e # 0 PROVE HealthFactor(w, e) >= target
  <2>1. d \in Nat \ {0} /\ e \in Nat \ {0}
    BY <1>1, <1>4 DEF e
  <2>2. HealthFactor(v, d) <= HealthFactor(w, e) /\ HealthFactor(v, d) \in Int
                                               /\ HealthFactor(w, e) \in Int
    BY <1>1, <1>2, <2>1, HealthMonotone
  <2> QED
    BY <1>3, <2>1, <2>2
<1> QED
  BY <1>4 DEF Reaches, d, e, v, w

-----------------------------------------------------------------------------
(* The inductive invariant.                                                *)

\* What stands in a position that was normalised, and perhaps shocked.
AssetOk(r) ==
  /\ r.price \in Nat /\ r.unit \in Nat \ {0}
  /\ r.lt \in Nat /\ r.supplied \in Nat /\ r.debt \in Nat
  /\ r.wallet \in Nat /\ r.capacity \in Nat \cup {NoCap}

IsPosition(p) ==
  p = [assets |-> p.assets, debt |-> p.debt, weighted |-> p.weighted,
       rounding |-> p.rounding, hf |-> p.hf, blocked |-> p.blocked]

Portfolio == pc \in {"start", "next", "search", "done"}

\* The bisection: hi reaches, and nothing below lo does.
Bracketed ==
  /\ pair \in Visited
  /\ lo \in Nat \ {0} /\ hi \in Nat /\ lo <= hi
  /\ InRange(position, pair, hi)
  /\ Reaches(position, pair, hi, policy.target)
  /\ \A x \in 1 .. (lo - 1) : ~Reaches(position, pair, x, policy.target)

SearchInv ==
  /\ TypeOK
  /\ Portfolio => /\ \A a \in Assets : AssetOk(position.assets[a])
                  /\ position.assets = [a \in Assets |-> position.assets[a]]
                  /\ IsPosition(position)
  /\ pc \in {"next", "search"} => PositionOk(position) /\ todo \subseteq Visited
  /\ pc = "search" => Bracketed
  /\ MinimumExact
  /\ SupplySuffices

LEMMA TargetNat == TypeOK => policy.target \in Nat
  BY PoliciesValid DEF TypeOK, ValidPolicy

LEMMA PairsNotEmpty == ASSUME NEW q \in Pairs PROVE q # NoPair
  BY DEF Pairs, NoPair

LEMMA InitSearch == Init => SearchInv
<1> SUFFICES ASSUME Init PROVE SearchInv
  OBVIOUS
<1>1. \A a \in Assets : reserves[a] \in Reserves[a]
  BY DEF Init
<1>2. TypeOK
  BY <1>1 DEF Init, TypeOK, NoResult, NoPair
<1>3. ASSUME Portfolio PROVE position.assets = reserves
  BY <1>3 DEF Init, Portfolio, Normalized
<1>4. ASSUME NEW a \in Assets PROVE AssetOk(reserves[a])
  BY <1>1, <1>4, ReservesTyped, ScalesPositive DEF AssetOk, ReserveShape
<1>5. reserves = [a \in Assets |-> reserves[a]]
  BY DEF Init
<1>6. MinimumExact /\ SupplySuffices
  BY DEF Init, MinimumExact, SupplySuffices, Searched
<1>7. ASSUME Portfolio PROVE IsPosition(position)
  BY <1>7 DEF Init, Portfolio, Normalized, IsPosition
<1> QED
  BY <1>2, <1>3, <1>4, <1>5, <1>6, <1>7 DEF SearchInv, Init

\* The bound of a search that is not skipped is at least one.
LEMMA BoundPositive ==
  ASSUME SearchInv, pc = "next", NEW q \in Visited,
         q[2] = "ADD_COLLATERAL" => Shortfall(position, policy.target) > 0
  PROVE  Bound(q) \in Nat \ {0} /\ InRange(position, q, Bound(q))
<1> DEFINE r == position.assets[q[1]]
           s == Shortfall(position, policy.target)
<1>1. /\ q \in Pairs /\ q[1] \in Assets
      /\ IF q[2] = "REPAY_DEBT" THEN r.debt > 0 ELSE MaySupply(r)
  BY DEF Visited, Pairs
<1>2. ReserveOk(r)
  BY <1>1 DEF SearchInv, PositionOk
<1>3. CASE q[2] = "REPAY_DEBT"
  BY <1>1, <1>2, <1>3 DEF Bound, InRange, ReserveOk
<1>4. CASE q[2] # "REPAY_DEBT"
  <2>1. q[2] = "ADD_COLLATERAL"
    BY <1>1, <1>4 DEF Pairs, Types
  <2>2. s \in Nat
    <3>1. policy.target \in Nat /\ position.debt \in Nat /\ position.weighted \in Nat
      BY TargetNat DEF SearchInv, PositionOk
    <3>2. s \in Int
      BY <3>1, ScalesPositive DEF Shortfall
    <3> QED
      BY <2>1, <3>2
  <2>3. r.price \in Nat \ {0} /\ r.unit \in Nat \ {0} /\ r.lt \in Nat \ {0}
    BY <1>1, <1>2, <1>4 DEF ReserveOk, MaySupply
  <2> DEFINE n == s * r.unit
             d == r.price * r.lt * Wad
  <2>4. n \in Nat /\ d \in Nat \ {0}
    BY <2>2, <2>3, ScalesPositive
  <2> HIDE DEF n, d
  <2>5. ASSUME NEW m \in Nat, NEW e \in Nat \ {0}
        PROVE  CeilDiv(m, e) \in Nat
    <3>1. m + e - 1 \in Int /\ 0 * e <= m + e - 1
      BY <2>5
    <3>2. (m + e - 1) \div e \in Int /\ 0 <= (m + e - 1) \div e
      BY <3>1, <2>5, Division, QuotientAtMost
    <3> QED
      BY <3>2 DEF CeilDiv
  <2>6. CeilDiv(n, d) \in Nat /\ CeilDiv(r.unit, r.price) \in Nat
    BY <2>3, <2>4, <2>5
  <2>7. SupplyBound(position, q[1], policy.target) = CeilDiv(n, d) + CeilDiv(r.unit, r.price) + 1
    BY DEF SupplyBound, n, d
  <2> QED
    BY <1>4, <2>6, <2>7 DEF Bound, InRange
<1> QED
  BY <1>3, <1>4

LEMMA CeilDivAbove ==
  ASSUME NEW m \in Nat, NEW e \in Nat \ {0}
  PROVE  CeilDiv(m, e) \in Int /\ CeilDiv(m, e) * e >= m
<1> DEFINE c == (m + e - 1) \div e
<1>1. c \in Int /\ m + e - 1 < c * e + e
  BY Division
<1>2. c * e \in Int
  BY <1>1
<1> HIDE DEF c
<1>3. c * e >= m
  BY <1>1, <1>2
<1> QED
  BY <1>1, <1>3 DEF CeilDiv, c

\* The gain in value of an amount x, two floors apart, covers s / t when x is
\* k + j + 1, k being the ceiling of s * u / (p * t) and j that of u / p.
LEMMA GainCovers ==
  ASSUME NEW base \in Nat, NEW p \in Nat \ {0}, NEW u \in Nat \ {0}, NEW t \in Nat \ {0},
         NEW s \in Nat, NEW k \in Nat, NEW j \in Nat,
         k * (p * t) >= s * u, j * p >= u
  PROVE  (((base + (k + j + 1)) * p) \div u - (base * p) \div u) * t >= s
<1> DEFINE x == k + j + 1
           before == (base * p) \div u
           after == ((base + x) * p) \div u
           gain == after - before
<1>1. before \in Int /\ before * u <= base * p
  BY Division
<1>2. (base + x) * p \in Int /\ (base + x) * p = base * p + x * p
  OBVIOUS
<1>3. after \in Int /\ (base + x) * p < after * u + u
  BY <1>2, Division
<1>4. x * p < gain * u + u
  <2>1. gain * u = after * u - before * u
    BY <1>1, <1>3
  <2> HIDE DEF x, before, after
  <2> QED
    BY <1>1, <1>2, <1>3, <2>1 DEF x
<1>5. gain \in Int
  BY <1>1, <1>3
<1>6. x * p = k * p + j * p + p
  OBVIOUS
<1> HIDE DEF gain, x
<1>7. k * p < gain * u
  <2>1. k * p \in Int /\ j * p \in Int /\ gain * u \in Int
    BY <1>5
  <2> QED
    BY <1>4, <1>6, <2>1
<1>8. (k * p) * t <= (gain * u) * t
  BY <1>5, <1>7, MulMonotone
<1>9. s * u <= (gain * t) * u
  BY <1>5, <1>8
<1>10. SUFFICES ASSUME gain * t + 1 <= s PROVE FALSE
  BY <1>5 DEF gain, x
<1>11. (gain * t + 1) * u <= s * u
  BY <1>5, <1>10, MulMonotone
<1>12. (gain * t + 1) * u = (gain * t) * u + u
  BY <1>5
<1>13. (gain * t) * u \in Int /\ s * u \in Int
  BY <1>5
<1> QED
  BY <1>9, <1>11, <1>12, <1>13

\* The bound of an ADD_COLLATERAL search reaches the target.
LEMMA BoundSuffices ==
  ASSUME SearchInv, pc = "next", NEW q \in Visited, q[2] = "ADD_COLLATERAL",
         Shortfall(position, policy.target) > 0
  PROVE  Reaches(position, q, Bound(q), policy.target)
<1> DEFINE r == position.assets[q[1]]
           s == Shortfall(position, policy.target)
           t == r.lt * Wad
           k == CeilDiv(s * r.unit, r.price * r.lt * Wad)
           j == CeilDiv(r.unit, r.price)
           gain == Value(r.supplied + (k + j + 1), r, "down") - Value(r.supplied, r, "down")
           w == position.weighted + gain * r.lt
<1>1. PositionOk(position) /\ policy.target \in Nat /\ q \in Pairs
  BY TargetNat DEF SearchInv, Visited
<1>2. /\ q[1] \in Assets /\ ReserveOk(r) /\ r.lt > 0
      /\ position.debt \in Nat /\ position.weighted \in Nat
  BY <1>1 DEF PositionOk, Visited, Pairs, MaySupply
<1>3. /\ r.price \in Nat \ {0} /\ r.unit \in Nat \ {0} /\ r.lt \in Nat \ {0}
      /\ r.supplied \in Nat
  BY <1>2 DEF ReserveOk
<1>4. s \in Nat \ {0} /\ s = policy.target * position.debt * Bps - position.weighted * Wad
  BY <1>1, <1>2, ScalesPositive DEF Shortfall
<1>5. t \in Nat \ {0} /\ s * r.unit \in Nat /\ r.price * r.lt * Wad = r.price * t
                      /\ r.price * t \in Nat \ {0}
  BY <1>3, <1>4, ScalesPositive
<1> HIDE DEF s, t
<1>6. /\ k \in Int /\ k * (r.price * t) >= s * r.unit
      /\ j \in Int /\ j * r.price >= r.unit
  BY <1>3, <1>5, CeilDivAbove
<1> HIDE DEF k, j
<1>7. k \in Nat /\ j \in Nat
  <2>1. ASSUME NEW m \in Int, NEW e \in Nat \ {0}, m * e >= 0 PROVE m >= 0
    <3>1. SUFFICES ASSUME m + 1 <= 0 PROVE FALSE
      BY <2>1
    <3>2. (m + 1) * e <= 0 * e /\ (m + 1) * e = m * e + e
      BY <2>1, <3>1, MulMonotone
    <3> QED
      BY <2>1, <3>2
  <2>2. k * (r.price * t) >= 0
    BY <1>5, <1>6
  <2>3. j * r.price >= 0
    BY <1>3, <1>6
  <2> QED
    BY <1>3, <1>5, <1>6, <2>1, <2>2, <2>3
<1>8. gain * t >= s
  BY <1>3, <1>4, <1>5, <1>6, <1>7, GainCovers DEF Value
<1>9. gain \in Int
  <2>1. r.supplied + (k + j + 1) \in Nat
    BY <1>3, <1>7
  <2> QED
    BY <1>2, <1>3, <2>1, ValueMonotone
<1>10. Bound(q) = k + j + 1
  BY DEF Bound, SupplyBound, k, j, s
<1>11. WeightAfter(position, q, Bound(q)) = w
  BY <1>10 DEF WeightAfter, RaisedWeight
<1> HIDE DEF gain
<1>12. policy.target * (position.debt * Bps) <= w * Wad /\ w * Wad \in Int
  <2>1. w * Wad = position.weighted * Wad + gain * t
    BY <1>2, <1>3, <1>9, ScalesPositive DEF t
  <2>2. gain * t \in Int /\ position.weighted * Wad \in Int
    BY <1>2, <1>5, <1>9, ScalesPositive
  <2>3. policy.target * (position.debt * Bps) = policy.target * position.debt * Bps
    BY <1>1, <1>2, ScalesPositive
  <2> DEFINE n == policy.target * position.debt * Bps
  <2>4. n \in Int
    BY <1>1, <1>2, ScalesPositive
  <2> HIDE DEF n
  <2>5. s = n - position.weighted * Wad
    BY <1>4 DEF n
  <2>6. n <= w * Wad
    BY <1>4, <1>8, <2>1, <2>2, <2>4, <2>5
  <2> QED
    BY <2>1, <2>2, <2>3, <2>6 DEF n
<1>13. ASSUME position.debt # 0
       PROVE  HealthFactor(WeightAfter(position, q, Bound(q)), position.debt) >= policy.target
  <2>1. position.debt * Bps \in Nat \ {0}
    BY <1>2, <1>13, ScalesPositive
  <2>2. policy.target <= (w * Wad) \div (position.debt * Bps)
    BY <1>1, <1>12, <2>1, QuotientAtMost
  <2>3. (w * Wad) \div (position.debt * Bps) \in Int
    BY <1>12, <2>1, Division
  <2> QED
    BY <1>1, <1>11, <2>2, <2>3 DEF HealthFactor
<1>14. DebtAfter(position, q, Bound(q)) = position.debt
  BY DEF DebtAfter
<1> QED
  BY <1>2, <1>13, <1>14 DEF Reaches

\* An amount that does not reach the target rules out every smaller one.
LEMMA BelowRuledOut ==
  ASSUME SearchInv, pc \in {"next", "search"}, NEW q \in Visited, NEW y,
         InRange(position, q, y), DebtAfter(position, q, y) >= 0,
         ~Reaches(position, q, y, policy.target)
  PROVE  \A x \in 1 .. y : ~Reaches(position, q, x, policy.target)
<1>1. PositionOk(position) /\ q \in Pairs /\ policy.target \in Nat
  BY TargetNat DEF SearchInv, Visited
<1> SUFFICES ASSUME NEW x \in 1 .. y, Reaches(position, q, x, policy.target) PROVE FALSE
  OBVIOUS
<1>2. InRange(position, q, x) /\ x <= y
  BY <1>1 DEF InRange, PositionOk, ReserveOk, Pairs
<1> QED
  BY <1>1, <1>2, ReachesMonotone

-----------------------------------------------------------------------------
(* The steps.                                                              *)

\* What a step that leaves the evaluation's inputs alone keeps.
LEMMA InputsKept ==
  ASSUME SearchInv, UNCHANGED Input, Portfolio
  PROVE  /\ Visited' = Visited
         /\ \A a \in Assets : AssetOk(position'.assets[a])
         /\ position'.assets = [a \in Assets |-> position'.assets[a]]
         /\ IsPosition(position')
         /\ pc \in {"next", "search"} => PositionOk(position')
  BY DEF SearchInv, Input, Visited

\* A search that returns a right answer keeps the answers right.
LEMMA ReturnKeeps ==
  ASSUME SearchInv, pc \in {"next", "search"},
         NEW q \in Visited, NEW found \in Nat, Return(q, found),
         todo' \subseteq todo,
         Visited \ (todo' \cup {q}) \subseteq Visited \ (todo \cup {pair}),
         found # 0 => Reaches(position, q, found, policy.target),
         \A x \in 1 .. (IF found = 0 THEN Bound(q) ELSE found - 1) :
           ~Reaches(position, q, x, policy.target),
         q[2] = "ADD_COLLATERAL" => found # 0
  PROVE  SearchInv'
<1>1. /\ Visited' = Visited
      /\ \A a \in Assets : AssetOk(position'.assets[a])
      /\ position'.assets = [a \in Assets |-> position'.assets[a]]
      /\ IsPosition(position')
      /\ PositionOk(position')
  BY InputsKept DEF Return, Portfolio
<1>2. q \in Pairs
  BY DEF Visited
<1>3. minimum' = [minimum EXCEPT ![q] = found] /\ minimum \in [Pairs -> Nat]
  BY DEF Return, SearchInv, TypeOK
<1>4. TypeOK'
  BY <1>2, <1>3, PairsNotEmpty DEF Return, Input, SearchInv, TypeOK, NoPair, Pairs
<1>5. MinimumExact'
  <2>1. SUFFICES ASSUME NEW v \in Visited \ todo'
                 PROVE  /\ minimum'[v] # 0 => Reaches(position, v, minimum'[v], policy.target)
                        /\ \A x \in 1 .. (IF minimum'[v] = 0 THEN Bound(v) ELSE minimum'[v] - 1) :
                             ~Reaches(position, v, x, policy.target)
    BY <1>1 DEF MinimumExact, Searched, Return, Input, Bound
  <2>2. v \in Pairs
    BY DEF Visited
  <2>3. CASE v = q
    <3>1. minimum'[v] = found
      BY <1>2, <1>3, <2>3
    <3> QED
      BY <2>3, <3>1
  <2>4. CASE v # q
    <3>1. minimum'[v] = minimum[v]
      BY <1>3, <2>2, <2>4
    <3>2. v \in Searched
      BY <2>4 DEF Searched
    <3> QED
      BY <3>1, <3>2 DEF SearchInv, MinimumExact
  <2> QED
    BY <2>3, <2>4
<1>6. todo' \subseteq Visited'
  BY <1>1 DEF SearchInv
<1>7. pc' = "next"
  BY DEF Return
<1>8. SupplySuffices'
  <2>1. SUFFICES ASSUME NEW v \in Visited \ todo', v[2] = "ADD_COLLATERAL"
                 PROVE  minimum'[v] # 0
    BY <1>1 DEF SupplySuffices, Searched, Return
  <2>2. v \in Pairs
    BY DEF Visited
  <2>3. CASE v = q
    BY <1>2, <1>3, <2>1, <2>3
  <2>4. CASE v # q
    <3>1. v \in Searched
      BY <2>4 DEF Searched
    <3> QED
      BY <1>3, <2>1, <2>2, <2>4, <3>1 DEF SearchInv, SupplySuffices
  <2> QED
    BY <2>3, <2>4
<1> QED
  BY <1>1, <1>4, <1>5, <1>6, <1>7, <1>8 DEF SearchInv, Portfolio

\* Where the weighted sum already meets the target, one unit does.
LEMMA OneSuffices ==
  ASSUME SearchInv, pc = "next", NEW q \in Visited, q[2] = "ADD_COLLATERAL",
         Shortfall(position, policy.target) <= 0
  PROVE  Reaches(position, q, 1, policy.target)
<1> DEFINE w == WeightAfter(position, q, 1)
           v == WeightAfter(position, q, 0)
           t == policy.target
<1>1. PositionOk(position) /\ q \in Pairs /\ t \in Nat
  BY TargetNat DEF SearchInv, Visited
<1>2. position.debt \in Nat /\ position.weighted \in Nat
  BY <1>1 DEF PositionOk
<1>3. v \in Nat /\ w \in Nat /\ v <= w
  BY <1>1, WeightMonotone
<1>4. v = position.weighted
  <2> DEFINE r == position.assets[q[1]]
  <2>1. ReserveOk(r) /\ q[1] \in Assets
    BY <1>1 DEF PositionOk, Pairs
  <2>2. r.supplied \in Nat /\ r.lt \in Nat
    BY <2>1 DEF ReserveOk
  <2>3. Value(r.supplied, r, "down") \in Int
    BY <2>1, <2>2, ValueMonotone
  <2>4. r.supplied + 0 = r.supplied
    BY <2>2
  <2>5. RaisedWeight(position, q[1], 0) = position.weighted + 0 * r.lt
    BY <2>3, <2>4 DEF RaisedWeight
  <2> QED
    BY <1>2, <2>2, <2>5 DEF WeightAfter
<1>5. DebtAfter(position, q, 1) = position.debt
  BY DEF DebtAfter
<1> HIDE DEF w, v, t
<1>6. ASSUME position.debt # 0 PROVE HealthFactor(w, position.debt) >= t
  <2>1. position.debt * Bps \in Nat \ {0}
    BY <1>2, <1>6, ScalesPositive
  <2>2. position.weighted * Wad <= w * Wad /\ w * Wad \in Int
    BY <1>2, <1>3, <1>4, ScalesPositive, MulMonotone
  <2>3. t * position.debt * Bps <= position.weighted * Wad
    BY <1>1, <1>2, ScalesPositive DEF Shortfall, t
  <2>4. t * (position.debt * Bps) <= w * Wad
    BY <1>1, <1>2, <2>2, <2>3, ScalesPositive
  <2>5. t <= (w * Wad) \div (position.debt * Bps)
    BY <1>1, <2>1, <2>2, <2>4, QuotientAtMost
  <2>6. (w * Wad) \div (position.debt * Bps) \in Int
    BY <2>1, <2>2, Division
  <2> QED
    BY <1>1, <2>5, <2>6 DEF HealthFactor
<1> QED
  BY <1>2, <1>5, <1>6 DEF Reaches, w, t

LEMMA BeginKeeps ==
  ASSUME SearchInv, NEW q \in Pairs, Begin(q)
  PROVE  SearchInv'
<1>1. pc = "next" /\ q \in todo /\ todo' = todo \ {q} /\ q \in Visited
  BY DEF Begin, Turn, SearchInv
<1>2. pair = NoPair
  BY <1>1 DEF SearchInv, TypeOK
<1>3. Visited \ (todo' \cup {q}) \subseteq Visited \ (todo \cup {pair})
  BY <1>1, <1>2, PairsNotEmpty DEF Visited
<1>4. CASE q[2] = "ADD_COLLATERAL" /\ Shortfall(position, policy.target) <= 0 /\ Return(q, 1)
  <2>1. Reaches(position, q, 1, policy.target)
    BY <1>1, <1>4, OneSuffices
  <2>2. \A x \in 1 .. (1 - 1) : ~Reaches(position, q, x, policy.target)
    OBVIOUS
  <2> QED
    BY <1>1, <1>3, <1>4, <2>1, <2>2, ReturnKeeps
<1>5. CASE /\ q[2] = "ADD_COLLATERAL" => Shortfall(position, policy.target) > 0
           /\ DebtAfter(position, q, Bound(q)) >= 0
           /\ ~Reaches(position, q, Bound(q), policy.target)
           /\ Return(q, 0)
  <2>1. InRange(position, q, Bound(q))
    BY <1>1, <1>5, BoundPositive
  <2>2. \A x \in 1 .. Bound(q) : ~Reaches(position, q, x, policy.target)
    BY <1>1, <1>5, <2>1, BelowRuledOut
  <2>3. q[2] # "ADD_COLLATERAL"
    BY <1>1, <1>5, BoundSuffices
  <2> QED
    BY <1>1, <1>3, <1>5, <2>2, <2>3, ReturnKeeps
<1>6. CASE /\ q[2] = "ADD_COLLATERAL" => Shortfall(position, policy.target) > 0
           /\ Reaches(position, q, Bound(q), policy.target)
           /\ pc' = "search"
           /\ pair' = q /\ lo' = 1 /\ hi' = Bound(q)
           /\ UNCHANGED <<Input, minimum, result>>
  <2>1. Bound(q) \in Nat \ {0} /\ InRange(position, q, Bound(q))
    BY <1>1, <1>6, BoundPositive
  <2>2. /\ Visited' = Visited
        /\ \A a \in Assets : AssetOk(position'.assets[a])
        /\ position'.assets = [a \in Assets |-> position'.assets[a]]
        /\ IsPosition(position')
        /\ PositionOk(position')
    BY <1>1, <1>6, InputsKept DEF Portfolio
  <2>3. TypeOK'
    BY <1>1, <1>6, <2>1, PairsNotEmpty DEF SearchInv, TypeOK, Input
  <2>4. Bracketed'
    <3>1. \A x \in 1 .. (1 - 1) : ~Reaches(position, q, x, policy.target)
      OBVIOUS
    <3> QED
      BY <1>1, <1>6, <2>1, <2>2, <3>1 DEF Bracketed, Input, InRange
  <2>5. MinimumExact' /\ SupplySuffices'
    <3>1. Searched' \subseteq Searched
      BY <1>1, <1>3, <1>6, <2>2 DEF Searched
    <3> QED
      BY <1>6, <3>1 DEF SearchInv, MinimumExact, SupplySuffices, Input, Bound
  <2> QED
    BY <1>1, <1>6, <2>2, <2>3, <2>4, <2>5 DEF SearchInv, Portfolio
<1> QED
  BY <1>4, <1>5, <1>6 DEF Begin

LEMMA MiddleBetween ==
  ASSUME NEW l \in Nat \ {0}, NEW h \in Nat, l < h
  PROVE  (l + h) \div 2 \in Nat /\ l <= (l + h) \div 2 /\ (l + h) \div 2 < h
OBVIOUS

LEMMA BisectKeeps == ASSUME SearchInv, Bisect PROVE SearchInv'
<1>1. pc = "search" /\ pc' = pc /\ lo < hi /\ Bracketed
  BY DEF Bisect, SearchInv
<1>2. Middle \in Nat /\ lo <= Middle /\ Middle < hi
  BY <1>1, MiddleBetween DEF Middle, Bracketed
<1>3. /\ Visited' = Visited
      /\ \A a \in Assets : AssetOk(position'.assets[a])
      /\ position'.assets = [a \in Assets |-> position'.assets[a]]
      /\ IsPosition(position')
      /\ PositionOk(position')
  BY <1>1, InputsKept DEF Bisect, Portfolio
<1>4. PositionOk(position) /\ pair \in Pairs
  BY <1>1 DEF SearchInv, Bracketed, Visited
<1>5. InRange(position, pair, Middle)
  BY <1>1, <1>2, <1>4 DEF Bracketed, InRange, PositionOk, ReserveOk, Pairs
<1>6. TypeOK'
  BY <1>1, <1>2 DEF Bisect, LowerHigh, RaiseLow, SearchInv, TypeOK, Bracketed, Input
<1>7. Bracketed'
  <2>1. CASE LowerHigh
    BY <1>1, <1>2, <1>3, <1>5, <2>1 DEF Bisect, LowerHigh, Bracketed, Input, InRange
  <2>2. CASE RaiseLow
    <3>1. DebtAfter(position, pair, Middle) >= 0
      <4>1. DebtAfter(position, pair, hi) >= 0
        BY <1>1 DEF Bracketed, Reaches
      <4>2. /\ DebtAfter(position, pair, hi) <= DebtAfter(position, pair, Middle)
            /\ DebtAfter(position, pair, Middle) \in Int
            /\ DebtAfter(position, pair, hi) \in Int
        BY <1>1, <1>2, <1>4, <1>5, DebtAntitone DEF Bracketed
      <4> QED
        BY <4>1, <4>2
    <3>2. \A x \in 1 .. Middle : ~Reaches(position, pair, x, policy.target)
      BY <1>1, <1>5, <2>2, <3>1, BelowRuledOut DEF RaiseLow, Bracketed
    <3>3. (Middle + 1) - 1 = Middle /\ Middle + 1 <= hi /\ Middle + 1 \in Nat \ {0}
      BY <1>1, <1>2 DEF Bracketed
    <3> QED
      BY <1>1, <1>3, <2>2, <3>2, <3>3 DEF Bisect, RaiseLow, Bracketed, Input, InRange
  <2> QED
    BY <2>1, <2>2 DEF Bisect
<1>8. MinimumExact' /\ SupplySuffices'
  <2>1. Searched' = Searched
    BY <1>1, <1>3 DEF Bisect, Searched
  <2> QED
    BY <2>1 DEF Bisect, SearchInv, MinimumExact, SupplySuffices, Input, Bound
<1> QED
  BY <1>1, <1>3, <1>6, <1>7, <1>8 DEF SearchInv, Portfolio, Bisect

LEMMA FoundKeeps == ASSUME SearchInv, Found PROVE SearchInv'
<1>1. pc = "search" /\ Bracketed /\ lo = hi /\ Return(pair, lo) /\ todo' = todo
  BY DEF Found, SearchInv, Bracketed
<1>2. Visited \ (todo' \cup {pair}) \subseteq Visited \ (todo \cup {pair})
  BY <1>1
<1> QED
  BY <1>1, <1>2, ReturnKeeps DEF Bracketed

LEMMA AssessKeeps == ASSUME SearchInv, Assess PROVE SearchInv'
<1>1. pc = "start" /\ UNCHANGED Input /\ Portfolio
  BY DEF Assess, Refuse, Portfolio
<1>2. /\ Visited' = Visited
      /\ \A a \in Assets : AssetOk(position'.assets[a])
      /\ position'.assets = [a \in Assets |-> position'.assets[a]]
      /\ IsPosition(position')
  BY <1>1, InputsKept
<1>3. TypeOK'
  BY <1>1 DEF Assess, Refuse, Ended, Visited, Input, Search, SearchInv, TypeOK
<1>4. CASE \E status \in {"THROWN", "NO_ACTION", "NO_SAFE_ACTION"} : Refuse(status)
  BY <1>1, <1>2, <1>3, <1>4 DEF Refuse, SearchInv, MinimumExact, SupplySuffices, Searched
<1>5. CASE ~ParseThrows /\ pc' = "next" /\ todo' = Visited /\ UNCHANGED <<Input, Search, minimum, result>>
  <2>1. PositionOk(position')
    <3>1. position' = position /\ position.debt \in Nat /\ position.weighted \in Nat
      BY <1>5 DEF ParseThrows, Input
    <3>2. ASSUME NEW a \in Assets PROVE ReserveOk(position.assets[a])
      BY <1>2, <1>5, <3>1, <3>2 DEF ParseThrows, AssetOk, ReserveOk
    <3> QED
      BY <3>1, <3>2 DEF PositionOk
  <2>2. MinimumExact' /\ SupplySuffices'
    BY <1>2, <1>5 DEF MinimumExact, SupplySuffices, Searched
  <2> QED
    BY <1>2, <1>3, <1>5, <2>1, <2>2 DEF SearchInv
<1> QED
  BY <1>4, <1>5 DEF Assess

LEMMA ShockKeeps == ASSUME SearchInv, Shock PROVE SearchInv'
<1>1. PICK b \in Assets, factor \in Shocks :
        shock' = <<b, factor>> /\ position' = Stressed(position, b, factor)
  BY DEF Shock
<1>2. pc = "start" /\ pc' = pc
  BY DEF Shock
<1> DEFINE old == position.assets
           price == (old[b].price * factor) \div Scale
<1>3. position'.assets = [old EXCEPT ![b].price = price] /\ IsPosition(position')
  <2>1. IsPosition(position)
    BY <1>2 DEF SearchInv, Portfolio
  <2> QED
    BY <1>1, <2>1, Zenon DEF Stressed, IsPosition
<1>4. /\ old = [a \in Assets |-> old[a]]
      /\ \A a \in Assets : AssetOk(old[a])
  BY <1>2 DEF SearchInv, Portfolio
<1>5. price \in Nat
  <2>1. old[b].price \in Nat /\ factor \in Nat
    BY <1>4, ShocksPositive DEF AssetOk
  <2>2. old[b].price * factor \in Nat /\ 0 * Scale <= old[b].price * factor
    BY <2>1, ScalesPositive
  <2>3. 0 <= price /\ price \in Int
    BY <2>2, ScalesPositive, QuotientAtMost, Division
  <2> QED
    BY <2>3
<1> HIDE DEF price
<1>6. ASSUME NEW a \in Assets PROVE AssetOk(position'.assets[a])
  <2>1. CASE a # b
    <3>1. position'.assets[a] = old[a]
      BY <1>3, <1>4, <2>1
    <3> QED
      BY <1>4, <3>1
  <2>2. CASE a = b
    <3>1. position'.assets[a] = [old[b] EXCEPT !.price = price]
      BY <1>3, <1>4, <2>2
    <3>2. AssetOk(old[b])
      BY <1>4
    <3> QED
      BY <1>5, <3>1, <3>2 DEF AssetOk
  <2> QED
    BY <2>1, <2>2
<1>7. position'.assets = [a \in Assets |-> position'.assets[a]]
  BY <1>3, <1>4
<1>8. TypeOK'
  BY <1>1 DEF Shock, Search, SearchInv, TypeOK
<1>9. MinimumExact' /\ SupplySuffices'
  BY <1>2 DEF MinimumExact, SupplySuffices, Searched
<1> QED
  BY <1>2, <1>3, <1>6, <1>7, <1>8, <1>9 DEF SearchInv

LEMMA OutcomeStatus ==
  ASSUME NEW selected
  PROVE  Outcome(selected).status \in {"NO_SAFE_ACTION", "REQUIRE_APPROVAL", "READY"}
BY DEF Outcome

LEMMA EndKeeps == ASSUME SearchInv, Choose \/ AssessUsd PROVE SearchInv'
<1>1. CASE Choose
  <2>1. result'.status \in {"NO_SAFE_ACTION", "REQUIRE_APPROVAL", "READY"}
    BY <1>1, OutcomeStatus DEF Choose
  <2>2. /\ \A a \in Assets : AssetOk(position'.assets[a])
        /\ position'.assets = [a \in Assets |-> position'.assets[a]]
        /\ IsPosition(position')
    BY <1>1, InputsKept DEF Choose, Portfolio
  <2>3. TypeOK' /\ MinimumExact' /\ SupplySuffices'
    BY <1>1, <2>1 DEF Choose, Input, Search, SearchInv, TypeOK, MinimumExact, SupplySuffices, Searched
  <2> QED
    BY <1>1, <2>2, <2>3 DEF Choose, SearchInv
<1>2. CASE AssessUsd
  <2>1. result'.status \in {"NO_ACTION", "NO_SAFE_ACTION", "REQUIRE_APPROVAL", "READY"}
    <3>1. CASE result' = Ended("NO_ACTION")
      BY <3>1 DEF Ended
    <3>2. CASE \E s : result' = Outcome(s)
      BY <3>2, OutcomeStatus
    <3> QED
      BY <1>2, <3>1, <3>2 DEF AssessUsd, UsdResult
  <2>2. TypeOK' /\ MinimumExact' /\ SupplySuffices'
    BY <1>2, <2>1 DEF AssessUsd, Input, Search, SearchInv, TypeOK, MinimumExact, SupplySuffices, Searched
  <2> QED
    BY <1>2, <2>2 DEF AssessUsd, SearchInv, Portfolio
<1> QED
  BY <1>1, <1>2

LEMMA NextSearch == SearchInv /\ [Next]_vars => SearchInv'
<1> SUFFICES ASSUME SearchInv, [Next]_vars PROVE SearchInv'
  OBVIOUS
<1>1. CASE Shock
  BY <1>1, ShockKeeps
<1>2. CASE Assess
  BY <1>2, AssessKeeps
<1>3. ASSUME NEW q \in Pairs, Begin(q) PROVE SearchInv'
  BY <1>3, BeginKeeps
<1>4. CASE Bisect
  BY <1>4, BisectKeeps
<1>5. CASE Found
  BY <1>5, FoundKeeps
<1>6. CASE Choose \/ AssessUsd
  BY <1>6, EndKeeps
<1>7. CASE UNCHANGED vars
  <2>1. Visited' = Visited /\ Searched' = Searched
    BY <1>7 DEF vars, Visited, Searched
  <2>2. TypeOK'
    BY <1>7 DEF vars, SearchInv, TypeOK
  <2>3. MinimumExact' /\ SupplySuffices'
    BY <1>7, <2>1 DEF vars, SearchInv, MinimumExact, SupplySuffices, Bound
  <2>4. pc = "search" => Bracketed'
    BY <1>7, <2>1 DEF vars, SearchInv, Bracketed
  <2> QED
    BY <1>7, <2>1, <2>2, <2>3, <2>4 DEF vars, SearchInv, Portfolio
<1> QED
  BY <1>1, <1>2, <1>3, <1>4, <1>5, <1>6, <1>7 DEF Next

\* The inductive invariant: a bisection is bracketed at every step.
THEOREM SearchBracketed == Spec => []SearchInv
BY InitSearch, NextSearch, PTL DEF Spec

\* Every reachable state of the engine is well typed: bounds and minimums are
\* natural numbers, and only a search at work has a pair.
THEOREM EngineTypes == Spec => []TypeOK
<1>1. SearchInv => TypeOK
  BY DEF SearchInv
<1> QED
  BY <1>1, SearchBracketed, PTL

\* minimumPortfolioAmount returns the exact minimum, or null only where no
\* amount within its bound reaches the target; for every price, unit,
\* threshold, rounding and scale.
THEOREM SearchIsExact == Spec => []MinimumExact
<1>1. SearchInv => MinimumExact
  BY DEF SearchInv
<1> QED
  BY <1>1, SearchBracketed, PTL

\* The bound of minimumPortfolioAmount is always enough: where collateral may
\* be supplied, some amount of it reaches the target, and the search finds it.
THEOREM SupplyAlwaysSuffices == Spec => []SupplySuffices
<1>1. SearchInv => SupplySuffices
  BY DEF SearchInv
<1> QED
  BY <1>1, SearchBracketed, PTL

-----------------------------------------------------------------------------
(***************************************************************************)
(* The ranking.  Costs are fractions, compared by multiplying across; among *)
(* candidates of which no two share asset, type and cost the order is total *)
(* and transitive, so that a finite set of them has a first.                *)
(***************************************************************************)

\* The fraction m / k is at most n / l.
LEMMA FractionsTransitive ==
  ASSUME NEW x \in Nat, NEW a \in Nat \ {0}, NEW y \in Nat, NEW b \in Nat \ {0},
         NEW z \in Nat, NEW c \in Nat \ {0},
         x * b <= y * a, y * c <= z * b
  PROVE  /\ x * c <= z * a
         /\ x * b < y * a \/ y * c < z * b => x * c < z * a
<1> DEFINE xc == x * c
           za == z * a
<1>1. xc \in Nat /\ za \in Nat
  OBVIOUS
<1>2. xc * b <= (y * a) * c
  <2>1. (x * b) * c <= (y * a) * c
    BY MulMonotone
  <2> QED
    BY <2>1
<1>3. (y * c) * a <= za * b
  <2>1. (y * c) * a <= (z * b) * a
    BY MulMonotone
  <2> QED
    BY <2>1
<1>4. (y * a) * c = (y * c) * a
  OBVIOUS
<1>5. xc * b <= za * b
  <2>1. (y * c) * a \in Int /\ xc * b \in Int /\ za * b \in Int
    BY <1>1
  <2> QED
    BY <1>2, <1>3, <1>4, <2>1
<1>6. ASSUME za + 1 <= xc PROVE FALSE
  <2>1. (za + 1) * b <= xc * b
    BY <1>1, <1>6, MulMonotone
  <2>2. (za + 1) * b = za * b + b
    BY <1>1
  <2>3. za * b \in Nat /\ xc * b \in Nat
    BY <1>1
  <2> QED
    BY <1>5, <2>1, <2>2, <2>3
<1>7. ASSUME x * b < y * a \/ y * c < z * b, xc = za PROVE FALSE
  <2>1. CASE x * b < y * a
    <3>1. (x * b + 1) * c <= (y * a) * c
      BY <2>1, MulMonotone
    <3>2. (x * b + 1) * c = xc * b + c
      OBVIOUS
    <3>3. xc * b \in Nat /\ za * b \in Nat /\ (y * a) * c \in Nat
      BY <1>1
    <3> HIDE DEF xc, za
    <3> QED
      BY <1>3, <1>4, <1>7, <3>1, <3>2, <3>3
  <2>2. CASE y * c < z * b
    <3>1. (y * c + 1) * a <= (z * b) * a
      BY <2>2, MulMonotone
    <3>2. (y * c + 1) * a = (y * c) * a + a /\ (z * b) * a = za * b
      OBVIOUS
    <3>3. xc * b \in Nat /\ za * b \in Nat /\ (y * c) * a \in Nat
      BY <1>1
    <3> HIDE DEF xc, za
    <3> QED
      BY <1>2, <1>4, <1>7, <3>1, <3>2, <3>3
  <2> QED
    BY <1>7, <2>1, <2>2
<1> QED
  BY <1>1, <1>6, <1>7

CandidateOk(c) ==
  /\ c.asset \in Assets /\ c.type \in Types
  /\ c.cost \in Nat /\ c.per \in Nat \ {0}
  /\ c.approval \in BOOLEAN

\* Of one asset and one type, the cost tells candidates apart.
Unambiguous(S) ==
  /\ \A c \in S : CandidateOk(c)
  /\ \A c, d \in S : c.asset = d.asset /\ c.type = d.type /\ c.cost * d.per = d.cost * c.per => c = d

LEMMA BeforeTotal ==
  ASSUME NEW S, Unambiguous(S), NEW c \in S, NEW d \in S, c # d
  PROVE  Before(c, d) \/ Before(d, c)
<1> DEFINE x == c.cost * d.per
           y == d.cost * c.per
<1>1. CandidateOk(c) /\ CandidateOk(d)
  BY DEF Unambiguous
<1>2. x \in Nat /\ y \in Nat
  BY <1>1 DEF CandidateOk
<1>3. CASE x # y
  BY <1>2, <1>3 DEF Before
<1>4. CASE x = y /\ c.approval # d.approval
  BY <1>1, <1>4 DEF Before, CandidateOk
<1>5. CASE x = y /\ c.approval = d.approval /\ c.type # d.type
  BY <1>1, <1>5 DEF Before, CandidateOk, Types
<1>6. CASE x = y /\ c.approval = d.approval /\ c.type = d.type
  <2>1. c.asset # d.asset
    BY <1>6 DEF Unambiguous
  <2>2. IdOrder[c.asset] # IdOrder[d.asset] /\ IdOrder[c.asset] \in Nat /\ IdOrder[d.asset] \in Nat
    BY <1>1, <2>1, OrderIsTotal DEF CandidateOk
  <2> QED
    BY <1>6, <2>2 DEF Before
<1> QED
  BY <1>3, <1>4, <1>5, <1>6

\* What the sort looks at after the cost.
Later(c, d) ==
  \/ ~c.approval /\ d.approval
  \/ c.approval = d.approval /\ c.type = "REPAY_DEBT" /\ d.type # "REPAY_DEBT"
  \/ c.approval = d.approval /\ c.type = d.type /\ IdOrder[c.asset] < IdOrder[d.asset]

LEMMA BeforeIsCostThenLater ==
  ASSUME NEW c, NEW d
  PROVE  Before(c, d) <=> \/ c.cost * d.per < d.cost * c.per
                          \/ c.cost * d.per = d.cost * c.per /\ Later(c, d)
BY DEF Before, Later

LEMMA LaterTransitive ==
  ASSUME NEW c, NEW d, NEW e, CandidateOk(c), CandidateOk(d), CandidateOk(e),
         Later(c, d), Later(d, e)
  PROVE  Later(c, e)
<1>1. IdOrder[c.asset] \in Nat /\ IdOrder[d.asset] \in Nat /\ IdOrder[e.asset] \in Nat
  BY OrderIsTotal DEF CandidateOk
<1> QED
  BY <1>1 DEF Later, CandidateOk, Types

LEMMA BeforeTransitive ==
  ASSUME NEW c, NEW d, NEW e, CandidateOk(c), CandidateOk(d), CandidateOk(e),
         Before(c, d), Before(d, e)
  PROVE  Before(c, e)
<1>1. /\ c.cost \in Nat /\ c.per \in Nat \ {0}
      /\ d.cost \in Nat /\ d.per \in Nat \ {0}
      /\ e.cost \in Nat /\ e.per \in Nat \ {0}
  BY DEF CandidateOk
<1>2. PICK cd \in Nat, dc \in Nat, de \in Nat, ed \in Nat, ce \in Nat, ec \in Nat :
        /\ cd = c.cost * d.per /\ dc = d.cost * c.per
        /\ de = d.cost * e.per /\ ed = e.cost * d.per
        /\ ce = c.cost * e.per /\ ec = e.cost * c.per
  <2>1. /\ c.cost * d.per \in Nat /\ d.cost * c.per \in Nat
        /\ d.cost * e.per \in Nat /\ e.cost * d.per \in Nat
        /\ c.cost * e.per \in Nat /\ e.cost * c.per \in Nat
    BY <1>1
  <2> QED
    BY <2>1, Zenon
<1>3. cd < dc \/ (cd = dc /\ Later(c, d))
  BY <1>2, BeforeIsCostThenLater
<1>4. de < ed \/ (de = ed /\ Later(d, e))
  BY <1>2, BeforeIsCostThenLater
<1>5. cd <= dc /\ de <= ed
  BY <1>3, <1>4
<1>6. ce <= ec /\ (cd < dc \/ de < ed => ce < ec)
  BY <1>1, <1>2, <1>5, FractionsTransitive
<1>7. ce < ec \/ (ce = ec /\ Later(c, e))
  <2>1. CASE cd < dc \/ de < ed
    BY <1>6, <2>1
  <2>2. CASE cd = dc /\ de = ed
    <3>1. Later(c, e)
      BY <1>3, <1>4, <2>2, LaterTransitive
    <3> QED
      BY <1>6, <3>1
  <2> QED
    BY <1>5, <2>1, <2>2
<1> QED
  BY <1>2, <1>7, BeforeIsCostThenLater

LEMMA FirstExists ==
  ASSUME NEW S, IsFiniteSet(S), Unambiguous(S), S # {}
  PROVE  First(S) # {}
<1> DEFINE Bad == {T \in SUBSET S : T # {} /\ First(T) = {}}
<1> SUFFICES ASSUME Bad # {} PROVE FALSE
  OBVIOUS
<1>1. PICK T \in Bad : \A U \in Bad : U \subseteq T => U = T
  <2> Bad \in SUBSET SUBSET S
    OBVIOUS
  <2> HIDE DEF Bad
  <2> QED
    BY SmallestSubset
<1>2. T \in SUBSET S /\ T # {} /\ First(T) = {}
  BY <1>1
<1>3. PICK x \in T : TRUE
  BY <1>2
<1>4. T \ {x} # {}
  <2> SUFFICES ASSUME T \ {x} = {} PROVE FALSE
    OBVIOUS
  <2>1. x \in First(T)
    BY <1>3 DEF First
  <2> QED
    BY <1>2, <2>1
<1>5. First(T \ {x}) # {}
  BY <1>1, <1>2, <1>3, <1>4
<1>6. PICK f \in T \ {x} : \A d \in (T \ {x}) \ {f} : Before(f, d)
  BY <1>5 DEF First
<1>7. f \in S /\ x \in S /\ f # x
  BY <1>2, <1>3, <1>6
<1>8. CASE Before(f, x)
  <2>1. f \in First(T)
    BY <1>6, <1>8 DEF First
  <2> QED
    BY <1>2, <2>1
<1>9. CASE Before(x, f)
  <2>1. ASSUME NEW d \in T \ {x} PROVE Before(x, d)
    <3>1. CASE d = f
      BY <1>9, <3>1
    <3>2. CASE d # f
      <4>1. Before(f, d) /\ d \in S
        BY <1>2, <1>6, <3>2
      <4>2. CandidateOk(x) /\ CandidateOk(f) /\ CandidateOk(d)
        BY <1>7, <4>1 DEF Unambiguous
      <4> QED
        BY <1>9, <4>1, <4>2, BeforeTransitive
    <3> QED
      BY <3>1, <3>2
  <2>2. x \in First(T)
    BY <1>3, <2>1 DEF First
  <2> QED
    BY <1>2, <2>2
<1> QED
  BY <1>7, <1>8, <1>9, BeforeTotal

\* What is selected is at least as good as c.
Dominates(selected, c) ==
  \E s \in selected :
    /\ s.reaches /\ s.admitted
    /\ s.approval => c.approval
    /\ s.approval = c.approval => s.cost * c.per <= c.cost * s.per

\* Of any finite set of candidates, what the engine selects beats every valid one.
LEMMA SelectionDominates ==
  ASSUME NEW S, IsFiniteSet(S), Unambiguous(S), NEW c \in S, c.reaches, c.admitted
  PROVE  Dominates(Select(S), c)
<1> DEFINE valid == {d \in S : d.reaches /\ d.admitted}
           free  == {d \in valid : ~d.approval}
           pool  == IF free # {} THEN free ELSE valid
<1>1. IsFiniteSet(pool) /\ Unambiguous(pool) /\ pool # {} /\ pool \subseteq S
  <2>1. pool \subseteq S /\ pool # {}
    OBVIOUS
  <2>2. IsFiniteSet(pool)
    BY <2>1, FS_Subset
  <2> QED
    BY <2>1, <2>2 DEF Unambiguous
<1>2. PICK s \in pool : \A d \in pool \ {s} : Before(s, d)
  <2>1. First(pool) # {}
    <3> HIDE DEF pool
    <3> QED
      BY <1>1, FirstExists
  <2> QED
    BY <2>1 DEF First
<1>3. s \in Select(S)
  BY <1>2 DEF Select, First
<1>4. s.reaches /\ s.admitted /\ s \in S /\ CandidateOk(s) /\ CandidateOk(c)
  BY <1>2 DEF Unambiguous
<1>5. s.approval => c.approval
  BY <1>2
<1>6. ASSUME s.approval = c.approval PROVE s.cost * c.per <= c.cost * s.per
  <2>1. c \in pool
    BY <1>2, <1>6
  <2>2. CASE c = s
    BY <1>4, <2>2 DEF CandidateOk
  <2>3. CASE c # s
    <3>1. Before(s, c)
      BY <1>2, <2>1, <2>3
    <3>2. s.cost * c.per \in Nat /\ c.cost * s.per \in Nat
      BY <1>4 DEF CandidateOk
    <3> QED
      BY <3>1, <3>2 DEF Before
  <2> QED
    BY <2>2, <2>3
<1> QED
  BY <1>3, <1>4, <1>5, <1>6 DEF Dominates

\* A candidate that costs no more and asks for no more stands in for another.
LEMMA DominatesThrough ==
  ASSUME NEW selected, NEW m, NEW c, CandidateOk(m), CandidateOk(c),
         \A s \in selected : CandidateOk(s),
         Dominates(selected, m), m.approval => c.approval, m.cost * c.per <= c.cost * m.per
  PROVE  Dominates(selected, c)
<1>1. PICK s \in selected :
        /\ s.reaches /\ s.admitted
        /\ s.approval => m.approval
        /\ s.approval = m.approval => s.cost * m.per <= m.cost * s.per
  BY DEF Dominates
<1>2. ASSUME s.approval = c.approval PROVE s.cost * c.per <= c.cost * s.per
  <2>1. s.approval = m.approval
    BY <1>1, <1>2 DEF CandidateOk
  <2>2. s.cost * m.per <= m.cost * s.per
    BY <1>1, <2>1
  <2>3. /\ s.cost \in Nat /\ s.per \in Nat \ {0}
        /\ m.cost \in Nat /\ m.per \in Nat \ {0}
        /\ c.cost \in Nat /\ c.per \in Nat \ {0}
    BY <1>1 DEF CandidateOk
  <2> QED
    BY <2>2, <2>3, FractionsTransitive
<1> QED
  BY <1>1, <1>2 DEF Dominates

LEMMA SelectIsAmong == ASSUME NEW S PROVE Select(S) \subseteq S
BY DEF Select, First

-----------------------------------------------------------------------------
(***************************************************************************)
(* The choice among a portfolio's candidates.                              *)
(***************************************************************************)

LEMMA Pairwise == IsFiniteSet(Pairs)
<1>1. IsFiniteSet(Types)
  <2>1. Types = {"REPAY_DEBT"} \cup {"ADD_COLLATERAL"}
    BY DEF Types
  <2>2. IsFiniteSet({"REPAY_DEBT"})
    BY FS_Singleton
  <2> QED
    BY <2>1, <2>2, FS_AddElement
<1> QED
  BY <1>1, AssetsFinite, FS_Product DEF Pairs

\* The policy is one.
LEMMA PolicyValid == TypeOK => ValidPolicy(policy)
BY PoliciesValid DEF TypeOK

\* What a candidate is made of, in a position that is searched.
LEMMA ReserveNumbers ==
  ASSUME SearchInv, pc = "next", NEW q \in Pairs
  PROVE  LET r == position.assets[q[1]]
         IN  /\ q[1] \in Assets /\ q[2] \in Types
             /\ r.price \in Nat \ {0} /\ r.unit \in Nat \ {0}
             /\ r.debt \in Nat /\ r.wallet \in Nat /\ r.capacity \in Int
BY DEF SearchInv, Portfolio, PositionOk, ReserveOk, AssetOk, Pairs, NoCap

\* A natural amount makes a candidate.
LEMMA CandidateTyped ==
  ASSUME SearchInv, pc = "next", NEW q \in Pairs, NEW x \in Nat
  PROVE  /\ CandidateOk(Candidate(position, policy, q, x))
         /\ Candidate(position, policy, q, x).asset = q[1]
         /\ Candidate(position, policy, q, x).type = q[2]
         /\ Candidate(position, policy, q, x).cost = x * position.assets[q[1]].price
         /\ Candidate(position, policy, q, x).per = position.assets[q[1]].unit
<1>1. /\ q[1] \in Assets /\ q[2] \in Types
      /\ position.assets[q[1]].price \in Nat \ {0} /\ position.assets[q[1]].unit \in Nat \ {0}
  BY ReserveNumbers
<1>2. x * position.assets[q[1]].price \in Nat
  BY <1>1
<1>3. Candidate(position, policy, q, x).approval \in BOOLEAN
  BY DEF Candidate
<1> QED
  BY <1>1, <1>2, <1>3 DEF Candidate, CandidateOk

LEMMA ProductsDistinct ==
  ASSUME NEW x \in Nat, NEW y \in Nat, NEW p \in Nat \ {0}, NEW u \in Nat \ {0},
         (x * p) * u = (y * p) * u
  PROVE  x = y
<1> DEFINE k == p * u
<1>1. k \in Nat \ {0} /\ x * k = y * k
  <2>1. (x * p) * u = x * (p * u) /\ (y * p) * u = y * (p * u) /\ p * u \in Nat \ {0}
    OBVIOUS
  <2> QED
    BY <2>1
<1> HIDE DEF k
<1>2. ASSUME x < y PROVE FALSE
  <2>1. (x + 1) * k <= y * k
    BY <1>1, <1>2, MulMonotone
  <2>2. (x + 1) * k = x * k + k /\ x * k \in Nat
    BY <1>1
  <2> QED
    BY <1>1, <2>1, <2>2
<1>3. ASSUME y < x PROVE FALSE
  <2>1. (y + 1) * k <= x * k
    BY <1>1, <1>3, MulMonotone
  <2>2. (y + 1) * k = y * k + k /\ y * k \in Nat
    BY <1>1
  <2> QED
    BY <1>1, <2>1, <2>2
<1> QED
  BY <1>2, <1>3

\* The amounts of a search are numbers that the wallet, the policy or the search gave.
Tried(q) ==
  LET r == position.assets[q[1]]
  IN  {r.wallet, (policy.maxSingle * r.unit) \div r.price}
        \cup (IF minimum[q] = 0 THEN {r.debt} ELSE Amounts(minimum[q]))

LEMMA TriedFinite == ASSUME NEW q PROVE IsFiniteSet(Tried(q))
<1>1. ASSUME NEW a, NEW b PROVE IsFiniteSet({a, b})
  <2>1. IsFiniteSet({a})
    BY FS_Singleton
  <2>2. {a, b} = {a} \cup {b}
    OBVIOUS
  <2> QED
    BY <2>1, <2>2, FS_AddElement
<1>2. IsFiniteSet(Amounts(minimum[q]))
  <2> DEFINE n == minimum[q]
             A == {n \div 2, n - 1}
             B == {n, n + 1}
             D == {CeilDiv(n * 5, 4)}
  <2>1. IsFiniteSet(A) /\ IsFiniteSet(B) /\ IsFiniteSet(D)
    BY <1>1, FS_Singleton
  <2>2. Amounts(n) = A \cup (B \cup D)
    BY DEF Amounts
  <2> HIDE DEF A, B, D
  <2> QED
    BY <2>1, <2>2, FS_Union
<1>3. IsFiniteSet({position.assets[q[1]].debt})
  BY FS_Singleton
<1> QED
  BY <1>1, <1>2, <1>3, FS_Union DEF Tried

LEMMA CandidatesUnfolded ==
  ASSUME NEW q
  PROVE  CandidatesOf(position, policy, q, minimum[q]) =
           {Candidate(position, policy, q, x) :
              x \in {y \in Tried(q) : y > 0 /\ (q[2] = "REPAY_DEBT" => y <= position.assets[q[1]].debt)}}
BY DEF CandidatesOf, Tried

LEMMA TriedNatural ==
  ASSUME SearchInv, pc = "next", NEW q \in Pairs, NEW x \in Tried(q), x > 0
  PROVE  x \in Nat
<1> DEFINE r == position.assets[q[1]]
<1>1. /\ r.price \in Nat \ {0} /\ r.unit \in Nat \ {0}
      /\ r.debt \in Nat /\ r.wallet \in Nat
  BY ReserveNumbers
<1>2. policy.maxSingle \in Nat
  BY PolicyValid DEF SearchInv, ValidPolicy
<1>3. minimum[q] \in Nat
  BY DEF SearchInv, TypeOK
<1>4. (policy.maxSingle * r.unit) \div r.price \in Int
  <2>1. policy.maxSingle * r.unit \in Int
    BY <1>1, <1>2
  <2> QED
    BY <1>1, <2>1, Division
<1>5. ASSUME NEW y \in Amounts(minimum[q]) PROVE y \in Int
  BY <1>3, <1>5 DEF Amounts, CeilDiv
<1>6. x \in Int
  BY <1>1, <1>4, <1>5 DEF Tried
<1> QED
  BY <1>6

AllTried == UNION {CandidatesOf(position, policy, q, minimum[q]) : q \in Visited}

LEMMA AllTriedFinite == IsFiniteSet(AllTried)
<1>1. IsFiniteSet(Visited)
  BY Pairwise, FS_Subset DEF Visited
<1>2. ASSUME NEW q \in Visited PROVE IsFiniteSet(CandidatesOf(position, policy, q, minimum[q]))
  <2> DEFINE D == {y \in Tried(q) : y > 0 /\ (q[2] = "REPAY_DEBT" => y <= position.assets[q[1]].debt)}
           f == [x \in D |-> Candidate(position, policy, q, x)]
  <2>1. IsFiniteSet(D)
    BY TriedFinite, FS_Subset
  <2>2. CandidatesOf(position, policy, q, minimum[q]) = {f[x] : x \in D}
    BY CandidatesUnfolded
  <2> HIDE DEF f, D
  <2> QED
    BY <2>1, <2>2, ImageFinite
<1> DEFINE K == {CandidatesOf(position, policy, q, minimum[q]) : q \in Visited}
<1>3. IsFiniteSet(K)
  <2> DEFINE f == [q \in Visited |-> CandidatesOf(position, policy, q, minimum[q])]
  <2>1. K = {f[q] : q \in Visited}
    OBVIOUS
  <2> HIDE DEF f, K
  <2> QED
    BY <1>1, <2>1, ImageFinite
<1>4. \A T \in K : IsFiniteSet(T)
  BY <1>2
<1> HIDE DEF K
<1>5. IsFiniteSet(UNION K)
  BY <1>3, <1>4, FS_UNION
<1> QED
  BY <1>5 DEF AllTried, K

LEMMA AllTriedAre ==
  ASSUME SearchInv, pc = "next", NEW c \in AllTried
  PROVE  \E q \in Pairs, x \in Nat : c = Candidate(position, policy, q, x)
<1>1. PICK q \in Visited : c \in CandidatesOf(position, policy, q, minimum[q])
  BY DEF AllTried
<1>2. q \in Pairs
  BY DEF Visited
<1>3. PICK x \in Tried(q) : x > 0 /\ c = Candidate(position, policy, q, x)
  BY <1>1, CandidatesUnfolded
<1>4. x \in Nat
  BY <1>2, <1>3, TriedNatural
<1> QED
  BY <1>2, <1>3, <1>4

LEMMA AllTriedUnambiguous ==
  ASSUME SearchInv, pc = "next"
  PROVE  Unambiguous(AllTried)
<1>1. ASSUME NEW c \in AllTried PROVE CandidateOk(c)
  BY AllTriedAre, CandidateTyped
<1>2. ASSUME NEW c \in AllTried, NEW d \in AllTried,
             c.asset = d.asset, c.type = d.type, c.cost * d.per = d.cost * c.per
      PROVE  c = d
  <2>1. PICK q \in Pairs, x \in Nat : c = Candidate(position, policy, q, x)
    BY AllTriedAre
  <2>2. PICK v \in Pairs, y \in Nat : d = Candidate(position, policy, v, y)
    BY AllTriedAre
  <2>3. q[1] = v[1] /\ q[2] = v[2]
    BY <1>2, <2>1, <2>2, CandidateTyped
  <2>4. q = v
    BY <2>3 DEF Pairs
  <2> DEFINE p == position.assets[q[1]].price
             u == position.assets[q[1]].unit
  <2>5. p \in Nat \ {0} /\ u \in Nat \ {0}
    BY ReserveNumbers
  <2>6. c.cost = x * p /\ c.per = u /\ d.cost = y * p /\ d.per = u
    BY <2>1, <2>2, <2>4, CandidateTyped
  <2> HIDE DEF p, u
  <2>7. x = y
    BY <1>2, <2>5, <2>6, ProductsDistinct
  <2> QED
    BY <2>1, <2>2, <2>4, <2>7
<1> QED
  BY <1>1, <1>2 DEF Unambiguous

\* The cost and the limits are monotone: what a policy admits, and leaves
\* without approval, it admits and leaves without approval in a smaller amount.
LEMMA LimitsAntitone ==
  ASSUME NEW pol, ValidPolicy(pol), NEW m \in Nat, NEW n \in Nat, NEW per \in Nat, m <= n,
         WithinLimits(pol, n, per)
  PROVE  WithinLimits(pol, m, per)
<1>1. pol.maxSingle \in Nat /\ pol.maxDaily \in Nat /\ pol.spent \in Nat
  BY DEF ValidPolicy
<1>2. /\ pol.maxSingle * per \in Nat /\ pol.maxDaily * per \in Nat /\ pol.spent * per \in Nat
  BY <1>1
<1> QED
  BY <1>2 DEF WithinLimits, Exceeds

LEMMA AdmitsAntitone ==
  ASSUME SearchInv, pc = "next", NEW q \in Pairs, NEW x \in Nat, NEW y \in Nat, x <= y,
         Admits(policy, position.assets[q[1]], q[2], y)
  PROVE  Admits(policy, position.assets[q[1]], q[2], x)
<1> DEFINE r == position.assets[q[1]]
<1>1. /\ r.price \in Nat \ {0} /\ r.unit \in Nat \ {0}
      /\ r.wallet \in Nat /\ r.capacity \in Int
  BY ReserveNumbers
<1>2. x * r.price \in Nat /\ y * r.price \in Nat /\ x * r.price <= y * r.price
  BY <1>1, MulMonotone
<1>3. ValidPolicy(policy)
  BY PolicyValid DEF SearchInv
<1>4. WithinLimits(policy, y * r.price, r.unit)
  BY DEF Admits
<1>5. WithinLimits(policy, x * r.price, r.unit)
  BY <1>1, <1>2, <1>3, <1>4, LimitsAntitone
<1>6. x <= r.wallet /\ (q[2] = "ADD_COLLATERAL" /\ r.capacity # NoCap => x <= r.capacity)
  BY <1>1 DEF Admits
<1> QED
  BY <1>5, <1>6 DEF Admits

\* Of every amount that reaches and is admitted, the minimum of its pair was
\* tried, reaches, is admitted, costs no more and asks for no more.
LEMMA MinimumStandsIn ==
  ASSUME SearchInv, pc = "next", todo = {}, NEW q \in Visited, NEW c \in Every(q),
         c.reaches, c.admitted
  PROVE  \E m \in AllTried :
           /\ m.reaches /\ m.admitted
           /\ m.approval => c.approval
           /\ m.cost * c.per <= c.cost * m.per
<1> DEFINE r == position.assets[q[1]]
           n == minimum[q]
           m == Candidate(position, policy, q, n)
<1>1. q \in Pairs
  BY DEF Visited
<1>2. q \in Searched
  BY <1>1, PairsNotEmpty DEF Searched, SearchInv, TypeOK
<1>3. /\ r.price \in Nat \ {0} /\ r.unit \in Nat \ {0}
      /\ r.debt \in Nat /\ r.wallet \in Nat /\ q[2] \in Types
  BY <1>1, ReserveNumbers
<1>4. PICK x \in 1 .. (IF q[2] = "REPAY_DEBT" THEN r.debt ELSE r.wallet) :
        c = Candidate(position, policy, q, x)
  BY DEF Every
<1>5. x \in Nat /\ x > 0 /\ (q[2] = "REPAY_DEBT" => x <= r.debt)
  BY <1>3, <1>4
<1>6. Reaches(position, q, x, policy.target) /\ Admits(policy, r, q[2], x)
  BY <1>4 DEF Candidate
<1>7. n \in Nat
  BY <1>1 DEF SearchInv, TypeOK
<1>8. /\ n # 0 => Reaches(position, q, n, policy.target)
      /\ \A y \in 1 .. (IF n = 0 THEN Bound(q) ELSE n - 1) : ~Reaches(position, q, y, policy.target)
  BY <1>2 DEF SearchInv, MinimumExact
<1>9. n # 0
  <2> SUFFICES ASSUME n = 0 PROVE FALSE
    OBVIOUS
  <2>1. q[2] # "ADD_COLLATERAL"
    BY <1>2 DEF SearchInv, SupplySuffices
  <2>2. q[2] = "REPAY_DEBT"
    BY <1>3, <2>1 DEF Types
  <2>3. x \in 1 .. Bound(q)
    BY <1>3, <1>5, <2>2 DEF Bound
  <2> QED
    BY <1>6, <1>8, <2>3
<1>10. n <= x
  <2> SUFFICES ASSUME x <= n - 1 PROVE FALSE
    BY <1>5, <1>7
  <2>1. x \in 1 .. (n - 1)
    BY <1>5, <1>7
  <2> QED
    BY <1>6, <1>8, <1>9, <2>1
<1>11. m \in AllTried
  <2>1. n \in Tried(q)
    BY <1>9 DEF Tried, Amounts
  <2>2. n > 0 /\ (q[2] = "REPAY_DEBT" => n <= r.debt)
    BY <1>3, <1>5, <1>7, <1>9, <1>10
  <2>3. m \in CandidatesOf(position, policy, q, minimum[q])
    BY <2>1, <2>2, CandidatesUnfolded
  <2> QED
    BY <2>3 DEF AllTried
<1>12. Admits(policy, r, q[2], n)
  BY <1>1, <1>5, <1>6, <1>7, <1>10, AdmitsAntitone
<1>13. m.reaches /\ m.admitted
  BY <1>8, <1>9, <1>12 DEF Candidate
<1>14. n * r.price \in Nat /\ x * r.price \in Nat /\ n * r.price <= x * r.price
  BY <1>3, <1>5, <1>7, <1>10, MulMonotone
<1>15. m.approval => c.approval
  <2>1. policy.approvalAbove \in Nat
    BY PolicyValid DEF SearchInv, ValidPolicy
  <2>2. policy.approvalAbove * r.unit \in Nat
    BY <1>3, <2>1
  <2>3. Exceeds(n * r.price, r.unit, policy.approvalAbove)
          => Exceeds(x * r.price, r.unit, policy.approvalAbove)
    BY <1>14, <2>2 DEF Exceeds
  <2> QED
    BY <1>4, <1>6, <2>3 DEF Candidate
<1>16. m.cost * c.per <= c.cost * m.per
  <2>1. m.cost = n * r.price /\ m.per = r.unit /\ c.cost = x * r.price /\ c.per = r.unit
    BY <1>1, <1>4, <1>5, <1>7, CandidateTyped
  <2>2. (n * r.price) * r.unit <= (x * r.price) * r.unit
    BY <1>3, <1>14, MulMonotone
  <2> QED
    BY <2>1, <2>2
<1> QED
  BY <1>11, <1>13, <1>15, <1>16

LEMMA ChoiceDominates ==
  ASSUME SearchInv, pc = "next", todo = {}, NEW q \in Visited, NEW c \in Every(q),
         c.reaches, c.admitted
  PROVE  Dominates(Select(AllTried), c)
<1>1. PICK m \in AllTried :
           /\ m.reaches /\ m.admitted
           /\ m.approval => c.approval
           /\ m.cost * c.per <= c.cost * m.per
  BY MinimumStandsIn
<1>2. Unambiguous(AllTried)
  BY AllTriedUnambiguous
<1>3. Dominates(Select(AllTried), m)
  BY <1>1, <1>2, AllTriedFinite, SelectionDominates
<1>4. CandidateOk(c)
  <2>1. q \in Pairs
    BY DEF Visited
  <2>2. position.assets[q[1]].debt \in Nat /\ position.assets[q[1]].wallet \in Nat
    BY <2>1, ReserveNumbers
  <2>3. PICK x \in Nat : c = Candidate(position, policy, q, x)
    BY <2>2 DEF Every
  <2> QED
    BY <2>1, <2>3, CandidateTyped
<1>5. CandidateOk(m) /\ \A s \in Select(AllTried) : CandidateOk(s)
  BY <1>2, SelectIsAmong DEF Unambiguous
<1> QED
  BY <1>1, <1>3, <1>4, <1>5, DominatesThrough

LEMMA CheapestIs ==
  ASSUME NEW candidates
  PROVE  Cheapest(candidates) <=>
           \A c \in {d \in candidates : d.reaches /\ d.admitted} : Dominates(result.selected, c)
BY DEF Cheapest, Dominates

LEMMA ChooseIsCheapest == ASSUME SearchInv, Choose PROVE ChoiceIsCheapest'
<1> DEFINE all == UNION {Every(q) : q \in Visited}
<1>1. pc = "next" /\ todo = {} /\ result'.selected = Select(AllTried)
  BY DEF Choose, Outcome, AllTried
<1>2. ASSUME NEW c \in all, c.reaches, c.admitted
      PROVE  Dominates(result'.selected, c)
  <2>1. PICK q \in Visited : c \in Every(q)
    OBVIOUS
  <2> QED
    BY <1>1, <1>2, <2>1, ChoiceDominates
<1>3. (UNION {Every(q) : q \in Visited})' = all
  BY DEF Choose, Input, Every, Visited
<1>4. Cheapest(all)'
  <2> HIDE DEF all
  <2> SUFFICES \A c \in {d \in all' : d.reaches /\ d.admitted} : Dominates(result'.selected, c)
    BY DEF Cheapest, Dominates
  <2> QED
    BY <1>2, <1>3 DEF all
<1> QED
  BY <1>4 DEF ChoiceIsCheapest

-----------------------------------------------------------------------------
(***************************************************************************)
(* The choice of the older engine.                                         *)
(***************************************************************************)

UsdOk(u) ==
  /\ u.collateral \in Nat /\ u.debt \in Nat /\ u.lt \in Nat \ {0}
  /\ u.debtWallet \in Nat /\ u.collateralWallet \in Nat

\* A quotient rounded down reaches a bound where the fraction does.
LEMMA QuotientReaches ==
  ASSUME NEW n \in Nat, NEW d \in Nat \ {0}, NEW t \in Nat
  PROVE  n \div d >= t <=> n >= t * d
<1>1. n \div d \in Int /\ (n \div d) * d <= n
  BY Division
<1>2. ASSUME t * d <= n PROVE n \div d >= t
  BY <1>1, <1>2, QuotientAtMost
<1>3. ASSUME t <= n \div d PROVE n >= t * d
  <2>1. t * d <= (n \div d) * d
    BY <1>1, <1>3, MulMonotone
  <2>2. (n \div d) * d \in Int
    BY <1>1
  <2> QED
    BY <1>1, <2>1, <2>2
<1> QED
  BY <1>1, <1>2, <1>3

\* A quotient rounded up is the least amount that covers.
LEMMA CeilingLeast ==
  ASSUME NEW s \in Nat, NEW d \in Nat \ {0}, NEW x \in Int
  PROVE  x >= CeilDiv(s, d) <=> x * d >= s
<1> DEFINE c == (s + d - 1) \div d
<1>1. c \in Int /\ c * d <= s + d - 1 /\ s + d - 1 < c * d + d
  BY Division
<1>2. c * d \in Int /\ x * d \in Int
  BY <1>1
<1> HIDE DEF c
<1>3. ASSUME x >= c PROVE x * d >= s
  <2>1. c * d <= x * d
    BY <1>1, <1>3, MulMonotone
  <2> QED
    BY <1>1, <1>2, <2>1
<1>4. ASSUME x + 1 <= c, x * d >= s PROVE FALSE
  <2>1. (x + 1) * d <= c * d
    BY <1>1, <1>4, MulMonotone
  <2>2. (x + 1) * d = x * d + d
    OBVIOUS
  <2> QED
    BY <1>1, <1>2, <1>4, <2>1, <2>2
<1> QED
  BY <1>1, <1>3, <1>4 DEF CeilDiv, c

\* The minimum in closed form is right: of the amounts that may be looked at,
\* those from it on reach the target and those below do not.
LEMMA UsdMinimumExact ==
  ASSUME NEW u, UsdOk(u), NEW pol, pol.target \in Nat \ {0}, ~UsdSafe(u, pol), NEW type \in Types
  PROVE  /\ UsdMinimum(u, pol, type) \in Nat \ {0}
         /\ type = "REPAY_DEBT" => UsdMinimum(u, pol, type) <= u.debt
         /\ \A x \in Nat : (type = "REPAY_DEBT" => x <= u.debt) =>
              (UsdReaches(u, pol, type, x) <=> x >= UsdMinimum(u, pol, type))
<1> DEFINE c == u.collateral
           d == u.debt
           l == u.lt
           t == pol.target
           s == t * d - c * l
<1>1. c \in Nat /\ d \in Nat \ {0} /\ l \in Nat \ {0} /\ t \in Nat \ {0}
  BY DEF UsdOk, UsdSafe
<1>2. c * l \in Nat /\ t * d \in Nat
  BY <1>1
<1>3. c * l < t * d
  <2>1. ~((c * l) \div d >= t)
    BY <1>1, <1>2, Division DEF UsdSafe, UsdFactor
  <2>2. ~(c * l >= t * d)
    BY <1>1, <1>2, <2>1, QuotientReaches
  <2> QED
    BY <1>2, <2>2
<1>4. s \in Nat \ {0}
  BY <1>2, <1>3
<1>5. CASE type = "REPAY_DEBT"
  <2>1. UsdMinimum(u, pol, type) = CeilDiv(s, t)
    BY <1>5 DEF UsdMinimum
  <2>2. CeilDiv(s, t) \in Int
    BY <1>1, <1>4, CeilDivAbove
  <2>3. ~(0 >= CeilDiv(s, t))
    <3>1. 0 * t = 0
      BY <1>1
    <3> QED
      BY <1>1, <1>4, <3>1, CeilingLeast
  <2>4. d >= CeilDiv(s, t)
    <3>1. d \in Int /\ d * t >= s
      BY <1>1, <1>2
    <3> HIDE DEF s, d, t
    <3> QED
      BY <1>1, <1>4, <3>1, CeilingLeast
  <2>5. ASSUME NEW x \in Nat, x <= d
        PROVE  UsdReaches(u, pol, type, x) <=> x >= CeilDiv(s, t)
    <3>1. CASE x = d
      BY <1>5, <2>4, <3>1 DEF UsdReaches
    <3>2. CASE x # d
      <4>1. d - x \in Nat \ {0}
        BY <1>1, <2>5, <3>2
      <4>2. (c * l) \div (d - x) >= t <=> c * l >= t * (d - x)
        BY <1>1, <1>2, <4>1, QuotientReaches
      <4>3. t * (d - x) = t * d - x * t /\ x * t \in Nat
        BY <1>1
      <4>4. c * l >= t * (d - x) <=> x * t >= s
        <5>1. PICK m \in Nat, n \in Nat, k \in Nat : m = c * l /\ n = t * d /\ k = x * t
          BY <1>2, <4>3
        <5>2. s = n - m /\ t * (d - x) = n - k
          BY <4>3, <5>1
        <5>3. m >= n - k <=> k >= n - m
          OBVIOUS
        <5> QED
          BY <5>1, <5>2, <5>3
      <4>5. x >= CeilDiv(s, t) <=> x * t >= s
        BY <1>1, <1>4, CeilingLeast
      <4> HIDE DEF s
      <4> QED
        BY <1>5, <3>2, <4>2, <4>4, <4>5 DEF UsdReaches, UsdFactor
    <3> QED
      BY <3>1, <3>2
  <2> HIDE DEF s
  <2> QED
    BY <1>5, <2>1, <2>2, <2>3, <2>4, <2>5
<1>6. CASE type # "REPAY_DEBT"
  <2>1. UsdMinimum(u, pol, type) = CeilDiv(s, l)
    BY <1>6 DEF UsdMinimum
  <2>2. CeilDiv(s, l) \in Int
    BY <1>1, <1>4, CeilDivAbove
  <2>3. ~(0 >= CeilDiv(s, l))
    <3>1. 0 * l = 0
      BY <1>1
    <3> QED
      BY <1>1, <1>4, <3>1, CeilingLeast
  <2>4. ASSUME NEW x \in Nat
        PROVE  UsdReaches(u, pol, type, x) <=> x >= CeilDiv(s, l)
    <3>1. (c + x) * l \in Nat /\ (c + x) * l = c * l + x * l /\ x * l \in Nat
      BY <1>1
    <3>2. ((c + x) * l) \div d >= t <=> (c + x) * l >= t * d
      BY <1>1, <3>1, QuotientReaches
    <3>3. (c + x) * l >= t * d <=> x * l >= s
      <4>1. PICK m \in Nat, n \in Nat, k \in Nat : m = c * l /\ n = t * d /\ k = x * l
        BY <1>2, <3>1
      <4>2. s = n - m /\ (c + x) * l = m + k
        BY <3>1, <4>1
      <4>3. m + k >= n <=> k >= n - m
        OBVIOUS
      <4> QED
        BY <4>1, <4>2, <4>3
    <3>4. x >= CeilDiv(s, l) <=> x * l >= s
      BY <1>1, <1>4, CeilingLeast
    <3> HIDE DEF s
    <3> QED
      BY <1>6, <3>2, <3>3, <3>4 DEF UsdReaches, UsdFactor
  <2> HIDE DEF s
  <2> QED
    BY <1>6, <2>1, <2>2, <2>3, <2>4
<1> QED
  BY <1>5, <1>6

UsdTried(u, pol) ==
  UNION {{UsdCandidate(u, pol, type, x) : x \in UsdAmounts(u, pol, type)} : type \in Types}

LEMMA UsdCandidateTyped ==
  ASSUME NEW u, NEW pol, NEW type \in Types, NEW x \in Nat
  PROVE  /\ CandidateOk(UsdCandidate(u, pol, type, x))
         /\ UsdCandidate(u, pol, type, x).type = type
         /\ UsdCandidate(u, pol, type, x).cost = x
         /\ UsdCandidate(u, pol, type, x).per = 1
<1>1. (CHOOSE a \in Assets : TRUE) \in Assets
  BY AssetsFinite
<1>2. UsdCandidate(u, pol, type, x).approval \in BOOLEAN
  BY DEF UsdCandidate
<1> QED
  BY <1>1, <1>2 DEF UsdCandidate, CandidateOk

LEMMA UsdTriedFinite == ASSUME NEW u, NEW pol PROVE IsFiniteSet(UsdTried(u, pol))
<1>1. ASSUME NEW type PROVE IsFiniteSet({UsdCandidate(u, pol, type, x) : x \in UsdAmounts(u, pol, type)})
  <2> DEFINE n == UsdMinimum(u, pol, type)
             A == {n \div 2, n - 1}
             B == {n, n + 1}
             D == {CeilDiv(n * 5, 4), pol.maxSingle}
             E == {pol.approvalAbove, IF type = "REPAY_DEBT" THEN u.debtWallet ELSE u.collateralWallet}
             all == A \cup (B \cup (D \cup E))
             f == [x \in UsdAmounts(u, pol, type) |-> UsdCandidate(u, pol, type, x)]
  <2>1. ASSUME NEW a, NEW b PROVE IsFiniteSet({a, b})
    <3>1. IsFiniteSet({a})
      BY FS_Singleton
    <3>2. {a, b} = {a} \cup {b}
      OBVIOUS
    <3> QED
      BY <3>1, <3>2, FS_AddElement
  <2>2. IsFiniteSet(A) /\ IsFiniteSet(B) /\ IsFiniteSet(D) /\ IsFiniteSet(E)
    BY <2>1
  <2>3. UsdAmounts(u, pol, type) \subseteq all
    BY DEF UsdAmounts, Amounts
  <2>4. {UsdCandidate(u, pol, type, x) : x \in UsdAmounts(u, pol, type)}
          = {f[x] : x \in UsdAmounts(u, pol, type)}
    OBVIOUS
  <2> HIDE DEF A, B, D, E, f
  <2>5. IsFiniteSet(all)
    BY <2>2, FS_Union
  <2> HIDE DEF all
  <2>6. IsFiniteSet(UsdAmounts(u, pol, type))
    BY <2>3, <2>5, FS_Subset
  <2> QED
    BY <2>4, <2>6, ImageFinite
<1> DEFINE K(type) == {UsdCandidate(u, pol, type, x) : x \in UsdAmounts(u, pol, type)}
<1>2. UsdTried(u, pol) = K("REPAY_DEBT") \cup K("ADD_COLLATERAL")
  BY DEF UsdTried, Types
<1>3. IsFiniteSet(K("REPAY_DEBT")) /\ IsFiniteSet(K("ADD_COLLATERAL"))
  BY <1>1
<1> HIDE DEF K
<1> QED
  BY <1>2, <1>3, FS_Union

LEMMA UsdTriedAre ==
  ASSUME NEW u, UsdOk(u), NEW pol, ValidPolicy(pol), ~UsdSafe(u, pol), NEW c \in UsdTried(u, pol)
  PROVE  \E type \in Types, x \in Nat : c = UsdCandidate(u, pol, type, x)
<1>1. PICK type \in Types : c \in {UsdCandidate(u, pol, type, x) : x \in UsdAmounts(u, pol, type)}
  BY DEF UsdTried
<1>2. PICK x \in UsdAmounts(u, pol, type) : c = UsdCandidate(u, pol, type, x)
  BY <1>1
<1>3. pol.target \in Nat \ {0} /\ pol.maxSingle \in Nat /\ pol.approvalAbove \in Nat
  BY ScalesPositive DEF ValidPolicy
<1>4. UsdMinimum(u, pol, type) \in Nat
  BY <1>3, UsdMinimumExact
<1>5. x > 0 /\ x \in Amounts(UsdMinimum(u, pol, type))
                 \cup {pol.maxSingle, pol.approvalAbove,
                       IF type = "REPAY_DEBT" THEN u.debtWallet ELSE u.collateralWallet}
  BY DEF UsdAmounts
<1>6. x \in Int
  BY <1>3, <1>4, <1>5 DEF UsdOk, Amounts, CeilDiv
<1> QED
  BY <1>2, <1>5, <1>6

LEMMA UsdTriedUnambiguous ==
  ASSUME NEW u, UsdOk(u), NEW pol, ValidPolicy(pol), ~UsdSafe(u, pol)
  PROVE  Unambiguous(UsdTried(u, pol))
<1>1. ASSUME NEW c \in UsdTried(u, pol) PROVE CandidateOk(c)
  BY UsdTriedAre, UsdCandidateTyped
<1>2. ASSUME NEW c \in UsdTried(u, pol), NEW d \in UsdTried(u, pol),
             c.type = d.type, c.cost * d.per = d.cost * c.per
      PROVE  c = d
  <2>1. PICK t \in Types, x \in Nat : c = UsdCandidate(u, pol, t, x)
    BY UsdTriedAre
  <2>2. PICK v \in Types, y \in Nat : d = UsdCandidate(u, pol, v, y)
    BY UsdTriedAre
  <2>3. t = v /\ x * 1 = y * 1
    BY <1>2, <2>1, <2>2, UsdCandidateTyped
  <2>4. x = y
    BY <2>3
  <2> QED
    BY <2>1, <2>2, <2>3, <2>4
<1> QED
  BY <1>1, <1>2 DEF Unambiguous

LEMMA UsdChoiceDominates ==
  ASSUME NEW u, UsdOk(u), NEW pol, ValidPolicy(pol), ~UsdSafe(u, pol), NEW type \in Types,
         NEW x \in Nat \ {0},
         x <= (IF type = "REPAY_DEBT" THEN u.debt ELSE u.collateralWallet),
         UsdReaches(u, pol, type, x), UsdAdmits(u, pol, type, x)
  PROVE  Dominates(Select(UsdTried(u, pol)), UsdCandidate(u, pol, type, x))
<1> DEFINE n == UsdMinimum(u, pol, type)
           m == UsdCandidate(u, pol, type, n)
           c == UsdCandidate(u, pol, type, x)
<1>1. pol.target \in Nat \ {0} /\ pol.approvalAbove \in Nat
  BY ScalesPositive DEF ValidPolicy
<1>2. /\ n \in Nat \ {0}
      /\ type = "REPAY_DEBT" => n <= u.debt
      /\ UsdReaches(u, pol, type, n)
      /\ n <= x
  <2>1. type = "REPAY_DEBT" => x <= u.debt
    OBVIOUS
  <2>2. n \in Nat \ {0} /\ (type = "REPAY_DEBT" => n <= u.debt)
    BY <1>1, UsdMinimumExact
  <2>3. \A y \in Nat : (type = "REPAY_DEBT" => y <= u.debt) => (UsdReaches(u, pol, type, y) <=> y >= n)
    BY <1>1, UsdMinimumExact
  <2> HIDE DEF n
  <2> QED
    BY <2>1, <2>2, <2>3
<1>3. m \in UsdTried(u, pol)
  <2>1. n \in UsdAmounts(u, pol, type)
    BY <1>2 DEF UsdAmounts, Amounts
  <2> QED
    BY <2>1 DEF UsdTried
<1>4. UsdAdmits(u, pol, type, n)
  <2>1. x <= (IF type = "REPAY_DEBT" THEN u.debtWallet ELSE u.collateralWallet)
          /\ WithinLimits(pol, x, 1) /\ pol.enabled /\ Allows(pol, type)
    BY DEF UsdAdmits
  <2>2. WithinLimits(pol, n, 1)
    BY <1>2, <2>1, LimitsAntitone
  <2>3. n <= (IF type = "REPAY_DEBT" THEN u.debtWallet ELSE u.collateralWallet)
    BY <1>2, <2>1 DEF UsdOk
  <2> QED
    BY <2>1, <2>2, <2>3 DEF UsdAdmits
<1>5. m.reaches /\ m.admitted
  BY <1>2, <1>4 DEF UsdCandidate
<1>6. m.approval => c.approval
  <2>1. Exceeds(n, 1, pol.approvalAbove) => Exceeds(x, 1, pol.approvalAbove)
    BY <1>1, <1>2 DEF Exceeds
  <2> QED
    BY <2>1 DEF UsdCandidate
<1>7. CandidateOk(m) /\ CandidateOk(c) /\ m.cost = n /\ m.per = 1 /\ c.cost = x /\ c.per = 1
  BY <1>2, UsdCandidateTyped
<1>8. m.cost * c.per <= c.cost * m.per
  BY <1>2, <1>7
<1>9. Unambiguous(UsdTried(u, pol))
  BY UsdTriedUnambiguous
<1> HIDE DEF m, c, n
<1>10. Dominates(Select(UsdTried(u, pol)), m)
  BY <1>3, <1>5, <1>9, UsdTriedFinite, SelectionDominates
<1>11. \A s \in Select(UsdTried(u, pol)) : CandidateOk(s)
  BY <1>9, SelectIsAmong DEF Unambiguous
<1>12. Dominates(Select(UsdTried(u, pol)), c)
  BY <1>6, <1>7, <1>8, <1>10, <1>11, DominatesThrough
<1> QED
  BY <1>12 DEF c

LEMMA AssessUsdIsCheapest ==
  ASSUME TypeOK, UsdOk(position), AssessUsd
  PROVE  UsdChoiceIsCheapest'
<1>1. /\ position' = position /\ policy' = policy /\ pc' = "usd-done"
      /\ result' = UsdResult(position, policy)
  BY DEF AssessUsd, Input
<1> SUFFICES ASSUME result'.status # "NO_ACTION", NEW type \in Types
             PROVE  Cheapest({UsdCandidate(position, policy, type, x) :
                                x \in 1 .. (IF type = "REPAY_DEBT" THEN position.debt
                                            ELSE position.collateralWallet)})'
  BY DEF UsdChoiceIsCheapest
<1>2. ~UsdSafe(position, policy)
  BY <1>1 DEF UsdResult, Ended
<1>3. result'.selected = Select(UsdTried(position, policy))
  BY <1>1, <1>2 DEF UsdResult, Outcome, UsdTried
<1>4. ValidPolicy(policy)
  BY PolicyValid
<1> DEFINE bound == IF type = "REPAY_DEBT" THEN position.debt ELSE position.collateralWallet
<1>5. bound \in Nat
  BY DEF UsdOk
<1>6. ASSUME NEW x \in 1 .. bound,
             UsdCandidate(position, policy, type, x).reaches,
             UsdCandidate(position, policy, type, x).admitted
      PROVE  Dominates(result'.selected, UsdCandidate(position, policy, type, x))
  <2>1. UsdReaches(position, policy, type, x) /\ UsdAdmits(position, policy, type, x)
    BY <1>6 DEF UsdCandidate
  <2>2. x \in Nat \ {0} /\ x <= bound
    BY <1>5, <1>6
  <2> QED
    BY <1>2, <1>3, <1>4, <2>1, <2>2, UsdChoiceDominates
<1> DEFINE all == {UsdCandidate(position, policy, type, x) : x \in 1 .. bound}
<1>7. \A c \in {d \in all : d.reaches /\ d.admitted} : Dominates(result'.selected, c)
  BY <1>6
<1>8. all' = all
  BY <1>1
<1>9. Cheapest(all)'
  <2> HIDE DEF all
  <2> QED
    BY <1>7, <1>8 DEF Cheapest, Dominates
<1> QED
  BY <1>9

-----------------------------------------------------------------------------
(***************************************************************************)
(* Both choices, as invariants.                                            *)
(***************************************************************************)

ChoiceInv ==
  /\ pc = "usd" => UsdOk(position)
  /\ ChoiceIsCheapest
  /\ UsdChoiceIsCheapest

LEMMA InitChoice == Init => ChoiceInv
BY UsdTyped DEF Init, ChoiceInv, ChoiceIsCheapest, UsdChoiceIsCheapest, UsdOk

LEMMA NextChoice == SearchInv /\ ChoiceInv /\ [Next]_vars => ChoiceInv'
<1> SUFFICES ASSUME SearchInv, ChoiceInv, [Next]_vars PROVE ChoiceInv'
  OBVIOUS
<1>1. CASE Choose
  <2>1. ChoiceIsCheapest'
    BY <1>1, ChooseIsCheapest
  <2> QED
    BY <1>1, <2>1 DEF Choose, ChoiceInv, UsdChoiceIsCheapest
<1>2. CASE AssessUsd
  <2>1. UsdChoiceIsCheapest'
    BY <1>2, AssessUsdIsCheapest DEF AssessUsd, ChoiceInv, SearchInv
  <2> QED
    BY <1>2, <2>1 DEF AssessUsd, ChoiceInv, ChoiceIsCheapest
<1>3. CASE Assess
  <2>1. pc' \in {"done", "next"}
    BY <1>3 DEF Assess, Refuse
  <2>2. pc' = "done" => result'.status \in {"NO_ACTION", "THROWN"} \/ position'.blocked
    BY <1>3 DEF Assess, Refuse, Ended, Input
  <2> QED
    BY <2>1, <2>2 DEF ChoiceInv, ChoiceIsCheapest, UsdChoiceIsCheapest
<1>4. CASE Shock \/ (\E q \in Pairs : Begin(q)) \/ Bisect \/ Found
  <2>1. pc' \in {"start", "next", "search"}
    BY <1>4 DEF Shock, Begin, Bisect, Found, Return
  <2> QED
    BY <2>1 DEF ChoiceInv, ChoiceIsCheapest, UsdChoiceIsCheapest
<1>5. CASE UNCHANGED vars
  BY <1>5 DEF vars, ChoiceInv, ChoiceIsCheapest, UsdChoiceIsCheapest, Cheapest, Every, Visited
<1> QED
  BY <1>1, <1>2, <1>3, <1>4, <1>5 DEF Next

\* The minimum effective intervention: of every amount that reaches the target
\* within the policy, what evaluatePortfolio selects costs least, and it asks for
\* approval only if every one of them would.
THEOREM ChoiceCostsLeast == Spec => []ChoiceIsCheapest
<1>1. ChoiceInv => ChoiceIsCheapest
  BY DEF ChoiceInv
<1> QED
  BY <1>1, InitChoice, NextChoice, SearchBracketed, PTL DEF Spec

\* The same of the older engine: the closed form of generateCandidates is the
\* exact minimum, and nothing it admits beats what it selects.
THEOREM UsdChoiceCostsLeast == Spec => []UsdChoiceIsCheapest
<1>1. ChoiceInv => UsdChoiceIsCheapest
  BY DEF ChoiceInv
<1> QED
  BY <1>1, InitChoice, NextChoice, SearchBracketed, PTL DEF Spec

-----------------------------------------------------------------------------
(***************************************************************************)
(* The totals and their parts.                                             *)
(***************************************************************************)

LEMMA ValueNatural ==
  ASSUME NEW r, AssetOk(r), NEW x \in Nat, NEW rounding
  PROVE  Value(x, r, rounding) \in Nat
<1>1. r.price \in Nat /\ r.unit \in Nat \ {0}
  BY DEF AssetOk
<1>2. x * r.price \in Nat /\ x * r.price + r.unit - 1 \in Nat
  BY <1>1
<1>3. ASSUME NEW n \in Nat PROVE n \div r.unit \in Nat
  <2>1. 0 * r.unit <= n
    BY <1>1
  <2> QED
    BY <1>1, <2>1, QuotientAtMost, Division
<1> QED
  BY <1>2, <1>3 DEF Value, CeilDiv

\* What each debt and each supply contributes.
DebtParts(rs, rounding) == [a \in Assets |-> Value(rs[a].debt, rs[a], rounding)]
WeightParts(rs) == [a \in Assets |-> Value(rs[a].supplied, rs[a], "down") * rs[a].lt]

LEMMA PartsNatural ==
  ASSUME NEW rs, \A a \in Assets : AssetOk(rs[a]), NEW rounding
  PROVE  NatOn(DebtParts(rs, rounding), Assets) /\ NatOn(WeightParts(rs), Assets)
<1> SUFFICES ASSUME NEW a \in Assets
             PROVE  /\ Value(rs[a].debt, rs[a], rounding) \in Nat
                    /\ Value(rs[a].supplied, rs[a], "down") * rs[a].lt \in Nat
  BY DEF NatOn, DebtParts, WeightParts
<1>1. rs[a].debt \in Nat /\ rs[a].supplied \in Nat /\ rs[a].lt \in Nat
  BY DEF AssetOk
<1>2. Value(rs[a].debt, rs[a], rounding) \in Nat /\ Value(rs[a].supplied, rs[a], "down") \in Nat
  BY <1>1, ValueNatural
<1> QED
  BY <1>1, <1>2

\* Without stable debt, the total of Aave is the sum of the parts.
LEMMA DebtOfParts ==
  ASSUME NEW rs, \A a \in Assets : AssetOk(rs[a]), \A a \in Assets : rs[a].stable = 0, NEW rounding
  PROVE  Debt(rs, rounding) = SumFunctionOnSet(DebtParts(rs, rounding), Assets)
<1> DEFINE f == [a \in Assets |-> Value(rs[a].debt + rs[a].stable, rs[a], rounding)]
<1>1. \A a \in Assets : DebtParts(rs, rounding)[a] = f[a]
  BY DEF DebtParts, AssetOk
<1>2. NatOn(DebtParts(rs, rounding), Assets)
  BY PartsNatural
<1>3. Debt(rs, rounding) = SumFunctionOnSet(f, Assets)
  BY DEF Debt
<1> HIDE DEF f
<1> QED
  BY <1>1, <1>2, <1>3, AssetsFinite, SumCongruence

\* Where every supply is collateral, the weighted sum is over all of them.
LEMMA WeightOfParts ==
  ASSUME NEW rs, \A a \in Assets : AssetOk(rs[a]),
         \A a \in Assets : rs[a].supplied > 0 => rs[a].enabled
  PROVE  Weighted(rs) = SumFunctionOnSet(WeightParts(rs), Assets)
<1> DEFINE on == {a \in Assets : rs[a].enabled}
           f == WeightParts(rs)
<1>1. Weighted(rs) = SumFunctionOnSet(f, on)
  BY DEF Weighted, WeightParts
<1>2. NatOn(f, Assets)
  BY PartsNatural
<1>3. ASSUME NEW a \in Assets \ on PROVE f[a] = 0
  <2>1. rs[a].supplied = 0 /\ rs[a].lt \in Nat /\ rs[a].price \in Nat /\ rs[a].unit \in Nat \ {0}
    BY <1>3 DEF AssetOk
  <2>2. Value(rs[a].supplied, rs[a], "down") = 0
    <3>1. 0 * rs[a].price = 0 /\ 0 \div rs[a].unit = 0
      BY <2>1
    <3> QED
      BY <2>1, <3>1 DEF Value
  <2> QED
    BY <2>1, <2>2 DEF WeightParts
<1>4. on \in SUBSET Assets /\ Assets \ on \in SUBSET Assets /\ IsFiniteSet(Assets \ on)
  BY AssetsFinite, FS_Subset
<1> HIDE DEF on, f
<1>5. NatOn(f, Assets \ on) /\ \A a \in Assets \ on : f[a] <= 0
  BY <1>2, <1>3 DEF NatOn
<1>6. SumFunctionOnSet(f, Assets \ on) <= Cardinality(Assets \ on) * 0
  BY <1>4, <1>5, SumBound
<1>7. SumFunctionOnSet(f, Assets \ on) = 0
  <2>1. Cardinality(Assets \ on) \in Nat /\ SumFunctionOnSet(f, Assets \ on) \in Nat
    BY <1>4, <1>5, SumType, FS_CardinalityType
  <2> QED
    BY <1>6, <2>1
<1>8. SumFunctionOnSet(f, Assets) = SumFunctionOnSet(f, on) + SumFunctionOnSet(f, Assets \ on)
  BY <1>2, <1>4, AssetsFinite, SumParts
<1>9. SumFunctionOnSet(f, on) \in Nat
  BY <1>2, <1>4, AssetsFinite, SumSplit
<1> QED
  BY <1>1, <1>7, <1>8, <1>9 DEF f

Shocked == [reserves EXCEPT ![shock[1]].price = (@ * shock[2]) \div Scale]

\* Of a position that is not blocked the debt is the sum of its parts; one that
\* was shocked is made of the reserves at the shocked price.
TotalsInv ==
  /\ Portfolio /\ ~position.blocked =>
       position.debt = SumFunctionOnSet(DebtParts(position.assets, position.rounding), Assets)
  /\ pc \in {"next", "search"} => ~position.blocked
  /\ pc = "start" /\ shock = <<>> => position.assets = reserves
  /\ pc = "start" /\ shock # <<>> =>
       /\ position.assets = Shocked
       /\ position.debt = SumFunctionOnSet(DebtParts(Shocked, position.rounding), Assets)
       /\ position.weighted = SumFunctionOnSet(WeightParts(Shocked), Assets)

LEMMA InitTotals == Init => TotalsInv
<1> SUFFICES ASSUME Init, pc = "start" PROVE TotalsInv
  BY DEF Init, TotalsInv, Portfolio
<1>1. PICK account \in Accounts(reserves) : position = Normalized(reserves, account)
  BY DEF Init
<1>2. position.assets = reserves /\ shock = <<>>
  BY <1>1 DEF Normalized, Init
<1>3. ASSUME ~position.blocked
      PROVE  position.debt = SumFunctionOnSet(DebtParts(position.assets, position.rounding), Assets)
  <2>1. \A a \in Assets : AssetOk(reserves[a]) /\ reserves[a].stable \in Nat
    BY ReservesTyped, ScalesPositive DEF Init, AssetOk, ReserveShape
  <2>2. /\ \A a \in Assets : ~(reserves[a].stable > 0)
        /\ account.debt \in {Debt(reserves, "down"), Debt(reserves, "up")}
    BY <1>1, <1>3 DEF Normalized
  <2>3. \A a \in Assets : reserves[a].stable = 0
    BY <2>1, <2>2
  <2>4. position.debt = Debt(reserves, position.rounding)
    BY <1>1, <2>2 DEF Normalized
  <2> QED
    BY <1>2, <2>1, <2>3, <2>4, DebtOfParts
<1> QED
  BY <1>2, <1>3 DEF TotalsInv

LEMMA NextTotals == SearchInv /\ TotalsInv /\ [Next]_vars => TotalsInv'
<1> SUFFICES ASSUME SearchInv, TotalsInv, [Next]_vars PROVE TotalsInv'
  OBVIOUS
<1>1. CASE Shock
  <2>1. PICK b \in Assets, factor \in Shocks :
          shock' = <<b, factor>> /\ position' = Stressed(position, b, factor)
    BY <1>1 DEF Shock
  <2>2. /\ pc = "start" /\ pc' = "start" /\ reserves' = reserves /\ position.assets = reserves
        /\ IsPosition(position)
    BY <1>1 DEF Shock, TotalsInv, SearchInv, Portfolio
  <2>3. Shocked' = [reserves EXCEPT ![b].price = (@ * factor) \div Scale]
    BY <2>1, <2>2 DEF Shocked
  <2> DEFINE rs == [position.assets EXCEPT ![b].price = (@ * factor) \div Scale]
             debt == SumFunctionOnSet(DebtParts(rs, position.rounding), Assets)
             weighted == SumFunctionOnSet(WeightParts(rs), Assets)
             hf == IF debt = 0 THEN 0 ELSE HealthFactor(weighted, debt)
  <2>4. /\ position'.assets = rs
        /\ position'.rounding = position.rounding
        /\ position'.debt = debt
        /\ position'.weighted = weighted
    <3>1. position' = [position EXCEPT !.assets = rs, !.debt = debt, !.weighted = weighted, !.hf = hf]
      BY <2>1 DEF Stressed, DebtParts, WeightParts
    <3> HIDE DEF rs, debt, weighted, hf
    <3> QED
      BY <2>2, <3>1 DEF IsPosition
  <2>5. rs = Shocked'
    BY <2>2, <2>3
  <2>6. shock' # <<>>
    BY <2>1
  <2> HIDE DEF rs, hf
  <2> QED
    BY <2>2, <2>4, <2>5, <2>6 DEF TotalsInv
<1>2. CASE Assess
  BY <1>2 DEF Assess, Refuse, Input, TotalsInv, Portfolio
<1>3. CASE AssessUsd
  BY <1>3 DEF AssessUsd, TotalsInv, Portfolio
<1>4. ASSUME NEW q \in Pairs, Begin(q) PROVE TotalsInv'
  BY <1>4 DEF Begin, Return, Input, TotalsInv, Portfolio
<1>5. CASE Bisect
  BY <1>5 DEF Bisect, Input, TotalsInv, Portfolio
<1>6. CASE Found \/ Choose
  BY <1>6 DEF Found, Return, Choose, Input, TotalsInv, Portfolio
<1>7. CASE UNCHANGED vars
  BY <1>7 DEF vars, TotalsInv, Portfolio, Shocked
<1> QED
  BY <1>1, <1>2, <1>3, <1>4, <1>5, <1>6, <1>7 DEF Next

LEMMA TotalsFit == SearchInv /\ TotalsInv => PartsFitTotals
<1> SUFFICES ASSUME SearchInv, TotalsInv, pc \in {"next", "search"}, NEW q \in Visited
             PROVE  DebtAfter(position, q, Bound(q)) >= 0
  BY DEF PartsFitTotals
<1> DEFINE r == position.assets[q[1]]
           f == DebtParts(position.assets, position.rounding)
<1>1. q \in Pairs /\ q[1] \in Assets
  BY DEF Visited, Pairs
<1>2. /\ \A a \in Assets : AssetOk(position.assets[a])
      /\ PositionOk(position)
      /\ position.debt = SumFunctionOnSet(f, Assets)
  BY DEF SearchInv, TotalsInv, Portfolio
<1>3. CASE q[2] = "REPAY_DEBT"
  <2>1. NatOn(f, Assets)
    BY <1>2, PartsNatural
  <2>2. f[q[1]] <= position.debt
    <3> HIDE DEF f
    <3> QED
      BY <1>1, <1>2, <2>1, AssetsFinite, SumMember
  <2>3. f[q[1]] = Value(r.debt, r, position.rounding)
    BY <1>1 DEF DebtParts
  <2>4. r.debt \in Nat /\ AssetOk(r)
    BY <1>1, <1>2 DEF AssetOk
  <2>5. Value(r.debt, r, position.rounding) \in Nat /\ Value(0, r, position.rounding) \in Nat
    BY <2>4, ValueNatural
  <2>6. Bound(q) = r.debt /\ r.debt - r.debt = 0 /\ position.debt \in Nat
    BY <1>2, <1>3, <2>4 DEF Bound, PositionOk
  <2>7. DebtAfter(position, q, Bound(q)) =
          position.debt - (Value(r.debt, r, position.rounding) - Value(0, r, position.rounding))
    BY <1>3, <2>6 DEF DebtAfter, RemainingDebt
  <2> QED
    BY <2>2, <2>3, <2>5, <2>6, <2>7
<1>4. CASE q[2] # "REPAY_DEBT"
  BY <1>2, <1>4 DEF DebtAfter, PositionOk
<1> QED
  BY <1>3, <1>4

LEMMA StressIsShock == SearchInv /\ TotalsInv => StressCommutes
<1> SUFFICES ASSUME SearchInv, TotalsInv, pc = "start", shock # <<>>,
                    \A a \in Assets : /\ reserves[a].stable = 0
                                      /\ reserves[a].supplied > 0 => reserves[a].enabled
             PROVE  /\ position.debt = Debt(Shocked, position.rounding)
                    /\ position.weighted = Weighted(Shocked)
  BY DEF StressCommutes, Shocked
<1>1. /\ position.assets = Shocked
      /\ position.debt = SumFunctionOnSet(DebtParts(Shocked, position.rounding), Assets)
      /\ position.weighted = SumFunctionOnSet(WeightParts(Shocked), Assets)
      /\ \A a \in Assets : AssetOk(Shocked[a])
  BY DEF TotalsInv, SearchInv, Portfolio
<1>2. ASSUME NEW a \in Assets
      PROVE  /\ Shocked[a].stable = 0
             /\ Shocked[a].supplied > 0 => Shocked[a].enabled
  <2>1. a \in DOMAIN reserves
    <3>1. Shocked = [x \in Assets |-> Shocked[x]] /\ DOMAIN Shocked = DOMAIN reserves
      BY <1>1 DEF SearchInv, Portfolio, Shocked
    <3> QED
      BY <3>1
  <2>2. Shocked[a] = IF a = shock[1]
                       THEN [reserves[a] EXCEPT !.price = (reserves[a].price * shock[2]) \div Scale]
                       ELSE reserves[a]
    BY <2>1 DEF Shocked
  <2> QED
    BY <2>2
<1> QED
  BY <1>1, <1>2, DebtOfParts, WeightOfParts

\* The throw "Inconsistent debt contributions" of minimumPortfolioAmount is out of
\* reach: the repayment of a whole debt takes no more from the total than there is.
THEOREM PartsNeverExceed == Spec => []PartsFitTotals
BY InitTotals, NextTotals, TotalsFit, SearchBracketed, PTL DEF Spec

\* stressPosition gives the position that Aave would report at the shocked price.
THEOREM StressIsFaithful == Spec => []StressCommutes
BY InitTotals, NextTotals, StressIsShock, SearchBracketed, PTL DEF Spec
=============================================================================
