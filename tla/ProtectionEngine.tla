-------------------------- MODULE ProtectionEngine --------------------------
(***************************************************************************)
(* From an account as Aave reports it to the intervention PositionGuard    *)
(* proposes: normalizeAavePosition, the optional price shock of            *)
(* stressPosition, evaluatePortfolio with the bisection of                 *)
(* minimumPortfolioAmount, and the older evaluateProtection over USD       *)
(* totals.  One evaluation of one account; the search is a loop of steps,  *)
(* the rest are operators on integers.                                     *)
(*                                                                         *)
(* Abstractions.  The scales are parameters.  Policy amounts are in base   *)
(* currency units.  A rejection is kept, its reason (which is only         *)
(* reported) is not; candidates carry no text.                             *)
(***************************************************************************)
EXTENDS Integers, FiniteSets, FiniteSetsExt, Functions

CONSTANTS
  Assets,        \* the reserves of the market
  IdOrder,       \* [Assets -> Nat]: localeCompare on their ids
  Reserves,      \* [Assets -> SUBSET records]: what may be read of each
  Policies,      \* the policies under which an evaluation may run
  Shocks,        \* price factors of the stress page, over Scale
  UsdPositions,  \* positions in USD totals
  Scale,         \* SCALE, of shocks and of USD positions
  Wad,           \* WAD, of health factors
  Bps            \* 10000, of liquidation thresholds

Types == {"REPAY_DEBT", "ADD_COLLATERAL"}
Pairs == Assets \X Types

\* supplyCapacity null.
NoCap == -1

ASSUME ScalesPositive == Scale \in Nat \ {0} /\ Wad \in Nat \ {0} /\ Bps \in Nat \ {0}
ASSUME AssetsFinite == IsFiniteSet(Assets) /\ Assets # {}
ASSUME ShocksPositive == Shocks \subseteq Nat \ {0}
ASSUME OrderIsTotal == /\ IdOrder \in [Assets -> Nat]
                       /\ \A a, b \in Assets : IdOrder[a] = IdOrder[b] => a = b
ReserveShape ==
  [price : Nat \ {0}, unit : Nat \ {0}, lt : 0 .. Bps, supplied : Nat, debt : Nat,
   stable : Nat, wallet : Nat, enabled : BOOLEAN, usable : BOOLEAN, frozen : BOOLEAN,
   isolated : BOOLEAN, capacity : Nat \cup {NoCap}]

\* policySchema, with policyContextSchema: target > warning > emergency > 1,
\* and no negative amount.
ValidPolicy(p) ==
  /\ {p.target, p.warning, p.emergency, p.maxSingle, p.maxDaily, p.approvalAbove, p.spent}
       \subseteq Nat
  /\ p.target > p.warning /\ p.warning > p.emergency /\ p.emergency > Wad
  /\ {p.enabled, p.allowRepay, p.allowAdd, p.resting} \subseteq BOOLEAN

ASSUME ReservesTyped == \A a \in Assets : Reserves[a] \subseteq ReserveShape
ASSUME PoliciesValid == \A p \in Policies : ValidPolicy(p)

\* positionSchema: nothing is negative, and the threshold is in (0, 1].
ASSUME UsdTyped ==
  UsdPositions \subseteq [collateral : Nat, debt : Nat, lt : 1 .. Scale,
                         debtWallet : Nat, collateralWallet : Nat]

VARIABLES
  pc,        \* where the evaluation is
  reserves,  \* [Assets -> Reserves]: getUserReserves
  position,  \* the PortfolioPosition
  shock,     \* the factor on the price of an asset; none outside the stress page
  policy,    \* the policy and its context: spent, resting
  todo,      \* pairs of asset and type the loop has still to visit
  pair,      \* the pair being searched
  lo, hi,    \* the bounds of the bisection
  minimum,   \* [Pairs -> Nat]: what each search returned; 0 for null
  result     \* the ProtectionResult: status and selected candidate

vars == <<pc, reserves, position, shock, policy, todo, pair, lo, hi, minimum, result>>

NoPair   == <<>>
NoResult == [status |-> "NONE", selected |-> {}]

-----------------------------------------------------------------------------
(***************************************************************************)
(* Values and totals.                                                      *)
(***************************************************************************)

CeilDiv(n, d) == (n + d - 1) \div d

\* Mutant: debt is always valued rounding down.
ValueFloored(x, r, rounding) == (x * r.price) \div r.unit

\* The base value of an amount of a reserve.
Value(x, r, rounding) ==
  IF rounding = "up" THEN CeilDiv(x * r.price, r.unit) ELSE (x * r.price) \div r.unit

Collateral(rs) ==
  SumFunctionOnSet([a \in Assets |-> Value(rs[a].supplied, rs[a], "down")], {a \in Assets : rs[a].enabled})
Weighted(rs) ==
  SumFunctionOnSet([a \in Assets |-> Value(rs[a].supplied, rs[a], "down") * rs[a].lt],
                   {a \in Assets : rs[a].enabled})
Debt(rs, rounding) ==
  SumFunctionOnSet([a \in Assets |-> Value(rs[a].debt + rs[a].stable, rs[a], rounding)], Assets)

\* getUserAccountData and the e-mode: the totals reconcile with the reserves or
\* do not, and the health factor is of the weighted sum or of the average
\* threshold, rounded down, of the account.
Accounts(rs) ==
  LET weighted == Weighted(rs)
      total    == Collateral(rs)
      average  == IF total = 0 THEN 0 ELSE total * (weighted \div total)
  IN  [collateral : {total, total + 1},
       debt : {Debt(rs, "down"), Debt(rs, "up"), Debt(rs, "up") + 1},
       strength : {weighted, average}, eMode : BOOLEAN]

HealthFactor(weighted, debt) == (weighted * Wad) \div (debt * Bps)

\* canSupply
MaySupply(r) == r.enabled /\ r.usable /\ ~r.frozen /\ r.lt > 0 /\ ~r.isolated

Normalized(rs, account) ==
  [assets   |-> rs,
   debt     |-> account.debt,
   weighted |-> Weighted(rs),
   rounding |-> IF Debt(rs, "up") = account.debt THEN "up" ELSE "down",
   hf       |-> IF account.debt = 0 THEN 0 ELSE HealthFactor(account.strength, account.debt),
   blocked  |-> \/ account.eMode
                \/ \E a \in Assets : rs[a].stable > 0 \/ (rs[a].enabled /\ rs[a].isolated)
                \/ Collateral(rs) # account.collateral
                \/ account.debt \notin {Debt(rs, "down"), Debt(rs, "up")}]

\* Mutant: the shock leaves the totals of the position as they were.
StressedPriceOnly(p, asset, factor) ==
  [p EXCEPT !.assets = [@ EXCEPT ![asset].price = (@ * factor) \div Scale]]

\* Mutant: debt is taken anew without its rounding.
StressedDown(p, asset, factor) ==
  LET rs       == [p.assets EXCEPT ![asset].price = (@ * factor) \div Scale]
      debt     == SumFunctionOnSet([a \in Assets |-> Value(rs[a].debt, rs[a], "down")], Assets)
      weighted == SumFunctionOnSet([a \in Assets |-> Value(rs[a].supplied, rs[a], "down") * rs[a].lt], Assets)
  IN  [p EXCEPT !.assets = rs, !.debt = debt, !.weighted = weighted,
                !.hf = IF debt = 0 THEN 0 ELSE HealthFactor(weighted, debt)]

\* stressPosition: the totals are taken anew, whether a supply is collateral or not.
Stressed(p, asset, factor) ==
  LET rs       == [p.assets EXCEPT ![asset].price = (@ * factor) \div Scale]
      debt     == SumFunctionOnSet([a \in Assets |-> Value(rs[a].debt, rs[a], p.rounding)], Assets)
      weighted == SumFunctionOnSet([a \in Assets |-> Value(rs[a].supplied, rs[a], "down") * rs[a].lt], Assets)
  IN  [p EXCEPT !.assets = rs, !.debt = debt, !.weighted = weighted,
                !.hf = IF debt = 0 THEN 0 ELSE HealthFactor(weighted, debt)]

-----------------------------------------------------------------------------
(***************************************************************************)
(* The outcome of an amount, and the policy.                               *)
(***************************************************************************)

RemainingDebt(p, a, x) ==
  LET r == p.assets[a]
  IN  p.debt - (Value(r.debt, r, p.rounding) - Value(r.debt - x, r, p.rounding))

RaisedWeight(p, a, x) ==
  LET r == p.assets[a]
  IN  p.weighted + (Value(r.supplied + x, r, "down") - Value(r.supplied, r, "down")) * r.lt

DebtAfter(p, q, x)   == IF q[2] = "REPAY_DEBT" THEN RemainingDebt(p, q[1], x) ELSE p.debt
WeightAfter(p, q, x) == IF q[2] = "REPAY_DEBT" THEN p.weighted ELSE RaisedWeight(p, q[1], x)

\* portfolioOutcome reaches the target: no debt is left, or its health factor is there.
Reaches(p, q, x, target) ==
  LET debt == DebtAfter(p, q, x)
  IN  /\ debt >= 0
      /\ debt # 0 => HealthFactor(WeightAfter(p, q, x), debt) >= target

Shortfall(p, target) == target * p.debt * Bps - p.weighted * Wad

\* Mutant: the bound forgets the rounding of the two values.
SupplyBoundTight(p, a, target) ==
  LET r == p.assets[a]
  IN  CeilDiv(Shortfall(p, target) * r.unit, r.price * r.lt * Wad)

\* hi of an ADD_COLLATERAL search.
SupplyBound(p, a, target) ==
  LET r == p.assets[a]
  IN  CeilDiv(Shortfall(p, target) * r.unit, r.price * r.lt * Wad) + CeilDiv(r.unit, r.price) + 1

Risk(p, pol) ==
  IF p.debt = 0 \/ p.hf >= pol.target THEN "SAFE"
  ELSE IF p.hf >= pol.warning THEN "WATCH"
  ELSE IF p.hf >= pol.emergency THEN "HIGH"
  ELSE "CRITICAL"

Exceeds(cost, per, usd) == cost > usd * per

\* AUTONOMOUS_LIMIT, DAILY_LIMIT, COOLDOWN: the cost is cost / per.
WithinLimits(pol, cost, per) ==
  /\ ~Exceeds(cost, per, pol.maxSingle)
  /\ ~Exceeds(cost + pol.spent * per, per, pol.maxDaily)
  /\ ~pol.resting

Allows(pol, type) == IF type = "REPAY_DEBT" THEN pol.allowRepay ELSE pol.allowAdd

Admits(pol, r, type, x) ==
  /\ pol.enabled /\ Allows(pol, type)
  /\ type = "REPAY_DEBT" => r.usable
  /\ x <= r.wallet
  /\ type = "ADD_COLLATERAL" /\ r.capacity # NoCap => x <= r.capacity
  /\ WithinLimits(pol, x * r.price, r.unit)

Candidate(p, pol, q, x) ==
  LET r == p.assets[q[1]]
      admitted == Admits(pol, r, q[2], x)
  IN  [asset |-> q[1], type |-> q[2], amount |-> x, cost |-> x * r.price, per |-> r.unit,
       reaches |-> Reaches(p, q, x, pol.target), admitted |-> admitted,
       approval |-> admitted /\ Exceeds(x * r.price, r.unit, pol.approvalAbove)]

\* Mutant: the exact minimum is not among the amounts tried.
AmountsCoarse(min) == {min \div 2, min - 1, min + 1, CeilDiv(min * 5, 4)}

\* The amounts tried around a minimum.
Amounts(min) == {min \div 2, min - 1, min, min + 1, CeilDiv(min * 5, 4)}

CandidatesOf(p, pol, q, min) ==
  LET r     == p.assets[q[1]]
      tried == {r.wallet, (pol.maxSingle * r.unit) \div r.price}
                 \cup (IF min = 0 THEN {r.debt} ELSE Amounts(min))
  IN  {Candidate(p, pol, q, x) :
         x \in {y \in tried : y > 0 /\ (q[2] = "REPAY_DEBT" => y <= r.debt)}}

\* Mutant: the order puts the number of units before their value.
BeforeByUnits(c, d) == c.amount < d.amount \/ (c.amount = d.amount /\ IdOrder[c.asset] < IdOrder[d.asset])

\* The order of the sort among candidates that reach and are admitted: capital,
\* no approval, REPAY_DEBT, id.
Before(c, d) ==
  LET x == c.cost * d.per
      y == d.cost * c.per
  IN  \/ x < y
      \/ x = y /\ ~c.approval /\ d.approval
      \/ x = y /\ c.approval = d.approval /\ c.type = "REPAY_DEBT" /\ d.type # "REPAY_DEBT"
      \/ /\ x = y /\ c.approval = d.approval /\ c.type = d.type
         /\ IdOrder[c.asset] < IdOrder[d.asset]

First(S) == {c \in S : \A d \in S \ {c} : Before(c, d)}

\* The first valid candidate that needs no approval, else the first valid one.
Select(candidates) ==
  LET valid == {c \in candidates : c.reaches /\ c.admitted}
      free  == {c \in valid : ~c.approval}
  IN  First(IF free # {} THEN free ELSE valid)

Outcome(selected) ==
  [status |-> CASE selected = {}                       -> "NO_SAFE_ACTION"
                [] \E c \in selected : c.approval      -> "REQUIRE_APPROVAL"
                [] OTHER                               -> "READY",
   selected |-> selected]

Ended(status) == [status |-> status, selected |-> {}]

-----------------------------------------------------------------------------
(***************************************************************************)
(* The older engine: one debt and one collateral asset, USD totals.        *)
(***************************************************************************)

UsdFactor(collateral, debt, lt) == (collateral * lt) \div debt

\* Mutant: the two divisors are swapped.
UsdMinimumSwapped(u, pol, type) ==
  CeilDiv(pol.target * u.debt - u.collateral * u.lt,
          IF type = "REPAY_DEBT" THEN u.lt ELSE pol.target)

\* generateCandidates: the minimum in closed form.
UsdMinimum(u, pol, type) ==
  CeilDiv(pol.target * u.debt - u.collateral * u.lt,
          IF type = "REPAY_DEBT" THEN pol.target ELSE u.lt)

UsdReaches(u, pol, type, x) ==
  IF type = "REPAY_DEBT"
  THEN u.debt = x \/ UsdFactor(u.collateral, u.debt - x, u.lt) >= pol.target
  ELSE UsdFactor(u.collateral + x, u.debt, u.lt) >= pol.target

\* checkLimits
UsdAdmits(u, pol, type, x) ==
  /\ pol.enabled /\ Allows(pol, type)
  /\ x <= (IF type = "REPAY_DEBT" THEN u.debtWallet ELSE u.collateralWallet)
  /\ WithinLimits(pol, x, 1)

UsdCandidate(u, pol, type, x) ==
  LET admitted == UsdAdmits(u, pol, type, x)
  IN  [asset |-> CHOOSE a \in Assets : TRUE, type |-> type, amount |-> x, cost |-> x, per |-> 1,
       reaches |-> UsdReaches(u, pol, type, x), admitted |-> admitted,
       approval |-> admitted /\ Exceeds(x, 1, pol.approvalAbove)]

UsdAmounts(u, pol, type) ==
  {x \in Amounts(UsdMinimum(u, pol, type))
           \cup {pol.maxSingle, pol.approvalAbove,
                 IF type = "REPAY_DEBT" THEN u.debtWallet ELSE u.collateralWallet} :
     x > 0 /\ (type = "REPAY_DEBT" => x <= u.debt)}

\* evaluateRisk
UsdSafe(u, pol) == u.debt = 0 \/ UsdFactor(u.collateral, u.debt, u.lt) >= pol.target

UsdResult(u, pol) ==
  IF UsdSafe(u, pol) THEN Ended("NO_ACTION")
  ELSE Outcome(Select(UNION {{UsdCandidate(u, pol, type, x) : x \in UsdAmounts(u, pol, type)} :
                               type \in Types}))

-----------------------------------------------------------------------------
(***************************************************************************)
(* One evaluation.                                                         *)
(***************************************************************************)

Init ==
  /\ reserves \in {f \in [Assets -> UNION Range(Reserves)] : \A a \in Assets : f[a] \in Reserves[a]}
  /\ policy \in Policies
  /\ \/ /\ pc = "start"
        /\ position \in {Normalized(reserves, account) : account \in Accounts(reserves)}
     \/ /\ pc = "usd"
        /\ reserves = [a \in Assets |-> CHOOSE r \in Reserves[a] : TRUE]
        /\ position \in UsdPositions
  /\ shock = <<>>
  /\ todo = {} /\ pair = NoPair /\ lo = 0 /\ hi = 0
  /\ minimum = [q \in Pairs |-> 0]
  /\ result = NoResult

Input == <<reserves, position, shock, policy>>
Search == <<pair, lo, hi>>

\* analyzeStress: what follows is evaluated at another price of one asset.
Shock ==
  /\ pc = "start" /\ shock = <<>>
  /\ \E a \in Assets, factor \in Shocks :
       /\ shock' = <<a, factor>>
       /\ position' = Stressed(position, a, factor)
  /\ UNCHANGED <<pc, reserves, policy, todo, Search, minimum, result>>

Refuse(status) ==
  /\ pc' = "done"
  /\ result' = Ended(status)
  /\ UNCHANGED <<Input, todo, Search, minimum>>

\* The pairs the loop does not skip.
Visited == {q \in Pairs : LET r == position.assets[q[1]] IN
              IF q[2] = "REPAY_DEBT" THEN r.debt > 0 ELSE MaySupply(r)}

\* portfolioSchema.parse throws: amounts are natural, a price is positive.
ParseThrows == \/ \E a \in Assets : position.assets[a].price = 0
               \/ ~({position.debt, position.weighted, position.hf} \subseteq Nat)

\* evaluateProtection of a position without model.
AssessUsd ==
  /\ pc = "usd"
  /\ pc' = "usd-done"
  /\ result' = UsdResult(position, policy)
  /\ UNCHANGED <<Input, todo, Search, minimum>>

\* evaluatePortfolio up to its loop.
Assess ==
  /\ pc = "start"
  /\ \/ ParseThrows /\ Refuse("THROWN")
     \/ ~ParseThrows /\ Risk(position, policy) = "SAFE" /\ Refuse("NO_ACTION")
     \/ /\ ~ParseThrows /\ Risk(position, policy) # "SAFE"
        /\ position.blocked /\ Refuse("NO_SAFE_ACTION")
     \/ /\ ~ParseThrows /\ Risk(position, policy) # "SAFE" /\ ~position.blocked
        /\ pc' = "next"
        /\ todo' = Visited
        /\ UNCHANGED <<Input, Search, minimum, result>>

\* The search of a pair is over.
Return(q, found) ==
  /\ pc' = "next"
  /\ minimum' = [minimum EXCEPT ![q] = found]
  /\ pair' = NoPair /\ lo' = 0 /\ hi' = 0
  /\ UNCHANGED <<Input, result>>

\* The loop takes the assets in turn, and of each REPAY_DEBT first.
Turn(q) == /\ q \in todo
           /\ \A other \in todo \ {q} :
                \/ IdOrder[q[1]] < IdOrder[other[1]]
                \/ q[1] = other[1] /\ q[2] = "REPAY_DEBT"

\* hi, before the loop.
Bound(q) == IF q[2] = "REPAY_DEBT" THEN position.assets[q[1]].debt
            ELSE SupplyBound(position, q[1], policy.target)

\* minimumPortfolioAmount up to its loop.  Its throw, "Inconsistent debt
\* contributions", has no action: PartsFitTotals says that it is not reached.
Begin(q) ==
  /\ pc = "next" /\ Turn(q)
  /\ todo' = todo \ {q}
  /\ \/ /\ q[2] = "ADD_COLLATERAL" /\ Shortfall(position, policy.target) <= 0
        /\ Return(q, 1)
     \/ /\ q[2] = "ADD_COLLATERAL" => Shortfall(position, policy.target) > 0
        /\ DebtAfter(position, q, Bound(q)) >= 0
        /\ ~Reaches(position, q, Bound(q), policy.target)
        /\ Return(q, 0)
     \/ /\ q[2] = "ADD_COLLATERAL" => Shortfall(position, policy.target) > 0
        /\ Reaches(position, q, Bound(q), policy.target)
        /\ pc' = "search"
        /\ pair' = q /\ lo' = 1 /\ hi' = Bound(q)
        /\ UNCHANGED <<Input, minimum, result>>

Middle == (lo + hi) \div 2

\* Mutant: the middle is not ruled out.
RaiseLowToMiddle == ~Reaches(position, pair, Middle, policy.target) /\ lo' = Middle /\ hi' = hi

\* Mutant: the middle and its successor are ruled out.
RaiseLowTwice == ~Reaches(position, pair, Middle, policy.target) /\ lo' = Middle + 2 /\ hi' = hi

RaiseLow  == ~Reaches(position, pair, Middle, policy.target) /\ lo' = Middle + 1 /\ hi' = hi
LowerHigh == Reaches(position, pair, Middle, policy.target) /\ hi' = Middle /\ lo' = lo

Bisect ==
  /\ pc = "search" /\ lo < hi
  /\ LowerHigh \/ RaiseLow
  /\ UNCHANGED <<pc, Input, todo, pair, minimum, result>>

\* Mutant: the pair of the last search is not put away.
FoundStays ==
  /\ pc = "search" /\ lo >= hi
  /\ pc' = "next" /\ minimum' = [minimum EXCEPT ![pair] = lo]
  /\ UNCHANGED <<Input, todo, Search, result>>

Found ==
  /\ pc = "search" /\ lo >= hi
  /\ Return(pair, lo)
  /\ UNCHANGED todo

\* The ranking and the choice.
Choose ==
  /\ pc = "next" /\ todo = {}
  /\ pc' = "done"
  /\ result' = Outcome(Select(UNION {CandidatesOf(position, policy, q, minimum[q]) : q \in Visited}))
  /\ UNCHANGED <<Input, todo, Search, minimum>>

Next == Shock \/ AssessUsd \/ Assess \/ (\E q \in Pairs : Begin(q)) \/ Bisect \/ Found
          \/ Choose

\* Synchronous code: what has started runs on.
Fairness == WF_vars(Next)

Spec == Init /\ [][Next]_vars /\ Fairness

-----------------------------------------------------------------------------
(***************************************************************************)
(* Properties.                                                             *)
(***************************************************************************)

TypeOK ==
  /\ pc \in {"start", "next", "search", "done", "usd", "usd-done"}
  /\ \A a \in Assets : reserves[a] \in Reserves[a]
  /\ policy \in Policies
  /\ shock \in {<<>>} \cup Assets \X Shocks
  /\ todo \subseteq Pairs
  /\ pair \in Pairs \cup {NoPair} /\ (pair # NoPair <=> pc = "search")
  /\ lo \in Nat /\ hi \in Nat
  /\ minimum \in [Pairs -> Nat]
  /\ result.status \in {"NONE", "THROWN", "NO_ACTION", "NO_SAFE_ACTION", "READY", "REQUIRE_APPROVAL"}

\* What has been searched, while there is more to search.
Searched == IF pc \in {"next", "search"} THEN Visited \ (todo \cup {pair}) ELSE {}

\* The comment in minimumPortfolioAmount: what a search returns reaches the
\* target, and no smaller amount does; where it returns null, no amount within
\* its bound does.  The outcome is a quotient of rounded values, so that a
\* bisection is right only if it is monotone.
MinimumExact ==
  \A q \in Searched :
    /\ minimum[q] # 0 => Reaches(position, q, minimum[q], policy.target)
    /\ \A x \in 1 .. (IF minimum[q] = 0 THEN Bound(q) ELSE minimum[q] - 1) :
         ~Reaches(position, q, x, policy.target)

\* The bound from which collateral is searched is always enough, in spite of
\* the two roundings: no supply is given up as hopeless.
SupplySuffices == \A q \in Searched : q[2] = "ADD_COLLATERAL" => minimum[q] # 0

\* No valid candidate beats what was selected.
Cheapest(candidates) ==
  \A c \in {d \in candidates : d.reaches /\ d.admitted} :
    \E s \in result.selected :
      /\ s.reaches /\ s.admitted
      /\ s.approval => c.approval
      /\ s.approval = c.approval => s.cost * c.per <= c.cost * s.per

\* Every amount of a pair that could be admitted: a repayment is at most the
\* debt, a supply at most what the wallet holds.
Every(q) ==
  LET r == position.assets[q[1]]
  IN  {Candidate(position, policy, q, x) :
         x \in 1 .. (IF q[2] = "REPAY_DEBT" THEN r.debt ELSE r.wallet)}

\* The minimum effective intervention: of ALL amounts that reach the target
\* within the policy, and not of the handful that is tried, the one selected
\* costs least; and it asks for approval only if every one of them would.
ChoiceIsCheapest ==
  pc = "done" /\ result.status \notin {"NO_ACTION", "THROWN"} /\ ~position.blocked =>
    Cheapest(UNION {Every(q) : q \in Visited})

\* The same of the older engine, whose minimum is a formula.
UsdChoiceIsCheapest ==
  pc = "usd-done" /\ result.status # "NO_ACTION" =>
    \A type \in Types :
      Cheapest({UsdCandidate(position, policy, type, x) :
                  x \in 1 .. (IF type = "REPAY_DEBT" THEN position.debt
                              ELSE position.collateralWallet)})

\* A stressed position is the position Aave would report at the shocked price,
\* where every supply counts as collateral and no debt is stable.
StressCommutes ==
  pc = "start" /\ shock # <<>> =>
    LET shocked == [reserves EXCEPT ![shock[1]].price = (@ * shock[2]) \div Scale]
    IN  (\A a \in Assets : reserves[a].stable = 0 /\ (reserves[a].supplied > 0 => reserves[a].enabled)) =>
          /\ position.debt = Debt(shocked, position.rounding)
          /\ position.weighted = Weighted(shocked)

\* The totals and the parts of a position that is searched never contradict
\* each other, whichever rounding Aave used and whatever the shock was: the
\* repayment of a whole debt takes no more from the total than the total.
PartsFitTotals ==
  pc \in {"next", "search"} => \A q \in Visited : DebtAfter(position, q, Bound(q)) >= 0

\* Every search comes to an end.
SearchEnds == pc = "search" ~> pc = "next"
=============================================================================
