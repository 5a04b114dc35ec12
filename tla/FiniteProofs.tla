---------------------------- MODULE FiniteProofs ----------------------------
(***************************************************************************)
(* Facts about finite sets of numbers that several proofs need.            *)
(*                                                                         *)
(* A least and a greatest element exist.  SumFunctionOnSet folds its set   *)
(* by a recursive function, which the provers see as a CHOOSE; what they   *)
(* can use of it is stated here: a sum of naturals is a natural, an        *)
(* element can be taken out of it, it is bounded by its parts and by the   *)
(* number of them.                                                         *)
(***************************************************************************)
EXTENDS Integers, FiniteSetsExt, Functions, FiniteSetTheorems, WellFoundedInduction, TLAPS

-----------------------------------------------------------------------------
(***************************************************************************)
(* Least and greatest elements.                                            *)
(***************************************************************************)

\* Min and Max are CHOOSEs: they are elements because a least, or a greatest,
\* element exists.
LEMMA LeastElement ==
  ASSUME NEW S \in SUBSET Nat, S # {}
  PROVE  \E x \in S : \A y \in S : x <= y
<1> DEFINE R == OpToRel(<, Nat)
<1>1. PICK x \in S : \A y \in S : <<y, x>> \notin R
  BY NatLessThanWellFounded, WFMin, S \subseteq Nat
<1>2. \A y \in S : ~ (y < x)
  BY <1>1 DEF OpToRel
<1>3. QED
  BY <1>2

LEMMA GreatestElement ==
  ASSUME NEW n \in Nat, NEW S \in SUBSET (0 .. n), S # {}
  PROVE  \E x \in S : \A y \in S : x >= y
<1> DEFINE T == {n - s : s \in S}
<1>1. T \in SUBSET Nat
  <2> SUFFICES ASSUME NEW s \in S PROVE n - s \in Nat
    OBVIOUS
  <2> s \in 0 .. n
    OBVIOUS
  <2> QED
    OBVIOUS
<1>2. T # {}
  <2> PICK s \in S : TRUE
    OBVIOUS
  <2> n - s \in T
    OBVIOUS
  <2> QED
    OBVIOUS
<1>3. PICK t \in T : \A u \in T : t <= u
  <2> HIDE DEF T
  <2> QED
    BY <1>1, <1>2, LeastElement
<1>4. PICK x \in S : t = n - x
  OBVIOUS
<1>5. \A y \in S : n - x <= n - y
  BY <1>3, <1>4
<1>6. QED
  BY <1>4, <1>5

LEMMA MinIsElement ==
  ASSUME NEW S \in SUBSET Nat, S # {}
  PROVE  Min(S) \in S
BY LeastElement DEF Min

LEMMA MaxIsElement ==
  ASSUME NEW n \in Nat, NEW S \in SUBSET (0 .. n), S # {}
  PROVE  Max(S) \in S
BY GreatestElement DEF Max

LEMMA MaxIsGreatest ==
  ASSUME NEW n \in Nat, NEW S \in SUBSET (0 .. n), S # {}
  PROVE  Max(S) \in S /\ \A y \in S : y <= Max(S)
<1>1. \E x \in S : \A y \in S : x >= y
  BY GreatestElement
<1>2. Max(S) \in S /\ \A y \in S : Max(S) >= y
  BY <1>1 DEF Max
<1>3. S \in SUBSET Int
  OBVIOUS
<1>4. \A y \in S : y \in Int /\ Max(S) \in Int
  BY <1>2, <1>3
<1>5. QED
  BY <1>2, <1>4

-----------------------------------------------------------------------------
(***************************************************************************)
(* A set of subsets of a finite set has a member that no other is part of. *)
(* This is the induction of all that follows: the smallest counterexample. *)
(***************************************************************************)
LEMMA SmallestSubset ==
  ASSUME NEW S, IsFiniteSet(S), NEW Bad \in SUBSET SUBSET S, Bad # {}
  PROVE  \E T \in Bad : \A U \in Bad : U \subseteq T => U = T
<1> DEFINE R == StrictSubsetOrdering(S)
<1>1. IsWellFoundedOn(R, SUBSET S)
  BY FS_StrictSubsetOrderingWellFounded, FS_FiniteSubsetsOfFinite
<1>2. PICK T \in Bad : \A U \in Bad : <<U, T>> \notin R
  <2> HIDE DEF R
  <2> QED
    BY <1>1, WFMin
<1>3. ASSUME NEW U \in Bad, U \subseteq T, U # T PROVE FALSE
  <2>1. T \in SUBSET S /\ U \in SUBSET S
    OBVIOUS
  <2>2. <<U, T>> \in R
    BY <1>3, <2>1 DEF StrictSubsetOrdering
  <2> QED
    BY <1>2, <2>2
<1> QED
  BY <1>2, <1>3

\* What a function gives on a finite set is finite.
LEMMA ImageFinite ==
  ASSUME NEW f, NEW S, IsFiniteSet(S)
  PROVE  IsFiniteSet({f[x] : x \in S})
<1> DEFINE T == {f[x] : x \in S}
           g == [x \in S |-> f[x]]
<1>1. g \in Surjection(S, T)
  BY DEF Surjection
<1> HIDE DEF g, T
<1>2. IsFiniteSet(T)
  BY <1>1, FS_Surjection
<1> QED
  BY <1>2 DEF T

-----------------------------------------------------------------------------
(***************************************************************************)
(* The recursive function exists.                                          *)
(***************************************************************************)

Pick(s) == CHOOSE x \in s : TRUE

\* g sums f over each member of Sets.
Sums(f, Sets, g) ==
  g = [s \in Sets |-> IF s = {} THEN 0 ELSE f[Pick(s)] + g[s \ {Pick(s)}]]

LEMMA SumIsChosen ==
  ASSUME NEW f, NEW S
  PROVE  SumFunctionOnSet(f, S) = (CHOOSE g : Sums(f, SUBSET S, g))[S]
BY DEF SumFunctionOnSet, FoldFunctionOnSet, MapThenFoldSet, Sums, Pick

\* Subsets of at most n elements.
UpTo(S, n) == {s \in SUBSET S : Cardinality(s) <= n}

LEMMA PickIsElement == ASSUME NEW s, s # {} PROVE Pick(s) \in s
BY DEF Pick

LEMMA UpToRemoved ==
  ASSUME NEW S, IsFiniteSet(S), NEW n \in Nat, NEW s \in UpTo(S, n + 1), s # {}
  PROVE  s \ {Pick(s)} \in UpTo(S, n)
<1>1. IsFiniteSet(s) /\ Pick(s) \in s
  BY FS_Subset, PickIsElement DEF UpTo
<1>2. Cardinality(s) \in Nat /\ Cardinality(s \ {Pick(s)}) = Cardinality(s) - 1
  BY <1>1, FS_RemoveElement, FS_CardinalityType
<1> QED
  BY <1>2 DEF UpTo

\* From the subsets of n elements to those of n + 1.
LEMMA SumsExtend ==
  ASSUME NEW f, NEW S, IsFiniteSet(S), NEW n \in Nat, NEW g, Sums(f, UpTo(S, n), g)
  PROVE  \E h : Sums(f, UpTo(S, n + 1), h)
<1> DEFINE h == [s \in UpTo(S, n + 1) |-> IF s = {} THEN 0 ELSE f[Pick(s)] + g[s \ {Pick(s)}]]
<1>1. ASSUME NEW s \in UpTo(S, n + 1), s # {}
      PROVE  h[s \ {Pick(s)}] = g[s \ {Pick(s)}]
  <2> DEFINE t == s \ {Pick(s)}
  <2>1. t \in UpTo(S, n)
    BY <1>1, UpToRemoved
  <2>2. t \in UpTo(S, n + 1)
    <3>1. IsFiniteSet(t) /\ Cardinality(t) \in Nat
      BY <2>1, FS_Subset, FS_CardinalityType DEF UpTo
    <3> QED
      BY <2>1, <3>1 DEF UpTo
  <2>3. g[t] = IF t = {} THEN 0 ELSE f[Pick(t)] + g[t \ {Pick(t)}]
    <3> HIDE DEF t
    <3> QED
      BY <2>1 DEF Sums
  <2>4. h[t] = IF t = {} THEN 0 ELSE f[Pick(t)] + g[t \ {Pick(t)}]
    <3> HIDE DEF t
    <3> QED
      BY <2>2
  <2> QED
    BY <2>3, <2>4
<1>2. h = [s \in UpTo(S, n + 1) |-> IF s = {} THEN 0 ELSE f[Pick(s)] + h[s \ {Pick(s)}]]
  <2> DEFINE r == [s \in UpTo(S, n + 1) |-> IF s = {} THEN 0 ELSE f[Pick(s)] + h[s \ {Pick(s)}]]
  <2>1. \A s \in UpTo(S, n + 1) : h[s] = r[s]
    BY <1>1
  <2> QED
    BY <2>1
<1> HIDE DEF h
<1> QED
  BY <1>2 DEF Sums

LEMMA SumsExist ==
  ASSUME NEW f, NEW S, IsFiniteSet(S)
  PROVE  \E g : Sums(f, SUBSET S, g)
<1> DEFINE Bad == {n \in Nat : ~ \E g : Sums(f, UpTo(S, n), g)}
<1>1. Bad = {}
  <2> SUFFICES ASSUME Bad # {} PROVE FALSE
    OBVIOUS
  <2>1. PICK m \in Bad : \A n \in Bad : <<n, m>> \notin OpToRel(<, Nat)
    BY NatLessThanWellFounded, WFMin
  <2>2. m # 0
    <3>1. UpTo(S, 0) = {{}}
      BY FS_EmptySet, FS_Subset, FS_CardinalityType DEF UpTo
    <3> DEFINE z == [s \in {{}} |-> 0]
    <3>2. Sums(f, UpTo(S, 0), z)
      BY <3>1 DEF Sums
    <3> QED
      BY <3>2
  <2>3. m - 1 \in Nat /\ <<m - 1, m>> \in OpToRel(<, Nat)
    BY <2>2 DEF OpToRel
  <2>4. PICK g : Sums(f, UpTo(S, m - 1), g)
    BY <2>1, <2>3
  <2>5. \E h : Sums(f, UpTo(S, (m - 1) + 1), h)
    BY <2>3, <2>4, SumsExtend
  <2>6. (m - 1) + 1 = m
    OBVIOUS
  <2> QED
    BY <2>5, <2>6
<1>2. Cardinality(S) \in Nat
  BY FS_CardinalityType
<1>3. UpTo(S, Cardinality(S)) = SUBSET S
  BY FS_Subset DEF UpTo
<1>4. \E g : Sums(f, UpTo(S, Cardinality(S)), g)
  BY <1>1, <1>2
<1> QED
  BY <1>3, <1>4

\* Two such functions agree where both are defined.
LEMMA SumsAgree ==
  ASSUME NEW f, NEW S, NEW T, NEW g, NEW h, IsFiniteSet(S), T \in SUBSET S,
         Sums(f, SUBSET S, g), Sums(f, SUBSET T, h)
  PROVE  \A U \in SUBSET T : g[U] = h[U]
<1> DEFINE Bad == {U \in SUBSET T : g[U] # h[U]}
<1> SUFFICES ASSUME Bad # {} PROVE FALSE
  OBVIOUS
<1>1. IsFiniteSet(T) /\ Bad \in SUBSET SUBSET T
  BY FS_Subset
<1>2. PICK U \in Bad : \A V \in Bad : V \subseteq U => V = U
  <2> HIDE DEF Bad
  <2> QED
    BY <1>1, SmallestSubset
<1>3. g[U] = (IF U = {} THEN 0 ELSE f[Pick(U)] + g[U \ {Pick(U)}])
  BY DEF Sums
<1>4. h[U] = (IF U = {} THEN 0 ELSE f[Pick(U)] + h[U \ {Pick(U)}])
  BY DEF Sums
<1>5. U # {}
  BY <1>3, <1>4
<1>6. U \ {Pick(U)} # U /\ U \ {Pick(U)} \in SUBSET T
  BY <1>5, PickIsElement
<1>7. g[U \ {Pick(U)}] = h[U \ {Pick(U)}]
  BY <1>2, <1>6
<1> QED
  BY <1>3, <1>4, <1>7

-----------------------------------------------------------------------------
(***************************************************************************)
(* Facts about sums.                                                       *)
(***************************************************************************)

LEMMA SumEmpty == ASSUME NEW f PROVE SumFunctionOnSet(f, {}) = 0
<1>1. IsFiniteSet({})
  BY FS_EmptySet
<1> DEFINE g == CHOOSE g : Sums(f, SUBSET {}, g)
<1>2. Sums(f, SUBSET {}, g)
  BY <1>1, SumsExist
<1>3. g[{}] = 0
  <2> HIDE DEF g
  <2> QED
    BY <1>2 DEF Sums
<1> QED
  BY <1>3, SumIsChosen

\* The recursion: the sum of a set is that without a certain element, and the
\* element.
LEMMA SumUnfold ==
  ASSUME NEW f, NEW S, IsFiniteSet(S), S # {}
  PROVE  SumFunctionOnSet(f, S) = f[Pick(S)] + SumFunctionOnSet(f, S \ {Pick(S)})
<1> DEFINE T == S \ {Pick(S)}
           g == CHOOSE g : Sums(f, SUBSET S, g)
           h == CHOOSE h : Sums(f, SUBSET T, h)
<1>1. IsFiniteSet(T) /\ T \in SUBSET S
  BY FS_Subset
<1>2. Sums(f, SUBSET S, g)
  BY SumsExist
<1>3. Sums(f, SUBSET T, h)
  <2> HIDE DEF T
  <2> QED
    BY <1>1, SumsExist
<1>4. SumFunctionOnSet(f, S) = g[S] /\ SumFunctionOnSet(f, T) = h[T]
  BY SumIsChosen
<1>5. g[T] = h[T]
  <2> HIDE DEF g, h, T
  <2>1. \A U \in SUBSET T : g[U] = h[U]
    BY <1>1, <1>2, <1>3, SumsAgree
  <2> QED
    BY <2>1
<1>6. g[S] = f[Pick(S)] + g[T]
  <2> HIDE DEF g
  <2> QED
    BY <1>2 DEF Sums
<1> QED
  BY <1>4, <1>5, <1>6

\* f is a natural number on S.
NatOn(f, S) == \A x \in S : f[x] \in Nat

\* A sum of naturals is one, and any element can be taken out of it.
LEMMA SumSplit ==
  ASSUME NEW f, NEW S, IsFiniteSet(S), NatOn(f, S)
  PROVE  \A T \in SUBSET S :
           /\ SumFunctionOnSet(f, T) \in Nat
           /\ \A x \in T : SumFunctionOnSet(f, T) = f[x] + SumFunctionOnSet(f, T \ {x})
<1> DEFINE Good(T) == /\ SumFunctionOnSet(f, T) \in Nat
                      /\ \A x \in T : SumFunctionOnSet(f, T) = f[x] + SumFunctionOnSet(f, T \ {x})
           Bad == {T \in SUBSET S : ~Good(T)}
<1> SUFFICES ASSUME Bad # {} PROVE FALSE
  OBVIOUS
<1>1. PICK T \in Bad : \A U \in Bad : U \subseteq T => U = T
  <2> Bad \in SUBSET SUBSET S
    OBVIOUS
  <2> HIDE DEF Bad
  <2> QED
    BY SmallestSubset
<1>2. IsFiniteSet(T) /\ T \in SUBSET S
  BY FS_Subset
<1>3. \A U \in SUBSET T : U # T => Good(U)
  BY <1>1, <1>2
<1>4. T # {}
  <2>1. Good({})
    BY SumEmpty
  <2> HIDE DEF Good
  <2> QED
    BY <1>1, <2>1
<1> DEFINE p == Pick(T)
<1>5. p \in T /\ SumFunctionOnSet(f, T) = f[p] + SumFunctionOnSet(f, T \ {p})
  BY <1>2, <1>4, SumUnfold, PickIsElement
<1> HIDE DEF p
<1>6. Good(T \ {p})
  BY <1>3, <1>5
<1>7. ASSUME NEW x \in T
      PROVE  SumFunctionOnSet(f, T) = f[x] + SumFunctionOnSet(f, T \ {x})
  <2>1. CASE x = p
    BY <1>5, <2>1
  <2>2. CASE x # p
    <3>1. Good(T \ {x})
      BY <1>3
    <3>2. SumFunctionOnSet(f, T \ {p}) = f[x] + SumFunctionOnSet(f, (T \ {p}) \ {x})
      BY <1>6, <2>2
    <3>3. SumFunctionOnSet(f, T \ {x}) = f[p] + SumFunctionOnSet(f, (T \ {x}) \ {p})
      BY <1>5, <3>1, <2>2
    <3>4. (T \ {p}) \ {x} = (T \ {x}) \ {p} /\ (T \ {p}) \ {x} # T /\ (T \ {p}) \ {x} \in SUBSET T
      OBVIOUS
    <3>5. SumFunctionOnSet(f, (T \ {p}) \ {x}) \in Nat
      BY <1>3, <3>4
    <3>6. f[p] \in Nat /\ f[x] \in Nat
      BY <1>2, <1>5 DEF NatOn
    <3>7. PICK a \in Nat, b \in Nat, c \in Nat :
            /\ a = f[p] /\ b = f[x]
            /\ c = SumFunctionOnSet(f, (T \ {p}) \ {x})
      BY <3>5, <3>6
    <3>8. SumFunctionOnSet(f, T \ {p}) = b + c /\ SumFunctionOnSet(f, T \ {x}) = a + c
      BY <3>2, <3>3, <3>4, <3>7
    <3>9. SumFunctionOnSet(f, T) = a + (b + c)
      BY <1>5, <3>7, <3>8
    <3>10. a + (b + c) = b + (a + c)
      OBVIOUS
    <3> HIDE DEF Good
    <3> QED
      BY <3>7, <3>8, <3>9, <3>10
  <2> QED
    BY <2>1, <2>2
<1>8. SumFunctionOnSet(f, T) \in Nat
  <2>1. f[p] \in Nat
    BY <1>2, <1>5 DEF NatOn
  <2> QED
    BY <1>5, <1>6, <2>1
<1> QED
  BY <1>1, <1>7, <1>8

LEMMA SumType ==
  ASSUME NEW f, NEW S, IsFiniteSet(S), NatOn(f, S)
  PROVE  SumFunctionOnSet(f, S) \in Nat
<1>1. S \in SUBSET S
  OBVIOUS
<1> QED
  BY <1>1, SumSplit

LEMMA SumRemove ==
  ASSUME NEW f, NEW S, NEW x, IsFiniteSet(S), NatOn(f, S), x \in S
  PROVE  SumFunctionOnSet(f, S) = f[x] + SumFunctionOnSet(f, S \ {x})
<1>1. S \in SUBSET S
  OBVIOUS
<1> QED
  BY <1>1, SumSplit

\* A part is at most the total.
LEMMA SumMember ==
  ASSUME NEW f, NEW S, NEW x, IsFiniteSet(S), NatOn(f, S), x \in S
  PROVE  f[x] <= SumFunctionOnSet(f, S)
<1>1. S \ {x} \in SUBSET S /\ S \in SUBSET S
  OBVIOUS
<1>2. SumFunctionOnSet(f, S \ {x}) \in Nat /\ f[x] \in Nat
  BY <1>1, SumSplit DEF NatOn
<1> QED
  BY <1>2, SumRemove

\* A sum of smaller numbers is smaller.
LEMMA SumMonotone ==
  ASSUME NEW f, NEW g, NEW S, IsFiniteSet(S), NatOn(f, S), NatOn(g, S),
         \A x \in S : f[x] <= g[x]
  PROVE  SumFunctionOnSet(f, S) <= SumFunctionOnSet(g, S)
<1> DEFINE Good(T) == SumFunctionOnSet(f, T) <= SumFunctionOnSet(g, T)
           Bad == {T \in SUBSET S : ~Good(T)}
<1> SUFFICES ASSUME Bad # {} PROVE FALSE
  <2> S \in SUBSET S
    OBVIOUS
  <2> QED
    OBVIOUS
<1>1. PICK T \in Bad : \A U \in Bad : U \subseteq T => U = T
  <2> Bad \in SUBSET SUBSET S
    OBVIOUS
  <2> HIDE DEF Bad
  <2> QED
    BY SmallestSubset
<1>2. Good({})
  BY SumEmpty
<1>3. T # {}
  <2> HIDE DEF Good
  <2> QED
    BY <1>1, <1>2
<1>4. PICK x \in T : TRUE
  BY <1>3
<1>5. T \ {x} \in SUBSET S /\ T \in SUBSET S /\ x \in S
  BY <1>1, <1>4
<1>6. Good(T \ {x})
  BY <1>1, <1>4, <1>5
<1>7. /\ SumFunctionOnSet(f, T) = f[x] + SumFunctionOnSet(f, T \ {x})
      /\ SumFunctionOnSet(g, T) = g[x] + SumFunctionOnSet(g, T \ {x})
      /\ SumFunctionOnSet(f, T \ {x}) \in Nat
      /\ SumFunctionOnSet(g, T \ {x}) \in Nat
  BY <1>4, <1>5, SumSplit
<1>8. f[x] \in Nat /\ g[x] \in Nat /\ f[x] <= g[x]
  BY <1>5 DEF NatOn
<1>9. Good(T)
  BY <1>6, <1>7, <1>8
<1> QED
  BY <1>1, <1>9

LEMMA SumCongruence ==
  ASSUME NEW f, NEW g, NEW S, IsFiniteSet(S), NatOn(f, S), \A x \in S : f[x] = g[x]
  PROVE  SumFunctionOnSet(f, S) = SumFunctionOnSet(g, S)
<1>1. NatOn(g, S)
  BY DEF NatOn
<1>2. \A x \in S : f[x] <= g[x] /\ g[x] <= f[x]
  BY DEF NatOn
<1>3. SumFunctionOnSet(f, S) <= SumFunctionOnSet(g, S)
  BY <1>1, <1>2, SumMonotone
<1>4. SumFunctionOnSet(g, S) <= SumFunctionOnSet(f, S)
  BY <1>1, <1>2, SumMonotone
<1>5. SumFunctionOnSet(f, S) \in Nat /\ SumFunctionOnSet(g, S) \in Nat
  BY <1>1, SumType
<1> QED
  BY <1>3, <1>4, <1>5

\* A sum over two sets that share nothing is the sum of two sums.
LEMMA SumParts ==
  ASSUME NEW f, NEW S, NEW P, IsFiniteSet(S), NatOn(f, S), P \in SUBSET S
  PROVE  SumFunctionOnSet(f, S) = SumFunctionOnSet(f, P) + SumFunctionOnSet(f, S \ P)
<1> DEFINE R == S \ P
           Good(T) == SumFunctionOnSet(f, T \cup R) = SumFunctionOnSet(f, T) + SumFunctionOnSet(f, R)
           Bad == {T \in SUBSET P : ~Good(T)}
<1> SUFFICES ASSUME Bad # {} PROVE FALSE
  <2>1. P \in SUBSET P /\ P \cup R = S
    OBVIOUS
  <2>2. Good(P)
    BY <2>1
  <2> QED
    BY <2>1, <2>2
<1>1. PICK T \in Bad : \A U \in Bad : U \subseteq T => U = T
  <2> Bad \in SUBSET SUBSET P /\ IsFiniteSet(P)
    BY FS_Subset
  <2> HIDE DEF Bad
  <2> QED
    BY SmallestSubset
<1>2. Good({})
  <2>1. {} \cup R = R /\ R \in SUBSET S
    OBVIOUS
  <2>2. SumFunctionOnSet(f, R) \in Nat
    BY <2>1, SumSplit
  <2> HIDE DEF R
  <2>3. SumFunctionOnSet(f, {} \cup R) = SumFunctionOnSet(f, R)
    BY <2>1
  <2> QED
    BY <2>2, <2>3, SumEmpty
<1>3. T # {}
  <2> HIDE DEF Good
  <2> QED
    BY <1>1, <1>2
<1>4. PICK x \in T : TRUE
  BY <1>3
<1>5. /\ T \ {x} \in SUBSET P /\ T \in SUBSET P
      /\ T \ {x} \in SUBSET S /\ T \in SUBSET S /\ x \in S
      /\ T \cup R \in SUBSET S /\ (T \cup R) \ {x} = (T \ {x}) \cup R
      /\ R \in SUBSET S /\ x \in T \cup R /\ (T \ {x}) \cup R \in SUBSET S
  BY <1>1, <1>4
<1>6. Good(T \ {x})
  BY <1>1, <1>4, <1>5
<1> HIDE DEF R
<1>7. SumFunctionOnSet(f, T) = f[x] + SumFunctionOnSet(f, T \ {x})
  BY <1>4, <1>5, SumSplit
<1>8. SumFunctionOnSet(f, T \cup R) = f[x] + SumFunctionOnSet(f, (T \ {x}) \cup R)
  <2>1. SumFunctionOnSet(f, T \cup R) = f[x] + SumFunctionOnSet(f, (T \cup R) \ {x})
    BY <1>5, SumSplit
  <2> QED
    BY <1>5, <2>1
<1>9. f[x] \in Nat /\ SumFunctionOnSet(f, R) \in Nat /\ SumFunctionOnSet(f, T \ {x}) \in Nat
  BY <1>5, SumSplit DEF NatOn
<1>10. Good(T)
  <2>1. PICK a \in Nat, b \in Nat, c \in Nat :
          /\ a = f[x] /\ b = SumFunctionOnSet(f, R)
          /\ c = SumFunctionOnSet(f, T \ {x})
    BY <1>9
  <2>2. SumFunctionOnSet(f, (T \ {x}) \cup R) = c + b
    BY <1>6, <2>1
  <2>3. SumFunctionOnSet(f, T \cup R) = a + (c + b) /\ SumFunctionOnSet(f, T) = a + c
    BY <1>7, <1>8, <2>1, <2>2
  <2>4. a + (c + b) = (a + c) + b
    OBVIOUS
  <2> QED
    BY <2>1, <2>3, <2>4
<1> QED
  BY <1>1, <1>10

\* Less is summed over fewer.
LEMMA SumSubset ==
  ASSUME NEW f, NEW S, NEW P, IsFiniteSet(S), NatOn(f, S), P \in SUBSET S
  PROVE  SumFunctionOnSet(f, P) <= SumFunctionOnSet(f, S)
<1>1. S \ P \in SUBSET S
  OBVIOUS
<1>2. SumFunctionOnSet(f, P) \in Nat /\ SumFunctionOnSet(f, S \ P) \in Nat
  BY <1>1, SumSplit
<1>3. SumFunctionOnSet(f, S) = SumFunctionOnSet(f, P) + SumFunctionOnSet(f, S \ P)
  BY SumParts
<1>4. PICK a \in Nat, b \in Nat : a = SumFunctionOnSet(f, P) /\ b = SumFunctionOnSet(f, S \ P)
  BY <1>2
<1>5. SumFunctionOnSet(f, S) = a + b
  BY <1>3, <1>4
<1> QED
  BY <1>4, <1>5

\* As many parts, each at most m.
LEMMA SumBound ==
  ASSUME NEW f, NEW S, NEW m \in Nat, IsFiniteSet(S), NatOn(f, S), \A x \in S : f[x] <= m
  PROVE  SumFunctionOnSet(f, S) <= Cardinality(S) * m
<1> DEFINE Good(T) == SumFunctionOnSet(f, T) <= Cardinality(T) * m
           Bad == {T \in SUBSET S : ~Good(T)}
<1> SUFFICES ASSUME Bad # {} PROVE FALSE
  <2> S \in SUBSET S
    OBVIOUS
  <2> QED
    OBVIOUS
<1>1. PICK T \in Bad : \A U \in Bad : U \subseteq T => U = T
  <2> Bad \in SUBSET SUBSET S
    OBVIOUS
  <2> HIDE DEF Bad
  <2> QED
    BY SmallestSubset
<1>2. Good({})
  BY SumEmpty, FS_EmptySet
<1>3. T # {}
  <2> HIDE DEF Good
  <2> QED
    BY <1>1, <1>2
<1>4. PICK x \in T : TRUE
  BY <1>3
<1>5. T \ {x} \in SUBSET S /\ T \in SUBSET S /\ x \in S /\ IsFiniteSet(T)
  BY <1>1, <1>4, FS_Subset
<1>6. Good(T \ {x})
  BY <1>1, <1>4, <1>5
<1>7. SumFunctionOnSet(f, T) = f[x] + SumFunctionOnSet(f, T \ {x})
  BY <1>4, <1>5, SumSplit
<1>8. f[x] \in Nat /\ f[x] <= m /\ SumFunctionOnSet(f, T \ {x}) \in Nat
  BY <1>5, SumSplit DEF NatOn
<1>9. Cardinality(T) \in Nat /\ Cardinality(T \ {x}) \in Nat /\ Cardinality(T) = Cardinality(T \ {x}) + 1
  BY <1>4, <1>5, FS_RemoveElement, FS_CardinalityType, FS_Subset
<1>10. Good(T)
  <2>1. PICK a \in Nat, b \in Nat, c \in Nat :
          /\ a = f[x] /\ b = SumFunctionOnSet(f, T \ {x})
          /\ c = Cardinality(T \ {x})
    BY <1>8, <1>9
  <2>2. b <= c * m /\ a <= m /\ c * m \in Nat
    BY <1>6, <1>8, <2>1
  <2>3. a + b <= (c + 1) * m
    BY <2>2
  <2> QED
    BY <1>7, <1>9, <2>1, <2>3
<1> QED
  BY <1>1, <1>10
=============================================================================
