---------------------------- MODULE Sums_proofs ----------------------------
(***************************************************************************)
(* What Total computes, for every function and every finite set.  The fold *)
(* is a recursive function on the subsets of the set; that there is one,   *)
(* and that it does not matter which element it takes first, is proved by  *)
(* looking at a smallest subset where it would fail.  Then what Added      *)
(* computes, for every function and every length: the first length where   *)
(* its recursion would fail is one more than a length where it holds.      *)
(***************************************************************************)
EXTENDS Sums, FiniteSetTheorems, WellFoundedInduction, TLAPS

(* Subsets of a finite set have a smallest one among them.                 *)
LEMMA SmallestSubset ==
  ASSUME NEW S, IsFiniteSet(S), NEW T, T \subseteq SUBSET S, T # {}
  PROVE  \E s \in T : \A t \in T : t \subseteq s => t = s
<1>1. FiniteSubsetsOf(S) = SUBSET S
  BY FS_Subset DEF FiniteSubsetsOf
<1>2. IsWellFoundedOn(StrictSubsetOrdering(S), SUBSET S)
  BY <1>1, FS_StrictSubsetOrderingWellFounded
<1>3. \E s \in T : \A t \in T : ~(<<t, s>> \in StrictSubsetOrdering(S))
  BY <1>2, WFMin, Zenon
<1> QED
  BY <1>3 DEF StrictSubsetOrdering

-----------------------------------------------------------------------------
(* The recursion Total is defined by: the sum of all subsets at once.      *)
Pick(s) == CHOOSE x \in s : TRUE
Rest(s) == s \ {Pick(s)}

Solves(g, f, S) ==
  g = [s \in SUBSET S |-> IF s = {} THEN 0 ELSE f[Pick(s)] + g[Rest(s)]]

(* Total is what a solution of the recursion yields.                       *)
LEMMA TotalSolves ==
  ASSUME NEW f, NEW S PROVE Total(f, S) = (CHOOSE g : Solves(g, f, S))[S]
BY DEF Total, MapThenSumSet, MapThenFoldSet, Solves, Pick, Rest

(* There is at most one. *)
LEMMA OneSolution ==
  ASSUME NEW f, NEW S, IsFiniteSet(S), NEW g, Solves(g, f, S), NEW h, Solves(h, f, S)
  PROVE  g = h
<1> DEFINE T == {s \in SUBSET S : g[s] # h[s]}
<1>1. SUFFICES ASSUME T # {} PROVE FALSE
  <2>1. DOMAIN g = SUBSET S /\ g = [s \in SUBSET S |-> g[s]]
    BY DEF Solves
  <2>2. DOMAIN h = SUBSET S /\ h = [s \in SUBSET S |-> h[s]]
    BY DEF Solves
  <2>3. \A s \in SUBSET S : g[s] = h[s]
    BY <1>1
  <2> QED
    BY <2>1, <2>2, <2>3
<1>2. PICK s \in T : \A t \in T : t \subseteq s => t = s
  <2> HIDE DEF T
  <2>1. T \subseteq SUBSET S
    BY DEF T
  <2> QED
    BY <1>1, <2>1, SmallestSubset
<1>3. CASE s = {}
  BY <1>3 DEF Solves
<1>4. CASE s # {}
  <2>1. Pick(s) \in s
    BY <1>4 DEF Pick
  <2>2. Rest(s) \in SUBSET S /\ Rest(s) \subseteq s /\ Rest(s) # s
    BY <2>1 DEF Rest
  <2>3. g[Rest(s)] = h[Rest(s)]
    BY <1>2, <2>2
  <2>4. g[s] = f[Pick(s)] + g[Rest(s)]
    BY <1>4, Zenon DEF Solves
  <2>5. h[s] = f[Pick(s)] + h[Rest(s)]
    BY <1>4, Zenon DEF Solves
  <2> QED
    BY <2>3, <2>4, <2>5
<1> QED
  BY <1>3, <1>4

(* A solution for a set contains one for each of its subsets, so it yields *)
(* their totals too.                                                       *)
LEMMA SolutionTotals ==
  ASSUME NEW f, NEW S, IsFiniteSet(S), NEW g, Solves(g, f, S), NEW s \in SUBSET S
  PROVE  g[s] = Total(f, s)
<1> DEFINE h == [t \in SUBSET s |-> g[t]]
<1>1. Solves(h, f, s)
  <2>1. ASSUME NEW t \in SUBSET s
        PROVE  g[t] = IF t = {} THEN 0 ELSE f[Pick(t)] + h[Rest(t)]
    <3>1. Rest(t) \in SUBSET s /\ t \in SUBSET S
      BY DEF Rest
    <3>2. g[t] = IF t = {} THEN 0 ELSE f[Pick(t)] + g[Rest(t)]
      BY <3>1, Zenon DEF Solves
    <3>3. h[Rest(t)] = g[Rest(t)]
      BY <3>1
    <3> QED
      BY <3>2, <3>3
  <2> HIDE DEF h
  <2>2. h = [t \in SUBSET s |-> IF t = {} THEN 0 ELSE f[Pick(t)] + h[Rest(t)]]
    <3> DEFINE k(t) == IF t = {} THEN 0 ELSE f[Pick(t)] + h[Rest(t)]
    <3>1. \A t \in SUBSET s : g[t] = k(t)
      BY <2>1
    <3> HIDE DEF k
    <3>2. h = [t \in SUBSET s |-> k(t)]
      BY <3>1 DEF h
    <3> QED
      BY <3>2, Zenon DEF k
  <2> QED
    BY <2>2, Zenon DEF Solves
<1> HIDE DEF h
<1>2. IsFiniteSet(s)
  BY FS_Subset
<1>3. Solves(CHOOSE k : Solves(k, f, s), f, s)
  BY <1>1, Zenon
<1>4. (CHOOSE k : Solves(k, f, s)) = h
  BY <1>1, <1>2, <1>3, OneSolution
<1> QED
  BY <1>4, TotalSolves DEF h

(* There is one. *)
LEMMA Solution ==
  ASSUME NEW f, NEW S, IsFiniteSet(S) PROVE \E g : Solves(g, f, S)
<1> DEFINE T == {s \in SUBSET S : ~ \E g : Solves(g, f, s)}
<1>1. SUFFICES ASSUME T # {} PROVE FALSE
  <2> HIDE DEF T
  <2>1. S \notin T
    BY <1>1
  <2> QED
    BY <2>1 DEF T
<1>2. PICK s \in T : \A t \in T : t \subseteq s => t = s
  <2> HIDE DEF T
  <2>1. T \subseteq SUBSET S
    BY DEF T
  <2> QED
    BY <1>1, <2>1, SmallestSubset
<1>3. s \in SUBSET S /\ IsFiniteSet(s) /\ ~ \E g : Solves(g, f, s)
  BY <1>2, FS_Subset
<1>4. ASSUME NEW t \in SUBSET s, t # s PROVE \E g : Solves(g, f, t)
  BY <1>2, <1>3, <1>4
<1> HIDE DEF T
<1> DEFINE k(t) == IF t = {} THEN 0 ELSE f[Pick(t)] + Total(f, Rest(t))
           h    == [t \in SUBSET s |-> k(t)]
<1>5. ASSUME NEW t \in SUBSET s, t # s PROVE k(t) = Total(f, t)
  <2>1. PICK g : Solves(g, f, t)
    BY <1>4, <1>5
  <2>2. IsFiniteSet(t)
    BY <1>3, FS_Subset
  <2>3. Rest(t) \in SUBSET t /\ t \in SUBSET t
    BY DEF Rest
  <2> HIDE DEF k
  <2>4. g[t] = Total(f, t) /\ g[Rest(t)] = Total(f, Rest(t))
    BY <2>1, <2>2, <2>3, SolutionTotals
  <2>5. g[t] = IF t = {} THEN 0 ELSE f[Pick(t)] + g[Rest(t)]
    BY <2>1, <2>3, Zenon DEF Solves
  <2> QED
    BY <2>4, <2>5 DEF k
<1>6. ASSUME NEW t \in SUBSET s
      PROVE  k(t) = IF t = {} THEN 0 ELSE f[Pick(t)] + h[Rest(t)]
  <2>1. CASE t = {}
    BY <2>1
  <2>2. CASE t # {}
    <3>1. Pick(t) \in t
      BY <2>2 DEF Pick
    <3>2. Rest(t) \in SUBSET s /\ Rest(t) # s
      BY <3>1 DEF Rest
    <3>3. h[Rest(t)] = Total(f, Rest(t))
      <4> HIDE DEF k
      <4>1. k(Rest(t)) = Total(f, Rest(t))
        BY <3>2, <1>5
      <4> QED
        BY <3>2, <4>1
    <3> QED
      BY <2>2, <3>3
  <2> QED
    BY <2>1, <2>2
<1>7. h = [t \in SUBSET s |-> IF t = {} THEN 0 ELSE f[Pick(t)] + h[Rest(t)]]
  <2> DEFINE j(t) == IF t = {} THEN 0 ELSE f[Pick(t)] + h[Rest(t)]
  <2>1. \A t \in SUBSET s : k(t) = j(t)
    BY <1>6
  <2> HIDE DEF k, j
  <2>2. h = [t \in SUBSET s |-> j(t)]
    BY <2>1
  <2> QED
    BY <2>2 DEF j
<1> HIDE DEF h
<1>8. Solves(h, f, s)
  BY <1>7, Zenon DEF Solves
<1> QED
  BY <1>3, <1>8

(* The sum over no elements. *)
LEMMA TotalEmpty == \A f : Total(f, {}) = 0
<1> SUFFICES ASSUME NEW f PROVE Total(f, {}) = 0
  OBVIOUS
<1>1. PICK g : Solves(g, f, {})
  BY FS_EmptySet, Solution
<1>2. g[{}] = Total(f, {})
  BY <1>1, FS_EmptySet, SolutionTotals
<1> QED
  BY <1>1, <1>2 DEF Solves

(* The sum over a set, taken apart at the element picked first.            *)
LEMMA TotalPick ==
  ASSUME NEW f, NEW S, IsFiniteSet(S), S # {}
  PROVE  /\ Pick(S) \in S
         /\ Total(f, S) = f[Pick(S)] + Total(f, Rest(S))
<1>1. PICK g : Solves(g, f, S)
  BY Solution
<1>2. Rest(S) \in SUBSET S /\ S \in SUBSET S
  BY DEF Rest
<1>3. g[S] = Total(f, S) /\ g[Rest(S)] = Total(f, Rest(S))
  BY <1>1, <1>2, SolutionTotals
<1>4. g[S] = IF S = {} THEN 0 ELSE f[Pick(S)] + g[Rest(S)]
  BY <1>1, <1>2, Zenon DEF Solves
<1> QED
  BY <1>3, <1>4 DEF Pick

-----------------------------------------------------------------------------
(* A sum of integers is an integer. *)
LEMMA TotalInt ==
  ASSUME NEW f, NEW S, IsFiniteSet(S), \A x \in S : f[x] \in Int
  PROVE  Total(f, S) \in Int
<1> DEFINE T == {s \in SUBSET S : Total(f, s) \notin Int}
<1>1. SUFFICES ASSUME T # {} PROVE FALSE
  <2> HIDE DEF T
  <2>1. S \notin T
    BY <1>1
  <2> QED
    BY <2>1 DEF T
<1>2. PICK s \in T : \A t \in T : t \subseteq s => t = s
  <2> HIDE DEF T
  <2>1. T \subseteq SUBSET S
    BY DEF T
  <2> QED
    BY <1>1, <2>1, SmallestSubset
<1>3. s # {}
  BY <1>2, TotalEmpty
<1>4. Pick(s) \in s /\ Total(f, s) = f[Pick(s)] + Total(f, Rest(s))
  BY <1>2, <1>3, TotalPick, FS_Subset
<1>5. Rest(s) \in SUBSET S /\ Rest(s) # s /\ Rest(s) \subseteq s
  BY <1>2, <1>4 DEF Rest
<1>6. Total(f, Rest(s)) \in Int
  BY <1>2, <1>5
<1> QED
  BY <1>2, <1>4, <1>6

(* Any element may be taken out first. *)
LEMMA TotalRemove ==
  ASSUME NEW f, NEW S, IsFiniteSet(S), \A x \in S : f[x] \in Int, NEW x \in S
  PROVE  Total(f, S) = f[x] + Total(f, S \ {x})
<1> DEFINE Apart(s) == \A y \in s : Total(f, s) = f[y] + Total(f, s \ {y})
           T == {s \in SUBSET S : ~Apart(s)}
<1>1. SUFFICES ASSUME T # {} PROVE FALSE
  <2> HIDE DEF T, Apart
  <2>1. S \notin T
    BY <1>1
  <2>2. Apart(S)
    BY <2>1 DEF T
  <2> QED
    BY <2>2 DEF Apart
<1>2. PICK s \in T : \A t \in T : t \subseteq s => t = s
  <2> HIDE DEF T
  <2>1. T \subseteq SUBSET S
    BY DEF T
  <2> QED
    BY <1>1, <2>1, SmallestSubset
<1>3. IsFiniteSet(s) /\ s \in SUBSET S /\ ~Apart(s)
  BY <1>2, FS_Subset
<1>4. ASSUME NEW t \in SUBSET s, t # s PROVE Apart(t)
  <2> HIDE DEF Apart
  <2> QED
    BY <1>2, <1>3, <1>4
<1> HIDE DEF T
<1>5. PICK y \in s : Total(f, s) # f[y] + Total(f, s \ {y})
  BY <1>3
<1> HIDE DEF Apart
<1> DEFINE p == Pick(s)
<1>6. p \in s /\ Total(f, s) = f[p] + Total(f, s \ {p})
  BY <1>3, <1>5, TotalPick DEF Rest
<1> HIDE DEF p
<1>7. p # y
  BY <1>5, <1>6
<1>8. Total(f, s \ {p}) = f[y] + Total(f, (s \ {p}) \ {y})
  <2>1. Apart(s \ {p})
    BY <1>4, <1>6
  <2> QED
    BY <2>1, <1>7 DEF Apart
<1>9. Total(f, s \ {y}) = f[p] + Total(f, (s \ {y}) \ {p})
  <2>1. Apart(s \ {y})
    BY <1>4, <1>5
  <2> QED
    BY <2>1, <1>6, <1>7 DEF Apart
<1>10. (s \ {p}) \ {y} = (s \ {y}) \ {p}
  OBVIOUS
<1>11. f[p] \in Int /\ f[y] \in Int /\ Total(f, (s \ {p}) \ {y}) \in Int
  <2>1. IsFiniteSet((s \ {p}) \ {y}) /\ \A z \in (s \ {p}) \ {y} : f[z] \in Int
    BY <1>3, FS_Subset
  <2> QED
    BY <1>3, <1>5, <1>6, <2>1, TotalInt
<1>12. \A a, b, c \in Int : a + (b + c) = b + (a + c)
  OBVIOUS
<1>13. f[p] + (f[y] + Total(f, (s \ {p}) \ {y}))
         = f[y] + (f[p] + Total(f, (s \ {p}) \ {y}))
  BY <1>11, <1>12
<1> QED
  BY <1>5, <1>6, <1>8, <1>9, <1>10, <1>13, Zenon

(* Sums of the same numbers, and of smaller ones, over the same elements.  *)
LEMMA TotalLeq ==
  ASSUME NEW S, IsFiniteSet(S), NEW f, NEW g,
         \A x \in S : f[x] \in Int /\ g[x] \in Int /\ f[x] <= g[x]
  PROVE  Total(f, S) <= Total(g, S)
<1> DEFINE T == {s \in SUBSET S : ~(Total(f, s) <= Total(g, s))}
<1>1. SUFFICES ASSUME T # {} PROVE FALSE
  <2> HIDE DEF T
  <2>1. S \notin T
    BY <1>1
  <2> QED
    BY <2>1 DEF T
<1>2. PICK s \in T : \A t \in T : t \subseteq s => t = s
  <2> HIDE DEF T
  <2>1. T \subseteq SUBSET S
    BY DEF T
  <2> QED
    BY <1>1, <2>1, SmallestSubset
<1>3. IsFiniteSet(s) /\ s \in SUBSET S /\ ~(Total(f, s) <= Total(g, s))
  BY <1>2, FS_Subset
<1>4. s # {}
  BY <1>3, TotalEmpty
<1>5. /\ Pick(s) \in s
      /\ Total(f, s) = f[Pick(s)] + Total(f, Rest(s))
      /\ Total(g, s) = g[Pick(s)] + Total(g, Rest(s))
  BY <1>3, <1>4, TotalPick
<1>6. Rest(s) \in SUBSET S /\ Rest(s) # s /\ Rest(s) \subseteq s
  BY <1>3, <1>5 DEF Rest
<1>7. Total(f, Rest(s)) <= Total(g, Rest(s))
  BY <1>2, <1>6
<1>8. Total(f, Rest(s)) \in Int /\ Total(g, Rest(s)) \in Int
  <2>1. IsFiniteSet(Rest(s))
    BY <1>6, FS_Subset
  <2>2. \A x \in Rest(s) : f[x] \in Int /\ g[x] \in Int
    BY <1>6
  <2> QED
    BY <2>1, <2>2, TotalInt
<1>9. Pick(s) \in S
  BY <1>3, <1>5
<1> HIDE DEF T
<1>10. \A a, b, c, d \in Int : a <= b /\ c <= d => a + c <= b + d
  OBVIOUS
<1>11. f[Pick(s)] + Total(f, Rest(s)) <= g[Pick(s)] + Total(g, Rest(s))
  BY <1>7, <1>8, <1>9, <1>10
<1> QED
  BY <1>3, <1>5, <1>11

(* Functions that agree on a set have the same total over it.                *)
LEMMA TotalSame ==
  ASSUME NEW S, IsFiniteSet(S), NEW f, NEW g,
         \A x \in S : f[x] \in Int /\ g[x] = f[x]
  PROVE  Total(g, S) = Total(f, S)
<1>1. Total(f, S) <= Total(g, S)
  BY TotalLeq
<1>2. Total(g, S) <= Total(f, S)
  BY TotalLeq
<1>3. Total(f, S) \in Int /\ Total(g, S) \in Int
  BY TotalInt
<1> QED
  BY <1>1, <1>2, <1>3

(* A sum of zeroes is zero, one of natural numbers is a natural number.    *)
LEMMA TotalZero ==
  ASSUME NEW S, IsFiniteSet(S), NEW f, \A x \in S : f[x] = 0
  PROVE  Total(f, S) = 0
<1> DEFINE T == {s \in SUBSET S : Total(f, s) # 0}
<1>1. SUFFICES ASSUME T # {} PROVE FALSE
  <2> HIDE DEF T
  <2>1. S \notin T
    BY <1>1
  <2> QED
    BY <2>1 DEF T
<1>2. PICK s \in T : \A t \in T : t \subseteq s => t = s
  <2> HIDE DEF T
  <2>1. T \subseteq SUBSET S
    BY DEF T
  <2> QED
    BY <1>1, <2>1, SmallestSubset
<1>3. IsFiniteSet(s) /\ s \in SUBSET S /\ s # {}
  BY <1>2, FS_Subset, TotalEmpty
<1>4. Pick(s) \in s /\ Total(f, s) = f[Pick(s)] + Total(f, Rest(s))
  BY <1>3, TotalPick
<1>5. Rest(s) \in SUBSET S /\ Rest(s) # s /\ Rest(s) \subseteq s
  BY <1>3, <1>4 DEF Rest
<1>6. Total(f, Rest(s)) = 0 /\ f[Pick(s)] = 0
  BY <1>2, <1>3, <1>4, <1>5
<1> QED
  BY <1>2, <1>4, <1>6

(* A total of natural numbers is a natural number.                           *)
LEMMA TotalNat ==
  ASSUME NEW S, IsFiniteSet(S), NEW f, \A x \in S : f[x] \in Nat
  PROVE  Total(f, S) \in Nat
<1> DEFINE z == [x \in S |-> 0]
<1>1. \A x \in S : z[x] = 0 /\ z[x] \in Int /\ f[x] \in Int /\ z[x] <= f[x]
  OBVIOUS
<1> HIDE DEF z
<1>2. Total(z, S) = 0
  BY <1>1, TotalZero
<1>3. Total(z, S) <= Total(f, S)
  BY <1>1, TotalLeq
<1>4. Total(f, S) \in Int
  BY <1>1, TotalInt
<1> QED
  BY <1>2, <1>3, <1>4

(* When one of the numbers grows the sum grows by as much.                 *)
LEMMA TotalBump ==
  ASSUME NEW S, IsFiniteSet(S), NEW f, NEW g, NEW x \in S, NEW n \in Int,
         \A y \in S : f[y] \in Int, g[x] = f[x] + n,
         \A y \in S \ {x} : g[y] = f[y]
  PROVE  Total(g, S) = Total(f, S) + n
<1>1. \A y \in S : g[y] \in Int
  OBVIOUS
<1>2. Total(f, S) = f[x] + Total(f, S \ {x})
  BY TotalRemove
<1>3. Total(g, S) = g[x] + Total(g, S \ {x})
  BY <1>1, TotalRemove
<1>4. IsFiniteSet(S \ {x}) /\ \A y \in S \ {x} : f[y] \in Int /\ g[y] = f[y]
  BY FS_Subset
<1>5. Total(g, S \ {x}) = Total(f, S \ {x})
  BY <1>4, TotalSame
<1>6. Total(f, S \ {x}) \in Int
  BY <1>4, TotalInt
<1> QED
  BY <1>2, <1>3, <1>5, <1>6

(* Counting every element once counts the elements.                        *)
LEMMA TotalOnes ==
  ASSUME NEW S, IsFiniteSet(S), NEW f, \A x \in S : f[x] = 1
  PROVE  Total(f, S) = Cardinality(S)
<1> DEFINE T == {s \in SUBSET S : Total(f, s) # Cardinality(s)}
<1>1. SUFFICES ASSUME T # {} PROVE FALSE
  <2> HIDE DEF T
  <2>1. S \notin T
    BY <1>1
  <2> QED
    BY <2>1 DEF T
<1>2. PICK s \in T : \A t \in T : t \subseteq s => t = s
  <2> HIDE DEF T
  <2>1. T \subseteq SUBSET S
    BY DEF T
  <2> QED
    BY <1>1, <2>1, SmallestSubset
<1>3. IsFiniteSet(s) /\ s \in SUBSET S /\ s # {}
  BY <1>2, FS_Subset, FS_EmptySet, TotalEmpty
<1>4. Pick(s) \in s /\ Total(f, s) = f[Pick(s)] + Total(f, Rest(s))
  BY <1>3, TotalPick
<1>5. Rest(s) \in SUBSET S /\ Rest(s) # s /\ Rest(s) \subseteq s
  BY <1>3, <1>4 DEF Rest
<1>6. Total(f, Rest(s)) = Cardinality(Rest(s)) /\ f[Pick(s)] = 1
  BY <1>2, <1>3, <1>4, <1>5
<1>7. Cardinality(Rest(s)) = Cardinality(s) - 1 /\ Cardinality(s) \in Nat
  BY <1>3, <1>4, FS_RemoveElement, FS_CardinalityType DEF Rest
<1> QED
  BY <1>2, <1>4, <1>6, <1>7

-----------------------------------------------------------------------------
(* Lists, and functions defined by recursion over their positions. *)

(* A set of natural numbers that is not empty has a least one.             *)
LEMMA Least ==
  ASSUME NEW S \in SUBSET Nat, S # {}
  PROVE  Min(S) \in S /\ \A y \in S : Min(S) <= y
<1>1. PICK x \in S : \A y \in S : ~(<<y, x>> \in OpToRel(<, Nat))
  BY NatLessThanWellFounded, WFMin, Zenon
<1>2. \A y \in S : ~(y < x)
  BY <1>1 DEF OpToRel
<1>3. \A y \in S : x <= y
  BY <1>2
<1> QED
  BY <1>3, Zenon DEF Min

(* One with an upper bound has a greatest one.                             *)
LEMMA Greatest ==
  ASSUME NEW S \in SUBSET Nat, S # {}, NEW n \in Nat, \A x \in S : x <= n
  PROVE  Max(S) \in S /\ \A y \in S : y <= Max(S)
<1> DEFINE T == {m \in Nat : \A x \in S : x <= m}
<1>1. T \in SUBSET Nat /\ T # {}
  OBVIOUS
<1>2. PICK m \in T : \A y \in T : m <= y
  BY <1>1, Least
<1>3. m \in Nat /\ \A x \in S : x <= m
  BY <1>2
<1>4. m \in S
  <2>1. SUFFICES ASSUME m \notin S PROVE FALSE
    OBVIOUS
  <2>2. \A x \in S : x <= m - 1 /\ x \in Nat
    BY <1>3, <2>1
  <2>3. m - 1 \in Nat
    <3>1. PICK x \in S : TRUE
      OBVIOUS
    <3>2. x \in Nat /\ x <= m - 1
      BY <2>2
    <3> QED
      BY <1>3, <3>2
  <2>4. m - 1 \in T
    BY <2>2, <2>3
  <2> QED
    BY <1>2, <1>3, <2>4
<1>5. \E x \in S : \A y \in S : x >= y
  BY <1>3, <1>4
<1> QED
  BY <1>5 DEF Max

(* What holds at 0 and is handed on holds everywhere.                      *)
LEMMA Along ==
  ASSUME NEW n \in Nat, NEW S, 0 \in S,
         \A i \in 1 .. n : i - 1 \in S => i \in S
  PROVE  \A i \in 0 .. n : i \in S
<1> DEFINE T == {i \in 0 .. n : i \notin S}
<1> SUFFICES ASSUME T # {} PROVE FALSE
  OBVIOUS
<1>1. T \in SUBSET Nat
  OBVIOUS
<1> HIDE DEF T
<1>2. Min(T) \in T /\ \A y \in T : Min(T) <= y
  BY <1>1, Least
<1>3. PICK m \in T : \A y \in T : m <= y
  BY <1>2
<1>4. m \in 0 .. n /\ m \notin S
  BY <1>3 DEF T
<1>5. m \in 1 .. n
  BY <1>4
<1>6. m - 1 \notin S
  BY <1>4, <1>5
<1>7. m - 1 \in T
  BY <1>5, <1>6 DEF T
<1> QED
  BY <1>3, <1>5, <1>7

(* The states a machine F passes through that begins in b.                 *)
Passes(h, F, X, b, n) ==
  /\ h \in [0 .. n -> X] /\ h[0] = b
  /\ \A i \in 1 .. n : h[i] = F[<<i, h[i - 1]>>]

(* A machine that stays in X has such a passage of any length.             *)
LEMMA Recursion ==
  ASSUME NEW X, NEW b \in X, NEW n \in Nat, NEW F,
         \A i \in 1 .. n, x \in X : F[<<i, x>>] \in X
  PROVE  \E h : Passes(h, F, X, b, n)
<1> DEFINE S == {i \in 0 .. n : \E h : Passes(h, F, X, b, i)}
<1>1. 0 \in S
  <2>1. Passes([i \in 0 .. 0 |-> b], F, X, b, 0)
    BY DEF Passes
  <2> QED
    BY <2>1
<1>2. ASSUME NEW i \in 1 .. n, i - 1 \in S PROVE i \in S
  <2>1. PICK h : Passes(h, F, X, b, i - 1)
    BY <1>2
  <2> DEFINE x == F[<<i, h[i - 1]>>]
             g == [j \in 0 .. i |-> IF j = i THEN x ELSE h[j]]
  <2>2. /\ h \in [0 .. i - 1 -> X] /\ h[0] = b
        /\ \A j \in 1 .. i - 1 : h[j] = F[<<j, h[j - 1]>>]
    BY <2>1 DEF Passes
  <2>3. x \in X
    <3>1. h[i - 1] \in X
      BY <2>2
    <3> QED
      BY <3>1
  <2>4. g \in [0 .. i -> X] /\ g[0] = b /\ g[i] = x
    <3> HIDE DEF x
    <3> QED
      BY <2>2, <2>3
  <2>5. \A j \in 0 .. i - 1 : g[j] = h[j]
    BY DEF g
  <2>6. \A j \in 1 .. i : g[j] = F[<<j, g[j - 1]>>]
    <3> SUFFICES ASSUME NEW j \in 1 .. i PROVE g[j] = F[<<j, g[j - 1]>>]
      OBVIOUS
    <3>1. g[j - 1] = h[j - 1]
      BY <2>5
    <3>2. CASE j = i
      BY <2>4, <3>1, <3>2
    <3>3. CASE j # i
      <4>1. j \in 1 .. i - 1 /\ j \in 0 .. i - 1
        BY <3>3
      <4> HIDE DEF g
      <4> QED
        BY <2>2, <2>5, <3>1, <4>1
    <3> QED
      BY <3>2, <3>3
  <2> HIDE DEF g
  <2>7. Passes(g, F, X, b, i)
    BY <2>4, <2>6 DEF Passes
  <2> QED
    BY <2>7
<1> HIDE DEF S
<1>3. n \in S
  BY <1>1, <1>2, Along
<1> QED
  BY <1>3 DEF S

(* There is but one such passage.                                          *)
LEMMA OnePassage ==
  ASSUME NEW n \in Nat, NEW g, NEW h, g[0] = h[0],
         \A i \in 1 .. n : g[i - 1] = h[i - 1] => g[i] = h[i]
  PROVE  \A i \in 0 .. n : g[i] = h[i]
<1> DEFINE S == {i \in 0 .. n : g[i] = h[i]}
<1>1. 0 \in S
  OBVIOUS
<1>2. \A i \in 1 .. n : i - 1 \in S => i \in S
  OBVIOUS
<1> HIDE DEF S
<1>3. \A i \in 0 .. n : i \in S
  BY <1>1, <1>2, Along
<1> QED
  BY <1>3 DEF S

(* The sums of the first 0, 1, ..., n of f.                                *)
Summed(g, f, n) == g = [i \in 0 .. n |-> IF i = 0 THEN 0 ELSE g[i - 1] + f[i]]
Runs(g, f, n) == g[0] = 0 /\ \A i \in 1 .. n : g[i] = g[i - 1] + f[i]

(* There are such sums.                                                    *)
LEMMA SumsExist ==
  ASSUME NEW n \in Nat, NEW f, \A i \in 1 .. n : f[i] \in Int
  PROVE  \E g : Summed(g, f, n) /\ Runs(g, f, n) /\ g \in [0 .. n -> Int]
<1> DEFINE F == [p \in (1 .. n) \X Int |-> p[2] + f[p[1]]]
<1>1. \A i \in 1 .. n, x \in Int : F[<<i, x>>] = x + f[i]
  OBVIOUS
<1> HIDE DEF F
<1>2. \A i \in 1 .. n, x \in Int : F[<<i, x>>] \in Int
  <2>1. \A i \in 1 .. n, x \in Int : x + f[i] \in Int
    OBVIOUS
  <2> QED
    BY <1>1, <2>1, Zenon
<1>3. 0 \in Int
  OBVIOUS
<1>4. PICK g : Passes(g, F, Int, 0, n)
  BY <1>2, <1>3, Recursion
<1>5. /\ g \in [0 .. n -> Int] /\ g[0] = 0
      /\ \A i \in 1 .. n : g[i] = F[<<i, g[i - 1]>>]
  BY <1>4 DEF Passes
<1>6. \A i \in 1 .. n : g[i - 1] \in Int
  BY <1>5
<1>7. \A i \in 1 .. n : g[i] = g[i - 1] + f[i]
  BY <1>1, <1>5, <1>6
<1> DEFINE b(i) == IF i = 0 THEN 0 ELSE g[i - 1] + f[i]
<1>8. ASSUME NEW i \in 0 .. n PROVE g[i] = b(i)
  <2>1. CASE i = 0
    BY <1>5, <2>1
  <2>2. CASE i # 0
    <3>1. i \in 1 .. n
      BY <2>2
    <3> QED
      BY <1>7, <2>2, <3>1
  <2> QED
    BY <2>1, <2>2
<1> HIDE DEF b
<1>9. g = [i \in 0 .. n |-> b(i)]
  BY <1>5, <1>8
<1>10. Summed(g, f, n)
  BY <1>9, Zenon DEF Summed, b
<1>11. Runs(g, f, n)
  BY <1>5, <1>7 DEF Runs
<1> QED
  BY <1>5, <1>10, <1>11

(* Any of them tells what Added is.                                        *)
LEMMA AddedRuns ==
  ASSUME NEW n \in Nat, NEW f, \A i \in 1 .. n : f[i] \in Int,
         NEW g, Runs(g, f, n)
  PROVE  Added(f, n) = g[n]
<1> DEFINE k == CHOOSE h : Summed(h, f, n)
<1>1. Added(f, n) = k[n]
  BY DEF Added, Summed
<1>2. Summed(k, f, n)
  BY SumsExist, Zenon
<1> HIDE DEF k
<1>3. \A i \in 0 .. n : k[i] = IF i = 0 THEN 0 ELSE k[i - 1] + f[i]
  BY <1>2, Zenon DEF Summed
<1>4. k[0] = 0 /\ \A i \in 1 .. n : k[i] = k[i - 1] + f[i]
  <2>1. 0 \in 0 .. n /\ \A i \in 1 .. n : i \in 0 .. n /\ i # 0
    OBVIOUS
  <2> QED
    BY <1>3, <2>1, Zenon
<1>5. \A i \in 0 .. n : k[i] = g[i]
  <2>1. k[0] = g[0] /\ \A i \in 1 .. n : k[i - 1] = g[i - 1] => k[i] = g[i]
    BY <1>4, Zenon DEF Runs
  <2> QED
    BY <2>1, OnePassage
<1>6. n \in 0 .. n
  OBVIOUS
<1> QED
  BY <1>1, <1>5, <1>6

(* One more, the last.                                                     *)
LEMMA AddedSteps ==
  ASSUME NEW n \in Nat, NEW f, \A i \in 1 .. n : f[i] \in Int
  PROVE  /\ Added(f, n) \in Int
         /\ n = 0 => Added(f, n) = 0
         /\ n > 0 => Added(f, n) = Added(f, n - 1) + f[n]
<1>1. PICK g : Runs(g, f, n) /\ g \in [0 .. n -> Int]
  BY SumsExist
<1>2. Added(f, n) = g[n] /\ g[n] \in Int
  BY <1>1, AddedRuns
<1>3. n = 0 => g[n] = 0
  BY <1>1 DEF Runs
<1>4. ASSUME n > 0 PROVE Added(f, n) = Added(f, n - 1) + f[n]
  <2>1. n - 1 \in Nat /\ n \in 1 .. n /\ \A i \in 1 .. n - 1 : i \in 1 .. n
    BY <1>4
  <2>2. Runs(g, f, n - 1) /\ g[n] = g[n - 1] + f[n]
    BY <1>1, <2>1 DEF Runs
  <2>3. \A i \in 1 .. n - 1 : f[i] \in Int
    BY <2>1
  <2>4. Added(f, n - 1) = g[n - 1]
    BY <2>1, <2>2, <2>3, AddedRuns
  <2> QED
    BY <1>2, <2>2, <2>4
<1> QED
  BY <1>2, <1>3, <1>4

(* Lists that begin with the same numbers.                                 *)
LEMMA AddedSame ==
  ASSUME NEW n \in Nat, NEW f, \A i \in 1 .. n : f[i] \in Int,
         NEW g, \A i \in 1 .. n : g[i] = f[i]
  PROVE  Added(g, n) = Added(f, n)
<1>1. PICK h : Runs(h, f, n)
  BY SumsExist
<1>2. Runs(h, g, n)
  BY <1>1 DEF Runs
<1>3. \A i \in 1 .. n : g[i] \in Int
  OBVIOUS
<1> QED
  BY <1>1, <1>2, <1>3, AddedRuns

(* A list that goes on where another ends.                                 *)
LEMMA AddedNext ==
  /\ \A f : Added(f, 0) = 0
  /\ \A n \in Nat : \A f, g :
       (/\ \A i \in 1 .. n : f[i] \in Int /\ g[i] = f[i]
        /\ g[n + 1] \in Int)
         => /\ Added(f, n) \in Int
            /\ Added(g, n + 1) = Added(f, n) + g[n + 1]
<1>1. ASSUME NEW f PROVE Added(f, 0) = 0
  <2>1. 0 \in Nat /\ \A i \in 1 .. 0 : f[i] \in Int
    OBVIOUS
  <2> QED
    BY <2>1, AddedSteps
<1>2. ASSUME NEW n \in Nat, NEW f, NEW g,
             \A i \in 1 .. n : f[i] \in Int /\ g[i] = f[i], g[n + 1] \in Int
      PROVE  /\ Added(f, n) \in Int
             /\ Added(g, n + 1) = Added(f, n) + g[n + 1]
  <2>1. /\ n + 1 \in Nat /\ (n + 1) - 1 = n /\ n + 1 > 0
        /\ \A i \in 1 .. n + 1 : i \in 1 .. n \/ i = n + 1
    OBVIOUS
  <2>2. \A i \in 1 .. n + 1 : g[i] \in Int
    BY <1>2, <2>1
  <2>3. Added(g, n + 1) = Added(g, n) + g[n + 1]
    BY <2>1, <2>2, AddedSteps
  <2>4. Added(g, n) = Added(f, n) /\ Added(f, n) \in Int
    BY <1>2, AddedSame, AddedSteps
  <2> QED
    BY <2>3, <2>4
<1> QED
  BY <1>1, <1>2

=============================================================================
