---------------------------- MODULE EtherTotals ----------------------------
(***************************************************************************)
(* The sum of a ledger: the contracts of src/contracts keep balances in    *)
(* mappings (address or id to wei), and what they promise is about the sum *)
(* of a mapping.  The sum is defined by counting units, one element for    *)
(* each wei of each entry, so that facts about it follow from facts about  *)
(* finite sets; MCECONCreditVault compares it with the usual fold.         *)
(*                                                                         *)
(* The lemmas are what every proof about coin rests on: a sum is a natural *)
(* number, it is 0 when every entry is, and two ledgers that differ in one *)
(* entry have sums that differ by that entry's change.                     *)
(***************************************************************************)
EXTENDS Integers, FiniteSets, FiniteSetTheorems, WellFoundedInduction, TLAPS

\* The individual wei of a ledger: wei number i of the entry of x is <<x, i>>.
Units(f) == UNION {{x} \X (1..f[x]) : x \in DOMAIN f}

\* The sum of the entries of a ledger f \in [S -> Nat] with S finite.
Total(f) == Cardinality(Units(f))

-----------------------------------------------------------------------------

\* The wei of one entry are as many as the entry says.
LEMMA EntryUnits ==
    ASSUME NEW x, NEW n \in Nat
    PROVE  IsFiniteSet({x} \X (1..n)) /\ Cardinality({x} \X (1..n)) = n
<1>1. IsFiniteSet(1..n) /\ Cardinality(1..n) = n
    BY FS_Interval
<1>2. IsFiniteSet({x}) /\ Cardinality({x}) = 1
    BY FS_Singleton
<1>3. QED
    BY <1>1, <1>2, FS_Product

\* A ledger over finitely many keys has finitely many wei.
LEMMA UnitsFinite ==
    ASSUME NEW S, IsFiniteSet(S), NEW f \in [S -> Nat]
    PROVE  IsFiniteSet(Units(f))
<1> DEFINE entry == [x \in S |-> {x} \X (1..f[x])]
           Entries == {{x} \X (1..f[x]) : x \in S}
<1>1. entry \in Surjection(S, Entries)
    BY DEF Surjection
<1>2. IsFiniteSet(Entries)
    BY <1>1, FS_Surjection
<1>3. \A x \in S : IsFiniteSet({x} \X (1..f[x]))
  <2>1. TAKE x \in S
  <2>2. f[x] \in Nat
    OBVIOUS
  <2>3. QED
    BY <2>2, EntryUnits
<1>4. IsFiniteSet(UNION Entries)
  <2>1. \A T \in Entries : IsFiniteSet(T)
    BY <1>3
  <2>2. QED
    BY <1>2, <2>1, FS_UNION
<1>5. QED
    BY <1>4 DEF Units

\* The sum of a ledger is a natural number.
LEMMA TotalIsNat ==
    ASSUME NEW S, IsFiniteSet(S), NEW f \in [S -> Nat]
    PROVE  Total(f) \in Nat
BY UnitsFinite, FS_CardinalityType DEF Total

\* A ledger is one entry and the rest, so its sum is too.
LEMMA TotalSplit ==
    ASSUME NEW S, IsFiniteSet(S), NEW f \in [S -> Nat], NEW a \in S
    PROVE  LET Rest == UNION {{x} \X (1..f[x]) : x \in S \ {a}}
           IN  Cardinality(Rest) \in Nat /\ Total(f) = Cardinality(Rest) + f[a]
<1> DEFINE Rest == UNION {{x} \X (1..f[x]) : x \in S \ {a}}
           Own == {a} \X (1..f[a])
<1>1. Units(f) = Rest \cup Own
    BY DEF Units
<1>2. Rest \cap Own = {}
    OBVIOUS
<1>3. IsFiniteSet(Rest)
    BY <1>1, UnitsFinite, FS_Subset
<1>4. IsFiniteSet(Own) /\ Cardinality(Own) = f[a]
    BY EntryUnits
<1>5. Cardinality(Rest) \in Nat
    BY <1>3, FS_CardinalityType
<1>6. Cardinality({}) = 0
    BY FS_EmptySet
<1>7. Cardinality(Rest \cup Own) = Cardinality(Rest) + f[a] - 0
    BY <1>2, <1>3, <1>4, <1>6, FS_Union
<1>8. QED
    BY <1>1, <1>5, <1>7 DEF Total

\* Changing one entry changes the sum by as much.
LEMMA TotalPoint ==
    ASSUME NEW S, IsFiniteSet(S), NEW f \in [S -> Nat], NEW g \in [S -> Nat],
           NEW a \in S, \A x \in S \ {a} : f[x] = g[x]
    PROVE  Total(g) + f[a] = Total(f) + g[a]
<1> DEFINE RestF == UNION {{x} \X (1..f[x]) : x \in S \ {a}}
           RestG == UNION {{x} \X (1..g[x]) : x \in S \ {a}}
<1>1. RestF = RestG
    OBVIOUS
<1>2. Cardinality(RestF) \in Nat /\ Total(f) = Cardinality(RestF) + f[a]
    BY TotalSplit
<1>3. Total(g) = Cardinality(RestG) + g[a]
    BY TotalSplit
<1> HIDE DEF RestF, RestG
<1>4. QED
    BY <1>1, <1>2, <1>3

\* No entry exceeds the sum.
LEMMA EntryBound ==
    ASSUME NEW S, IsFiniteSet(S), NEW f \in [S -> Nat], NEW a \in S
    PROVE  f[a] <= Total(f)
<1> DEFINE Rest == UNION {{x} \X (1..f[x]) : x \in S \ {a}}
<1>1. Cardinality(Rest) \in Nat /\ Total(f) = Cardinality(Rest) + f[a]
    BY TotalSplit
<1> HIDE DEF Rest
<1>2. QED
    BY <1>1

\* An empty ledger sums to nothing.
LEMMA TotalZero ==
    ASSUME NEW S, NEW f \in [S -> Nat], \A x \in S : f[x] = 0
    PROVE  Total(f) = 0
<1>1. Units(f) = {}
    BY DEF Units
<1>2. QED
    BY <1>1, FS_EmptySet DEF Total


-----------------------------------------------------------------------------
(* The least-number principle, for sets: an induction over the naturals is *)
(* one about the set of the numbers of which the claim is false.           *)

Less == OpToRel(<, Nat)

LEMMA LessIsLess ==
    ASSUME NEW x \in Nat, NEW y \in Nat, y < x
    PROVE  <<y, x>> \in Less
<1>1. <<y, x>> \in Nat \X Nat /\ <<y, x>>[1] < <<y, x>>[2]
    OBVIOUS
<1>2. QED
    BY <1>1, Zenon DEF Less, OpToRel

LEMMA LeastNumber ==
    ASSUME NEW T \in SUBSET Nat, T # {}
    PROVE  \E x \in T : \A y \in T : x <= y
<1>1. IsWellFoundedOn(Less, Nat)
    BY NatLessThanWellFounded, Zenon DEF Less
<1>2. PICK x \in T : \A y \in T : <<y, x>> \notin Less
    BY <1>1, WFMin, Zenon
<1>3. \A y \in T : y \in Nat /\ x \in Nat /\ ~(y < x)
    BY <1>2, LessIsLess
<1>4. QED
    BY <1>3

\* What is bounded has a greatest number.
LEMMA GreatestNumber ==
    ASSUME NEW n \in Nat, NEW T \in SUBSET (0..n), T # {}
    PROVE  \E x \in T : \A y \in T : y <= x
<1> DEFINE Gaps == {n - y : y \in T}
<1>1. \A y \in T : y \in Nat /\ n - y \in Nat
  <2>1. \A y \in T : y \in 0..n
    OBVIOUS
  <2>2. QED
    BY <2>1
<1>2. Gaps \subseteq Nat /\ Gaps # {}
    BY <1>1
<1>3. PICK g \in Gaps : \A h \in Gaps : g <= h
    BY <1>2, LeastNumber
<1>4. PICK x \in T : g = n - x
    BY <1>3
<1>5. \A y \in T : n - x <= n - y
    BY <1>3, <1>4
<1>6. QED
    BY <1>1, <1>5


-----------------------------------------------------------------------------
(* The sums of the community modules are the same sums: they are recursive *)
(* functions on the subsets of a set, and what such a function is worth is *)
(* an induction on the size of the subset.                                 *)

\* What the recursion of a fold that adds up says of its function.
IsSum(iter, S, f) ==
    iter = [s \in SUBSET S |->
              IF s = {} THEN 0
              ELSE f[CHOOSE x \in s : TRUE] + iter[s \ {CHOOSE x \in s : TRUE}]]

LEMMA TotalOfSubset ==
    ASSUME NEW S, IsFiniteSet(S), NEW f \in [S -> Nat], NEW a \in S
    PROVE  Total(f) = f[a] + Total([x \in S \ {a} |-> f[x]])
<1> DEFINE Rest == UNION {{x} \X (1..f[x]) : x \in S \ {a}}
           g == [x \in S \ {a} |-> f[x]]
<1>1. Cardinality(Rest) \in Nat /\ Total(f) = Cardinality(Rest) + f[a]
    BY TotalSplit
<1>2. Units(g) = Rest
  <2>1. DOMAIN g = S \ {a} /\ \A x \in S \ {a} : g[x] = f[x]
    OBVIOUS
  <2>2. Units(g) = UNION {{x} \X (1..g[x]) : x \in S \ {a}}
    BY <2>1 DEF Units
  <2> HIDE DEF g
  <2>3. QED
    BY <2>1, <2>2
<1>3. Total(g) = Cardinality(Rest)
    BY <1>2 DEF Total
<1> HIDE DEF Rest, g
<1>4. f[a] \in Nat
    OBVIOUS
<1>5. Total(f) = f[a] + Total(g)
    BY <1>1, <1>3, <1>4
<1>6. QED
    BY <1>5 DEF g

\* There is such a function: the sums of the subsets.
LEMMA SumsAreSums ==
    ASSUME NEW S, IsFiniteSet(S), NEW f \in [S -> Nat]
    PROVE  IsSum([s \in SUBSET S |-> Total([x \in s |-> f[x]])], S, f)
<1> DEFINE sums == [s \in SUBSET S |-> Total([x \in s |-> f[x]])]
           first(s) == CHOOSE x \in s : TRUE
<1>1. ASSUME NEW s \in SUBSET S
      PROVE  Total([x \in s |-> f[x]]) =
                IF s = {} THEN 0 ELSE f[first(s)] + sums[s \ {first(s)}]
  <2>1. CASE s = {}
    <3>1. Total([x \in s |-> f[x]]) = 0
      BY <2>1, TotalZero
    <3>2. QED
      BY <2>1, <3>1
  <2>2. CASE s # {}
    <3> DEFINE part == [x \in s |-> f[x]]
    <3>1. IsFiniteSet(s) /\ part \in [s -> Nat]
      BY FS_Subset
    <3>2. first(s) \in s
      BY <2>2
    <3> DEFINE a == first(s)
    <3>3. a \in s
      BY <3>2
    <3>4. part[a] = f[a] /\ [x \in s \ {a} |-> part[x]] = [x \in s \ {a} |-> f[x]]
      BY <3>3
    <3>5. sums[s \ {a}] = Total([x \in s \ {a} |-> f[x]])
      OBVIOUS
    <3>6. Total(part) = part[a] + Total([x \in s \ {a} |-> part[x]])
      <4> HIDE DEF part, a, sums
      <4>1. QED
        BY <3>1, <3>3, TotalOfSubset
    <3>7. Total(part) = f[a] + sums[s \ {a}]
      <4> HIDE DEF part, a, sums
      <4>1. QED
        BY <3>4, <3>5, <3>6
    <3>8. QED
      BY <2>2, <3>7
  <2>3. QED
    BY <2>1, <2>2
<1>2. sums = [s \in SUBSET S |->
                IF s = {} THEN 0 ELSE f[first(s)] + sums[s \ {first(s)}]]
    <2>1. \A s \in SUBSET S : sums[s] = IF s = {} THEN 0 ELSE f[first(s)] + sums[s \ {first(s)}]
      BY <1>1
    <2>2. sums = [s \in SUBSET S |-> sums[s]]
      OBVIOUS
    <2> HIDE DEF sums
    <2>3. QED
      BY <2>1, <2>2
<1>3. QED
    BY <1>2 DEF IsSum

\* And it is the only one.
LEMMA SumIsTotal ==
    ASSUME NEW S, IsFiniteSet(S), NEW f \in [S -> Nat],
           NEW iter, IsSum(iter, S, f)
    PROVE  iter[S] = Total(f)
<1> DEFINE sums == [s \in SUBSET S |-> Total([x \in s |-> f[x]])]
           first(s) == CHOOSE x \in s : TRUE
           wrong == {Cardinality(s) : s \in {s \in SUBSET S : iter[s] # sums[s]}}
<1>1. IsSum(sums, S, f)
    BY SumsAreSums
<1>2. ASSUME NEW g, IsSum(g, S, f), NEW s \in SUBSET S
      PROVE  g[s] = IF s = {} THEN 0 ELSE f[first(s)] + g[s \ {first(s)}]
    BY <1>2 DEF IsSum
<1>3. wrong = {}
  <2>1. SUFFICES ASSUME wrong # {} PROVE FALSE
    OBVIOUS
  <2>2. \A s \in SUBSET S : IsFiniteSet(s) /\ Cardinality(s) \in Nat
    BY FS_Subset, FS_CardinalityType
  <2>3. wrong \in SUBSET Nat
    BY <2>2
  <2>4. PICK n \in wrong : \A m \in wrong : n <= m
    <3> HIDE DEF wrong
    <3>1. QED
      BY <2>1, <2>3, LeastNumber
  <2>5. PICK s \in SUBSET S : iter[s] # sums[s] /\ n = Cardinality(s)
    BY <2>4
  <2> HIDE DEF sums
  <2>6. s # {}
    BY <1>1, <1>2, <2>5
  <2>7. first(s) \in s
    BY <2>6
  <2> DEFINE a == first(s)
  <2>8. a \in s /\ s \ {a} \in SUBSET S
    BY <2>7
  <2>9. iter[s] = f[a] + iter[s \ {a}] /\ sums[s] = f[a] + sums[s \ {a}]
    BY <1>1, <1>2, <2>6
  <2> HIDE DEF a
  <2>10. iter[s \ {a}] # sums[s \ {a}]
    BY <2>5, <2>9
  <2>11. Cardinality(s \ {a}) \in wrong
    BY <2>8, <2>10
  <2>12. Cardinality(s \ {a}) = Cardinality(s) - 1
    BY <2>2, <2>8, FS_RemoveElement
  <2> HIDE DEF wrong
  <2>13. n <= Cardinality(s \ {a}) /\ n \in Nat
    BY <2>3, <2>4, <2>11
  <2>14. QED
    BY <2>5, <2>12, <2>13
<1>4. iter[S] = sums[S]
  <2> HIDE DEF sums
  <2>1. ASSUME iter[S] # sums[S] PROVE FALSE
    <3>1. S \in SUBSET S
      OBVIOUS
    <3>2. Cardinality(S) \in wrong
      BY <2>1, <3>1
    <3>3. QED
      BY <1>3, <3>2
  <2>2. QED
    BY <2>1
<1>5. sums[S] = Total([x \in S |-> f[x]]) /\ [x \in S |-> f[x]] = f
    OBVIOUS
<1>6. QED
    BY <1>4, <1>5

\* A ledger with smaller entries has a smaller sum.
LEMMA TotalBelow ==
    ASSUME NEW S, IsFiniteSet(S), NEW f \in [S -> Nat], NEW g \in [S -> Nat],
           \A x \in S : f[x] <= g[x]
    PROVE  Total(f) <= Total(g)
<1>1. Units(f) \subseteq Units(g)
  <2>1. \A x \in S : 1..f[x] \subseteq 1..g[x]
    OBVIOUS
  <2>2. Units(f) = UNION {{x} \X (1..f[x]) : x \in S}
        /\ Units(g) = UNION {{x} \X (1..g[x]) : x \in S}
    BY DEF Units
  <2>3. \A x \in S : {x} \X (1..f[x]) \subseteq {x} \X (1..g[x])
    BY <2>1
  <2>4. QED
    BY <2>2, <2>3
<1>2. QED
    BY <1>1, UnitsFinite, FS_Subset DEF Total

\* What is left out of a sum may as well be nothing.
LEMMA TotalRestricted ==
    ASSUME NEW S, NEW f \in [S -> Nat], NEW T \in SUBSET S,
           \A x \in S \ T : f[x] = 0
    PROVE  Total([x \in T |-> f[x]]) = Total(f)
<1> DEFINE g == [x \in T |-> f[x]]
<1>1. \A x \in S \ T : 1..f[x] = {}
    OBVIOUS
<1>2. Units(f) = UNION {{x} \X (1..f[x]) : x \in S}
    BY DEF Units
<1>3. Units(g) = UNION {{x} \X (1..f[x]) : x \in T}
    BY DEF Units
<1>4. Units(f) = Units(g)
  <2> HIDE DEF g
  <2>1. QED
    BY <1>1, <1>2, <1>3
<1>5. QED
    BY <1>4 DEF Total


-----------------------------------------------------------------------------
(* JavaScript numbers: whole amounts as the programs off the chain compute *)
(* with them.  Every integer up to exact is a number; beyond, numbers are  *)
(* one of the spacings apart, the farther the greater they are.            *)

\* How far apart the numbers around n are: 1 up to exact, 2 up to twice as
\* much and so on.
SpacingOf(n, exact, spacings) ==
    LET fitting == {u \in spacings : u = 1 \/ exact * u < 2 * n}
    IN  CHOOSE u \in fitting : \A v \in fitting : v <= u

\* The number nearest to n; a tie goes to the one with the even significand, a
\* multiple of twice the spacing.
NearestNumber(n, exact, spacings) ==
    LET u == SpacingOf(n, exact, spacings)
        past == n % (2 * u)
    IN  (n - past) + CASE 2 * past <= u -> 0
                       [] u < 2 * past /\ 2 * past < 3 * u -> u
                       [] OTHER -> 2 * u

LEMMA SpacingType ==
    ASSUME NEW n \in Nat, NEW exact \in Nat \ {0},
           NEW spacings \in SUBSET (Nat \ {0}), 1 \in spacings
    PROVE  /\ SpacingOf(n, exact, spacings) \in spacings
           /\ n <= exact => SpacingOf(n, exact, spacings) = 1
<1> DEFINE fitting == {u \in spacings : u = 1 \/ exact * u < 2 * n}
<1>1. 1 \in fitting
    OBVIOUS
<1>2. ASSUME NEW u \in fitting
      PROVE  /\ u \in Nat \ {0} /\ u \in 0..(2 * n + 1)
             /\ n <= exact => u = 1
  <2>1. u \in Nat \ {0} /\ (u = 1 \/ exact * u < 2 * n)
    OBVIOUS
  <2>2. exact * u >= u
    BY <2>1
  <2>3. u # 1 => exact * u >= exact * 2
    BY <2>1
  <2>4. QED
    BY <2>1, <2>2, <2>3
<1>3. PICK u \in fitting : \A v \in fitting : v <= u
  <2>1. fitting \in SUBSET (0..(2 * n + 1)) /\ fitting # {}
    BY <1>1, <1>2
  <2>2. 2 * n + 1 \in Nat
    OBVIOUS
  <2>3. QED
    BY <2>1, <2>2, GreatestNumber
<1>4. SpacingOf(n, exact, spacings) \in fitting
    BY <1>3 DEF SpacingOf
<1>5. QED
    BY <1>2, <1>4

\* A number is what it stands for, as far as numbers are exact, and otherwise
\* at most half a spacing off.
LEMMA NumberIsClose ==
    ASSUME NEW n \in Nat, NEW exact \in Nat \ {0},
           NEW spacings \in SUBSET (Nat \ {0}), 1 \in spacings
    PROVE  LET u == SpacingOf(n, exact, spacings)
               number == NearestNumber(n, exact, spacings)
           IN  /\ number \in Nat
               /\ -u <= 2 * (number - n) /\ 2 * (number - n) <= u
               /\ n <= exact => number = n
<1> DEFINE u == SpacingOf(n, exact, spacings)
           past == n % (2 * u)
           number == NearestNumber(n, exact, spacings)
<1>1. u \in Nat \ {0} /\ (n <= exact => u = 1)
    BY SpacingType
<1>2. past \in 0..(2 * u - 1) /\ past <= n
  <2>1. \A m \in Nat \ {0} : n % m \in 0..(m - 1) /\ n % m <= n
    OBVIOUS
  <2>2. QED
    BY <1>1, <2>1
<1>3. \/ 2 * past <= u /\ number = n - past
      \/ u < 2 * past /\ 2 * past < 3 * u /\ number = n - past + u
      \/ 3 * u <= 2 * past /\ number = n - past + 2 * u
  <2>1. CASE 2 * past <= u
    BY <1>1, <1>2, <2>1 DEF NearestNumber
  <2>2. CASE u < 2 * past /\ 2 * past < 3 * u
    BY <1>1, <1>2, <2>2 DEF NearestNumber
  <2>3. CASE 3 * u <= 2 * past
    BY <1>1, <1>2, <2>3 DEF NearestNumber
  <2>4. QED
    BY <1>1, <1>2, <2>1, <2>2, <2>3
<1> HIDE DEF u, past, number
<1>4. /\ number \in Nat
      /\ -u <= 2 * (number - n) /\ 2 * (number - n) <= u
    BY <1>1, <1>2, <1>3
<1>5. n <= exact => number = n
    BY <1>1, <1>4
<1>6. QED
    BY <1>4, <1>5 DEF u, number

-----------------------------------------------------------------------------
(* Sums that are rounded at every addition.                                *)

\* What the recursion of such a fold says of its function: add says what an
\* element makes of the sum of the others.
IsFold(iter, S, add) ==
    iter = [s \in SUBSET S |->
              IF s = {} THEN 0
              ELSE add[<<CHOOSE x \in s : TRUE,
                         iter[s \ {CHOOSE x \in s : TRUE}]>>]]

\* There is such a function: what is right for the smaller subsets can be made
\* right for the next larger ones.
LEMMA FoldExists ==
    ASSUME NEW S, IsFiniteSet(S), NEW add \in [S \X Nat -> Nat]
    PROVE  \E iter \in [SUBSET S -> Nat] : IsFold(iter, S, add)
<1> DEFINE first(s) == CHOOSE x \in s : TRUE
           Small(n) == {s \in SUBSET S : Cardinality(s) <= n}
           Next(g, s) == IF s = {} THEN 0 ELSE add[<<first(s), g[s \ {first(s)}]>>]
           Right(n) == {g \in [SUBSET S -> Nat] : \A s \in Small(n) : g[s] = Next(g, s)}
           wrong == {n \in Nat : Right(n) = {}}
<1>1. ASSUME NEW g \in [SUBSET S -> Nat], NEW s \in SUBSET S
      PROVE  Next(g, s) \in Nat
  <2>1. CASE s # {}
    <3>1. first(s) \in S /\ s \ {first(s)} \in SUBSET S
      BY <2>1
    <3>2. <<first(s), g[s \ {first(s)}]>> \in S \X Nat
      BY <3>1
    <3> HIDE DEF first
    <3>3. QED
      BY <2>1, <3>2
  <2>2. QED
    BY <2>1
<1>2. ASSUME NEW s \in SUBSET S, s # {}
      PROVE  /\ s \ {first(s)} \in SUBSET S
             /\ Cardinality(s) \in Nat
             /\ Cardinality(s \ {first(s)}) = Cardinality(s) - 1
  <2>1. first(s) \in s
    BY <1>2
  <2>2. IsFiniteSet(s)
    BY FS_Subset
  <2> HIDE DEF first
  <2>3. QED
    BY <2>1, <2>2, FS_RemoveElement, FS_CardinalityType
<1>3. wrong = {}
  <2>1. SUFFICES ASSUME wrong # {} PROVE FALSE
    OBVIOUS
  <2>2. PICK n \in wrong : \A m \in wrong : n <= m
    <3>1. wrong \in SUBSET Nat
      OBVIOUS
    <3> HIDE DEF wrong
    <3>2. QED
      BY <2>1, <3>1, LeastNumber
  <2>3. n \in Nat /\ Right(n) = {}
    OBVIOUS
  <2>4. CASE n = 0
    <3> DEFINE g == [s \in SUBSET S |-> 0]
    <3>1. \A s \in Small(0) : s = {}
      BY FS_Subset, FS_EmptySet, FS_CardinalityType
    <3>2. g \in Right(0)
      BY <3>1
    <3>3. QED
      BY <2>3, <2>4, <3>2
  <2>5. CASE n # 0
    <3>1. n - 1 \in Nat /\ n - 1 \notin wrong
      <4> HIDE DEF wrong
      <4>1. QED
        BY <2>2, <2>3, <2>5
    <3>2. PICK g \in Right(n - 1) : TRUE
      BY <3>1
    <3> DEFINE h == [s \in SUBSET S |-> Next(g, s)]
    <3>3. h \in [SUBSET S -> Nat]
      <4> HIDE DEF Next
      <4>1. QED
        BY <1>1, <3>2
    <3>4. ASSUME NEW s \in Small(n) PROVE h[s] = Next(h, s)
      <4>1. CASE s # {}
        <5> DEFINE rest == s \ {first(s)}
        <5>1. rest \in SUBSET S /\ Cardinality(rest) = Cardinality(s) - 1
              /\ Cardinality(s) \in Nat /\ Cardinality(s) <= n
          BY <1>2, <4>1
        <5>2. rest \in Small(n - 1)
          <6> HIDE DEF rest
          <6>1. QED
            BY <2>3, <5>1
        <5>3. g[rest] = Next(g, rest) /\ h[rest] = Next(g, rest)
          <6> HIDE DEF rest, Next
          <6>1. QED
            BY <3>2, <5>1, <5>2
        <5>4. h[s] = Next(g, s)
          OBVIOUS
        <5>5. Next(g, s) = add[<<first(s), g[rest]>>]
              /\ Next(h, s) = add[<<first(s), h[rest]>>]
          BY <4>1
        <5> HIDE DEF rest, Next, h
        <5>6. QED
          BY <5>3, <5>4, <5>5
      <4>2. CASE s = {}
        BY <4>2
      <4>3. QED
        BY <4>1, <4>2
    <3>5. h \in Right(n)
      <4> HIDE DEF h, Next
      <4>1. QED
        BY <3>3, <3>4
    <3>6. QED
      BY <2>3, <3>5
  <2>6. QED
    BY <2>4, <2>5
<1>4. Cardinality(S) \in Nat /\ Small(Cardinality(S)) = SUBSET S
  <2>1. \A s \in SUBSET S : Cardinality(s) <= Cardinality(S)
    BY FS_Subset
  <2>2. QED
    BY <2>1, FS_CardinalityType
<1>5. PICK iter \in Right(Cardinality(S)) : TRUE
  <2> HIDE DEF Right
  <2>1. Cardinality(S) \notin wrong
    BY <1>3
  <2>2. QED
    BY <1>4, <2>1
<1>6. iter \in [SUBSET S -> Nat] /\ \A s \in SUBSET S : iter[s] = Next(iter, s)
  <2> HIDE DEF Small, Next
  <2>1. QED
    BY <1>4, <1>5
<1>7. iter = [s \in SUBSET S |-> Next(iter, s)]
  <2> HIDE DEF Next
  <2>1. QED
    BY <1>6
<1>8. IsFold(iter, S, add)
  <2> HIDE DEF Small, Right, wrong
  <2>1. QED
    BY <1>7 DEF IsFold
<1>9. QED
    BY <1>6, <1>8

\* Adding an entry of f is at most c off, and the fold adds them up.
AddsClosely(add, S, f, c) ==
    \A a \in S, y \in Nat : /\ add[<<a, y>>] <= f[a] + y + c
                           /\ f[a] + y <= add[<<a, y>>] + c
AddsUp(iter, S, add) ==
    /\ iter[{}] = 0
    /\ \A s \in SUBSET S :
          LET first == CHOOSE x \in s : TRUE
          IN  s # {} /\ iter[s \ {first}] \in Nat =>
                  iter[s] = add[<<first, iter[s \ {first}]>>]

IsNear(sum, total, off) ==
    sum \in Nat /\ sum <= total + off /\ total <= sum + off

\* Then it is at most c for each element away from the sum.
LEMMA FoldDrifts ==
    ASSUME NEW S, IsFiniteSet(S), NEW f \in [S -> Nat], NEW c \in Nat,
           NEW add \in [S \X Nat -> Nat], AddsClosely(add, S, f, c),
           NEW iter, AddsUp(iter, S, add)
    PROVE  IsNear(iter[S], Total(f), c * Cardinality(S))
<1> DEFINE first(s) == CHOOSE x \in s : TRUE
           sums == [s \in SUBSET S |-> Total([x \in s |-> f[x]])]
           Near(s) == /\ iter[s] \in Nat /\ sums[s] \in Nat
                      /\ iter[s] <= sums[s] + c * Cardinality(s)
                      /\ sums[s] <= iter[s] + c * Cardinality(s)
           wrong == {Cardinality(s) : s \in {s \in SUBSET S : ~Near(s)}}
<1>1. IsSum(sums, S, f)
    BY SumsAreSums
<1>2. ASSUME NEW s \in SUBSET S
      PROVE  /\ sums[s] = IF s = {} THEN 0 ELSE f[first(s)] + sums[s \ {first(s)}]
             /\ s = {} => iter[s] = 0
             /\ s # {} /\ iter[s \ {first(s)}] \in Nat =>
                   iter[s] = add[<<first(s), iter[s \ {first(s)}]>>]
  <2> HIDE DEF sums
  <2>1. QED
    BY <1>1 DEF IsSum, AddsUp
<1>3. \A s \in SUBSET S : IsFiniteSet(s) /\ Cardinality(s) \in Nat
    BY FS_Subset, FS_CardinalityType
<1> HIDE DEF sums
<1>4. wrong = {}
  <2>1. SUFFICES ASSUME wrong # {} PROVE FALSE
    OBVIOUS
  <2>2. wrong \in SUBSET Nat
    BY <1>3
  <2>3. PICK n \in wrong : \A m \in wrong : n <= m
    <3> HIDE DEF wrong
    <3>1. QED
      BY <2>1, <2>2, LeastNumber
  <2>4. PICK s \in SUBSET S : ~Near(s) /\ n = Cardinality(s)
    BY <2>3
  <2>5. CASE s = {}
    <3>1. iter[s] = 0 /\ sums[s] = 0 /\ Cardinality(s) = 0
      BY <1>2, <2>5, FS_EmptySet
    <3>2. QED
      BY <2>4, <3>1
  <2>6. CASE s # {}
    <3> DEFINE a == first(s)
               rest == s \ {a}
    <3>1. a \in s
      BY <2>6
    <3>2. /\ sums[s] = f[a] + sums[rest]
          /\ iter[rest] \in Nat => iter[s] = add[<<a, iter[rest]>>]
      BY <1>2, <2>6
    <3> HIDE DEF first, a
    <3>3. rest \in SUBSET S /\ Cardinality(rest) = Cardinality(s) - 1
      BY <1>3, <3>1, FS_RemoveElement
    <3> HIDE DEF rest
    <3>4. Near(rest)
      <4>1. CASE ~Near(rest)
        <5>1. Cardinality(rest) \in wrong
          BY <3>3, <4>1
        <5> HIDE DEF wrong, Near
        <5>2. QED
          BY <1>3, <2>3, <2>4, <3>3, <5>1
      <4>2. QED
        BY <4>1
    <3> DEFINE off == c * Cardinality(rest)
    <3>5. off \in Nat /\ c * Cardinality(s) = off + c
      <4>1. Cardinality(rest) \in Nat /\ Cardinality(s) = Cardinality(rest) + 1
        BY <1>3, <3>3
      <4>2. \A m \in Nat : c * m \in Nat /\ c * (m + 1) = c * m + c
        OBVIOUS
      <4>3. c * Cardinality(rest) \in Nat
            /\ c * (Cardinality(rest) + 1) = c * Cardinality(rest) + c
        BY <4>1, <4>2
      <4>4. QED
        BY <4>1, <4>3
    <3>6. /\ iter[rest] \in Nat /\ sums[rest] \in Nat
          /\ iter[rest] <= sums[rest] + off /\ sums[rest] <= iter[rest] + off
      BY <3>4
    <3>7. a \in S /\ f[a] \in Nat
      BY <3>1
    <3>8. /\ iter[s] \in Nat
          /\ iter[s] <= f[a] + iter[rest] + c /\ f[a] + iter[rest] <= iter[s] + c
      <4>1. <<a, iter[rest]>> \in S \X Nat
        BY <3>6, <3>7
      <4>2. QED
        BY <3>2, <3>6, <3>7, <4>1 DEF AddsClosely
    <3> HIDE DEF off
    <3>9. /\ iter[s] <= sums[s] + (off + c) /\ sums[s] <= iter[s] + (off + c)
          /\ sums[s] \in Nat
      BY <3>2, <3>5, <3>6, <3>7, <3>8
    <3>10. Near(s)
      BY <3>5, <3>8, <3>9
    <3>11. QED
      BY <2>4, <3>10
  <2>7. QED
    BY <2>5, <2>6
<1>5. Near(S)
  <2>1. CASE ~Near(S)
    <3>1. Cardinality(S) \in wrong
      BY <2>1
    <3>2. QED
      BY <1>4, <3>1
  <2>2. QED
    BY <2>1
<1>6. sums[S] = Total(f)
  <2>1. sums[S] = Total([x \in S |-> f[x]]) /\ [x \in S |-> f[x]] = f
    BY DEF sums
  <2>2. QED
    BY <2>1
<1>7. QED
    BY <1>5, <1>6 DEF IsNear

=============================================================================
