---------------------------- MODULE FiniteLemmas -----------------------------
(* Finite sets: induction over them, the greatest of their elements, and    *)
(* what the sums of a function over them obey (a column over the rows of a  *)
(* table).                                                                  *)
EXTENDS Integers, Functions, FiniteSets, FiniteSetTheorems, WellFoundedInduction, TLAPS

(* A property of finite sets that fails at all fails at a set that loses    *)
(* the failure with any of its elements: induction, with a set of           *)
(* counterexamples in the place of a predicate.                             *)
LEMMA SmallestCounterexample ==
  ASSUME NEW U, IsFiniteSet(U), NEW Bad \in SUBSET (SUBSET U), Bad # {}
  PROVE  \E s \in Bad : \A x \in s : s \ {x} \notin Bad
<1> DEFINE Sizes == {n \in Nat : \E s \in Bad : Cardinality(s) = n}
<1>1. \A s \in Bad : IsFiniteSet(s) /\ Cardinality(s) \in Nat
  BY FS_Subset, FS_CardinalityType
<1>2. Sizes # {} /\ Sizes \subseteq Nat
  BY <1>1
<1> DEFINE Less == {ss \in Nat \X Nat : ss[1] < ss[2]}
<1>3. IsWellFoundedOn(Less, Nat)
  BY NatLessThanWellFounded DEF OpToRel
<1>4. PICK n \in Sizes : \A m \in Sizes : ~ (m < n)
  <2>1. PICK n \in Sizes : \A m \in Sizes : <<m, n>> \notin Less
    <3> HIDE DEF Sizes, Less
    <3> QED  BY <1>2, <1>3, WFMin
  <2> QED  BY <1>2, <2>1
<1>5. PICK s \in Bad : Cardinality(s) = n
  OBVIOUS
<1>6. ASSUME NEW x \in s, s \ {x} \in Bad PROVE FALSE
  <2>1. Cardinality(s \ {x}) = n - 1
    BY <1>1, <1>5, FS_RemoveElement
  <2>2. n - 1 \in Sizes
    BY <1>1, <1>6, <2>1
  <2>3. n - 1 < n
    BY <1>2
  <2> QED  BY <1>4, <2>2, <2>3
<1> QED  BY <1>6

(* Some element is the greatest, by whatever is compared.                   *)
LEMMA Greatest ==
  ASSUME NEW f, NEW S, IsFiniteSet(S), S # {}, \A x \in S : f[x] \in Int
  PROVE  \E x \in S : \A y \in S : f[y] <= f[x]
<1> DEFINE Bad == {s \in SUBSET S : s # {} /\ ~ \E x \in s : \A y \in s : f[y] <= f[x]}
<1> SUFFICES ASSUME Bad # {} PROVE FALSE
  OBVIOUS
<1>1. PICK s \in Bad : \A x \in s : s \ {x} \notin Bad
  <2> HIDE DEF Bad
  <2>1. Bad \in SUBSET (SUBSET S)
    BY DEF Bad
  <2> QED  BY <2>1, SmallestCounterexample
<1>2. PICK z \in s : TRUE
  OBVIOUS
<1>3. CASE s = {z}
  <2>1. f[z] <= f[z]
    BY <1>2
  <2> QED  BY <1>3, <2>1
<1>4. CASE s # {z}
  <2>1. PICK x \in s \ {z} : \A y \in s \ {z} : f[y] <= f[x]
    BY <1>1, <1>2, <1>4
  <2>2. CASE f[z] <= f[x]
    BY <2>1, <2>2
  <2>3. CASE ~ (f[z] <= f[x])
    <3>1. f[x] <= f[z] /\ f[z] <= f[z]
      BY <1>2, <2>1, <2>3
    <3>2. \A y \in s : f[y] <= f[z]
      BY <1>2, <2>1, <3>1
    <3> QED  BY <1>2, <3>2
  <2> QED  BY <2>2, <2>3
<1> QED  BY <1>3, <1>4

LEMMA GreatestNumber ==
  ASSUME NEW S \in SUBSET Int, IsFiniteSet(S), S # {}
  PROVE  \E x \in S : \A y \in S : x >= y
<1> DEFINE f == [x \in S |-> x]
<1>1. \E x \in S : \A y \in S : f[y] <= f[x]
  <2>1. \A x \in S : f[x] \in Int
    OBVIOUS
  <2> HIDE DEF f
  <2> QED  BY <2>1, Greatest
<1> QED  BY <1>1

LEMMA SmallestNumber ==
  ASSUME NEW S \in SUBSET Int, IsFiniteSet(S), S # {}
  PROVE  \E x \in S : \A y \in S : x <= y
<1> DEFINE f == [x \in S |-> 0 - x]
<1>1. \E x \in S : \A y \in S : f[y] <= f[x]
  <2>1. \A x \in S : f[x] \in Int
    OBVIOUS
  <2> HIDE DEF f
  <2> QED  BY <2>1, Greatest
<1> QED  BY <1>1

-----------------------------------------------------------------------------
Pick(s) == CHOOSE x \in s : TRUE

(* The table of partial sums that SumFunctionOnSet looks up.                *)
IsTable(f, S, it) ==
  it = [s \in SUBSET S |-> IF s = {} THEN 0 ELSE f[Pick(s)] + it[s \ {Pick(s)}]]

LEMMA SumIsLookedUp ==
  ASSUME NEW f, NEW S
  PROVE  SumFunctionOnSet(f, S) = (CHOOSE it : IsTable(f, S, it))[S]
BY DEF SumFunctionOnSet, FoldFunctionOnSet, MapThenFoldSet, IsTable, Pick

LEMMA PickIsIn == ASSUME NEW s, s # {} PROVE Pick(s) \in s
BY DEF Pick

(* A table for a set is one for its subsets, and there is only one.         *)
LEMMA OneTable ==
  ASSUME NEW f, NEW S, IsFiniteSet(S), NEW T, IsFiniteSet(T),
         NEW it, IsTable(f, S, it), NEW jt, IsTable(f, T, jt)
  PROVE  \A s \in SUBSET (S \cap T) : it[s] = jt[s]
<1> DEFINE Bad == {s \in SUBSET (S \cap T) : it[s] # jt[s]}
<1> SUFFICES ASSUME Bad # {} PROVE FALSE
  OBVIOUS
<1>1. IsFiniteSet(S \cap T)
  BY FS_Intersection
<1>2. PICK s \in Bad : \A x \in s : s \ {x} \notin Bad
  <2> HIDE DEF Bad
  <2>1. Bad \in SUBSET (SUBSET (S \cap T))
    BY DEF Bad
  <2> QED  BY <1>1, <2>1, SmallestCounterexample
<1>3. /\ it[s] = IF s = {} THEN 0 ELSE f[Pick(s)] + it[s \ {Pick(s)}]
      /\ jt[s] = IF s = {} THEN 0 ELSE f[Pick(s)] + jt[s \ {Pick(s)}]
  BY DEF IsTable
<1>4. CASE s = {}
  BY <1>3, <1>4
<1>5. CASE s # {}
  <2>1. it[s \ {Pick(s)}] = jt[s \ {Pick(s)}]
    BY <1>2, <1>5, PickIsIn
  <2> QED  BY <1>3, <1>5, <2>1
<1> QED  BY <1>4, <1>5

(* Tables for the smaller sets make one for S.                              *)
LEMMA TableExists ==
  ASSUME NEW f, NEW U, IsFiniteSet(U)
  PROVE  \E it : IsTable(f, U, it)
<1> DEFINE Bad == {S \in SUBSET U : ~ \E it : IsTable(f, S, it)}
<1> SUFFICES ASSUME Bad # {} PROVE FALSE
  OBVIOUS
<1>1. PICK S \in Bad : \A x \in S : S \ {x} \notin Bad
  <2> HIDE DEF Bad
  <2>1. Bad \in SUBSET (SUBSET U)
    BY DEF Bad
  <2> QED  BY <2>1, SmallestCounterexample
<1>2. IsFiniteSet(S) /\ \A T \in SUBSET S : IsFiniteSet(T)
  BY FS_Subset
<1> DEFINE table(x) == CHOOSE it : IsTable(f, S \ {x}, it)
           low(s) == table(CHOOSE x \in S : x \notin s)[s]
<1>3. ASSUME NEW x \in S PROVE IsTable(f, S \ {x}, table(x))
  BY <1>1
<1>4. ASSUME NEW s \in SUBSET S, s # S, NEW x \in S, x \notin s
      PROVE  low(s) = table(x)[s]
  <2> DEFINE y == CHOOSE z \in S : z \notin s
  <2>1. y \in S /\ y \notin s
    BY <1>4
  <2>2. IsTable(f, S \ {x}, table(x)) /\ IsTable(f, S \ {y}, table(y))
    BY <1>3, <2>1
  <2>3. IsFiniteSet(S \ {x}) /\ IsFiniteSet(S \ {y})
    BY <1>2
  <2>4. s \in SUBSET ((S \ {y}) \cap (S \ {x}))
    BY <1>4, <2>1
  <2> HIDE DEF y, table
  <2>5. table(y)[s] = table(x)[s]
    BY <2>2, <2>3, <2>4, OneTable
  <2> QED  BY <2>5 DEF y
<1>5. ASSUME NEW s \in SUBSET S, s # S, s # {}
      PROVE  low(s) = f[Pick(s)] + low(s \ {Pick(s)})
  <2>1. PICK x \in S : x \notin s
    BY <1>5
  <2> DEFINE rest == s \ {Pick(s)}
  <2>2. rest \in SUBSET S /\ rest # S /\ x \notin rest
    BY <2>1
  <2> HIDE DEF low, table, rest
  <2>3. low(s) = table(x)[s]
    BY <1>4, <1>5, <2>1
  <2>4. low(rest) = table(x)[rest]
    BY <1>4, <2>1, <2>2
  <2>5. table(x)[s] = f[Pick(s)] + table(x)[rest]
    <3> DEFINE it == table(x)
    <3>1. IsTable(f, S \ {x}, it)
      BY <1>3
    <3>2. s \in SUBSET (S \ {x})
      BY <1>5, <2>1
    <3> HIDE DEF it
    <3>3. it[s] = f[Pick(s)] + it[rest]
      BY <1>5, <3>1, <3>2 DEF IsTable, rest
    <3> QED  BY <3>3 DEF it
  <2> QED  BY <2>3, <2>4, <2>5 DEF rest
<1> DEFINE it == [s \in SUBSET S |-> IF s = {} THEN 0 ELSE f[Pick(s)] + low(s \ {Pick(s)})]
<1>6. ASSUME NEW s \in SUBSET S, s # S PROVE low(s) = it[s]
  <2>1. CASE s # {}
    <3> HIDE DEF low
    <3> QED  BY <1>5, <1>6, <2>1
  <2>2. CASE s = {}
    <3>1. PICK x \in S : TRUE
      BY <1>6, <2>2
    <3> HIDE DEF low, table
    <3>2. low(s) = table(x)[s]
      BY <1>4, <1>6, <2>2, <3>1
    <3>3. table(x)[s] = 0
      BY <1>3, <2>2, <3>1 DEF IsTable
    <3> QED  BY <2>2, <3>2, <3>3
  <2> QED  BY <2>1, <2>2
<1>7. IsTable(f, S, it)
  <2>1. \A s \in SUBSET S : s # {} => low(s \ {Pick(s)}) = it[s \ {Pick(s)}]
    <3> HIDE DEF low, it
    <3> QED  BY <1>6, PickIsIn
  <2>2. it = [s \in SUBSET S |-> IF s = {} THEN 0 ELSE f[Pick(s)] + it[s \ {Pick(s)}]]
    <3> HIDE DEF low
    <3> QED  BY <2>1
  <2> QED  BY <2>2 DEF IsTable
<1> QED  BY <1>1, <1>7

LEMMA TableOfSums ==
  ASSUME NEW f, NEW S, IsFiniteSet(S), NEW it, IsTable(f, S, it), NEW T \in SUBSET S
  PROVE  SumFunctionOnSet(f, T) = it[T]
<1>1. IsFiniteSet(T)
  BY FS_Subset
<1> DEFINE jt == CHOOSE table : IsTable(f, T, table)
<1>2. IsTable(f, T, jt)
  BY <1>1, TableExists
<1>3. SumFunctionOnSet(f, T) = jt[T]
  BY SumIsLookedUp
<1> HIDE DEF jt
<1>4. jt[T] = it[T]
  <2>1. T \in SUBSET (T \cap S)
    OBVIOUS
  <2> QED  BY <1>1, <1>2, <2>1, OneTable
<1> QED  BY <1>3, <1>4

(* The recursion equation.                                                  *)
LEMMA SumUnfolds ==
  ASSUME NEW f, NEW S, IsFiniteSet(S)
  PROVE  SumFunctionOnSet(f, S) =
           IF S = {} THEN 0 ELSE f[Pick(S)] + SumFunctionOnSet(f, S \ {Pick(S)})
<1>1. PICK it : IsTable(f, S, it)
  BY TableExists
<1>2. SumFunctionOnSet(f, S) = it[S] /\ SumFunctionOnSet(f, S \ {Pick(S)}) = it[S \ {Pick(S)}]
  BY <1>1, TableOfSums
<1> QED  BY <1>1, <1>2 DEF IsTable

LEMMA SumOfNothing == ASSUME NEW f PROVE SumFunctionOnSet(f, {}) = 0
BY SumUnfolds, FS_EmptySet

LEMMA SumIsNat ==
  ASSUME NEW f, NEW S, IsFiniteSet(S), \A x \in S : f[x] \in Nat
  PROVE  SumFunctionOnSet(f, S) \in Nat
<1> DEFINE Bad == {s \in SUBSET S : SumFunctionOnSet(f, s) \notin Nat}
<1> SUFFICES ASSUME Bad # {} PROVE FALSE
  OBVIOUS
<1>1. PICK s \in Bad : \A x \in s : s \ {x} \notin Bad
  <2> HIDE DEF Bad
  <2>1. Bad \in SUBSET (SUBSET S)
    BY DEF Bad
  <2> QED  BY <2>1, SmallestCounterexample
<1>2. IsFiniteSet(s)
  BY FS_Subset
<1>3. s # {} => SumFunctionOnSet(f, s \ {Pick(s)}) \in Nat /\ f[Pick(s)] \in Nat
  BY <1>1, PickIsIn
<1> QED  BY <1>2, <1>3, SumUnfolds

(* Any element may be taken out first: addition commutes.                   *)
LEMMA SumRemoves ==
  ASSUME NEW f, NEW S, IsFiniteSet(S), \A x \in S : f[x] \in Nat, NEW y \in S
  PROVE  SumFunctionOnSet(f, S) = f[y] + SumFunctionOnSet(f, S \ {y})
<1> DEFINE Bad == {s \in SUBSET S : \E x \in s :
                     SumFunctionOnSet(f, s) # f[x] + SumFunctionOnSet(f, s \ {x})}
<1> SUFFICES ASSUME Bad # {} PROVE FALSE
  OBVIOUS
<1>1. PICK s \in Bad : \A x \in s : s \ {x} \notin Bad
  <2> HIDE DEF Bad
  <2>1. Bad \in SUBSET (SUBSET S)
    BY DEF Bad
  <2> QED  BY <2>1, SmallestCounterexample
<1>2. PICK x \in s : SumFunctionOnSet(f, s) # f[x] + SumFunctionOnSet(f, s \ {x})
  OBVIOUS
<1> DEFINE z == Pick(s)
           both == (s \ {x}) \ {z}
<1>3. IsFiniteSet(s) /\ z \in s /\ s \in SUBSET S
  BY <1>2, FS_Subset, PickIsIn
<1>4. SumFunctionOnSet(f, s) = f[z] + SumFunctionOnSet(f, s \ {z})
  BY <1>2, <1>3, SumUnfolds
<1>5. x # z
  BY <1>2, <1>4
<1>6. both = (s \ {z}) \ {x} /\ both \in SUBSET S /\ IsFiniteSet(both)
  BY <1>3, FS_Subset
<1>7. SumFunctionOnSet(f, s \ {z}) = f[x] + SumFunctionOnSet(f, both)
  <2>1. s \ {z} \in SUBSET S /\ s \ {z} \notin Bad /\ x \in s \ {z}
    BY <1>1, <1>3, <1>5
  <2> HIDE DEF z, both
  <2> QED  BY <2>1, <1>6
<1>8. SumFunctionOnSet(f, s \ {x}) = f[z] + SumFunctionOnSet(f, both)
  <2>1. s \ {x} \in SUBSET S /\ s \ {x} \notin Bad /\ z \in s \ {x}
    BY <1>1, <1>3, <1>5
  <2> HIDE DEF z
  <2> QED  BY <2>1
<1>9. SumFunctionOnSet(f, both) \in Nat /\ f[x] \in Nat /\ f[z] \in Nat
  <2> HIDE DEF both, z
  <2> QED  BY <1>3, <1>6, SumIsNat
<1> HIDE DEF z, both
<1> QED  BY <1>2, <1>4, <1>7, <1>8, <1>9

(* Only the values at the elements count.                                   *)
LEMMA SumAgrees ==
  ASSUME NEW f, NEW g, NEW S, IsFiniteSet(S), \A x \in S : f[x] = g[x]
  PROVE  SumFunctionOnSet(f, S) = SumFunctionOnSet(g, S)
<1> DEFINE Bad == {s \in SUBSET S : SumFunctionOnSet(f, s) # SumFunctionOnSet(g, s)}
<1> SUFFICES ASSUME Bad # {} PROVE FALSE
  OBVIOUS
<1>1. PICK s \in Bad : \A x \in s : s \ {x} \notin Bad
  <2> HIDE DEF Bad
  <2>1. Bad \in SUBSET (SUBSET S)
    BY DEF Bad
  <2> QED  BY <2>1, SmallestCounterexample
<1>2. IsFiniteSet(s)
  BY FS_Subset
<1>3. s # {} => /\ SumFunctionOnSet(f, s \ {Pick(s)}) = SumFunctionOnSet(g, s \ {Pick(s)})
                /\ f[Pick(s)] = g[Pick(s)]
  BY <1>1, PickIsIn
<1> QED  BY <1>2, <1>3, SumUnfolds

(* A row more.                                                              *)
LEMMA SumAdds ==
  ASSUME NEW f, NEW S, IsFiniteSet(S), NEW y, y \notin S, \A x \in S \cup {y} : f[x] \in Nat
  PROVE  SumFunctionOnSet(f, S \cup {y}) = f[y] + SumFunctionOnSet(f, S)
<1>1. IsFiniteSet(S \cup {y}) /\ (S \cup {y}) \ {y} = S
  BY FS_AddElement
<1> QED  BY <1>1, SumRemoves

LEMMA SumOfOne ==
  ASSUME NEW f, NEW y, f[y] \in Nat
  PROVE  SumFunctionOnSet(f, {y}) = f[y]
<1>1. {} \cup {y} = {y} /\ IsFiniteSet({})
  BY FS_EmptySet
<1> QED  BY <1>1, SumAdds, SumOfNothing

(* A row that is updated.                                                   *)
LEMMA SumUpdates ==
  ASSUME NEW f, NEW g, NEW S, IsFiniteSet(S), NEW y \in S,
         \A x \in S : f[x] \in Nat /\ g[x] \in Nat,
         \A x \in S \ {y} : f[x] = g[x]
  PROVE  SumFunctionOnSet(g, S) + f[y] = SumFunctionOnSet(f, S) + g[y]
<1>1. IsFiniteSet(S \ {y})
  BY FS_RemoveElement
<1>2. SumFunctionOnSet(f, S \ {y}) = SumFunctionOnSet(g, S \ {y})
  BY <1>1, SumAgrees
<1>3. /\ SumFunctionOnSet(f, S) = f[y] + SumFunctionOnSet(f, S \ {y})
      /\ SumFunctionOnSet(g, S) = g[y] + SumFunctionOnSet(g, S \ {y})
  BY SumRemoves
<1>4. SumFunctionOnSet(f, S \ {y}) \in Nat
  BY <1>1, SumIsNat
<1> QED  BY <1>2, <1>3, <1>4

(* Fewer rows never have a larger sum.                                      *)
LEMMA SumGrows ==
  ASSUME NEW f, NEW S, IsFiniteSet(S), NEW T \in SUBSET S, \A x \in S : f[x] \in Nat
  PROVE  SumFunctionOnSet(f, T) <= SumFunctionOnSet(f, S)
<1> DEFINE Bad == {s \in SUBSET (S \ T) :
                     ~ (SumFunctionOnSet(f, T) <= SumFunctionOnSet(f, T \cup s))}
<1>1. IsFiniteSet(S \ T) /\ IsFiniteSet(T)
  BY FS_Subset
<1>2. Bad = {}
  <2> SUFFICES ASSUME Bad # {} PROVE FALSE
    OBVIOUS
  <2>1. PICK s \in Bad : \A x \in s : s \ {x} \notin Bad
    <3> HIDE DEF Bad
    <3>1. Bad \in SUBSET (SUBSET (S \ T))
      BY DEF Bad
    <3> QED  BY <1>1, <3>1, SmallestCounterexample
  <2>2. SumFunctionOnSet(f, T) \in Nat
    BY <1>1, SumIsNat
  <2>3. s # {}
    <3>1. s = {} => T \cup s = T
      OBVIOUS
    <3> QED  BY <2>1, <2>2, <3>1
  <2>4. PICK y \in s : TRUE
    BY <2>3
  <2> DEFINE less == T \cup (s \ {y})
  <2>5. less \cup {y} = T \cup s /\ y \notin less /\ less \in SUBSET S /\ y \in S
    OBVIOUS
  <2>6. IsFiniteSet(less)
    BY <2>5, FS_Subset
  <2>7. SumFunctionOnSet(f, T) <= SumFunctionOnSet(f, less)
    BY <2>1
  <2> HIDE DEF less
  <2>8. SumFunctionOnSet(f, less \cup {y}) = f[y] + SumFunctionOnSet(f, less)
    BY <2>5, <2>6, SumAdds
  <2>9. SumFunctionOnSet(f, less) \in Nat /\ f[y] \in Nat
    BY <2>5, <2>6, SumIsNat
  <2>10. SumFunctionOnSet(f, T \cup s) = f[y] + SumFunctionOnSet(f, less)
    BY <2>5, <2>8, Zenon
  <2>11. SumFunctionOnSet(f, T) <= SumFunctionOnSet(f, T \cup s)
    BY <2>2, <2>7, <2>9, <2>10
  <2> QED  BY <2>1, <2>11
<1>3. T \cup (S \ T) = S
  OBVIOUS
<1> QED  BY <1>2, <1>3

(* Nor have smaller entries.                                                *)
LEMMA SumGrowsPointwise ==
  ASSUME NEW f, NEW g, NEW S, IsFiniteSet(S),
         \A x \in S : f[x] \in Nat /\ g[x] \in Nat /\ f[x] <= g[x]
  PROVE  SumFunctionOnSet(f, S) <= SumFunctionOnSet(g, S)
<1> DEFINE Bad == {s \in SUBSET S : ~ (SumFunctionOnSet(f, s) <= SumFunctionOnSet(g, s))}
<1> SUFFICES ASSUME Bad # {} PROVE FALSE
  OBVIOUS
<1>1. PICK s \in Bad : \A x \in s : s \ {x} \notin Bad
  <2> HIDE DEF Bad
  <2>1. Bad \in SUBSET (SUBSET S)
    BY DEF Bad
  <2> QED  BY <2>1, SmallestCounterexample
<1>2. CASE s = {}
  BY <1>1, <1>2, SumOfNothing
<1>3. CASE s # {}
  <2>1. PICK y \in s : TRUE
    BY <1>3
  <2> DEFINE less == s \ {y}
  <2>2. SumFunctionOnSet(f, less) <= SumFunctionOnSet(g, less)
    BY <1>1, <2>1
  <2>3. /\ IsFiniteSet(s) /\ IsFiniteSet(less) /\ y \in S
        /\ \A x \in s : f[x] \in Nat /\ g[x] \in Nat
    BY <2>1, FS_Subset
  <2>4. /\ SumFunctionOnSet(f, s) = f[y] + SumFunctionOnSet(f, less)
        /\ SumFunctionOnSet(g, s) = g[y] + SumFunctionOnSet(g, less)
    BY <2>1, <2>3, SumRemoves
  <2>5. SumFunctionOnSet(f, less) \in Nat /\ SumFunctionOnSet(g, less) \in Nat
    BY <2>3, SumIsNat
  <2> HIDE DEF less
  <2>6. SumFunctionOnSet(f, s) <= SumFunctionOnSet(g, s)
    BY <2>2, <2>3, <2>4, <2>5
  <2> QED  BY <1>1, <2>6
<1> QED  BY <1>2, <1>3

LEMMA SumOfZeros ==
  ASSUME NEW f, NEW S, IsFiniteSet(S), \A x \in S : f[x] = 0
  PROVE  SumFunctionOnSet(f, S) = 0
<1> DEFINE Bad == {s \in SUBSET S : SumFunctionOnSet(f, s) # 0}
<1> SUFFICES ASSUME Bad # {} PROVE FALSE
  OBVIOUS
<1>1. PICK s \in Bad : \A x \in s : s \ {x} \notin Bad
  <2> HIDE DEF Bad
  <2>1. Bad \in SUBSET (SUBSET S)
    BY DEF Bad
  <2> QED  BY <2>1, SmallestCounterexample
<1>2. s # {}
  BY SumOfNothing
<1>3. PICK y \in s : TRUE
  BY <1>2
<1>4. SumFunctionOnSet(f, s \ {y}) = 0
  BY <1>1, <1>3
<1>5. IsFiniteSet(s) /\ \A x \in s : f[x] \in Nat
  BY FS_Subset
<1>6. SumFunctionOnSet(f, s) = f[y] + SumFunctionOnSet(f, s \ {y})
  BY <1>3, <1>5, SumRemoves
<1> QED  BY <1>3, <1>4, <1>6

=============================================================================
