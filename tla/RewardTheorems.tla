--------------------------- MODULE RewardTheorems ---------------------------
(***************************************************************************)
(* Arithmetic for the proofs.  First sums over a function and the machine  *)
(* integers, whose recursive definitions are shown to define something:    *)
(* their graph exists by a minimal counterexample.  Then what the reward   *)
(* of a hash and the retargeting of a reset compute, for every value of    *)
(* the constants: types, bounds, and the band of the rate.                 *)
(***************************************************************************)
EXTENDS CoalReward, RewardRate, FunctionSums, FiniteSetTheorems,
        WellFoundedInduction, TLAPS

Pick(T) == CHOOSE y \in T : TRUE

(* g is the table of the sums of f over every subset of S. *)
IsSumTable(f, S, g) ==
  g = [T \in SUBSET S |-> IF T = {} THEN 0 ELSE f[Pick(T)] + g[T \ {Pick(T)}]]

(***************************************************************************)
(* A nonempty family of subsets of a finite set has a member none of whose *)
(* strict subsets is in the family.                                        *)
(***************************************************************************)
LEMMA MinimalSubset ==
  ASSUME NEW S, IsFiniteSet(S), NEW F \in SUBSET (SUBSET S), F # {}
  PROVE  \E T \in F : \A U \in F : ~(U \subseteq T /\ U # T)
<1>1. F \subseteq FiniteSubsetsOf(S)
  BY FS_Subset DEF FiniteSubsetsOf
<1>2. PICK T \in F : \A U \in F : <<U, T>> \notin StrictSubsetOrdering(S)
  BY <1>1, FS_StrictSubsetOrderingWellFounded, WFMin
<1>3. ASSUME NEW U \in F, U \subseteq T, U # T
      PROVE  FALSE
  BY <1>2, <1>3 DEF StrictSubsetOrdering
<1> QED
  BY <1>3

(* Two tables agree wherever both are defined. *)
LEMMA SumTablesAgree ==
  ASSUME NEW S, IsFiniteSet(S), NEW R \in SUBSET S, NEW f, NEW g, NEW h,
         IsSumTable(f, S, g), IsSumTable(f, R, h)
  PROVE  g[R] = h[R]
<1> DEFINE Bad == {T \in SUBSET R : g[T] # h[T]}
<1>1. SUFFICES ASSUME Bad # {} PROVE FALSE
  OBVIOUS
<1>2. IsFiniteSet(R)
  BY FS_Subset
<1>3. PICK T \in Bad : \A U \in Bad : ~(U \subseteq T /\ U # T)
  <2>1. Bad \in SUBSET (SUBSET R)
    OBVIOUS
  <2> HIDE DEF Bad
  <2> QED
    BY <2>1, <1>1, <1>2, MinimalSubset
<1>4. CASE T = {}
  BY <1>4 DEF IsSumTable
<1>5. CASE T # {}
  <2>1. Pick(T) \in T
    BY <1>5 DEF Pick
  <2>2. T \ {Pick(T)} \subseteq T /\ T \ {Pick(T)} # T /\ T \ {Pick(T)} \in SUBSET R
    BY <2>1
  <2>3. g[T \ {Pick(T)}] = h[T \ {Pick(T)}]
    BY <1>3, <2>2
  <2>4. g[T] = f[Pick(T)] + g[T \ {Pick(T)}] /\ h[T] = f[Pick(T)] + h[T \ {Pick(T)}]
    BY <1>5, <2>2 DEF IsSumTable
  <2> QED
    BY <2>3, <2>4, <1>3
<1> QED
  BY <1>4, <1>5

(* Every finite set has a table: the recursion in SumOver defines a function. *)
LEMMA SumTableExists ==
  ASSUME NEW S, IsFiniteSet(S), NEW f
  PROVE  \E g : IsSumTable(f, S, g)
<1> DEFINE Bad == {T \in SUBSET S : \A g : ~IsSumTable(f, T, g)}
<1>1. SUFFICES ASSUME Bad # {} PROVE FALSE
  OBVIOUS
<1>2. PICK T \in Bad : \A U \in Bad : ~(U \subseteq T /\ U # T)
  <2>1. Bad \in SUBSET (SUBSET S)
    OBVIOUS
  <2> HIDE DEF Bad
  <2> QED
    BY <2>1, <1>1, MinimalSubset
<1> DEFINE Table(U) == CHOOSE g : IsSumTable(f, U, g)
           glue == [U \in SUBSET T |->
                      IF U = {} THEN 0
                      ELSE f[Pick(U)] + Table(U \ {Pick(U)})[U \ {Pick(U)}]]
<1>3. ASSUME NEW U \in SUBSET T, U # T
      PROVE  IsSumTable(f, U, Table(U))
  <2>1. U \in SUBSET S /\ U \notin Bad
    BY <1>2, <1>3
  <2>2. \E g : IsSumTable(f, U, g)
    BY <2>1
  <2> QED
    BY <2>2
<1>4. ASSUME NEW U \in SUBSET T, U # T
      PROVE  glue[U] = Table(U)[U]
  <2>1. CASE U = {}
    <3>1. IsSumTable(f, U, Table(U))
      BY <1>3, <1>4
    <3> HIDE DEF Table
    <3>2. Table(U)[U] = 0
      BY <3>1, <2>1 DEF IsSumTable
    <3> QED
      BY <3>2, <2>1
  <2>2. CASE U # {}
    <3>1. Pick(U) \in U
      BY <2>2 DEF Pick
    <3> DEFINE V == U \ {Pick(U)}
    <3>2. V \in SUBSET T /\ V # T /\ V \in SUBSET U
      BY <3>1, <1>4
    <3>3. Table(U)[V] = Table(V)[V]
      <4>1. IsFiniteSet(U)
        BY <1>2, FS_Subset
      <4>2. IsSumTable(f, U, Table(U)) /\ IsSumTable(f, V, Table(V))
        BY <1>3, <1>4, <3>2
      <4> HIDE DEF Table, V
      <4> QED
        BY <4>1, <4>2, <3>2, SumTablesAgree
    <3>4. Table(U)[U] = f[Pick(U)] + Table(U)[V]
      <4>1. IsSumTable(f, U, Table(U))
        BY <1>3, <1>4
      <4> HIDE DEF Table
      <4> QED
        BY <4>1, <2>2 DEF IsSumTable
    <3>5. glue[U] = f[Pick(U)] + Table(V)[V]
      <4> HIDE DEF Table
      <4> QED
        BY <2>2
    <3> QED
      BY <3>3, <3>4, <3>5
  <2> QED
    BY <2>1, <2>2
<1>5. IsSumTable(f, T, glue)
  <2>1. ASSUME NEW U \in SUBSET T, U # {}
        PROVE  Table(U \ {Pick(U)})[U \ {Pick(U)}] = glue[U \ {Pick(U)}]
    <3>1. Pick(U) \in U
      BY <2>1 DEF Pick
    <3>2. U \ {Pick(U)} \in SUBSET T /\ U \ {Pick(U)} # T
      BY <3>1
    <3> QED
      BY <3>2, <1>4
  <2> HIDE DEF Table
  <2>2. glue = [U \in SUBSET T |->
                  IF U = {} THEN 0 ELSE f[Pick(U)] + glue[U \ {Pick(U)}]]
    BY <2>1
  <2> QED
    BY <2>2 DEF IsSumTable
<1> QED
  BY <1>2, <1>5

(* SumOver reads every subset's sum off one table. *)
LEMMA SumOverIsTable ==
  ASSUME NEW S, IsFiniteSet(S), NEW f
  PROVE  \E g : /\ IsSumTable(f, S, g)
                /\ \A T \in SUBSET S : SumOver(f, T) = g[T]
<1>1. ASSUME NEW T \in SUBSET S
      PROVE  \E h : IsSumTable(f, T, h) /\ SumOver(f, T) = h[T]
  <2>1. IsFiniteSet(T)
    BY FS_Subset
  <2>2. \E h : IsSumTable(f, T, h)
    BY <2>1, SumTableExists
  <2> DEFINE h == CHOOSE h : IsSumTable(f, T, h)
  <2>3. IsSumTable(f, T, h)
    BY <2>2
  <2>4. SumOver(f, T) = h[T]
    BY DEF SumOver, IsSumTable, Pick
  <2> QED
    BY <2>3, <2>4
<1>2. PICK g : IsSumTable(f, S, g)
  BY SumTableExists
<1>3. ASSUME NEW T \in SUBSET S
      PROVE  SumOver(f, T) = g[T]
  <2>1. PICK h : IsSumTable(f, T, h) /\ SumOver(f, T) = h[T]
    BY <1>1
  <2> QED
    BY <2>1, <1>2, SumTablesAgree
<1> QED
  BY <1>2, <1>3

(* The defining equations of SumOver. *)
LEMMA SumOverEquations ==
  ASSUME NEW S, IsFiniteSet(S), NEW f
  PROVE  /\ SumOver(f, {}) = 0
         /\ \A T \in SUBSET S :
              T # {} => /\ Pick(T) \in T
                        /\ SumOver(f, T) = f[Pick(T)] + SumOver(f, T \ {Pick(T)})
<1>1. PICK g : /\ IsSumTable(f, S, g)
               /\ \A T \in SUBSET S : SumOver(f, T) = g[T]
  BY SumOverIsTable
<1>2. SumOver(f, {}) = 0
  BY <1>1 DEF IsSumTable
<1>3. ASSUME NEW T \in SUBSET S, T # {}
      PROVE  /\ Pick(T) \in T
             /\ SumOver(f, T) = f[Pick(T)] + SumOver(f, T \ {Pick(T)})
  <2>1. Pick(T) \in T
    BY <1>3 DEF Pick
  <2>2. g[T] = f[Pick(T)] + g[T \ {Pick(T)}]
    BY <1>1, <1>3 DEF IsSumTable
  <2> QED
    BY <1>1, <2>1, <2>2
<1> QED
  BY <1>2, <1>3

(* The sum of integers is an integer. *)
LEMMA SumOverInt ==
  ASSUME NEW S, IsFiniteSet(S), NEW f, \A x \in S : f[x] \in Int
  PROVE  SumOver(f, S) \in Int
<1> DEFINE Bad == {T \in SUBSET S : SumOver(f, T) \notin Int}
<1>1. SUFFICES ASSUME Bad # {} PROVE FALSE
  OBVIOUS
<1>2. PICK T \in Bad : \A U \in Bad : ~(U \subseteq T /\ U # T)
  <2>1. Bad \in SUBSET (SUBSET S)
    OBVIOUS
  <2> HIDE DEF Bad
  <2> QED
    BY <2>1, <1>1, MinimalSubset
<1>3. T # {}
  <2>1. T = {} => SumOver(f, T) = 0
    BY SumOverEquations
  <2> QED
    BY <2>1, <1>2
<1>4. Pick(T) \in T /\ SumOver(f, T) = f[Pick(T)] + SumOver(f, T \ {Pick(T)})
  BY <1>2, <1>3, SumOverEquations
<1>5. SumOver(f, T \ {Pick(T)}) \in Int
  BY <1>2, <1>4
<1> QED
  BY <1>2, <1>4, <1>5

(* The sum of naturals is a natural. *)
LEMMA SumOverNat ==
  ASSUME NEW S, IsFiniteSet(S), NEW f, \A x \in S : f[x] \in Nat
  PROVE  SumOver(f, S) \in Nat
<1> DEFINE Bad == {T \in SUBSET S : SumOver(f, T) \notin Nat}
<1>1. SUFFICES ASSUME Bad # {} PROVE FALSE
  OBVIOUS
<1>2. PICK T \in Bad : \A U \in Bad : ~(U \subseteq T /\ U # T)
  <2>1. Bad \in SUBSET (SUBSET S)
    OBVIOUS
  <2> HIDE DEF Bad
  <2> QED
    BY <2>1, <1>1, MinimalSubset
<1>3. T # {}
  <2>1. T = {} => SumOver(f, T) = 0
    BY SumOverEquations
  <2> QED
    BY <2>1, <1>2
<1>4. Pick(T) \in T /\ SumOver(f, T) = f[Pick(T)] + SumOver(f, T \ {Pick(T)})
  BY <1>2, <1>3, SumOverEquations
<1>5. SumOver(f, T \ {Pick(T)}) \in Nat
  BY <1>2, <1>4
<1> QED
  BY <1>2, <1>4, <1>5

(* Any element can be taken out of the sum first. *)
LEMMA SumOverRemove ==
  ASSUME NEW S, IsFiniteSet(S), NEW f, \A x \in S : f[x] \in Int, NEW a \in S
  PROVE  SumOver(f, S) = f[a] + SumOver(f, S \ {a})
<1> DEFINE Bad == {T \in SUBSET S :
                     \E b \in T : SumOver(f, T) # f[b] + SumOver(f, T \ {b})}
<1>1. SUFFICES ASSUME Bad # {} PROVE FALSE
  OBVIOUS
<1>2. PICK T \in Bad : \A U \in Bad : ~(U \subseteq T /\ U # T)
  <2>1. Bad \in SUBSET (SUBSET S)
    OBVIOUS
  <2> HIDE DEF Bad
  <2> QED
    BY <2>1, <1>1, MinimalSubset
<1>3. PICK b \in T : SumOver(f, T) # f[b] + SumOver(f, T \ {b})
  BY <1>2
<1> DEFINE c == Pick(T)
<1>4. c \in T /\ SumOver(f, T) = f[c] + SumOver(f, T \ {c})
  <2>1. T \in SUBSET S /\ T # {}
    BY <1>2, <1>3
  <2> QED
    BY <2>1, SumOverEquations
<1>5. b # c
  BY <1>3, <1>4
<1> HIDE DEF c
<1>6. SumOver(f, T \ {c}) = f[b] + SumOver(f, (T \ {c}) \ {b})
  BY <1>2, <1>4, <1>5
<1>7. SumOver(f, T \ {b}) = f[c] + SumOver(f, (T \ {b}) \ {c})
  BY <1>2, <1>3, <1>4, <1>5
<1>8. SumOver(f, (T \ {b}) \ {c}) = SumOver(f, (T \ {c}) \ {b})
  <2>1. (T \ {b}) \ {c} = (T \ {c}) \ {b}
    OBVIOUS
  <2> QED
    BY <2>1
<1>9. SumOver(f, (T \ {c}) \ {b}) \in Int
  <2>1. IsFiniteSet((T \ {c}) \ {b})
    BY <1>2, FS_Subset
  <2> QED
    BY <2>1, <1>2, SumOverInt
<1>10. f[b] \in Int /\ f[c] \in Int
  BY <1>2, <1>3, <1>4
<1> QED
  BY <1>3, <1>4, <1>6, <1>7, <1>8, <1>9, <1>10

(* The sum depends only on the values the function has on the set. *)
LEMMA SumOverSame ==
  ASSUME NEW S, IsFiniteSet(S), NEW f, NEW g, \A x \in S : f[x] = g[x]
  PROVE  SumOver(f, S) = SumOver(g, S)
<1> DEFINE Bad == {T \in SUBSET S : SumOver(f, T) # SumOver(g, T)}
<1>1. SUFFICES ASSUME Bad # {} PROVE FALSE
  OBVIOUS
<1>2. PICK T \in Bad : \A U \in Bad : ~(U \subseteq T /\ U # T)
  <2>1. Bad \in SUBSET (SUBSET S)
    OBVIOUS
  <2> HIDE DEF Bad
  <2> QED
    BY <2>1, <1>1, MinimalSubset
<1>3. T # {}
  <2>1. T = {} => SumOver(f, T) = 0 /\ SumOver(g, T) = 0
    BY SumOverEquations
  <2> QED
    BY <2>1, <1>2
<1>4. /\ Pick(T) \in T
      /\ SumOver(f, T) = f[Pick(T)] + SumOver(f, T \ {Pick(T)})
      /\ SumOver(g, T) = g[Pick(T)] + SumOver(g, T \ {Pick(T)})
  <2>1. T \in SUBSET S
    BY <1>2
  <2>2. Pick(T) \in T /\ SumOver(f, T) = f[Pick(T)] + SumOver(f, T \ {Pick(T)})
    BY <2>1, <1>3, SumOverEquations
  <2>3. SumOver(g, T) = g[Pick(T)] + SumOver(g, T \ {Pick(T)})
    BY <2>1, <1>3, SumOverEquations
  <2> QED
    BY <2>2, <2>3
<1>5. SumOver(f, T \ {Pick(T)}) = SumOver(g, T \ {Pick(T)})
  BY <1>2, <1>4
<1> QED
  BY <1>2, <1>4, <1>5

(* Changing the function at one point changes the sum by the difference. *)
LEMMA SumOverChangeOne ==
  ASSUME NEW S, IsFiniteSet(S), NEW f, NEW g, NEW a \in S,
         \A x \in S : f[x] \in Int /\ g[x] \in Int,
         \A x \in S \ {a} : f[x] = g[x]
  PROVE  SumOver(g, S) = SumOver(f, S) - f[a] + g[a]
<1>1. IsFiniteSet(S \ {a})
  BY FS_Subset
<1>2. SumOver(f, S \ {a}) = SumOver(g, S \ {a})
  BY <1>1, SumOverSame
<1>3. SumOver(f, S) = f[a] + SumOver(f, S \ {a})
  BY SumOverRemove
<1>4. SumOver(g, S) = g[a] + SumOver(g, S \ {a})
  BY SumOverRemove
<1>5. SumOver(f, S \ {a}) \in Int
  BY <1>1, SumOverInt
<1> QED
  BY <1>2, <1>3, <1>4, <1>5

(* A constant function sums to the constant times the size of the set. *)
LEMMA SumOverConstant ==
  ASSUME NEW S, IsFiniteSet(S), NEW f, NEW c \in Nat, \A x \in S : f[x] = c
  PROVE  SumOver(f, S) = c * Cardinality(S)
<1> DEFINE Bad == {T \in SUBSET S : SumOver(f, T) # c * Cardinality(T)}
<1>1. SUFFICES ASSUME Bad # {} PROVE FALSE
  OBVIOUS
<1>2. PICK T \in Bad : \A U \in Bad : ~(U \subseteq T /\ U # T)
  <2>1. Bad \in SUBSET (SUBSET S)
    OBVIOUS
  <2> HIDE DEF Bad
  <2> QED
    BY <2>1, <1>1, MinimalSubset
<1>3. T # {}
  <2>1. T = {} => SumOver(f, T) = 0 /\ Cardinality(T) = 0
    BY SumOverEquations, FS_EmptySet
  <2> QED
    BY <2>1, <1>2
<1>4. Pick(T) \in T /\ SumOver(f, T) = f[Pick(T)] + SumOver(f, T \ {Pick(T)})
  BY <1>2, <1>3, SumOverEquations
<1>5. SumOver(f, T \ {Pick(T)}) = c * Cardinality(T \ {Pick(T)})
  BY <1>2, <1>4
<1>6. IsFiniteSet(T)
  BY <1>2, FS_Subset
<1>7. Cardinality(T \ {Pick(T)}) = Cardinality(T) - 1 /\ Cardinality(T) \in Nat
  BY <1>4, <1>6, FS_RemoveElement, FS_CardinalityType
<1>8. c + c * (Cardinality(T) - 1) = c * Cardinality(T)
  <2>1. \A n \in Nat : c + c * (n - 1) = c * n
    OBVIOUS
  <2> QED
    BY <2>1, <1>7
<1> QED
  BY <1>2, <1>4, <1>5, <1>7, <1>8

(* A pointwise larger function has a larger sum. *)
LEMMA SumOverMonotone ==
  ASSUME NEW S, IsFiniteSet(S), NEW f, NEW g,
         \A x \in S : f[x] \in Int /\ g[x] \in Int /\ f[x] <= g[x]
  PROVE  SumOver(f, S) <= SumOver(g, S)
<1> DEFINE Bad == {T \in SUBSET S : ~(SumOver(f, T) <= SumOver(g, T))}
<1>1. SUFFICES ASSUME Bad # {} PROVE FALSE
  OBVIOUS
<1>2. PICK T \in Bad : \A U \in Bad : ~(U \subseteq T /\ U # T)
  <2>1. Bad \in SUBSET (SUBSET S)
    OBVIOUS
  <2> HIDE DEF Bad
  <2> QED
    BY <2>1, <1>1, MinimalSubset
<1>3. T # {}
  <2>1. T = {} => SumOver(f, T) = 0 /\ SumOver(g, T) = 0
    BY SumOverEquations
  <2> QED
    BY <2>1, <1>2
<1>4. /\ Pick(T) \in T
      /\ SumOver(f, T) = f[Pick(T)] + SumOver(f, T \ {Pick(T)})
      /\ SumOver(g, T) = g[Pick(T)] + SumOver(g, T \ {Pick(T)})
  <2>1. T \in SUBSET S
    BY <1>2
  <2>2. Pick(T) \in T /\ SumOver(f, T) = f[Pick(T)] + SumOver(f, T \ {Pick(T)})
    BY <2>1, <1>3, SumOverEquations
  <2>3. SumOver(g, T) = g[Pick(T)] + SumOver(g, T \ {Pick(T)})
    BY <2>1, <1>3, SumOverEquations
  <2> QED
    BY <2>2, <2>3
<1>5. SumOver(f, T \ {Pick(T)}) <= SumOver(g, T \ {Pick(T)})
  BY <1>2, <1>4
<1>6. IsFiniteSet(T \ {Pick(T)})
  BY <1>2, FS_Subset
<1>7. SumOver(f, T \ {Pick(T)}) \in Int /\ SumOver(g, T \ {Pick(T)}) \in Int
  BY <1>2, <1>6, SumOverInt
<1> QED
  BY <1>2, <1>4, <1>5, <1>7

(* A sum of naturals is at least each of them. *)
LEMMA SumOverAtLeast ==
  ASSUME NEW S, IsFiniteSet(S), NEW f, \A x \in S : f[x] \in Nat, NEW a \in S
  PROVE  f[a] <= SumOver(f, S)
<1>1. IsFiniteSet(S \ {a})
  BY FS_Subset
<1>2. SumOver(f, S \ {a}) \in Nat
  BY <1>1, SumOverNat
<1>3. SumOver(f, S) = f[a] + SumOver(f, S \ {a})
  BY SumOverRemove
<1> QED
  BY <1>2, <1>3

(* A bound of each value by another function's, scaled and displaced, adds *)
(* up to the same bound of the sums.                                       *)
LEMMA SumOverScaledBound ==
  ASSUME NEW S, IsFiniteSet(S), NEW f, NEW g, NEW k \in Nat, NEW d \in Nat,
         \A x \in S : f[x] \in Nat /\ g[x] \in Nat /\ k * f[x] <= g[x] + d
  PROVE  k * SumOver(f, S) <= SumOver(g, S) + d * Cardinality(S)
<1> DEFINE Bad == {T \in SUBSET S : ~(k * SumOver(f, T) <= SumOver(g, T) + d * Cardinality(T))}
<1>1. SUFFICES ASSUME Bad # {} PROVE FALSE
  OBVIOUS
<1>2. PICK T \in Bad : \A U \in Bad : ~(U \subseteq T /\ U # T)
  <2>1. Bad \in SUBSET (SUBSET S)
    OBVIOUS
  <2> HIDE DEF Bad
  <2> QED
    BY <2>1, <1>1, MinimalSubset
<1>3. T # {}
  <2>1. T = {} => SumOver(f, T) = 0 /\ SumOver(g, T) = 0 /\ Cardinality(T) = 0
    BY SumOverEquations, FS_EmptySet
  <2> QED
    BY <2>1, <1>2
<1> DEFINE a == Pick(T)
           R == T \ {a}
<1>4. a \in T /\ SumOver(f, T) = f[a] + SumOver(f, R)
  <2>1. T \in SUBSET S
    BY <1>2
  <2> QED
    BY <2>1, <1>3, SumOverEquations
<1>5. SumOver(g, T) = g[a] + SumOver(g, R)
  <2>1. T \in SUBSET S
    BY <1>2
  <2> QED
    BY <2>1, <1>3, SumOverEquations
<1>6. k * SumOver(f, R) <= SumOver(g, R) + d * Cardinality(R)
  BY <1>2, <1>4
<1>7. IsFiniteSet(T) /\ IsFiniteSet(R)
  BY <1>2, FS_Subset
<1>8. Cardinality(R) \in Nat /\ Cardinality(T) = Cardinality(R) + 1
  BY <1>4, <1>7, FS_RemoveElement, FS_CardinalityType
<1>9. SumOver(f, R) \in Nat /\ SumOver(g, R) \in Nat
  BY <1>2, <1>7, SumOverNat
<1>10. f[a] \in Nat /\ g[a] \in Nat /\ k * f[a] <= g[a] + d
  <2>1. a \in S
    BY <1>2, <1>4
  <2> HIDE DEF a
  <2> QED
    BY <2>1
<1>11. ~(k * SumOver(f, T) <= SumOver(g, T) + d * Cardinality(T))
  BY <1>2
<1> HIDE DEF a, R, Bad
<1>12. k * (f[a] + SumOver(f, R)) = k * f[a] + k * SumOver(f, R)
       /\ k * f[a] \in Nat /\ k * SumOver(f, R) \in Nat
  <2>1. \A n, m \in Nat : k * (n + m) = k * n + k * m /\ k * n \in Nat /\ k * m \in Nat
    OBVIOUS
  <2> QED
    BY <1>9, <1>10, <2>1
<1>13. d * (Cardinality(R) + 1) = d * Cardinality(R) + d /\ d * Cardinality(R) \in Nat
  BY <1>8
<1> QED
  BY <1>4, <1>5, <1>6, <1>8, <1>9, <1>10, <1>11, <1>12, <1>13
-----------------------------------------------------------------------------
(* A nonempty set of naturals has a least member. *)
LEMMA LeastNatural ==
  ASSUME NEW B \in SUBSET Nat, B # {}
  PROVE  \E n \in B : \A m \in B : n <= m
<1>1. PICK k \in B : TRUE
  OBVIOUS
<1> DEFINE S == 0 .. k
           F == {0 .. n : n \in {j \in B : j <= k}}
<1>2. F \in SUBSET (SUBSET S) /\ F # {}
  <2>1. 0 .. k \in F
    BY <1>1
  <2> QED
    BY <2>1
<1>3. IsFiniteSet(S)
  BY FS_Interval
<1>4. PICK T \in F : \A U \in F : ~(U \subseteq T /\ U # T)
  <2> HIDE DEF F, S
  <2> QED
    BY <1>2, <1>3, MinimalSubset
<1>5. PICK n \in B : n <= k /\ T = 0 .. n
  BY <1>4
<1>6. ASSUME NEW m \in B, m < n PROVE FALSE
  <2>1. 0 .. m \in F
    BY <1>5, <1>6
  <2>2. 0 .. m \subseteq 0 .. n /\ n \in 0 .. n /\ n \notin 0 .. m
    BY <1>6
  <2> QED
    BY <1>4, <1>5, <2>1, <2>2
<1> QED
  BY <1>6

IsPowerTable(k, p) == p = [n \in 0 .. k |-> IF n = 0 THEN 1 ELSE 2 * p[n - 1]]

(* A bounded set of naturals has a largest one. *)
LEMMA LargestNatural ==
  ASSUME NEW n \in Nat, NEW S, S \subseteq 0 .. n, S # {}
  PROVE  \E c \in S : \A d \in S : d <= c
<1>1. PICK least \in {n - d : d \in S} : \A m \in {n - d : d \in S} : least <= m
  <2>1. \A d \in 0 .. n : n - d \in Nat
    OBVIOUS
  <2>2. {n - d : d \in S} \subseteq Nat
    BY <2>1
  <2>3. {n - d : d \in S} # {}
    OBVIOUS
  <2> QED
    BY <2>2, <2>3, LeastNatural
<1>2. PICK c \in S : least = n - c
  BY <1>1
<1>3. ASSUME NEW d \in S PROVE d <= c
  <2>1. n - c <= n - d
    BY <1>1, <1>2
  <2>2. c \in Int /\ d \in Int
    OBVIOUS
  <2> QED
    BY <2>1, <2>2
<1> QED
  BY <1>3

(* The recursion of Pow2 defines a function. *)
LEMMA PowerTableExists ==
  ASSUME NEW k \in Nat
  PROVE  \E p : IsPowerTable(k, p)
<1> DEFINE Bad == {j \in Nat : \A p : ~IsPowerTable(j, p)}
<1>1. SUFFICES ASSUME Bad # {} PROVE FALSE
  OBVIOUS
<1>2. PICK j \in Bad : \A i \in Bad : j <= i
  <2>1. Bad \in SUBSET Nat
    OBVIOUS
  <2> HIDE DEF Bad
  <2> QED
    BY <2>1, <1>1, LeastNatural
<1>3. CASE j = 0
  <2>1. IsPowerTable(0, [n \in 0 .. 0 |-> 1])
    BY DEF IsPowerTable
  <2> QED
    BY <2>1, <1>2, <1>3
<1>4. CASE j # 0
  <2>1. j - 1 \in Nat /\ j - 1 \notin Bad
    BY <1>2, <1>4
  <2>2. PICK q : IsPowerTable(j - 1, q)
    BY <2>1
  <2> DEFINE p == [n \in 0 .. j |-> IF n = j THEN 2 * q[j - 1] ELSE q[n]]
  <2>3. \A n \in 0 .. j - 1 : q[n] = IF n = 0 THEN 1 ELSE 2 * q[n - 1]
    BY <2>1, <2>2 DEF IsPowerTable
  <2>4. \A n \in 0 .. j : p[n] = IF n = 0 THEN 1 ELSE 2 * p[n - 1]
    BY <1>2, <1>4, <2>3
  <2>5. IsPowerTable(j, p)
    BY <2>4 DEF IsPowerTable
  <2> QED
    BY <2>5, <1>2
<1> QED
  BY <1>3, <1>4

(* Pow2 satisfies its defining equation. *)
LEMMA Pow2Equation ==
  \A n \in 0 .. U64Bits : Pow2[n] = IF n = 0 THEN 1 ELSE 2 * Pow2[n - 1]
<1>1. \E p : IsPowerTable(U64Bits, p)
  BY U64BitsAssumption, PowerTableExists
<1>2. IsPowerTable(U64Bits, Pow2)
  BY <1>1 DEF IsPowerTable, Pow2
<1> QED
  BY <1>2 DEF IsPowerTable

(* Powers of two are positive naturals. *)
LEMMA Pow2Positive == \A n \in 0 .. U64Bits : Pow2[n] \in Nat \ {0}
<1> DEFINE Bad == {n \in 0 .. U64Bits : Pow2[n] \notin Nat \ {0}}
<1>1. SUFFICES ASSUME Bad # {} PROVE FALSE
  OBVIOUS
<1>2. PICK n \in Bad : \A m \in Bad : n <= m
  <2>1. Bad \in SUBSET Nat
    BY U64BitsAssumption
  <2> HIDE DEF Bad
  <2> QED
    BY <2>1, <1>1, LeastNatural
<1>3. n # 0
  BY <1>2, Pow2Equation, U64BitsAssumption
<1>4. n - 1 \in 0 .. U64Bits /\ n - 1 \notin Bad
  BY <1>2, <1>3, U64BitsAssumption
<1>5. Pow2[n] = 2 * Pow2[n - 1]
  BY <1>2, <1>3, Pow2Equation
<1> QED
  BY <1>2, <1>4, <1>5

(* A u64 has at least one bit: it reaches 1. *)
LEMMA U64MaxPositive == U64Max \in Nat \ {0} /\ U64 \subseteq Nat
<1>1. Pow2[U64Bits] = 2 * Pow2[U64Bits - 1]
  BY U64BitsAssumption, Pow2Equation
<1>2. Pow2[U64Bits - 1] \in Nat \ {0}
  BY U64BitsAssumption, Pow2Positive
<1>3. U64Max \in Nat \ {0}
  BY <1>1, <1>2 DEF U64Max
<1> QED
  BY <1>3 DEF U64

(* A saturated power of two can be divided by. *)
LEMMA SatPow2Positive == \A n \in Nat : SatPow2(n) \in Nat \ {0}
  BY Pow2Positive, U64MaxPositive, U64BitsAssumption DEF SatPow2

(* A cast yields a u64. *)
LEMMA AsU64Type == \A n \in Nat : AsU64(n) \in U64
<1>1. Pow2[U64Bits] \in Nat \ {0}
  BY Pow2Positive, U64BitsAssumption
<1> QED
  BY <1>1 DEF AsU64, U64, U64Max
-----------------------------------------------------------------------------
(* Division, as the multiplication it undoes. *)
LEMMA Division ==
  ASSUME NEW n \in Nat, NEW m \in Nat \ {0}
  PROVE  /\ n \div m \in Nat
         /\ m * (n \div m) <= n
         /\ n < m * (n \div m) + m
  OBVIOUS

(* Multiplication by a natural is monotone. *)
LEMMA ProductMonotone ==
  ASSUME NEW a \in Nat, NEW b \in Nat, NEW c \in Nat, a <= b
  PROVE  c * a <= c * b /\ c * a \in Nat
<1>1. PICK e \in Nat : b = a + e
  BY b - a \in Nat
<1>2. c * b = c * a + c * e /\ c * e \in Nat /\ c * a \in Nat
  BY <1>1
<1> QED
  BY <1>2

(* Division by a positive number does not grow. *)
LEMMA QuotientBound ==
  ASSUME NEW n \in Nat, NEW m \in Nat \ {0}, NEW a \in Nat, n <= m * a
  PROVE  n \div m <= a
<1>1. SUFFICES ASSUME a + 1 <= n \div m PROVE FALSE
  BY Division
<1>2. m * (a + 1) <= m * (n \div m)
  BY <1>1, Division, ProductMonotone
<1>3. m * (a + 1) = m * a + m
  OBVIOUS
<1>4. m * (n \div m) <= n /\ m * a \in Nat /\ m * (n \div m) \in Int
  BY Division
<1> QED
  BY <1>2, <1>3, <1>4

(* Halving, with its remainder. *)
LEMMA Halving ==
  ASSUME NEW n \in Nat
  PROVE  n \div 2 \in Nat /\ 2 * (n \div 2) <= n /\ n <= 2 * (n \div 2) + 1
  OBVIOUS

(* Doubling at the lower threshold reaches it, from half of a rate above.  *)
LEMMA DoublingReaches ==
  ASSUME NEW min \in Nat, min % 2 = 0, NEW rate \in Nat, NEW new \in Nat,
         min <= rate, rate \div 2 <= new
  PROVE  min <= 2 * new
<1>1. min = 2 * (min \div 2) /\ min \div 2 \in Nat
  OBVIOUS
<1>2. min \div 2 <= rate \div 2 /\ rate \div 2 \in Nat
  OBVIOUS
<1> QED
  BY <1>1, <1>2

(* Halving at the upper threshold falls below it, from twice a rate below. *)
LEMMA HalvingFalls ==
  ASSUME NEW min \in Nat, NEW max \in Nat, NEW rate \in Nat, NEW new \in Nat,
         2 * min < max, max <= new, rate < max, new <= 2 * rate + 1
  PROVE  /\ new \div 2 \in Nat /\ new \div 2 <= new
         /\ min <= new \div 2 /\ new \div 2 < max
  BY Halving

(* The derived constants are positive, a full pool is what the full buses  *)
(* hold, and it fits a u64 (the const_assert of consts.rs).                *)
LEMMA DerivedConstants ==
  /\ BUS_COUNT \in Nat \ {0}
  /\ COAL_EPOCH_DURATION \in Nat \ {0}
  /\ TARGET_COAL_EPOCH_REWARDS \in Nat \ {0}
  /\ BUS_COAL_EPOCH_REWARDS = TARGET_COAL_EPOCH_REWARDS
  /\ MAX_COAL_EPOCH_REWARDS = BUS_COAL_EPOCH_REWARDS * BUS_COUNT
  /\ MAX_COAL_EPOCH_REWARDS \in U64
  /\ BUS_COAL_EPOCH_REWARDS \in U64
<1>1. BUS_COUNT \in Nat \ {0}
  BY ConstsAssumption, FS_CardinalityType, FS_EmptySet DEF BUS_COUNT
<1>2. COAL_EPOCH_DURATION \in Nat \ {0}
  BY ConstsAssumption DEF COAL_EPOCH_DURATION
<1>3. TARGET_COAL_EPOCH_REWARDS \in Nat \ {0}
  BY ConstsAssumption DEF TARGET_COAL_EPOCH_REWARDS
<1>4. ASSUME NEW a \in Nat, NEW n \in Nat \ {0}
      PROVE  (a * n) \div n = a /\ a <= a * n
  <2>1. a * n \in Nat /\ a * n = n * a
    OBVIOUS
  <2>2. (a * n) \div n <= a
    BY <2>1, QuotientBound
  <2>3. ASSUME (a * n) \div n + 1 <= a PROVE FALSE
    <3> DEFINE q == (a * n) \div n
    <3>1. q \in Nat /\ a * n < n * q + n
      BY <2>1, Division
    <3>2. n * (q + 1) <= n * a
      BY <2>3, <3>1, ProductMonotone
    <3>3. n * (q + 1) = n * q + n
      BY <3>1
    <3> QED
      BY <2>1, <3>1, <3>2, <3>3
  <2>4. a * 1 <= a * n
    BY ProductMonotone
  <2> QED
    BY <2>1, <2>2, <2>3, <2>4, Division
<1>5. BUS_COAL_EPOCH_REWARDS = TARGET_COAL_EPOCH_REWARDS
  BY <1>1, <1>3, <1>4 DEF BUS_COAL_EPOCH_REWARDS, MAX_COAL_EPOCH_REWARDS
<1>6. MAX_COAL_EPOCH_REWARDS = BUS_COAL_EPOCH_REWARDS * BUS_COUNT
  BY <1>5 DEF MAX_COAL_EPOCH_REWARDS
<1>7. MAX_COAL_EPOCH_REWARDS \in U64
  BY ConstsAssumption
<1>8. BUS_COAL_EPOCH_REWARDS <= MAX_COAL_EPOCH_REWARDS
  BY <1>1, <1>3, <1>4, <1>5 DEF MAX_COAL_EPOCH_REWARDS
<1>9. BUS_COAL_EPOCH_REWARDS \in U64
  BY <1>3, <1>5, <1>7, <1>8, U64MaxPositive DEF U64
<1> QED
  BY <1>1, <1>2, <1>3, <1>5, <1>6, <1>7, <1>9
-----------------------------------------------------------------------------
(* The linear decay takes at most half of the reward. *)
LEMMA DecayedType ==
  ASSUME NEW reward \in Nat, NEW seconds \in 0 .. ONE_MINUTE - 1
  PROVE  Decayed(reward, seconds) \in Nat /\ Decayed(reward, seconds) <= reward
<1> DEFINE half == reward \div 2
           full == half * seconds
           charged == SatMul(half, seconds)
<1>1. half \in Nat /\ half <= reward /\ seconds \in Nat /\ ONE_MINUTE \in Nat \ {0}
  BY ConstsAssumption
<1>2. full \in Nat /\ full <= ONE_MINUTE * half
  <2>1. half * seconds <= half * ONE_MINUTE /\ half * seconds \in Nat
    BY <1>1, ProductMonotone
  <2> QED
    BY <2>1, <1>1
<1>3. charged \in Nat /\ charged <= full
  BY <1>2, U64MaxPositive DEF SatMul, Lesser
<1>4. charged <= ONE_MINUTE * half
  <2>1. ONE_MINUTE * half \in Nat
    BY <1>1
  <2> HIDE DEF charged, full
  <2> QED
    BY <1>2, <1>3, <2>1
<1>5. charged \div ONE_MINUTE \in Nat /\ charged \div ONE_MINUTE <= half
  <2> HIDE DEF charged, half
  <2> QED
    BY <1>1, <1>3, <1>4, QuotientBound, Division
<1>6. Decayed(reward, seconds) = reward - charged \div ONE_MINUTE
  BY DEF Decayed
<1> QED
  BY <1>1, <1>5, <1>6

(* What a late hash keeps of a reward is no more than the reward. *)
LEMMA PenalizedType ==
  ASSUME NEW p, p.last_hash_at \in Nat, NEW reward \in Nat, NEW t \in Nat, t >= TargetTime(p)
  PROVE  Penalized(p, reward, t) \in Nat /\ Penalized(p, reward, t) <= reward
<1> DEFINE tardiness == t - TargetTime(p)
           halved == Halved(reward, tardiness)
<1>1. tardiness \in Nat /\ ONE_MINUTE \in Nat \ {0}
  BY ConstsAssumption DEF TargetTime
<1>2. tardiness \div ONE_MINUTE \in Nat /\ tardiness % ONE_MINUTE \in 0 .. ONE_MINUTE - 1
  BY <1>1
<1>3. halved \in Nat /\ halved <= reward
  <2>1. SatPow2(tardiness \div ONE_MINUTE) \in Nat \ {0}
    BY <1>2, SatPow2Positive
  <2>2. 1 * reward <= SatPow2(tardiness \div ONE_MINUTE) * reward
    BY <2>1
  <2>3. reward \div SatPow2(tardiness \div ONE_MINUTE) \in Nat
        /\ reward \div SatPow2(tardiness \div ONE_MINUTE) <= reward
    BY <2>1, <2>2, Division, QuotientBound
  <2> QED
    BY <2>3 DEF Halved
<1>4. /\ Decayed(halved, tardiness % ONE_MINUTE) \in Nat
      /\ Decayed(halved, tardiness % ONE_MINUTE) <= halved
  <2> HIDE DEF halved, tardiness
  <2> QED
    BY <1>2, <1>3, DecayedType
<1>5. Penalized(p, reward, t) = Decayed(halved, tardiness % ONE_MINUTE)
  BY DEF Penalized
<1> HIDE DEF halved, tardiness
<1> QED
  BY <1>3, <1>4, <1>5

(* The liveness penalty never raises a reward. *)
LEMMA PenaltyType ==
  ASSUME NEW p, p.last_hash_at \in Nat, NEW reward \in Nat, NEW t \in Nat
  PROVE  /\ WithLivenessPenalty(p, reward, t) \in Nat
         /\ WithLivenessPenalty(p, reward, t) <= reward
<1>1. TargetTime(p) \in Nat /\ TOLERANCE \in Nat
  BY ConstsAssumption DEF TargetTime
<1>2. t > TargetTime(p) + TOLERANCE => t >= TargetTime(p)
  BY <1>1
<1> QED
  BY <1>2, PenalizedType DEF WithLivenessPenalty

(* The tool bonus is a natural within the durability of the tool. *)
LEMMA ToolRewardType ==
  ASSUME NEW tl, tl.durability \in Nat, tl.multiplier \in Nat, NEW reward \in Nat
  PROVE  ToolReward(tl, reward) \in Nat /\ ToolReward(tl, reward) <= tl.durability
<1> DEFINE multiplier == Lesser(Greater(tl.multiplier, BASE_TOOL_MULTIPLIER), MAX_TOOL_MULTIPLIER)
<1>1. multiplier \in Nat
  BY ConstsAssumption DEF Lesser, Greater
<1>2. (reward * multiplier) \div 100 \in Nat
  <2> HIDE DEF multiplier
  <2>1. reward * multiplier \in Nat
    BY <1>1
  <2> QED
    BY <2>1
<1>3. AsU64((reward * multiplier) \div 100) \in Nat
  BY <1>2, AsU64Type, U64MaxPositive
<1>4. ToolReward(tl, reward) = Lesser(AsU64((reward * multiplier) \div 100), tl.durability)
  BY DEF ToolReward
<1> HIDE DEF multiplier
<1> QED
  BY <1>3, <1>4 DEF Lesser

(* The share of a reward that a stake earns: the whole for the top balance *)
(* or more, never more than the whole, and never less for more stake.      *)
LEMMA StakingRewardFacts ==
  ASSUME NEW cfg, cfg.top_balance \in Nat \ {0}, NEW reward \in Nat,
         NEW p, p.balance \in Nat, NEW q, q.balance \in Nat, p.balance <= q.balance
  PROVE  /\ StakingReward(cfg, p, reward) \in Nat
         /\ StakingReward(cfg, p, reward) <= reward
         /\ StakingReward(cfg, p, reward) <= StakingReward(cfg, q, reward)
         /\ p.balance >= cfg.top_balance => StakingReward(cfg, p, reward) = reward
<1> DEFINE top == cfg.top_balance
           n == Lesser(p.balance, top)
           m == Lesser(q.balance, top)
<1>1. n \in Nat /\ m \in Nat /\ n <= m /\ m <= top /\ (p.balance >= top => n = top)
  BY DEF Lesser
<1>2. /\ StakingReward(cfg, p, reward) = (reward * n) \div top
      /\ StakingReward(cfg, q, reward) = (reward * m) \div top
  BY DEF StakingReward
<1>3. top \in Nat \ {0}
  OBVIOUS
<1>4. p.balance >= cfg.top_balance <=> p.balance >= top
  OBVIOUS
<1> HIDE DEF top, n, m
<1>5. reward * n \in Nat /\ reward * m \in Nat /\ reward * n <= reward * m
      /\ reward * m <= reward * top
  BY <1>1, <1>3, ProductMonotone
<1>6. (reward * n) \div top \in Nat /\ (reward * m) \div top \in Nat
  BY <1>3, <1>5, Division
<1>7. (reward * n) \div top <= reward
  <2>1. reward * top = top * reward
    BY <1>3
  <2> QED
    BY <1>3, <1>5, <2>1, QuotientBound
<1>8. (reward * n) \div top <= (reward * m) \div top
  <2> DEFINE k == (reward * m) \div top
             l == (reward * n) \div top
  <2>1. top * l <= reward * n /\ reward * m < top * k + top
    BY <1>3, <1>5, Division
  <2>2. k \in Nat /\ l \in Nat
    BY <1>6
  <2> HIDE DEF k, l
  <2>3. SUFFICES ASSUME k + 1 <= l PROVE FALSE
    BY <2>2 DEF k, l
  <2>4. top * (k + 1) <= top * l /\ top * (k + 1) \in Nat
    BY <1>3, <2>2, <2>3, ProductMonotone
  <2>5. top * (k + 1) = top * k + top
    BY <1>3, <2>2
  <2> QED
    BY <1>3, <1>5, <2>1, <2>2, <2>4, <2>5
<1>9. n = top => (reward * n) \div top = reward
  <2> SUFFICES ASSUME n = top PROVE (reward * top) \div top = reward
    OBVIOUS
  <2> DEFINE k == (reward * top) \div top
  <2>1. reward * top \in Nat
    BY <1>3
  <2>2. k \in Nat /\ reward * top < top * k + top
    BY <1>3, <2>1, Division
  <2>3. k <= reward
    BY <1>7
  <2> HIDE DEF k
  <2>4. SUFFICES ASSUME k + 1 <= reward PROVE FALSE
    BY <2>2, <2>3 DEF k
  <2>5. top * (k + 1) <= top * reward
    BY <1>3, <2>2, <2>4, ProductMonotone
  <2>6. top * (k + 1) = top * k + top /\ top * reward = reward * top
    BY <1>3, <2>2
  <2> QED
    BY <1>3, <2>1, <2>2, <2>5, <2>6
<1> QED
  BY <1>1, <1>2, <1>4, <1>6, <1>7, <1>8, <1>9

(* The staking bonus of coal, for any stake and whatever the top balance   *)
(* of the last epoch was: between one and thirteen times the reward (the   *)
(* comment beside it says two), all of it for the top balance and more,    *)
(* and never less for a larger stake of the same age.                      *)
THEOREM StakingIsBounded ==
  ASSUME NEW cfg, cfg.top_balance \in Nat, NEW reward \in Nat, NEW t \in Nat,
         NEW p, p.balance \in Nat, NEW q, q.balance \in Nat,
         p.balance <= q.balance, p.last_stake_at = q.last_stake_at
  PROVE  /\ reward <= WithStaking(cfg, p, reward, t)
         /\ WithStaking(cfg, p, reward, t) <= 13 * reward
         /\ WithStaking(cfg, p, reward, t) <= WithStaking(cfg, q, reward, t)
         /\ StakeIsActive(p, t) /\ cfg.top_balance > 0 /\ p.balance >= cfg.top_balance =>
              WithStaking(cfg, p, reward, t) = 13 * reward
<1>1. CASE cfg.top_balance > 0
  <2> DEFINE sp == StakingReward(cfg, p, reward)
             sq == StakingReward(cfg, q, reward)
  <2>1. /\ sp \in Nat /\ sq \in Nat /\ sp <= reward /\ sp <= sq
        /\ p.balance >= cfg.top_balance => sp = reward
    BY <1>1, StakingRewardFacts
  <2>2. StakeIsActive(p, t) => StakeIsActive(q, t)
    BY DEF StakeIsActive
  <2>3. /\ WithStaking(cfg, p, reward, t) = IF StakeIsActive(p, t) THEN reward + 12 * sp ELSE reward
        /\ WithStaking(cfg, q, reward, t) = IF StakeIsActive(q, t) THEN reward + 12 * sq ELSE reward
    BY <1>1 DEF WithStaking
  <2> HIDE DEF sp, sq
  <2> QED
    BY <2>1, <2>2, <2>3
<1>2. CASE ~(cfg.top_balance > 0)
  BY <1>2 DEF WithStaking
<1> QED
  BY <1>1, <1>2

(* An accepted hash: it is paid no more than it earns and no more than its *)
(* bus holds, the counters it raises stay in their width, and what it      *)
(* charges its tool is within the tool's durability and, unless the cap    *)
(* per minute cuts it, within the pay.                                     *)
THEOREM MineOutcomeFacts ==
  ASSUME NEW cfg, cfg.base_reward_rate \in U64,
         NEW p, p.last_hash_at \in Nat, p.balance \in U64,
         NEW b, b.rewards \in U64, b.theoretical_rewards \in U64,
         NEW tl, tl.durability \in Nat, tl.multiplier \in Nat,
         NEW g, g.stake \in Nat, g.total_stake \in Nat, g.total_multiplier \in Nat,
         NEW d, NEW t \in Nat,
         CanCompute(cfg, g, d),
         ~MineOutcome(cfg, p, b, tl, g, d, t).panics
  PROVE  LET out == MineOutcome(cfg, p, b, tl, g, d, t)
         IN  /\ out.reward \in Nat /\ out.reward_actual \in Nat /\ out.durability \in Nat
             /\ out.reward_actual <= b.rewards
             /\ out.reward_actual <= out.reward
             /\ p.balance + out.reward_actual \in U64
             /\ b.theoretical_rewards + out.reward \in U64
             /\ out.durability <= tl.durability
             /\ out.reward_actual < TARGET_COAL_REWARDS => out.durability <= out.reward_actual
<1> DEFINE base == BaseReward(cfg, d)
           staked == WithStaking(cfg, p, base, t)
           timely == WithLivenessPenalty(p, staked, t)
           tool_reward == ToolReward(tl, timely)
           worked == timely + tool_reward
           stake_reward == CalculateStakeMultiplier(g, worked)
           reward == worked + stake_reward
           actual == Payout(b, reward)
           charge == DurabilityCharge(b, timely, tool_reward)
           out == MineOutcome(cfg, p, b, tl, g, d, t)
<1>1. /\ out.reward = reward /\ out.reward_actual = actual /\ out.durability = charge
      /\ staked \in U64
      /\ p.balance + actual \in U64
      /\ b.theoretical_rewards + reward \in U64
  BY DEF MineOutcome
<1>2. timely \in Nat
  <2> HIDE DEF staked
  <2> QED
    BY <1>1, PenaltyType, U64MaxPositive
<1>3. tool_reward \in Nat /\ tool_reward <= tl.durability
  <2> HIDE DEF timely
  <2> QED
    BY <1>2, ToolRewardType
<1>4. stake_reward \in Nat
  <2>1. worked \in Nat /\ g.total_stake \in Nat \ {0}
    <3> HIDE DEF timely, tool_reward
    <3> QED
      BY <1>2, <1>3 DEF CanCompute
  <2> HIDE DEF worked
  <2>2. GuildProduct(g, worked) \in Nat
    BY <2>1 DEF GuildProduct
  <2>3. GuildProduct(g, worked) \div g.total_stake \in Nat
    BY <2>1, <2>2, Division
  <2> QED
    BY <2>3, AsU64Type, U64MaxPositive DEF CalculateStakeMultiplier
<1>5. b.rewards \in Nat /\ TARGET_COAL_REWARDS \in Nat
  BY U64MaxPositive, ConstsAssumption
<1> HIDE DEF timely, tool_reward, stake_reward, out
<1>6. reward \in Nat /\ tool_reward <= reward
  BY <1>2, <1>3, <1>4
<1>7. /\ actual \in Nat /\ actual <= b.rewards /\ actual <= reward
      /\ actual < TARGET_COAL_REWARDS => actual = reward \/ actual = b.rewards
  <2> HIDE DEF reward
  <2> QED
    BY <1>5, <1>6 DEF Payout, Lesser
<1>8. charge \in Nat /\ charge <= tool_reward /\ charge <= b.rewards
  BY <1>2, <1>3, <1>5 DEF DurabilityCharge, SatSub, Lesser
<1> HIDE DEF reward, actual, charge
<1>9. actual < TARGET_COAL_REWARDS => charge <= actual
  BY <1>3, <1>6, <1>7, <1>8
<1>10. charge <= tl.durability
  BY <1>3, <1>8
<1> QED
  BY <1>1, <1>6, <1>7, <1>8, <1>9, <1>10 DEF out
-----------------------------------------------------------------------------
(* What the proportional and smoothed rate is, whatever the epoch owed: the *)
(* old rate, or a positive rate up to a limit, and at most doubled.        *)
LEMMA SmoothedRateFacts ==
  ASSUME NEW rate \in Nat, NEW owed \in Nat, NEW target \in Nat,
         NEW limit \in Nat \ {0}, NEW decremental \in Nat \ {0}
  PROVE  LET new == CalculateNewRewardRate(rate, owed, target, limit, decremental,
                                           SMOOTHING_FACTOR)
         IN  /\ new \in Nat /\ new <= 2 * rate + 1
             /\ owed = 0 => new = rate
             /\ owed # 0 => /\ 1 <= new /\ new <= limit
                            /\ rate \div decremental <= new \/ new = limit
<1> DEFINE proportional == ProportionalRate(rate, owed, target)
           smoothed == Smoothed(proportional, rate, decremental, 2)
           new == CalculateNewRewardRate(rate, owed, target, limit, decremental,
                                         SMOOTHING_FACTOR)
<1>1. SMOOTHING_FACTOR = 2
  BY ConstsAssumption
<1>2. rate \div decremental \in Nat /\ rate \div decremental <= rate
  <2>1. 1 * rate <= decremental * rate
    OBVIOUS
  <2> QED
    BY <2>1, Division, QuotientBound
<1>3. CASE owed = 0
  BY <1>3 DEF CalculateNewRewardRate
<1>4. CASE owed # 0
  <2>1. proportional \in Nat
    <3>1. rate * target \in Nat
      OBVIOUS
    <3>2. (rate * target) \div owed \in Nat
      BY <3>1, <1>4, Division
    <3> QED
      BY <3>2, AsU64Type, U64MaxPositive DEF ProportionalRate
  <2>2. SatMul(rate, 2) \in Nat /\ SatMul(rate, 2) <= 2 * rate
    BY U64MaxPositive DEF SatMul, Lesser
  <2>3. smoothed \in Nat /\ rate \div decremental <= smoothed /\ smoothed <= 2 * rate
    <3> HIDE DEF proportional
    <3> QED
      BY <1>2, <2>1, <2>2 DEF Smoothed, Lesser, Greater
  <2>4. new = Lesser(Greater(smoothed, 1), limit)
    BY <1>1, <1>4 DEF CalculateNewRewardRate
  <2> HIDE DEF smoothed, new
  <2>5. /\ new \in Nat /\ 1 <= new /\ new <= limit
        /\ rate \div decremental <= new \/ new = limit
        /\ new <= 2 * rate + 1
    BY <1>2, <2>3, <2>4 DEF Lesser, Greater
  <2> QED
    BY <1>4, <2>5 DEF new
<1> QED
  BY <1>3, <1>4

(* The same of coal: from half of the old rate up to the rewards of a bus. *)
LEMMA CalculatedRateFacts ==
  ASSUME NEW rate \in Nat, rate <= BUS_COAL_EPOCH_REWARDS, NEW owed \in Nat
  PROVE  LET new == CalculateNewRewardRate(rate, owed, TARGET_COAL_EPOCH_REWARDS,
                                           BUS_COAL_EPOCH_REWARDS,
                                           SMOOTHING_FACTOR, SMOOTHING_FACTOR)
         IN  /\ new \in Nat /\ new <= BUS_COAL_EPOCH_REWARDS
             /\ rate \div 2 <= new
             /\ new <= 2 * rate + 1
<1> DEFINE new == CalculateNewRewardRate(rate, owed, TARGET_COAL_EPOCH_REWARDS,
                                         BUS_COAL_EPOCH_REWARDS,
                                         SMOOTHING_FACTOR, SMOOTHING_FACTOR)
<1>1. BUS_COAL_EPOCH_REWARDS \in Nat \ {0} /\ TARGET_COAL_EPOCH_REWARDS \in Nat
      /\ SMOOTHING_FACTOR \in Nat \ {0}
  BY DerivedConstants, ConstsAssumption
<1>2. rate \div 2 \in Nat /\ rate \div 2 <= rate
  OBVIOUS
<1>3. /\ new \in Nat /\ new <= 2 * rate + 1
      /\ owed = 0 => new = rate
      /\ owed # 0 => /\ 1 <= new /\ new <= BUS_COAL_EPOCH_REWARDS
                     /\ rate \div SMOOTHING_FACTOR <= new \/ new = BUS_COAL_EPOCH_REWARDS
  BY <1>1, SmoothedRateFacts
<1> HIDE DEF new
<1>4. rate \div SMOOTHING_FACTOR = rate \div 2
  BY ConstsAssumption
<1>5. /\ new \in Nat /\ new <= BUS_COAL_EPOCH_REWARDS
      /\ rate \div 2 <= new /\ new <= 2 * rate + 1
  BY <1>1, <1>2, <1>3, <1>4
<1> QED
  BY <1>5 DEF new

(* Adjusting the difficulty keeps a rate positive, and below the upper     *)
(* threshold unless the difficulty is at its lowest: a rate that was below *)
(* it has at most doubled, and a notch of difficulty halves it.            *)
LEMMA AdjustedDifficultyFacts ==
  ASSUME NEW min \in Nat \ {0}, NEW max \in Nat, 2 * min < max,
         NEW rate \in Nat, NEW difficulty \in Nat \ {0},
         difficulty > 1 => rate < max,
         NEW new \in Nat \ {0}, new <= 2 * rate + 1
  PROVE  LET r == AdjustedDifficulty(new, difficulty, min, max)
         IN  /\ r.min_difficulty \in Nat \ {0} /\ r.base_reward_rate \in Nat \ {0}
             /\ r.min_difficulty > 1 => r.base_reward_rate < max
             /\ r.base_reward_rate <= new \/ r.base_reward_rate < max
<1> DEFINE calculated == [base_reward_rate |-> new, min_difficulty |-> difficulty]
           raised == RaisedDifficulty(calculated, min)
           r == AdjustedDifficulty(new, difficulty, min, max)
<1>1. r = LoweredDifficulty(raised, max)
  BY DEF AdjustedDifficulty
<1>2. CASE new <= min
  <2>1. raised.base_reward_rate = 2 * new /\ raised.min_difficulty = difficulty + 1
    BY <1>2 DEF RaisedDifficulty
  <2>2. ~(raised.base_reward_rate >= max) /\ 2 * new < max
    BY <1>2, <2>1
  <2>3. r = raised
    BY <1>1, <2>2 DEF LoweredDifficulty
  <2> HIDE DEF raised, r
  <2>4. /\ r.min_difficulty \in Nat \ {0} /\ r.base_reward_rate \in Nat \ {0}
        /\ r.base_reward_rate < max
    BY <2>1, <2>2, <2>3
  <2> QED
    BY <2>4 DEF r
<1>3. CASE ~(new <= min)
  <2>1. raised = calculated
    BY <1>3 DEF RaisedDifficulty
  <2>2. CASE new >= max /\ difficulty > 1
    <3>1. r.base_reward_rate = new \div 2 /\ r.min_difficulty = difficulty - 1
      BY <1>1, <2>1, <2>2 DEF LoweredDifficulty
    <3>2. min <= new \div 2 /\ new \div 2 < max /\ new \div 2 \in Nat
      BY <2>2, HalvingFalls
    <3> HIDE DEF r
    <3>3. /\ r.min_difficulty \in Nat \ {0} /\ r.base_reward_rate \in Nat \ {0}
          /\ r.base_reward_rate < max
      BY <2>2, <3>1, <3>2
    <3> QED
      BY <3>3 DEF r
  <2>3. CASE ~(new >= max /\ difficulty > 1)
    <3>1. r = calculated
      BY <1>1, <2>1, <2>3 DEF LoweredDifficulty
    <3> HIDE DEF r
    <3>2. r.min_difficulty = difficulty /\ r.base_reward_rate = new
      BY <3>1
    <3>3. /\ r.min_difficulty \in Nat \ {0} /\ r.base_reward_rate \in Nat \ {0}
          /\ r.min_difficulty > 1 => r.base_reward_rate < max
          /\ r.base_reward_rate <= new
      BY <2>3, <3>2
    <3> QED
      BY <3>3 DEF r
  <2> QED
    BY <2>2, <2>3
<1> QED
  BY <1>2, <1>3

(* A reset keeps the rate in its band, whatever the epoch owed.            *)
THEOREM RetargetKeepsBand ==
  ASSUME NEW cfg, InBand(cfg), NEW owed \in Nat
  PROVE  InBand(NextCoalRate(cfg, owed))
<1> DEFINE MIN == BASE_COAL_REWARD_RATE_MIN_THRESHOLD
           MAX == BASE_COAL_REWARD_RATE_MAX_THRESHOLD
           new == CalculateNewRewardRate(cfg.base_reward_rate, owed, TARGET_COAL_EPOCH_REWARDS,
                                         BUS_COAL_EPOCH_REWARDS,
                                         SMOOTHING_FACTOR, SMOOTHING_FACTOR)
           calculated == [base_reward_rate |-> new, min_difficulty |-> cfg.min_difficulty]
           raised == RaisedDifficulty(calculated, MIN)
           next == LoweredDifficulty(raised, MAX)
<1>1. /\ new \in Nat /\ new <= BUS_COAL_EPOCH_REWARDS
      /\ cfg.base_reward_rate \div 2 <= new
      /\ new <= 2 * cfg.base_reward_rate + 1
  BY CalculatedRateFacts DEF InBand
<1>2. /\ MIN \in Nat \ {0} /\ MIN % 2 = 0 /\ MAX \in Nat
      /\ 2 * MIN < MAX /\ 2 * MIN <= BUS_COAL_EPOCH_REWARDS
      /\ BUS_COAL_EPOCH_REWARDS \in Nat
  BY ThresholdAssumption, DerivedConstants
<1>3. /\ cfg.min_difficulty \in Nat \ {0}
      /\ cfg.base_reward_rate \in Nat
      /\ MIN <= cfg.base_reward_rate
      /\ cfg.min_difficulty > 1 => cfg.base_reward_rate < MAX
  BY DEF InBand
<1>4. NextCoalRate(cfg, owed) = next
  BY DEF NextCoalRate, AdjustedDifficulty
<1> HIDE DEF new
<1>5. calculated.base_reward_rate = new /\ calculated.min_difficulty = cfg.min_difficulty
  OBVIOUS
<1> HIDE DEF MIN, MAX, calculated
<1>6. CASE new <= MIN
  <2>1. MIN <= 2 * new
    BY <1>1, <1>2, <1>3, DoublingReaches
  <2>2. raised.base_reward_rate = 2 * new /\ raised.min_difficulty = cfg.min_difficulty + 1
    BY <1>1, <1>5, <1>6 DEF RaisedDifficulty
  <2>3. ~(raised.base_reward_rate >= MAX)
    BY <1>1, <1>2, <1>6, <2>2
  <2>4. next = raised
    BY <2>3 DEF LoweredDifficulty
  <2> HIDE DEF raised, next
  <2> QED
    BY <1>1, <1>2, <1>3, <1>4, <1>6, <2>1, <2>2, <2>4 DEF InBand, MIN, MAX
<1>7. CASE ~(new <= MIN)
  <2>1. raised = calculated
    BY <1>5, <1>7 DEF RaisedDifficulty
  <2>2. CASE new >= MAX /\ cfg.min_difficulty > 1
    <3>1. next.base_reward_rate = new \div 2 /\ next.min_difficulty = cfg.min_difficulty - 1
      BY <1>5, <2>1, <2>2 DEF LoweredDifficulty
    <3>2. MIN <= new \div 2 /\ new \div 2 < MAX /\ new \div 2 \in Nat /\ new \div 2 <= new
      BY <1>1, <1>2, <1>3, <2>2, HalvingFalls
    <3> HIDE DEF raised, next
    <3> QED
      BY <1>1, <1>2, <1>3, <1>4, <2>2, <3>1, <3>2 DEF InBand, MIN, MAX
  <2>3. CASE ~(new >= MAX /\ cfg.min_difficulty > 1)
    <3>1. next = calculated
      BY <1>5, <2>1, <2>3 DEF LoweredDifficulty
    <3> HIDE DEF raised, next
    <3> QED
      BY <1>1, <1>2, <1>3, <1>4, <1>5, <1>7, <2>3, <3>1 DEF InBand, MIN, MAX
  <2> QED
    BY <2>2, <2>3
<1> QED
  BY <1>6, <1>7
=============================================================================
