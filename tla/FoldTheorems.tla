---------------------------- MODULE FoldTheorems ----------------------------
(***************************************************************************)
(* Induction over sets and numbers, for what the models add up or fold with*)
(* MapThenSumSet and MapThenFoldSet.  Properties are sets here (a set of   *)
(* subsets, a set of numbers), so that induction is an ordinary lemma.     *)
(***************************************************************************)
EXTENDS Naturals, Sequences, FiniteSetsExt, FiniteSetTheorems, FunctionTheorems, WellFoundedInduction, TLAPS

(* A set of numbers that is not empty has a least one.                       *)
LEMMA LeastOne ==
  ASSUME NEW T \in SUBSET Nat, T # {}
  PROVE  \E m \in T : \A k \in T : m <= k
<1> DEFINE R == {p \in Nat \X Nat : p[1] < p[2]}
<1>1. IsWellFoundedOn(R, Nat)
  BY NatLessThanWellFounded DEF OpToRel
<1>2. PICK m \in T : \A k \in T : <<k, m>> \notin R
  BY <1>1, WFMin
<1>3. \A k \in T : ~(k < m)
  <2> SUFFICES ASSUME NEW k \in T, k < m PROVE FALSE
    OBVIOUS
  <2>1. <<k, m>> \in R
    OBVIOUS
  <2> QED BY <2>1, <1>2
<1>4. \A k \in T : k \in Nat
  OBVIOUS
<1> QED BY <1>3, <1>4

LEMMA LargestOne ==
  ASSUME NEW n \in Nat, NEW T \in SUBSET (1 .. n), T # {}
  PROVE  \E m \in T : \A k \in T : m >= k
<1> DEFINE R == {i \in Nat : n - i \in T}
<1>1. R \in SUBSET Nat /\ R # {}
  <2>1. PICK k \in T : TRUE
    OBVIOUS
  <2>2. n - k \in Nat /\ n - (n - k) = k
    OBVIOUS
  <2> QED BY <2>1, <2>2
<1>2. PICK i \in R : \A l \in R : i <= l
  <2> HIDE DEF R
  <2> QED BY <1>1, LeastOne
<1>3. ASSUME NEW k \in T PROVE n - i >= k
  <2>1. k \in Nat /\ n - k \in Nat /\ n - (n - k) = k
    OBVIOUS
  <2>2. n - k \in R
    BY <2>1
  <2>3. i <= n - k
    BY <1>2, <2>2
  <2> QED BY <2>1, <2>3
<1> QED BY <1>2, <1>3

(* The element a fold takes from a set next.                                 *)
Pick(s) == CHOOSE x \in s : TRUE

LEMMA PickIn == ASSUME NEW s, s # {} PROVE Pick(s) \in s
BY DEF Pick

(* Induction along a fold: what holds of the empty set, and of a set if it   *)
(* holds of what is left once the next element is taken.                     *)
LEMMA FoldInduction ==
  ASSUME NEW U, IsFiniteSet(U), NEW Q \in SUBSET (SUBSET U), {} \in Q,
         \A s \in SUBSET U : s # {} /\ s \ {Pick(s)} \in Q => s \in Q
  PROVE  Q = SUBSET U
<1> SUFFICES ASSUME NEW u \in SUBSET U, u \notin Q PROVE FALSE
  OBVIOUS
<1> DEFINE T == {Cardinality(s) : s \in (SUBSET U) \ Q}
<1>1. \A s \in SUBSET U : IsFiniteSet(s) /\ Cardinality(s) \in Nat
  BY FS_Subset, FS_CardinalityType
<1>2. T \in SUBSET Nat /\ T # {}
  BY <1>1
<1> HIDE DEF T
<1>3. PICK m \in T : \A k \in T : m <= k
  BY <1>2, LeastOne
<1>4. PICK s \in (SUBSET U) \ Q : Cardinality(s) = m
  BY <1>3 DEF T
<1>5. s # {} /\ Pick(s) \in s
  BY <1>4, PickIn
<1>6. Cardinality(s \ {Pick(s)}) = m - 1 /\ m \in Nat
  BY <1>1, <1>4, <1>5, FS_RemoveElement
<1>7. s \ {Pick(s)} \in Q
  <2> SUFFICES ASSUME s \ {Pick(s)} \notin Q PROVE FALSE
    OBVIOUS
  <2>1. m - 1 \in T
    BY <1>4, <1>6 DEF T
  <2> QED BY <2>1, <1>3, <1>6
<1> QED BY <1>4, <1>5, <1>7

(* Induction along the subsets of a finite set.                              *)
LEMMA SetInduction ==
  ASSUME NEW U, IsFiniteSet(U), NEW Q \in SUBSET (SUBSET U),
         \A s \in SUBSET U : (\A r \in SUBSET s : r # s => r \in Q) => s \in Q
  PROVE  Q = SUBSET U
<1> SUFFICES ASSUME NEW u \in SUBSET U, u \notin Q PROVE FALSE
  OBVIOUS
<1> DEFINE T == {Cardinality(s) : s \in (SUBSET U) \ Q}
<1>1. \A s \in SUBSET U : IsFiniteSet(s) /\ Cardinality(s) \in Nat
  BY FS_Subset, FS_CardinalityType
<1>2. T \in SUBSET Nat /\ T # {}
  BY <1>1
<1> HIDE DEF T
<1>3. PICK m \in T : \A k \in T : m <= k
  BY <1>2, LeastOne
<1>4. PICK s \in (SUBSET U) \ Q : Cardinality(s) = m
  BY <1>3 DEF T
<1>5. PICK r \in SUBSET s : r # s /\ r \notin Q
  BY <1>4
<1>6. Cardinality(r) <= Cardinality(s) /\ Cardinality(r) # Cardinality(s)
  BY <1>1, <1>5, FS_Subset
<1>7. Cardinality(r) \in T /\ Cardinality(r) \in Nat /\ m \in Nat
  BY <1>1, <1>2, <1>3, <1>5 DEF T
<1> QED BY <1>3, <1>4, <1>6, <1>7

LEMMA CountInduction ==
  ASSUME NEW Q \in SUBSET Nat, 0 \in Q, \A n \in Q : n + 1 \in Q
  PROVE  Q = Nat
<1> SUFFICES ASSUME NEW n \in Nat, n \notin Q PROVE FALSE
  OBVIOUS
<1>1. PICK m \in Nat \ Q : \A k \in Nat \ Q : m <= k
  <2> DEFINE T == Nat \ Q
  <2> HIDE DEF T
  <2>1. T \in SUBSET Nat /\ T # {}
    BY DEF T
  <2>2. \E m \in T : \A k \in T : m <= k
    BY <2>1, LeastOne
  <2> QED BY <2>2 DEF T
<1>2. m - 1 \in Nat /\ (m - 1) + 1 = m
  BY <1>1
<1>3. m - 1 \in Q
  BY <1>1, <1>2
<1> QED BY <1>1, <1>2, <1>3

(* The function of a fold: G takes the next element, which `pick` chooses,   *)
(* and the value of the rest.                                                *)
IsFoldBy(it, base, G, U, pick) ==
  it = [s \in SUBSET U |-> IF s = {} THEN base ELSE G[<<pick[s], it[s \ {pick[s]}]>>]]

LEMMA FoldByExists ==
  ASSUME NEW U, IsFiniteSet(U), NEW V, NEW base \in V, NEW G \in [U \X V -> V],
         NEW pick, \A s \in SUBSET U : s # {} => pick[s] \in s
  PROVE  \E it \in [SUBSET U -> V] : IsFoldBy(it, base, G, U, pick)
<1> DEFINE Next(it, s) == IF s = {} THEN base ELSE G[<<pick[s], it[s \ {pick[s]}]>>]
           Upto(it, n) == \A s \in SUBSET U : Cardinality(s) <= n => it[s] = Next(it, s)
           Q == {n \in Nat : \E it \in [SUBSET U -> V] : Upto(it, n)}
<1>1. \A s \in SUBSET U : IsFiniteSet(s) /\ Cardinality(s) \in Nat
  BY FS_Subset, FS_CardinalityType
<1>2. \A it \in [SUBSET U -> V] : \A s \in SUBSET U : Next(it, s) \in V
  OBVIOUS
<1>3. \A it, s : Next(it, s) = IF s = {} THEN base ELSE G[<<pick[s], it[s \ {pick[s]}]>>]
  OBVIOUS
<1> HIDE DEF Next
<1>4. 0 \in Q
  <2> DEFINE it0 == [s \in SUBSET U |-> base]
  <2>1. it0 \in [SUBSET U -> V]
    OBVIOUS
  <2>2. \A s \in SUBSET U : Cardinality(s) <= 0 => s = {}
    BY <1>1, FS_EmptySet
  <2>3. Upto(it0, 0)
    BY <2>2, <1>3
  <2> QED BY <2>1, <2>3
<1>5. ASSUME NEW n \in Q PROVE n + 1 \in Q
  <2>1. n \in Nat
    BY <1>5
  <2>2. PICK it \in [SUBSET U -> V] : Upto(it, n)
    BY <1>5
  <2> DEFINE on == [s \in SUBSET U |-> IF Cardinality(s) <= n THEN it[s] ELSE Next(it, s)]
  <2>3. on \in [SUBSET U -> V]
    BY <1>2
  <2>4. \A s \in SUBSET U : Cardinality(s) <= n => on[s] = it[s]
    OBVIOUS
  <2>5. \A s \in SUBSET U : ~(Cardinality(s) <= n) => on[s] = Next(it, s)
    OBVIOUS
  <2>6. \A s \in SUBSET U : on[s] = Next(it, s)
    BY <2>2, <2>4, <2>5
  <2> HIDE DEF on
  <2>7. ASSUME NEW s \in SUBSET U, Cardinality(s) <= n + 1 PROVE on[s] = Next(on, s)
    <3>1. CASE s = {}
      BY <2>6, <1>3, <3>1
    <3>2. CASE s # {}
      <4>1. pick[s] \in s
        BY <3>2
      <4>2. Cardinality(s \ {pick[s]}) = Cardinality(s) - 1
        BY <4>1, <1>1, FS_RemoveElement
      <4>3. Cardinality(s \ {pick[s]}) <= n
        BY <4>2, <1>1, <2>1, <2>7
      <4>4. on[s \ {pick[s]}] = it[s \ {pick[s]}]
        BY <4>3, <2>4
      <4> QED BY <4>4, <2>6, <1>3, <3>2
    <3> QED BY <3>1, <3>2
  <2>8. Upto(on, n + 1)
    BY <2>7
  <2> QED BY <2>1, <2>3, <2>8
<1>6. Q = Nat
  <2> HIDE DEF Q
  <2>1. Q \in SUBSET Nat
    BY DEF Q
  <2> QED BY <2>1, <1>4, <1>5, CountInduction
<1>7. PICK it \in [SUBSET U -> V] : Upto(it, Cardinality(U))
  BY <1>6, <1>1
<1>8. \A s \in SUBSET U : it[s] = Next(it, s)
  BY <1>7, FS_Subset
<1>9. it = [s \in SUBSET U |-> IF s = {} THEN base ELSE G[<<pick[s], it[s \ {pick[s]}]>>]]
  BY <1>8, <1>3
<1> QED BY <1>9 DEF IsFoldBy

IsFold(it, base, G, U) ==
  it = [s \in SUBSET U |-> IF s = {} THEN base ELSE G[<<Pick(s), it[s \ {Pick(s)}]>>]]

LEMMA FoldExists ==
  ASSUME NEW U, IsFiniteSet(U), NEW V, NEW base \in V, NEW G \in [U \X V -> V]
  PROVE  \E it \in [SUBSET U -> V] : IsFold(it, base, G, U)
<1> DEFINE pick == [s \in SUBSET U |-> Pick(s)]
<1>1. \A s \in SUBSET U : pick[s] = Pick(s) /\ (s # {} => pick[s] \in s)
  BY PickIn
<1> HIDE DEF pick
<1>2. PICK it \in [SUBSET U -> V] : IsFoldBy(it, base, G, U, pick)
  BY <1>1, FoldByExists
<1>3. IsFold(it, base, G, U)
  BY <1>1, <1>2 DEF IsFold, IsFoldBy
<1> QED BY <1>3

-----------------------------------------------------------------------------
(* A function along a sequence: G takes the value before an element and the  *)
(* element.                                                                  *)
IsRun(it, base, G, q) ==
  it = [n \in 0 .. Len(q) |-> IF n = 0 THEN base ELSE G[<<it[n - 1], q[n]>>]]

LEMMA RunExists ==
  ASSUME NEW V, NEW F, NEW base \in V, NEW G \in [V \X F -> V], NEW q \in Seq(F)
  PROVE  \E it \in [0 .. Len(q) -> V] : IsRun(it, base, G, q)
<1> DEFINE Upto(it, n) == it[0] = base /\ \A k \in 1 .. n : it[k] = G[<<it[k - 1], q[k]>>]
           Q == {n \in Nat : n <= Len(q) => \E it \in [0 .. Len(q) -> V] : Upto(it, n)}
<1>1. 0 \in Q
  <2> DEFINE it0 == [n \in 0 .. Len(q) |-> base]
  <2>1. it0 \in [0 .. Len(q) -> V] /\ it0[0] = base
    OBVIOUS
  <2> QED BY <2>1
<1>2. ASSUME NEW n \in Q PROVE n + 1 \in Q
  <2> SUFFICES ASSUME n \in Nat, n + 1 <= Len(q)
               PROVE  \E it \in [0 .. Len(q) -> V] : Upto(it, n + 1)
    BY <1>2
  <2>1. PICK it \in [0 .. Len(q) -> V] : Upto(it, n)
    BY <1>2
  <2> DEFINE on == [it EXCEPT ![n + 1] = G[<<it[n], q[n + 1]>>]]
  <2>2. n \in 0 .. Len(q) /\ n + 1 \in 1 .. Len(q) /\ n + 1 \in 0 .. Len(q) /\ n + 1 # 0
    OBVIOUS
  <2>3. it[n] \in V /\ q[n + 1] \in F
    BY <2>2
  <2>4. on \in [0 .. Len(q) -> V] /\ on[n + 1] = G[<<it[n], q[n + 1]>>]
        /\ \A k \in 0 .. n : on[k] = it[k]
    BY <2>2, <2>3
  <2> HIDE DEF on
  <2>5. \A k \in 1 .. n : k \in 0 .. n /\ k - 1 \in 0 .. n
    OBVIOUS
  <2>6. \A k \in 1 .. n + 1 : k \in 1 .. n \/ k = n + 1
    OBVIOUS
  <2>7. (n + 1) - 1 = n /\ 0 \in 0 .. n /\ n \in 0 .. n
    OBVIOUS
  <2>8. Upto(on, n + 1)
    <3>1. on[0] = base
      BY <2>1, <2>4, <2>7
    <3>2. \A k \in 1 .. n : on[k] = G[<<on[k - 1], q[k]>>]
      BY <2>1, <2>4, <2>5
    <3>3. on[n + 1] = G[<<on[(n + 1) - 1], q[n + 1]>>]
      BY <2>4, <2>7
    <3> QED BY <2>6, <3>1, <3>2, <3>3
  <2> QED BY <2>4, <2>8
<1>3. Q = Nat
  <2> HIDE DEF Q
  <2>1. Q \in SUBSET Nat
    BY DEF Q
  <2> QED BY <1>1, <1>2, <2>1, CountInduction
<1>4. Len(q) \in Nat /\ Len(q) <= Len(q)
  OBVIOUS
<1>5. PICK it \in [0 .. Len(q) -> V] : Upto(it, Len(q))
  BY <1>3, <1>4
<1>6. \A n \in 0 .. Len(q) : n = 0 \/ n \in 1 .. Len(q)
  OBVIOUS
<1>7. it = [n \in 0 .. Len(q) |-> IF n = 0 THEN base ELSE G[<<it[n - 1], q[n]>>]]
  BY <1>5, <1>6
<1> QED BY <1>7 DEF IsRun

-----------------------------------------------------------------------------
(* Sums over finite sets.                                                    *)
IsSum(it, f, U) ==
  /\ it \in [SUBSET U -> Nat]
  /\ it[{}] = 0
  /\ \A s \in SUBSET U : \A x \in s : it[s] = f[x] + it[s \ {x}]

LEMMA SumExists ==
  ASSUME NEW U, IsFiniteSet(U), NEW f \in [U -> Nat]
  PROVE  \E it : /\ IsSum(it, f, U)
                 /\ it = [s \in SUBSET U |-> IF s = {} THEN 0 ELSE f[Pick(s)] + it[s \ {Pick(s)}]]
<1> DEFINE G == [p \in U \X Nat |-> f[p[1]] + p[2]]
<1>1. G \in [U \X Nat -> Nat]
  OBVIOUS
<1>2. \A x \in U, n \in Nat : G[<<x, n>>] = f[x] + n
  OBVIOUS
<1> HIDE DEF G
<1>3. PICK it \in [SUBSET U -> Nat] : IsFold(it, 0, G, U)
  BY <1>1, FoldExists
<1>4. \A s \in SUBSET U : s # {} => Pick(s) \in U /\ Pick(s) \in s /\ s \ {Pick(s)} \in SUBSET U
  BY PickIn
<1>5. it[{}] = 0 /\ \A s \in SUBSET U : s # {} => it[s] = f[Pick(s)] + it[s \ {Pick(s)}]
  BY <1>2, <1>3, <1>4 DEF IsFold
<1>6. it = [s \in SUBSET U |-> IF s = {} THEN 0 ELSE f[Pick(s)] + it[s \ {Pick(s)}]]
  BY <1>5
<1> DEFINE Q == {s \in SUBSET U : \A x \in s : it[s] = f[x] + it[s \ {x}]}
<1>7. {} \in Q
  OBVIOUS
<1>8. ASSUME NEW s \in SUBSET U, \A r \in SUBSET s : r # s => r \in Q
      PROVE  s \in Q
  <2> SUFFICES ASSUME NEW x \in s PROVE it[s] = f[x] + it[s \ {x}]
    OBVIOUS
  <2>1. CASE x = Pick(s)
    BY <1>5, <2>1
  <2>2. CASE x # Pick(s)
    <3> DEFINE p == Pick(s)
    <3>1. p \in s /\ p # x /\ p \in U
      BY <1>4, <2>2
    <3> HIDE DEF p
    <3>2. s \ {p} \in Q /\ s \ {x} \in Q /\ x \in s \ {p} /\ p \in s \ {x}
      BY <1>8, <3>1
    <3>3. (s \ {p}) \ {x} = (s \ {x}) \ {p} /\ (s \ {p}) \ {x} \in SUBSET U
      OBVIOUS
    <3>4. it[s \ {p}] = f[x] + it[(s \ {p}) \ {x}]
      BY <3>2
    <3>5. it[s \ {x}] = f[p] + it[(s \ {x}) \ {p}]
      BY <3>2
    <3>6. it[s] = f[p] + it[s \ {p}]
      BY <1>5 DEF p
    <3>7. f[p] \in Nat /\ f[x] \in Nat /\ it[(s \ {p}) \ {x}] \in Nat
      BY <3>1, <3>3
    <3>8. PICK a \in Nat, b \in Nat, c \in Nat :
            a = f[p] /\ b = f[x] /\ c = it[(s \ {p}) \ {x}]
      BY <3>7
    <3>9. it[s \ {p}] = b + c /\ it[s \ {x}] = a + c
      BY <3>3, <3>4, <3>5, <3>8
    <3>10. it[s] = a + (b + c)
      BY <3>6, <3>8, <3>9
    <3>11. a + (b + c) = b + (a + c)
      BY <3>8
    <3> HIDE DEF Q
    <3> QED BY <3>8, <3>9, <3>10, <3>11
  <2> QED BY <2>1, <2>2
<1>9. Q = SUBSET U
  <2>1. Q \in SUBSET (SUBSET U)
    OBVIOUS
  <2> HIDE DEF Q
  <2> QED BY <2>1, <1>8, SetInduction
<1> QED BY <1>5, <1>6, <1>9 DEF IsSum


LEMMA SumIs ==
  ASSUME NEW U, IsFiniteSet(U), NEW f, NEW it, IsSum(it, f, U), NEW S \in SUBSET U
  PROVE  MapThenSumSet(LAMBDA c : f[c], S) = it[S]
<1> DEFINE Runs(j) == j = [s \in SUBSET S |-> IF s = {} THEN 0 ELSE f[Pick(s)] + j[s \ {Pick(s)}]]
<1>1. \A s \in SUBSET S : s # {} => Pick(s) \in s /\ s \ {Pick(s)} \in SUBSET S /\ s \in SUBSET U
  BY PickIn
<1>2. it[{}] = 0 /\ \A s \in SUBSET S : s # {} => it[s] = f[Pick(s)] + it[s \ {Pick(s)}]
  BY <1>1 DEF IsSum
<1>3. \E j : Runs(j)
  <2> DEFINE j == [s \in SUBSET S |-> it[s]]
  <2>1. Runs(j)
    BY <1>1, <1>2
  <2> QED BY <2>1
<1>4. PICK j : Runs(j) /\ MapThenSumSet(LAMBDA c : f[c], S) = j[S]
  BY <1>3 DEF MapThenSumSet, MapThenFoldSet, Pick
<1> DEFINE Q == {s \in SUBSET S : j[s] = it[s]}
<1>5. {} \in Q
  BY <1>2, <1>4
<1>6. \A s \in SUBSET S : s # {} /\ s \ {Pick(s)} \in Q => s \in Q
  BY <1>1, <1>2, <1>4
<1>7. Q = SUBSET S
  <2>1. Q \in SUBSET (SUBSET S) /\ IsFiniteSet(S)
    BY FS_Subset
  <2> HIDE DEF Q
  <2> QED BY <2>1, <1>5, <1>6, FoldInduction
<1> QED BY <1>4, <1>7


Adds(f, S) == MapThenSumSet(LAMBDA c : f[c], S)

LEMMA AddsIs ==
  ASSUME NEW U, IsFiniteSet(U), NEW f, NEW it, IsSum(it, f, U), NEW S \in SUBSET U
  PROVE  Adds(f, S) = it[S]
BY SumIs, ZenonT(60) DEF Adds

LEMMA AddsSplit ==
  ASSUME NEW U, IsFiniteSet(U), NEW f \in [U -> Nat]
  PROVE  /\ Adds(f, {}) = 0
         /\ \A S \in SUBSET U : Adds(f, S) \in Nat
         /\ \A S \in SUBSET U : \A x \in S : Adds(f, S) = f[x] + Adds(f, S \ {x})
<1>1. PICK it : IsSum(it, f, U)
  BY SumExists
<1>2. \A S \in SUBSET U : Adds(f, S) = it[S]
  BY <1>1, SumIs, ZenonT(60) DEF Adds
<1>3. it[{}] = 0 /\ it \in [SUBSET U -> Nat] /\ {} \in SUBSET U
  BY <1>1 DEF IsSum
<1>4. \A S \in SUBSET U : \A x \in S : it[S] = f[x] + it[S \ {x}] /\ S \ {x} \in SUBSET U
  BY <1>1 DEF IsSum
<1> QED BY <1>2, <1>3, <1>4

LEMMA AddsBelow ==
  ASSUME NEW U, IsFiniteSet(U), NEW f \in [U -> Nat], NEW g \in [U -> Nat],
         NEW S \in SUBSET U, \A x \in S : f[x] <= g[x]
  PROVE  Adds(f, S) <= Adds(g, S)
<1> DEFINE Q == {s \in SUBSET S : Adds(f, s) <= Adds(g, s)}
<1>1. {} \in Q
  BY AddsSplit
<1>2. ASSUME NEW s \in SUBSET S, s # {}, s \ {Pick(s)} \in Q PROVE s \in Q
  <2> DEFINE p == Pick(s)
             r == s \ {p}
  <2>1. p \in s /\ p \in U /\ p \in S /\ s \in SUBSET U /\ r \in SUBSET U
    BY <1>2, PickIn
  <2>2. Adds(f, r) <= Adds(g, r)
    BY <1>2
  <2> HIDE DEF p
  <2>3. Adds(f, s) = f[p] + Adds(f, r) /\ Adds(g, s) = g[p] + Adds(g, r)
    BY <2>1, AddsSplit
  <2>4. f[p] \in Nat /\ g[p] \in Nat /\ Adds(f, r) \in Nat /\ Adds(g, r) \in Nat /\ f[p] <= g[p]
    BY <2>1, AddsSplit
  <2> HIDE DEF r
  <2>5. Adds(f, s) <= Adds(g, s)
    BY <2>2, <2>3, <2>4
  <2> QED BY <2>5
<1>3. Q = SUBSET S
  <2>1. Q \in SUBSET (SUBSET S) /\ IsFiniteSet(S)
    BY FS_Subset
  <2> HIDE DEF Q
  <2> QED BY <2>1, <1>1, <1>2, FoldInduction
<1> QED BY <1>3

LEMMA AddsSame ==
  ASSUME NEW U, IsFiniteSet(U), NEW f \in [U -> Nat], NEW g \in [U -> Nat],
         NEW S \in SUBSET U, \A x \in S : f[x] = g[x]
  PROVE  Adds(f, S) = Adds(g, S)
<1>1. \A x \in S : f[x] <= g[x] /\ g[x] <= f[x]
  OBVIOUS
<1>2. Adds(f, S) <= Adds(g, S) /\ Adds(g, S) <= Adds(f, S)
  BY <1>1, AddsBelow
<1>3. Adds(f, S) \in Nat /\ Adds(g, S) \in Nat
  BY AddsSplit
<1> QED BY <1>2, <1>3

(* One value changes.                                                        *)
LEMMA AddsChange ==
  ASSUME NEW U, IsFiniteSet(U), NEW f \in [U -> Nat], NEW g \in [U -> Nat],
         NEW x \in U, \A y \in U : y # x => f[y] = g[y]
  PROVE  /\ Adds(f, U) \in Nat /\ Adds(g, U) \in Nat
         /\ f[x] <= Adds(f, U)
         /\ Adds(g, U) = (Adds(f, U) - f[x]) + g[x]
<1>1. Adds(f, U) = f[x] + Adds(f, U \ {x}) /\ Adds(g, U) = g[x] + Adds(g, U \ {x})
  BY AddsSplit
<1>2. Adds(f, U \ {x}) = Adds(g, U \ {x})
  BY AddsSame
<1>3. Adds(f, U \ {x}) \in Nat /\ Adds(g, U \ {x}) \in Nat /\ f[x] \in Nat /\ g[x] \in Nat
  BY AddsSplit
<1> QED BY <1>1, <1>2, <1>3

(* What does not count may be counted as nothing.                            *)
LEMMA AddsPart ==
  ASSUME NEW U, IsFiniteSet(U), NEW f \in [U -> Nat], NEW P \in SUBSET U
  PROVE  Adds(f, P) = Adds([x \in U |-> IF x \in P THEN f[x] ELSE 0], U)
<1> DEFINE g == [x \in U |-> IF x \in P THEN f[x] ELSE 0]
           Q == {s \in SUBSET U : Adds(g, s) = Adds(f, s \cap P)}
<1>1. g \in [U -> Nat] /\ \A x \in U : g[x] = IF x \in P THEN f[x] ELSE 0
  OBVIOUS
<1> HIDE DEF g
<1>2. {} \in Q
  BY <1>1, AddsSplit
<1>3. ASSUME NEW s \in SUBSET U, s # {}, s \ {Pick(s)} \in Q PROVE s \in Q
  <2> DEFINE p == Pick(s)
             r == s \ {p}
  <2>1. p \in s /\ p \in U /\ r \in SUBSET U
    BY <1>3, PickIn
  <2>2. Adds(g, r) = Adds(f, r \cap P)
    BY <1>3
  <2> HIDE DEF p
  <2>3. Adds(g, s) = g[p] + Adds(g, r) /\ Adds(g, r) \in Nat
    BY <2>1, <1>1, AddsSplit
  <2>4. CASE p \in P
    <3>1. (s \cap P) \ {p} = r \cap P /\ p \in s \cap P /\ s \cap P \in SUBSET U
      BY <2>1, <2>4
    <3>2. Adds(f, s \cap P) = f[p] + Adds(f, r \cap P)
      BY <3>1, AddsSplit
    <3>3. g[p] = f[p]
      BY <1>1, <2>1, <2>4
    <3> QED BY <2>2, <2>3, <3>2, <3>3
  <2>5. CASE p \notin P
    <3>1. s \cap P = r \cap P
      BY <2>1, <2>5
    <3>2. g[p] = 0
      BY <1>1, <2>1, <2>5
    <3>3. Adds(g, s) = Adds(f, s \cap P)
      BY <2>2, <2>3, <3>1, <3>2
    <3> QED BY <3>3
  <2> QED BY <2>4, <2>5
<1>4. Q = SUBSET U
  <2>1. Q \in SUBSET (SUBSET U)
    OBVIOUS
  <2> HIDE DEF Q
  <2> QED BY <2>1, <1>2, <1>3, FoldInduction
<1>5. U \cap P = P
  OBVIOUS
<1> QED BY <1>4, <1>5 DEF g
-----------------------------------------------------------------------------
(* A finite set can be put in the order of a key no two elements share.      *)
Ordered(q, key, S) ==
  /\ q \in [1 .. Cardinality(S) -> S]
  /\ \A i, j \in 1 .. Cardinality(S) : i < j => key[q[i]] < key[q[j]]

LEMMA OrderedIsAll ==
  ASSUME NEW S, IsFiniteSet(S), NEW key \in [S -> Nat], NEW q, Ordered(q, key, S)
  PROVE  /\ \A i, j \in 1 .. Cardinality(S) : q[i] = q[j] => i = j
         /\ \A x \in S : \E i \in 1 .. Cardinality(S) : q[i] = x
<1> DEFINE n == Cardinality(S)
<1>1. n \in Nat /\ IsFiniteSet(1 .. n) /\ Cardinality(1 .. n) = n
  BY FS_CardinalityType, FS_Interval
<1> HIDE DEF n
<1>2. q \in [1 .. n -> S] /\ \A i, j \in 1 .. n : i < j => key[q[i]] < key[q[j]]
  BY DEF Ordered, n
<1>3. ASSUME NEW i \in 1 .. n, NEW j \in 1 .. n, q[i] = q[j] PROVE i = j
  <2>1. key[q[i]] \in Nat /\ ~(i < j) /\ ~(j < i)
    BY <1>2, <1>3
  <2> QED BY <1>1, <2>1
<1>4. q \in Injection(1 .. n, S)
  BY <1>2, <1>3, Fun_IsInj
<1>5. q \in Surjection(1 .. n, S)
  <2>1. n = Cardinality(S)
    BY DEF n
  <2>2. Cardinality(1 .. n) = Cardinality(S) <=> q \in Surjection(1 .. n, S)
    BY <1>4, FS_Injection
  <2> QED BY <1>1, <2>1, <2>2
<1>6. \A x \in S : \E i \in 1 .. n : q[i] = x
  BY <1>5 DEF Surjection
<1> QED BY <1>3, <1>6 DEF n

LEMMA OrderExists ==
  ASSUME NEW S, IsFiniteSet(S), NEW key \in [S -> Nat],
         \A x, y \in S : key[x] = key[y] => x = y
  PROVE  \E q : Ordered(q, key, S)
<1> DEFINE Q == {T \in SUBSET S : \E q : Ordered(q, key, T)}
<1>1. ASSUME NEW T \in SUBSET S, \A r \in SUBSET T : r # T => r \in Q PROVE T \in Q
  <2>1. CASE T = {}
    <3>1. Cardinality(T) = 0 /\ 1 .. 0 = {}
      BY <2>1, FS_EmptySet
    <3>2. <<>> \in [1 .. 0 -> T]
      OBVIOUS
    <3>3. Ordered(<<>>, key, T)
      BY <3>1, <3>2 DEF Ordered
    <3> QED BY <3>3
  <2>2. CASE T # {}
    <3>1. PICK m \in T : \A x \in T : key[m] <= key[x]
      <4> DEFINE R == {key[x] : x \in T}
      <4>1. R \in SUBSET Nat /\ R # {}
        BY <2>2
      <4> HIDE DEF R
      <4>2. PICK b \in R : \A k \in R : b <= k
        BY <4>1, LeastOne
      <4> QED BY <4>2 DEF R
    <3> DEFINE rest == T \ {m}
               n == Cardinality(rest)
    <3>2. rest \in SUBSET T /\ rest # T /\ m \notin rest
      BY <3>1
    <3>3. n \in Nat /\ Cardinality(T) = n + 1
      <4>1. IsFiniteSet(T) /\ IsFiniteSet(rest)
        BY FS_Subset
      <4>2. Cardinality(rest) = Cardinality(T) - 1 /\ Cardinality(T) \in Nat /\ Cardinality(rest) \in Nat
        BY <3>1, <4>1, FS_RemoveElement, FS_CardinalityType
      <4> QED BY <4>2
    <3>4. PICK q : Ordered(q, key, rest)
      BY <1>1, <3>2
    <3> HIDE DEF n
    <3>5. q \in [1 .. n -> rest] /\ \A k, l \in 1 .. n : k < l => key[q[k]] < key[q[l]]
      BY <3>4 DEF Ordered, n
    <3> DEFINE all == [k \in 1 .. n + 1 |-> IF k = 1 THEN m ELSE q[k - 1]]
    <3>6. \A k \in 1 .. n + 1 : k # 1 => k - 1 \in 1 .. n
      BY <3>3
    <3>7. all \in [1 .. n + 1 -> T] /\ \A k \in 1 .. n + 1 : all[k] = IF k = 1 THEN m ELSE q[k - 1]
      BY <3>5, <3>6
    <3>8. ASSUME NEW k \in 1 .. n + 1, NEW l \in 1 .. n + 1, k < l PROVE key[all[k]] < key[all[l]]
      <4>1. l # 1 /\ l - 1 \in 1 .. n /\ all[l] = q[l - 1]
        BY <3>3, <3>6, <3>7, <3>8
      <4>2. CASE k = 1
        <5>1. q[l - 1] \in rest /\ all[k] = m
          BY <3>5, <3>7, <4>1, <4>2
        <5>2. key[m] <= key[q[l - 1]] /\ key[m] # key[q[l - 1]] /\ key[m] \in Nat /\ key[q[l - 1]] \in Nat
          BY <3>1, <5>1
        <5> QED BY <4>1, <5>1, <5>2
      <4>3. CASE k # 1
        <5>1. k - 1 \in 1 .. n /\ all[k] = q[k - 1] /\ k - 1 < l - 1
          BY <3>3, <3>6, <3>7, <3>8, <4>3
        <5> QED BY <3>5, <4>1, <5>1
      <4> QED BY <4>2, <4>3
    <3> HIDE DEF all
    <3>9. Ordered(all, key, T)
      BY <3>3, <3>7, <3>8 DEF Ordered
    <3> QED BY <3>9
  <2> QED BY <2>1, <2>2
<1>2. Q = SUBSET S
  <2>1. Q \in SUBSET (SUBSET S)
    OBVIOUS
  <2> HIDE DEF Q
  <2> QED BY <1>1, <2>1, SetInduction
<1> QED BY <1>2
=============================================================================
