--------------------------- MODULE ForkChoice_proofs ---------------------------
(* Proofs about ForkChoice for every block tree, every choice of what the wire    *)
(* delivers and every clock: the refinement of CheckpointView, boost and votes,   *)
(* the weights along the tree, the chain of the checkpoints and the head. The last *)
(* part brings in what FFGChain_proofs proves of the state transition.             *)
EXTENDS ForkChoice, ChainStates, FiniteSetTheorems, WellFoundedInduction, TLAPS

--------------------------------------------------------------------------------
(* Induction and recursion *)

LEMMA LeastNumber ==
    ASSUME NEW T, T \subseteq Nat, T # {}
    PROVE  \E m \in T : \A k \in T : m <= k
<1>1. \E m \in T : \A k \in T : ~(<<k, m>> \in OpToRel(<, Nat))
  BY NatLessThanWellFounded, WFMin
<1>2. PICK m \in T : \A k \in T : ~(<<k, m>> \in OpToRel(<, Nat))
  BY <1>1
<1>3. \A k \in T : ~(k < m)
  BY <1>2 DEF OpToRel
<1> QED
  BY <1>3

LEMMA Induction ==
    ASSUME NEW T, 0 \in T, \A n \in Nat : n \in T => n + 1 \in T
    PROVE  \A n \in Nat : n \in T
<1> SUFFICES ASSUME NEW n \in Nat, n \notin T PROVE FALSE
  OBVIOUS
<1> DEFINE M == {k \in Nat : k \notin T}
<1>1. PICK m \in M : \A k \in M : m <= k
  <2>1. M \subseteq Nat /\ M # {}
    OBVIOUS
  <2> HIDE DEF M
  <2> QED
    BY <2>1, LeastNumber
<1>2. m \in Nat /\ m # 0
  OBVIOUS
<1>3. m - 1 \in Nat /\ m - 1 \notin M
  BY <1>1, <1>2
<1>4. m - 1 \in T
  BY <1>3
<1> QED
  BY <1>2, <1>3, <1>4

(* Descent by a rank: a property of the elements of D that each inherits from those of lower rank. *)
LEMMA RankInduction ==
    ASSUME NEW D, NEW rank, \A d \in D : rank[d] \in Nat, NEW T,
           \A d \in D : (\A e \in D : rank[e] < rank[d] => e \in T) => d \in T
    PROVE  \A d \in D : d \in T
<1> SUFFICES ASSUME NEW d \in D, d \notin T PROVE FALSE
  OBVIOUS
<1> DEFINE M == {rank[e] : e \in {x \in D : x \notin T}}
<1>1. M \subseteq Nat /\ M # {}
  OBVIOUS
<1>2. PICK m \in M : \A k \in M : m <= k
  <2> HIDE DEF M
  <2> QED
    BY <1>1, LeastNumber
<1>3. PICK e \in D : e \notin T /\ m = rank[e]
  OBVIOUS
<1>4. ASSUME NEW x \in D, rank[x] < rank[e], x \notin T PROVE FALSE
  <2>1. rank[x] \in M
    BY <1>4
  <2>2. rank[e] <= rank[x] /\ rank[e] \in Nat /\ rank[x] \in Nat
    BY <1>2, <1>3, <2>1
  <2> QED
    BY <1>4, <2>2
<1> QED
  BY <1>3, <1>4

LEMMA FiniteInduction ==
    ASSUME NEW S, IsFiniteSet(S), NEW C, {} \in C,
           \A T \in SUBSET S : \A x \in S \ T : T \in C => T \cup {x} \in C
    PROVE  S \in C
<1> DEFINE N == {n \in Nat : \A T \in SUBSET S : Cardinality(T) = n => T \in C}
<1>1. 0 \in N
  BY FS_EmptySet, FS_Subset
<1>2. ASSUME NEW n \in Nat, n \in N PROVE n + 1 \in N
  <2> SUFFICES ASSUME NEW T \in SUBSET S, Cardinality(T) = n + 1 PROVE T \in C
    OBVIOUS
  <2>1. IsFiniteSet(T)
    BY FS_Subset
  <2>2. T # {}
    <3>1. Cardinality({}) = 0 /\ n + 1 # 0
      BY FS_EmptySet
    <3> QED
      BY <3>1
  <2>3. PICK x \in T : TRUE
    BY <2>2
  <2>4. Cardinality(T \ {x}) = n
    <3>1. Cardinality(T \ {x}) = Cardinality(T) - 1
      BY <2>1, <2>3, FS_RemoveElement
    <3> QED
      BY <3>1
  <2>5. T \ {x} \in C
    BY <1>2, <2>4
  <2>6. (T \ {x}) \cup {x} \in C
    BY <2>5
  <2>7. (T \ {x}) \cup {x} = T
    BY <2>3
  <2> QED
    BY <2>6, <2>7
<1>3. \A n \in Nat : n \in N
  <2> HIDE DEF N
  <2> QED
    BY <1>1, <1>2, Induction
<1> QED
  BY <1>3, FS_CardinalityType

(* A function on D may be defined by recursion on a rank: step[d] of it depends on *)
(* its values of lower rank only.                                                  *)
IsRecursion(D, rank, V, step) ==
    /\ V # {}
    /\ \A d \in D : rank[d] \in Nat
    /\ \A d \in D : \A g \in [D -> V] : step[d][g] \in V
    /\ \A d \in D : \A g, h \in [D -> V] :
           (\A e \in D : rank[e] < rank[d] => g[e] = h[e]) => step[d][g] = step[d][h]

LEMMA RankRecursion ==
    ASSUME NEW D, NEW rank, NEW V, NEW step, IsRecursion(D, rank, V, step)
    PROVE  \E g \in [D -> V] : \A d \in D : g[d] = step[d][g]
<1>0. /\ V # {}
      /\ \A d \in D : rank[d] \in Nat
      /\ \A d \in D : \A g \in [D -> V] : step[d][g] \in V
      /\ \A d \in D : \A g, h \in [D -> V] :
             (\A e \in D : rank[e] < rank[d] => g[e] = h[e]) => step[d][g] = step[d][h]
  BY DEF IsRecursion
<1> USE <1>0
<1> DEFINE Good(n, g) == g \in [D -> V] /\ \A d \in D : rank[d] < n => g[d] = step[d][g]
           N == {n \in Nat : \E g : Good(n, g)}
<1>1. 0 \in N
  <2>1. PICK v \in V : TRUE
    OBVIOUS
  <2>2. Good(0, [d \in D |-> v])
    OBVIOUS
  <2> QED
    BY <2>2
<1>2. ASSUME NEW n \in Nat, n \in N PROVE n + 1 \in N
  <2>1. PICK g : Good(n, g)
    BY <1>2
  <2> DEFINE h == [d \in D |-> IF rank[d] < n THEN g[d] ELSE step[d][g]]
  <2>2. h \in [D -> V]
    BY <2>1
  <2>3. ASSUME NEW d \in D, rank[d] < n + 1 PROVE h[d] = step[d][h]
    <3>1. \A e \in D : rank[e] < rank[d] => g[e] = h[e]
      BY <2>3
    <3>2. step[d][g] = step[d][h]
      <4> HIDE DEF h
      <4> QED
        BY <2>1, <2>2, <3>1
    <3>3. h[d] = step[d][g]
      BY <2>1
    <3> QED
      BY <3>2, <3>3
  <2>4. Good(n + 1, h)
    BY <2>2, <2>3
  <2>5. n + 1 \in Nat /\ \E x : Good(n + 1, x)
    <3> HIDE DEF Good, h
    <3> QED
      BY <2>4
  <2> QED
    BY <2>5
<1>3. \A n \in Nat : n \in N
  <2> HIDE DEF N
  <2> QED
    BY <1>1, <1>2, Induction
<1>4. ASSUME NEW m \in Nat, NEW n \in Nat, m <= n, NEW g, NEW h, Good(m, g), Good(n, h),
             NEW d \in D, rank[d] < m
      PROVE  g[d] = h[d]
  <2> DEFINE T == {e \in D : rank[e] < m => g[e] = h[e]}
  <2>1. ASSUME NEW e \in D, \A x \in D : rank[x] < rank[e] => x \in T PROVE e \in T
    <3> SUFFICES ASSUME rank[e] < m PROVE g[e] = h[e]
      OBVIOUS
    <3>1. \A x \in D : rank[x] < rank[e] => g[x] = h[x]
      BY <2>1
    <3>2. step[e][g] = step[e][h]
      BY <1>4, <3>1
    <3> QED
      BY <1>4, <3>2
  <2>2. \A e \in D : e \in T
    <3> HIDE DEF T
    <3> QED
      BY <2>1, RankInduction
  <2> QED
    BY <1>4, <2>2
<1>5. PICK at : \A n \in Nat : Good(n, at[n])
  <2> DEFINE a == [n \in Nat |-> CHOOSE g : Good(n, g)]
  <2>1. ASSUME NEW n \in Nat PROVE Good(n, a[n])
    <3>1. \E g : Good(n, g)
      BY <1>3
    <3>2. Good(n, CHOOSE g : Good(n, g))
      <4> HIDE DEF Good
      <4> QED
        BY <3>1
    <3>3. a[n] = CHOOSE g : Good(n, g)
      OBVIOUS
    <3> QED
      BY <3>2, <3>3
  <2> HIDE DEF a, Good
  <2> QED
    BY <2>1
<1> DEFINE f == [d \in D |-> at[rank[d] + 1][d]]
<1>6. ASSUME NEW d \in D
      PROVE  rank[d] + 1 \in Nat /\ at[rank[d] + 1] \in [D -> V]
  BY <1>5
<1>7. f \in [D -> V]
  BY <1>6
<1>8. ASSUME NEW d \in D PROVE f[d] = step[d][f]
  <2> DEFINE n == rank[d] + 1
  <2>1. n \in Nat /\ at[n] \in [D -> V]
    BY <1>6
  <2>2. Good(n, at[n])
    BY <1>5, <2>1
  <2>3. \A e \in D : rank[e] < rank[d] => at[n][e] = f[e]
    <3> SUFFICES ASSUME NEW e \in D, rank[e] < rank[d] PROVE at[n][e] = f[e]
      OBVIOUS
    <3>1. rank[e] + 1 \in Nat /\ rank[e] + 1 <= n /\ rank[e] < rank[e] + 1
      BY <1>6
    <3>2. Good(rank[e] + 1, at[rank[e] + 1])
      BY <1>5, <3>1
    <3>3. at[rank[e] + 1][e] = at[n][e]
      <4> HIDE DEF Good
      <4> QED
        BY <1>4, <2>1, <2>2, <3>1, <3>2
    <3> QED
      BY <3>3
  <2>4. step[d][at[n]] = step[d][f]
    <3> HIDE DEF f, n
    <3> QED
      BY <1>7, <2>1, <2>3
  <2>5. at[n][d] = step[d][at[n]]
    BY <2>1, <2>2
  <2> QED
    BY <2>4, <2>5
<1> QED
  BY <1>7, <1>8

--------------------------------------------------------------------------------
(* Sums over finite sets. MapThenSumSet takes the elements in the order CHOOSE     *)
(* finds them (IsFold); the order does not matter (IsSum).                         *)
Pick(S) == CHOOSE x \in S : TRUE

IsFold(f, w, D) ==
    f = [S \in SUBSET D |-> IF S = {} THEN 0 ELSE w[Pick(S)] + f[S \ {Pick(S)}]]

IsSum(f, w, D) ==
    /\ f \in [SUBSET D -> Nat]
    /\ f[{}] = 0
    /\ \A S \in SUBSET D : \A x \in D \ S : f[S \cup {x}] = f[S] + w[x]

LEMMA Picked == ASSUME NEW S, S # {} PROVE Pick(S) \in S
BY DEF Pick

LEMMA SmallerSets ==
    ASSUME NEW D, IsFiniteSet(D), NEW S \in SUBSET D
    PROVE  /\ IsFiniteSet(S) /\ Cardinality(S) \in Nat
           /\ \A x \in S : Cardinality(S \ {x}) < Cardinality(S)
           /\ \A x \in D \ S : Cardinality(S) < Cardinality(S \cup {x})
<1>1. IsFiniteSet(S) /\ Cardinality(S) \in Nat
  BY FS_Subset, FS_CardinalityType
<1>2. ASSUME NEW x \in S PROVE Cardinality(S \ {x}) < Cardinality(S)
  <2>1. Cardinality(S \ {x}) = Cardinality(S) - 1
    BY <1>1, FS_RemoveElement
  <2> QED
    BY <1>1, <2>1
<1>3. ASSUME NEW x \in D \ S PROVE Cardinality(S) < Cardinality(S \cup {x})
  <2>1. Cardinality(S \cup {x}) = Cardinality(S) + 1
    BY <1>1, FS_AddElement
  <2> QED
    BY <1>1, <2>1
<1> QED
  BY <1>1, <1>2, <1>3

LEMMA FoldExists ==
    ASSUME NEW D, IsFiniteSet(D), NEW w \in [D -> Nat]
    PROVE  \E f \in [SUBSET D -> Nat] : IsFold(f, w, D)
<1> DEFINE rank == [S \in SUBSET D |-> Cardinality(S)]
           step == [S \in SUBSET D |-> [g \in [SUBSET D -> Nat] |->
                       IF S = {} THEN 0 ELSE w[Pick(S)] + g[S \ {Pick(S)}]]]
<1>1. \A S \in SUBSET D : rank[S] \in Nat
  BY SmallerSets
<1>2. ASSUME NEW S \in SUBSET D, NEW g \in [SUBSET D -> Nat]
      PROVE  step[S][g] \in Nat
  BY Picked
<1>3. ASSUME NEW S \in SUBSET D, NEW g \in [SUBSET D -> Nat], NEW h \in [SUBSET D -> Nat],
             \A e \in SUBSET D : rank[e] < rank[S] => g[e] = h[e]
      PROVE  step[S][g] = step[S][h]
  <2>1. CASE S = {}
    BY <2>1
  <2>2. CASE S # {}
    <3>1. Pick(S) \in S
      BY <2>2, Picked
    <3>2. S \ {Pick(S)} \in SUBSET D /\ Cardinality(S \ {Pick(S)}) < Cardinality(S)
      BY <3>1, SmallerSets
    <3>3. g[S \ {Pick(S)}] = h[S \ {Pick(S)}]
      BY <1>3, <3>2
    <3> QED
      BY <2>2, <3>3
  <2> QED
    BY <2>1, <2>2
<1>4. IsRecursion(SUBSET D, rank, Nat, step)
  <2> HIDE DEF rank, step
  <2> QED
    BY <1>1, <1>2, <1>3 DEF IsRecursion
<1>5. PICK f \in [SUBSET D -> Nat] : \A S \in SUBSET D : f[S] = step[S][f]
  <2> HIDE DEF rank, step
  <2> QED
    BY <1>4, RankRecursion
<1>6. IsFold(f, w, D)
  BY <1>5 DEF IsFold
<1> QED
  BY <1>6

LEMMA FoldIsSum ==
    ASSUME NEW D, IsFiniteSet(D), NEW w \in [D -> Nat], NEW f \in [SUBSET D -> Nat], IsFold(f, w, D)
    PROVE  IsSum(f, w, D)
<1> DEFINE P == SUBSET D
           rank == [S \in P |-> Cardinality(S)]
           T == {S \in P : \A x \in D \ S : f[S \cup {x}] = f[S] + w[x]}
<1>1. \A S \in P : rank[S] \in Nat
  BY SmallerSets
<1>2. \A S \in SUBSET D : f[S] = IF S = {} THEN 0 ELSE w[Pick(S)] + f[S \ {Pick(S)}]
  BY DEF IsFold
<1>3. ASSUME NEW S \in SUBSET D, \A e \in SUBSET D : rank[e] < rank[S] => e \in T,
             NEW x \in D \ S
      PROVE  f[S \cup {x}] = f[S] + w[x]
  <2> DEFINE U == S \cup {x}
             y == Pick(U)
  <2>1. U \in SUBSET D /\ y \in U /\ U # {}
    BY Picked
  <2>2. f[U] = w[y] + f[U \ {y}]
    BY <1>2, <2>1
  <2>3. CASE y = x
    <3>1. U \ {y} = S
      BY <2>3
    <3>2. f[S] \in Nat /\ w[x] \in Nat
      OBVIOUS
    <3>3. f[U] = w[x] + f[S]
      <4> HIDE DEF U, y
      <4> QED
        BY <2>2, <2>3, <3>1
    <3> HIDE DEF y
    <3> QED
      BY <3>2, <3>3
  <2>4. CASE y # x
    <3> DEFINE R == S \ {y}
    <3>1. y \in S /\ R \in SUBSET D /\ R \cup {x} = U \ {y} /\ R \cup {y} = S
      BY <2>1, <2>4
    <3>2. rank[R] < rank[S]
      BY <3>1, SmallerSets
    <3>3. R \in T
      BY <1>3, <3>1, <3>2
    <3>4. f[R \cup {x}] = f[R] + w[x] /\ f[R \cup {y}] = f[R] + w[y]
      BY <2>1, <3>1, <3>3
    <3>5. f[U] = w[y] + (f[R] + w[x]) /\ f[S] = f[R] + w[y]
      <4> HIDE DEF R, U, y
      <4> QED
        BY <2>2, <3>1, <3>4
    <3>6. f[R] \in Nat /\ w[x] \in Nat /\ w[y] \in Nat
      BY <3>1
    <3>7. f[U] = f[S] + w[x]
      <4> HIDE DEF R, U, y
      <4> QED
        BY <3>5, <3>6
    <3> QED
      BY <3>7
  <2> QED
    BY <2>3, <2>4
<1>4. \A S \in P : S \in T
  <2>1. ASSUME NEW S \in P, \A e \in P : rank[e] < rank[S] => e \in T
        PROVE  S \in T
    BY <1>3, <2>1
  <2> HIDE DEF T, rank, P
  <2> QED
    BY <1>1, <2>1, RankInduction
<1>5. f[{}] = 0
  BY <1>2
<1> QED
  BY <1>4, <1>5 DEF IsSum

(* A fold over a part of D gives what the fold over D gives for that part.        *)
LEMMA FoldOfPart ==
    ASSUME NEW D, IsFiniteSet(D), NEW w, NEW f, IsFold(f, w, D),
           NEW S \in SUBSET D, NEW g, IsFold(g, w, S)
    PROVE  g[S] = f[S]
<1> DEFINE P == SUBSET S
           rank == [U \in P |-> Cardinality(U)]
           T == {U \in P : g[U] = f[U]}
<1>1. \A U \in P : rank[U] \in Nat
  BY SmallerSets
<1>2. ASSUME NEW U \in P, \A e \in P : rank[e] < rank[U] => e \in T
      PROVE  U \in T
  <2>1. /\ f[U] = IF U = {} THEN 0 ELSE w[Pick(U)] + f[U \ {Pick(U)}]
        /\ g[U] = IF U = {} THEN 0 ELSE w[Pick(U)] + g[U \ {Pick(U)}]
    BY DEF IsFold
  <2>2. CASE U = {}
    BY <2>1, <2>2
  <2>3. CASE U # {}
    <3>1. Pick(U) \in U
      BY <2>3, Picked
    <3>2. U \ {Pick(U)} \in SUBSET S /\ rank[U \ {Pick(U)}] < rank[U]
      BY <3>1, SmallerSets
    <3>3. g[U \ {Pick(U)}] = f[U \ {Pick(U)}]
      BY <1>2, <3>2
    <3> QED
      BY <2>1, <2>3, <3>3
  <2> QED
    BY <2>2, <2>3
<1>3. \A U \in P : U \in T
  <2> HIDE DEF T, rank, P
  <2> QED
    BY <1>1, <1>2, RankInduction
<1> QED
  BY <1>3

LEMMA SumOfUnion ==
    ASSUME NEW D, IsFiniteSet(D), NEW w \in [D -> Nat], NEW f, IsSum(f, w, D),
           NEW S \in SUBSET D, NEW T \in SUBSET D, S \cap T = {}
    PROVE  f[S \cup T] = f[S] + f[T]
<1> DEFINE C == {U \in SUBSET T : f[S \cup U] = f[S] + f[U]}
<1>1. {} \in C
  <2>1. S \cup {} = S /\ f[{}] = 0 /\ f[S] \in Nat
    BY DEF IsSum
  <2> QED
    BY <2>1
<1>2. ASSUME NEW U \in SUBSET T, NEW x \in T \ U, U \in C
      PROVE  U \cup {x} \in C
  <2>1. /\ S \cup U \in SUBSET D /\ x \in D \ (S \cup U) /\ U \in SUBSET D /\ x \in D \ U
        /\ S \cup (U \cup {x}) = (S \cup U) \cup {x}
    OBVIOUS
  <2>2. /\ f[(S \cup U) \cup {x}] = f[S \cup U] + w[x]
        /\ f[U \cup {x}] = f[U] + w[x]
    BY <2>1 DEF IsSum
  <2>3. f[S] \in Nat /\ f[U] \in Nat /\ w[x] \in Nat /\ f[S \cup U] = f[S] + f[U]
    BY <1>2, <2>1 DEF IsSum
  <2>4. f[(S \cup U) \cup {x}] = (f[S] + f[U]) + w[x]
    BY <2>2, <2>3
  <2>5. f[U \cup {x}] = f[U] + w[x]
    BY <2>2
  <2>6. f[(S \cup U) \cup {x}] = f[S] + f[U \cup {x}]
    BY <2>3, <2>4, <2>5, Z3
  <2>7. f[S \cup (U \cup {x})] = f[(S \cup U) \cup {x}]
    BY <2>1, Zenon
  <2> QED
    BY <2>6, <2>7
<1>3. T \in C
  <2>1. IsFiniteSet(T)
    BY FS_Subset
  <2> HIDE DEF C
  <2> QED
    BY <1>1, <1>2, <2>1, FiniteInduction
<1> QED
  BY <1>3

LEMMA SumOfPart ==
    ASSUME NEW D, IsFiniteSet(D), NEW w \in [D -> Nat], NEW f, IsSum(f, w, D),
           NEW T \in SUBSET D, NEW S \in SUBSET T
    PROVE  f[S] \in Nat /\ f[T] \in Nat /\ f[S] <= f[T]
<1>1. S \cup (T \ S) = T /\ S \cap (T \ S) = {} /\ S \in SUBSET D /\ T \ S \in SUBSET D
  OBVIOUS
<1>2. f[T] = f[S] + f[T \ S]
  <2> DEFINE R == T \ S
  <2>1. S \cup R = T /\ S \cap R = {} /\ R \in SUBSET D
    BY <1>1
  <2> HIDE DEF R
  <2>2. f[S \cup R] = f[S] + f[R]
    BY <1>1, <2>1, SumOfUnion
  <2>3. f[T] = f[S] + f[R]
    BY <2>1, <2>2
  <2> QED
    BY <2>3 DEF R
<1>3. f[S] \in Nat /\ f[T] \in Nat /\ f[T \ S] \in Nat
  BY <1>1 DEF IsSum
<1> QED
  BY <1>2, <1>3

--------------------------------------------------------------------------------
(* Slots and epochs *)

LEMMA EpochMonotone ==
    ASSUME NEW m \in Nat, NEW n \in Nat, m <= n
    PROVE  /\ compute_epoch_at_slot(m) \in Nat /\ compute_epoch_at_slot(n) \in Nat
           /\ compute_epoch_at_slot(m) <= compute_epoch_at_slot(n)
BY SlotsAssumption DEF compute_epoch_at_slot

LEMMA SlotMonotone ==
    ASSUME NEW t \in Nat, NEW u \in Nat, t <= u
    PROVE  SlotAt(t) \in Nat /\ SlotAt(u) \in Nat /\ SlotAt(t) <= SlotAt(u)
BY TimeAssumption DEF SlotAt

(* The loop of on_tick meets the start of an epoch exactly if the epoch advances. *)
LEMMA EpochStartBetween ==
    ASSUME NEW m \in Nat, NEW n \in Nat, m <= n
    PROVE  (\E s \in m + 1 .. n : IsEpochStart(s))
                <=> compute_epoch_at_slot(m) < compute_epoch_at_slot(n)
<1>1. ASSUME NEW s \in m + 1 .. n, IsEpochStart(s)
      PROVE  compute_epoch_at_slot(m) < compute_epoch_at_slot(n)
  <2>1. s - 1 \in Nat /\ s \in Nat /\ m <= s - 1 /\ s <= n
    OBVIOUS
  <2>2. compute_epoch_at_slot(s - 1) < compute_epoch_at_slot(s)
    BY <1>1, <2>1, SlotsAssumption DEF compute_epoch_at_slot, IsEpochStart
  <2>3. /\ compute_epoch_at_slot(m) <= compute_epoch_at_slot(s - 1)
        /\ compute_epoch_at_slot(s) <= compute_epoch_at_slot(n)
        /\ {compute_epoch_at_slot(m), compute_epoch_at_slot(s - 1),
            compute_epoch_at_slot(s), compute_epoch_at_slot(n)} \subseteq Nat
    BY <2>1, EpochMonotone
  <2> QED
    BY <2>2, <2>3
<1>2. ASSUME compute_epoch_at_slot(m) < compute_epoch_at_slot(n)
      PROVE  \E s \in m + 1 .. n : IsEpochStart(s)
  <2> DEFINE N == SLOTS_PER_EPOCH
             s == compute_epoch_at_slot(n) * N
  <2>1. N \in Nat \ {0} /\ compute_epoch_at_slot(n) \in Nat
    BY SlotsAssumption, EpochMonotone
  <2>2. s \in Nat /\ s <= n
    BY <2>1 DEF compute_epoch_at_slot
  <2>3. m < s
    <3>1. compute_epoch_at_slot(m) + 1 <= compute_epoch_at_slot(n)
      BY <1>2, EpochMonotone
    <3>2. m < (compute_epoch_at_slot(m) + 1) * N
      BY <2>1 DEF compute_epoch_at_slot
    <3>3. (compute_epoch_at_slot(m) + 1) * N <= s
      BY <2>1, <3>1, EpochMonotone
    <3> QED
      BY <2>1, <2>2, <3>2, <3>3, EpochMonotone
  <2>4. IsEpochStart(s)
    BY <2>1 DEF IsEpochStart
  <2> QED
    BY <2>2, <2>3, <2>4
<1> QED
  BY <1>1, <1>2
--------------------------------------------------------------------------------
(* Types *)

LEMMA LaterType ==
    ASSUME NEW c \in Checkpoint, NEW d \in Checkpoint
    PROVE  /\ Later(c, d) \in Checkpoint
           /\ Later(c, d).epoch = IF c.epoch > d.epoch THEN c.epoch ELSE d.epoch
           /\ c.epoch \in Nat /\ d.epoch \in Nat
BY DEF Later, Checkpoint, Epoch

LEMMA AnchorType == AnchorCheckpoint \in Checkpoint /\ AnchorEpoch \in Nat
<1>1. Anchor \in Block /\ SlotOf(Anchor) \in Nat /\ Anchor \in Root
  BY TreeAssumption DEF Slot
<1> QED
  BY <1>1, EpochMonotone DEF AnchorCheckpoint, AnchorEpoch, EpochOf, Checkpoint, Epoch

(* The checkpoints in the state of a valid block and in the one pulled up from it *)
LEMMA StateTypes ==
    ASSUME NEW b \in ValidBlock
    PROVE  /\ BlockState[b].current_justified_checkpoint \in Checkpoint
           /\ BlockState[b].finalized_checkpoint \in Checkpoint
           /\ PulledUpState[b].current_justified_checkpoint \in Checkpoint
           /\ PulledUpState[b].finalized_checkpoint \in Checkpoint
           /\ {JustifiedEpochOf(b), FinalizedEpochOf(b), PulledUpJustifiedEpochOf(b),
               PulledUpFinalizedEpochOf(b)} \subseteq Nat
           /\ JustifiedEpochOf(b) <= PulledUpJustifiedEpochOf(b)
           /\ FinalizedEpochOf(b) <= PulledUpFinalizedEpochOf(b)
           /\ FinalizedEpochOf(b) <= JustifiedEpochOf(b)
           /\ PulledUpFinalizedEpochOf(b) <= PulledUpJustifiedEpochOf(b)
<1>1. /\ BlockState[b].current_justified_checkpoint \in Checkpoint
      /\ BlockState[b].finalized_checkpoint \in Checkpoint
      /\ PulledUpState[b].current_justified_checkpoint \in Checkpoint
      /\ PulledUpState[b].finalized_checkpoint \in Checkpoint
      /\ BlockState[b].current_justified_checkpoint.epoch
            <= PulledUpState[b].current_justified_checkpoint.epoch
      /\ BlockState[b].finalized_checkpoint.epoch <= PulledUpState[b].finalized_checkpoint.epoch
      /\ BlockState[b].finalized_checkpoint.epoch
            <= BlockState[b].current_justified_checkpoint.epoch
      /\ PulledUpState[b].finalized_checkpoint.epoch
            <= PulledUpState[b].current_justified_checkpoint.epoch
  BY StateAssumption DEF StatesOrdered
<1> QED
  BY <1>1 DEF JustifiedEpochOf, FinalizedEpochOf, PulledUpJustifiedEpochOf,
              PulledUpFinalizedEpochOf, Checkpoint, Epoch

(* What the type of the store says in the form the steps use it.                  *)
LEMMA StoreTypes ==
    ASSUME TypeOK
    PROVE  /\ time \in Nat /\ get_current_slot \in Nat /\ get_current_store_epoch \in Nat
           /\ justified_checkpoint \in Checkpoint
           /\ finalized_checkpoint \in Checkpoint
           /\ unrealized_justified_checkpoint \in Checkpoint
           /\ unrealized_finalized_checkpoint \in Checkpoint
           /\ blocks \subseteq Block
           /\ \A b \in blocks \ {Anchor} : b \in ValidBlock
           /\ \A b \in blocks : SlotOf(b) \in Nat /\ b # ZeroRoot
<1>1. time \in Nat
  BY DEF TypeOK
<1>2. get_current_slot \in Nat
  BY <1>1, SlotMonotone DEF get_current_slot
<1>3. get_current_store_epoch \in Nat
  BY <1>2, EpochMonotone DEF get_current_store_epoch
<1>4. blocks \subseteq Block
  BY TreeAssumption DEF TypeOK, ValidBlock
<1> QED
  BY <1>1, <1>2, <1>3, <1>4, TreeAssumption DEF TypeOK, Slot

LEMMA UpdatedByBlockType ==
    ASSUME NEW c \in Checkpoint, NEW realized \in Checkpoint, NEW unrealized \in Checkpoint,
           NEW root, realized.epoch <= unrealized.epoch
    PROVE  /\ UpdatedByBlock(c, realized, unrealized, root) \in Checkpoint
           /\ LET speaks == IF IsFromPriorEpoch(root) THEN unrealized.epoch ELSE realized.epoch
              IN  UpdatedByBlock(c, realized, unrealized, root).epoch
                    = IF speaks > c.epoch THEN speaks ELSE c.epoch
<1>1. /\ Later(realized, c) \in Checkpoint
      /\ Later(realized, c).epoch = IF realized.epoch > c.epoch THEN realized.epoch ELSE c.epoch
  BY LaterType
<1>2. /\ Later(unrealized, Later(realized, c)) \in Checkpoint
      /\ Later(unrealized, Later(realized, c)).epoch
            = IF unrealized.epoch > Later(realized, c).epoch
              THEN unrealized.epoch ELSE Later(realized, c).epoch
  BY <1>1, LaterType
<1>3. realized.epoch \in Nat /\ unrealized.epoch \in Nat /\ c.epoch \in Nat
  BY LaterType
<1>4. CASE IsFromPriorEpoch(root)
  BY <1>1, <1>2, <1>3, <1>4 DEF UpdatedByBlock
<1>5. CASE ~IsFromPriorEpoch(root)
  BY <1>1, <1>3, <1>5 DEF UpdatedByBlock
<1> QED
  BY <1>4, <1>5

LEMMA InitType == Init => TypeOK
<1> SUFFICES ASSUME Init PROVE TypeOK
  OBVIOUS
<1>1. SlotOf(Anchor) \in Nat /\ SECONDS_PER_SLOT \in Nat
  BY TreeAssumption, TimeAssumption DEF Slot
<1>2. time \in Nat
  BY <1>1 DEF Init
<1>3. NoMessage \in Message
  BY DEF NoMessage, Message, Epoch, Root, GENESIS_EPOCH, ZeroRoot
<1> QED
  BY <1>2, <1>3, AnchorType DEF Init, TypeOK

LEMMA TickType ==
    ASSUME TypeOK, NEW t \in TickTime, on_tick(t)
    PROVE  TypeOK'
<1>1. t \in Nat
  BY TimeAssumption
<1>2. justified_checkpoint' \in Checkpoint /\ finalized_checkpoint' \in Checkpoint
  BY StoreTypes, LaterType DEF on_tick
<1> QED
  BY <1>1, <1>2 DEF TypeOK, on_tick

LEMMA BlockType ==
    ASSUME TypeOK, NEW root \in Block \ {Anchor}, on_block(root)
    PROVE  TypeOK'
<1>1. root \in ValidBlock
  BY DEF on_block, IsAcceptable
<1>2. /\ justified_checkpoint' \in Checkpoint
      /\ finalized_checkpoint' \in Checkpoint
      /\ unrealized_justified_checkpoint' \in Checkpoint
      /\ unrealized_finalized_checkpoint' \in Checkpoint
  <2>1. /\ BlockState[root].current_justified_checkpoint.epoch
                <= PulledUpState[root].current_justified_checkpoint.epoch
        /\ BlockState[root].finalized_checkpoint.epoch
                <= PulledUpState[root].finalized_checkpoint.epoch
    BY <1>1, StateAssumption DEF StatesOrdered
  <2> QED
    BY <1>1, <2>1, StoreTypes, StateTypes, UpdatedByBlockType, LaterType DEF on_block
<1> QED
  BY <1>1, <1>2 DEF TypeOK, on_block, BoostAfter

LEMMA AttestationType ==
    ASSUME TypeOK, NEW a, NEW is_from_block, on_attestation(a, is_from_block),
           a.beacon_block_root \in Root, a.target \in Checkpoint
    PROVE  TypeOK'
<1>1. MessageOf(a) \in Message
  BY DEF MessageOf, Message, Checkpoint
<1>2. latest_messages' \in [Validator -> Message]
  BY <1>1 DEF on_attestation, update_latest_messages, TypeOK
<1> QED
  BY <1>2 DEF TypeOK, on_attestation

LEMMA AttesterSlashingType ==
    ASSUME TypeOK, NEW e, on_attester_slashing(e),
           e.attestation_1.attesting_indices \cap e.attestation_2.attesting_indices
                \subseteq Validator
    PROVE  TypeOK'
BY DEF TypeOK, on_attester_slashing

(* What the messages of the wire and of blocks look like to the handlers.         *)
LEMMA WireTypes ==
    ASSUME TypeOK
    PROVE  /\ \A a \in Attestation : a.slot \in Nat /\ a.beacon_block_root \in Root
                                        /\ a.target \in Checkpoint
           /\ \A root \in blocks : \A a \in BeaconBlock[root].attestations :
                a.slot \in Nat /\ a.beacon_block_root \in Root /\ a.target \in Checkpoint
           /\ \A e \in AttesterSlashing :
                e.attestation_1.attesting_indices \cap e.attestation_2.attesting_indices
                    \subseteq Validator
           /\ \A root \in blocks : \A e \in BeaconBlock[root].attester_slashings :
                e.attestation_1.attesting_indices \cap e.attestation_2.attesting_indices
                    \subseteq Validator
BY StoreTypes, WireAssumption DEF Slot

LEMMA NextType ==
    ASSUME TypeOK, [Next]_vars
    PROVE  TypeOK'
<1>1. CASE OnTick
  BY <1>1, TickType DEF OnTick
<1>2. CASE OnBlock
  BY <1>2, BlockType DEF OnBlock
<1>3. CASE OnAttestation
  BY <1>3, WireTypes, AttestationType DEF OnAttestation
<1>4. CASE OnBlockAttestation
  BY <1>4, WireTypes, AttestationType DEF OnBlockAttestation
<1>5. CASE OnAttesterSlashing
  BY <1>5, WireTypes, AttesterSlashingType DEF OnAttesterSlashing
<1>6. CASE OnBlockAttesterSlashing
  BY <1>6, WireTypes, AttesterSlashingType DEF OnBlockAttesterSlashing
<1>7. CASE UNCHANGED vars
  BY <1>7 DEF TypeOK, vars
<1> QED
  BY <1>1, <1>2, <1>3, <1>4, <1>5, <1>6, <1>7 DEF Next

(* The store keeps the shape of the Store dataclass whatever is delivered to it.  *)
THEOREM TypeCorrect == Spec => []TypeOK
BY InitType, NextType, PTL DEF Spec
--------------------------------------------------------------------------------
(* The boost *)

(* A tick within the slot keeps the current slot; any other begins a later one.   *)
LEMMA TickSlots ==
    ASSUME TypeOK, NEW t \in TickTime, on_tick(t)
    PROVE  /\ get_current_slot \in Nat /\ get_current_slot' \in Nat
           /\ get_current_slot' = SlotAt(t)
           /\ get_current_slot <= get_current_slot'
           /\ MissedSlots(t) = {} <=> get_current_slot' = get_current_slot
           /\ get_current_store_epoch \in Nat /\ get_current_store_epoch' \in Nat
           /\ get_current_store_epoch <= get_current_store_epoch'
           /\ (\E slot \in MissedSlots(t) : IsEpochStart(slot))
                <=> get_current_store_epoch < get_current_store_epoch'
<1>1. t \in Nat /\ time \in Nat /\ time <= t /\ time' = t
  BY TimeAssumption DEF on_tick, TypeOK
<1>2. get_current_slot' = SlotAt(t)
  BY <1>1 DEF get_current_slot
<1>3. /\ get_current_slot \in Nat /\ SlotAt(t) \in Nat
      /\ get_current_slot <= SlotAt(t)
  BY <1>1, SlotMonotone DEF get_current_slot
<1>4. MissedSlots(t) = {} <=> SlotAt(t) = get_current_slot
  <2>1. SlotAt(t) > get_current_slot => SlotAt(t) \in MissedSlots(t)
    BY <1>3 DEF MissedSlots
  <2>2. SlotAt(t) = get_current_slot => MissedSlots(t) = {}
    BY <1>3 DEF MissedSlots
  <2> QED
    BY <1>3, <2>1, <2>2
<1>5. get_current_store_epoch' = compute_epoch_at_slot(SlotAt(t))
  BY <1>2 DEF get_current_store_epoch
<1>6. /\ get_current_store_epoch \in Nat /\ get_current_store_epoch' \in Nat
      /\ get_current_store_epoch <= get_current_store_epoch'
  BY <1>3, <1>5, EpochMonotone DEF get_current_store_epoch
<1>7. (\E slot \in MissedSlots(t) : IsEpochStart(slot))
        <=> get_current_store_epoch < get_current_store_epoch'
  BY <1>3, <1>5, EpochStartBetween DEF get_current_store_epoch, MissedSlots
<1> QED
  BY <1>2, <1>3, <1>4, <1>6, <1>7

(* Steps other than these two leave the clock, the blocks and the boost alone.    *)
LEMMA OtherSteps ==
    ASSUME [Next]_vars, ~OnTick, ~OnBlock
    PROVE  /\ time' = time /\ blocks' = blocks
           /\ proposer_boost_root' = proposer_boost_root
           /\ justified_checkpoint' = justified_checkpoint
           /\ finalized_checkpoint' = finalized_checkpoint
           /\ unrealized_justified_checkpoint' = unrealized_justified_checkpoint
           /\ unrealized_finalized_checkpoint' = unrealized_finalized_checkpoint
           /\ get_current_slot' = get_current_slot
           /\ get_current_store_epoch' = get_current_store_epoch
<1>1. /\ time' = time /\ blocks' = blocks
      /\ proposer_boost_root' = proposer_boost_root
      /\ justified_checkpoint' = justified_checkpoint
      /\ finalized_checkpoint' = finalized_checkpoint
      /\ unrealized_justified_checkpoint' = unrealized_justified_checkpoint
      /\ unrealized_finalized_checkpoint' = unrealized_finalized_checkpoint
  BY DEF Next, vars, OnAttestation, OnBlockAttestation, OnAttesterSlashing,
         OnBlockAttesterSlashing, on_attestation, on_attester_slashing
<1> QED
  BY <1>1 DEF get_current_slot, get_current_store_epoch

LEMMA ClockOfBlockStep ==
    ASSUME NEW root, on_block(root)
    PROVE  /\ get_current_slot' = get_current_slot
           /\ get_current_store_epoch' = get_current_store_epoch
BY DEF on_block, get_current_slot, get_current_store_epoch

(* Whatever slots on_tick jumps over, a boost is gone when its slot is.           *)
THEOREM BoostStaysFresh == Spec => []BoostIsFresh
<1>1. Init => BoostIsFresh
  BY DEF Init, BoostIsFresh
<1>2. TypeOK /\ BoostIsFresh /\ [Next]_vars => BoostIsFresh'
  <2> SUFFICES ASSUME TypeOK, BoostIsFresh, [Next]_vars
               PROVE  BoostIsFresh'
    OBVIOUS
  <2>1. CASE OnTick
    <3>1. PICK t \in TickTime : on_tick(t)
      BY <2>1 DEF OnTick
    <3> QED
      BY <3>1, TickSlots DEF BoostIsFresh, on_tick
  <2>2. CASE OnBlock
    <3>1. PICK root : on_block(root)
      BY <2>2 DEF OnBlock
    <3>2. \/ proposer_boost_root' = proposer_boost_root
          \/ /\ proposer_boost_root' = root
             /\ SlotOf(root) = get_current_slot
      BY <3>1 DEF on_block, BoostAfter, IsTimely
    <3> QED
      BY <3>1, <3>2, ClockOfBlockStep DEF BoostIsFresh
  <2>3. CASE ~OnTick /\ ~OnBlock
    BY <2>3, OtherSteps DEF BoostIsFresh
  <2> QED
    BY <2>1, <2>2, <2>3
<1> QED
  BY <1>1, <1>2, TypeCorrect, PTL DEF Spec

(* No second block takes the boost over: it is only ever dropped, with its slot.  *)
THEOREM BoostStaysWithFirst == Spec => BoostIsNotHandedOver
<1> DEFINE Kept == proposer_boost_root \notin {ZeroRoot, proposer_boost_root'} =>
                       proposer_boost_root' = ZeroRoot /\ SlotAt(time') > get_current_slot
<1>1. TypeOK /\ [Next]_vars => Kept
  <2> SUFFICES ASSUME TypeOK, [Next]_vars
               PROVE  Kept
    OBVIOUS
  <2>1. CASE OnTick
    <3>1. PICK t \in TickTime : on_tick(t)
      BY <2>1 DEF OnTick
    <3>2. time' = t
      BY <3>1 DEF on_tick
    <3> QED
      BY <3>1, <3>2, TickSlots DEF on_tick
  <2>2. CASE OnBlock
    BY <2>2 DEF OnBlock, on_block, BoostAfter
  <2>3. CASE ~OnTick /\ ~OnBlock
    BY <2>3, OtherSteps
  <2> QED
    BY <2>1, <2>2, <2>3
<1>2. TypeOK /\ [Next]_vars => [Kept]_vars
  BY <1>1
<1> HIDE DEF Kept
<1>3. Spec => [][Kept]_vars
  BY <1>2, TypeCorrect, PTL DEF Spec
<1> QED
  BY <1>3 DEF Kept, BoostIsNotHandedOver

--------------------------------------------------------------------------------
(* Votes *)

(* A validator's vote is never replaced by one that is not of a later epoch, and  *)
(* never after it is known to equivocate.                                         *)
THEOREM VotesOnlyAdvance == Spec => MessagesOnlyAdvance
<1> DEFINE Advance == \A v \in Validator :
                latest_messages'[v] # latest_messages[v] =>
                    /\ v \notin equivocating_indices
                    /\ ~HasMessage(v) \/ latest_messages'[v].epoch > latest_messages[v].epoch
<1>1. ASSUME NEW a, NEW is_from_block, on_attestation(a, is_from_block)
      PROVE  Advance
  BY <1>1 DEF on_attestation, update_latest_messages, Voters, IsNewerMessage, MessageOf
<1>2. ASSUME [Next]_vars
      PROVE  Advance
  <2>1. CASE OnTick \/ OnBlock \/ OnAttesterSlashing \/ OnBlockAttesterSlashing \/ UNCHANGED vars
    BY <2>1 DEF OnTick, OnBlock, OnAttesterSlashing, OnBlockAttesterSlashing, vars,
                on_tick, on_block, on_attester_slashing
  <2>2. CASE OnAttestation \/ OnBlockAttestation
    BY <1>1, <2>2 DEF OnAttestation, OnBlockAttestation
  <2> QED
    BY <1>2, <2>1, <2>2 DEF Next
<1>3. [Next]_vars => [Advance]_vars
  BY <1>2
<1> HIDE DEF Advance
<1>4. Spec => [][Advance]_vars
  BY <1>3, PTL DEF Spec
<1> QED
  BY <1>4 DEF Advance, MessagesOnlyAdvance

(* What update_latest_messages stores has passed validate_on_attestation, and it  *)
(* stays right: blocks and target states are only added and the clock goes on.    *)
IsSupported(message) ==
    /\ message.root \in blocks
    /\ EpochOf(message.root) <= message.epoch
    /\ message.epoch <= get_current_store_epoch
    /\ [epoch |-> message.epoch,
        root |-> get_checkpoint_block(message.root, message.epoch)] \in checkpoint_states

LEMMA AttestationSupported ==
    ASSUME TypeOK, NEW a, NEW is_from_block, on_attestation(a, is_from_block),
           a.slot \in Nat, a.target \in Checkpoint
    PROVE  IsSupported(MessageOf(a))'
<1>1. /\ a.target.epoch = compute_epoch_at_slot(a.slot)
      /\ a.beacon_block_root \in blocks
      /\ SlotOf(a.beacon_block_root) <= a.slot
      /\ a.target.root = get_checkpoint_block(a.beacon_block_root, a.target.epoch)
      /\ get_current_slot >= a.slot + 1
      /\ checkpoint_states' = checkpoint_states \cup {a.target}
      /\ blocks' = blocks /\ time' = time
  BY DEF on_attestation, validate_on_attestation, IsConsistentVote
<1>2. SlotOf(a.beacon_block_root) \in Nat /\ get_current_slot \in Nat
  BY <1>1, StoreTypes
<1>3. EpochOf(a.beacon_block_root) <= a.target.epoch
  BY <1>1, <1>2, EpochMonotone DEF EpochOf
<1>4. a.target.epoch <= get_current_store_epoch
  BY <1>1, <1>2, EpochMonotone DEF get_current_store_epoch
<1>5. get_current_store_epoch' = get_current_store_epoch
  BY <1>1 DEF get_current_store_epoch, get_current_slot
<1>6. a.target = [epoch |-> a.target.epoch, root |-> a.target.root]
  BY DEF Checkpoint
<1> QED
  BY <1>1, <1>3, <1>4, <1>5, <1>6 DEF IsSupported, MessageOf

THEOREM VotesAreSupported == Spec => []MessagesAreSupported
<1>1. Init => MessagesAreSupported
  BY DEF Init, MessagesAreSupported, HasMessage
<1>2. TypeOK /\ MessagesAreSupported /\ [Next]_vars => MessagesAreSupported'
  <2> SUFFICES ASSUME TypeOK, MessagesAreSupported, [Next]_vars,
                      NEW v \in Validator, HasMessage(v)'
               PROVE  IsSupported(latest_messages[v])'
    BY DEF MessagesAreSupported, IsSupported
  <2>1. HasMessage(v) => IsSupported(latest_messages[v])
    BY DEF MessagesAreSupported, IsSupported
  <2>2. latest_messages[v] \in Message
    BY DEF TypeOK
  <2>3. CASE /\ latest_messages' = latest_messages
             /\ blocks \subseteq blocks'
             /\ checkpoint_states \subseteq checkpoint_states'
             /\ get_current_store_epoch' \in Nat
             /\ get_current_store_epoch <= get_current_store_epoch'
    BY <2>1, <2>2, <2>3, StoreTypes DEF IsSupported, HasMessage, Message, Epoch
  <2>4. ASSUME NEW a, NEW is_from_block, on_attestation(a, is_from_block),
               a.slot \in Nat, a.target \in Checkpoint
        PROVE  IsSupported(latest_messages[v])'
    <3>1. CASE v \in Voters(a)
      <4>1. latest_messages'[v] = MessageOf(a)
        BY <2>4, <3>1 DEF on_attestation, update_latest_messages
      <4> QED
        BY <2>4, <4>1, AttestationSupported DEF IsSupported
    <3>2. CASE v \notin Voters(a)
      <4>1. latest_messages'[v] = latest_messages[v]
        BY <2>4, <3>2 DEF on_attestation, update_latest_messages
      <4>2. /\ blocks' = blocks /\ time' = time
            /\ checkpoint_states \subseteq checkpoint_states'
        BY <2>4 DEF on_attestation
      <4> QED
        BY <2>1, <4>1, <4>2 DEF IsSupported, HasMessage, get_current_store_epoch, get_current_slot
    <3> QED
      BY <3>1, <3>2
  <2>5. CASE OnTick
    <3>1. PICK t \in TickTime : on_tick(t)
      BY <2>5 DEF OnTick
    <3> QED
      BY <2>3, <3>1, TickSlots DEF on_tick
  <2>6. CASE OnBlock
    <3>1. PICK root : on_block(root)
      BY <2>6 DEF OnBlock
    <3> QED
      BY <2>3, <3>1, ClockOfBlockStep, StoreTypes DEF on_block
  <2>7. CASE OnAttestation \/ OnBlockAttestation
    BY <2>4, <2>7, WireTypes DEF OnAttestation, OnBlockAttestation
  <2>8. CASE OnAttesterSlashing \/ OnBlockAttesterSlashing \/ UNCHANGED vars
    BY <2>3, <2>8, StoreTypes DEF OnAttesterSlashing, OnBlockAttesterSlashing, vars,
            on_attester_slashing, get_current_store_epoch, get_current_slot
  <2> QED
    BY <2>5, <2>6, <2>7, <2>8 DEF Next
<1> QED
  BY <1>1, <1>2, TypeCorrect, PTL DEF Spec
--------------------------------------------------------------------------------
(* Checkpoints. Beside the realized checkpoints, which have to agree with the view,*)
(* the invariant gives the epochs of the unrealized ones: they are the greatest   *)
(* among what all known blocks are pulled up to, so that the tick into a new epoch*)
(* finds in them what the view then asks for.                                     *)

Known == blocks \ {Anchor}
PulledUpJustified(S) == {AnchorEpoch} \cup {PulledUpJustifiedEpochOf(b) : b \in S}
PulledUpFinalized(S) == {AnchorEpoch} \cup {PulledUpFinalizedEpochOf(b) : b \in S}

CheckpointInv ==
    /\ \A b \in blocks : SlotOf(b) <= get_current_slot
    /\ View!Agrees(justified_checkpoint.epoch, finalized_checkpoint.epoch,
                   Known, get_current_store_epoch)
    /\ View!IsGreatest(unrealized_justified_checkpoint.epoch, PulledUpJustified(Known))
    /\ View!IsGreatest(unrealized_finalized_checkpoint.epoch, PulledUpFinalized(Known))

LEMMA GreatestWithOneMore ==
    ASSUME NEW n \in Nat, NEW m \in Nat, NEW S \in SUBSET Nat, View!IsGreatest(n, S)
    PROVE  View!IsGreatest(IF m > n THEN m ELSE n, S \cup {m})
BY DEF View!IsGreatest

(* A block that is known adds nothing: learning it again changes no epoch.        *)
LEMMA GreatestWithMember ==
    ASSUME NEW n \in Nat, NEW m \in Nat, NEW S \in SUBSET Nat, View!IsGreatest(n, S), m \in S
    PROVE  (IF m > n THEN m ELSE n) = n
BY DEF View!IsGreatest

LEMMA CandidatesType ==
    ASSUME TypeOK, NEW clock, NEW S \in SUBSET ValidBlock
    PROVE  /\ View!JustifiedCandidates(S, clock) \subseteq Nat
           /\ View!FinalizedCandidates(S, clock) \subseteq Nat
           /\ PulledUpJustified(S) \subseteq Nat
           /\ PulledUpFinalized(S) \subseteq Nat
<1>1. \A b \in S : View!VotingSource(b, clock) \in Nat /\ View!FinalitySource(b, clock) \in Nat
  BY StateTypes DEF View!VotingSource, View!FinalitySource
<1> QED
  BY <1>1, StateTypes, AnchorType
     DEF View!JustifiedCandidates, View!FinalizedCandidates, PulledUpJustified, PulledUpFinalized

LEMMA InitView == Init => CheckpointInv /\ View!Init
<1> SUFFICES ASSUME Init
             PROVE  CheckpointInv /\ View!Init
  OBVIOUS
<1>1. SlotOf(Anchor) \in Nat /\ SECONDS_PER_SLOT \in Nat \ {0}
  BY TreeAssumption, TimeAssumption DEF Slot
<1>2. get_current_slot = SlotOf(Anchor)
  BY <1>1 DEF Init, get_current_slot, SlotAt
<1>3. get_current_store_epoch = AnchorEpoch
  BY <1>2 DEF get_current_store_epoch, AnchorEpoch, EpochOf
<1>4. Known = {} /\ AnchorEpoch \in Nat
  BY AnchorType DEF Init, Known
<1>5. /\ justified_checkpoint.epoch = AnchorEpoch
      /\ finalized_checkpoint.epoch = AnchorEpoch
      /\ unrealized_justified_checkpoint.epoch = AnchorEpoch
      /\ unrealized_finalized_checkpoint.epoch = AnchorEpoch
  BY DEF Init, AnchorCheckpoint
<1>6. View!Init
  BY <1>3, <1>4, <1>5 DEF View!Init, Known
<1>7. CheckpointInv
  BY <1>1, <1>2, <1>4, <1>5 DEF CheckpointInv, View!Agrees, View!IsGreatest, Init,
        View!JustifiedCandidates, View!FinalizedCandidates, PulledUpJustified, PulledUpFinalized
<1> QED
  BY <1>6, <1>7

(* A tick into a new epoch: all known blocks are of earlier epochs, so each now    *)
(* speaks for what it is pulled up to, the greatest of which is the unrealized     *)
(* checkpoint, or is what the realized one had already.                            *)
LEMMA NewEpochAgrees ==
    ASSUME TypeOK, CheckpointInv, NEW clock \in Nat, get_current_store_epoch < clock
    PROVE  View!Agrees(Later(unrealized_justified_checkpoint, justified_checkpoint).epoch,
                       Later(unrealized_finalized_checkpoint, finalized_checkpoint).epoch,
                       Known, clock)
<1> DEFINE old == get_current_store_epoch
<1>1. \A b \in Known : b \in ValidBlock
  BY StoreTypes DEF Known
<1>2. \A b \in Known : EpochOf(b) \in Nat /\ EpochOf(b) <= old
  <2>1. \A b \in Known : SlotOf(b) \in Nat /\ SlotOf(b) <= get_current_slot
    BY StoreTypes DEF Known, CheckpointInv
  <2> QED
    BY <2>1, StoreTypes, EpochMonotone DEF EpochOf, get_current_store_epoch
<1>3. \A b \in Known : /\ View!VotingSource(b, clock) = PulledUpJustifiedEpochOf(b)
                       /\ View!FinalitySource(b, clock) = PulledUpFinalizedEpochOf(b)
  BY <1>2, StoreTypes DEF View!VotingSource, View!FinalitySource
<1>4. /\ View!JustifiedCandidates(Known, clock) = PulledUpJustified(Known)
      /\ View!FinalizedCandidates(Known, clock) = PulledUpFinalized(Known)
  BY <1>3 DEF View!JustifiedCandidates, View!FinalizedCandidates,
              PulledUpJustified, PulledUpFinalized
<1>5. \A b \in Known : /\ View!VotingSource(b, old) <= PulledUpJustifiedEpochOf(b)
                       /\ View!FinalitySource(b, old) <= PulledUpFinalizedEpochOf(b)
                       /\ View!VotingSource(b, old) \in Nat
                       /\ View!FinalitySource(b, old) \in Nat
                       /\ PulledUpJustifiedEpochOf(b) \in Nat
                       /\ PulledUpFinalizedEpochOf(b) \in Nat
  BY <1>1, StateTypes DEF View!VotingSource, View!FinalitySource
<1>6. /\ justified_checkpoint.epoch \in Nat /\ unrealized_justified_checkpoint.epoch \in Nat
      /\ finalized_checkpoint.epoch \in Nat /\ unrealized_finalized_checkpoint.epoch \in Nat
  BY StoreTypes, LaterType
<1>7. justified_checkpoint.epoch <= unrealized_justified_checkpoint.epoch
  <2>1. \/ justified_checkpoint.epoch = AnchorEpoch
        \/ \E b \in Known : justified_checkpoint.epoch = View!VotingSource(b, old)
    BY DEF CheckpointInv, View!Agrees, View!IsGreatest, View!JustifiedCandidates
  <2>2. /\ AnchorEpoch <= unrealized_justified_checkpoint.epoch
        /\ \A b \in Known : PulledUpJustifiedEpochOf(b) <= unrealized_justified_checkpoint.epoch
    BY DEF CheckpointInv, View!IsGreatest, PulledUpJustified
  <2> HIDE DEF old
  <2> QED
    BY <1>5, <1>6, <2>1, <2>2
<1>8. finalized_checkpoint.epoch <= unrealized_finalized_checkpoint.epoch
  <2>1. \/ finalized_checkpoint.epoch = AnchorEpoch
        \/ \E b \in Known : finalized_checkpoint.epoch = View!FinalitySource(b, old)
    BY DEF CheckpointInv, View!Agrees, View!IsGreatest, View!FinalizedCandidates
  <2>2. /\ AnchorEpoch <= unrealized_finalized_checkpoint.epoch
        /\ \A b \in Known : PulledUpFinalizedEpochOf(b) <= unrealized_finalized_checkpoint.epoch
    BY DEF CheckpointInv, View!IsGreatest, PulledUpFinalized
  <2> HIDE DEF old
  <2> QED
    BY <1>5, <1>6, <2>1, <2>2
<1>9. /\ Later(unrealized_justified_checkpoint, justified_checkpoint).epoch
            = unrealized_justified_checkpoint.epoch
      /\ Later(unrealized_finalized_checkpoint, finalized_checkpoint).epoch
            = unrealized_finalized_checkpoint.epoch
  BY <1>6, <1>7, <1>8 DEF Later
<1> QED
  BY <1>4, <1>9 DEF CheckpointInv, View!Agrees

LEMMA TickView ==
    ASSUME TypeOK, CheckpointInv, NEW t \in TickTime, on_tick(t)
    PROVE  CheckpointInv' /\ [View!Next]_(View!vars)
<1> DEFINE clock == get_current_store_epoch'
<1>1. /\ Known' = Known /\ blocks' = blocks
      /\ unrealized_justified_checkpoint' = unrealized_justified_checkpoint
      /\ unrealized_finalized_checkpoint' = unrealized_finalized_checkpoint
  BY DEF on_tick, Known
<1>2. \A b \in blocks : SlotOf(b) <= get_current_slot'
  BY TickSlots, StoreTypes DEF CheckpointInv
<1>3. CASE get_current_store_epoch < clock
  <2>1. /\ justified_checkpoint' = Later(unrealized_justified_checkpoint, justified_checkpoint)
        /\ finalized_checkpoint' = Later(unrealized_finalized_checkpoint, finalized_checkpoint)
    BY <1>3, TickSlots DEF on_tick
  <2>2. View!Agrees(justified_checkpoint'.epoch, finalized_checkpoint'.epoch, Known, clock)
    BY <1>3, <2>1, TickSlots, NewEpochAgrees
  <2>3. CheckpointInv'
    BY <1>1, <1>2, <2>2 DEF CheckpointInv
  <2>4. View!AdvanceEpoch
    BY <1>1, <1>3, <2>2, TickSlots DEF View!AdvanceEpoch, Known
  <2> QED
    BY <2>3, <2>4 DEF View!Next
<1>4. CASE clock = get_current_store_epoch
  <2>1. /\ justified_checkpoint' = justified_checkpoint
        /\ finalized_checkpoint' = finalized_checkpoint
    BY <1>4, TickSlots DEF on_tick
  <2>2. CheckpointInv'
    BY <1>1, <1>2, <1>4, <2>1 DEF CheckpointInv
  <2>3. UNCHANGED View!vars
    BY <1>1, <1>4, <2>1 DEF View!vars
  <2> QED
    BY <2>2, <2>3
<1> QED
  BY <1>3, <1>4, TickSlots

LEMMA BlockView ==
    ASSUME TypeOK, CheckpointInv, NEW root \in Block \ {Anchor}, on_block(root)
    PROVE  CheckpointInv' /\ [View!Next]_(View!vars)
<1> DEFINE clock == get_current_store_epoch
           j == justified_checkpoint.epoch
           f == finalized_checkpoint.epoch
           uj == unrealized_justified_checkpoint.epoch
           uf == unrealized_finalized_checkpoint.epoch
           voting == View!VotingSource(root, clock)
           finality == View!FinalitySource(root, clock)
           pulledJ == PulledUpJustifiedEpochOf(root)
           pulledF == PulledUpFinalizedEpochOf(root)
           Higher(m, n) == IF m > n THEN m ELSE n
<1>1. root \in ValidBlock /\ root # Anchor
  BY DEF on_block, IsAcceptable
<1>2. /\ get_current_slot' = get_current_slot /\ get_current_store_epoch' = clock
      /\ blocks' = blocks \cup {root} /\ Known' = Known \cup {root}
      /\ SlotOf(root) <= get_current_slot
  BY <1>1, ClockOfBlockStep DEF on_block, IsAcceptable, Known
<1>3. Known \in SUBSET ValidBlock
  BY StoreTypes DEF Known
<1>4. /\ j \in Nat /\ f \in Nat /\ uj \in Nat /\ uf \in Nat
      /\ voting \in Nat /\ finality \in Nat /\ pulledJ \in Nat /\ pulledF \in Nat
  BY <1>1, StoreTypes, LaterType, StateTypes DEF View!VotingSource, View!FinalitySource
<1>5. justified_checkpoint'.epoch = Higher(voting, j)
  <2>1. UpdatedByBlock(justified_checkpoint, BlockState[root].current_justified_checkpoint,
                       PulledUpState[root].current_justified_checkpoint, root).epoch
          = Higher(IF IsFromPriorEpoch(root)
                   THEN PulledUpState[root].current_justified_checkpoint.epoch
                   ELSE BlockState[root].current_justified_checkpoint.epoch, j)
    BY <1>1, StoreTypes, StateTypes, UpdatedByBlockType DEF JustifiedEpochOf, PulledUpJustifiedEpochOf
  <2> QED
    BY <2>1 DEF on_block, View!VotingSource, IsFromPriorEpoch, JustifiedEpochOf,
                PulledUpJustifiedEpochOf
<1>6. finalized_checkpoint'.epoch = Higher(finality, f)
  <2>1. UpdatedByBlock(finalized_checkpoint, BlockState[root].finalized_checkpoint,
                       PulledUpState[root].finalized_checkpoint, root).epoch
          = Higher(IF IsFromPriorEpoch(root)
                   THEN PulledUpState[root].finalized_checkpoint.epoch
                   ELSE BlockState[root].finalized_checkpoint.epoch, f)
    BY <1>1, StoreTypes, StateTypes, UpdatedByBlockType DEF FinalizedEpochOf, PulledUpFinalizedEpochOf
  <2> QED
    BY <2>1 DEF on_block, View!FinalitySource, IsFromPriorEpoch, FinalizedEpochOf,
                PulledUpFinalizedEpochOf
<1>7. /\ unrealized_justified_checkpoint'.epoch = Higher(pulledJ, uj)
      /\ unrealized_finalized_checkpoint'.epoch = Higher(pulledF, uf)
  BY <1>1, StoreTypes, StateTypes, LaterType
     DEF on_block, PulledUpJustifiedEpochOf, PulledUpFinalizedEpochOf
<1>8. /\ View!JustifiedCandidates(Known, clock) \in SUBSET Nat
      /\ View!FinalizedCandidates(Known, clock) \in SUBSET Nat
      /\ PulledUpJustified(Known) \in SUBSET Nat
      /\ PulledUpFinalized(Known) \in SUBSET Nat
  BY <1>3, CandidatesType
<1>9. /\ View!IsGreatest(j, View!JustifiedCandidates(Known, clock))
      /\ View!IsGreatest(f, View!FinalizedCandidates(Known, clock))
      /\ View!IsGreatest(uj, PulledUpJustified(Known))
      /\ View!IsGreatest(uf, PulledUpFinalized(Known))
  BY DEF CheckpointInv, View!Agrees
<1>10. /\ View!IsGreatest(Higher(voting, j), View!JustifiedCandidates(Known \cup {root}, clock))
       /\ View!IsGreatest(Higher(finality, f), View!FinalizedCandidates(Known \cup {root}, clock))
       /\ View!IsGreatest(Higher(pulledJ, uj), PulledUpJustified(Known \cup {root}))
       /\ View!IsGreatest(Higher(pulledF, uf), PulledUpFinalized(Known \cup {root}))
  <2> HIDE DEF voting, finality, pulledJ, pulledF, j, f, uj, uf
  <2>1. /\ View!IsGreatest(Higher(voting, j), View!JustifiedCandidates(Known, clock) \cup {voting})
        /\ View!IsGreatest(Higher(finality, f),
                           View!FinalizedCandidates(Known, clock) \cup {finality})
        /\ View!IsGreatest(Higher(pulledJ, uj), PulledUpJustified(Known) \cup {pulledJ})
        /\ View!IsGreatest(Higher(pulledF, uf), PulledUpFinalized(Known) \cup {pulledF})
    BY <1>4, <1>8, <1>9, GreatestWithOneMore
  <2>2. /\ View!JustifiedCandidates(Known \cup {root}, clock)
              = View!JustifiedCandidates(Known, clock) \cup {voting}
        /\ View!FinalizedCandidates(Known \cup {root}, clock)
              = View!FinalizedCandidates(Known, clock) \cup {finality}
        /\ PulledUpJustified(Known \cup {root}) = PulledUpJustified(Known) \cup {pulledJ}
        /\ PulledUpFinalized(Known \cup {root}) = PulledUpFinalized(Known) \cup {pulledF}
    BY DEF View!JustifiedCandidates, View!FinalizedCandidates, PulledUpJustified,
           PulledUpFinalized, voting, finality, pulledJ, pulledF
  <2> QED
    BY <2>1, <2>2
<1>11. View!Agrees(justified_checkpoint'.epoch, finalized_checkpoint'.epoch,
                   Known \cup {root}, clock)
  BY <1>5, <1>6, <1>10 DEF View!Agrees
<1>12. CheckpointInv'
  <2>1. \A b \in blocks' : SlotOf(b) <= get_current_slot'
    BY <1>2 DEF CheckpointInv
  <2> QED
    BY <1>2, <1>7, <1>10, <1>11, <2>1 DEF CheckpointInv
<1>13. [View!Next]_(View!vars)
  <2>1. CASE root \in Known
    <3>1. Known' = Known
      BY <1>2, <2>1
    <3>2. /\ voting \in View!JustifiedCandidates(Known, clock)
          /\ finality \in View!FinalizedCandidates(Known, clock)
      BY <2>1 DEF View!JustifiedCandidates, View!FinalizedCandidates
    <3>3. Higher(voting, j) = j /\ Higher(finality, f) = f
      <4> HIDE DEF voting, finality, j, f
      <4> QED
        BY <1>4, <1>8, <1>9, <3>2, GreatestWithMember
    <3> QED
      BY <1>2, <1>5, <1>6, <3>1, <3>3 DEF View!vars, Known
  <2>2. CASE root \notin Known
    <3>1. EpochOf(root) <= clock
      <4>1. SlotOf(root) \in Nat
        BY TreeAssumption DEF Slot
      <4> QED
        BY <1>2, <4>1, StoreTypes, EpochMonotone DEF EpochOf, get_current_store_epoch
    <3>2. View!Learn(root)
      BY <1>2, <1>11, <2>2, <3>1 DEF View!Learn, Known
    <3> QED
      BY <1>1, <3>2 DEF View!Next
  <2> QED
    BY <2>1, <2>2
<1> QED
  BY <1>12, <1>13

LEMMA StepView ==
    ASSUME TypeOK, CheckpointInv, [Next]_vars
    PROVE  CheckpointInv' /\ [View!Next]_(View!vars)
<1>1. CASE OnTick
  BY <1>1, TickView DEF OnTick
<1>2. CASE OnBlock
  BY <1>2, BlockView DEF OnBlock
<1>3. CASE ~OnTick /\ ~OnBlock
  BY <1>3, OtherSteps DEF CheckpointInv, Known, View!vars
<1> QED
  BY <1>1, <1>2, <1>3

(* The store implements the view: whatever the order in which blocks arrive, how   *)
(* often each comes, and whatever ticks were missed, the epochs of its checkpoints *)
(* are the greatest the known blocks speak for at the epoch of its clock.          *)
THEOREM Implementation == Spec => ImplementsView
<1>1. Init => CheckpointInv /\ View!Init
  BY InitView
<1>2. TypeOK /\ CheckpointInv /\ [Next]_vars => CheckpointInv' /\ [View!Next]_(View!vars)
  BY StepView
<1> QED
  BY <1>1, <1>2, TypeCorrect, PTL DEF Spec, ImplementsView, View!Spec

--------------------------------------------------------------------------------
(* The block tree *)

LEMMA BlockSlots ==
    /\ Anchor \in Block /\ ZeroRoot \notin Block
    /\ \A b \in Block : SlotOf(b) \in Nat
    /\ \A b \in Block \ {Anchor} : ParentOf(b) \in Block /\ SlotOf(ParentOf(b)) < SlotOf(b)
BY TreeAssumption DEF Slot

(* get_ancestor, as the code runs it: it stops at the slot, or goes to the parent. *)
LEMMA AncestorWalk ==
    ASSUME NEW slot \in Nat, NEW root \in Block
    PROVE  /\ get_ancestor(root, slot) \in Block \cup {ZeroRoot}
           /\ get_ancestor(root, slot) =
                IF SlotOf(root) <= slot THEN root
                ELSE IF root = Anchor THEN ZeroRoot
                ELSE get_ancestor(ParentOf(root), slot)
<1> DEFINE V == Block \cup {ZeroRoot}
           rank == [r \in Block |-> SlotOf(r)]
           step == [r \in Block |-> [g \in [Block -> V] |->
                       IF SlotOf(r) <= slot THEN r
                       ELSE IF r = Anchor THEN ZeroRoot
                       ELSE g[ParentOf(r)]]]
           IsWalk(f) == f = [r \in Block |-> IF SlotOf(r) <= slot THEN r
                                             ELSE IF r = Anchor THEN ZeroRoot
                                             ELSE f[ParentOf(r)]]
           walk == CHOOSE f : IsWalk(f)
<1>1. \E g \in [Block -> V] : \A r \in Block : g[r] = step[r][g]
  <2>1. \A r \in Block : rank[r] \in Nat
    BY BlockSlots
  <2>2. V # {}
    OBVIOUS
  <2>3. \A r \in Block : \A g \in [Block -> V] : step[r][g] \in V
    BY BlockSlots
  <2>4. ASSUME NEW r \in Block, NEW g \in [Block -> V], NEW h \in [Block -> V],
               \A e \in Block : rank[e] < rank[r] => g[e] = h[e]
        PROVE  step[r][g] = step[r][h]
    BY <2>4, BlockSlots
  <2>5. IsRecursion(Block, rank, V, step)
    <3> HIDE DEF V, rank, step
    <3> QED
      BY <2>1, <2>2, <2>3, <2>4 DEF IsRecursion
  <2> HIDE DEF V, rank, step
  <2> QED
    BY <2>5, RankRecursion
<1>2. PICK g \in [Block -> V] : \A r \in Block : g[r] = step[r][g]
  BY <1>1
<1>3. IsWalk(g)
  BY <1>2
<1>4. IsWalk(walk)
  <2> HIDE DEF IsWalk
  <2> QED
    BY <1>3
<1>5. \A r \in Block : get_ancestor(r, slot) = walk[r]
  BY DEF get_ancestor
<1>6. \A r \in Block : walk[r] = IF SlotOf(r) <= slot THEN r
                                 ELSE IF r = Anchor THEN ZeroRoot
                                 ELSE walk[ParentOf(r)]
  <2> HIDE DEF walk
  <2> QED
    BY <1>4
<1>7. \A r \in Block : walk[r] \in V
  <2> DEFINE T == {r \in Block : walk[r] \in V}
  <2>1. \A r \in Block : rank[r] \in Nat
    BY BlockSlots
  <2>2. ASSUME NEW r \in Block, \A e \in Block : rank[e] < rank[r] => e \in T
        PROVE  r \in T
    <3> HIDE DEF walk
    <3> QED
      BY <1>6, <2>2, BlockSlots
  <2>3. \A r \in Block : r \in T
    <3> HIDE DEF T, rank
    <3> QED
      BY <2>1, <2>2, RankInduction
  <2> QED
    BY <2>3
<1> HIDE DEF walk
<1> QED
  BY <1>5, <1>6, <1>7, BlockSlots

(* What every block inherits from its parent holds of all, if it holds of the     *)
(* anchor.                                                                        *)
LEMMA BlockInduction ==
    ASSUME NEW T, Anchor \in T,
           \A r \in Block \ {Anchor} : ParentOf(r) \in T => r \in T
    PROVE  \A r \in Block : r \in T
<1> DEFINE rank == [r \in Block |-> SlotOf(r)]
<1>1. \A r \in Block : rank[r] \in Nat
  BY BlockSlots
<1>2. ASSUME NEW r \in Block, \A e \in Block : rank[e] < rank[r] => e \in T
      PROVE  r \in T
  BY <1>2, BlockSlots
<1> HIDE DEF rank
<1> QED
  BY <1>1, <1>2, RankInduction

LEMMA AncestorSlot ==
    ASSUME NEW slot \in Nat, NEW root \in Block, get_ancestor(root, slot) \in Block
    PROVE  /\ SlotOf(get_ancestor(root, slot)) <= slot
           /\ SlotOf(get_ancestor(root, slot)) <= SlotOf(root)
<1> DEFINE T == {r \in Block : get_ancestor(r, slot) \in Block =>
                    /\ SlotOf(get_ancestor(r, slot)) <= slot
                    /\ SlotOf(get_ancestor(r, slot)) <= SlotOf(r)}
<1>1. Anchor \in T
  BY AncestorWalk, BlockSlots
<1>2. ASSUME NEW r \in Block \ {Anchor}, ParentOf(r) \in T
      PROVE  r \in T
  <2>1. CASE SlotOf(r) <= slot
    BY <2>1, AncestorWalk, BlockSlots
  <2>2. CASE ~(SlotOf(r) <= slot)
    <3>1. get_ancestor(r, slot) = get_ancestor(ParentOf(r), slot)
      BY <2>2, AncestorWalk
    <3> QED
      BY <1>2, <3>1, BlockSlots
  <2> QED
    BY <2>1, <2>2
<1>3. root \in T
  <2> HIDE DEF T
  <2> QED
    BY <1>1, <1>2, BlockInduction
<1> QED
  BY <1>3

(* Two walks in one go: the ancestor at a slot of the ancestor at a later slot.   *)
LEMMA AncestorOfAncestor ==
    ASSUME NEW s \in Nat, NEW t \in Nat, s <= t, NEW root \in Block,
           get_ancestor(root, t) \in Block
    PROVE  get_ancestor(root, s) = get_ancestor(get_ancestor(root, t), s)
<1> DEFINE T == {r \in Block : get_ancestor(r, t) \in Block =>
                    get_ancestor(r, s) = get_ancestor(get_ancestor(r, t), s)}
<1>1. Anchor \in T
  BY AncestorWalk, BlockSlots
<1>2. ASSUME NEW r \in Block \ {Anchor}, ParentOf(r) \in T
      PROVE  r \in T
  <2>1. CASE SlotOf(r) <= t
    BY <2>1, AncestorWalk
  <2>2. CASE ~(SlotOf(r) <= t)
    <3>1. get_ancestor(r, t) = get_ancestor(ParentOf(r), t)
      BY <2>2, AncestorWalk
    <3>2. ~(SlotOf(r) <= s)
      BY <2>2, BlockSlots
    <3>3. get_ancestor(r, s) = get_ancestor(ParentOf(r), s)
      BY <3>2, AncestorWalk
    <3> QED
      BY <1>2, <3>1, <3>3
  <2> QED
    BY <2>1, <2>2
<1>3. root \in T
  <2> HIDE DEF T
  <2> QED
    BY <1>1, <1>2, BlockInduction
<1> QED
  BY <1>3

(* The chain of every block begins with the anchor, and no walk to a slot from     *)
(* there on leaves the tree.                                                       *)
LEMMA AnchorFirst ==
    ASSUME NEW root \in Block
    PROVE  /\ root # Anchor => SlotOf(Anchor) < SlotOf(root)
           /\ get_ancestor(root, SlotOf(Anchor)) = Anchor
<1> DEFINE T == {r \in Block : /\ r # Anchor => SlotOf(Anchor) < SlotOf(r)
                               /\ get_ancestor(r, SlotOf(Anchor)) = Anchor}
<1>1. Anchor \in T
  BY AncestorWalk, BlockSlots
<1>2. ASSUME NEW r \in Block \ {Anchor}, ParentOf(r) \in T
      PROVE  r \in T
  <2>1. SlotOf(Anchor) < SlotOf(r)
    BY <1>2, BlockSlots
  <2>2. get_ancestor(r, SlotOf(Anchor)) = get_ancestor(ParentOf(r), SlotOf(Anchor))
    BY <2>1, AncestorWalk, BlockSlots
  <2> QED
    BY <1>2, <2>1, <2>2
<1>3. root \in T
  <2> HIDE DEF T
  <2> QED
    BY <1>1, <1>2, BlockInduction
<1> QED
  BY <1>3

LEMMA AncestorExists ==
    ASSUME NEW slot \in Nat, SlotOf(Anchor) <= slot, NEW root \in Block
    PROVE  get_ancestor(root, slot) \in Block
<1> DEFINE T == {r \in Block : get_ancestor(r, slot) \in Block}
<1>1. Anchor \in T
  BY AncestorWalk, BlockSlots
<1>2. ASSUME NEW r \in Block \ {Anchor}, ParentOf(r) \in T
      PROVE  r \in T
  BY <1>2, AncestorWalk
<1>3. root \in T
  <2> HIDE DEF T
  <2> QED
    BY <1>1, <1>2, BlockInduction
<1> QED
  BY <1>3

(* A block descends from every ancestor of it, and from itself.                   *)
LEMMA AncestorIsAncestor ==
    ASSUME NEW slot \in Nat, NEW root \in Block, NEW a \in Block, get_ancestor(root, slot) = a
    PROVE  IsDescendant(root, a)
<1>1. SlotOf(a) \in Nat /\ SlotOf(a) <= slot
  BY AncestorSlot, BlockSlots
<1>2. get_ancestor(root, SlotOf(a)) = get_ancestor(a, SlotOf(a))
  BY <1>1, AncestorOfAncestor
<1> QED
  BY <1>1, <1>2, AncestorWalk DEF IsDescendant

(* What descends from a child descends from its parent, and from no other child.  *)
LEMMA ParentOfAncestor ==
    ASSUME NEW r \in Block, NEW c \in Block \ {Anchor}, IsDescendant(r, c)
    PROVE  IsDescendant(r, ParentOf(c))
<1>1. /\ SlotOf(c) \in Nat /\ SlotOf(ParentOf(c)) \in Nat /\ ParentOf(c) \in Block
      /\ SlotOf(ParentOf(c)) < SlotOf(c)
  BY BlockSlots
<1>2. get_ancestor(r, SlotOf(ParentOf(c))) = get_ancestor(c, SlotOf(ParentOf(c)))
  BY <1>1, AncestorOfAncestor DEF IsDescendant
<1>3. get_ancestor(c, SlotOf(ParentOf(c))) = ParentOf(c)
  BY <1>1, AncestorWalk
<1> QED
  BY <1>2, <1>3 DEF IsDescendant

LEMMA SiblingsApart ==
    ASSUME NEW r \in Block, NEW c \in Block \ {Anchor}, NEW d \in Block \ {Anchor},
           ParentOf(c) = ParentOf(d), IsDescendant(r, c), IsDescendant(r, d)
    PROVE  c = d
<1>1. ASSUME NEW a \in Block \ {Anchor}, NEW b \in Block \ {Anchor}, ParentOf(a) = ParentOf(b),
             IsDescendant(r, a), IsDescendant(r, b), SlotOf(a) <= SlotOf(b)
      PROVE  a = b
  <2>1. /\ SlotOf(a) \in Nat /\ SlotOf(b) \in Nat /\ ParentOf(b) \in Block
        /\ SlotOf(ParentOf(b)) < SlotOf(a)
    BY <1>1, BlockSlots
  <2>2. get_ancestor(b, SlotOf(a)) = a
    BY <1>1, <2>1, AncestorOfAncestor DEF IsDescendant
  <2>3. CASE SlotOf(b) <= SlotOf(a)
    BY <2>1, <2>2, <2>3, AncestorWalk
  <2>4. CASE ~(SlotOf(b) <= SlotOf(a))
    <3>1. get_ancestor(b, SlotOf(a)) = ParentOf(b)
      BY <2>1, <2>4, AncestorWalk, BlockSlots
    <3> QED
      BY <2>1, <2>2, <3>1
  <2> QED
    BY <2>3, <2>4
<1>2. SlotOf(c) <= SlotOf(d) \/ SlotOf(d) <= SlotOf(c)
  BY BlockSlots
<1> QED
  BY <1>1, <1>2
--------------------------------------------------------------------------------
(* Weights *)

LEMMA BalanceSums ==
    \E f : /\ IsSum(f, EffectiveBalance, Validator)
           /\ \A S \in SUBSET Validator : SumOfBalances(S) = f[S]
<1>1. IsFiniteSet(Validator) /\ EffectiveBalance \in [Validator -> Nat]
  BY RegistryAssumption
<1>2. PICK f \in [SUBSET Validator -> Nat] : IsFold(f, EffectiveBalance, Validator)
  BY <1>1, FoldExists
<1>3. IsSum(f, EffectiveBalance, Validator)
  BY <1>1, <1>2, FoldIsSum
<1>4. ASSUME NEW S \in SUBSET Validator
      PROVE  SumOfBalances(S) = f[S]
  <2> DEFINE IsIt(g) == g = [s \in SUBSET S |-> IF s = {} THEN 0
                                  ELSE EffectiveBalance[Pick(s)] + g[s \ {Pick(s)}]]
             h == [s \in SUBSET S |-> f[s]]
             it == CHOOSE g : IsIt(g)
  <2>1. IsIt(h)
    <3>1. \A s \in SUBSET S : f[s] = IF s = {} THEN 0
                                     ELSE EffectiveBalance[Pick(s)] + f[s \ {Pick(s)}]
      BY <1>2 DEF IsFold
    <3>2. \A s \in SUBSET S : s # {} => s \ {Pick(s)} \in SUBSET S
      OBVIOUS
    <3> QED
      BY <3>1, <3>2
  <2>2. IsIt(it)
    <3> HIDE DEF IsIt
    <3> QED
      BY <2>1
  <2>3. IsFold(it, EffectiveBalance, S)
    <3> HIDE DEF it
    <3> QED
      BY <2>2 DEF IsFold
  <2>4. SumOfBalances(S) = it[S]
    BY DEF SumOfBalances, MapThenSumSet, MapThenFoldSet, Pick
  <2> HIDE DEF it
  <2> QED
    BY <1>1, <1>2, <2>3, <2>4, FoldOfPart
<1> QED
  BY <1>3, <1>4

LEMMA ScoreType == get_proposer_score \in Nat
<1>1. PICK f : /\ IsSum(f, EffectiveBalance, Validator)
               /\ \A S \in SUBSET Validator : SumOfBalances(S) = f[S]
  BY BalanceSums
<1>2. SumOfBalances(Validator) \in Nat
  BY <1>1 DEF IsSum
<1>3. get_total_active_balance \in Nat
  BY <1>2, RegistryAssumption DEF get_total_active_balance, get_total_balance
<1>4. get_total_active_balance \div SLOTS_PER_EPOCH \in Nat
  BY <1>3, SlotsAssumption
<1>5. (get_total_active_balance \div SLOTS_PER_EPOCH) * PROPOSER_SCORE_BOOST \in Nat
  BY <1>4, BoostAssumption
<1> QED
  BY <1>5 DEF get_proposer_score, calculate_committee_fraction

LEMMA WeightType ==
    ASSUME NEW root
    PROVE  get_weight(root) \in Nat
<1>1. PICK f : /\ IsSum(f, EffectiveBalance, Validator)
               /\ \A S \in SUBSET Validator : SumOfBalances(S) = f[S]
  BY BalanceSums
<1>2. SumOfBalances(Supporters(root)) \in Nat
  BY <1>1 DEF IsSum, Supporters
<1> QED
  BY <1>2, ScoreType DEF get_weight

LEMMA WeightSums ==
    ASSUME IsFiniteSet(blocks)
    PROVE  \E f : /\ IsSum(f, [b \in blocks |-> get_weight(b)], blocks)
                  /\ \A S \in SUBSET blocks : MapThenSumSet(get_weight, S) = f[S]
<1> DEFINE w == [b \in blocks |-> get_weight(b)]
<1>1. w \in [blocks -> Nat]
  BY WeightType
<1>2. PICK f \in [SUBSET blocks -> Nat] : IsFold(f, w, blocks)
  <2> HIDE DEF w
  <2> QED
    BY <1>1, FoldExists
<1>3. IsSum(f, w, blocks)
  <2> HIDE DEF w
  <2> QED
    BY <1>1, <1>2, FoldIsSum
<1>4. ASSUME NEW S \in SUBSET blocks
      PROVE  MapThenSumSet(get_weight, S) = f[S]
  <2> DEFINE IsIt(g) == g = [s \in SUBSET S |-> IF s = {} THEN 0
                                  ELSE get_weight(Pick(s)) + g[s \ {Pick(s)}]]
             h == [s \in SUBSET S |-> f[s]]
             it == CHOOSE g : IsIt(g)
  <2>1. \A s \in SUBSET S : s # {} => /\ s \ {Pick(s)} \in SUBSET S
                                      /\ w[Pick(s)] = get_weight(Pick(s))
    BY Picked
  <2>2. IsIt(h)
    <3>1. \A s \in SUBSET S : f[s] = IF s = {} THEN 0 ELSE w[Pick(s)] + f[s \ {Pick(s)}]
      <4> HIDE DEF w
      <4> QED
        BY <1>2 DEF IsFold
    <3> HIDE DEF w
    <3> QED
      BY <2>1, <3>1
  <2>3. IsIt(it)
    <3> HIDE DEF IsIt
    <3> QED
      BY <2>2
  <2>4. IsFold(it, w, S)
    <3> HIDE DEF it, w
    <3> QED
      BY <2>1, <2>3 DEF IsFold
  <2>5. MapThenSumSet(get_weight, S) = it[S]
    BY DEF MapThenSumSet, MapThenFoldSet, Pick
  <2> HIDE DEF it, w
  <2> QED
    BY <1>1, <1>2, <2>4, <2>5, FoldOfPart
<1> QED
  BY <1>3, <1>4

(* A vote, and the boost, count for the parent wherever they count for a child,   *)
(* and count for one child at most.                                               *)
LEMMA CountedOnce ==
    ASSUME TypeOK, MessagesAreSupported, NEW root \in blocks,
           NEW c \in Children(root), NEW d \in Children(root)
    PROVE  /\ Supporters(c) \subseteq Supporters(root)
           /\ IsBoosted(c) => IsBoosted(root)
           /\ c # d => Supporters(c) \cap Supporters(d) = {}
           /\ c # d => ~(IsBoosted(c) /\ IsBoosted(d))
<1>1. /\ blocks \subseteq Block
      /\ c \in Block \ {Anchor} /\ ParentOf(c) = root
      /\ d \in Block \ {Anchor} /\ ParentOf(d) = root
  BY StoreTypes DEF Children
<1>2. ASSUME NEW b, NEW v \in Supporters(b)
      PROVE  latest_messages[v].root \in Block
  BY <1>1 DEF Supporters, MessagesAreSupported
<1>3. proposer_boost_root # ZeroRoot => proposer_boost_root \in Block
  BY <1>1 DEF TypeOK
<1>4. ASSUME NEW r \in Block, IsDescendant(r, c)
      PROVE  IsDescendant(r, root) /\ (c # d => ~IsDescendant(r, d))
  BY <1>1, <1>4, ParentOfAncestor, SiblingsApart
<1>5. Supporters(c) \subseteq Supporters(root)
  BY <1>2, <1>4 DEF Supporters
<1>6. c # d => Supporters(c) \cap Supporters(d) = {}
  BY <1>2, <1>4 DEF Supporters
<1>7. IsBoosted(c) => IsBoosted(root) /\ (c # d => ~IsBoosted(d))
  BY <1>3, <1>4 DEF IsBoosted
<1> QED
  BY <1>5, <1>6, <1>7

(* Taken one by one, the children weigh what votes for one of them, and the boost *)
(* if it is for one of them.                                                      *)
LEMMA WeightOfChildren ==
    ASSUME TypeOK, MessagesAreSupported, IsFiniteSet(blocks), NEW root \in blocks
    PROVE  MapThenSumSet(get_weight, Children(root)) <= get_weight(root)
<1> DEFINE K == Children(root)
           score == get_proposer_score
           Together(C) == UNION {Supporters(c) : c \in C}
           Boost(C) == IF \E c \in C : IsBoosted(c) THEN score ELSE 0
<1>1. PICK f : /\ IsSum(f, EffectiveBalance, Validator)
               /\ \A S \in SUBSET Validator : SumOfBalances(S) = f[S]
  BY BalanceSums
<1>2. PICK F : /\ IsSum(F, [b \in blocks |-> get_weight(b)], blocks)
               /\ \A S \in SUBSET blocks : MapThenSumSet(get_weight, S) = F[S]
  BY WeightSums
<1>3. /\ IsFiniteSet(Validator) /\ EffectiveBalance \in [Validator -> Nat]
      /\ K \subseteq blocks /\ IsFiniteSet(K)
      /\ score \in Nat
  BY RegistryAssumption, ScoreType, FS_Subset DEF Children
<1>4. \A b : Supporters(b) \in SUBSET Validator
  BY DEF Supporters
<1>5. \A b : get_weight(b) = f[Supporters(b)] + (IF IsBoosted(b) THEN score ELSE 0)
  BY <1>1, <1>4 DEF get_weight
<1>6. \A C : Together(C) \in SUBSET Validator
  BY <1>4
<1> DEFINE Fits == {C \in SUBSET K : F[C] <= f[Together(C)] + Boost(C)}
<1>7. {} \in Fits
  <2>1. Together({}) = {} /\ Boost({}) = 0
    OBVIOUS
  <2>2. F[{}] = 0 /\ f[{}] = 0
    BY <1>1, <1>2 DEF IsSum
  <2>3. F[{}] <= f[Together({})] + Boost({})
    <3> HIDE DEF Together, Boost
    <3> QED
      BY <2>1, <2>2
  <2> QED
    BY <2>3
<1>8. ASSUME NEW C \in SUBSET K, NEW c \in K \ C, C \in Fits
      PROVE  C \cup {c} \in Fits
  <2> DEFINE D == C \cup {c}
  <2>1. F[D] = F[C] + get_weight(c)
    BY <1>2, <1>3 DEF IsSum
  <2>2. get_weight(c) = f[Supporters(c)] + Boost({c})
    BY <1>5
  <2>3. Together(D) = Together(C) \cup Supporters(c)
    OBVIOUS
  <2>4. Together(C) \cap Supporters(c) = {}
    BY CountedOnce
  <2>5. f[Together(D)] = f[Together(C)] + f[Supporters(c)]
    <3> HIDE DEF Together
    <3>1. f[Together(C) \cup Supporters(c)] = f[Together(C)] + f[Supporters(c)]
      BY <1>1, <1>3, <1>4, <1>6, <2>4, SumOfUnion
    <3> HIDE DEF D
    <3> QED
      BY <2>3, <3>1
  <2>6. Boost(D) = Boost(C) + Boost({c})
    <3>1. CASE IsBoosted(c)
      <4>1. ~\E e \in C : IsBoosted(e)
        BY <3>1, CountedOnce
      <4>2. Boost(C) = 0 /\ Boost(D) = score /\ Boost({c}) = score
        BY <3>1, <4>1
      <4> QED
        BY <1>3, <4>2
    <3>2. CASE ~IsBoosted(c)
      <4>1. (\E e \in D : IsBoosted(e)) <=> (\E e \in C : IsBoosted(e))
        BY <3>2
      <4>2. Boost({c}) = 0 /\ Boost(D) = Boost(C) /\ Boost(C) \in Nat
        BY <1>3, <3>2, <4>1
      <4> QED
        BY <4>2
    <3> QED
      BY <3>1, <3>2
  <2>7. /\ F[C] \in Nat /\ f[Together(C)] \in Nat /\ f[Supporters(c)] \in Nat
        /\ Boost(C) \in Nat /\ Boost({c}) \in Nat
    <3>1. F[C] \in Nat
      BY <1>2, <1>3 DEF IsSum
    <3>2. f[Together(C)] \in Nat /\ f[Supporters(c)] \in Nat
      <4> HIDE DEF Together
      <4> QED
        BY <1>1, <1>4, <1>6 DEF IsSum
    <3>3. Boost(C) \in Nat /\ Boost({c}) \in Nat
      BY <1>3
    <3> QED
      BY <3>1, <3>2, <3>3
  <2>8. F[C] <= f[Together(C)] + Boost(C)
    BY <1>8
  <2>9. F[D] <= f[Together(D)] + Boost(D)
    <3> HIDE DEF Together, Boost, D
    <3> QED
      BY <2>1, <2>2, <2>5, <2>6, <2>7, <2>8
  <2> QED
    BY <2>9
<1>9. K \in Fits
  <2> HIDE DEF Fits, K
  <2> QED
    BY <1>3, <1>7, <1>8, FiniteInduction
<1>10. F[K] <= f[Together(K)] + Boost(K)
  BY <1>9
<1>11. f[Together(K)] \in Nat /\ f[Supporters(root)] \in Nat
       /\ f[Together(K)] <= f[Supporters(root)]
  <2>1. Together(K) \in SUBSET Supporters(root)
    BY CountedOnce
  <2> HIDE DEF Together, K
  <2> QED
    BY <1>1, <1>3, <1>4, <2>1, SumOfPart
<1>12. /\ Boost(K) \in Nat
       /\ (IF IsBoosted(root) THEN score ELSE 0) \in Nat
       /\ Boost(K) <= IF IsBoosted(root) THEN score ELSE 0
  <2>1. (\E c \in K : IsBoosted(c)) => IsBoosted(root)
    BY CountedOnce
  <2> HIDE DEF score, K
  <2> QED
    BY <1>3, <2>1
<1>13. F[K] \in Nat /\ MapThenSumSet(get_weight, K) = F[K]
  BY <1>2, <1>3 DEF IsSum
<1>14. F[K] <= get_weight(root)
  <2> DEFINE boost == IF IsBoosted(root) THEN score ELSE 0
  <2>1. get_weight(root) = f[Supporters(root)] + boost
    BY <1>5
  <2>2. boost \in Nat /\ Boost(K) <= boost
    BY <1>12
  <2> HIDE DEF boost, Boost, Together, K
  <2> QED
    BY <1>10, <1>11, <1>12, <1>13, <2>1, <2>2
<1> QED
  BY <1>13, <1>14

LEMMA BlocksStayFinite == Spec => []IsFiniteSet(blocks)
<1>1. Init => IsFiniteSet(blocks)
  BY FS_Singleton DEF Init
<1>2. IsFiniteSet(blocks) /\ [Next]_vars => IsFiniteSet(blocks)'
  <2> SUFFICES ASSUME IsFiniteSet(blocks), [Next]_vars
               PROVE  IsFiniteSet(blocks')
    OBVIOUS
  <2>1. CASE OnTick
    BY <2>1 DEF OnTick, on_tick
  <2>2. CASE OnBlock
    <3>1. PICK root : blocks' = blocks \cup {root}
      BY <2>2 DEF OnBlock, on_block
    <3> QED
      BY <3>1, FS_AddElement
  <2>3. CASE ~OnTick /\ ~OnBlock
    BY <2>3, OtherSteps
  <2> QED
    BY <2>1, <2>2, <2>3
<1> QED
  BY <1>1, <1>2, PTL DEF Spec

(* No vote and no boost is counted under two siblings: the children of a block     *)
(* never outweigh it, in any tree and whatever was voted.                          *)
THEOREM ParentsOutweigh == Spec => []ParentOutweighsChildren
<1>1. TypeOK /\ MessagesAreSupported /\ IsFiniteSet(blocks) => ParentOutweighsChildren
  <2> SUFFICES ASSUME TypeOK, MessagesAreSupported, IsFiniteSet(blocks), NEW root \in blocks
               PROVE  get_weight(root) >= MapThenSumSet(get_weight, Children(root))
    BY DEF ParentOutweighsChildren
  <2>1. PICK F : /\ IsSum(F, [b \in blocks |-> get_weight(b)], blocks)
                 /\ \A S \in SUBSET blocks : MapThenSumSet(get_weight, S) = F[S]
    BY WeightSums
  <2>2. Children(root) \in SUBSET blocks
    BY DEF Children
  <2>3. MapThenSumSet(get_weight, Children(root)) \in Nat /\ get_weight(root) \in Nat
    BY <2>1, <2>2, WeightType DEF IsSum
  <2>4. MapThenSumSet(get_weight, Children(root)) <= get_weight(root)
    BY WeightOfChildren
  <2> QED
    BY <2>3, <2>4
<1> QED
  BY <1>1, TypeCorrect, VotesAreSupported, BlocksStayFinite, PTL
--------------------------------------------------------------------------------
(* Where the checkpoints come from, and what lies below them. Casper's safety      *)
(* (AccountableSafety) is about the votes of all chains, of which a store sees the  *)
(* result only: it is a hypothesis of the theorems that need it. CasperIsSafe, in   *)
(* FFGChain_proofs, proves it of the trees of blocks whose states are computed, as  *)
(* long as less than a third of the balance breaks a slashing condition.           *)

(* Each checkpoint is the anchor's or was taken from the state of a known block    *)
(* for a higher epoch; a justified one taken from what the block is pulled up to   *)
(* is taken when the block's epoch is over.                                        *)
SourceInv ==
    /\ \A b \in Known : ParentOf(b) \in blocks
    /\ \/ justified_checkpoint = AnchorCheckpoint
       \/ /\ justified_checkpoint.epoch > AnchorEpoch
          /\ \E b \in Known :
                \/ justified_checkpoint = BlockState[b].current_justified_checkpoint
                \/ /\ justified_checkpoint = PulledUpState[b].current_justified_checkpoint
                   /\ EpochOf(b) < get_current_store_epoch
    /\ \/ unrealized_justified_checkpoint = AnchorCheckpoint
       \/ /\ unrealized_justified_checkpoint.epoch > AnchorEpoch
          /\ \E b \in Known :
                unrealized_justified_checkpoint = PulledUpState[b].current_justified_checkpoint
    /\ \/ finalized_checkpoint = AnchorCheckpoint
       \/ /\ finalized_checkpoint.epoch > AnchorEpoch
          /\ \E b \in Known : finalized_checkpoint \in {BlockState[b].finalized_checkpoint,
                                                       PulledUpState[b].finalized_checkpoint}
    /\ \/ unrealized_finalized_checkpoint = AnchorCheckpoint
       \/ /\ unrealized_finalized_checkpoint.epoch > AnchorEpoch
          /\ \E b \in Known :
                unrealized_finalized_checkpoint = PulledUpState[b].finalized_checkpoint

LEMMA LaterSource ==
    ASSUME NEW c \in Checkpoint, NEW d \in Checkpoint, d.epoch >= AnchorEpoch
    PROVE  Later(c, d) = d \/ (Later(c, d) = c /\ c.epoch > AnchorEpoch)
BY AnchorType DEF Later, Checkpoint, Epoch

LEMMA SourceEpochs ==
    ASSUME TypeOK, SourceInv
    PROVE  /\ justified_checkpoint.epoch >= AnchorEpoch
           /\ unrealized_justified_checkpoint.epoch >= AnchorEpoch
           /\ finalized_checkpoint.epoch >= AnchorEpoch
           /\ unrealized_finalized_checkpoint.epoch >= AnchorEpoch
<1>1. AnchorEpoch \in Nat /\ AnchorCheckpoint.epoch = AnchorEpoch
  BY AnchorType DEF AnchorCheckpoint
<1>2. /\ justified_checkpoint.epoch \in Nat /\ unrealized_justified_checkpoint.epoch \in Nat
      /\ finalized_checkpoint.epoch \in Nat /\ unrealized_finalized_checkpoint.epoch \in Nat
  BY StoreTypes, LaterType
<1> QED
  BY <1>1, <1>2 DEF SourceInv

LEMMA TickSource ==
    ASSUME TypeOK, CheckpointInv, SourceInv, NEW t \in TickTime, on_tick(t)
    PROVE  SourceInv'
<1> DEFINE clock == get_current_store_epoch
<1>1. /\ Known' = Known /\ blocks' = blocks
      /\ unrealized_justified_checkpoint' = unrealized_justified_checkpoint
      /\ unrealized_finalized_checkpoint' = unrealized_finalized_checkpoint
  BY DEF on_tick, Known
<1>2. clock \in Nat /\ clock' \in Nat /\ clock <= clock'
  BY TickSlots
<1>3. \A b \in Known : EpochOf(b) \in Nat /\ EpochOf(b) <= clock
  <2>1. \A b \in Known : SlotOf(b) \in Nat /\ SlotOf(b) <= get_current_slot
    BY StoreTypes DEF Known, CheckpointInv
  <2> QED
    BY <2>1, StoreTypes, EpochMonotone DEF EpochOf, get_current_store_epoch
<1>4. CASE clock < clock'
  <2>1. /\ justified_checkpoint' = Later(unrealized_justified_checkpoint, justified_checkpoint)
        /\ finalized_checkpoint' = Later(unrealized_finalized_checkpoint, finalized_checkpoint)
    BY <1>4, TickSlots DEF on_tick
  <2>2. \/ justified_checkpoint' = justified_checkpoint
        \/ /\ justified_checkpoint' = unrealized_justified_checkpoint
           /\ unrealized_justified_checkpoint.epoch > AnchorEpoch
    BY <2>1, StoreTypes, SourceEpochs, LaterSource
  <2>3. \/ finalized_checkpoint' = finalized_checkpoint
        \/ /\ finalized_checkpoint' = unrealized_finalized_checkpoint
           /\ unrealized_finalized_checkpoint.epoch > AnchorEpoch
    BY <2>1, StoreTypes, SourceEpochs, LaterSource
  <2>4. \A b \in Known : EpochOf(b) < clock'
    BY <1>2, <1>3, <1>4
  <2>5. AnchorCheckpoint.epoch = AnchorEpoch /\ ~(AnchorEpoch > AnchorEpoch)
    BY AnchorType DEF AnchorCheckpoint
  <2>6. \/ justified_checkpoint' = AnchorCheckpoint
        \/ /\ justified_checkpoint'.epoch > AnchorEpoch
           /\ \E b \in Known :
                \/ justified_checkpoint' = BlockState[b].current_justified_checkpoint
                \/ /\ justified_checkpoint' = PulledUpState[b].current_justified_checkpoint
                   /\ EpochOf(b) < clock'
    BY <2>2, <2>4, <2>5 DEF SourceInv
  <2>7. \/ finalized_checkpoint' = AnchorCheckpoint
        \/ /\ finalized_checkpoint'.epoch > AnchorEpoch
           /\ \E b \in Known : finalized_checkpoint' \in {BlockState[b].finalized_checkpoint,
                                                         PulledUpState[b].finalized_checkpoint}
    BY <2>3, <2>5 DEF SourceInv
  <2> QED
    BY <1>1, <2>6, <2>7 DEF SourceInv
<1>5. CASE clock' = clock
  <2>1. /\ justified_checkpoint' = justified_checkpoint
        /\ finalized_checkpoint' = finalized_checkpoint
    BY <1>5, TickSlots DEF on_tick
  <2> QED
    BY <1>1, <1>5, <2>1 DEF SourceInv
<1> QED
  BY <1>2, <1>4, <1>5

LEMMA BlockSource ==
    ASSUME TypeOK, SourceInv, NEW root \in Block \ {Anchor}, on_block(root)
    PROVE  SourceInv'
<1> DEFINE state == BlockState[root]
           pulledUp == PulledUpState[root]
<1>1. /\ root \in ValidBlock /\ ParentOf(root) \in blocks
      /\ blocks' = blocks \cup {root} /\ Known' = Known \cup {root}
      /\ get_current_store_epoch' = get_current_store_epoch
  BY ClockOfBlockStep DEF on_block, IsAcceptable, Known
<1>2. /\ state.current_justified_checkpoint \in Checkpoint
      /\ state.finalized_checkpoint \in Checkpoint
      /\ pulledUp.current_justified_checkpoint \in Checkpoint
      /\ pulledUp.finalized_checkpoint \in Checkpoint
  BY <1>1, StateTypes
<1>3. ASSUME NEW c \in Checkpoint, c.epoch >= AnchorEpoch,
             NEW realized \in Checkpoint, NEW unrealized \in Checkpoint
      PROVE  \/ UpdatedByBlock(c, realized, unrealized, root) = c
             \/ /\ UpdatedByBlock(c, realized, unrealized, root) = realized
                /\ realized.epoch > AnchorEpoch
             \/ /\ UpdatedByBlock(c, realized, unrealized, root) = unrealized
                /\ unrealized.epoch > AnchorEpoch
                /\ IsFromPriorEpoch(root)
  <2>1. \/ Later(realized, c) = c
        \/ Later(realized, c) = realized /\ realized.epoch > AnchorEpoch
    BY <1>3, LaterSource
  <2>2. Later(realized, c) \in Checkpoint /\ Later(realized, c).epoch >= AnchorEpoch
    BY <1>3, <2>1, AnchorType DEF Checkpoint, Epoch
  <2>3. \/ Later(unrealized, Later(realized, c)) = Later(realized, c)
        \/ Later(unrealized, Later(realized, c)) = unrealized /\ unrealized.epoch > AnchorEpoch
    BY <2>2, LaterSource
  <2> QED
    BY <2>1, <2>3 DEF UpdatedByBlock
<1>4. \/ justified_checkpoint' = justified_checkpoint
      \/ /\ justified_checkpoint' = state.current_justified_checkpoint
         /\ state.current_justified_checkpoint.epoch > AnchorEpoch
      \/ /\ justified_checkpoint' = pulledUp.current_justified_checkpoint
         /\ pulledUp.current_justified_checkpoint.epoch > AnchorEpoch
         /\ EpochOf(root) < get_current_store_epoch
  BY <1>2, <1>3, StoreTypes, SourceEpochs DEF on_block, IsFromPriorEpoch
<1>5. \/ finalized_checkpoint' = finalized_checkpoint
      \/ /\ finalized_checkpoint' \in {state.finalized_checkpoint, pulledUp.finalized_checkpoint}
         /\ finalized_checkpoint'.epoch > AnchorEpoch
  BY <1>2, <1>3, StoreTypes, SourceEpochs DEF on_block
<1>6. \/ unrealized_justified_checkpoint' = unrealized_justified_checkpoint
      \/ /\ unrealized_justified_checkpoint' = pulledUp.current_justified_checkpoint
         /\ pulledUp.current_justified_checkpoint.epoch > AnchorEpoch
  BY <1>2, StoreTypes, SourceEpochs, LaterSource DEF on_block
<1>7. \/ unrealized_finalized_checkpoint' = unrealized_finalized_checkpoint
      \/ /\ unrealized_finalized_checkpoint' = pulledUp.finalized_checkpoint
         /\ pulledUp.finalized_checkpoint.epoch > AnchorEpoch
  BY <1>2, StoreTypes, SourceEpochs, LaterSource DEF on_block
<1>8. \A b \in Known' : ParentOf(b) \in blocks'
  BY <1>1 DEF SourceInv
<1>9. \/ justified_checkpoint' = AnchorCheckpoint
      \/ /\ justified_checkpoint'.epoch > AnchorEpoch
         /\ \E b \in Known \cup {root} :
              \/ justified_checkpoint' = BlockState[b].current_justified_checkpoint
              \/ /\ justified_checkpoint' = PulledUpState[b].current_justified_checkpoint
                 /\ EpochOf(b) < get_current_store_epoch
  BY <1>4 DEF SourceInv
<1>10. \/ unrealized_justified_checkpoint' = AnchorCheckpoint
       \/ /\ unrealized_justified_checkpoint'.epoch > AnchorEpoch
          /\ \E b \in Known \cup {root} :
                unrealized_justified_checkpoint' = PulledUpState[b].current_justified_checkpoint
  BY <1>6 DEF SourceInv
<1>11. \/ finalized_checkpoint' = AnchorCheckpoint
       \/ /\ finalized_checkpoint'.epoch > AnchorEpoch
          /\ \E b \in Known \cup {root} :
                finalized_checkpoint' \in {BlockState[b].finalized_checkpoint,
                                           PulledUpState[b].finalized_checkpoint}
  BY <1>5 DEF SourceInv
<1>12. \/ unrealized_finalized_checkpoint' = AnchorCheckpoint
       \/ /\ unrealized_finalized_checkpoint'.epoch > AnchorEpoch
          /\ \E b \in Known \cup {root} :
                unrealized_finalized_checkpoint' = PulledUpState[b].finalized_checkpoint
  BY <1>7 DEF SourceInv
<1> QED
  BY <1>1, <1>8, <1>9, <1>10, <1>11, <1>12 DEF SourceInv

LEMMA CheckpointSources == Spec => [](TypeOK /\ CheckpointInv /\ SourceInv)
<1>1. Init => SourceInv
  BY DEF Init, SourceInv, Known
<1>2. TypeOK /\ CheckpointInv /\ SourceInv /\ [Next]_vars => SourceInv'
  <2> SUFFICES ASSUME TypeOK, CheckpointInv, SourceInv, [Next]_vars
               PROVE  SourceInv'
    OBVIOUS
  <2>1. CASE OnTick
    BY <2>1, TickSource DEF OnTick
  <2>2. CASE OnBlock
    BY <2>2, BlockSource DEF OnBlock
  <2>3. CASE ~OnTick /\ ~OnBlock
    BY <2>3, OtherSteps DEF SourceInv, Known
  <2> QED
    BY <2>1, <2>2, <2>3
<1>3. TypeOK /\ CheckpointInv /\ [Next]_vars => CheckpointInv'
  BY StepView
<1>4. Init => CheckpointInv
  BY InitView
<1> QED
  BY <1>1, <1>2, <1>3, <1>4, TypeCorrect, PTL DEF Spec

LEMMA StartSlots ==
    ASSUME NEW m \in Nat, NEW n \in Nat, AnchorEpoch <= m, m <= n
    PROVE  /\ compute_start_slot_at_epoch(AnchorEpoch) = SlotOf(Anchor)
           /\ compute_start_slot_at_epoch(m) \in Nat /\ compute_start_slot_at_epoch(n) \in Nat
           /\ SlotOf(Anchor) <= compute_start_slot_at_epoch(m)
           /\ compute_start_slot_at_epoch(m) <= compute_start_slot_at_epoch(n)
<1>1. SLOTS_PER_EPOCH \in Nat \ {0} /\ SlotOf(Anchor) \in Nat /\ AnchorEpoch \in Nat
  BY SlotsAssumption, BlockSlots, AnchorType
<1>2. SlotOf(Anchor) % SLOTS_PER_EPOCH = 0
  BY TreeAssumption DEF IsEpochStart
<1>3. (SlotOf(Anchor) \div SLOTS_PER_EPOCH) * SLOTS_PER_EPOCH = SlotOf(Anchor)
  BY <1>1, <1>2
<1>4. AnchorEpoch * SLOTS_PER_EPOCH = SlotOf(Anchor)
  BY <1>3 DEF AnchorEpoch, EpochOf, compute_epoch_at_slot
<1>5. /\ AnchorEpoch * SLOTS_PER_EPOCH <= m * SLOTS_PER_EPOCH
      /\ m * SLOTS_PER_EPOCH <= n * SLOTS_PER_EPOCH
      /\ m * SLOTS_PER_EPOCH \in Nat /\ n * SLOTS_PER_EPOCH \in Nat
  BY <1>1
<1> QED
  BY <1>4, <1>5 DEF compute_start_slot_at_epoch

(* A walk from a known block to a slot not before the anchor meets known blocks.   *)
LEMMA KnownAncestor ==
    ASSUME TypeOK, SourceInv, NEW root \in blocks, NEW slot \in Nat, SlotOf(Anchor) <= slot
    PROVE  get_ancestor(root, slot) \in blocks
<1> DEFINE T == {r \in Block : r \in blocks => get_ancestor(r, slot) \in blocks}
<1>1. Anchor \in T
  BY AncestorWalk, BlockSlots
<1>2. ASSUME NEW r \in Block \ {Anchor}, ParentOf(r) \in T
      PROVE  r \in T
  <2>1. r \in blocks => ParentOf(r) \in blocks
    BY DEF SourceInv, Known
  <2> QED
    BY <1>2, <2>1, AncestorWalk
<1>3. root \in T
  <2>1. root \in Block
    BY StoreTypes
  <2> HIDE DEF T
  <2> QED
    BY <1>1, <1>2, <2>1, BlockInduction
<1> QED
  BY <1>3

(* The chain of a block has every checkpoint its states speak of.                  *)
LEMMA OwnCheckpoint ==
    ASSUME TypeOK, SourceInv, NEW b \in Known, NEW c \in Checkpoint, c.epoch > AnchorEpoch,
           c \in {BlockState[b].current_justified_checkpoint, BlockState[b].finalized_checkpoint,
                  PulledUpState[b].current_justified_checkpoint,
                  PulledUpState[b].finalized_checkpoint}
    PROVE  /\ c.epoch <= EpochOf(b)
           /\ c.root = get_checkpoint_block(b, c.epoch)
           /\ c.root \in blocks
<1>1. b \in ValidBlock /\ b \in blocks
  BY StoreTypes DEF Known
<1>2. c.epoch <= EpochOf(b) /\ c.root = get_checkpoint_block(b, c.epoch)
  BY <1>1, ChainAssumption DEF StatesOnChain
<1>3. c.epoch \in Nat /\ AnchorEpoch \in Nat
  BY AnchorType DEF Checkpoint, Epoch
<1>4. get_checkpoint_block(b, c.epoch) \in blocks
  BY <1>1, <1>3, StartSlots, KnownAncestor DEF get_checkpoint_block
<1> QED
  BY <1>2, <1>4

LEMMA CheckpointsKnown ==
    ASSUME TypeOK, SourceInv
    PROVE  /\ justified_checkpoint.root \in blocks
           /\ finalized_checkpoint.root \in blocks
           /\ justified_checkpoint # AnchorCheckpoint => justified_checkpoint \in JustifiedOnChain
           /\ finalized_checkpoint # AnchorCheckpoint => finalized_checkpoint \in FinalizedOnChain
<1>1. AnchorCheckpoint.root \in blocks
  BY DEF AnchorCheckpoint, TypeOK
<1>2. \A b \in Known : b \in ValidBlock
  BY StoreTypes DEF Known
<1>3. justified_checkpoint \in Checkpoint /\ finalized_checkpoint \in Checkpoint
  BY StoreTypes
<1>4. ASSUME justified_checkpoint # AnchorCheckpoint
      PROVE  justified_checkpoint.root \in blocks /\ justified_checkpoint \in JustifiedOnChain
  <2>1. /\ justified_checkpoint.epoch > AnchorEpoch
        /\ \E b \in Known :
              justified_checkpoint \in {BlockState[b].current_justified_checkpoint,
                                        PulledUpState[b].current_justified_checkpoint}
    BY <1>4 DEF SourceInv
  <2>2. justified_checkpoint.root \in blocks
    BY <1>3, <2>1, OwnCheckpoint
  <2>3. justified_checkpoint \in JustifiedOnChain
    BY <1>2, <1>3, <2>1 DEF JustifiedOnChain
  <2> QED
    BY <2>2, <2>3
<1>5. ASSUME finalized_checkpoint # AnchorCheckpoint
      PROVE  finalized_checkpoint.root \in blocks /\ finalized_checkpoint \in FinalizedOnChain
  <2>1. /\ finalized_checkpoint.epoch > AnchorEpoch
        /\ \E b \in Known : finalized_checkpoint \in {BlockState[b].finalized_checkpoint,
                                                     PulledUpState[b].finalized_checkpoint}
    BY <1>5 DEF SourceInv
  <2>2. finalized_checkpoint.root \in blocks
    BY <1>3, <2>1, OwnCheckpoint
  <2>3. finalized_checkpoint \in FinalizedOnChain
    BY <1>2, <1>3, <2>1 DEF FinalizedOnChain
  <2> QED
    BY <2>2, <2>3
<1> QED
  BY <1>1, <1>4, <1>5

LEMMA AnchorIsCheckpoint ==
    ASSUME NEW root \in Block
    PROVE  get_checkpoint_block(root, AnchorEpoch) = Anchor
BY StartSlots, AnchorFirst, AnchorType DEF get_checkpoint_block

LEMMA FinalityBeforeJustification ==
    ASSUME TypeOK, CheckpointInv
    PROVE  finalized_checkpoint.epoch <= justified_checkpoint.epoch
<1> DEFINE clock == get_current_store_epoch
<1>1. justified_checkpoint.epoch \in Nat /\ finalized_checkpoint.epoch \in Nat
  BY StoreTypes, LaterType
<1>2. CASE finalized_checkpoint.epoch = AnchorEpoch
  BY <1>2 DEF CheckpointInv, View!Agrees, View!IsGreatest, View!JustifiedCandidates
<1>3. ASSUME NEW b \in Known, finalized_checkpoint.epoch = View!FinalitySource(b, clock)
      PROVE  finalized_checkpoint.epoch <= justified_checkpoint.epoch
  <2>1. /\ View!FinalitySource(b, clock) <= View!VotingSource(b, clock)
        /\ View!VotingSource(b, clock) \in Nat
    BY StoreTypes, StateTypes DEF Known, View!FinalitySource, View!VotingSource
  <2>2. View!VotingSource(b, clock) <= justified_checkpoint.epoch
    BY DEF CheckpointInv, View!Agrees, View!IsGreatest, View!JustifiedCandidates
  <2> QED
    BY <1>1, <1>3, <2>1, <2>2
<1>4. \/ finalized_checkpoint.epoch = AnchorEpoch
      \/ \E b \in Known : finalized_checkpoint.epoch = View!FinalitySource(b, clock)
  BY DEF CheckpointInv, View!Agrees, View!IsGreatest, View!FinalizedCandidates
<1> QED
  BY <1>2, <1>3, <1>4

(* The invariant for every reachable state, and what follows from it: although    *)
(* update_checkpoints moves them apart, finality never passes justification.      *)
THEOREM FinalizedNotAfterJustified ==
    Spec => [](finalized_checkpoint.epoch <= justified_checkpoint.epoch)
<1>1. TypeOK /\ CheckpointInv => finalized_checkpoint.epoch <= justified_checkpoint.epoch
  BY FinalityBeforeJustification
<1> QED
  BY <1>1, CheckpointSources, PTL

LEMMA CheckpointsCompatible ==
    ASSUME AccountableSafety, TypeOK, CheckpointInv, SourceInv
    PROVE  JustifiedExtendsFinalized
<1>1. finalized_checkpoint.epoch <= justified_checkpoint.epoch
  BY FinalityBeforeJustification
<1>2. justified_checkpoint.root \in Block
  BY CheckpointsKnown, StoreTypes
<1>3. CASE finalized_checkpoint = AnchorCheckpoint
  BY <1>1, <1>2, <1>3, AnchorIsCheckpoint DEF AnchorCheckpoint, JustifiedExtendsFinalized
<1>4. CASE finalized_checkpoint # AnchorCheckpoint
  <2>1. finalized_checkpoint \in FinalizedOnChain
    BY <1>4, CheckpointsKnown
  <2>2. justified_checkpoint # AnchorCheckpoint
    <3>1. /\ finalized_checkpoint.epoch > AnchorEpoch
          /\ finalized_checkpoint.epoch \in Nat /\ AnchorEpoch \in Nat
          /\ AnchorCheckpoint.epoch = AnchorEpoch
      BY <2>1, AnchorType DEF FinalizedOnChain, Checkpoint, Epoch, AnchorCheckpoint
    <3> QED
      BY <1>1, <3>1
  <2>3. justified_checkpoint \in JustifiedOnChain
    BY <2>2, CheckpointsKnown
  <2> QED
    BY <1>1, <2>1, <2>3 DEF AccountableSafety, JustifiedExtendsFinalized
<1> QED
  BY <1>3, <1>4

(* The two checkpoints stay on one chain though each is replaced by itself, by     *)
(* another block or at another tick, as long as Casper's votes are safe.           *)
THEOREM CheckpointsStayTogether ==
    AccountableSafety => (Spec => []JustifiedExtendsFinalized)
<1> SUFFICES ASSUME AccountableSafety
             PROVE  Spec => []JustifiedExtendsFinalized
  OBVIOUS
<1>1. TypeOK /\ CheckpointInv /\ SourceInv => JustifiedExtendsFinalized
  BY CheckpointsCompatible
<1> QED
  BY <1>1, CheckpointSources, PTL

LEMMA FinalityMonotone ==
    ASSUME TypeOK, [Next]_vars
    PROVE  finalized_checkpoint.epoch <= finalized_checkpoint'.epoch
<1>1. finalized_checkpoint.epoch \in Nat
  BY StoreTypes, LaterType
<1>2. CASE OnTick
  <2>1. PICK t \in TickTime : on_tick(t)
    BY <1>2 DEF OnTick
  <2>2. \/ finalized_checkpoint' = finalized_checkpoint
        \/ finalized_checkpoint' = Later(unrealized_finalized_checkpoint, finalized_checkpoint)
    BY <2>1 DEF on_tick
  <2>3. Later(unrealized_finalized_checkpoint, finalized_checkpoint).epoch
            >= finalized_checkpoint.epoch
    BY StoreTypes DEF Later, Checkpoint, Epoch
  <2> QED
    BY <1>1, <2>2, <2>3
<1>3. CASE OnBlock
  <2>1. PICK root \in Block \ {Anchor} : on_block(root)
    BY <1>3 DEF OnBlock
  <2>2. root \in ValidBlock
    BY <2>1 DEF on_block, IsAcceptable
  <2>3. finalized_checkpoint' = UpdatedByBlock(finalized_checkpoint,
                    BlockState[root].finalized_checkpoint,
                    PulledUpState[root].finalized_checkpoint, root)
    BY <2>1 DEF on_block
  <2>4. /\ BlockState[root].finalized_checkpoint \in Checkpoint
        /\ PulledUpState[root].finalized_checkpoint \in Checkpoint
        /\ finalized_checkpoint \in Checkpoint
    BY <2>2, StateTypes, StoreTypes
  <2>5. ASSUME NEW c \in Checkpoint, NEW realized \in Checkpoint, NEW unrealized \in Checkpoint
        PROVE  c.epoch <= UpdatedByBlock(c, realized, unrealized, root).epoch
    BY DEF UpdatedByBlock, Later, Checkpoint, Epoch
  <2> QED
    BY <2>3, <2>4, <2>5
<1>4. CASE ~OnTick /\ ~OnBlock
  BY <1>1, <1>4, OtherSteps
<1> QED
  BY <1>2, <1>3, <1>4

(* What a node has finalized stays finalized: the checkpoint only moves down its   *)
(* own chain, whichever block or tick brings the new one.                          *)
THEOREM FinalityStays == AccountableSafety => (Spec => FinalityIsKept)
<1> SUFFICES ASSUME AccountableSafety
             PROVE  Spec => FinalityIsKept
  OBVIOUS
<1> DEFINE Kept == get_checkpoint_block(finalized_checkpoint'.root, finalized_checkpoint.epoch)
                       = finalized_checkpoint.root
           Sound == /\ finalized_checkpoint.root \in Block
                    /\ \/ finalized_checkpoint = AnchorCheckpoint
                       \/ finalized_checkpoint \in FinalizedOnChain
<1>1. TypeOK /\ SourceInv => Sound
  BY CheckpointsKnown, StoreTypes
<1>2. TypeOK /\ Sound /\ Sound' /\ [Next]_vars => [Kept]_vars
  <2> SUFFICES ASSUME TypeOK, Sound, Sound', [Next]_vars
               PROVE  Kept
    OBVIOUS
  <2>1. finalized_checkpoint.epoch <= finalized_checkpoint'.epoch
    BY FinalityMonotone
  <2>2. CASE finalized_checkpoint = AnchorCheckpoint
    BY <2>2, AnchorIsCheckpoint DEF AnchorCheckpoint
  <2>3. CASE finalized_checkpoint \in FinalizedOnChain
    <3>1. finalized_checkpoint' # AnchorCheckpoint
      <4>1. /\ finalized_checkpoint.epoch > AnchorEpoch
            /\ finalized_checkpoint.epoch \in Nat /\ AnchorEpoch \in Nat
            /\ AnchorCheckpoint.epoch = AnchorEpoch
        BY <2>3, AnchorType DEF FinalizedOnChain, Checkpoint, Epoch, AnchorCheckpoint
      <4> QED
        BY <2>1, <4>1
    <3>2. finalized_checkpoint' \in FinalizedOnChain
      BY <3>1 DEF AnchorCheckpoint, FinalizedOnChain, AnchorEpoch
    <3> QED
      BY <2>1, <2>3, <3>2 DEF AccountableSafety
  <2> QED
    BY <2>2, <2>3
<1> HIDE DEF Kept, Sound
<1>3. Spec => []Sound
  BY <1>1, CheckpointSources, PTL
<1>4. Spec => [][Kept]_vars
  BY <1>2, <1>3, TypeCorrect, PTL DEF Spec
<1> QED
  BY <1>4 DEF Kept, FinalityIsKept
--------------------------------------------------------------------------------
(* The head. The recursions of filter_block_tree and get_head go down the tree,    *)
(* where the number of known blocks of later slots decreases.                      *)
LaterBlocks == [r \in blocks |-> Cardinality({b \in blocks : SlotOf(b) > SlotOf(r)})]

LEMMA ChildIsLower ==
    ASSUME TypeOK, IsFiniteSet(blocks), NEW r \in blocks
    PROVE  /\ LaterBlocks[r] \in Nat
           /\ \A c \in Children(r) : c \in blocks /\ LaterBlocks[c] < LaterBlocks[r]
<1> DEFINE After(b) == {x \in blocks : SlotOf(x) > SlotOf(b)}
<1>1. \A b \in blocks : IsFiniteSet(After(b)) /\ Cardinality(After(b)) \in Nat
  BY FS_Subset, FS_CardinalityType
<1>2. ASSUME NEW c \in Children(r)
      PROVE  c \in blocks /\ LaterBlocks[c] < LaterBlocks[r]
  <2>1. /\ c \in blocks /\ SlotOf(r) \in Nat /\ SlotOf(c) \in Nat /\ SlotOf(r) < SlotOf(c)
        /\ \A b \in blocks : SlotOf(b) \in Nat
    BY StoreTypes, BlockSlots DEF Children
  <2>2. After(c) \subseteq After(r) /\ c \in After(r) /\ c \notin After(c)
    BY <2>1
  <2>3. Cardinality(After(c)) < Cardinality(After(r))
    <3>1. Cardinality(After(c)) <= Cardinality(After(r))
      BY <1>1, <2>2, FS_Subset
    <3>2. Cardinality(After(c)) # Cardinality(After(r))
      BY <1>1, <2>2, FS_Subset
    <3> QED
      BY <1>1, <2>1, <3>1, <3>2
  <2> QED
    BY <2>1, <2>3 DEF LaterBlocks
<1> QED
  BY <1>1, <1>2 DEF LaterBlocks

LEMMA DescentInduction ==
    ASSUME TypeOK, IsFiniteSet(blocks), NEW T,
           \A r \in blocks : (\A c \in Children(r) : c \in T) => r \in T
    PROVE  \A r \in blocks : r \in T
<1>1. \A r \in blocks : LaterBlocks[r] \in Nat
  BY ChildIsLower
<1>2. ASSUME NEW r \in blocks, \A e \in blocks : LaterBlocks[e] < LaterBlocks[r] => e \in T
      PROVE  r \in T
  BY <1>2, ChildIsLower
<1> QED
  BY <1>1, <1>2, RankInduction

(* filter_block_tree, as the code runs it. *)
LEMMA ViableWalk ==
    ASSUME TypeOK, IsFiniteSet(blocks), NEW root \in blocks
    PROVE  root \in filter_block_tree
               <=> IF Children(root) = {} THEN IsViableLeaf(root)
                   ELSE \E child \in Children(root) : child \in filter_block_tree
<1> DEFINE step == [r \in blocks |-> [g \in [blocks -> BOOLEAN] |->
                       IF Children(r) = {} THEN IsViableLeaf(r)
                       ELSE \E child \in Children(r) : g[child]]]
           IsViable(f) == f = [r \in blocks |->
                              IF Children(r) = {} THEN IsViableLeaf(r)
                              ELSE \E child \in Children(r) : f[child]]
           viable == CHOOSE f : IsViable(f)
<1>1. IsRecursion(blocks, LaterBlocks, BOOLEAN, step)
  <2>1. \A r \in blocks : LaterBlocks[r] \in Nat
    BY ChildIsLower
  <2>2. ASSUME NEW r \in blocks, NEW g \in [blocks -> BOOLEAN]
        PROVE  step[r][g] \in BOOLEAN
    BY DEF IsViableLeaf
  <2>3. ASSUME NEW r \in blocks, NEW g \in [blocks -> BOOLEAN], NEW h \in [blocks -> BOOLEAN],
               \A e \in blocks : LaterBlocks[e] < LaterBlocks[r] => g[e] = h[e]
        PROVE  step[r][g] = step[r][h]
    <3>1. \A c \in Children(r) : g[c] = h[c]
      BY <2>3, ChildIsLower
    <3>2. (\E child \in Children(r) : g[child]) = (\E child \in Children(r) : h[child])
      BY <3>1
    <3> QED
      BY <3>2
  <2> HIDE DEF step
  <2> QED
    BY <2>1, <2>2, <2>3 DEF IsRecursion
<1>2. PICK g \in [blocks -> BOOLEAN] : \A r \in blocks : g[r] = step[r][g]
  <2> HIDE DEF step
  <2> QED
    BY <1>1, RankRecursion
<1>3. IsViable(g)
  BY <1>2
<1>4. IsViable(viable)
  <2> HIDE DEF IsViable
  <2> QED
    BY <1>3
<1>5. filter_block_tree = {r \in blocks : viable[r]}
  BY DEF filter_block_tree
<1>6. viable[root] = IF Children(root) = {} THEN IsViableLeaf(root)
                     ELSE \E child \in Children(root) : viable[child]
  <2> HIDE DEF viable
  <2> QED
    BY <1>4
<1>7. \A child \in Children(root) : child \in blocks
  BY DEF Children
<1> HIDE DEF viable
<1> QED
  BY <1>5, <1>6, <1>7

(* get_head always finds a heaviest child: weights are compared first and roots    *)
(* break the ties.                                                                *)
LEMMA HeaviestExists ==
    ASSUME TypeOK, NEW S \in SUBSET blocks, IsFiniteSet(S), S # {}
    PROVE  \E c \in S : \A d \in S : IsHeavier(c, d)
<1> DEFINE C == {U \in SUBSET S : U = {} \/ \E c \in U : \A d \in U : IsHeavier(c, d)}
<1>1. \A c \in S : c \in Nat /\ get_weight(c) \in Nat
  BY StoreTypes, WeightType, TreeAssumption DEF Root
<1>2. {} \in C
  OBVIOUS
<1>3. ASSUME NEW c \in S, NEW d \in S
      PROVE  /\ IsHeavier(c, c)
             /\ IsHeavier(c, d) \/ IsHeavier(d, c)
             /\ \A e \in S : IsHeavier(c, d) /\ IsHeavier(d, e) => IsHeavier(c, e)
  BY <1>1 DEF IsHeavier
<1>4. ASSUME NEW U \in SUBSET S, NEW x \in S \ U, U \in C
      PROVE  U \cup {x} \in C
  <2>1. CASE U = {}
    BY <1>3, <2>1
  <2>2. CASE \E c \in U : \A d \in U : IsHeavier(c, d)
    <3>1. PICK c \in U : \A d \in U : IsHeavier(c, d)
      BY <2>2
    <3>2. CASE IsHeavier(c, x)
      BY <3>1, <3>2
    <3>3. CASE IsHeavier(x, c)
      <4>1. \A d \in U \cup {x} : IsHeavier(x, d)
        BY <1>3, <3>1, <3>3
      <4> QED
        BY <4>1
    <3> QED
      BY <1>3, <3>2, <3>3
  <2> QED
    BY <1>4, <2>1, <2>2
<1>5. S \in C
  <2> HIDE DEF C
  <2> QED
    BY <1>2, <1>4, FiniteInduction
<1> QED
  BY <1>5

Heaviest(S) == CHOOSE c \in S : \A d \in S : IsHeavier(c, d)

(* get_head, as the code runs it: down from the justified root to the heaviest     *)
(* child in the filtered tree, until there is none.                                *)
LEMMA HeadWalk ==
    ASSUME TypeOK, IsFiniteSet(blocks), justified_checkpoint.root \in blocks
    PROVE  \E walk \in [blocks -> blocks] :
               /\ get_head = walk[justified_checkpoint.root]
               /\ \A r \in blocks :
                     LET children == Children(r) \cap get_filtered_block_tree
                     IN  walk[r] = IF children = {} THEN r ELSE walk[Heaviest(children)]
<1> DEFINE tree == get_filtered_block_tree
           Inner(r) == Children(r) \cap tree
           step == [r \in blocks |-> [g \in [blocks -> blocks] |->
                       IF Inner(r) = {} THEN r ELSE g[Heaviest(Inner(r))]]]
           IsWalk(f) == f = [r \in blocks |->
                            IF Inner(r) = {} THEN r ELSE f[Heaviest(Inner(r))]]
           walk == CHOOSE f : IsWalk(f)
<1>1. ASSUME NEW r \in blocks, Inner(r) # {}
      PROVE  /\ Heaviest(Inner(r)) \in Children(r)
             /\ Heaviest(Inner(r)) \in blocks
             /\ LaterBlocks[Heaviest(Inner(r))] < LaterBlocks[r]
  <2>1. Inner(r) \in SUBSET blocks /\ Inner(r) \subseteq Children(r)
    BY DEF Children
  <2>2. IsFiniteSet(Inner(r))
    BY <2>1, FS_Subset
  <2>3. \E c \in Inner(r) : \A d \in Inner(r) : IsHeavier(c, d)
    <3> HIDE DEF Inner
    <3> QED
      BY <1>1, <2>1, <2>2, HeaviestExists
  <2>4. Heaviest(Inner(r)) \in Inner(r)
    <3> HIDE DEF Inner
    <3> QED
      BY <2>3 DEF Heaviest
  <2> HIDE DEF Inner
  <2> QED
    BY <2>1, <2>4, ChildIsLower
<1>2. IsRecursion(blocks, LaterBlocks, blocks, step)
  <2>1. \A r \in blocks : LaterBlocks[r] \in Nat
    BY ChildIsLower
  <2>2. ASSUME NEW r \in blocks, NEW g \in [blocks -> blocks]
        PROVE  step[r][g] \in blocks
    <3> HIDE DEF Inner
    <3> QED
      BY <1>1
  <2>3. ASSUME NEW r \in blocks, NEW g \in [blocks -> blocks], NEW h \in [blocks -> blocks],
               \A e \in blocks : LaterBlocks[e] < LaterBlocks[r] => g[e] = h[e]
        PROVE  step[r][g] = step[r][h]
    <3> HIDE DEF Inner
    <3> QED
      BY <1>1, <2>3
  <2>4. blocks # {}
    OBVIOUS
  <2> HIDE DEF step
  <2> QED
    BY <2>1, <2>2, <2>3, <2>4 DEF IsRecursion
<1>3. PICK g \in [blocks -> blocks] : \A r \in blocks : g[r] = step[r][g]
  <2> HIDE DEF step
  <2> QED
    BY <1>2, RankRecursion
<1>4. IsWalk(g)
  <2> HIDE DEF Inner
  <2> QED
    BY <1>3
<1>5. IsWalk(walk)
  <2> HIDE DEF IsWalk
  <2> QED
    BY <1>4
<1>6. get_head = walk[justified_checkpoint.root]
  BY DEF get_head, Heaviest
<1>7. \A r \in blocks : walk[r] = IF Inner(r) = {} THEN r ELSE walk[Heaviest(Inner(r))]
  <2> HIDE DEF walk, Inner
  <2> QED
    BY <1>5
<1>8. walk \in [blocks -> blocks]
  <2> DEFINE T == {r \in blocks : walk[r] \in blocks}
  <2>1. ASSUME NEW r \in blocks, \A c \in Children(r) : c \in T
        PROVE  r \in T
    <3> HIDE DEF walk, Inner
    <3> QED
      BY <1>1, <1>7, <2>1
  <2>2. \A r \in blocks : r \in T
    <3> HIDE DEF T
    <3> QED
      BY <2>1, DescentInduction
  <2>3. walk = [r \in blocks |-> walk[r]]
    <3> HIDE DEF walk, Inner
    <3>1. walk = [r \in blocks |-> IF Inner(r) = {} THEN r ELSE walk[Heaviest(Inner(r))]]
      BY <1>5
    <3> QED
      BY <3>1
  <2> HIDE DEF walk
  <2> QED
    BY <2>2, <2>3
<1> HIDE DEF walk
<1> QED
  BY <1>6, <1>7, <1>8

(* A block speaks for the justified checkpoint if its chain has it and its voting  *)
(* source is of that epoch. Nothing of a later epoch has been justified, so what   *)
(* extends such a block speaks for the checkpoint as well, unless it undoes it.    *)
Speaks(b) ==
    \/ justified_checkpoint.epoch = GENESIS_EPOCH
    \/ /\ b \in Known
       /\ get_voting_source(b).epoch = justified_checkpoint.epoch
       /\ justified_checkpoint.epoch <= EpochOf(b)
       /\ get_checkpoint_block(b, justified_checkpoint.epoch) = justified_checkpoint.root

LEMMA VotingSource ==
    ASSUME TypeOK, CheckpointInv, NEW b \in Known
    PROVE  /\ get_voting_source(b).epoch = View!VotingSource(b, get_current_store_epoch)
           /\ get_voting_source(b).epoch \in Nat
           /\ get_voting_source(b).epoch <= justified_checkpoint.epoch
           /\ EpochOf(b) \in Nat /\ EpochOf(b) <= get_current_store_epoch
<1>1. b \in ValidBlock /\ b # Anchor /\ b \in blocks
  BY StoreTypes DEF Known
<1>2. EpochOf(b) \in Nat /\ EpochOf(b) <= get_current_store_epoch
  <2>1. SlotOf(b) \in Nat /\ SlotOf(b) <= get_current_slot
    BY <1>1, StoreTypes DEF CheckpointInv
  <2> QED
    BY <2>1, StoreTypes, EpochMonotone DEF EpochOf, get_current_store_epoch
<1>3. get_current_store_epoch \in Nat
  BY StoreTypes
<1>4. get_voting_source(b).epoch = View!VotingSource(b, get_current_store_epoch)
  BY <1>1, <1>2, <1>3 DEF get_voting_source, unrealized_justification, View!VotingSource,
        JustifiedEpochOf, PulledUpJustifiedEpochOf
<1>5. View!VotingSource(b, get_current_store_epoch) \in Nat
  BY <1>1, StateTypes DEF View!VotingSource
<1>6. View!VotingSource(b, get_current_store_epoch) <= justified_checkpoint.epoch
  BY DEF CheckpointInv, View!Agrees, View!IsGreatest, View!JustifiedCandidates
<1> QED
  BY <1>2, <1>4, <1>5, <1>6

LEMMA SourceAdvances ==
    ASSUME TypeOK, CheckpointInv, NEW b \in Known, NEW c \in Children(b),
           ~UndoesJustification(c), get_voting_source(b).epoch = justified_checkpoint.epoch
    PROVE  /\ c \in Known
           /\ EpochOf(b) <= EpochOf(c)
           /\ get_voting_source(c).epoch = justified_checkpoint.epoch
<1> DEFINE clock == get_current_store_epoch
<1>1. /\ c \in Known /\ ParentOf(c) = b /\ c \in ValidBlock /\ b \in ValidBlock
  BY StoreTypes DEF Children, Known
<1>2. /\ EpochOf(b) \in Nat /\ EpochOf(c) \in Nat /\ clock \in Nat
      /\ EpochOf(b) <= clock /\ EpochOf(c) <= clock
  BY <1>1, VotingSource, StoreTypes
<1>3. EpochOf(b) <= EpochOf(c)
  <2>1. SlotOf(b) \in Nat /\ SlotOf(c) \in Nat /\ SlotOf(b) <= SlotOf(c)
    BY <1>1, StoreTypes, BlockSlots DEF Known
  <2> QED
    BY <2>1, EpochMonotone DEF EpochOf
<1>4. IF EpochOf(b) < EpochOf(c)
      THEN PulledUpJustifiedEpochOf(b) <= JustifiedEpochOf(c)
      ELSE JustifiedEpochOf(b) <= JustifiedEpochOf(c)
  <2>1. (IF EpochOf(b) < EpochOf(c) THEN PulledUpState[b] ELSE BlockState[b])
              .current_justified_checkpoint.epoch
          <= BlockState[c].current_justified_checkpoint.epoch
    BY <1>1, ChainAssumption DEF StatesOnChain
  <2> QED
    BY <2>1 DEF JustifiedEpochOf, PulledUpJustifiedEpochOf
<1>5. ASSUME EpochOf(b) = EpochOf(c), PulledUpJustifiedEpochOf(b) = justified_checkpoint.epoch
      PROVE  ~(PulledUpJustifiedEpochOf(c) < justified_checkpoint.epoch)
  BY <1>1, <1>5, StoreTypes DEF UndoesJustification, unrealized_justification,
        PulledUpJustifiedEpochOf, Known
<1>6. /\ View!VotingSource(b, clock) = justified_checkpoint.epoch
      /\ View!VotingSource(c, clock) <= justified_checkpoint.epoch
      /\ justified_checkpoint.epoch \in Nat
  BY <1>1, VotingSource, StoreTypes, LaterType
<1>7. /\ JustifiedEpochOf(b) \in Nat /\ PulledUpJustifiedEpochOf(b) \in Nat
      /\ JustifiedEpochOf(c) \in Nat /\ PulledUpJustifiedEpochOf(c) \in Nat
      /\ JustifiedEpochOf(c) <= PulledUpJustifiedEpochOf(c)
  BY <1>1, StateTypes
<1>8. View!VotingSource(c, clock) = justified_checkpoint.epoch
  <2> HIDE DEF clock
  <2> QED
    BY <1>2, <1>3, <1>4, <1>5, <1>6, <1>7 DEF View!VotingSource
<1> QED
  BY <1>1, <1>3, <1>8, VotingSource

LEMMA SpeakersGoOn ==
    ASSUME TypeOK, CheckpointInv, SourceInv, NEW r \in blocks, Speaks(r), NEW c \in Children(r),
           ~UndoesJustification(c)
    PROVE  Speaks(c)
<1> SUFFICES ASSUME justified_checkpoint.epoch # GENESIS_EPOCH
             PROVE  Speaks(c)
  BY DEF Speaks
<1> DEFINE epoch == justified_checkpoint.epoch
<1>1. /\ r \in Known /\ get_voting_source(r).epoch = epoch /\ epoch <= EpochOf(r)
      /\ get_checkpoint_block(r, epoch) = justified_checkpoint.root
  BY DEF Speaks
<1>2. /\ c \in Known /\ EpochOf(r) <= EpochOf(c)
      /\ get_voting_source(c).epoch = epoch
  BY <1>1, SourceAdvances
<1>3. /\ EpochOf(r) \in Nat /\ EpochOf(c) \in Nat /\ epoch \in Nat
  BY <1>1, <1>2, VotingSource, StoreTypes, LaterType
<1>4. get_voting_source(c).epoch = epoch /\ epoch <= EpochOf(c)
  BY <1>1, <1>2, <1>3
<1>5. get_checkpoint_block(c, epoch) = justified_checkpoint.root
  <2>1. /\ c \in Block \ {Anchor} /\ ParentOf(c) = r /\ SlotOf(r) \in Nat /\ SlotOf(c) \in Nat
        /\ SlotOf(r) < SlotOf(c)
    BY <1>2, StoreTypes, BlockSlots DEF Children
  <2>2. compute_start_slot_at_epoch(epoch) \in Nat
        /\ compute_start_slot_at_epoch(epoch) <= SlotOf(r)
    <3>1. SLOTS_PER_EPOCH \in Nat \ {0}
      BY SlotsAssumption
    <3>2. EpochOf(r) * SLOTS_PER_EPOCH <= SlotOf(r)
      BY <2>1, <3>1 DEF EpochOf, compute_epoch_at_slot
    <3>3. epoch * SLOTS_PER_EPOCH <= EpochOf(r) * SLOTS_PER_EPOCH
          /\ epoch * SLOTS_PER_EPOCH \in Nat /\ EpochOf(r) * SLOTS_PER_EPOCH \in Nat
      BY <1>1, <1>3, <3>1
    <3> HIDE DEF epoch
    <3> QED
      BY <2>1, <3>2, <3>3 DEF compute_start_slot_at_epoch
  <2>3. ~(SlotOf(c) <= compute_start_slot_at_epoch(epoch))
    BY <2>1, <2>2
  <2>4. get_checkpoint_block(c, epoch) = get_checkpoint_block(r, epoch)
    <3> HIDE DEF epoch
    <3> QED
      BY <2>1, <2>2, <2>3, AncestorWalk DEF get_checkpoint_block
  <2> QED
    BY <1>1, <2>4
<1> QED
  BY <1>2, <1>4, <1>5 DEF Speaks

(* Between two finalized or justified checkpoints: what has the justified one on   *)
(* its chain has the finalized one.                                                *)
LEMMA SpeakersViable ==
    ASSUME TypeOK, CheckpointInv, SourceInv, JustifiedExtendsFinalized, IsFiniteSet(blocks),
           \A c \in blocks \ {Anchor} : ~UndoesJustification(c),
           NEW root \in blocks, Speaks(root)
    PROVE  root \in filter_block_tree
<1>1. ASSUME NEW r \in blocks, Speaks(r)
      PROVE  IsViableLeaf(r)
  <2> DEFINE e == justified_checkpoint.epoch
             f == finalized_checkpoint.epoch
  <2>1. e \in Nat /\ f \in Nat /\ f <= e /\ GENESIS_EPOCH = 0
    BY StoreTypes, LaterType DEF JustifiedExtendsFinalized, GENESIS_EPOCH
  <2>2. e = GENESIS_EPOCH => f = GENESIS_EPOCH
    BY <2>1
  <2>3. CASE e = GENESIS_EPOCH
    BY <2>2, <2>3 DEF IsViableLeaf
  <2>4. CASE e # GENESIS_EPOCH
    <3>1. /\ get_voting_source(r).epoch = e
          /\ get_checkpoint_block(r, e) = justified_checkpoint.root
      BY <1>1, <2>4 DEF Speaks
    <3>2. /\ compute_start_slot_at_epoch(f) \in Nat /\ compute_start_slot_at_epoch(e) \in Nat
          /\ compute_start_slot_at_epoch(f) <= compute_start_slot_at_epoch(e)
      BY <2>1, SourceEpochs, StartSlots
    <3>3. r \in Block /\ justified_checkpoint.root \in Block
      BY CheckpointsKnown, StoreTypes
    <3>4. get_checkpoint_block(r, f) = get_checkpoint_block(justified_checkpoint.root, f)
      <4> HIDE DEF e, f
      <4> QED
        BY <3>1, <3>2, <3>3, AncestorOfAncestor DEF get_checkpoint_block
    <3>5. get_checkpoint_block(r, f) = finalized_checkpoint.root
      BY <3>4 DEF JustifiedExtendsFinalized
    <3> QED
      BY <3>1, <3>5 DEF IsViableLeaf
  <2> QED
    BY <2>3, <2>4
<1> DEFINE T == {r \in blocks : Speaks(r) => r \in filter_block_tree}
<1>2. ASSUME NEW r \in blocks, \A c \in Children(r) : c \in T
      PROVE  r \in T
  <2> SUFFICES ASSUME Speaks(r) PROVE r \in filter_block_tree
    OBVIOUS
  <2>1. CASE Children(r) = {}
    BY <1>1, <2>1, ViableWalk
  <2>2. CASE Children(r) # {}
    <3>1. PICK c \in Children(r) : TRUE
      BY <2>2
    <3>2. Speaks(c)
      BY SpeakersGoOn DEF Children
    <3>3. c \in filter_block_tree
      BY <1>2, <3>2
    <3> QED
      BY <2>2, <3>3, ViableWalk
  <2> QED
    BY <2>1, <2>2
<1>3. root \in T
  <2> HIDE DEF T
  <2> QED
    BY <1>2, DescentInduction
<1> QED
  BY <1>3

LEMMA ViableAncestor ==
    ASSUME TypeOK, SourceInv, IsFiniteSet(blocks), NEW root \in blocks, NEW a \in blocks,
           root \in filter_block_tree, IsDescendant(root, a)
    PROVE  a \in filter_block_tree
<1> DEFINE T == {r \in Block : r \in filter_block_tree /\ r \in blocks /\ IsDescendant(r, a)
                                    => a \in filter_block_tree}
<1>1. a \in Block /\ SlotOf(a) \in Nat /\ root \in Block
  BY StoreTypes, BlockSlots
<1>2. Anchor \in T
  <2>1. get_ancestor(Anchor, SlotOf(a)) \in {Anchor, ZeroRoot}
    BY <1>1, AncestorWalk, BlockSlots
  <2> QED
    BY <1>1, <2>1, BlockSlots DEF IsDescendant
<1>3. ASSUME NEW r \in Block \ {Anchor}, ParentOf(r) \in T
      PROVE  r \in T
  <2> SUFFICES ASSUME r \in filter_block_tree, r \in blocks, IsDescendant(r, a)
               PROVE  a \in filter_block_tree
    OBVIOUS
  <2>1. CASE SlotOf(r) <= SlotOf(a)
    BY <1>1, <2>1, AncestorWalk DEF IsDescendant
  <2>2. CASE ~(SlotOf(r) <= SlotOf(a))
    <3>1. IsDescendant(ParentOf(r), a)
      BY <1>1, <2>2, AncestorWalk DEF IsDescendant
    <3>2. ParentOf(r) \in blocks /\ r \in Children(ParentOf(r))
      BY DEF SourceInv, Known, Children
    <3>3. ParentOf(r) \in filter_block_tree
      BY <3>2, ViableWalk
    <3> QED
      BY <1>3, <3>1, <3>2, <3>3
  <2> QED
    BY <2>1, <2>2
<1>4. root \in T
  <2> HIDE DEF T
  <2> QED
    BY <1>1, <1>2, <1>3, BlockInduction
<1> QED
  BY <1>4

(* The justified root is never filtered out: some known block speaks for it.       *)
LEMMA JustifiedRootViable ==
    ASSUME TypeOK, CheckpointInv, SourceInv, JustifiedExtendsFinalized, IsFiniteSet(blocks),
           \A c \in blocks \ {Anchor} : ~UndoesJustification(c), AnchorEpoch = GENESIS_EPOCH
    PROVE  justified_checkpoint.root \in filter_block_tree
<1> DEFINE J == justified_checkpoint
<1>1. J.root \in blocks /\ J \in Checkpoint /\ J.epoch \in Nat
  BY CheckpointsKnown, StoreTypes, LaterType
<1>2. CASE J = AnchorCheckpoint
  <2>1. Speaks(J.root)
    BY <1>2 DEF Speaks, AnchorCheckpoint
  <2> QED
    BY <1>1, <2>1, SpeakersViable
<1>3. CASE J # AnchorCheckpoint
  <2>1. PICK b \in Known :
             /\ J.epoch > AnchorEpoch
             /\ \/ J = BlockState[b].current_justified_checkpoint
                \/ /\ J = PulledUpState[b].current_justified_checkpoint
                   /\ EpochOf(b) < get_current_store_epoch
    BY <1>3 DEF SourceInv
  <2>2. /\ J.epoch <= EpochOf(b) /\ J.root = get_checkpoint_block(b, J.epoch)
    BY <1>1, <2>1, OwnCheckpoint
  <2>3. /\ b \in ValidBlock /\ b # Anchor /\ b \in blocks /\ b \in Block
    BY StoreTypes DEF Known
  <2>4. /\ get_voting_source(b).epoch \in Nat /\ get_voting_source(b).epoch <= J.epoch
        /\ EpochOf(b) \in Nat /\ get_current_store_epoch \in Nat
    BY VotingSource, StoreTypes
  <2>5. get_voting_source(b).epoch >= J.epoch
    <3>1. CASE J = BlockState[b].current_justified_checkpoint
      <4>1. J.epoch <= PulledUpState[b].current_justified_checkpoint.epoch
        BY <2>3, <3>1, StateAssumption DEF StatesOrdered
      <4> QED
        BY <1>1, <2>3, <3>1, <4>1 DEF get_voting_source, unrealized_justification
    <3>2. CASE /\ J = PulledUpState[b].current_justified_checkpoint
               /\ EpochOf(b) < get_current_store_epoch
      BY <1>1, <2>3, <2>4, <3>2 DEF get_voting_source, unrealized_justification
    <3> QED
      BY <2>1, <3>1, <3>2
  <2>6. Speaks(b)
    BY <1>1, <2>2, <2>4, <2>5 DEF Speaks
  <2>7. b \in filter_block_tree
    BY <2>3, <2>6, SpeakersViable
  <2>8. IsDescendant(b, J.root)
    <3>1. compute_start_slot_at_epoch(J.epoch) \in Nat
      BY <1>1, <2>1, StartSlots, AnchorType
    <3> QED
      BY <1>1, <2>2, <2>3, <3>1, StoreTypes, AncestorIsAncestor DEF get_checkpoint_block
  <2> QED
    BY <1>1, <2>3, <2>7, <2>8, ViableAncestor
<1> QED
  BY <1>2, <1>3

(* What filter_block_tree and get_head run, of a store as a whole: what holds of one   *)
(* store holds of the next as well.                                                   *)
FilterIsWalk ==
    \A r \in blocks :
        r \in filter_block_tree
            <=> IF Children(r) = {} THEN IsViableLeaf(r)
                ELSE \E child \in Children(r) : child \in filter_block_tree

Inner(r) == Children(r) \cap get_filtered_block_tree

IsHeadWalk(walk) ==
    /\ get_head = walk[justified_checkpoint.root]
    /\ \A r \in blocks :
          /\ Inner(r) = {} => walk[r] = r
          /\ Inner(r) # {} =>
                \E c \in Inner(r) : /\ \A d \in Inner(r) : IsHeavier(c, d)
                                    /\ walk[r] = walk[c]

HeadIsWalk == \E walk \in [blocks -> blocks] : IsHeadWalk(walk)

Walkable == TypeOK /\ IsFiniteSet(blocks) /\ justified_checkpoint.root \in blocks

LEMMA HeaviestInner ==
    ASSUME TypeOK, IsFiniteSet(blocks), NEW r, Inner(r) # {}
    PROVE  /\ Heaviest(Inner(r)) \in Inner(r)
           /\ \A d \in Inner(r) : IsHeavier(Heaviest(Inner(r)), d)
<1>1. Inner(r) \in SUBSET blocks
  BY DEF Children, Inner
<1>2. IsFiniteSet(Inner(r))
  BY <1>1, FS_Subset
<1>3. \E c \in Inner(r) : \A d \in Inner(r) : IsHeavier(c, d)
  BY <1>1, <1>2, HeaviestExists
<1> QED
  BY <1>3 DEF Heaviest

LEMMA Walks == Walkable => FilterIsWalk /\ HeadIsWalk
<1> SUFFICES ASSUME TypeOK, IsFiniteSet(blocks), justified_checkpoint.root \in blocks
             PROVE  FilterIsWalk /\ HeadIsWalk
  BY DEF Walkable
<1>1. FilterIsWalk
  BY ViableWalk DEF FilterIsWalk
<1>2. PICK walk \in [blocks -> blocks] :
          /\ get_head = walk[justified_checkpoint.root]
          /\ \A r \in blocks : walk[r] = IF Inner(r) = {} THEN r ELSE walk[Heaviest(Inner(r))]
  BY HeadWalk DEF Inner
<1>3. ASSUME NEW r \in blocks, Inner(r) # {}
      PROVE  \E c \in Inner(r) : /\ \A d \in Inner(r) : IsHeavier(c, d)
                                 /\ walk[r] = walk[c]
  <2>1. walk[r] = walk[Heaviest(Inner(r))]
    BY <1>2, <1>3
  <2> QED
    BY <1>3, <2>1, HeaviestInner
<1>4. HeadIsWalk
  BY <1>2, <1>3 DEF HeadIsWalk, IsHeadWalk
<1> QED
  BY <1>1, <1>4

(* What descends from a block is not lost by going on to a child.                    *)
LEMMA ChildDescends ==
    ASSUME NEW r \in Block, NEW c \in Block \ {Anchor}, ParentOf(c) = r,
           NEW a \in Block, IsDescendant(r, a)
    PROVE  IsDescendant(c, a)
<1>1. /\ SlotOf(a) \in Nat /\ SlotOf(r) \in Nat /\ SlotOf(c) \in Nat /\ SlotOf(r) < SlotOf(c)
      /\ ZeroRoot \notin Block
  BY BlockSlots
<1>2. SlotOf(a) <= SlotOf(r)
  BY <1>1, AncestorSlot DEF IsDescendant
<1>3. ~(SlotOf(c) <= SlotOf(a))
  BY <1>1, <1>2
<1>4. get_ancestor(c, SlotOf(a)) = get_ancestor(r, SlotOf(a))
  BY <1>1, <1>3, AncestorWalk
<1> QED
  BY <1>4 DEF IsDescendant

(* Below the justified root a block of the filtered tree is a leaf or has a child in  *)
(* the tree.                                                                         *)
LEMMA TreeGoesOn ==
    ASSUME Walkable, NEW r \in get_filtered_block_tree, Children(r) # {}
    PROVE  Inner(r) # {}
<1>1. r \in blocks /\ r \in filter_block_tree /\ IsDescendant(r, justified_checkpoint.root)
  BY DEF get_filtered_block_tree, filter_block_tree
<1>2. PICK c \in Children(r) : c \in filter_block_tree
  BY <1>1, Walks DEF FilterIsWalk
<1>3. /\ c \in Block \ {Anchor} /\ ParentOf(c) = r /\ r \in Block
      /\ justified_checkpoint.root \in Block
  BY <1>1, StoreTypes DEF Children, Walkable
<1>4. IsDescendant(c, justified_checkpoint.root)
  BY <1>1, <1>3, ChildDescends
<1> QED
  BY <1>2, <1>4 DEF Inner, get_filtered_block_tree

LEMMA ParentDescends ==
    ASSUME NEW r \in Block \ {Anchor}, NEW a \in Block, IsDescendant(r, a), r # a
    PROVE  IsDescendant(ParentOf(r), a)
<1>1. SlotOf(a) \in Nat
  BY BlockSlots
<1>2. ~(SlotOf(r) <= SlotOf(a))
  BY <1>1, AncestorWalk DEF IsDescendant
<1> QED
  BY <1>1, <1>2, AncestorWalk DEF IsDescendant

(* The walk of get_head goes down the tree to a leaf.                                *)
LEMMA WalkDescends ==
    ASSUME Walkable, NEW walk \in [blocks -> blocks], IsHeadWalk(walk),
           NEW root \in get_filtered_block_tree
    PROVE  /\ walk[root] \in get_filtered_block_tree
           /\ Children(walk[root]) = {}
           /\ IsDescendant(walk[root], root)
<1> DEFINE Good(r) == /\ walk[r] \in get_filtered_block_tree
                      /\ Children(walk[r]) = {}
                      /\ IsDescendant(walk[r], r)
           T == {r \in blocks : r \in get_filtered_block_tree => Good(r)}
<1>1. TypeOK /\ IsFiniteSet(blocks)
  BY DEF Walkable
<1>2. ASSUME NEW r \in blocks, \A c \in Children(r) : c \in T, r \in get_filtered_block_tree
      PROVE  Good(r)
  <2>1. r \in Block /\ SlotOf(r) \in Nat
    BY <1>1, StoreTypes, BlockSlots
  <2>2. CASE Inner(r) = {}
    <3>1. walk[r] = r
      BY <2>2 DEF IsHeadWalk
    <3>2. Children(r) = {}
      BY <1>2, <2>2, TreeGoesOn
    <3>3. IsDescendant(r, r)
      BY <2>1, AncestorWalk DEF IsDescendant
    <3> QED
      BY <1>2, <3>1, <3>2, <3>3
  <2>3. CASE Inner(r) # {}
    <3>1. PICK c \in Inner(r) : walk[r] = walk[c]
      BY <2>3 DEF IsHeadWalk
    <3>2. c \in Children(r) /\ c \in get_filtered_block_tree
      BY DEF Inner
    <3>3. Good(c)
      BY <1>2, <3>2
    <3>4. /\ c \in Block \ {Anchor} /\ ParentOf(c) = r /\ walk[c] \in Block
      BY <1>1, <3>2, StoreTypes DEF Children
    <3>5. IsDescendant(walk[c], r)
      BY <3>3, <3>4, ParentOfAncestor
    <3> QED
      BY <3>1, <3>3, <3>5
  <2> QED
    BY <2>2, <2>3
<1>3. \A r \in blocks : r \in T
  <2>1. \A r \in blocks : (\A c \in Children(r) : c \in T) => r \in T
    BY <1>2
  <2> HIDE DEF T
  <2> QED
    BY <1>1, <2>1, DescentInduction
<1>4. root \in blocks
  BY DEF get_filtered_block_tree, filter_block_tree
<1> QED
  BY <1>3, <1>4

LEMMA HeadInTree ==
    ASSUME Walkable, get_head # justified_checkpoint.root
    PROVE  /\ get_head \in get_filtered_block_tree
           /\ Children(get_head) = {}
           /\ justified_checkpoint.root \in get_filtered_block_tree
<1> DEFINE j == justified_checkpoint.root
<1>1. j \in blocks /\ j \in Block /\ SlotOf(j) \in Nat
  BY StoreTypes, BlockSlots DEF Walkable
<1>2. PICK walk \in [blocks -> blocks] : IsHeadWalk(walk)
  BY Walks DEF HeadIsWalk
<1>3. Inner(j) # {}
  BY <1>1, <1>2 DEF IsHeadWalk
<1>4. j \in filter_block_tree
  <2>1. Children(j) # {} /\ \E c \in Children(j) : c \in filter_block_tree
    BY <1>3 DEF Inner, get_filtered_block_tree
  <2> QED
    BY <1>1, <2>1, Walks DEF FilterIsWalk
<1>5. j \in get_filtered_block_tree
  BY <1>1, <1>4, AncestorWalk DEF get_filtered_block_tree, IsDescendant
<1>6. get_head = walk[j]
  BY <1>2 DEF IsHeadWalk
<1> QED
  BY <1>2, <1>5, <1>6, WalkDescends

(* So the walk of get_head starts in the filtered tree, finds a child there at      *)
(* every block that is no leaf, and ends at a leaf that was kept.                  *)
LEMMA HeadIsLeaf ==
    ASSUME TypeOK, SourceInv, IsFiniteSet(blocks),
           justified_checkpoint.root \in filter_block_tree
    PROVE  /\ get_head \in blocks
           /\ Children(get_head) = {}
           /\ IsViableLeaf(get_head)
<1> DEFINE j == justified_checkpoint.root
<1>1. j \in blocks /\ j \in Block /\ SlotOf(j) \in Nat /\ Walkable
  BY CheckpointsKnown, StoreTypes DEF Walkable
<1>2. PICK walk \in [blocks -> blocks] : IsHeadWalk(walk)
  BY <1>1, Walks DEF HeadIsWalk
<1>3. j \in get_filtered_block_tree
  BY <1>1, AncestorWalk DEF get_filtered_block_tree, IsDescendant
<1>4. get_head \in get_filtered_block_tree /\ Children(get_head) = {}
  BY <1>1, <1>2, <1>3, WalkDescends DEF IsHeadWalk
<1>5. get_head \in blocks /\ get_head \in filter_block_tree
  BY <1>4 DEF get_filtered_block_tree, filter_block_tree
<1> QED
  BY <1>1, <1>4, <1>5, Walks DEF FilterIsWalk

(* Wherever the votes and the order of the messages have brought the store, the     *)
(* head is a viable leaf, as long as no known block undoes what its parent           *)
(* justified. The anchor is the genesis block: one whose state had justified an      *)
(* older epoch may leave get_head with the bare justified root, since                *)
(* get_forkchoice_store takes the anchor itself for justified.                       *)
THEOREM HeadViable ==
    AnchorEpoch = GENESIS_EPOCH /\ AccountableSafety => (Spec => []HeadIsViableLeaf)
<1> SUFFICES ASSUME AnchorEpoch = GENESIS_EPOCH, AccountableSafety
             PROVE  Spec => []HeadIsViableLeaf
  OBVIOUS
<1>1. TypeOK /\ CheckpointInv /\ SourceInv /\ IsFiniteSet(blocks) => HeadIsViableLeaf
  <2> SUFFICES ASSUME TypeOK, CheckpointInv, SourceInv, IsFiniteSet(blocks),
                      \A root \in blocks \ {Anchor} : ~UndoesJustification(root)
               PROVE  /\ Children(get_head) = {}
                      /\ IsViableLeaf(get_head)
                      /\ get_checkpoint_block(get_head, finalized_checkpoint.epoch)
                             = finalized_checkpoint.root
    BY DEF HeadIsViableLeaf
  <2>1. JustifiedExtendsFinalized
    BY CheckpointsCompatible
  <2>2. get_head \in blocks /\ Children(get_head) = {} /\ IsViableLeaf(get_head)
    BY <2>1, JustifiedRootViable, HeadIsLeaf
  <2>3. get_head \in Block
    BY <2>2, StoreTypes
  <2>4. get_checkpoint_block(get_head, finalized_checkpoint.epoch) = finalized_checkpoint.root
    <3>1. CASE finalized_checkpoint.epoch = GENESIS_EPOCH
      <4>1. finalized_checkpoint = AnchorCheckpoint
        BY <3>1, AnchorType DEF SourceInv
      <4> QED
        BY <2>3, <4>1, AnchorIsCheckpoint DEF AnchorCheckpoint
    <3>2. CASE finalized_checkpoint.epoch # GENESIS_EPOCH
      BY <2>2, <3>2 DEF IsViableLeaf
    <3> QED
      BY <3>1, <3>2
  <2> QED
    BY <2>2, <2>4
<1> QED
  BY <1>1, CheckpointSources, BlocksStayFinite, PTL
--------------------------------------------------------------------------------
(* The proposer's re-org, with the stores before and after it walked side by side.    *)
LEMMA NextWalks == Walkable' => FilterIsWalk' /\ HeadIsWalk'
BY Walks, PTL

(* A block taken in during its slot, on time and first: it gets the boost, and what   *)
(* the head is reckoned from stays otherwise as it is.                                *)
Adopts(root) ==
    /\ root \in ValidBlock /\ root \notin blocks /\ blocks' = blocks \cup {root}
    /\ proposer_boost_root = ZeroRoot /\ proposer_boost_root' = root
    /\ UNCHANGED <<time, justified_checkpoint, finalized_checkpoint, equivocating_indices,
                   latest_messages>>

LEMMA AdoptedWeight ==
    ASSUME NEW root, Adopts(root), NEW x
    PROVE  get_weight(x)' = get_weight(x)
               + (IF IsDescendant(root, x) THEN get_proposer_score ELSE 0)
<1>1. root # ZeroRoot
  BY TreeAssumption DEF Adopts, ValidBlock
<1>2. Supporters(x)' = Supporters(x)
  BY DEF Adopts, Supporters, HasMessage
<1>3. (IsBoosted(x)' <=> IsDescendant(root, x)) /\ ~IsBoosted(x)
  BY <1>1 DEF Adopts, IsBoosted
<1>4. get_weight(x) \in Nat
  BY WeightType
<1>5. get_weight(x) = SumOfBalances(Supporters(x)) + 0
  BY <1>3 DEF get_weight
<1>6. SumOfBalances(Supporters(x)) \in Nat
  <2>1. PICK f : /\ IsSum(f, EffectiveBalance, Validator)
                 /\ \A S \in SUBSET Validator : SumOfBalances(S) = f[S]
    BY BalanceSums
  <2> QED
    BY <2>1 DEF IsSum, Supporters
<1>7. get_weight(x)' = SumOfBalances(Supporters(x))
                          + (IF IsDescendant(root, x) THEN get_proposer_score ELSE 0)
  BY <1>2, <1>3 DEF get_weight
<1> QED
  BY <1>5, <1>6, <1>7

(* The new block is a leaf, and the tree is filtered as before: its parent was no      *)
(* leaf and keeps a viable child, the old head.                                       *)
LEMMA AdoptedChildren ==
    ASSUME TypeOK, SourceInv, NEW root, Adopts(root), ParentOf(root) \in blocks
    PROVE  /\ Children(root)' = {}
           /\ \A r \in blocks : Children(r)' = IF r = ParentOf(root) THEN Children(r) \cup {root}
                                              ELSE Children(r)
<1>1. root \in Block \ {Anchor} /\ root \notin blocks /\ blocks' = blocks \cup {root}
  BY TreeAssumption DEF Adopts, ValidBlock
<1>2. SlotOf(ParentOf(root)) < SlotOf(root) /\ SlotOf(root) \in Nat
  BY <1>1, BlockSlots
<1>3. Children(root)' = {}
  <2>1. \A c \in blocks \ {Anchor} : ParentOf(c) \in blocks
    BY DEF SourceInv, Known
  <2> QED
    BY <1>1, <1>2, <2>1 DEF Children
<1>4. ASSUME NEW r \in blocks
      PROVE  Children(r)' = IF r = ParentOf(root) THEN Children(r) \cup {root} ELSE Children(r)
  BY <1>1 DEF Children
<1> QED
  BY <1>3, <1>4

LEMMA AdoptedFilter ==
    ASSUME Walkable, Walkable', SourceInv, NEW root, Adopts(root), ParentOf(root) \in blocks,
           NEW head \in Children(ParentOf(root)), head \in filter_block_tree,
           IsViableLeaf(root)'
    PROVE  /\ root \in filter_block_tree'
           /\ \A r \in blocks : r \in filter_block_tree' <=> r \in filter_block_tree
<1> DEFINE p == ParentOf(root)
           T == {r \in blocks : r \in filter_block_tree' <=> r \in filter_block_tree}
<1>1. /\ TypeOK /\ IsFiniteSet(blocks) /\ root \notin blocks /\ blocks' = blocks \cup {root}
  BY DEF Walkable, Adopts
<1>2. FilterIsWalk /\ FilterIsWalk'
  BY Walks, NextWalks
<1>3. /\ Children(root)' = {}
      /\ \A r \in blocks : Children(r)' = IF r = p THEN Children(r) \cup {root} ELSE Children(r)
  BY <1>1, AdoptedChildren
<1>4. \A r \in blocks' :
          r \in filter_block_tree'
              <=> IF Children(r)' = {} THEN IsViableLeaf(r)'
                  ELSE \E child \in Children(r)' : child \in filter_block_tree'
  BY <1>2 DEF FilterIsWalk
<1>5. \A r \in blocks :
          r \in filter_block_tree
              <=> IF Children(r) = {} THEN IsViableLeaf(r)
                  ELSE \E child \in Children(r) : child \in filter_block_tree
  BY <1>2 DEF FilterIsWalk
<1>6. root \in filter_block_tree'
  BY <1>1, <1>3, <1>4
<1>7. ASSUME NEW r \in blocks
      PROVE  IsViableLeaf(r)' <=> IsViableLeaf(r)
  BY DEF Adopts, IsViableLeaf, get_voting_source, get_current_store_epoch, get_current_slot
<1>8. ASSUME NEW r \in blocks, \A c \in Children(r) : c \in T
      PROVE  r \in T
  <2>1. CASE r = p
    <3>1. head \in filter_block_tree'
      BY <1>8, <2>1
    <3> QED
      BY <1>1, <1>3, <1>4, <1>5, <2>1, <3>1
  <2>2. CASE r # p
    <3>1. Children(r)' = Children(r)
      BY <1>3, <2>2
    <3>2. CASE Children(r) = {}
      BY <1>1, <1>4, <1>5, <1>7, <3>1, <3>2
    <3>3. CASE Children(r) # {}
      <4>1. \A c \in Children(r) : c \in filter_block_tree' <=> c \in filter_block_tree
        BY <1>8
      <4> QED
        BY <1>1, <1>4, <1>5, <3>1, <3>3, <4>1
    <3> QED
      BY <3>2, <3>3
  <2> QED
    BY <2>1, <2>2
<1>9. \A r \in blocks : r \in T
  <2> HIDE DEF T
  <2> QED
    BY <1>1, <1>8, DescentInduction
<1> QED
  BY <1>6, <1>9

(* The new block wins: above its parent the branch of the old head was the heaviest    *)
(* already and gains the boost, at its parent the boost alone outweighs the old head,  *)
(* the heaviest there was.                                                            *)
LEMMA AdoptedHead ==
    ASSUME Walkable, Walkable', SourceInv, NEW root, Adopts(root), NEW head, get_head = head,
           head # justified_checkpoint.root, head # Anchor, ParentOf(root) = ParentOf(head),
           ParentOf(root) \in blocks, IsViableLeaf(root)', get_weight(head) < get_proposer_score
    PROVE  get_head' = root
<1> DEFINE p == ParentOf(head)
           j == justified_checkpoint.root
           tree == get_filtered_block_tree
<1>1. /\ TypeOK /\ IsFiniteSet(blocks) /\ root \notin blocks /\ blocks' = blocks \cup {root}
      /\ justified_checkpoint' = justified_checkpoint
      /\ j \in blocks
  BY DEF Walkable, Adopts
<1>2. head \in tree /\ Children(head) = {} /\ j \in tree
  BY HeadInTree
<1>3. /\ head \in blocks /\ head \in filter_block_tree /\ IsDescendant(head, j)
      /\ head \in Children(p)
  <2>1. head \in blocks /\ head \in filter_block_tree /\ IsDescendant(head, j)
    BY <1>2 DEF get_filtered_block_tree, filter_block_tree
  <2> QED
    BY <2>1 DEF Children
<1>4. /\ blocks \subseteq Block /\ ZeroRoot \notin Block
      /\ root \in Block \ {Anchor} /\ head \in Block \ {Anchor} /\ p \in Block /\ p \in blocks
      /\ ParentOf(root) = p /\ root # head
  BY <1>1, <1>3, StoreTypes, TreeAssumption DEF Adopts, ValidBlock
<1>5. IsDescendant(p, j) /\ IsDescendant(root, j)
  BY <1>1, <1>3, <1>4, ParentDescends, ChildDescends
<1>6. /\ root \in filter_block_tree'
      /\ \A r \in blocks : r \in filter_block_tree' <=> r \in filter_block_tree
  BY <1>3, AdoptedFilter
<1>7. /\ Children(root)' = {}
      /\ \A r \in blocks : Children(r)' = IF r = p THEN Children(r) \cup {root} ELSE Children(r)
  BY <1>1, AdoptedChildren
<1>8. /\ root \in tree'
      /\ \A r \in blocks : r \in tree' <=> r \in tree
  BY <1>1, <1>5, <1>6 DEF get_filtered_block_tree, filter_block_tree
<1>9. /\ Inner(root)' = {}
      /\ Inner(p)' = Inner(p) \cup {root}
      /\ \A r \in blocks : r # p => Inner(r)' = Inner(r)
  <2>1. \A r \in blocks : Children(r) \subseteq blocks
    BY DEF Children
  <2> HIDE DEF tree
  <2> QED
    BY <1>4, <1>7, <1>8, <2>1 DEF Inner, tree
<1> DEFINE w(x) == get_weight(x)
           score == get_proposer_score
<1>10. /\ \A x : w(x) \in Nat
       /\ score \in Nat
       /\ w(head) < score
       /\ \A x : w(x)' = w(x) + (IF IsDescendant(root, x) THEN score ELSE 0)
  BY WeightType, ScoreType, AdoptedWeight
<1>11. PICK walk \in [blocks -> blocks] : IsHeadWalk(walk)
  BY Walks DEF HeadIsWalk
<1>12. PICK next \in [blocks' -> blocks'] : IsHeadWalk(next)'
  BY NextWalks DEF HeadIsWalk
<1>13. /\ walk[j] = head
       /\ \A r \in blocks : Inner(r) # {} =>
             \E c \in Inner(r) : (\A d \in Inner(r) : w(c) >= w(d)) /\ walk[r] = walk[c]
       /\ \A r \in blocks : Inner(r) = {} => walk[r] = r
  <2>1. \A c, d : IsHeavier(c, d) => w(c) >= w(d)
    BY <1>10 DEF IsHeavier
  <2> QED
    BY <1>11, <2>1 DEF IsHeadWalk
<1>14. /\ get_head' = next[j]
       /\ next[root] = root
       /\ \A r \in blocks : Inner(r)' # {} =>
             \E c \in Inner(r)' : (\A d \in Inner(r)' : w(c)' >= w(d)') /\ next[r] = next[c]
  <2>1. \A c, d : IsHeavier(c, d)' => w(c)' >= w(d)'
    <3>1. \A x : w(x)' \in Nat
      BY <1>10
    <3> QED
      BY <3>1 DEF IsHeavier
  <2>2. get_head' = next[j]
    BY <1>1, <1>12 DEF IsHeadWalk
  <2>3. next[root] = root
    BY <1>1, <1>9, <1>12 DEF IsHeadWalk
  <2>4. ASSUME NEW r \in blocks, Inner(r)' # {}
        PROVE  \E c \in Inner(r)' : (\A d \in Inner(r)' : w(c)' >= w(d)') /\ next[r] = next[c]
    <3>1. \E c \in Inner(r)' : /\ \A d \in Inner(r)' : IsHeavier(c, d)'
                               /\ next[r] = next[c]
      BY <1>1, <1>12, <2>4 DEF IsHeadWalk
    <3> HIDE DEF w
    <3> QED
      BY <2>1, <3>1
  <2> QED
    BY <2>2, <2>3, <2>4
<1> HIDE DEF w, score
<1> DEFINE T == {r \in blocks : r \in tree /\ walk[r] = head /\ r # head => next[r] = root}
<1>15. ASSUME NEW r \in blocks, \A c \in Children(r) : c \in T,
              r \in tree, walk[r] = head, r # head
       PROVE  next[r] = root
  <2>1. Inner(r) # {}
    BY <1>13, <1>15
  <2>2. PICK c \in Inner(r) : (\A d \in Inner(r) : w(c) >= w(d)) /\ walk[r] = walk[c]
    BY <1>13, <2>1
  <2>3. /\ \A d \in Inner(r) : d \in Block \ {Anchor} /\ ParentOf(d) = r
        /\ c \in Children(r) /\ c \in tree
    BY <1>4, <2>2 DEF Inner, Children
  <2>4. CASE c = head
    <3>1. r = p
      BY <2>3, <2>4
    <3>2. PICK e \in Inner(p)' : (\A d \in Inner(p)' : w(e)' >= w(d)') /\ next[p] = next[e]
      BY <1>4, <1>9, <1>14
    <3>3. ASSUME e # root PROVE FALSE
      <4>1. e \in Inner(p)
        BY <1>9, <3>2, <3>3
      <4>2. e \in Block \ {Anchor} /\ ParentOf(e) = p
        BY <2>3, <3>1, <4>1
      <4>3. IsDescendant(root, root)
        BY <1>4, BlockSlots, AncestorWalk DEF IsDescendant
      <4>4. ~IsDescendant(root, e)
        BY <1>4, <3>3, <4>2, <4>3, SiblingsApart
      <4>5. w(e)' = w(e) + 0 /\ w(root)' = w(root) + score
        BY <1>10, <4>3, <4>4
      <4>6. w(e)' >= w(root)'
        BY <1>9, <3>2
      <4>7. w(head) >= w(e)
        BY <2>2, <2>4, <3>1, <4>1
      <4> QED
        BY <1>10, <4>5, <4>6, <4>7
    <3> QED
      BY <1>14, <3>1, <3>2, <3>3
  <2>5. CASE c # head
    <3>1. IsDescendant(head, c)
      BY <1>11, <1>15, <2>2, <2>3, WalkDescends
    <3>2. IsDescendant(root, c)
      BY <1>4, <2>3, <2>5, <3>1, ParentDescends, ChildDescends
    <3>3. r # p
      <4>1. IsDescendant(head, head)
        BY <1>4, BlockSlots, AncestorWalk DEF IsDescendant
      <4> QED
        BY <1>4, <2>2, <2>3, <2>5, <3>1, <4>1, SiblingsApart
    <3>4. Inner(r)' = Inner(r)
      BY <1>9, <3>3
    <3>5. PICK e \in Inner(r) : (\A d \in Inner(r) : w(e)' >= w(d)') /\ next[r] = next[e]
      BY <1>14, <2>1, <3>4
    <3>6. ASSUME e # c PROVE FALSE
      <4>1. ~IsDescendant(root, e)
        BY <1>4, <2>2, <2>3, <3>2, <3>6, SiblingsApart
      <4>2. w(e)' = w(e) + 0 /\ w(c)' = w(c) + score
        BY <1>10, <3>2, <4>1
      <4>3. w(e)' >= w(c)' /\ w(c) >= w(e)
        BY <2>2, <3>5
      <4> QED
        BY <1>10, <4>2, <4>3
    <3>7. next[c] = root
      BY <1>15, <2>2, <2>3, <2>5
    <3> QED
      BY <3>5, <3>6, <3>7
  <2> QED
    BY <2>4, <2>5
<1>16. \A r \in blocks : r \in T
  <2>1. \A r \in blocks : (\A c \in Children(r) : c \in T) => r \in T
    BY <1>15
  <2> HIDE DEF T
  <2> QED
    BY <1>1, <2>1, DescentInduction
<1>17. next[j] = root
  BY <1>1, <1>2, <1>13, <1>16
<1> QED
  BY <1>14, <1>17

(* The slot is inside an epoch, so the head before it is of that epoch as well.        *)
LEMMA HeadOfThisEpoch ==
    ASSUME NEW head, SlotOf(head) \in Nat, SlotOf(head) + 1 = get_current_slot,
           ~IsEpochStart(get_current_slot)
    PROVE  /\ EpochOf(head) = get_current_store_epoch
           /\ get_current_store_epoch \in Nat
           /\ compute_start_slot_at_epoch(get_current_store_epoch) \in Nat
           /\ compute_start_slot_at_epoch(get_current_store_epoch) <= SlotOf(head)
<1> DEFINE n == SlotOf(head)
<1>1. SLOTS_PER_EPOCH \in Nat \ {0} /\ n \in Nat /\ ~IsEpochStart(n + 1)
  BY SlotsAssumption
<1> HIDE DEF n
<1>2. /\ compute_epoch_at_slot(n) = compute_epoch_at_slot(n + 1)
      /\ compute_epoch_at_slot(n) \in Nat
      /\ compute_epoch_at_slot(n) * SLOTS_PER_EPOCH \in Nat
      /\ compute_epoch_at_slot(n) * SLOTS_PER_EPOCH <= n
  BY <1>1 DEF compute_epoch_at_slot, IsEpochStart
<1> QED
  BY <1>2 DEF n, EpochOf, get_current_store_epoch, compute_start_slot_at_epoch

(* What the store has justified above the anchor is of an epoch that is over.          *)
LEMMA JustifiedEpochIsOver ==
    ASSUME TypeOK, CheckpointInv, SourceInv, justified_checkpoint # AnchorCheckpoint
    PROVE  /\ justified_checkpoint.epoch \in Nat
           /\ AnchorEpoch <= justified_checkpoint.epoch
           /\ justified_checkpoint.epoch < get_current_store_epoch
           /\ SlotOf(justified_checkpoint.root)
                <= compute_start_slot_at_epoch(justified_checkpoint.epoch)
<1> DEFINE J == justified_checkpoint
           clock == get_current_store_epoch
<1>1. J \in Checkpoint /\ J.epoch \in Nat /\ clock \in Nat /\ AnchorEpoch \in Nat
  BY StoreTypes, AnchorType DEF Checkpoint, Epoch
<1>2. PICK b \in Known :
          /\ J.epoch > AnchorEpoch
          /\ \/ J = BlockState[b].current_justified_checkpoint
             \/ /\ J = PulledUpState[b].current_justified_checkpoint
                /\ EpochOf(b) < clock
  BY DEF SourceInv
<1>3. /\ b \in ValidBlock /\ b \in Block
      /\ EpochOf(b) \in Nat /\ EpochOf(b) <= clock
  BY <1>2, StoreTypes, VotingSource DEF Known
<1>4. J.epoch <= EpochOf(b) /\ J.root = get_checkpoint_block(b, J.epoch) /\ J.root \in blocks
  BY <1>1, <1>2, OwnCheckpoint
<1>5. J.epoch < clock
  <2>1. CASE J = BlockState[b].current_justified_checkpoint
    <3>1. J.epoch < EpochOf(b)
      BY <1>2, <1>3, <2>1, EpochAssumption DEF StatesOfEpoch
    <3> HIDE DEF J, clock
    <3> QED
      BY <1>1, <1>3, <3>1
  <2>2. CASE EpochOf(b) < clock
    <3> HIDE DEF J, clock
    <3> QED
      BY <1>1, <1>3, <1>4, <2>2
  <2> QED
    BY <1>2, <2>1, <2>2
<1>6. AnchorEpoch <= J.epoch
  <2> HIDE DEF J
  <2> QED
    BY <1>1, <1>2
<1>7. SlotOf(J.root) <= compute_start_slot_at_epoch(J.epoch)
  <2>1. compute_start_slot_at_epoch(J.epoch) \in Nat
    BY <1>1, <1>6, StartSlots
  <2>2. J.root \in Block
    BY <1>4, StoreTypes
  <2> HIDE DEF J
  <2> QED
    BY <1>3, <1>4, <2>1, <2>2, AncestorSlot DEF get_checkpoint_block
<1> QED
  BY <1>1, <1>5, <1>6, <1>7

(* A head that may be orphaned is not the justified root itself.                       *)
LEMMA HeadIsNotJustified ==
    ASSUME TypeOK, CheckpointInv, SourceInv, NEW head \in blocks, head # Anchor,
           SlotOf(head) + 1 = get_current_slot, ~IsEpochStart(get_current_slot)
    PROVE  head # justified_checkpoint.root
<1> DEFINE J == justified_checkpoint
           clock == get_current_store_epoch
<1>1. CASE J = AnchorCheckpoint
  BY <1>1 DEF AnchorCheckpoint
<1>2. CASE J # AnchorCheckpoint
  <2>1. /\ J.epoch \in Nat /\ AnchorEpoch <= J.epoch /\ J.epoch < clock
        /\ SlotOf(J.root) <= compute_start_slot_at_epoch(J.epoch)
    BY <1>2, JustifiedEpochIsOver
  <2>2. SlotOf(head) \in Nat
    BY StoreTypes
  <2>3. /\ clock \in Nat
        /\ compute_start_slot_at_epoch(clock) \in Nat
        /\ compute_start_slot_at_epoch(clock) <= SlotOf(head)
    BY <2>2, HeadOfThisEpoch
  <2> HIDE DEF J, clock
  <2>4. /\ compute_start_slot_at_epoch(J.epoch) \in Nat
        /\ compute_start_slot_at_epoch(J.epoch) < compute_start_slot_at_epoch(clock)
    BY <2>1, <2>3, SlotsAssumption DEF compute_start_slot_at_epoch
  <2> QED
    BY <2>1, <2>2, <2>3, <2>4 DEF J
<1> QED
  BY <1>1, <1>2

(* The threshold of a weak head is no higher than the boost.                           *)
LEMMA WeakHeadIsOutweighed ==
    ASSUME REORG_HEAD_WEIGHT_THRESHOLD \in 0 .. PROPOSER_SCORE_BOOST,
           NEW head, is_head_weak(head)
    PROVE  get_weight(head) < get_proposer_score
<1> DEFINE committee == get_total_active_balance \div SLOTS_PER_EPOCH
<1>1. committee \in Nat
  <2>1. PICK f : /\ IsSum(f, EffectiveBalance, Validator)
                 /\ \A S \in SUBSET Validator : SumOfBalances(S) = f[S]
    BY BalanceSums
  <2>2. SumOfBalances(Validator) \in Nat
    BY <2>1 DEF IsSum
  <2>3. get_total_active_balance \in Nat
    BY <2>2, RegistryAssumption DEF get_total_active_balance, get_total_balance
  <2> QED
    BY <2>3, SlotsAssumption
<1> HIDE DEF committee
<1>2. /\ committee * REORG_HEAD_WEIGHT_THRESHOLD \in Nat
      /\ committee * PROPOSER_SCORE_BOOST \in Nat
      /\ committee * REORG_HEAD_WEIGHT_THRESHOLD <= committee * PROPOSER_SCORE_BOOST
  BY <1>1, BoostAssumption
<1>3. (committee * REORG_HEAD_WEIGHT_THRESHOLD) \div 100
          <= (committee * PROPOSER_SCORE_BOOST) \div 100
      /\ (committee * REORG_HEAD_WEIGHT_THRESHOLD) \div 100 \in Nat
      /\ (committee * PROPOSER_SCORE_BOOST) \div 100 \in Nat
  <2> DEFINE a == committee * REORG_HEAD_WEIGHT_THRESHOLD
             b == committee * PROPOSER_SCORE_BOOST
  <2>1. a \in Nat /\ b \in Nat /\ a <= b
    BY <1>2
  <2> HIDE DEF a, b
  <2>2. a \div 100 <= b \div 100 /\ a \div 100 \in Nat /\ b \div 100 \in Nat
    BY <2>1
  <2> QED
    BY <2>2 DEF a, b
<1>4. get_weight(head) < (committee * REORG_HEAD_WEIGHT_THRESHOLD) \div 100
  BY DEF is_head_weak, calculate_committee_fraction, committee
<1>5. get_proposer_score = (committee * PROPOSER_SCORE_BOOST) \div 100
  BY DEF get_proposer_score, calculate_committee_fraction, committee
<1>6. get_weight(head) \in Nat
  BY WeightType
<1> QED
  BY <1>3, <1>4, <1>5, <1>6

LEMMA OnTimeIsTimely ==
    ASSUME TypeOK, INTERVALS_PER_SLOT <= SECONDS_PER_SLOT, is_proposing_on_time
    PROVE  TimeIntoSlot < SECONDS_PER_SLOT \div INTERVALS_PER_SLOT
<1> DEFINE x == SECONDS_PER_SLOT \div INTERVALS_PER_SLOT
<1>1. SECONDS_PER_SLOT \in Nat \ {0} /\ INTERVALS_PER_SLOT \in Nat \ {0} /\ time \in Nat
  BY TimeAssumption DEF TypeOK
<1>2. x \in Nat /\ x >= 1
  BY <1>1
<1>3. TimeIntoSlot \in Nat
  BY <1>1 DEF TimeIntoSlot
<1>4. TimeIntoSlot <= x \div 2
  BY DEF is_proposing_on_time
<1> HIDE DEF x
<1>5. TimeIntoSlot < x
  BY <1>2, <1>3, <1>4
<1> QED
  BY <1>5 DEF x

(* The new block and the old head are of one epoch and one parent, so the new one      *)
(* moves no checkpoint, and is as viable as the head is.                               *)
LEMMA SiblingAdopted ==
    ASSUME TypeOK, CheckpointInv, SourceInv, NEW root, on_block(root), root \notin blocks,
           NEW head \in blocks, head # Anchor, ParentOf(root) = ParentOf(head),
           EpochOf(head) = get_current_store_epoch, SlotOf(root) = get_current_slot,
           IsTimely(root), proposer_boost_root = ZeroRoot
    PROVE  /\ Adopts(root)
           /\ IsViableLeaf(head) => IsViableLeaf(root)'
<1> DEFINE clock == get_current_store_epoch
<1>1. /\ root \in ValidBlock /\ blocks' = blocks \cup {root}
      /\ ParentOf(root) \in blocks
      /\ SlotOf(root) > compute_start_slot_at_epoch(finalized_checkpoint.epoch)
      /\ get_checkpoint_block(ParentOf(root), finalized_checkpoint.epoch)
             = finalized_checkpoint.root
      /\ time' = time /\ equivocating_indices' = equivocating_indices
      /\ latest_messages' = latest_messages
  BY DEF on_block, IsAcceptable
<1>2. head \in ValidBlock /\ head \in Known
  BY StoreTypes DEF Known
<1>3. EpochOf(root) = clock /\ EpochOf(head) = clock /\ clock \in Nat
  BY StoreTypes DEF EpochOf, get_current_store_epoch
<1>4. /\ BlockState[root].current_justified_checkpoint
             = BlockState[head].current_justified_checkpoint
      /\ BlockState[root].finalized_checkpoint = BlockState[head].finalized_checkpoint
  BY <1>1, <1>2, <1>3, EpochAssumption DEF StatesOfEpoch
<1>5. /\ BlockState[head].current_justified_checkpoint.epoch <= justified_checkpoint.epoch
      /\ BlockState[head].finalized_checkpoint.epoch <= finalized_checkpoint.epoch
  <2>1. /\ View!VotingSource(head, clock) = BlockState[head].current_justified_checkpoint.epoch
        /\ View!FinalitySource(head, clock) = BlockState[head].finalized_checkpoint.epoch
    BY <1>3 DEF View!VotingSource, View!FinalitySource, JustifiedEpochOf, FinalizedEpochOf
  <2>2. /\ View!VotingSource(head, clock) <= justified_checkpoint.epoch
        /\ View!FinalitySource(head, clock) <= finalized_checkpoint.epoch
    BY <1>2 DEF CheckpointInv, View!Agrees, View!IsGreatest, View!JustifiedCandidates,
          View!FinalizedCandidates
  <2> QED
    BY <2>1, <2>2
<1>6. ~IsFromPriorEpoch(root)
  BY <1>3 DEF IsFromPriorEpoch
<1>7. /\ BlockState[head].current_justified_checkpoint.epoch \in Nat
      /\ BlockState[head].finalized_checkpoint.epoch \in Nat
      /\ justified_checkpoint.epoch \in Nat /\ finalized_checkpoint.epoch \in Nat
  BY <1>2, StateTypes, StoreTypes DEF Checkpoint, Epoch, JustifiedEpochOf, FinalizedEpochOf
<1>8. justified_checkpoint' = justified_checkpoint /\ finalized_checkpoint' = finalized_checkpoint
  <2>1. /\ justified_checkpoint'
               = Later(BlockState[head].current_justified_checkpoint, justified_checkpoint)
        /\ finalized_checkpoint' = Later(BlockState[head].finalized_checkpoint, finalized_checkpoint)
    BY <1>4, <1>6 DEF on_block, UpdatedByBlock
  <2> QED
    BY <1>5, <1>7, <2>1 DEF Later
<1>9. proposer_boost_root' = root
  BY DEF on_block, BoostAfter
<1>10. Adopts(root)
  BY <1>1, <1>8, <1>9 DEF Adopts
<1>11. ASSUME IsViableLeaf(head)
       PROVE  IsViableLeaf(root)'
  <2>1. clock' = clock
    BY <1>1 DEF get_current_store_epoch, get_current_slot
  <2>2. get_voting_source(root)' = get_voting_source(head)
    <3>1. get_voting_source(head) = BlockState[head].current_justified_checkpoint
      BY <1>3 DEF get_voting_source
    <3>2. get_voting_source(root)' = BlockState[root].current_justified_checkpoint
      BY <1>3, <2>1 DEF get_voting_source
    <3> QED
      BY <1>4, <3>1, <3>2
  <2>3. get_checkpoint_block(root, finalized_checkpoint.epoch) = finalized_checkpoint.root
    <3>1. compute_start_slot_at_epoch(finalized_checkpoint.epoch) \in Nat
      BY <1>7, SlotsAssumption DEF compute_start_slot_at_epoch
    <3>2. root \in Block \ {Anchor} /\ SlotOf(root) \in Nat
      BY <1>1, TreeAssumption, BlockSlots DEF ValidBlock
    <3>3. ~(SlotOf(root) <= compute_start_slot_at_epoch(finalized_checkpoint.epoch))
      BY <1>1, <3>1, <3>2
    <3> QED
      BY <1>1, <3>1, <3>2, <3>3, AncestorWalk DEF get_checkpoint_block
  <2> HIDE DEF clock
  <2> QED
    BY <1>8, <1>11, <2>1, <2>2, <2>3 DEF IsViableLeaf, clock
<1> QED
  BY <1>10, <1>11

LEMMA ReorgStep ==
    ASSUME REORG_HEAD_WEIGHT_THRESHOLD \in 0 .. PROPOSER_SCORE_BOOST,
           INTERVALS_PER_SLOT <= SECONDS_PER_SLOT,
           Walkable, Walkable', CheckpointInv, SourceInv,
           NEW root, on_block(root), root \notin blocks, NEW head, head = get_head, head # Anchor,
           MayReorg(head, get_current_slot), SlotOf(root) = get_current_slot,
           ParentOf(root) = ParentOf(head), proposer_boost_root = ZeroRoot
    PROVE  get_head' = root
<1>1. /\ ~IsEpochStart(get_current_slot)
      /\ SlotOf(head) + 1 = get_current_slot
      /\ is_head_weak(head) /\ is_proposing_on_time
  BY DEF MayReorg, is_shuffling_stable, IsSingleSlotReorg
<1>2. TypeOK /\ IsFiniteSet(blocks)
  BY DEF Walkable
<1>3. head \in blocks
  <2>1. PICK walk \in [blocks -> blocks] : IsHeadWalk(walk)
    BY Walks DEF HeadIsWalk
  <2> QED
    BY <2>1 DEF IsHeadWalk, Walkable
<1>4. head # justified_checkpoint.root
  BY <1>1, <1>2, <1>3, HeadIsNotJustified
<1>5. IsViableLeaf(head)
  <2>1. head \in get_filtered_block_tree /\ Children(head) = {}
    BY <1>4, HeadInTree
  <2>2. head \in filter_block_tree
    BY <2>1 DEF get_filtered_block_tree
  <2> QED
    BY <1>3, <2>1, <2>2, Walks DEF FilterIsWalk
<1>6. EpochOf(head) = get_current_store_epoch
  BY <1>1, <1>2, <1>3, StoreTypes, HeadOfThisEpoch
<1>7. IsTimely(root)
  BY <1>1, <1>2, OnTimeIsTimely DEF IsTimely
<1>8. Adopts(root) /\ IsViableLeaf(root)'
  BY <1>2, <1>3, <1>5, <1>6, <1>7, SiblingAdopted
<1>9. ParentOf(root) \in blocks
  BY DEF on_block, IsAcceptable
<1>10. get_weight(head) < get_proposer_score
  BY <1>1, WeakHeadIsOutweighed
<1> QED
  BY <1>4, <1>8, <1>9, <1>10, AdoptedHead

(* A proposer that orphans a late and weak head by get_proposer_head, and is on time,   *)
(* has the new head, for all block trees and votes: the boost is never less than what   *)
(* the head may weigh, and the new block is as viable as the head it replaces. The      *)
(* constants of both configurations meet the two conditions (20 and 40; 3 and 6 or 12). *)
THEOREM ReorgWins ==
    /\ REORG_HEAD_WEIGHT_THRESHOLD \in 0 .. PROPOSER_SCORE_BOOST
    /\ INTERVALS_PER_SLOT <= SECONDS_PER_SLOT
    => (Spec => ReorgSucceeds)
<1> SUFFICES ASSUME REORG_HEAD_WEIGHT_THRESHOLD \in 0 .. PROPOSER_SCORE_BOOST,
                    INTERVALS_PER_SLOT <= SECONDS_PER_SLOT
             PROVE  Spec => ReorgSucceeds
  OBVIOUS
<1> DEFINE Sound == Walkable /\ CheckpointInv /\ SourceInv
           Wins == \A root \in blocks' \ blocks :
                       LET head == get_head
                       IN  /\ HeadIsDefined /\ ProposerHeadIsDefined(head)
                           /\ MayReorg(head, get_current_slot)
                           /\ SlotOf(root) = get_current_slot
                           /\ ParentOf(root) = get_proposer_head(head, get_current_slot)
                           /\ proposer_boost_root = ZeroRoot
                           => get_head' = root
<1>1. Sound /\ Sound' /\ [Next]_vars => [Wins]_vars
  <2> SUFFICES ASSUME Sound, Sound', [Next]_vars,
                      NEW root \in blocks' \ blocks,
                      ProposerHeadIsDefined(get_head),
                      MayReorg(get_head, get_current_slot),
                      SlotOf(root) = get_current_slot,
                      ParentOf(root) = get_proposer_head(get_head, get_current_slot),
                      proposer_boost_root = ZeroRoot
               PROVE  get_head' = root
    OBVIOUS
  <2>1. on_block(root)
    <3>1. CASE OnTick
      BY <3>1 DEF OnTick, on_tick
    <3>2. CASE OnBlock
      BY <3>2 DEF OnBlock, on_block
    <3>3. CASE ~OnTick /\ ~OnBlock
      BY <3>3, OtherSteps
    <3> QED
      BY <3>1, <3>2, <3>3
  <2>2. get_head # Anchor /\ ParentOf(root) = ParentOf(get_head)
    BY DEF ProposerHeadIsDefined, get_proposer_head
  <2> QED
    BY <2>1, <2>2, ReorgStep
<1>2. Spec => []Sound
  <2>1. TypeOK /\ SourceInv /\ IsFiniteSet(blocks) => Walkable
    BY CheckpointsKnown DEF Walkable
  <2> QED
    BY <2>1, CheckpointSources, BlocksStayFinite, PTL
<1> HIDE DEF Wins, Sound
<1>3. Spec => [][Wins]_vars
  BY <1>1, <1>2, PTL DEF Spec
<1> QED
  BY <1>3 DEF Wins, ReorgSucceeds
--------------------------------------------------------------------------------
(* Finality from the code of the state transition *)

(* FFGChain_proofs has proved of the trees that the state transition computes what *)
(* this module has assumed. Its theorems about trees name neither the state nor the *)
(* links of its single chain.                                                       *)
Chains ==
    INSTANCE FFGChain_proofs WITH
        state <- BlockState[Anchor], links <- {},
        MaxSlot <- 0, Aggregate <- {}, AttesterSlashing <- {}

(* Both read the same state transition: the lemmas named Same say so, operator by    *)
(* operator, since to the prover the operators of the instance are others.            *)
LEMMA SameBalances ==
    /\ Chains!get_total_active_balance = get_total_active_balance
    /\ \A indices : Chains!SumOfBalances(indices) = SumOfBalances(indices)
    /\ \A indices : Chains!get_total_balance(indices) = get_total_balance(indices)
<1>1. ASSUME NEW indices PROVE Chains!SumOfBalances(indices) = SumOfBalances(indices)
  BY DEF Chains!SumOfBalances, SumOfBalances, Chains!MapThenSumSet, MapThenSumSet,
         Chains!MapThenFoldSet, MapThenFoldSet
<1>2. ASSUME NEW indices PROVE Chains!get_total_balance(indices) = get_total_balance(indices)
  BY <1>1 DEF Chains!get_total_balance, get_total_balance
<1> QED
  BY <1>1, <1>2 DEF Chains!get_total_active_balance, get_total_active_balance

LEMMA SameEpochs ==
    /\ \A slot : Chains!compute_epoch_at_slot(slot) = compute_epoch_at_slot(slot)
    /\ \A slot : Chains!IsEpochStart(slot) <=> IsEpochStart(slot)
    /\ \A st : Chains!get_current_epoch(st) = get_current_epoch(st)
    /\ \A st : Chains!get_previous_epoch(st) = get_previous_epoch(st)
BY DEF Chains!compute_epoch_at_slot, compute_epoch_at_slot, Chains!IsEpochStart, IsEpochStart,
       Chains!get_current_epoch, get_current_epoch, Chains!get_previous_epoch, get_previous_epoch,
       Chains!GENESIS_EPOCH, GENESIS_EPOCH

LEMMA SameWeighing ==
    ASSUME NEW st
    PROVE  Chains!process_justification_and_finalization(st)
               = process_justification_and_finalization(st)
BY DEF Chains!process_justification_and_finalization, process_justification_and_finalization,
       Chains!weigh_justification_and_finalization, weigh_justification_and_finalization,
       Chains!get_current_epoch, get_current_epoch, Chains!get_previous_epoch, get_previous_epoch,
       Chains!compute_epoch_at_slot, compute_epoch_at_slot, Chains!GENESIS_EPOCH, GENESIS_EPOCH,
       Chains!compute_start_slot_at_epoch, compute_start_slot_at_epoch,
       Chains!get_total_active_balance, get_total_active_balance,
       Chains!get_total_balance, get_total_balance, Chains!SumOfBalances, SumOfBalances,
       Chains!MapThenSumSet, MapThenSumSet, Chains!MapThenFoldSet, MapThenFoldSet,
       Chains!get_attesting_balance, get_attesting_balance, Chains!MatchingTarget, MatchingTarget,
       Chains!get_unslashed_attesting_indices, get_unslashed_attesting_indices,
       Chains!get_block_root, get_block_root, Chains!get_block_root_at_slot, get_block_root_at_slot,
       Chains!CheckpointAt, CheckpointAt, Chains!IsSupermajority, IsSupermajority,
       Chains!UpdatedBits, UpdatedBits, Chains!AllBits, AllBits, Chains!BitIndex, BitIndex,
       Chains!JUSTIFICATION_BITS_LENGTH, JUSTIFICATION_BITS_LENGTH,
       Chains!FinalizesOldPrevious, FinalizesOldPrevious,
       Chains!FinalizesOldCurrent, FinalizesOldCurrent, Chains!NewJustified, NewJustified

LEMMA SameSlots ==
    ASSUME NEW st, NEW slot
    PROVE  Chains!process_slots(st, slot) = process_slots(st, slot)
<1>1. ASSUME NEW s PROVE Chains!AdvanceOneSlot(s) = AdvanceOneSlot(s)
  <2>1. Chains!process_slot(s) = process_slot(s)
    BY DEF Chains!process_slot, process_slot
  <2>2. ASSUME NEW c PROVE Chains!process_epoch(c) = process_epoch(c)
    BY SameWeighing DEF Chains!process_epoch, process_epoch,
       Chains!process_participation_record_updates, process_participation_record_updates
  <2> QED
    BY <2>1, <2>2, SameEpochs DEF Chains!AdvanceOneSlot, AdvanceOneSlot
<1>2. \A s : Chains!AdvanceOneSlot(s) = AdvanceOneSlot(s)
  BY <1>1
<1> QED
  BY <1>2 DEF Chains!process_slots, process_slots

LEMMA SameBlock ==
    ASSUME NEW st, NEW block
    PROVE  /\ Chains!CanProcessBlock(st, block) <=> CanProcessBlock(st, block)
           /\ Chains!process_block(st, block) = process_block(st, block)
<1>1. ASSUME NEW a PROVE Chains!CanProcessAttestation(st, a) <=> CanProcessAttestation(st, a)
  BY SameEpochs DEF Chains!CanProcessAttestation, CanProcessAttestation,
     Chains!is_valid_indexed_attestation, is_valid_indexed_attestation
<1>2. ASSUME NEW e
      PROVE  Chains!CanProcessAttesterSlashing(st, e) <=> CanProcessAttesterSlashing(st, e)
  BY DEF Chains!CanProcessAttesterSlashing, CanProcessAttesterSlashing,
     Chains!is_slashable_attestation_data, is_slashable_attestation_data,
     Chains!IsDoubleVote, IsDoubleVote, Chains!IsSurroundVote, IsSurroundVote,
     Chains!AttestationData, AttestationData, Chains!NewlySlashed, NewlySlashed,
     Chains!is_valid_indexed_attestation, is_valid_indexed_attestation
<1>3. Chains!CanProcessBlock(st, block) <=> CanProcessBlock(st, block)
  BY <1>1, <1>2 DEF Chains!CanProcessBlock, CanProcessBlock,
     Chains!CanProcessHeader, CanProcessHeader
<1>4. Chains!process_block(st, block) = process_block(st, block)
  BY DEF Chains!process_block, process_block, Chains!process_block_header, process_block_header,
     Chains!process_attester_slashings, process_attester_slashings,
     Chains!NewlySlashed, NewlySlashed, Chains!process_attestations, process_attestations,
     Chains!PendingAttestation, PendingAttestation, Chains!get_current_epoch, get_current_epoch,
     Chains!compute_epoch_at_slot, compute_epoch_at_slot
<1> QED
  BY <1>3, <1>4

LEMMA SameTree ==
    /\ BlockTypes => Chains!BlockTypes
    /\ StatesAreComputed => Chains!StatesAreComputed
    /\ FewSlashable => Chains!FewSlashable
<1> USE DEF Chains!Block, Block, Chains!ValidBlock, ValidBlock, Chains!SlotOf, SlotOf,
            Chains!ParentOf, ParentOf
<1>1. BlockTypes => Chains!BlockTypes
  BY DEF Chains!BlockTypes, BlockTypes, Chains!Slot, Slot, Chains!Checkpoint, Checkpoint,
     Chains!Epoch, Epoch, Chains!Root, Root
<1>2. ASSUME NEW st PROVE Chains!AnchorState(st) <=> AnchorState(st)
  BY DEF Chains!AnchorState, AnchorState, Chains!StateType, StateType, Chains!Slot, Slot,
     Chains!Checkpoint, Checkpoint, Chains!Epoch, Epoch, Chains!Root, Root,
     Chains!PendingAttestations, PendingAttestations, Chains!BitIndex, BitIndex,
     Chains!JUSTIFICATION_BITS_LENGTH, JUSTIFICATION_BITS_LENGTH,
     Chains!get_current_epoch, get_current_epoch, Chains!GENESIS_EPOCH, GENESIS_EPOCH,
     Chains!compute_epoch_at_slot, compute_epoch_at_slot
<1>3. ASSUME NEW st, NEW block
      PROVE  /\ Chains!CanTransition(st, block) <=> CanTransition(st, block)
             /\ Chains!state_transition(st, block) = state_transition(st, block)
  BY SameSlots, SameBlock
     DEF Chains!CanTransition, CanTransition, Chains!state_transition, state_transition
<1>4. StatesAreComputed => Chains!StatesAreComputed
  BY <1>2, <1>3, SameWeighing DEF Chains!StatesAreComputed, StatesAreComputed
<1>5. Chains!Slashable = Slashable
  BY DEF Chains!Slashable, Slashable, Chains!IncludedVotes, IncludedVotes,
     Chains!is_slashable_attestation_data, is_slashable_attestation_data,
     Chains!IsDoubleVote, IsDoubleVote, Chains!IsSurroundVote, IsSurroundVote,
     Chains!AttestationData, AttestationData
<1>6. FewSlashable => Chains!FewSlashable
  BY <1>5, SameBalances DEF Chains!FewSlashable, FewSlashable
<1> QED
  BY <1>1, <1>4, <1>6

LEMMA SameSafety == Chains!AccountableSafety => AccountableSafety
BY DEF Chains!AccountableSafety, AccountableSafety, Chains!FinalizedOnChain, FinalizedOnChain,
   Chains!JustifiedOnChain, JustifiedOnChain, Chains!ValidBlock, ValidBlock,
   Chains!AnchorEpoch, AnchorEpoch, Chains!EpochOf, EpochOf, Chains!SlotOf, SlotOf,
   Chains!compute_epoch_at_slot, compute_epoch_at_slot, Chains!Checkpoint, Checkpoint,
   Chains!Epoch, Epoch, Chains!Root, Root, Chains!get_checkpoint_block, get_checkpoint_block,
   Chains!get_ancestor, get_ancestor, Chains!Block, Block, Chains!ParentOf, ParentOf,
   Chains!compute_start_slot_at_epoch, compute_start_slot_at_epoch, Chains!ZeroRoot, ZeroRoot

(* What FFGChain_proofs assumes of the constants is assumed here as well.            *)
LEMMA ComputedTreesAreSafe ==
    BlockTypes /\ StatesAreComputed /\ FewSlashable => AccountableSafety
<1>1. /\ Chains!IsFiniteSet(Validator)
      /\ EffectiveBalance \in [Validator -> Nat]
      /\ EFFECTIVE_BALANCE_INCREMENT \in Nat
  BY RegistryAssumption DEF Chains!IsFiniteSet, IsFiniteSet
<1>2. /\ Anchor \in Chains!Block
      /\ Chains!Block \subseteq Chains!Root \ {Chains!ZeroRoot}
      /\ Anchor \in DOMAIN BlockState /\ DOMAIN BlockState \subseteq Chains!Block
      /\ \A b \in Chains!Block : Chains!SlotOf(b) \in Chains!Slot
      /\ \A b \in Chains!Block \ {Anchor} :
              Chains!ParentOf(b) \in Chains!Block
              /\ Chains!SlotOf(Chains!ParentOf(b)) < Chains!SlotOf(b)
      /\ Chains!ParentOf(Anchor) \notin Chains!Block
      /\ Chains!IsEpochStart(Chains!SlotOf(Anchor))
  BY TreeAssumption, SameEpochs
     DEF Chains!Block, Block, Chains!Root, Root, Chains!ZeroRoot, ZeroRoot, Chains!SlotOf, SlotOf,
         Chains!Slot, Slot, Chains!ParentOf, ParentOf
<1>3. ~Chains!IsSupermajority(EFFECTIVE_BALANCE_INCREMENT, Chains!get_total_active_balance)
  BY BalanceAssumption, SameBalances DEF Chains!IsSupermajority, IsSupermajority
<1>4. /\ 0 \in Nat
      /\ {} \subseteq SUBSET Validator
      /\ \A e \in {} :
              /\ e.attestation_1.attesting_indices \subseteq Validator
              /\ e.attestation_2.attesting_indices \subseteq Validator
  OBVIOUS
<1>5. Chains!BlockTypes /\ Chains!StatesAreComputed /\ Chains!FewSlashable
          => Chains!AccountableSafety
  BY <1>1, <1>2, <1>3, <1>4, SlotsAssumption, HistoricalRootAssumption,
     InclusionDelayAssumption, Chains!CasperIsSafe
<1> QED
  BY <1>5, SameTree, SameSafety

(* A node that takes in the blocks of a computed tree never gives up a finalized     *)
(* checkpoint and never justifies one beside it, in whatever order blocks, votes,    *)
(* slashings and ticks arrive, unless validators with a third of the balance can be  *)
(* slashed for votes that its blocks include: weighing votes in the state            *)
(* transition and moving checkpoints in the store are together what Casper promises. *)
THEOREM FinalityIsSafe ==
    BlockTypes /\ StatesAreComputed /\ FewSlashable
        => (Spec => []JustifiedExtendsFinalized /\ FinalityIsKept)
BY ComputedTreesAreSafe, CheckpointsStayTogether, FinalityStays

(* In such a tree from genesis get_head ends at a viable leaf that descends from both *)
(* checkpoints, as long as no known block undoes what its parent justified.           *)
THEOREM HeadIsSafe ==
    AnchorEpoch = GENESIS_EPOCH /\ BlockTypes /\ StatesAreComputed /\ FewSlashable
        => (Spec => []HeadIsViableLeaf)
BY ComputedTreesAreSafe, HeadViable
================================================================================
