------------------------- MODULE Registry_proofs -------------------------
(***************************************************************************)
(* The registry for any constants, validators and requests: every state is *)
(* well formed, the churn is respected, and no gwei is lost or made but by *)
(* partial withdrawals that do not fit in the balance.  First come loops   *)
(* and sums; then the backlog of a churn queue, which implies that its     *)
(* history respects the churn; then what each handler does to both.        *)
(***************************************************************************)
EXTENDS Registry, WellFoundedInduction, TLAPS

(* A set of numbers that has one has a least. *)
LEMMA LeastNumber ==
    ASSUME NEW T, T \subseteq Nat, T # {}
    PROVE  \E m \in T : \A k \in T : m <= k
<1>1. \E m \in T : \A k \in T : ~(<<k, m>> \in OpToRel(<, Nat))
  BY NatLessThanWellFounded, WFMin
<1>2. PICK m \in T : \A k \in T : ~(<<k, m>> \in OpToRel(<, Nat))
  BY <1>1
<1>3. \A k \in T : ~(k < m)
  BY <1>2 DEF OpToRel
<1> QED
  BY <1>3

(* Induction over the numbers, of a set. *)
LEMMA Induction ==
    ASSUME NEW T, 0 \in T, \A n \in Nat : n \in T => n + 1 \in T
    PROVE  \A n \in Nat : n \in T
<1> SUFFICES ASSUME NEW n \in Nat, n \notin T PROVE FALSE
  OBVIOUS
<1> DEFINE M == {k \in Nat : k \notin T}
<1>1. PICK m \in M : \A k \in M : m <= k
  <2>1. M \subseteq Nat /\ M # {}
    OBVIOUS
  <2> HIDE DEF M
  <2> QED
    BY <2>1, LeastNumber
<1>2. m \in Nat /\ m # 0
  OBVIOUS
<1>3. m - 1 \in Nat /\ m - 1 \notin M
  BY <1>1, <1>2
<1>4. m - 1 \in T
  BY <1>3
<1> QED
  BY <1>2, <1>3, <1>4

(* Descent by a rank: a property of the elements of D that each inherits from those of lower rank. *)
LEMMA RankInduction ==
    ASSUME NEW D, NEW rank, \A d \in D : rank[d] \in Nat, NEW T,
           \A d \in D : (\A e \in D : rank[e] < rank[d] => e \in T) => d \in T
    PROVE  \A d \in D : d \in T
<1> SUFFICES ASSUME NEW d \in D, d \notin T PROVE FALSE
  OBVIOUS
<1> DEFINE M == {rank[e] : e \in {x \in D : x \notin T}}
<1>1. M \subseteq Nat /\ M # {}
  OBVIOUS
<1>2. PICK m \in M : \A k \in M : m <= k
  <2> HIDE DEF M
  <2> QED
    BY <1>1, LeastNumber
<1>3. PICK e \in D : e \notin T /\ m = rank[e]
  OBVIOUS
<1>4. ASSUME NEW x \in D, rank[x] < rank[e], x \notin T PROVE FALSE
  <2>1. rank[x] \in M
    BY <1>4
  <2>2. rank[e] <= rank[x] /\ rank[e] \in Nat /\ rank[x] \in Nat
    BY <1>2, <1>3, <2>1
  <2> QED
    BY <1>4, <2>2
<1> QED
  BY <1>3, <1>4

(* A function on D may be defined by recursion on a rank: step[d] of it depends on *)
(* its values of lower rank only.                                                  *)
IsRecursion(D, rank, V, step) ==
    /\ V # {}
    /\ \A d \in D : rank[d] \in Nat
    /\ \A d \in D : \A g \in [D -> V] : step[d][g] \in V
    /\ \A d \in D : \A g, h \in [D -> V] :
           (\A e \in D : rank[e] < rank[d] => g[e] = h[e]) => step[d][g] = step[d][h]

(* A recursion by rank has a solution. *)
LEMMA RankRecursion ==
    ASSUME NEW D, NEW rank, NEW V, NEW step, IsRecursion(D, rank, V, step)
    PROVE  \E g \in [D -> V] : \A d \in D : g[d] = step[d][g]
<1>0. /\ V # {}
      /\ \A d \in D : rank[d] \in Nat
      /\ \A d \in D : \A g \in [D -> V] : step[d][g] \in V
      /\ \A d \in D : \A g, h \in [D -> V] :
             (\A e \in D : rank[e] < rank[d] => g[e] = h[e]) => step[d][g] = step[d][h]
  BY DEF IsRecursion
<1> USE <1>0
<1> DEFINE Good(n, g) == g \in [D -> V] /\ \A d \in D : rank[d] < n => g[d] = step[d][g]
           N == {n \in Nat : \E g : Good(n, g)}
<1>1. 0 \in N
  <2>1. PICK v \in V : TRUE
    OBVIOUS
  <2>2. Good(0, [d \in D |-> v])
    OBVIOUS
  <2> QED
    BY <2>2
<1>2. ASSUME NEW n \in Nat, n \in N PROVE n + 1 \in N
  <2>1. PICK g : Good(n, g)
    BY <1>2
  <2> DEFINE h == [d \in D |-> IF rank[d] < n THEN g[d] ELSE step[d][g]]
  <2>2. h \in [D -> V]
    BY <2>1
  <2>3. ASSUME NEW d \in D, rank[d] < n + 1 PROVE h[d] = step[d][h]
    <3>1. \A e \in D : rank[e] < rank[d] => g[e] = h[e]
      BY <2>3
    <3>2. step[d][g] = step[d][h]
      <4> HIDE DEF h
      <4> QED
        BY <2>1, <2>2, <3>1
    <3>3. h[d] = step[d][g]
      BY <2>1
    <3> QED
      BY <3>2, <3>3
  <2>4. Good(n + 1, h)
    BY <2>2, <2>3
  <2>5. n + 1 \in Nat /\ \E x : Good(n + 1, x)
    <3> HIDE DEF Good, h
    <3> QED
      BY <2>4
  <2> QED
    BY <2>5
<1>3. \A n \in Nat : n \in N
  <2> HIDE DEF N
  <2> QED
    BY <1>1, <1>2, Induction
<1>4. ASSUME NEW m \in Nat, NEW n \in Nat, m <= n, NEW g, NEW h, Good(m, g), Good(n, h),
             NEW d \in D, rank[d] < m
      PROVE  g[d] = h[d]
  <2> DEFINE T == {e \in D : rank[e] < m => g[e] = h[e]}
  <2>1. ASSUME NEW e \in D, \A x \in D : rank[x] < rank[e] => x \in T PROVE e \in T
    <3> SUFFICES ASSUME rank[e] < m PROVE g[e] = h[e]
      OBVIOUS
    <3>1. \A x \in D : rank[x] < rank[e] => g[x] = h[x]
      BY <2>1
    <3>2. step[e][g] = step[e][h]
      BY <1>4, <3>1
    <3> QED
      BY <1>4, <3>2
  <2>2. \A e \in D : e \in T
    <3> HIDE DEF T
    <3> QED
      BY <2>1, RankInduction
  <2> QED
    BY <1>4, <2>2
<1>5. PICK at : \A n \in Nat : Good(n, at[n])
  <2> DEFINE a == [n \in Nat |-> CHOOSE g : Good(n, g)]
  <2>1. ASSUME NEW n \in Nat PROVE Good(n, a[n])
    <3>1. \E g : Good(n, g)
      BY <1>3
    <3>2. Good(n, CHOOSE g : Good(n, g))
      <4> HIDE DEF Good
      <4> QED
        BY <3>1
    <3>3. a[n] = CHOOSE g : Good(n, g)
      OBVIOUS
    <3> QED
      BY <3>2, <3>3
  <2> HIDE DEF a, Good
  <2> QED
    BY <2>1
<1> DEFINE f == [d \in D |-> at[rank[d] + 1][d]]
<1>6. ASSUME NEW d \in D
      PROVE  rank[d] + 1 \in Nat /\ at[rank[d] + 1] \in [D -> V]
  BY <1>5
<1>7. f \in [D -> V]
  BY <1>6
<1>8. ASSUME NEW d \in D PROVE f[d] = step[d][f]
  <2> DEFINE n == rank[d] + 1
  <2>1. n \in Nat /\ at[n] \in [D -> V]
    BY <1>6
  <2>2. Good(n, at[n])
    BY <1>5, <2>1
  <2>3. \A e \in D : rank[e] < rank[d] => at[n][e] = f[e]
    <3> SUFFICES ASSUME NEW e \in D, rank[e] < rank[d] PROVE at[n][e] = f[e]
      OBVIOUS
    <3>1. rank[e] + 1 \in Nat /\ rank[e] + 1 <= n /\ rank[e] < rank[e] + 1
      BY <1>6
    <3>2. Good(rank[e] + 1, at[rank[e] + 1])
      BY <1>5, <3>1
    <3>3. at[rank[e] + 1][e] = at[n][e]
      <4> HIDE DEF Good
      <4> QED
        BY <1>4, <2>1, <2>2, <3>1, <3>2
    <3> QED
      BY <3>3
  <2>4. step[d][at[n]] = step[d][f]
    <3> HIDE DEF f, n
    <3> QED
      BY <1>7, <2>1, <2>3
  <2>5. at[n][d] = step[d][at[n]]
    BY <2>1, <2>2
  <2> QED
    BY <2>4, <2>5
<1> QED
  BY <1>7, <1>8

--------------------------------------------------------------------------------
(* Loops.  FoldLeft takes a step for each number of 1..n, in order: F[acc][i] is   *)
(* what the i-th makes of the accumulator.  A run is its history.                  *)
IsLoop(A, F, base, n) == n \in Nat /\ base \in A /\ F \in [A -> [1..n -> A]]

IsRun(t, A, F, base, n) ==
    /\ t \in [0..n -> A]
    /\ t[0] = base
    /\ \A i \in 1..n : t[i] = F[t[i - 1]][i]

(* Induction up to n. *)
LEMMA UpTo ==
    ASSUME NEW n \in Nat, NEW T, 0 \in T, \A i \in 1..n : i - 1 \in T => i \in T
    PROVE  \A i \in 0..n : i \in T
<1> DEFINE M == {i \in Nat : i <= n => i \in T}
<1>1. 0 \in M
  OBVIOUS
<1>2. ASSUME NEW i \in Nat, i \in M PROVE i + 1 \in M
  <2>1. i + 1 <= n => i + 1 \in 1..n /\ (i + 1) - 1 = i /\ i <= n
    OBVIOUS
  <2> QED
    BY <1>2, <2>1
<1>3. \A i \in Nat : i \in M
  <2> HIDE DEF M
  <2> QED
    BY <1>1, <1>2, Induction
<1> QED
  BY <1>3

(* Max is the greatest of some numbers up to n. *)
LEMMA Greatest ==
    ASSUME NEW n \in Nat, NEW S \in SUBSET (1..n), S # {}
    PROVE  /\ Max(S) \in S
           /\ \A i \in S : i <= Max(S)
<1> DEFINE M == {n - i : i \in S}
<1>0. \A i \in S : i \in 1..n /\ i \in Nat /\ n - i \in Nat
  <2>1. \A i \in S : i \in 1..n
    OBVIOUS
  <2> QED
    BY <2>1
<1>1. M \subseteq Nat /\ M # {}
  BY <1>0
<1>2. PICK m \in M : \A k \in M : m <= k
  <2> HIDE DEF M
  <2> QED
    BY <1>1, LeastNumber
<1>3. PICK x \in S : m = n - x
  BY <1>2
<1>4. \A i \in S : x >= i
  <2> SUFFICES ASSUME NEW i \in S PROVE x >= i
    OBVIOUS
  <2>1. n - x <= n - i
    BY <1>2, <1>3
  <2>2. x \in Nat /\ i \in Nat
    BY <1>0
  <2> QED
    BY <2>1, <2>2
<1>5. Max(S) \in S /\ \A i \in S : Max(S) >= i
  BY <1>4 DEF Max
<1>6. \A i \in S : i \in Nat /\ Max(S) \in Nat
  BY <1>0, <1>5
<1> QED
  BY <1>5, <1>6

(* What is left of 1..i without its greatest. *)
LEMMA Interval ==
    ASSUME NEW n \in Nat, NEW i \in 1..n
    PROVE  /\ 1..i \in SUBSET (1..n) /\ 1..i # {}
           /\ Max(1..i) = i
           /\ (1..i) \ {Max(1..i)} = 1..(i - 1)
<1>1. 1..i \in SUBSET (1..n)
  OBVIOUS
<1>2. 1..i # {} /\ i \in 1..i /\ \A j \in 1..i : i >= j
  OBVIOUS
<1>3. Max(1..i) \in 1..i /\ \A j \in 1..i : Max(1..i) >= j
  BY <1>2 DEF Max
<1>4. Max(1..i) = i
  BY <1>2, <1>3
<1>5. (1..i) \ {i} = 1..(i - 1)
  OBVIOUS
<1> QED
  BY <1>1, <1>2, <1>4, <1>5

(* FoldLeft itself goes by sets of numbers, the greatest last.                     *)
IsIteration(f, A, F, base, n) ==
    /\ f \in [SUBSET (1..n) -> A]
    /\ \A s \in SUBSET (1..n) :
           f[s] = IF s = {} THEN base ELSE F[f[s \ {Max(s)}]][Max(s)]

(* The recursion over the sets of indices that a fold is made of has a solution. *)
LEMMA IterationExists ==
    ASSUME NEW n, NEW A, NEW base, NEW F, IsLoop(A, F, base, n)
    PROVE  \E f : IsIteration(f, A, F, base, n)
<1> USE DEF IsLoop
<1> DEFINE P == SUBSET (1..n)
           rank == [s \in P |-> IF s = {} THEN 0 ELSE Max(s)]
           step == [s \in P |-> [g \in [P -> A] |->
                       IF s = {} THEN base ELSE F[g[s \ {Max(s)}]][Max(s)]]]
<1>1. ASSUME NEW s \in P PROVE rank[s] \in Nat
  <2>1. s # {} => Max(s) \in 1..n
    BY Greatest
  <2> QED
    BY <2>1
<1>2. ASSUME NEW s \in P, s # {}
      PROVE  /\ Max(s) \in 1..n /\ s \ {Max(s)} \in P
             /\ rank[s \ {Max(s)}] < rank[s]
  <2>1. Max(s) \in s /\ \A i \in s : i <= Max(s)
    BY <1>2, Greatest
  <2> DEFINE r == s \ {Max(s)}
  <2>2. r \in P /\ Max(s) \in 1..n /\ rank[s] = Max(s)
    BY <1>2, <2>1
  <2>3. CASE r = {}
    BY <2>2, <2>3
  <2>4. CASE r # {}
    <3>1. Max(r) \in r
      BY <2>2, <2>4, Greatest
    <3>2. Max(r) \in s /\ Max(r) # Max(s)
      BY <3>1
    <3>3. Max(r) < Max(s)
      BY <2>1, <2>2, <3>2
    <3> QED
      BY <2>2, <2>4, <3>3
  <2> QED
    BY <2>2, <2>3, <2>4
<1>3. ASSUME NEW s \in P, NEW g \in [P -> A]
      PROVE  step[s][g] \in A
  <2>1. s # {} => Max(s) \in 1..n /\ g[s \ {Max(s)}] \in A
    BY <1>2
  <2>2. s # {} => F[g[s \ {Max(s)}]][Max(s)] \in A
    BY <2>1
  <2> QED
    BY <2>2
<1>4. ASSUME NEW s \in P, NEW g \in [P -> A], NEW h \in [P -> A],
             \A e \in P : rank[e] < rank[s] => g[e] = h[e]
      PROVE  step[s][g] = step[s][h]
  <2>1. CASE s = {}
    BY <2>1
  <2>2. CASE s # {}
    <3>1. g[s \ {Max(s)}] = h[s \ {Max(s)}]
      BY <1>2, <1>4, <2>2
    <3> QED
      BY <2>2, <3>1
  <2> QED
    BY <2>1, <2>2
<1>5. IsRecursion(P, rank, A, step)
  <2> HIDE DEF rank, step
  <2> QED
    BY <1>1, <1>3, <1>4 DEF IsRecursion
<1>6. PICK f \in [P -> A] : \A s \in P : f[s] = step[s][f]
  <2> HIDE DEF rank, step, P
  <2> QED
    BY <1>5, RankRecursion
<1>7. IsIteration(f, A, F, base, n)
  BY <1>6 DEF IsIteration
<1> QED
  BY <1>7

(* Taken over 1..i only, its iteration is a run.                                   *)
Iterates(it, A, F, base, n) ==
    /\ it[{}] = base
    /\ \A i \in 1..n : it[1..(i - 1)] \in A => it[1..i] = F[it[1..(i - 1)]][i]

(* Along the sets 1..i such a solution is a run of the loop. *)
LEMMA RunOfIteration ==
    ASSUME NEW n, NEW A, NEW base, NEW F, IsLoop(A, F, base, n),
           NEW it, Iterates(it, A, F, base, n)
    PROVE  \E t : IsRun(t, A, F, base, n) /\ t[n] = it[1..n]
<1> USE DEF IsLoop
<1> DEFINE t == [i \in 0..n |-> it[1..i]]
           T == {i \in 0..n : t[i] \in A}
<1>1. t[0] = base
  <2>1. 1..0 = {}
    OBVIOUS
  <2> QED
    BY <2>1 DEF Iterates
<1>2. ASSUME NEW i \in 1..n, t[i - 1] \in A PROVE t[i] = F[t[i - 1]][i] /\ t[i] \in A
  <2>1. it[1..(i - 1)] \in A
    BY <1>2
  <2>2. it[1..i] = F[it[1..(i - 1)]][i]
    BY <2>1 DEF Iterates
  <2> QED
    BY <1>2, <2>2
<1>3. \A i \in 0..n : i \in T
  <2>1. 0 \in T
    BY <1>1
  <2>2. ASSUME NEW i \in 1..n, i - 1 \in T PROVE i \in T
    <3>1. t[i - 1] \in A /\ i \in 0..n
      BY <2>2
    <3>2. t[i] \in A
      <4> HIDE DEF t
      <4> QED
        BY <1>2, <3>1
    <3> QED
      BY <3>1, <3>2
  <2> HIDE DEF T
  <2> QED
    BY <2>1, <2>2, UpTo
<1>4. t \in [0..n -> A]
  BY <1>3
<1>5. ASSUME NEW i \in 1..n PROVE t[i] = F[t[i - 1]][i]
  <2>1. i - 1 \in 0..n
    OBVIOUS
  <2> HIDE DEF t
  <2> QED
    BY <1>2, <1>4, <2>1
<1>6. t[n] = it[1..n]
  OBVIOUS
<1> HIDE DEF t
<1>7. IsRun(t, A, F, base, n)
  BY <1>1, <1>4, <1>5 DEF IsRun
<1> QED
  BY <1>6, <1>7

--------------------------------------------------------------------------------
(* Totals *)

IsTotal(t, w) ==
    /\ t \in [0..Len(w) -> Int]
    /\ t[0] = 0
    /\ \A i \in 1..Len(w) : t[i] = t[i - 1] + w[i]

SumSteps(w) == [a \in Int |-> [i \in 1..Len(w) |-> a + w[i]]]

(* Total adds up the numbers in their order. *)
LEMMA TotalRun ==
    ASSUME NEW w \in Seq(Int)
    PROVE  \E t : IsTotal(t, w) /\ Total(w) = t[Len(w)]
<1> DEFINE n == Len(w)
           F == SumSteps(w)
           IsIt(f) == f = [s \in SUBSET DOMAIN w |-> IF s = {} THEN 0
                                                     ELSE f[s \ {Max(s)}] + w[Max(s)]]
           it == CHOOSE f : IsIt(f)
<1>0. n \in Nat /\ 0 \in Int
  OBVIOUS
<1>1. n \in Nat /\ 0 \in Int /\ DOMAIN w = 1..n /\ \A i \in 1..n : w[i] \in Int
  OBVIOUS
<1>2. F \in [Int -> [1..n -> Int]]
  BY <1>1 DEF SumSteps
<1>2a. IsLoop(Int, F, 0, n)
  BY <1>0, <1>2 DEF IsLoop
<1> HIDE DEF n, F
<1>3. PICK f : IsIteration(f, Int, F, 0, n)
  BY <1>2a, IterationExists
<1>4. IsIt(f)
  <2>1. ASSUME NEW s \in SUBSET (1..n), s # {}
        PROVE  f[s] = f[s \ {Max(s)}] + w[Max(s)]
    <3>1. Max(s) \in 1..n /\ s \ {Max(s)} \in SUBSET (1..n)
      BY <1>1, <2>1, Greatest
    <3>2. f[s] = F[f[s \ {Max(s)}]][Max(s)] /\ f[s \ {Max(s)}] \in Int
      BY <1>3, <2>1, <3>1 DEF IsIteration
    <3> QED
      BY <3>1, <3>2 DEF F, SumSteps, n
  <2>2. f[{}] = 0 /\ f = [s \in SUBSET (1..n) |-> f[s]]
    BY <1>3 DEF IsIteration
  <2> QED
    BY <1>1, <2>1, <2>2
<1>5. IsIt(it)
  <2> HIDE DEF IsIt
  <2> QED
    BY <1>4
<1>6. Total(w) = it[1..n]
  BY <1>1 DEF Total, FoldLeft, MapThenFoldSet
<1> HIDE DEF it
<1>7. Iterates(it, Int, F, 0, n)
  <2>1. ASSUME NEW i \in 1..n, it[1..(i - 1)] \in Int
        PROVE  it[1..i] = F[it[1..(i - 1)]][i]
    <3>1. /\ 1..i \in SUBSET (1..n) /\ 1..i # {} /\ Max(1..i) = i
          /\ (1..i) \ {Max(1..i)} = 1..(i - 1)
      BY <1>1, Interval
    <3>2. it[1..i] = it[1..(i - 1)] + w[i]
      BY <1>1, <1>5, <3>1
    <3> QED
      BY <2>1, <3>2 DEF F, SumSteps, n
  <2> QED
    BY <1>5, <2>1 DEF Iterates
<1> HIDE DEF IsIt
<1>8. PICK t : IsRun(t, Int, F, 0, n) /\ t[n] = it[1..n]
  BY <1>2a, <1>7, RunOfIteration
<1>9. IsTotal(t, w)
  <2>1. t \in [0..n -> Int] /\ t[0] = 0 /\ \A i \in 1..n : t[i] = F[t[i - 1]][i]
    BY <1>8 DEF IsRun
  <2>2. ASSUME NEW i \in 1..n PROVE t[i] = t[i - 1] + w[i]
    <3>1. t[i - 1] \in Int
      BY <1>1, <2>1
    <3> QED
      BY <2>1, <3>1 DEF F, SumSteps, n
  <2> QED
    BY <2>1, <2>2 DEF IsTotal, n
<1> QED
  BY <1>6, <1>8, <1>9 DEF n

(* Any history of the partial sums ends with Total. *)
LEMMA TotalIs ==
    ASSUME NEW w \in Seq(Int), NEW t, IsTotal(t, w)
    PROVE  Total(w) = t[Len(w)]
<1>1. PICK u : IsTotal(u, w) /\ Total(w) = u[Len(w)]
  BY TotalRun
<1> DEFINE n == Len(w)
           T == {i \in 0..n : t[i] = u[i]}
<1>2. n \in Nat /\ \A i \in 1..n : w[i] \in Int
  OBVIOUS
<1>3. 0 \in T
  BY <1>1, <1>2 DEF IsTotal
<1>4. ASSUME NEW i \in 1..n, i - 1 \in T PROVE i \in T
  <2>1. t[i - 1] = u[i - 1] /\ i \in 0..n
    BY <1>2, <1>4
  <2>2. t[i] = t[i - 1] + w[i] /\ u[i] = u[i - 1] + w[i]
    BY <1>1 DEF IsTotal
  <2> QED
    BY <2>1, <2>2
<1>5. \A i \in 0..n : i \in T
  <2> HIDE DEF T, n
  <2> QED
    BY <1>2, <1>3, <1>4, UpTo
<1> QED
  BY <1>1, <1>2, <1>5

(* Nothing adds up to 0. *)
LEMMA TotalEmpty == Total(<<>>) = 0
<1>1. <<>> \in Seq(Int) /\ Len(<<>>) = 0
  OBVIOUS
<1>2. PICK t : IsTotal(t, <<>>) /\ Total(<<>>) = t[Len(<<>>)]
  BY <1>1, TotalRun
<1> QED
  BY <1>1, <1>2 DEF IsTotal

(* Total is a number, and none below 0 if none is. *)
LEMMA TotalType ==
    /\ \A w \in Seq(Int) : Total(w) \in Int
    /\ \A w \in Seq(Nat) : Total(w) \in Nat
<1>1. ASSUME NEW w \in Seq(Int) PROVE Total(w) \in Int
  <2>1. PICK t : IsTotal(t, w) /\ Total(w) = t[Len(w)]
    BY TotalRun
  <2>2. Len(w) \in 0..Len(w)
    OBVIOUS
  <2> QED
    BY <2>1, <2>2 DEF IsTotal
<1>2. ASSUME NEW w \in Seq(Nat) PROVE Total(w) \in Nat
  <2> DEFINE n == Len(w)
  <2>1. w \in Seq(Int) /\ n \in Nat /\ \A i \in 1..n : w[i] \in Nat
    OBVIOUS
  <2>2. PICK t : IsTotal(t, w) /\ Total(w) = t[n]
    BY <2>1, TotalRun
  <2> DEFINE T == {i \in 0..n : t[i] \in Nat}
  <2>3. 0 \in T
    BY <2>1, <2>2 DEF IsTotal
  <2>4. ASSUME NEW i \in 1..n, i - 1 \in T PROVE i \in T
    BY <2>1, <2>2, <2>4 DEF IsTotal
  <2>5. \A i \in 0..n : i \in T
    <3> HIDE DEF T, n
    <3> QED
      BY <2>1, <2>3, <2>4, UpTo
  <2> QED
    BY <2>1, <2>2, <2>5
<1> QED
  BY <1>1, <1>2

(* Total of two sequences, one after the other. *)
LEMMA TotalConcat ==
    ASSUME NEW v \in Seq(Int), NEW w \in Seq(Int)
    PROVE  Total(v \o w) = Total(v) + Total(w)
<1> DEFINE m == Len(v)
           n == Len(w)
           vw == v \o w
<1>1. /\ m \in Nat /\ n \in Nat /\ vw \in Seq(Int) /\ Len(vw) = m + n
      /\ \A i \in 1..m : vw[i] = v[i] /\ v[i] \in Int
      /\ \A i \in (m + 1)..(m + n) : vw[i] = w[i - m]
      /\ \A i \in 1..n : w[i] \in Int
  OBVIOUS
<1>2. PICK t : IsTotal(t, v) /\ Total(v) = t[m]
  BY TotalRun
<1>3. PICK u : IsTotal(u, w) /\ Total(w) = u[n]
  BY TotalRun
<1> HIDE DEF vw
<1> DEFINE s == [i \in 0..(m + n) |-> IF i <= m THEN t[i] ELSE t[m] + u[i - m]]
<1>4. /\ t \in [0..m -> Int] /\ t[0] = 0 /\ \A i \in 1..m : t[i] = t[i - 1] + v[i]
      /\ u \in [0..n -> Int] /\ u[0] = 0 /\ \A i \in 1..n : u[i] = u[i - 1] + w[i]
  BY <1>2, <1>3 DEF IsTotal
<1> HIDE DEF m, n
<1>5. s \in [0..(m + n) -> Int] /\ s[0] = 0 /\ s[m + n] = t[m] + u[n]
  <2>1. ASSUME NEW i \in 0..(m + n) PROVE (IF i <= m THEN t[i] ELSE t[m] + u[i - m]) \in Int
    <3>1. CASE i <= m
      BY <1>1, <1>4, <3>1
    <3>2. CASE ~(i <= m)
      <4>1. i - m \in 0..n /\ m \in 0..m
        BY <1>1, <3>2
      <4> QED
        BY <1>4, <3>2, <4>1
    <3> QED
      BY <3>1, <3>2
  <2>2. s[0] = 0
    BY <1>1, <1>4
  <2>3. s[m + n] = t[m] + u[n]
    <3>1. CASE n = 0
      BY <1>1, <1>4, <3>1
    <3>2. CASE n # 0
      <4>1. ~(m + n <= m) /\ (m + n) - m = n /\ m + n \in 0..(m + n)
        BY <1>1, <3>2
      <4> QED
        BY <4>1
    <3> QED
      BY <3>1, <3>2
  <2> QED
    BY <2>1, <2>2, <2>3
<1>6. ASSUME NEW i \in 1..(m + n) PROVE s[i] = s[i - 1] + vw[i]
  <2>1. i \in 0..(m + n) /\ i - 1 \in 0..(m + n)
    BY <1>1
  <2>2. CASE i <= m
    <3>1. s[i] = t[i] /\ s[i - 1] = t[i - 1] /\ i \in 1..m
      BY <1>1, <2>1, <2>2
    <3> QED
      BY <1>1, <1>4, <3>1
  <2>3. CASE i = m + 1
    <3>1. s[i] = t[m] + u[1] /\ s[i - 1] = t[m] /\ 1 \in 1..n /\ i \in (m + 1)..(m + n) /\ i - m = 1
      BY <1>1, <2>1, <2>3
    <3>2. u[1] = u[1 - 1] + w[1] /\ u[0] = 0
      BY <1>4, <3>1
    <3>3. w[1] \in Int /\ vw[i] = w[1]
      BY <1>1, <3>1
    <3>4. 1 - 1 = 0 /\ u[1] = w[1]
      BY <3>2, <3>3
    <3> HIDE DEF s
    <3> QED
      BY <3>1, <3>3, <3>4
  <2>4. CASE i > m + 1
    <3>1. /\ s[i] = t[m] + u[i - m] /\ s[i - 1] = t[m] + u[(i - m) - 1]
          /\ i - m \in 1..n /\ i \in (m + 1)..(m + n)
          /\ (i - m) - 1 \in 0..n /\ m \in 0..m
      BY <1>1, <2>1, <2>4
    <3>2. u[i - m] = u[(i - m) - 1] + w[i - m] /\ vw[i] = w[i - m]
      BY <1>1, <1>4, <3>1
    <3>3. u[(i - m) - 1] \in Int /\ t[m] \in Int /\ w[i - m] \in Int
      BY <1>1, <1>4, <3>1
    <3>4. s[i] = t[m] + (u[(i - m) - 1] + w[i - m])
      BY <3>1, <3>2
    <3>5. s[i - 1] + vw[i] = (t[m] + u[(i - m) - 1]) + w[i - m]
      BY <3>1, <3>2
    <3> HIDE DEF s
    <3> QED
      BY <3>3, <3>4, <3>5
  <2> QED
    BY <1>1, <2>2, <2>3, <2>4
<1>7. IsTotal(s, vw)
  <2> HIDE DEF s
  <2> QED
    BY <1>1, <1>5, <1>6 DEF IsTotal
<1>8. Total(vw) = s[m + n]
  <2> HIDE DEF s
  <2> QED
    BY <1>1, <1>7, TotalIs
<1> QED
  BY <1>2, <1>3, <1>5, <1>8 DEF vw

(* Total of one number. *)
LEMMA TotalSingle == ASSUME NEW x \in Int PROVE Total(<<x>>) = x
<1>1. <<x>> \in Seq(Int) /\ Len(<<x>>) = 1 /\ <<x>>[1] = x
  OBVIOUS
<1>2. PICK t : IsTotal(t, <<x>>) /\ Total(<<x>>) = t[Len(<<x>>)]
  BY <1>1, TotalRun
<1>3. t[0] = 0 /\ t[1] = t[1 - 1] + <<x>>[1]
  BY <1>1, <1>2 DEF IsTotal
<1> QED
  BY <1>1, <1>2, <1>3

(* Total with one number more. *)
LEMMA TotalAppend ==
    ASSUME NEW w \in Seq(Int), NEW x \in Int
    PROVE  Total(Append(w, x)) = Total(w) + x
<1>1. Append(w, x) = w \o <<x>> /\ <<x>> \in Seq(Int)
  OBVIOUS
<1> QED
  BY <1>1, TotalConcat, TotalSingle

(* Sequences of the same length and members are the same. *)
LEMMA SameSeq ==
    ASSUME NEW S, NEW v \in Seq(S), NEW w \in Seq(S), Len(v) = Len(w),
           \A i \in 1..Len(w) : v[i] = w[i]
    PROVE  v = w
<1>1. v = [i \in 1..Len(v) |-> v[i]] /\ w = [i \in 1..Len(w) |-> w[i]]
  OBVIOUS
<1> QED
  BY <1>1

(* Total of a sequence cut in two. *)
LEMMA TotalSplit ==
    ASSUME NEW w \in Seq(Int), NEW k \in 0..Len(w)
    PROVE  Total(w) = Total(SubSeq(w, 1, k)) + Total(SubSeq(w, k + 1, Len(w)))
<1>1. SubSeq(w, 1, k) \in Seq(Int) /\ SubSeq(w, k + 1, Len(w)) \in Seq(Int)
  OBVIOUS
<1>2. w = SubSeq(w, 1, k) \o SubSeq(w, k + 1, Len(w))
  <2> DEFINE n == Len(w)
             a == SubSeq(w, 1, k)
             b == SubSeq(w, k + 1, n)
  <2>1. n \in Nat /\ k \in Nat /\ k <= n
    OBVIOUS
  <2>2. Len(a) = k /\ \A i \in 1..k : a[i] = w[i]
    BY <2>1
  <2>3. Len(b) = n - k /\ \A i \in 1..(n - k) : b[i] = w[i + k]
    BY <2>1
  <2> HIDE DEF a, b
  <2>4. a \in Seq(Int) /\ b \in Seq(Int)
    BY <1>1 DEF a, b, n
  <2>5. a \o b \in Seq(Int) /\ Len(a \o b) = n
    <3>1. a \o b \in Seq(Int) /\ Len(a \o b) = Len(a) + Len(b)
      BY <2>4
    <3>2. k + (n - k) = n
      BY <2>1
    <3> QED
      BY <2>2, <2>3, <3>1, <3>2
  <2>6. ASSUME NEW i \in 1..n PROVE (a \o b)[i] = w[i]
    <3>1. CASE i <= k
      <4>1. i \in 1..k /\ i \in 1..Len(a) /\ i \in 1..(Len(a) + Len(b))
        BY <2>1, <2>2, <2>3, <3>1
      <4>2. (a \o b)[i] = a[i]
        BY <2>4, <4>1
      <4> QED
        BY <2>2, <4>1, <4>2
    <3>2. CASE ~(i <= k)
      <4>0. i - k \in 1..(n - k) /\ (i - k) + k = i /\ i \in (k + 1)..n /\ i > k
        BY <2>1, <3>2
      <4>1. (a \o b)[i] = b[i - k] /\ i - k \in 1..(n - k) /\ (i - k) + k = i
        <5>1. i \in 1..(Len(a) + Len(b)) /\ ~(i <= Len(a))
          BY <2>1, <2>2, <2>3, <3>2
        <5>2. (a \o b)[i] = b[i - Len(a)]
          BY <2>4, <5>1
        <5> QED
          BY <2>2, <4>0, <5>2
      <4> QED
        BY <2>3, <4>1
    <3> QED
      BY <3>1, <3>2
  <2>7. w \in Seq(Int) /\ Len(w) = n
    OBVIOUS
  <2> HIDE DEF n
  <2>8. w = a \o b
    <3> DEFINE c == a \o b
    <3>1. c \in Seq(Int) /\ Len(c) = Len(w) /\ \A i \in 1..Len(w) : c[i] = w[i]
      BY <2>5, <2>6, <2>7
    <3> HIDE DEF c
    <3>2. c = w
      BY <3>1, <2>7, SameSeq
    <3> QED
      BY <3>2 DEF c
  <2> QED
    BY <2>8 DEF a, b, n
<1> QED
  BY <1>1, <1>2, TotalConcat

(* One amount changes.                                                             *)
LEMMA TotalUpdate ==
    ASSUME NEW w \in Seq(Int), NEW i \in 1..Len(w), NEW x \in Int
    PROVE  Total([w EXCEPT ![i] = x]) = Total(w) - w[i] + x
<1> DEFINE n == Len(w)
           v == [w EXCEPT ![i] = x]
<1>1. /\ n \in Nat /\ v \in Seq(Int) /\ Len(v) = n /\ i \in 1..n
      /\ \A j \in 1..n : w[j] \in Int /\ v[j] = IF j = i THEN x ELSE w[j]
  OBVIOUS
<1>2. PICK t : IsTotal(t, w) /\ Total(w) = t[n]
  BY TotalRun
<1>3. t \in [0..n -> Int] /\ t[0] = 0 /\ \A j \in 1..n : t[j] = t[j - 1] + w[j]
  BY <1>2 DEF IsTotal
<1> HIDE DEF n, v
<1> DEFINE s == [j \in 0..n |-> IF j < i THEN t[j] ELSE t[j] - w[i] + x]
<1>4. s \in [0..n -> Int] /\ s[0] = 0
  <2>1. w[i] \in Int /\ 0 \in 0..n /\ 0 < i
    BY <1>1
  <2>2. \A j \in 0..n : t[j] \in Int
    BY <1>3
  <2> QED
    BY <1>3, <2>1, <2>2
<1>5. ASSUME NEW j \in 1..n PROVE s[j] = s[j - 1] + v[j]
  <2>0. j \in 0..n /\ j - 1 \in 0..n /\ w[j] \in Int /\ w[i] \in Int
    BY <1>1
  <2>1. /\ j \in 0..n /\ j - 1 \in 0..n /\ t[j] = t[j - 1] + w[j]
        /\ t[j] \in Int /\ t[j - 1] \in Int /\ w[j] \in Int /\ w[i] \in Int
    BY <1>3, <2>0
  <2>2. CASE j < i
    BY <1>1, <2>1, <2>2
  <2>3. CASE j = i
    <3>1. s[j] = t[j] - w[i] + x /\ s[j - 1] = t[j - 1] /\ v[j] = x
      BY <1>1, <2>1, <2>3
    <3> HIDE DEF s
    <3> QED
      BY <2>1, <2>3, <3>1
  <2>4. CASE j > i
    <3>1. s[j] = t[j] - w[i] + x /\ s[j - 1] = t[j - 1] - w[i] + x /\ v[j] = w[j]
      BY <1>1, <2>1, <2>4
    <3> HIDE DEF s
    <3> QED
      BY <2>1, <3>1
  <2> QED
    BY <1>1, <2>2, <2>3, <2>4
<1>6. IsTotal(s, v)
  <2> HIDE DEF s
  <2> QED
    BY <1>1, <1>4, <1>5 DEF IsTotal
<1>7. Total(v) = s[n]
  <2> HIDE DEF s
  <2> QED
    BY <1>1, <1>6, TotalIs
<1>8. s[n] = t[n] - w[i] + x
  BY <1>1
<1> QED
  BY <1>2, <1>7, <1>8 DEF v

(* The amounts of a sequence of deposits, withdrawals or bookings.                 *)
LEMMA AmountsOf ==
    ASSUME NEW S, \A x \in S : x.amount \in Nat, NEW seq \in Seq(S)
    PROVE  /\ Amounts(seq) \in Seq(Nat) /\ Amounts(seq) \in Seq(Int)
           /\ Len(Amounts(seq)) = Len(seq)
           /\ \A i \in 1..Len(seq) : Amounts(seq)[i] = seq[i].amount
<1>1. DOMAIN seq = 1..Len(seq) /\ Len(seq) \in Nat /\ \A i \in 1..Len(seq) : seq[i] \in S
  OBVIOUS
<1>2. Amounts(seq) = [i \in 1..Len(seq) |-> seq[i].amount]
  BY <1>1 DEF Amounts
<1>3. \A i \in 1..Len(seq) : seq[i].amount \in Nat
  BY <1>1
<1> DEFINE a == [i \in 1..Len(seq) |-> seq[i].amount]
<1>4. a \in Seq(Nat) /\ a \in Seq(Int) /\ Len(a) = Len(seq)
  BY <1>1, <1>3
<1> QED
  BY <1>2, <1>4

(* The amounts with one item more. *)
LEMMA AmountsAppend ==
    ASSUME NEW S, \A x \in S : x.amount \in Nat, NEW seq \in Seq(S), NEW x \in S
    PROVE  Amounts(Append(seq, x)) = Append(Amounts(seq), x.amount)
<1> DEFINE p == Append(seq, x)
           v == Amounts(p)
           w == Append(Amounts(seq), x.amount)
<1>1. /\ p \in Seq(S) /\ Len(p) = Len(seq) + 1 /\ Len(seq) \in Nat
      /\ p[Len(seq) + 1] = x /\ \A i \in 1..Len(seq) : p[i] = seq[i]
  OBVIOUS
<1>2. x.amount \in Nat
  OBVIOUS
<1>3. /\ Amounts(seq) \in Seq(Nat) /\ Len(Amounts(seq)) = Len(seq)
      /\ \A i \in 1..Len(seq) : Amounts(seq)[i] = seq[i].amount
  BY AmountsOf
<1> HIDE DEF p
<1>4. /\ v \in Seq(Nat) /\ Len(v) = Len(seq) + 1
      /\ \A i \in 1..(Len(seq) + 1) : v[i] = p[i].amount
  <2>1. /\ Amounts(p) \in Seq(Nat) /\ Len(Amounts(p)) = Len(p)
        /\ \A i \in 1..Len(p) : Amounts(p)[i] = p[i].amount
    BY <1>1, AmountsOf
  <2> QED
    BY <1>1, <2>1
<1>5. /\ w \in Seq(Nat) /\ Len(w) = Len(seq) + 1
      /\ w[Len(seq) + 1] = x.amount /\ \A i \in 1..Len(seq) : w[i] = Amounts(seq)[i]
  BY <1>2, <1>3
<1> HIDE DEF v, w
<1>6. ASSUME NEW i \in 1..Len(w) PROVE v[i] = w[i]
  <2>1. CASE i = Len(seq) + 1
    BY <1>1, <1>4, <1>5, <2>1
  <2>2. CASE i \in 1..Len(seq)
    BY <1>1, <1>3, <1>4, <1>5, <2>2
  <2> QED
    BY <1>1, <1>5, <2>1, <2>2
<1>7. v = w
  BY <1>4, <1>5, <1>6, SameSeq
<1> QED
  BY <1>7 DEF v, w, p

(* The amounts of a part. *)
LEMMA AmountsSubSeq ==
    ASSUME NEW S, \A x \in S : x.amount \in Nat, NEW seq \in Seq(S),
           NEW m \in Nat \ {0}, NEW n \in 0..Len(seq)
    PROVE  Amounts(SubSeq(seq, m, n)) = SubSeq(Amounts(seq), m, n)
<1> DEFINE p == SubSeq(seq, m, n)
           k == IF m <= n THEN n - m + 1 ELSE 0
           a == Amounts(seq)
           v == Amounts(p)
           w == SubSeq(a, m, n)
<1>1. /\ Len(seq) \in Nat /\ n \in Nat /\ n <= Len(seq) /\ k \in Nat
      /\ \A i \in 1..k : i + m - 1 \in 1..Len(seq)
  OBVIOUS
<1>2. a \in Seq(Nat) /\ Len(a) = Len(seq) /\ \A i \in 1..Len(seq) : a[i] = seq[i].amount
  BY AmountsOf
<1>3. p \in Seq(S) /\ Len(p) = k /\ \A i \in 1..k : p[i] = seq[i + m - 1]
  BY <1>1
<1> HIDE DEF a
<1>4. w \in Seq(Nat) /\ Len(w) = k /\ \A i \in 1..k : w[i] = a[i + m - 1]
  BY <1>1, <1>2
<1> HIDE DEF p, k
<1>5. v \in Seq(Nat) /\ Len(v) = k /\ \A i \in 1..k : v[i] = p[i].amount
  <2>1. /\ Amounts(p) \in Seq(Nat) /\ Len(Amounts(p)) = Len(p)
        /\ \A i \in 1..Len(p) : Amounts(p)[i] = p[i].amount
    BY <1>3, AmountsOf
  <2> QED
    BY <1>3, <2>1
<1> HIDE DEF v, w
<1>6. ASSUME NEW i \in 1..Len(w) PROVE v[i] = w[i]
  <2>1. i \in 1..k /\ i + m - 1 \in 1..Len(seq)
    BY <1>1, <1>4
  <2>2. v[i] = seq[i + m - 1].amount /\ w[i] = seq[i + m - 1].amount
    BY <1>2, <1>3, <1>4, <1>5, <2>1
  <2> QED
    BY <2>2
<1>7. v = w
  BY <1>4, <1>5, <1>6, SameSeq
<1> QED
  BY <1>7 DEF v, w, p, a

(* The amounts of two sequences, one after the other. *)
LEMMA AmountsConcat ==
    ASSUME NEW S, \A x \in S : x.amount \in Nat, NEW p \in Seq(S), NEW q \in Seq(S)
    PROVE  Amounts(p \o q) = Amounts(p) \o Amounts(q)
<1> DEFINE r == p \o q
           v == Amounts(r)
           a == Amounts(p)
           b == Amounts(q)
           w == a \o b
<1>1. /\ Len(p) \in Nat /\ Len(q) \in Nat /\ r \in Seq(S) /\ Len(r) = Len(p) + Len(q)
      /\ \A i \in 1..Len(p) : r[i] = p[i]
      /\ \A i \in (Len(p) + 1)..(Len(p) + Len(q)) : r[i] = q[i - Len(p)]
  OBVIOUS
<1>2. /\ a \in Seq(Nat) /\ Len(a) = Len(p) /\ \A i \in 1..Len(p) : a[i] = p[i].amount
      /\ b \in Seq(Nat) /\ Len(b) = Len(q) /\ \A i \in 1..Len(q) : b[i] = q[i].amount
  BY AmountsOf
<1> HIDE DEF r, a, b
<1>3. v \in Seq(Nat) /\ Len(v) = Len(r) /\ \A i \in 1..Len(r) : v[i] = r[i].amount
  BY <1>1, AmountsOf
<1>4. /\ w \in Seq(Nat) /\ Len(w) = Len(a) + Len(b)
      /\ \A i \in 1..Len(a) : w[i] = a[i]
      /\ \A i \in (Len(a) + 1)..(Len(a) + Len(b)) : w[i] = b[i - Len(a)]
  <2>1. a \in Seq(Nat) /\ b \in Seq(Nat)
    BY <1>2
  <2>2. w \in Seq(Nat) /\ Len(w) = Len(a) + Len(b) /\ \A i \in 1..Len(a) : w[i] = a[i]
    BY <2>1
  <2>3. ASSUME NEW i \in (Len(a) + 1)..(Len(a) + Len(b)) PROVE w[i] = b[i - Len(a)]
    <3>1. i \in 1..(Len(a) + Len(b)) /\ ~(i <= Len(a))
      BY <2>1
    <3> QED
      BY <2>1, <3>1
  <2> QED
    BY <2>2, <2>3
<1> HIDE DEF v, w
<1>5. ASSUME NEW i \in 1..Len(w) PROVE v[i] = w[i]
  <2>1. i \in 1..(Len(p) + Len(q)) /\ v[i] = r[i].amount
    BY <1>1, <1>2, <1>3, <1>4
  <2>2. CASE i <= Len(p)
    <3>1. i \in 1..Len(p)
      BY <1>1, <2>1, <2>2
    <3> QED
      BY <1>1, <1>2, <1>4, <2>1, <3>1
  <2>3. CASE ~(i <= Len(p))
    <3>1. i \in (Len(p) + 1)..(Len(p) + Len(q)) /\ i - Len(p) \in 1..Len(q)
      BY <1>1, <2>1, <2>3
    <3>2. r[i] = q[i - Len(p)] /\ w[i] = b[i - Len(p)] /\ b[i - Len(p)] = q[i - Len(p)].amount
      BY <1>1, <1>2, <1>4, <3>1
    <3> QED
      BY <2>1, <3>2
  <2> QED
    BY <2>2, <2>3
<1>6. v = w
  <2>1. Len(v) = Len(w)
    BY <1>1, <1>2, <1>3, <1>4
  <2> QED
    BY <1>3, <1>4, <1>5, <2>1, SameSeq
<1> QED
  BY <1>6 DEF v, w, r, a, b

(* The epochs a booking of `rest` beyond the first one takes are the fewest that
   hold it: one fewer would not. *)
LEMMA FewestEpochs ==
  ASSUME NEW churn \in Nat \ {0}, NEW rest \in Nat \ {0}
  PROVE LET more == (rest - 1) \div churn + 1 IN
        /\ more \in Nat \ {0}
        /\ rest <= more * churn
        /\ more * churn < rest + churn
  <1> DEFINE d == (rest - 1) \div churn
             r == (rest - 1) % churn
  <1>1. d \in Nat /\ r \in 0..(churn - 1)
    BY SMT
  <1>2. rest - 1 = churn * d + r
    BY SMT
  <1>3. (d + 1) * churn = churn * d + churn
    BY <1>1, SMT
  <1>4. churn * d \in Nat
    BY <1>1, SMT
  <1> HIDE DEF d, r
  <1>5. d + 1 \in Nat \ {0}
    BY <1>1, SMT
  <1>6. rest <= (d + 1) * churn /\ (d + 1) * churn < rest + churn
    BY <1>1, <1>2, <1>3, <1>4, SMT
  <1> QED BY <1>5, <1>6 DEF d

(* A product grows with its factor. *)
LEMMA LargerFactor ==
  ASSUME NEW a \in Nat, NEW b \in Nat, NEW c \in Nat, b <= c
  PROVE  a * b <= a * c
  <1>1. a * c = a * b + a * (c - b) /\ a * (c - b) \in Nat /\ a * b \in Nat
    BY SMT
  <1> QED BY <1>1, SMT

(* What a booking makes of a queue: the epoch it ends in and what is left there. *)
LEMMA BookedParts ==
  ASSUME NEW queue, NEW now, NEW churn, NEW amount
  PROVE LET first == Greater(queue.earliest, now)
            left == IF queue.earliest < first THEN churn ELSE queue.to_consume
            more == IF amount > left THEN (amount - left - 1) \div churn + 1 ELSE 0
            after == Booked(queue, now, churn, amount)
        IN /\ after.earliest = first + more
           /\ after.to_consume = left + more * churn - amount
  BY DEF Booked

(* The churn used up to the present state of a queue, epochs before its earliest
   counted as used: full epochs less what is left of the last one. *)
Used(queue, churn) == (queue.earliest + 1) * churn - queue.to_consume

(* compute_exit_epoch_and_update_churn and its twin, whatever the backlog and at
   whatever limit it was booked: the earliest epoch never goes back and is never before
   the present one, what is left of it is neither negative nor more than the highest
   limit, and the churn used, at the highest limit, grows by the amount at least. *)
THEOREM BookingRespectsChurn ==
  ASSUME NEW queue, NEW now \in Nat, NEW amount \in Nat,
         NEW most \in Nat, NEW churn \in 1..most,
         queue.earliest \in Nat, queue.to_consume \in 0..most
  PROVE LET after == Booked(queue, now, churn, amount) IN
        /\ after.earliest \in Nat
        /\ after.earliest >= queue.earliest /\ after.earliest >= now
        /\ after.to_consume \in 0..most
        /\ Used(after, most) >= Used(queue, most) + amount
  <1> DEFINE e == queue.earliest
             c == queue.to_consume
             first == Greater(e, now)
             left == IF e < first THEN churn ELSE c
             more == IF amount > left THEN (amount - left - 1) \div churn + 1 ELSE 0
             after == Booked(queue, now, churn, amount)
  <1>0. churn \in Nat \ {0} /\ churn <= most
    OBVIOUS
  <1>1. after.earliest = first + more /\ after.to_consume = left + more * churn - amount
    BY BookedParts
  <1>2. e \in Nat /\ c \in 0..most
    OBVIOUS
  <1>3. first \in Nat /\ first >= e /\ first >= now
    BY <1>2 DEF Greater
  <1>4. left \in 0..most /\ (first = e => left = c) /\ (first # e => left = churn)
    BY <1>0, <1>2, <1>3
  <1> HIDE DEF e, c, first, left
  (* A booking that fits takes no further epoch; another the fewest. *)
  <1>5. /\ more \in Nat /\ more * churn \in Nat /\ more * churn <= more * most
        /\ left + more * churn - amount \in 0..most
    <2>1. CASE amount > left
      <3> DEFINE rest == amount - left
      <3>1. rest \in Nat \ {0} /\ amount - left - 1 = rest - 1
        BY <1>4, <2>1
      <3> HIDE DEF rest
      <3>2. more = (rest - 1) \div churn + 1
        BY <2>1, <3>1
      <3> HIDE DEF more
      <3>3. more \in Nat \ {0} /\ rest <= more * churn /\ more * churn < rest + churn
        BY <1>0, <3>1, <3>2, FewestEpochs
      <3>4. more * churn \in Nat
        BY <1>0, <3>3
      <3>5. rest = amount - left
        BY DEF rest
      <3>6. more * churn <= more * most
        BY <1>0, <3>3, LargerFactor
      <3> QED BY <1>0, <1>4, <3>1, <3>3, <3>4, <3>5, <3>6
    <2>2. CASE ~(amount > left)
      <3>1. more = 0 /\ more * churn = 0 /\ more * most = 0
        BY <1>0, <2>2
      <3> HIDE DEF more
      <3> QED BY <1>4, <2>2, <3>1
    <2> QED BY <2>1, <2>2
  <1> HIDE DEF more
  (* Epochs passed over for their past count as used. *)
  <1>6. Used(after, most) >= Used(queue, most) + amount
    <2>1. Used(after, most) = (first + more + 1) * most - (left + more * churn - amount)
      BY <1>1 DEF Used
    <2>2. Used(queue, most) = (e + 1) * most - c
      BY DEF Used, e, c
    <2>3. (first + more + 1) * most = first * most + more * most + most
      BY <1>3, <1>5
    <2>4. (e + 1) * most = e * most + most
      BY <1>2
    <2>5. first * most \in Nat /\ e * most \in Nat /\ more * most \in Nat
      BY <1>2, <1>3, <1>5
    <2>6. CASE first = e
      BY <2>1, <2>2, <2>3, <2>4, <2>5, <2>6, <1>2, <1>4, <1>5
    <2>7. CASE first # e
      <3>1. first - e \in Nat \ {0}
        BY <1>2, <1>3, <2>7
      <3>2. first * most = e * most + (first - e) * most
        BY <1>2, <1>3
      <3>3. (first - e) * most >= most
        BY <3>1
      <3>4. (first - e) * most \in Nat
        BY <3>1
      <3> HIDE DEF first, left, more
      <3> QED BY <2>1, <2>2, <2>3, <2>4, <2>5, <2>7, <3>2, <3>3, <3>4, <1>0, <1>2, <1>4, <1>5
    <2> QED BY <2>6, <2>7
  <1>7. after.earliest \in Nat /\ after.earliest >= e /\ after.earliest >= now
    BY <1>1, <1>2, <1>3, <1>5
  <1> QED BY <1>1, <1>5, <1>6, <1>7 DEF e

--------------------------------------------------------------------------------
(* A queue over its history *)

Booking == [epoch : Nat, amount : Nat, churn : Nat]

(* What was booked after the m-th booking, up to the n-th.                         *)
Span(b, m, n) == Total(Amounts(SubSeq(b, m + 1, n)))

(* What a span of bookings takes is a number. *)
LEMMA SpanIsNat ==
    ASSUME NEW b \in Seq(Booking), NEW m \in Nat, NEW n \in 0..Len(b)
    PROVE  Span(b, m, n) \in Nat
<1>1. SubSeq(b, m + 1, n) \in Seq(Booking)
  <2>1. \A i \in (m + 1)..n : i \in 1..Len(b)
    OBVIOUS
  <2> QED
    BY <2>1
<1>2. \A x \in Booking : x.amount \in Nat
  BY DEF Booking
<1>3. Amounts(SubSeq(b, m + 1, n)) \in Seq(Nat)
  <2> HIDE DEF Booking
  <2> QED
    BY <1>1, <1>2, AmountsOf
<1> QED
  BY <1>3, TotalType DEF Span

(* What the spans take with one booking more. *)
LEMMA SpanAppend ==
    ASSUME NEW b \in Seq(Booking), NEW x \in Booking
    PROVE  LET c == Append(b, x)
               n == Len(b)
           IN /\ \A m \in 1..n : \A j \in m..n : Span(c, m, j) = Span(b, m, j)
              /\ \A m \in 1..n : Span(c, m, n + 1) = Span(b, m, n) + x.amount
              /\ Span(c, n + 1, n + 1) = 0
<1> DEFINE c == Append(b, x)
           n == Len(b)
<1>1. /\ n \in Nat /\ c \in Seq(Booking) /\ Len(c) = n + 1 /\ c[n + 1] = x
      /\ \A i \in 1..n : c[i] = b[i]
  OBVIOUS
<1>2. \A y \in Booking : y.amount \in Nat
  BY DEF Booking
<1> HIDE DEF c
<1>3. ASSUME NEW m \in 1..n, NEW j \in m..n
      PROVE  SubSeq(c, m + 1, j) = SubSeq(b, m + 1, j) /\ SubSeq(b, m + 1, j) \in Seq(Booking)
  <2> DEFINE p == SubSeq(c, m + 1, j)
             q == SubSeq(b, m + 1, j)
  <2>1. /\ m \in Nat /\ j \in Nat /\ j <= n /\ m <= j
        /\ \A i \in 1..(j - m) : i + (m + 1) - 1 \in 1..n
    BY <1>1
  <2>2. /\ p \in Seq(Booking) /\ Len(p) = j - m
        /\ \A i \in 1..(j - m) : p[i] = c[i + (m + 1) - 1]
    <3>1. \A i \in (m + 1)..j : c[i] \in Booking
      BY <1>1, <2>1
    <3> QED
      BY <1>1, <2>1, <3>1
  <2>3. /\ q \in Seq(Booking) /\ Len(q) = j - m
        /\ \A i \in 1..(j - m) : q[i] = b[i + (m + 1) - 1]
    <3>1. \A i \in (m + 1)..j : b[i] \in Booking
      BY <1>1, <2>1
    <3> QED
      BY <1>1, <2>1, <3>1
  <2> HIDE DEF p, q
  <2>4. \A i \in 1..Len(q) : p[i] = q[i]
    BY <1>1, <2>1, <2>2, <2>3
  <2>5. p = q
    BY <2>2, <2>3, <2>4, SameSeq
  <2> QED
    BY <2>3, <2>5 DEF p, q
<1>4. ASSUME NEW m \in 1..n
      PROVE  SubSeq(c, m + 1, n + 1) = Append(SubSeq(b, m + 1, n), x)
  <2> DEFINE p == SubSeq(c, m + 1, n + 1)
             r == SubSeq(b, m + 1, n)
             q == Append(r, x)
  <2>1. /\ m \in Nat /\ m <= n /\ m + 1 <= n + 1
        /\ \A i \in 1..(n + 1 - m) : i + (m + 1) - 1 = i + m /\ i + m \in 1..(n + 1)
        /\ \A i \in 1..(n - m) : i + (m + 1) - 1 = i + m /\ i + m \in 1..n
    BY <1>1
  <2>2. /\ p \in Seq(Booking) /\ Len(p) = n + 1 - m
        /\ \A i \in 1..(n + 1 - m) : p[i] = c[i + m]
    <3>1. \A i \in (m + 1)..(n + 1) : c[i] \in Booking
      BY <1>1, <2>1
    <3>2. Len(p) = n + 1 - m
      BY <1>1, <2>1
    <3>3. p \in Seq(Booking)
      BY <1>1, <2>1, <3>1
    <3>4. \A i \in 1..(n + 1 - m) : p[i] = c[i + (m + 1) - 1]
      BY <1>1, <2>1
    <3> QED
      BY <2>1, <3>2, <3>3, <3>4
  <2>3. r \in Seq(Booking) /\ Len(r) = n - m /\ \A i \in 1..(n - m) : r[i] = b[i + m]
    <3>1. \A i \in (m + 1)..n : b[i] \in Booking
      BY <1>1, <2>1
    <3>2. \A i \in 1..(n - m) : r[i] = b[i + (m + 1) - 1]
      BY <1>1, <2>1
    <3>3. r \in Seq(Booking) /\ Len(r) = n - m
      BY <1>1, <2>1, <3>1
    <3> QED
      BY <2>1, <3>2, <3>3
  <2> HIDE DEF p, r
  <2>4. /\ q \in Seq(Booking) /\ Len(q) = n + 1 - m
        /\ q[n + 1 - m] = x /\ \A i \in 1..(n - m) : q[i] = r[i]
    <3>1. (n - m) + 1 = n + 1 - m
      BY <1>1
    <3> QED
      BY <2>3, <3>1
  <2> HIDE DEF q
  <2>5. ASSUME NEW i \in 1..Len(q) PROVE p[i] = q[i]
    <3>1. CASE i = n + 1 - m
      <4>1. i + m = n + 1 /\ i \in 1..(n + 1 - m)
        BY <1>1, <2>1, <2>4, <3>1
      <4> QED
        BY <1>1, <2>2, <2>4, <3>1, <4>1
    <3>2. CASE i # n + 1 - m
      <4>1. i \in 1..(n - m) /\ i \in 1..(n + 1 - m) /\ i + m \in 1..n
        <5>1. i \in 1..(n + 1 - m) /\ m \in Nat /\ n \in Nat
          BY <1>1, <2>1, <2>4
        <5> QED
          BY <3>2, <5>1
      <4> QED
        BY <1>1, <2>2, <2>3, <2>4, <4>1
    <3> QED
      BY <3>1, <3>2
  <2>6. p = q
    BY <2>2, <2>4, <2>5, SameSeq
  <2> QED
    BY <2>6 DEF p, q, r
<1>5. ASSUME NEW m \in 1..n PROVE Span(c, m, n + 1) = Span(b, m, n) + x.amount
  <2> DEFINE r == SubSeq(b, m + 1, n)
             a == Amounts(r)
  <2>0. n \in m..n
    BY <1>1
  <2>1. r \in Seq(Booking)
    BY <1>3, <2>0
  <2> HIDE DEF r
  <2>2. Amounts(Append(r, x)) = Append(a, x.amount) /\ a \in Seq(Int) /\ x.amount \in Nat
    <3> HIDE DEF Booking
    <3>1. Amounts(Append(r, x)) = Append(a, x.amount)
      BY <1>2, <2>1, AmountsAppend
    <3>2. a \in Seq(Int)
      BY <1>2, <2>1, AmountsOf
    <3> QED
      BY <1>2, <3>1, <3>2
  <2> HIDE DEF a
  <2>3. Total(Append(a, x.amount)) = Total(a) + x.amount
    BY <2>2, TotalAppend
  <2> QED
    BY <1>4, <2>2, <2>3 DEF Span, r, a
<1>6. Span(c, n + 1, n + 1) = 0
  <2>1. SubSeq(c, (n + 1) + 1, n + 1) = <<>>
    BY <1>1
  <2>2. Amounts(<<>>) = <<>>
    BY DEF Amounts
  <2> QED
    BY <2>1, <2>2, TotalEmpty DEF Span
<1>7. \A m \in 1..n : \A j \in m..n : Span(c, m, j) = Span(b, m, j)
  BY <1>3 DEF Span
<1> QED
  BY <1>5, <1>6, <1>7 DEF c

(* What a queue keeps: all bookings up to the last, with what is left of its epoch, *)
(* fit in the churn, at the highest limit so far, of the epochs since any of them;  *)
(* and so did the bookings up to each one.                                          *)
Fits(q, churn) ==
    /\ q.to_consume <= churn
    /\ \A m \in DOMAIN q.booked :
           /\ q.booked[m].epoch <= q.earliest
           /\ Span(q.booked, m, Len(q.booked)) + q.to_consume
                <= churn * (q.earliest - q.booked[m].epoch + 1)

Backlog(q) ==
    /\ q.booked = <<>> => q.to_consume = 0
    /\ q.booked # <<>> =>
           /\ q.booked[Len(q.booked)].epoch = q.earliest
           /\ \E k \in DOMAIN q.booked :
                 /\ \A j \in DOMAIN q.booked : q.booked[j].churn <= q.booked[k].churn
                 /\ Fits(q, q.booked[k].churn)
    /\ WithinChurn(q.booked)

(* A span with the booking it ends in fits in the highest limit so far. *)
LEMMA SumsUp ==
    ASSUME NEW h \in Nat, NEW most \in Nat, h <= most, NEW e \in Nat, NEW f \in Nat, e <= f,
           NEW c \in Nat, NEW d \in Nat, NEW amount \in Nat, NEW span \in Nat, NEW from \in 0..e,
           (f + 1) * most - d >= (e + 1) * most - c + amount,
           span + c <= h * (e - from + 1)
    PROVE  span + amount + d <= most * (f - from + 1)
<1>1. (f + 1) * most = f * most + most /\ (e + 1) * most = e * most + most
  OBVIOUS
<1>2. (e - from + 1) \in Nat /\ from \in Nat
  OBVIOUS
<1>3. (e - from + 1) * h <= (e - from + 1) * most
  BY <1>2, LargerFactor
<1>4. h * (e - from + 1) = (e - from + 1) * h
  BY <1>2
<1>5. (e - from + 1) * most = e * most - from * most + most
  BY <1>2
<1>6. most * (f - from + 1) = f * most - from * most + most
  BY <1>2
<1>7. e * most \in Nat /\ f * most \in Nat /\ from * most \in Nat /\ h * (e - from + 1) \in Nat
  BY <1>2
<1> QED
  BY <1>1, <1>3, <1>4, <1>5, <1>6, <1>7

(* A booking keeps it, at whatever limit it is made.                                *)
LEMMA BookingKeeps ==
    ASSUME NEW q \in ChurnQueue, Backlog(q),
           NEW now \in Nat, NEW churn \in Nat \ {0}, NEW amount \in Nat
    PROVE  /\ Booked(q, now, churn, amount) \in ChurnQueue
           /\ Backlog(Booked(q, now, churn, amount))
<1> DEFINE b == q.booked
           n == Len(b)
           after == Booked(q, now, churn, amount)
           x == [epoch |-> after.earliest, amount |-> amount, churn |-> churn]
           c == Append(b, x)
<1>1. q.earliest \in Nat /\ q.to_consume \in Nat /\ b \in Seq(Booking) /\ n \in Nat /\ DOMAIN b = 1..n
  BY DEF ChurnQueue, Booking
<1>1a. \A j \in 1..n : b[j].epoch \in Nat /\ b[j].churn \in Nat
  <2>1. \A j \in 1..n : b[j] \in Booking
    <3> HIDE DEF b
    <3> QED
      BY <1>1
  <2> QED
    BY <2>1 DEF Booking
<1>2. /\ after = [earliest |-> after.earliest, to_consume |-> after.to_consume, booked |-> c]
      /\ after.booked = c
  BY DEF Booked
<1>3. PICK most \in Nat :
        /\ churn \in 1..most /\ q.to_consume \in 0..most
        /\ b = <<>> => most = churn
        /\ b # <<>> => \E k \in 1..n :
              /\ \A j \in 1..n : b[j].churn <= b[k].churn
              /\ Fits(q, b[k].churn)
              /\ most = Greater(b[k].churn, churn)
  <2>1. CASE b = <<>>
    <3>1. q.to_consume = 0
      BY <2>1 DEF Backlog
    <3> QED
      BY <2>1, <3>1
  <2>2. CASE b # <<>>
    <3>1. PICK k \in 1..n : (\A j \in 1..n : b[j].churn <= b[k].churn) /\ Fits(q, b[k].churn)
      BY <1>1, <2>2 DEF Backlog
    <3>2. b[k].churn \in Nat /\ q.to_consume <= b[k].churn
      BY <1>1a, <3>1 DEF Fits
    <3>3. /\ Greater(b[k].churn, churn) \in Nat
          /\ churn \in 1..Greater(b[k].churn, churn) /\ q.to_consume \in 0..Greater(b[k].churn, churn)
      BY <1>1, <3>2 DEF Greater
    <3> QED
      BY <2>2, <3>1, <3>3
  <2> QED
    BY <2>1, <2>2
<1>4. /\ after.earliest \in Nat /\ after.earliest >= q.earliest
      /\ after.to_consume \in 0..most
      /\ Used(after, most) >= Used(q, most) + amount
  <2> HIDE DEF b
  <2> QED
    BY <1>1, <1>3, BookingRespectsChurn
<1> HIDE DEF after
<1>5. x \in Booking /\ x.amount = amount /\ x.epoch = after.earliest /\ x.churn = churn
  BY <1>4 DEF Booking
<1>6. /\ c \in Seq(Booking) /\ Len(c) = n + 1 /\ c[n + 1] = x
      /\ \A i \in 1..n : c[i] = b[i]
      /\ c # <<>> /\ DOMAIN c = 1..(n + 1)
  <2> HIDE DEF x
  <2> QED
    BY <1>1, <1>5
<1>7. /\ \A m \in 1..n : \A j \in m..n : Span(c, m, j) = Span(b, m, j)
      /\ \A m \in 1..n : Span(c, m, n + 1) = Span(b, m, n) + amount
      /\ Span(c, n + 1, n + 1) = 0
  <2> HIDE DEF b, x
  <2> QED
    BY <1>1, <1>5, SpanAppend
<1> HIDE DEF c, x, n
<1>8. after \in ChurnQueue
  <2>1. c \in Seq([epoch : Nat, amount : Nat, churn : Nat])
    BY <1>6 DEF Booking
  <2> QED
    BY <1>2, <1>4, <2>1 DEF ChurnQueue
<1>9. Fits(after, most)
  <2>1. after.to_consume <= most
    BY <1>4
  <2>2. ASSUME NEW m \in 1..(n + 1)
        PROVE  /\ c[m].epoch <= after.earliest
               /\ Span(c, m, n + 1) + after.to_consume <= most * (after.earliest - c[m].epoch + 1)
    <3>1. CASE m = n + 1
      <4>1. c[m].epoch = after.earliest /\ Span(c, m, n + 1) = 0
        BY <1>5, <1>6, <1>7, <3>1
      <4>2. most * (after.earliest - after.earliest + 1) = most
        BY <1>4
      <4> QED
        BY <1>4, <2>1, <4>1, <4>2
    <3>2. CASE m # n + 1
      <4>1. m \in 1..n /\ b # <<>>
        BY <1>1, <3>2
      <4>2. PICK k \in 1..n : Fits(q, b[k].churn) /\ most = Greater(b[k].churn, churn)
        BY <1>3, <4>1
      <4> DEFINE h == b[k].churn
                 from == b[m].epoch
      <4>3. h \in Nat /\ from \in Nat
        BY <1>1a, <4>1
      <4>4. h <= most
        BY <4>2, <4>3 DEF Greater
      <4>5. from <= q.earliest /\ Span(b, m, n) + q.to_consume <= h * (q.earliest - from + 1)
        BY <1>1, <4>1, <4>2 DEF Fits, n
      <4>6. Span(b, m, n) \in Nat
        <5>1. m \in Nat /\ n \in 0..Len(b)
          BY <1>1, <4>1 DEF n
        <5> QED
          BY <1>1, <5>1, SpanIsNat
      <4>7. (after.earliest + 1) * most - after.to_consume
              >= (q.earliest + 1) * most - q.to_consume + amount
        BY <1>4 DEF Used
      <4>8. c[m].epoch = from /\ Span(c, m, n + 1) = Span(b, m, n) + amount
        BY <1>6, <1>7, <4>1
      <4> HIDE DEF h, from, b
      <4>9. Span(b, m, n) + amount + after.to_consume <= most * (after.earliest - from + 1)
        <5>1. from \in 0..q.earliest /\ q.earliest <= after.earliest /\ after.to_consume \in Nat
          BY <1>1, <1>4, <4>3, <4>5
        <5> QED
          BY <1>1, <1>4, <4>3, <4>4, <4>5, <4>6, <4>7, <5>1, SumsUp
      <4>10. from <= after.earliest
        BY <1>1, <1>4, <4>3, <4>5
      <4> QED
        BY <4>8, <4>9, <4>10
    <3> QED
      BY <3>1, <3>2
  <2> QED
    BY <1>2, <1>6, <2>1, <2>2 DEF Fits
<1>10. PICK k \in 1..(n + 1) :
         (\A j \in 1..(n + 1) : c[j].churn <= c[k].churn) /\ c[k].churn = most
  <2>1. CASE b = <<>>
    <3>1. n = 0 /\ most = churn
      BY <1>3, <2>1 DEF n
    <3>2. c[1].churn = churn /\ 1 \in 1..(n + 1) /\ \A j \in 1..(n + 1) : j = 1
      BY <1>5, <1>6, <3>1
    <3> QED
      BY <3>1, <3>2
  <2>2. CASE b # <<>>
    <3>1. PICK h \in 1..n : /\ \A j \in 1..n : b[j].churn <= b[h].churn
                            /\ most = Greater(b[h].churn, churn)
      BY <1>3, <2>2
    <3>2. \A j \in 1..n : b[j].churn \in Nat /\ c[j].churn = b[j].churn
      BY <1>1a, <1>6
    <3>3. c[n + 1].churn = churn /\ n + 1 \in 1..(n + 1) /\ h \in 1..(n + 1)
          /\ \A j \in 1..(n + 1) : j = n + 1 \/ j \in 1..n
      BY <1>1, <1>5, <1>6
    <3>4. CASE b[h].churn >= churn
      <4>1. most = b[h].churn
        BY <3>1, <3>4 DEF Greater
      <4>2. c[h].churn = most
        BY <3>2, <4>1
      <4>3. \A j \in 1..(n + 1) : c[j].churn <= c[h].churn
        BY <3>1, <3>2, <3>3, <3>4, <4>1, <4>2
      <4> QED
        BY <3>3, <4>2, <4>3
    <3>5. CASE ~(b[h].churn >= churn)
      <4>1. most = churn
        BY <3>1, <3>5 DEF Greater
      <4>2. \A j \in 1..(n + 1) : c[j].churn <= c[n + 1].churn
        BY <3>1, <3>2, <3>3, <3>5
      <4> QED
        BY <3>3, <4>1, <4>2
    <3> QED
      BY <3>4, <3>5
  <2> QED
    BY <2>1, <2>2
<1>11. WithinChurn(c)
  <2> SUFFICES ASSUME NEW m \in 1..(n + 1), NEW j \in 1..(n + 1), m < j
               PROVE  /\ c[m].epoch <= c[j].epoch
                      /\ \E i \in 1..j : Span(c, m, j) <= c[i].churn * (c[j].epoch - c[m].epoch + 1)
    BY <1>6 DEF WithinChurn, Span
  <2>1. CASE j = n + 1
    <3>1. c[j].epoch = after.earliest
      BY <1>5, <1>6, <2>1
    <3>2. /\ c[m].epoch <= after.earliest
          /\ Span(c, m, n + 1) + after.to_consume <= most * (after.earliest - c[m].epoch + 1)
      BY <1>2, <1>6, <1>9 DEF Fits
    <3>3. Span(c, m, n + 1) \in Nat
      <4>1. m \in Nat /\ n + 1 \in 0..Len(c)
        BY <1>1, <1>6
      <4> QED
        BY <1>6, <4>1, SpanIsNat
    <3>4. c[m].epoch \in Nat
      <4>1. c[m] \in Booking
        BY <1>6
      <4> QED
        BY <4>1 DEF Booking
    <3>5. most * (after.earliest - c[m].epoch + 1) \in Int
      BY <1>4, <3>4
    <3>6. Span(c, m, n + 1) <= most * (after.earliest - c[m].epoch + 1)
      BY <1>4, <3>2, <3>3, <3>5
    <3> QED
      BY <1>10, <2>1, <3>1, <3>2, <3>6
  <2>2. CASE j # n + 1
    <3>1. m \in 1..n /\ j \in 1..n /\ j \in m..n
      BY <1>1, <2>2
    <3>2. /\ b[m].epoch <= b[j].epoch
          /\ \E i \in 1..j : Span(b, m, j) <= b[i].churn * (b[j].epoch - b[m].epoch + 1)
      <4>1. WithinChurn(b)
        BY DEF Backlog
      <4> QED
        BY <1>1, <3>1, <4>1 DEF WithinChurn, Span
    <3>3. c[m] = b[m] /\ c[j] = b[j] /\ Span(c, m, j) = Span(b, m, j)
          /\ \A i \in 1..j : c[i] = b[i]
      <4>1. \A i \in 1..j : i \in 1..n
        BY <1>1, <3>1
      <4> QED
        BY <1>6, <1>7, <3>1, <4>1
    <3> QED
      BY <3>2, <3>3
  <2> QED
    BY <2>1, <2>2
<1>12. Backlog(after)
  <2>1. c[n + 1].epoch = after.earliest
    BY <1>5, <1>6
  <2>2. \E i \in DOMAIN c : (\A j \in DOMAIN c : c[j].churn <= c[i].churn) /\ Fits(after, c[i].churn)
    BY <1>6, <1>9, <1>10
  <2> QED
    BY <1>2, <1>6, <1>11, <2>1, <2>2 DEF Backlog
<1> QED
  BY <1>8, <1>12 DEF after

--------------------------------------------------------------------------------
(* States *)

Sound == {st \in BeaconState :
             IndicesExist(st) /\ Backlog(st.exits) /\ Backlog(st.consolidations)}

(* What the steps inside a handler leave alone, and what they leave in sum.        *)
Alike(st) == {r \in Sound : /\ Len(r.validators) >= Len(st.validators)
                            /\ r.pending_deposits = st.pending_deposits
                            /\ r.pending_consolidations = st.pending_consolidations}

Conserving(st) == {r \in Alike(st) : Wealth(r) = Wealth(st)}

(* The constants, one by one. *)
LEMMA Constants ==
    /\ {MAX_SEED_LOOKAHEAD, SHARD_COMMITTEE_PERIOD, MIN_VALIDATOR_WITHDRAWABILITY_DELAY,
         FAR_FUTURE_EPOCH, MIN_ACTIVATION_BALANCE, MAX_EFFECTIVE_BALANCE_ELECTRA}
          \subseteq Nat
    /\ SLOTS_PER_EPOCH \in Nat \ {0}
    /\ EPOCHS_PER_SLASHINGS_VECTOR \in Nat \ {0}
    /\ EFFECTIVE_BALANCE_INCREMENT \in Nat \ {0}
    /\ CHURN_LIMIT_QUOTIENT \in Nat \ {0}
    /\ HYSTERESIS_QUOTIENT \in Nat \ {0}
    /\ MIN_SLASHING_PENALTY_QUOTIENT_ELECTRA \in Nat \ {0}
    /\ MAX_PER_EPOCH_ACTIVATION_EXIT_CHURN_LIMIT \in Nat \ {0}
    /\ MIN_PER_EPOCH_CHURN_LIMIT_ELECTRA \in Nat
    /\ MIN_PER_EPOCH_CHURN_LIMIT_ELECTRA >= EFFECTIVE_BALANCE_INCREMENT
    /\ PROPORTIONAL_SLASHING_MULTIPLIER_BELLATRIX \in Nat
    /\ MAX_WITHDRAWALS_PER_PAYLOAD \in Nat \ {0}
    /\ MAX_VALIDATORS_PER_WITHDRAWALS_SWEEP \in Nat
  BY ConstantsAssumption

(* What dividing whole numbers gives. *)
LEMMA Division ==
    ASSUME NEW a \in Nat, NEW b \in Nat \ {0}
    PROVE  /\ a \div b \in Nat /\ a % b \in 0..(b - 1)
           /\ a % b <= a
           /\ (a >= b => a \div b \in Nat \ {0})
<1> DEFINE d == a \div b
           r == a % b
<1>1. d \in Nat /\ r \in 0..(b - 1)
  BY SMT
<1>2. a = b * d + r
  BY SMT
<1> HIDE DEF d, r
<1>3. b * d \in Nat /\ (d = 0 => b * d = 0)
  BY <1>1
<1>4. r <= a /\ (a >= b => d # 0)
  BY <1>1, <1>2, <1>3
<1>5. a \div b \in Nat /\ a % b \in 0..(b - 1)
  BY <1>1 DEF d, r
<1>6. a % b <= a
  BY <1>4 DEF r
<1>7. a >= b => a \div b # 0
  BY <1>4 DEF d
<1> QED
  BY <1>5, <1>6, <1>7

(* The fields of a state.                                                          *)
LEMMA Fields ==
    ASSUME NEW st \in Sound
    PROVE  /\ st.slot \in Nat /\ st.finalized_epoch \in Nat
           /\ st.validators \in Seq(Validator) /\ st.balances \in Seq(Nat)
           /\ st.balances \in Seq(Int)
           /\ Len(st.balances) = Len(st.validators) /\ Len(st.validators) \in Nat
           /\ DOMAIN st.validators = 1..Len(st.validators)
           /\ st.pending_deposits \in Seq(PendingDeposit)
           /\ st.deposit_balance_to_consume \in Nat
           /\ st.pending_partial_withdrawals \in Seq(PendingPartialWithdrawal)
           /\ st.pending_consolidations \in Seq(PendingConsolidation)
           /\ st.exits \in ChurnQueue /\ Backlog(st.exits)
           /\ st.consolidations \in ChurnQueue /\ Backlog(st.consolidations)
           /\ st.slashings \in [0..EPOCHS_PER_SLASHINGS_VECTOR - 1 -> Nat]
           /\ st.next_withdrawal_validator_index \in 1..Len(st.validators)
           /\ st.net \in Int
<1>1. st \in BeaconState /\ IndicesExist(st) /\ Backlog(st.exits) /\ Backlog(st.consolidations)
  BY DEF Sound
<1>2. /\ st.validators \in Seq(Validator) /\ st.balances \in Seq(Nat)
      /\ st.slot \in Nat /\ st.finalized_epoch \in Nat
      /\ st.pending_deposits \in Seq(PendingDeposit)
      /\ st.deposit_balance_to_consume \in Nat
      /\ st.pending_partial_withdrawals \in Seq(PendingPartialWithdrawal)
      /\ st.pending_consolidations \in Seq(PendingConsolidation)
      /\ st.exits \in ChurnQueue /\ st.consolidations \in ChurnQueue
      /\ st.slashings \in [0..EPOCHS_PER_SLASHINGS_VECTOR - 1 -> Nat]
      /\ st.net \in Int
  BY <1>1 DEF BeaconState
<1>3. DOMAIN st.validators = 1..Len(st.validators) /\ Len(st.validators) \in Nat
  BY <1>2
<1>4. st.balances \in Seq(Int)
  BY <1>2
<1> QED
  BY <1>1, <1>2, <1>3, <1>4 DEF IndicesExist

(* Two steps that leave the queues alone. *)
LEMMA AlikeTransitive ==
    ASSUME NEW st \in Sound, NEW r \in Alike(st), NEW s \in Alike(r)
    PROVE  s \in Alike(st)
<1>1. r \in Sound /\ s \in Sound
  BY DEF Alike
<1>2. Len(st.validators) \in Nat /\ Len(r.validators) \in Nat /\ Len(s.validators) \in Nat
  BY <1>1, Fields
<1> QED
  BY <1>2 DEF Alike

(* Two steps that conserve the gwei. *)
LEMMA ConservingTransitive ==
    ASSUME NEW st \in Sound, NEW r \in Conserving(st), NEW s \in Conserving(r)
    PROVE  s \in Conserving(st)
<1>1. r \in Alike(st) /\ s \in Alike(r) /\ Wealth(s) = Wealth(st)
  BY DEF Conserving
<1>2. s \in Alike(st)
  BY <1>1, AlikeTransitive
<1> QED
  BY <1>1, <1>2 DEF Conserving

(* A step that changes nothing. *)
LEMMA ConservingItself ==
    ASSUME NEW st \in Sound
    PROVE  st \in Conserving(st) /\ st \in Alike(st)
<1>1. Len(st.validators) \in Nat
  BY Fields
<1> QED
  BY <1>1 DEF Alike, Conserving

(* The fields of one validator. *)
LEMMA FieldsOfOne ==
    ASSUME NEW st \in Sound, NEW i \in Indices(st)
    PROVE  /\ i \in 1..Len(st.validators) /\ i \in 1..Len(st.balances) /\ i \in Nat
           /\ st.validators[i] \in Validator /\ st.balances[i] \in Nat
           /\ st.validators[i].effective_balance \in Nat
           /\ st.validators[i].exit_epoch \in Nat
           /\ st.validators[i].withdrawable_epoch \in Nat
           /\ st.validators[i].activation_epoch \in Nat
           /\ st.validators[i].activation_eligibility_epoch \in Nat
           /\ st.validators[i].pubkey \in PubKeys
           /\ st.validators[i].compounding \in BOOLEAN
           /\ get_current_epoch(st) \in Nat
<1>1. /\ st.validators \in Seq(Validator) /\ st.balances \in Seq(Nat) /\ st.slot \in Nat
      /\ Len(st.balances) = Len(st.validators) /\ Len(st.validators) \in Nat
      /\ DOMAIN st.validators = 1..Len(st.validators)
  BY Fields
<1>2. i \in 1..Len(st.validators) /\ i \in 1..Len(st.balances) /\ i \in Nat
  BY <1>1 DEF Indices
<1>3. st.validators[i] \in Validator /\ st.balances[i] \in Nat
  BY <1>1, <1>2
<1>4. get_current_epoch(st) \in Nat
  <2>1. st.slot \div SLOTS_PER_EPOCH \in Nat
    BY <1>1, Constants, Division
  <2> QED
    BY <2>1 DEF get_current_epoch
<1> QED
  BY <1>2, <1>3, <1>4 DEF Validator

(* The gwei of a state are numbers. *)
LEMMA WealthIsInt ==
    ASSUME NEW st \in Sound
    PROVE  /\ Total(st.balances) \in Nat /\ Total(Amounts(st.pending_deposits)) \in Nat
           /\ st.net \in Int /\ Wealth(st) \in Int
<1>1. st.balances \in Seq(Nat) /\ st.pending_deposits \in Seq(PendingDeposit) /\ st.net \in Int
  BY Fields
<1>2. \A d \in PendingDeposit : d.amount \in Nat
  BY DEF PendingDeposit
<1>3. Amounts(st.pending_deposits) \in Seq(Nat)
  <2> HIDE DEF PendingDeposit
  <2> QED
    BY <1>1, <1>2, AmountsOf
<1>4. Total(st.balances) \in Nat /\ Total(Amounts(st.pending_deposits)) \in Nat
  BY <1>1, <1>3, TotalType
<1> QED
  BY <1>1, <1>4 DEF Wealth

(* Each part of a state changed on its own.                                        *)
LEMMA ValidatorsChange ==
    ASSUME NEW st \in Sound, NEW vs \in Seq(Validator), Len(vs) = Len(st.validators)
    PROVE  [st EXCEPT !.validators = vs] \in Conserving(st)
<1> DEFINE r == [st EXCEPT !.validators = vs]
<1>1. st \in BeaconState /\ IndicesExist(st) /\ Backlog(st.exits) /\ Backlog(st.consolidations)
  BY DEF Sound
<1>2. /\ r \in BeaconState /\ r.validators = vs /\ r.balances = st.balances
      /\ r.pending_deposits = st.pending_deposits /\ r.net = st.net
      /\ r.pending_partial_withdrawals = st.pending_partial_withdrawals
      /\ r.pending_consolidations = st.pending_consolidations
      /\ r.exits = st.exits /\ r.consolidations = st.consolidations
      /\ r.next_withdrawal_validator_index = st.next_withdrawal_validator_index
  BY <1>1 DEF BeaconState
<1>3. DOMAIN vs = DOMAIN st.validators /\ Len(vs) \in Nat
  <2>1. st.validators \in Seq(Validator)
    BY <1>1 DEF BeaconState
  <2> QED
    BY <2>1
<1> HIDE DEF r
<1>4. IndicesExist(r)
  BY <1>1, <1>2, <1>3 DEF IndicesExist
<1>5. Wealth(r) = Wealth(st)
  BY <1>2 DEF Wealth
<1>6. r \in Sound
  BY <1>1, <1>2, <1>4 DEF Sound
<1>7. r \in Alike(st)
  BY <1>2, <1>3, <1>6 DEF Alike
<1> QED
  BY <1>5, <1>7 DEF Conserving, r

(* Another record of one validator. *)
LEMMA ValidatorChanges ==
    ASSUME NEW st \in Sound, NEW i \in Indices(st), NEW v \in Validator
    PROVE  [st EXCEPT !.validators[i] = v] \in Conserving(st)
<1> DEFINE vs == [st.validators EXCEPT ![i] = v]
<1>1. st.validators \in Seq(Validator) /\ i \in 1..Len(st.validators)
  BY Fields, FieldsOfOne
<1>2. vs \in Seq(Validator) /\ Len(vs) = Len(st.validators)
  BY <1>1
<1>3. [st EXCEPT !.validators[i] = v] = [st EXCEPT !.validators = vs]
  OBVIOUS
<1> HIDE DEF vs
<1>4. [st EXCEPT !.validators = vs] \in Conserving(st)
  BY <1>2, ValidatorsChange
<1> QED
  BY <1>3, <1>4

(* Other balances: the gwei change by the difference. *)
LEMMA BalancesChange ==
    ASSUME NEW st \in Sound, NEW bs \in Seq(Nat), Len(bs) = Len(st.balances), NEW net \in Int
    PROVE  LET r == [st EXCEPT !.balances = bs, !.net = net]
           IN r \in Alike(st) /\ Wealth(r) = Wealth(st) + Total(bs) - Total(st.balances) + net - st.net
<1> DEFINE r == [st EXCEPT !.balances = bs, !.net = net]
<1>1. st \in BeaconState /\ IndicesExist(st) /\ Backlog(st.exits) /\ Backlog(st.consolidations)
  BY DEF Sound
<1>2. /\ r \in BeaconState /\ r.validators = st.validators /\ r.balances = bs
      /\ r.pending_deposits = st.pending_deposits /\ r.net = net
      /\ r.pending_partial_withdrawals = st.pending_partial_withdrawals
      /\ r.pending_consolidations = st.pending_consolidations
      /\ r.exits = st.exits /\ r.consolidations = st.consolidations
      /\ r.next_withdrawal_validator_index = st.next_withdrawal_validator_index
  BY <1>1 DEF BeaconState
<1>3. Len(st.validators) \in Nat
  BY Fields
<1> HIDE DEF r
<1>4. IndicesExist(r)
  BY <1>1, <1>2 DEF IndicesExist
<1>5. /\ Total(bs) \in Nat /\ Total(st.balances) \in Nat
      /\ Total(Amounts(st.pending_deposits)) \in Nat /\ st.net \in Int
  BY WealthIsInt, TotalType
<1>6. Wealth(r) = Wealth(st) + Total(bs) - Total(st.balances) + net - st.net
  BY <1>2, <1>5 DEF Wealth
<1>7. r \in Sound
  BY <1>1, <1>2, <1>4 DEF Sound
<1>8. r \in Alike(st)
  BY <1>2, <1>3, <1>7 DEF Alike
<1> QED
  BY <1>6, <1>8 DEF r

(* Another queue of exits, with a backlog that fits. *)
LEMMA ExitsChange ==
    ASSUME NEW st \in Sound, NEW q \in ChurnQueue, Backlog(q)
    PROVE  [st EXCEPT !.exits = q] \in Conserving(st)
<1> DEFINE r == [st EXCEPT !.exits = q]
<1>1. st \in BeaconState /\ IndicesExist(st) /\ Backlog(st.exits) /\ Backlog(st.consolidations)
  BY DEF Sound
<1>2. /\ r \in BeaconState /\ r.validators = st.validators /\ r.balances = st.balances
      /\ r.pending_deposits = st.pending_deposits /\ r.net = st.net
      /\ r.pending_partial_withdrawals = st.pending_partial_withdrawals
      /\ r.pending_consolidations = st.pending_consolidations
      /\ r.exits = q /\ r.consolidations = st.consolidations
      /\ r.next_withdrawal_validator_index = st.next_withdrawal_validator_index
  BY <1>1 DEF BeaconState
<1>3. Len(st.validators) \in Nat
  BY Fields
<1> HIDE DEF r
<1>4. IndicesExist(r) /\ Wealth(r) = Wealth(st)
  BY <1>1, <1>2 DEF IndicesExist, Wealth
<1>5. r \in Sound
  BY <1>1, <1>2, <1>4 DEF Sound
<1>6. r \in Alike(st)
  BY <1>2, <1>3, <1>5 DEF Alike
<1> QED
  BY <1>4, <1>6 DEF r, Conserving

(* Another queue of consolidations, with a backlog that fits. *)
LEMMA ConsolidationsChange ==
    ASSUME NEW st \in Sound, NEW q \in ChurnQueue, Backlog(q)
    PROVE  [st EXCEPT !.consolidations = q] \in Conserving(st)
<1> DEFINE r == [st EXCEPT !.consolidations = q]
<1>1. st \in BeaconState /\ IndicesExist(st) /\ Backlog(st.exits) /\ Backlog(st.consolidations)
  BY DEF Sound
<1>2. /\ r \in BeaconState /\ r.validators = st.validators /\ r.balances = st.balances
      /\ r.pending_deposits = st.pending_deposits /\ r.net = st.net
      /\ r.pending_partial_withdrawals = st.pending_partial_withdrawals
      /\ r.pending_consolidations = st.pending_consolidations
      /\ r.exits = st.exits /\ r.consolidations = q
      /\ r.next_withdrawal_validator_index = st.next_withdrawal_validator_index
  BY <1>1 DEF BeaconState
<1>3. Len(st.validators) \in Nat
  BY Fields
<1> HIDE DEF r
<1>4. IndicesExist(r) /\ Wealth(r) = Wealth(st)
  BY <1>1, <1>2 DEF IndicesExist, Wealth
<1>5. r \in Sound
  BY <1>1, <1>2, <1>4 DEF Sound
<1>6. r \in Alike(st)
  BY <1>2, <1>3, <1>5 DEF Alike
<1> QED
  BY <1>4, <1>6 DEF r, Conserving

(* Another slot, finalized epoch or vector of slashings. *)
LEMMA NumbersChange ==
    ASSUME NEW st \in Sound, NEW slot \in Nat, NEW finalized \in Nat,
           NEW slashings \in [0..EPOCHS_PER_SLASHINGS_VECTOR - 1 -> Nat]
    PROVE  /\ [st EXCEPT !.slot = slot] \in Conserving(st)
           /\ [st EXCEPT !.finalized_epoch = finalized] \in Conserving(st)
           /\ [st EXCEPT !.slashings = slashings] \in Conserving(st)
<1> DEFINE S == {[st EXCEPT !.slot = slot], [st EXCEPT !.finalized_epoch = finalized],
                 [st EXCEPT !.slashings = slashings]}
<1>1. st \in BeaconState /\ IndicesExist(st) /\ Backlog(st.exits) /\ Backlog(st.consolidations)
  BY DEF Sound
<1>2. Len(st.validators) \in Nat
  BY Fields
<1>3. ASSUME NEW r \in S PROVE r \in Conserving(st)
  <2>1. /\ r \in BeaconState /\ r.validators = st.validators /\ r.balances = st.balances
        /\ r.pending_deposits = st.pending_deposits /\ r.net = st.net
        /\ r.pending_partial_withdrawals = st.pending_partial_withdrawals
        /\ r.pending_consolidations = st.pending_consolidations
        /\ r.exits = st.exits /\ r.consolidations = st.consolidations
        /\ r.next_withdrawal_validator_index = st.next_withdrawal_validator_index
    <3>1. CASE r = [st EXCEPT !.slot = slot]
      BY <1>1, <3>1 DEF BeaconState
    <3>2. CASE r = [st EXCEPT !.finalized_epoch = finalized]
      BY <1>1, <3>2 DEF BeaconState
    <3>3. CASE r = [st EXCEPT !.slashings = slashings]
      BY <1>1, <3>3 DEF BeaconState
    <3> QED
      BY <3>1, <3>2, <3>3
  <2>2. IndicesExist(r) /\ Wealth(r) = Wealth(st)
    BY <1>1, <2>1 DEF IndicesExist, Wealth
  <2>3. r \in Sound
    BY <1>1, <2>1, <2>2 DEF Sound
  <2>4. r \in Alike(st)
    BY <1>2, <2>1, <2>3 DEF Alike
  <2> QED
    BY <2>2, <2>4 DEF Conserving
<1> QED
  BY <1>3

--------------------------------------------------------------------------------
(* Balances *)

(* increase_balance adds what it says. *)
LEMMA IncreaseBalance ==
    ASSUME NEW st \in Sound, NEW i \in Indices(st), NEW delta \in Nat
    PROVE  /\ increase_balance(st, i, delta) \in Alike(st)
           /\ Wealth(increase_balance(st, i, delta)) = Wealth(st) + delta
<1> DEFINE bs == [st.balances EXCEPT ![i] = st.balances[i] + delta]
<1>1. st.balances \in Seq(Nat) /\ st.balances \in Seq(Int) /\ st.net \in Int
  BY Fields
<1>2. i \in 1..Len(st.balances) /\ st.balances[i] \in Nat
  BY FieldsOfOne
<1>3. bs \in Seq(Nat) /\ Len(bs) = Len(st.balances)
  BY <1>1, <1>2
<1>4. Total(bs) = Total(st.balances) - st.balances[i] + (st.balances[i] + delta)
  BY <1>1, <1>2, TotalUpdate
<1>5. increase_balance(st, i, delta) = [st EXCEPT !.balances = bs, !.net = st.net]
  <2>1. st \in BeaconState
    BY DEF Sound
  <2>2. increase_balance(st, i, delta) = [st EXCEPT !.balances = bs]
    BY DEF increase_balance
  <2>3. [st EXCEPT !.balances = bs] = [st EXCEPT !.balances = bs, !.net = st.net]
    <3> HIDE DEF bs
    <3> QED
      BY <2>1 DEF BeaconState
  <2> QED
    BY <2>2, <2>3
<1> HIDE DEF bs
<1>6. LET r == [st EXCEPT !.balances = bs, !.net = st.net]
      IN r \in Alike(st) /\ Wealth(r) = Wealth(st) + Total(bs) - Total(st.balances) + st.net - st.net
  BY <1>1, <1>3, BalancesChange
<1>7. Total(st.balances) \in Nat /\ Wealth(st) \in Int
  BY WealthIsInt
<1>8. Wealth(st) + Total(bs) - Total(st.balances) + st.net - st.net = Wealth(st) + delta
  BY <1>1, <1>2, <1>4, <1>7
<1> QED
  BY <1>5, <1>6, <1>8

(* A subtraction that stops at 0. *)
LEMMA Loss ==
    ASSUME NEW balance \in Nat, NEW delta \in Nat
    PROVE  /\ Greater(balance - delta, 0) \in Nat /\ Lesser(delta, balance) \in Nat
           /\ Greater(balance - delta, 0) = balance - Lesser(delta, balance)
  BY DEF Greater, Lesser

(* decrease_balance takes what it says or what is there, and Penalized counts it. *)
LEMMA DecreaseBalance ==
    ASSUME NEW st \in Sound, NEW i \in Indices(st), NEW delta \in Nat
    PROVE  /\ decrease_balance(st, i, delta) \in Alike(st)
           /\ Wealth(decrease_balance(st, i, delta)) = Wealth(st) - Lesser(delta, st.balances[i])
           /\ Penalized(st, i, delta) \in Conserving(st)
<1> DEFINE b == st.balances[i]
           bs == [st.balances EXCEPT ![i] = Greater(st.balances[i] - delta, 0)]
           lost == Lesser(delta, st.balances[i])
<1>1. st.balances \in Seq(Nat) /\ st.balances \in Seq(Int) /\ st.net \in Int
  BY Fields
<1>2. i \in 1..Len(st.balances) /\ st.balances[i] \in Nat
  BY FieldsOfOne
<1>3. Greater(st.balances[i] - delta, 0) \in Nat /\ lost \in Nat
      /\ Greater(st.balances[i] - delta, 0) = st.balances[i] - lost
  BY <1>2, Loss
<1>4. bs \in Seq(Nat) /\ Len(bs) = Len(st.balances)
  BY <1>1, <1>2, <1>3
<1>5. Total(bs) = Total(st.balances) - st.balances[i] + Greater(st.balances[i] - delta, 0)
  BY <1>1, <1>2, <1>3, TotalUpdate
<1>6. /\ decrease_balance(st, i, delta) = [st EXCEPT !.balances = bs, !.net = st.net]
      /\ Penalized(st, i, delta) = [st EXCEPT !.balances = bs, !.net = st.net + lost]
  <2>1. st \in BeaconState
    BY DEF Sound
  <2>2. decrease_balance(st, i, delta) = [st EXCEPT !.balances = bs]
    BY DEF decrease_balance
  <2>3. [st EXCEPT !.balances = bs] = [st EXCEPT !.balances = bs, !.net = st.net]
    <3> HIDE DEF bs
    <3> QED
      BY <2>1 DEF BeaconState
  <2>4. Penalized(st, i, delta) = [[st EXCEPT !.balances = bs] EXCEPT !.net = @ + lost]
    BY <2>2 DEF Penalized
  <2>5. [[st EXCEPT !.balances = bs] EXCEPT !.net = @ + lost]
          = [st EXCEPT !.balances = bs, !.net = st.net + lost]
    <3> HIDE DEF bs, lost
    <3> QED
      BY <2>1 DEF BeaconState
  <2> QED
    BY <2>2, <2>3, <2>4, <2>5
<1> HIDE DEF bs, lost
<1>7. ASSUME NEW net \in Int
      PROVE  LET r == [st EXCEPT !.balances = bs, !.net = net]
             IN r \in Alike(st)
                /\ Wealth(r) = Wealth(st) + Total(bs) - Total(st.balances) + net - st.net
  BY <1>4, BalancesChange
<1>8. Total(st.balances) \in Nat /\ Wealth(st) \in Int
  BY WealthIsInt
<1>9. Total(bs) = Total(st.balances) - lost
  BY <1>2, <1>3, <1>5, <1>8
<1>10. st.net + lost \in Int
  BY <1>1, <1>3
<1>11. decrease_balance(st, i, delta) \in Alike(st)
       /\ Wealth(decrease_balance(st, i, delta)) = Wealth(st) - lost
  <2>1. Wealth(st) + Total(bs) - Total(st.balances) + st.net - st.net = Wealth(st) - lost
    BY <1>1, <1>3, <1>8, <1>9
  <2> QED
    BY <1>1, <1>6, <1>7, <2>1
<1>12. Penalized(st, i, delta) \in Alike(st) /\ Wealth(Penalized(st, i, delta)) = Wealth(st)
  <2>1. Wealth(st) + Total(bs) - Total(st.balances) + (st.net + lost) - st.net = Wealth(st)
    <3> DEFINE x == Wealth(st)
               t == Total(st.balances)
               u == Total(bs)
               net == st.net
    <3>1. u = t - lost /\ x \in Int /\ t \in Nat /\ lost \in Nat /\ net \in Int
      BY <1>1, <1>3, <1>8, <1>9
    <3> HIDE DEF x, t, u, net
    <3>2. x + u - t + (net + lost) - net = x
      BY <3>1
    <3> QED
      BY <3>2 DEF x, t, u, net
  <2>2. LET r == [st EXCEPT !.balances = bs, !.net = st.net + lost]
        IN r \in Alike(st)
           /\ Wealth(r) = Wealth(st) + Total(bs) - Total(st.balances) + (st.net + lost) - st.net
    BY <1>7, <1>10
  <2> QED
    BY <1>6, <2>1, <2>2
<1> QED
  BY <1>11, <1>12 DEF lost, Conserving

--------------------------------------------------------------------------------
(* Churn *)

(* The limits: an exit may always be booked, a consolidation only where its churn is *)
(* positive.                                                                         *)
LEMMA Limits ==
    ASSUME NEW st \in Sound
    PROVE  /\ get_total_active_balance(st) \in Nat
           /\ get_total_active_balance(st) >= EFFECTIVE_BALANCE_INCREMENT
           /\ get_activation_exit_churn_limit(st) \in Nat \ {0}
           /\ get_consolidation_churn_limit(st) \in Nat
<1> DEFINE n == Len(st.validators)
           active == [i \in 1..n |-> IF is_active_validator(st.validators[i], get_current_epoch(st))
                                       THEN st.validators[i].effective_balance ELSE 0]
           total == get_total_active_balance(st)
<1>1. n \in Nat /\ Indices(st) = 1..n
  BY Fields DEF Indices
<1>2. \A i \in 1..n : active[i] \in Nat
  <2> SUFFICES ASSUME NEW i \in 1..n PROVE active[i] \in Nat
    OBVIOUS
  <2>1. st.validators[i].effective_balance \in Nat
    BY <1>1, FieldsOfOne
  <2> QED
    BY <2>1
<1>3. active \in Seq(Nat)
  <2>1. active = [i \in 1..n |-> active[i]]
    OBVIOUS
  <2> HIDE DEF active
  <2> QED
    BY <1>1, <1>2, <2>1
<1>4. total = Greater(EFFECTIVE_BALANCE_INCREMENT, Total(active))
  BY <1>1 DEF get_total_active_balance
<1>5. Total(active) \in Nat
  <2> HIDE DEF active
  <2> QED
    BY <1>3, TotalType
<1> HIDE DEF active
<1>6. total \in Nat /\ total >= EFFECTIVE_BALANCE_INCREMENT
  BY <1>4, <1>5, Constants DEF Greater
<1> HIDE DEF total
<1> DEFINE d == total \div CHURN_LIMIT_QUOTIENT
           churn == Greater(MIN_PER_EPOCH_CHURN_LIMIT_ELECTRA, d)
           limit == churn - (churn % EFFECTIVE_BALANCE_INCREMENT)
<1>7. d \in Nat
  BY <1>6, Constants, Division
<1> HIDE DEF d
<1>8. churn \in Nat /\ churn >= EFFECTIVE_BALANCE_INCREMENT
  BY <1>7, Constants DEF Greater
<1>9. get_balance_churn_limit(st) = limit
  BY DEF get_balance_churn_limit, total, d
<1> HIDE DEF churn
<1>10. churn % EFFECTIVE_BALANCE_INCREMENT \in 0..(EFFECTIVE_BALANCE_INCREMENT - 1)
  BY <1>8, Constants, Division
<1> DEFINE m == churn % EFFECTIVE_BALANCE_INCREMENT
<1>11. limit = churn - m /\ m \in 0..(EFFECTIVE_BALANCE_INCREMENT - 1)
  BY <1>10
<1> HIDE DEF m, limit
<1>12. limit \in Nat \ {0}
  BY <1>8, <1>11, Constants
<1>13. get_activation_exit_churn_limit(st) = Lesser(MAX_PER_EPOCH_ACTIVATION_EXIT_CHURN_LIMIT, limit)
       /\ get_consolidation_churn_limit(st) = limit - get_activation_exit_churn_limit(st)
  BY <1>9 DEF get_activation_exit_churn_limit, get_consolidation_churn_limit
<1>14. get_activation_exit_churn_limit(st) \in Nat \ {0} /\ get_activation_exit_churn_limit(st) <= limit
  BY <1>12, <1>13, Constants DEF Lesser
<1>15. get_consolidation_churn_limit(st) \in Nat
  BY <1>12, <1>13, <1>14
<1> QED
  BY <1>6, <1>14, <1>15 DEF total

(* Epochs are numbers. *)
LEMMA ExitEpoch ==
    ASSUME NEW st \in Sound
    PROVE  /\ get_current_epoch(st) \in Nat
           /\ compute_activation_exit_epoch(get_current_epoch(st)) \in Nat
<1>1. st.slot \in Nat
  BY Fields
<1>2. st.slot \div SLOTS_PER_EPOCH \in Nat
  BY <1>1, Constants, Division
<1>3. get_current_epoch(st) \in Nat
  BY <1>2 DEF get_current_epoch
<1> QED
  BY <1>3, Constants DEF compute_activation_exit_epoch

(* Booking an exit conserves the gwei and the backlog. *)
LEMMA BookExitKeeps ==
    ASSUME NEW st \in Sound, NEW amount \in Nat
    PROVE  /\ BookExit(st, amount) \in Conserving(st)
           /\ BookExit(st, amount).exits.earliest \in Nat
           /\ BookExit(st, amount).validators = st.validators
<1> DEFINE now == compute_activation_exit_epoch(get_current_epoch(st))
           churn == get_activation_exit_churn_limit(st)
           q == Booked(st.exits, now, churn, amount)
<1>1. st.exits \in ChurnQueue /\ Backlog(st.exits)
  BY Fields
<1>2. now \in Nat /\ churn \in Nat \ {0}
  BY ExitEpoch, Limits
<1>3. BookExit(st, amount) = [st EXCEPT !.exits = q]
  BY DEF BookExit
<1> HIDE DEF now, churn
<1>4. q \in ChurnQueue /\ Backlog(q)
  BY <1>1, <1>2, BookingKeeps
<1> HIDE DEF q
<1>5. [st EXCEPT !.exits = q] \in Conserving(st)
  BY <1>4, ExitsChange
<1>6. q.earliest \in Nat
  BY <1>4 DEF ChurnQueue
<1>7. st \in BeaconState
  BY DEF Sound
<1>8. [st EXCEPT !.exits = q].exits = q /\ [st EXCEPT !.exits = q].validators = st.validators
  BY <1>7 DEF BeaconState
<1> QED
  BY <1>3, <1>5, <1>6, <1>8

(* Booking a consolidation does, where its churn is positive. *)
LEMMA BookConsolidationKeeps ==
    ASSUME NEW st \in Sound, NEW amount \in Nat, get_consolidation_churn_limit(st) # 0
    PROVE  /\ BookConsolidation(st, amount) \in Conserving(st)
           /\ BookConsolidation(st, amount).consolidations.earliest \in Nat
           /\ BookConsolidation(st, amount).validators = st.validators
<1> DEFINE now == compute_activation_exit_epoch(get_current_epoch(st))
           churn == get_consolidation_churn_limit(st)
           q == Booked(st.consolidations, now, churn, amount)
<1>1. st.consolidations \in ChurnQueue /\ Backlog(st.consolidations)
  BY Fields
<1>2. now \in Nat /\ churn \in Nat \ {0}
  BY ExitEpoch, Limits
<1>3. BookConsolidation(st, amount) = [st EXCEPT !.consolidations = q]
  BY DEF BookConsolidation
<1> HIDE DEF now, churn
<1>4. q \in ChurnQueue /\ Backlog(q)
  BY <1>1, <1>2, BookingKeeps
<1> HIDE DEF q
<1>5. [st EXCEPT !.consolidations = q] \in Conserving(st)
  BY <1>4, ConsolidationsChange
<1>6. q.earliest \in Nat
  BY <1>4 DEF ChurnQueue
<1>7. st \in BeaconState
  BY DEF Sound
<1>8. /\ [st EXCEPT !.consolidations = q].consolidations = q
      /\ [st EXCEPT !.consolidations = q].validators = st.validators
  BY <1>7 DEF BeaconState
<1> QED
  BY <1>3, <1>5, <1>6, <1>8

--------------------------------------------------------------------------------
(* Exits and slashings *)

(* Setting the epochs of an exit. *)
LEMMA LeavesKeeps ==
    ASSUME NEW st \in Sound, NEW i \in Indices(st), NEW epoch \in Nat
    PROVE  Leaves(st, i, epoch) \in Conserving(st)
<1> DEFINE later == epoch + MIN_VALIDATOR_WITHDRAWABILITY_DELAY
           v == [st.validators[i] EXCEPT !.exit_epoch = epoch, !.withdrawable_epoch = later]
<1>1. st.validators[i] \in Validator /\ later \in Nat
  BY FieldsOfOne, Constants
<1>2. v \in Validator
  BY <1>1 DEF Validator
<1>3. Leaves(st, i, epoch) = [st EXCEPT !.validators[i] = v]
  <2>1. st \in BeaconState /\ i \in DOMAIN st.validators
    BY DEF Sound, Indices
  <2>2. Leaves(st, i, epoch) = [[st EXCEPT !.validators[i] = [@ EXCEPT !.exit_epoch = epoch]]
                                  EXCEPT !.validators[i] = [@ EXCEPT !.withdrawable_epoch = later]]
    BY DEF Leaves
  <2>3. [[st EXCEPT !.validators[i] = [@ EXCEPT !.exit_epoch = epoch]]
           EXCEPT !.validators[i] = [@ EXCEPT !.withdrawable_epoch = later]]
          = [st EXCEPT !.validators[i] = v]
    <3> HIDE DEF later
    <3> QED
      BY <2>1 DEF BeaconState
  <2> QED
    BY <2>2, <2>3
<1> HIDE DEF v
<1>4. [st EXCEPT !.validators[i] = v] \in Conserving(st)
  BY <1>2, ValidatorChanges
<1> QED
  BY <1>3, <1>4

(* An index stays one. *)
LEMMA SameIndices ==
    ASSUME NEW st \in Sound, NEW r \in Alike(st), NEW i \in Indices(st)
    PROVE  i \in Indices(r) /\ r \in Sound
<1>1. r \in Sound /\ Len(r.validators) >= Len(st.validators)
  BY DEF Alike
<1>2. /\ Indices(st) = 1..Len(st.validators) /\ Len(st.validators) \in Nat
      /\ Indices(r) = 1..Len(r.validators) /\ Len(r.validators) \in Nat
  BY <1>1, Fields DEF Indices
<1> QED
  BY <1>1, <1>2

(* initiate_validator_exit conserves the gwei and the backlog. *)
LEMMA InitiateExit ==
    ASSUME NEW st \in Sound, NEW i \in Indices(st)
    PROVE  initiate_validator_exit(st, i) \in Conserving(st)
<1> DEFINE amount == st.validators[i].effective_balance
           booked == BookExit(st, amount)
<1>1. amount \in Nat
  BY FieldsOfOne
<1> HIDE DEF amount
<1>2. booked \in Conserving(st) /\ booked.exits.earliest \in Nat
  BY <1>1, BookExitKeeps
<1>3. initiate_validator_exit(st, i) =
        IF st.validators[i].exit_epoch # FAR_FUTURE_EPOCH THEN st
        ELSE Leaves(booked, i, booked.exits.earliest)
  BY DEF initiate_validator_exit, amount
<1> HIDE DEF booked
<1>4. booked \in Alike(st)
  BY <1>2 DEF Conserving
<1>5. i \in Indices(booked) /\ booked \in Sound
  BY <1>4, SameIndices
<1>6. Leaves(booked, i, booked.exits.earliest) \in Conserving(booked)
  BY <1>2, <1>5, LeavesKeeps
<1>7. Leaves(booked, i, booked.exits.earliest) \in Conserving(st)
  BY <1>2, <1>6, ConservingTransitive
<1>8. st \in Conserving(st)
  BY ConservingItself
<1> QED
  BY <1>3, <1>7, <1>8

(* slash_validator does, its penalty counted. *)
LEMMA Slash ==
    ASSUME NEW st \in Sound, NEW i \in Indices(st)
    PROVE  slash_validator(st, i) \in Conserving(st)
<1> DEFINE epoch == get_current_epoch(st)
           exited == initiate_validator_exit(st, i)
           effective == st.validators[i].effective_balance
           until == epoch + EPOCHS_PER_SLASHINGS_VECTOR
           k == epoch % EPOCHS_PER_SLASHINGS_VECTOR
           v == [exited.validators[i] EXCEPT !.slashed = TRUE,
                                             !.withdrawable_epoch = Greater(@, until)]
           marked == [exited EXCEPT !.validators[i] = v]
           sl == [marked.slashings EXCEPT ![k] = marked.slashings[k] + effective]
           noted == [marked EXCEPT !.slashings = sl]
           penalty == effective \div MIN_SLASHING_PENALTY_QUOTIENT_ELECTRA
<1>1. exited \in Conserving(st)
  BY InitiateExit
<1>2. epoch \in Nat /\ effective \in Nat
  BY FieldsOfOne, ExitEpoch
<1>3. exited \in Sound /\ i \in Indices(exited)
  <2> HIDE DEF exited
  <2>1. exited \in Alike(st)
    BY <1>1 DEF Conserving
  <2> QED
    BY <2>1, SameIndices
<1>4. slash_validator(st, i) = Penalized(noted, i, penalty)
  <2>1. exited \in BeaconState /\ i \in DOMAIN exited.validators
    BY <1>3 DEF Sound, Indices
  <2> DEFINE whole == [exited EXCEPT
          !.validators[i].slashed = TRUE,
          !.validators[i].withdrawable_epoch = Greater(@, until),
          !.slashings[k] = @ + effective]
  <2>2. slash_validator(st, i) = Penalized(whole, i, penalty)
    BY DEF slash_validator
  <2>3. whole = noted
    <3> HIDE DEF exited, until, k, effective
    <3> DEFINE m1 == [exited EXCEPT !.validators[i].slashed = TRUE]
               w == [exited.validators[i] EXCEPT !.slashed = TRUE]
               m2 == [m1 EXCEPT !.validators[i].withdrawable_epoch = Greater(@, until)]
    <3>1. whole = [m2 EXCEPT !.slashings[k] = @ + effective]
      OBVIOUS
    <3>2. m2 = marked
      <4>1. m1 = [exited EXCEPT !.validators[i] = w]
        OBVIOUS
      <4>2. m1.validators[i] = w
        BY <2>1, <4>1 DEF BeaconState
      <4>3. m2 = [m1 EXCEPT !.validators[i] =
                    [@ EXCEPT !.withdrawable_epoch = Greater(m1.validators[i].withdrawable_epoch, until)]]
        <5> HIDE DEF m1
        <5> QED
          OBVIOUS
      <4>4. w.withdrawable_epoch = exited.validators[i].withdrawable_epoch
        <5>1. exited.validators[i] \in Validator
          BY <1>3, FieldsOfOne
        <5> QED
          BY <5>1 DEF Validator
      <4>5. [w EXCEPT !.withdrawable_epoch = Greater(exited.validators[i].withdrawable_epoch, until)] = v
        BY <4>4
      <4>6. [m1 EXCEPT !.validators[i] =
                    [@ EXCEPT !.withdrawable_epoch = Greater(m1.validators[i].withdrawable_epoch, until)]]
              = [m1 EXCEPT !.validators[i] = v]
        <5> HIDE DEF m1, w, v
        <5> QED
          BY <4>2, <4>4, <4>5
      <4>7. [m1 EXCEPT !.validators[i] = v] = marked
        <5> HIDE DEF w, v
        <5> QED
          BY <2>1, <4>1 DEF BeaconState
      <4> HIDE DEF m1, m2, marked, v
      <4> QED
        BY <4>3, <4>6, <4>7
    <3> HIDE DEF v, m2, marked
    <3>3. [marked EXCEPT !.slashings[k] = @ + effective] = noted
      OBVIOUS
    <3> QED
      BY <3>1, <3>2, <3>3
  <2> QED
    BY <2>2, <2>3
<1> HIDE DEF exited, epoch, effective
<1>5. exited.validators[i] \in Validator /\ until \in Nat
  BY <1>2, <1>3, FieldsOfOne, Constants
<1>6. v \in Validator
  <2>1. exited.validators[i].withdrawable_epoch \in Nat
    BY <1>5 DEF Validator
  <2>2. Greater(exited.validators[i].withdrawable_epoch, until) \in Nat
    BY <1>5, <2>1 DEF Greater
  <2> QED
    BY <1>5, <2>2 DEF Validator
<1> HIDE DEF v
<1>7. marked \in Conserving(exited)
  BY <1>3, <1>6, ValidatorChanges
<1>8. marked \in Conserving(st)
  BY <1>1, <1>7, ConservingTransitive
<1> HIDE DEF marked
<1>9. marked \in Sound
  BY <1>8 DEF Conserving, Alike
<1>10. k \in 0..(EPOCHS_PER_SLASHINGS_VECTOR - 1)
  BY <1>2, Constants, Division
<1> HIDE DEF k
<1>11. sl \in [0..EPOCHS_PER_SLASHINGS_VECTOR - 1 -> Nat]
  <2>1. marked.slashings \in [0..EPOCHS_PER_SLASHINGS_VECTOR - 1 -> Nat]
    BY <1>9, Fields
  <2>2. k \in 0..EPOCHS_PER_SLASHINGS_VECTOR - 1
    BY <1>10
  <2>3. marked.slashings[k] + effective \in Nat
    <3>1. marked.slashings[k] \in Nat
      BY <2>1, <2>2
    <3> QED
      BY <1>2, <3>1
  <2> QED
    BY <2>1, <2>2, <2>3
<1> HIDE DEF sl
<1>12. noted \in Conserving(marked)
  <2>1. 0 \in Nat
    OBVIOUS
  <2> QED
    BY <1>9, <1>11, <2>1, NumbersChange
<1>13. noted \in Conserving(st)
  BY <1>8, <1>12, ConservingTransitive
<1> HIDE DEF noted
<1>14. noted \in Sound /\ i \in Indices(noted)
  <2>1. noted \in Alike(st)
    BY <1>13 DEF Conserving
  <2> QED
    BY <2>1, SameIndices
<1>15. penalty \in Nat
  BY <1>2, Constants, Division
<1> HIDE DEF penalty
<1>16. Penalized(noted, i, penalty) \in Conserving(noted)
  BY <1>14, <1>15, DecreaseBalance
<1>17. Penalized(noted, i, penalty) \in Conserving(st)
  BY <1>13, <1>16, ConservingTransitive
<1> QED
  BY <1>4, <1>17

(* One turn of process_registry_updates does. *)
LEMMA RegistryUpdateKeeps ==
    ASSUME NEW st \in Sound, NEW i \in Indices(st)
    PROVE  RegistryUpdate(st, i) \in Conserving(st)
<1> DEFINE v == st.validators[i]
           epoch == get_current_epoch(st)
           e1 == [st EXCEPT !.validators[i].activation_eligibility_epoch = epoch + 1]
           e2 == initiate_validator_exit(st, i)
           e3 == [st EXCEPT !.validators[i].activation_epoch = compute_activation_exit_epoch(epoch)]
<1>1. RegistryUpdate(st, i) \in {e1, e2, e3, st}
  BY DEF RegistryUpdate
<1>2. v \in Validator /\ epoch \in Nat /\ epoch + 1 \in Nat
      /\ compute_activation_exit_epoch(epoch) \in Nat
  BY FieldsOfOne, ExitEpoch
<1> HIDE DEF epoch
<1>3. e1 \in Conserving(st)
  <2> DEFINE w == [v EXCEPT !.activation_eligibility_epoch = epoch + 1]
  <2>1. w \in Validator
    BY <1>2 DEF Validator
  <2>2. e1 = [st EXCEPT !.validators[i] = w]
    OBVIOUS
  <2> HIDE DEF w
  <2> QED
    BY <2>1, <2>2, ValidatorChanges
<1>4. e3 \in Conserving(st)
  <2> DEFINE at == compute_activation_exit_epoch(epoch)
             w == [v EXCEPT !.activation_epoch = at]
  <2>1. w \in Validator
    BY <1>2 DEF Validator
  <2>2. e3 = [st EXCEPT !.validators[i] = w]
    OBVIOUS
  <2> HIDE DEF w
  <2> QED
    BY <2>1, <2>2, ValidatorChanges
<1>5. e2 \in Conserving(st) /\ st \in Conserving(st)
  BY InitiateExit, ConservingItself
<1> HIDE DEF e1, e2, e3
<1> QED
  BY <1>1, <1>3, <1>4, <1>5

RunRegistry(base, seq) == FoldLeft(RegistryUpdate, base, seq)
RegistrySteps(A, seq) == [a \in A |-> [i \in 1..Len(seq) |-> RegistryUpdate(a, seq[i])]]

(* The loop of process_registry_updates, turn by turn. *)
LEMMA FoldRegistry ==
    ASSUME NEW X, NEW seq \in Seq(X), NEW A, NEW base \in A,
           IsLoop(A, RegistrySteps(A, seq), base, Len(seq))
    PROVE  \E t : /\ t \in [0..Len(seq) -> A] /\ t[0] = base
                  /\ \A i \in 1..Len(seq) : t[i] = RegistryUpdate(t[i - 1], seq[i])
                  /\ RunRegistry(base, seq) = t[Len(seq)]
<1> DEFINE n == Len(seq)
           F == RegistrySteps(A, seq)
           IsIt(f) == f = [s \in SUBSET DOMAIN seq |-> IF s = {} THEN base ELSE RegistryUpdate(f[s \ {Max(s)}], seq[Max(s)])]
           it == CHOOSE f : IsIt(f)
<1>0. n \in Nat
  OBVIOUS
<1>1. PICK f : IsIteration(f, A, F, base, n)
  <2> HIDE DEF F, n
  <2> QED
    BY IterationExists DEF F, n
<1>2. IsIt(f)
  <2>1. ASSUME NEW s \in SUBSET (1..n), s # {} PROVE f[s] = RegistryUpdate(f[s \ {Max(s)}], seq[Max(s)])
    <3>1. Max(s) \in 1..n /\ s \ {Max(s)} \in SUBSET (1..n)
      BY <1>0, <2>1, Greatest
    <3>2. f[s] = F[f[s \ {Max(s)}]][Max(s)] /\ f[s \ {Max(s)}] \in A
      <4> HIDE DEF F
      <4> QED
        BY <1>1, <2>1, <3>1 DEF IsIteration
    <3> QED
      BY <3>1, <3>2 DEF RegistrySteps
  <2>2. DOMAIN seq = 1..n
    OBVIOUS
  <2>3. f[{}] = base /\ f = [s \in SUBSET (1..n) |-> f[s]]
    <3> HIDE DEF F
    <3> QED
      BY <1>1 DEF IsIteration
  <2> QED
    BY <2>1, <2>2, <2>3
<1>3. IsIt(it)
  <2> HIDE DEF IsIt
  <2> QED
    BY <1>2
<1>4. RunRegistry(base, seq) = it[1..n]
  <2>1. DOMAIN seq = 1..n
    OBVIOUS
  <2> QED
    BY <2>1 DEF RunRegistry, FoldLeft, MapThenFoldSet
<1> HIDE DEF it
<1>5. Iterates(it, A, F, base, n)
  <2>1. ASSUME NEW i \in 1..n, it[1..(i - 1)] \in A
        PROVE  it[1..i] = F[it[1..(i - 1)]][i]
    <3>1. /\ 1..i \in SUBSET (1..n) /\ 1..i # {} /\ Max(1..i) = i
          /\ (1..i) \ {Max(1..i)} = 1..(i - 1)
      BY <1>0, Interval
    <3>2. DOMAIN seq = 1..n
      OBVIOUS
    <3>3. it[1..i] = RegistryUpdate(it[1..(i - 1)], seq[i])
      BY <1>3, <3>1, <3>2
    <3> QED
      BY <2>1, <3>3 DEF RegistrySteps
  <2> QED
    BY <1>3, <2>1 DEF Iterates
<1> HIDE DEF IsIt, F, n
<1>6. PICK t : IsRun(t, A, F, base, n) /\ t[n] = it[1..n]
  BY <1>5, RunOfIteration DEF F, n
<1>7. t \in [0..n -> A] /\ t[0] = base /\ \A i \in 1..n : t[i] = F[t[i - 1]][i]
  BY <1>6 DEF IsRun
<1>8. ASSUME NEW i \in 1..n PROVE t[i] = RegistryUpdate(t[i - 1], seq[i])
  <2>1. t[i - 1] \in A /\ t[i] = F[t[i - 1]][i]
    <3>1. i - 1 \in 0..n
      BY <1>0
    <3> QED
      BY <1>7, <3>1
  <2> QED
    BY <2>1 DEF F, RegistrySteps, n
<1> QED
  BY <1>4, <1>6, <1>7, <1>8 DEF n

RunDeposits(base, seq) == FoldLeft(HandleDeposit, base, seq)
DepositSteps(A, seq) == [a \in A |-> [i \in 1..Len(seq) |-> HandleDeposit(a, seq[i])]]

(* The loop of process_pending_deposits, turn by turn. *)
LEMMA FoldDeposits ==
    ASSUME NEW X, NEW seq \in Seq(X), NEW A, NEW base \in A,
           IsLoop(A, DepositSteps(A, seq), base, Len(seq))
    PROVE  \E t : /\ t \in [0..Len(seq) -> A] /\ t[0] = base
                  /\ \A i \in 1..Len(seq) : t[i] = HandleDeposit(t[i - 1], seq[i])
                  /\ RunDeposits(base, seq) = t[Len(seq)]
<1> DEFINE n == Len(seq)
           F == DepositSteps(A, seq)
           IsIt(f) == f = [s \in SUBSET DOMAIN seq |-> IF s = {} THEN base ELSE HandleDeposit(f[s \ {Max(s)}], seq[Max(s)])]
           it == CHOOSE f : IsIt(f)
<1>0. n \in Nat
  OBVIOUS
<1>1. PICK f : IsIteration(f, A, F, base, n)
  <2> HIDE DEF F, n
  <2> QED
    BY IterationExists DEF F, n
<1>2. IsIt(f)
  <2>1. ASSUME NEW s \in SUBSET (1..n), s # {} PROVE f[s] = HandleDeposit(f[s \ {Max(s)}], seq[Max(s)])
    <3>1. Max(s) \in 1..n /\ s \ {Max(s)} \in SUBSET (1..n)
      BY <1>0, <2>1, Greatest
    <3>2. f[s] = F[f[s \ {Max(s)}]][Max(s)] /\ f[s \ {Max(s)}] \in A
      <4> HIDE DEF F
      <4> QED
        BY <1>1, <2>1, <3>1 DEF IsIteration
    <3> QED
      BY <3>1, <3>2 DEF DepositSteps
  <2>2. DOMAIN seq = 1..n
    OBVIOUS
  <2>3. f[{}] = base /\ f = [s \in SUBSET (1..n) |-> f[s]]
    <3> HIDE DEF F
    <3> QED
      BY <1>1 DEF IsIteration
  <2> QED
    BY <2>1, <2>2, <2>3
<1>3. IsIt(it)
  <2> HIDE DEF IsIt
  <2> QED
    BY <1>2
<1>4. RunDeposits(base, seq) = it[1..n]
  <2>1. DOMAIN seq = 1..n
    OBVIOUS
  <2> QED
    BY <2>1 DEF RunDeposits, FoldLeft, MapThenFoldSet
<1> HIDE DEF it
<1>5. Iterates(it, A, F, base, n)
  <2>1. ASSUME NEW i \in 1..n, it[1..(i - 1)] \in A
        PROVE  it[1..i] = F[it[1..(i - 1)]][i]
    <3>1. /\ 1..i \in SUBSET (1..n) /\ 1..i # {} /\ Max(1..i) = i
          /\ (1..i) \ {Max(1..i)} = 1..(i - 1)
      BY <1>0, Interval
    <3>2. DOMAIN seq = 1..n
      OBVIOUS
    <3>3. it[1..i] = HandleDeposit(it[1..(i - 1)], seq[i])
      BY <1>3, <3>1, <3>2
    <3> QED
      BY <2>1, <3>3 DEF DepositSteps
  <2> QED
    BY <1>3, <2>1 DEF Iterates
<1> HIDE DEF IsIt, F, n
<1>6. PICK t : IsRun(t, A, F, base, n) /\ t[n] = it[1..n]
  BY <1>5, RunOfIteration DEF F, n
<1>7. t \in [0..n -> A] /\ t[0] = base /\ \A i \in 1..n : t[i] = F[t[i - 1]][i]
  BY <1>6 DEF IsRun
<1>8. ASSUME NEW i \in 1..n PROVE t[i] = HandleDeposit(t[i - 1], seq[i])
  <2>1. t[i - 1] \in A /\ t[i] = F[t[i - 1]][i]
    <3>1. i - 1 \in 0..n
      BY <1>0
    <3> QED
      BY <1>7, <3>1
  <2> QED
    BY <2>1 DEF F, DepositSteps, n
<1> QED
  BY <1>4, <1>6, <1>7, <1>8 DEF n

RunConsolidations(base, seq) == FoldLeft(HandleConsolidation, base, seq)
ConsolidationSteps(A, seq) == [a \in A |-> [i \in 1..Len(seq) |-> HandleConsolidation(a, seq[i])]]

(* The loop of process_pending_consolidations, turn by turn. *)
LEMMA FoldConsolidations ==
    ASSUME NEW X, NEW seq \in Seq(X), NEW A, NEW base \in A,
           IsLoop(A, ConsolidationSteps(A, seq), base, Len(seq))
    PROVE  \E t : /\ t \in [0..Len(seq) -> A] /\ t[0] = base
                  /\ \A i \in 1..Len(seq) : t[i] = HandleConsolidation(t[i - 1], seq[i])
                  /\ RunConsolidations(base, seq) = t[Len(seq)]
<1> DEFINE n == Len(seq)
           F == ConsolidationSteps(A, seq)
           IsIt(f) == f = [s \in SUBSET DOMAIN seq |-> IF s = {} THEN base ELSE HandleConsolidation(f[s \ {Max(s)}], seq[Max(s)])]
           it == CHOOSE f : IsIt(f)
<1>0. n \in Nat
  OBVIOUS
<1>1. PICK f : IsIteration(f, A, F, base, n)
  <2> HIDE DEF F, n
  <2> QED
    BY IterationExists DEF F, n
<1>2. IsIt(f)
  <2>1. ASSUME NEW s \in SUBSET (1..n), s # {} PROVE f[s] = HandleConsolidation(f[s \ {Max(s)}], seq[Max(s)])
    <3>1. Max(s) \in 1..n /\ s \ {Max(s)} \in SUBSET (1..n)
      BY <1>0, <2>1, Greatest
    <3>2. f[s] = F[f[s \ {Max(s)}]][Max(s)] /\ f[s \ {Max(s)}] \in A
      <4> HIDE DEF F
      <4> QED
        BY <1>1, <2>1, <3>1 DEF IsIteration
    <3> QED
      BY <3>1, <3>2 DEF ConsolidationSteps
  <2>2. DOMAIN seq = 1..n
    OBVIOUS
  <2>3. f[{}] = base /\ f = [s \in SUBSET (1..n) |-> f[s]]
    <3> HIDE DEF F
    <3> QED
      BY <1>1 DEF IsIteration
  <2> QED
    BY <2>1, <2>2, <2>3
<1>3. IsIt(it)
  <2> HIDE DEF IsIt
  <2> QED
    BY <1>2
<1>4. RunConsolidations(base, seq) = it[1..n]
  <2>1. DOMAIN seq = 1..n
    OBVIOUS
  <2> QED
    BY <2>1 DEF RunConsolidations, FoldLeft, MapThenFoldSet
<1> HIDE DEF it
<1>5. Iterates(it, A, F, base, n)
  <2>1. ASSUME NEW i \in 1..n, it[1..(i - 1)] \in A
        PROVE  it[1..i] = F[it[1..(i - 1)]][i]
    <3>1. /\ 1..i \in SUBSET (1..n) /\ 1..i # {} /\ Max(1..i) = i
          /\ (1..i) \ {Max(1..i)} = 1..(i - 1)
      BY <1>0, Interval
    <3>2. DOMAIN seq = 1..n
      OBVIOUS
    <3>3. it[1..i] = HandleConsolidation(it[1..(i - 1)], seq[i])
      BY <1>3, <3>1, <3>2
    <3> QED
      BY <2>1, <3>3 DEF ConsolidationSteps
  <2> QED
    BY <1>3, <2>1 DEF Iterates
<1> HIDE DEF IsIt, F, n
<1>6. PICK t : IsRun(t, A, F, base, n) /\ t[n] = it[1..n]
  BY <1>5, RunOfIteration DEF F, n
<1>7. t \in [0..n -> A] /\ t[0] = base /\ \A i \in 1..n : t[i] = F[t[i - 1]][i]
  BY <1>6 DEF IsRun
<1>8. ASSUME NEW i \in 1..n PROVE t[i] = HandleConsolidation(t[i - 1], seq[i])
  <2>1. t[i - 1] \in A /\ t[i] = F[t[i - 1]][i]
    <3>1. i - 1 \in 0..n
      BY <1>0
    <3> QED
      BY <1>7, <3>1
  <2> QED
    BY <2>1 DEF F, ConsolidationSteps, n
<1> QED
  BY <1>4, <1>6, <1>7, <1>8 DEF n

RunPartials(base, seq) == FoldLeft(HandlePartial, base, seq)
PartialSteps(A, seq) == [a \in A |-> [i \in 1..Len(seq) |-> HandlePartial(a, seq[i])]]

(* The loop over the partial withdrawals, turn by turn. *)
LEMMA FoldPartials ==
    ASSUME NEW X, NEW seq \in Seq(X), NEW A, NEW base \in A,
           IsLoop(A, PartialSteps(A, seq), base, Len(seq))
    PROVE  \E t : /\ t \in [0..Len(seq) -> A] /\ t[0] = base
                  /\ \A i \in 1..Len(seq) : t[i] = HandlePartial(t[i - 1], seq[i])
                  /\ RunPartials(base, seq) = t[Len(seq)]
<1> DEFINE n == Len(seq)
           F == PartialSteps(A, seq)
           IsIt(f) == f = [s \in SUBSET DOMAIN seq |-> IF s = {} THEN base ELSE HandlePartial(f[s \ {Max(s)}], seq[Max(s)])]
           it == CHOOSE f : IsIt(f)
<1>0. n \in Nat
  OBVIOUS
<1>1. PICK f : IsIteration(f, A, F, base, n)
  <2> HIDE DEF F, n
  <2> QED
    BY IterationExists DEF F, n
<1>2. IsIt(f)
  <2>1. ASSUME NEW s \in SUBSET (1..n), s # {} PROVE f[s] = HandlePartial(f[s \ {Max(s)}], seq[Max(s)])
    <3>1. Max(s) \in 1..n /\ s \ {Max(s)} \in SUBSET (1..n)
      BY <1>0, <2>1, Greatest
    <3>2. f[s] = F[f[s \ {Max(s)}]][Max(s)] /\ f[s \ {Max(s)}] \in A
      <4> HIDE DEF F
      <4> QED
        BY <1>1, <2>1, <3>1 DEF IsIteration
    <3> QED
      BY <3>1, <3>2 DEF PartialSteps
  <2>2. DOMAIN seq = 1..n
    OBVIOUS
  <2>3. f[{}] = base /\ f = [s \in SUBSET (1..n) |-> f[s]]
    <3> HIDE DEF F
    <3> QED
      BY <1>1 DEF IsIteration
  <2> QED
    BY <2>1, <2>2, <2>3
<1>3. IsIt(it)
  <2> HIDE DEF IsIt
  <2> QED
    BY <1>2
<1>4. RunPartials(base, seq) = it[1..n]
  <2>1. DOMAIN seq = 1..n
    OBVIOUS
  <2> QED
    BY <2>1 DEF RunPartials, FoldLeft, MapThenFoldSet
<1> HIDE DEF it
<1>5. Iterates(it, A, F, base, n)
  <2>1. ASSUME NEW i \in 1..n, it[1..(i - 1)] \in A
        PROVE  it[1..i] = F[it[1..(i - 1)]][i]
    <3>1. /\ 1..i \in SUBSET (1..n) /\ 1..i # {} /\ Max(1..i) = i
          /\ (1..i) \ {Max(1..i)} = 1..(i - 1)
      BY <1>0, Interval
    <3>2. DOMAIN seq = 1..n
      OBVIOUS
    <3>3. it[1..i] = HandlePartial(it[1..(i - 1)], seq[i])
      BY <1>3, <3>1, <3>2
    <3> QED
      BY <2>1, <3>3 DEF PartialSteps
  <2> QED
    BY <1>3, <2>1 DEF Iterates
<1> HIDE DEF IsIt, F, n
<1>6. PICK t : IsRun(t, A, F, base, n) /\ t[n] = it[1..n]
  BY <1>5, RunOfIteration DEF F, n
<1>7. t \in [0..n -> A] /\ t[0] = base /\ \A i \in 1..n : t[i] = F[t[i - 1]][i]
  BY <1>6 DEF IsRun
<1>8. ASSUME NEW i \in 1..n PROVE t[i] = HandlePartial(t[i - 1], seq[i])
  <2>1. t[i - 1] \in A /\ t[i] = F[t[i - 1]][i]
    <3>1. i - 1 \in 0..n
      BY <1>0
    <3> QED
      BY <1>7, <3>1
  <2> QED
    BY <2>1 DEF F, PartialSteps, n
<1> QED
  BY <1>4, <1>6, <1>7, <1>8 DEF n

RunSweep(base, seq) == FoldLeft(SweepOne, base, seq)
SweepSteps(A, seq) == [a \in A |-> [i \in 1..Len(seq) |-> SweepOne(a, seq[i])]]

(* The sweep, turn by turn. *)
LEMMA FoldSweep ==
    ASSUME NEW X, NEW seq \in Seq(X), NEW A, NEW base \in A,
           IsLoop(A, SweepSteps(A, seq), base, Len(seq))
    PROVE  \E t : /\ t \in [0..Len(seq) -> A] /\ t[0] = base
                  /\ \A i \in 1..Len(seq) : t[i] = SweepOne(t[i - 1], seq[i])
                  /\ RunSweep(base, seq) = t[Len(seq)]
<1> DEFINE n == Len(seq)
           F == SweepSteps(A, seq)
           IsIt(f) == f = [s \in SUBSET DOMAIN seq |-> IF s = {} THEN base ELSE SweepOne(f[s \ {Max(s)}], seq[Max(s)])]
           it == CHOOSE f : IsIt(f)
<1>0. n \in Nat
  OBVIOUS
<1>1. PICK f : IsIteration(f, A, F, base, n)
  <2> HIDE DEF F, n
  <2> QED
    BY IterationExists DEF F, n
<1>2. IsIt(f)
  <2>1. ASSUME NEW s \in SUBSET (1..n), s # {} PROVE f[s] = SweepOne(f[s \ {Max(s)}], seq[Max(s)])
    <3>1. Max(s) \in 1..n /\ s \ {Max(s)} \in SUBSET (1..n)
      BY <1>0, <2>1, Greatest
    <3>2. f[s] = F[f[s \ {Max(s)}]][Max(s)] /\ f[s \ {Max(s)}] \in A
      <4> HIDE DEF F
      <4> QED
        BY <1>1, <2>1, <3>1 DEF IsIteration
    <3> QED
      BY <3>1, <3>2 DEF SweepSteps
  <2>2. DOMAIN seq = 1..n
    OBVIOUS
  <2>3. f[{}] = base /\ f = [s \in SUBSET (1..n) |-> f[s]]
    <3> HIDE DEF F
    <3> QED
      BY <1>1 DEF IsIteration
  <2> QED
    BY <2>1, <2>2, <2>3
<1>3. IsIt(it)
  <2> HIDE DEF IsIt
  <2> QED
    BY <1>2
<1>4. RunSweep(base, seq) = it[1..n]
  <2>1. DOMAIN seq = 1..n
    OBVIOUS
  <2> QED
    BY <2>1 DEF RunSweep, FoldLeft, MapThenFoldSet
<1> HIDE DEF it
<1>5. Iterates(it, A, F, base, n)
  <2>1. ASSUME NEW i \in 1..n, it[1..(i - 1)] \in A
        PROVE  it[1..i] = F[it[1..(i - 1)]][i]
    <3>1. /\ 1..i \in SUBSET (1..n) /\ 1..i # {} /\ Max(1..i) = i
          /\ (1..i) \ {Max(1..i)} = 1..(i - 1)
      BY <1>0, Interval
    <3>2. DOMAIN seq = 1..n
      OBVIOUS
    <3>3. it[1..i] = SweepOne(it[1..(i - 1)], seq[i])
      BY <1>3, <3>1, <3>2
    <3> QED
      BY <2>1, <3>3 DEF SweepSteps
  <2> QED
    BY <1>3, <2>1 DEF Iterates
<1> HIDE DEF IsIt, F, n
<1>6. PICK t : IsRun(t, A, F, base, n) /\ t[n] = it[1..n]
  BY <1>5, RunOfIteration DEF F, n
<1>7. t \in [0..n -> A] /\ t[0] = base /\ \A i \in 1..n : t[i] = F[t[i - 1]][i]
  BY <1>6 DEF IsRun
<1>8. ASSUME NEW i \in 1..n PROVE t[i] = SweepOne(t[i - 1], seq[i])
  <2>1. t[i - 1] \in A /\ t[i] = F[t[i - 1]][i]
    <3>1. i - 1 \in 0..n
      BY <1>0
    <3> QED
      BY <1>7, <3>1
  <2> QED
    BY <2>1 DEF F, SweepSteps, n
<1> QED
  BY <1>4, <1>6, <1>7, <1>8 DEF n

RunPaid(base, seq) == FoldLeft(Paid, base, seq)
PaySteps(A, seq) == [a \in A |-> [i \in 1..Len(seq) |-> Paid(a, seq[i])]]

(* The loop that pays the withdrawals, turn by turn. *)
LEMMA FoldPaid ==
    ASSUME NEW X, NEW seq \in Seq(X), NEW A, NEW base \in A,
           IsLoop(A, PaySteps(A, seq), base, Len(seq))
    PROVE  \E t : /\ t \in [0..Len(seq) -> A] /\ t[0] = base
                  /\ \A i \in 1..Len(seq) : t[i] = Paid(t[i - 1], seq[i])
                  /\ RunPaid(base, seq) = t[Len(seq)]
<1> DEFINE n == Len(seq)
           F == PaySteps(A, seq)
           IsIt(f) == f = [s \in SUBSET DOMAIN seq |-> IF s = {} THEN base ELSE Paid(f[s \ {Max(s)}], seq[Max(s)])]
           it == CHOOSE f : IsIt(f)
<1>0. n \in Nat
  OBVIOUS
<1>1. PICK f : IsIteration(f, A, F, base, n)
  <2> HIDE DEF F, n
  <2> QED
    BY IterationExists DEF F, n
<1>2. IsIt(f)
  <2>1. ASSUME NEW s \in SUBSET (1..n), s # {} PROVE f[s] = Paid(f[s \ {Max(s)}], seq[Max(s)])
    <3>1. Max(s) \in 1..n /\ s \ {Max(s)} \in SUBSET (1..n)
      BY <1>0, <2>1, Greatest
    <3>2. f[s] = F[f[s \ {Max(s)}]][Max(s)] /\ f[s \ {Max(s)}] \in A
      <4> HIDE DEF F
      <4> QED
        BY <1>1, <2>1, <3>1 DEF IsIteration
    <3> QED
      BY <3>1, <3>2 DEF PaySteps
  <2>2. DOMAIN seq = 1..n
    OBVIOUS
  <2>3. f[{}] = base /\ f = [s \in SUBSET (1..n) |-> f[s]]
    <3> HIDE DEF F
    <3> QED
      BY <1>1 DEF IsIteration
  <2> QED
    BY <2>1, <2>2, <2>3
<1>3. IsIt(it)
  <2> HIDE DEF IsIt
  <2> QED
    BY <1>2
<1>4. RunPaid(base, seq) = it[1..n]
  <2>1. DOMAIN seq = 1..n
    OBVIOUS
  <2> QED
    BY <2>1 DEF RunPaid, FoldLeft, MapThenFoldSet
<1> HIDE DEF it
<1>5. Iterates(it, A, F, base, n)
  <2>1. ASSUME NEW i \in 1..n, it[1..(i - 1)] \in A
        PROVE  it[1..i] = F[it[1..(i - 1)]][i]
    <3>1. /\ 1..i \in SUBSET (1..n) /\ 1..i # {} /\ Max(1..i) = i
          /\ (1..i) \ {Max(1..i)} = 1..(i - 1)
      BY <1>0, Interval
    <3>2. DOMAIN seq = 1..n
      OBVIOUS
    <3>3. it[1..i] = Paid(it[1..(i - 1)], seq[i])
      BY <1>3, <3>1, <3>2
    <3> QED
      BY <2>1, <3>3 DEF PaySteps
  <2> QED
    BY <1>3, <2>1 DEF Iterates
<1> HIDE DEF IsIt, F, n
<1>6. PICK t : IsRun(t, A, F, base, n) /\ t[n] = it[1..n]
  BY <1>5, RunOfIteration DEF F, n
<1>7. t \in [0..n -> A] /\ t[0] = base /\ \A i \in 1..n : t[i] = F[t[i - 1]][i]
  BY <1>6 DEF IsRun
<1>8. ASSUME NEW i \in 1..n PROVE t[i] = Paid(t[i - 1], seq[i])
  <2>1. t[i - 1] \in A /\ t[i] = F[t[i - 1]][i]
    <3>1. i - 1 \in 0..n
      BY <1>0
    <3> QED
      BY <1>7, <3>1
  <2> QED
    BY <2>1 DEF F, PaySteps, n
<1> QED
  BY <1>4, <1>6, <1>7, <1>8 DEF n

RunPunished(base, seq, perIncrement) ==
    FoldLeft(LAMBDA s, i : Punished(s, i, perIncrement), base, seq)
PunishSteps(A, seq, perIncrement) == [a \in A |-> [i \in 1..Len(seq) |-> Punished(a, seq[i], perIncrement)]]

(* The loop of process_slashings, turn by turn. *)
LEMMA FoldPunished ==
    ASSUME NEW X, NEW seq \in Seq(X), NEW A, NEW base \in A, NEW perIncrement,
           IsLoop(A, PunishSteps(A, seq, perIncrement), base, Len(seq))
    PROVE  \E t : /\ t \in [0..Len(seq) -> A] /\ t[0] = base
                  /\ \A i \in 1..Len(seq) : t[i] = Punished(t[i - 1], seq[i], perIncrement)
                  /\ RunPunished(base, seq, perIncrement) = t[Len(seq)]
<1> DEFINE n == Len(seq)
           F == PunishSteps(A, seq, perIncrement)
           IsIt(f) == f = [s \in SUBSET DOMAIN seq |-> IF s = {} THEN base ELSE Punished(f[s \ {Max(s)}], seq[Max(s)], perIncrement)]
           it == CHOOSE f : IsIt(f)
<1>0. n \in Nat
  OBVIOUS
<1>1. PICK f : IsIteration(f, A, F, base, n)
  <2> HIDE DEF F, n
  <2> QED
    BY IterationExists DEF F, n
<1>2. IsIt(f)
  <2>1. ASSUME NEW s \in SUBSET (1..n), s # {} PROVE f[s] = Punished(f[s \ {Max(s)}], seq[Max(s)], perIncrement)
    <3>1. Max(s) \in 1..n /\ s \ {Max(s)} \in SUBSET (1..n)
      BY <1>0, <2>1, Greatest
    <3>2. f[s] = F[f[s \ {Max(s)}]][Max(s)] /\ f[s \ {Max(s)}] \in A
      <4> HIDE DEF F
      <4> QED
        BY <1>1, <2>1, <3>1 DEF IsIteration
    <3> QED
      BY <3>1, <3>2 DEF PunishSteps
  <2>2. DOMAIN seq = 1..n
    OBVIOUS
  <2>3. f[{}] = base /\ f = [s \in SUBSET (1..n) |-> f[s]]
    <3> HIDE DEF F
    <3> QED
      BY <1>1 DEF IsIteration
  <2> QED
    BY <2>1, <2>2, <2>3
<1>3. IsIt(it)
  <2> HIDE DEF IsIt
  <2> QED
    BY <1>2
<1>4. RunPunished(base, seq, perIncrement) = it[1..n]
  <2>1. DOMAIN seq = 1..n
    OBVIOUS
  <2> QED
    BY <2>1 DEF RunPunished, FoldLeft, MapThenFoldSet
<1> HIDE DEF it
<1>5. Iterates(it, A, F, base, n)
  <2>1. ASSUME NEW i \in 1..n, it[1..(i - 1)] \in A
        PROVE  it[1..i] = F[it[1..(i - 1)]][i]
    <3>1. /\ 1..i \in SUBSET (1..n) /\ 1..i # {} /\ Max(1..i) = i
          /\ (1..i) \ {Max(1..i)} = 1..(i - 1)
      BY <1>0, Interval
    <3>2. DOMAIN seq = 1..n
      OBVIOUS
    <3>3. it[1..i] = Punished(it[1..(i - 1)], seq[i], perIncrement)
      BY <1>3, <3>1, <3>2
    <3> QED
      BY <2>1, <3>3 DEF PunishSteps
  <2> QED
    BY <1>3, <2>1 DEF Iterates
<1> HIDE DEF IsIt, F, n
<1>6. PICK t : IsRun(t, A, F, base, n) /\ t[n] = it[1..n]
  BY <1>5, RunOfIteration DEF F, n
<1>7. t \in [0..n -> A] /\ t[0] = base /\ \A i \in 1..n : t[i] = F[t[i - 1]][i]
  BY <1>6 DEF IsRun
<1>8. ASSUME NEW i \in 1..n PROVE t[i] = Punished(t[i - 1], seq[i], perIncrement)
  <2>1. t[i - 1] \in A /\ t[i] = F[t[i - 1]][i]
    <3>1. i - 1 \in 0..n
      BY <1>0
    <3> QED
      BY <1>7, <3>1
  <2> QED
    BY <2>1 DEF F, PunishSteps, n
<1> QED
  BY <1>4, <1>6, <1>7, <1>8 DEF n

--------------------------------------------------------------------------------
(* Loops over the validators *)

(* The loops over the validators take each index in order. *)
LEMMA Numbered ==
    ASSUME NEW st \in Sound
    PROVE  LET seq == [i \in DOMAIN st.validators |-> i]
           IN /\ seq \in Seq(Nat) /\ Len(seq) = Len(st.validators) /\ Len(seq) \in Nat
              /\ \A i \in 1..Len(st.validators) : seq[i] = i /\ i \in Indices(st)
<1>1. DOMAIN st.validators = 1..Len(st.validators) /\ Len(st.validators) \in Nat
  BY Fields
<1> DEFINE n == Len(st.validators)
<1>2. [i \in DOMAIN st.validators |-> i] = [i \in 1..n |-> i] /\ n \in Nat
  BY <1>1
<1> HIDE DEF n
<1>3. [i \in 1..n |-> i] \in Seq(Nat) /\ Len([i \in 1..n |-> i]) = n
  BY <1>2
<1> QED
  BY <1>1, <1>2, <1>3 DEF Indices, n

(* process_registry_updates conserves the gwei and the backlog. *)
LEMMA RegistryUpdates ==
    ASSUME NEW st \in Sound
    PROVE  process_registry_updates(st) \in Conserving(st)
<1> DEFINE seq == [i \in DOMAIN st.validators |-> i]
           n == Len(seq)
           A == Conserving(st)
           F == RegistrySteps(A, seq)
<1>1. /\ seq \in Seq(Nat) /\ n = Len(st.validators) /\ n \in Nat
      /\ \A i \in 1..n : seq[i] = i /\ i \in Indices(st)
  BY Numbered
<1>2. process_registry_updates(st) = RunRegistry(st, seq)
  BY DEF process_registry_updates, FoldLeftDomain, RunRegistry
<1>3. st \in A
  BY ConservingItself
<1> HIDE DEF seq
<1>4. ASSUME NEW a \in A, NEW i \in 1..n PROVE RegistryUpdate(a, seq[i]) \in A
  <2>1. seq[i] \in Indices(st)
    BY <1>1
  <2>2. a \in Alike(st)
    BY DEF Conserving
  <2>3. a \in Sound /\ seq[i] \in Indices(a)
    BY <2>1, <2>2, SameIndices
  <2>4. RegistryUpdate(a, seq[i]) \in Conserving(a)
    BY <2>3, RegistryUpdateKeeps
  <2> QED
    BY <2>4, ConservingTransitive
<1> HIDE DEF A
<1>5. F \in [A -> [1..n -> A]]
  BY <1>4 DEF RegistrySteps
<1>6. IsLoop(A, F, st, n)
  BY <1>1, <1>3, <1>5 DEF IsLoop
<1> HIDE DEF n, F
<1>7. PICK t : t \in [0..n -> A] /\ RunRegistry(st, seq) = t[n]
  <2>1. seq \in Seq(Nat) /\ IsLoop(A, RegistrySteps(A, seq), st, Len(seq))
    BY <1>1, <1>6 DEF n, F
  <2>2. \E t : /\ t \in [0..Len(seq) -> A] /\ t[0] = st
               /\ \A i \in 1..Len(seq) : t[i] = RegistryUpdate(t[i - 1], seq[i])
               /\ RunRegistry(st, seq) = t[Len(seq)]
    BY <1>3, <2>1, FoldRegistry
  <2> QED
    BY <2>2 DEF n
<1>8. n \in 0..n
  BY <1>1
<1> QED
  BY <1>2, <1>7, <1>8 DEF A

(* The penalty per increment: the total is never divided by 0. *)
LEMMA PenaltyIsNat ==
    ASSUME NEW st \in Sound
    PROVE  PenaltyPerIncrement(st) \in Nat
<1> DEFINE E == EPOCHS_PER_SLASHINGS_VECTOR
           s == [e \in 1..E |-> st.slashings[e - 1]]
           total == get_total_active_balance(st)
           adjusted == Lesser(Total(s) * PROPORTIONAL_SLASHING_MULTIPLIER_BELLATRIX, total)
           d == total \div EFFECTIVE_BALANCE_INCREMENT
<1>1. E \in Nat /\ st.slashings \in [0..E - 1 -> Nat]
  BY Fields, Constants
<1> HIDE DEF E
<1>2. s \in Seq(Nat)
  <2>1. \A e \in 1..E : st.slashings[e - 1] \in Nat
    BY <1>1
  <2> QED
    BY <1>1, <2>1
<1>3. Total(s) \in Nat
  <2> HIDE DEF s
  <2> QED
    BY <1>2, TotalType
<1>4. total \in Nat /\ total >= EFFECTIVE_BALANCE_INCREMENT
  BY Limits
<1>5. PenaltyPerIncrement(st) = adjusted \div d
  BY DEF PenaltyPerIncrement, E
<1> HIDE DEF s, total
<1>6. Total(s) * PROPORTIONAL_SLASHING_MULTIPLIER_BELLATRIX \in Nat
  BY <1>3, Constants
<1>7. adjusted \in Nat
  BY <1>4, <1>6 DEF Lesser
<1>8. d \in Nat \ {0}
  BY <1>4, Constants, Division
<1> HIDE DEF adjusted, d
<1>9. adjusted \div d \in Nat
  BY <1>7, <1>8, Division
<1> QED
  BY <1>5, <1>9

(* One turn of process_slashings conserves the gwei. *)
LEMMA PunishedKeeps ==
    ASSUME NEW st \in Sound, NEW i \in Indices(st), NEW perIncrement \in Nat
    PROVE  Punished(st, i, perIncrement) \in Conserving(st)
<1> DEFINE units == st.validators[i].effective_balance \div EFFECTIVE_BALANCE_INCREMENT
<1>1. units \in Nat
  <2>1. st.validators[i].effective_balance \in Nat
    BY FieldsOfOne
  <2> QED
    BY <2>1, Constants, Division
<1>2. Punished(st, i, perIncrement) \in {Penalized(st, i, perIncrement * units), st}
  BY DEF Punished
<1> HIDE DEF units
<1>3. perIncrement * units \in Nat
  BY <1>1
<1>4. Penalized(st, i, perIncrement * units) \in Conserving(st)
  BY <1>3, DecreaseBalance
<1>5. st \in Conserving(st)
  BY ConservingItself
<1> QED
  BY <1>2, <1>4, <1>5

(* process_slashings conserves the gwei. *)
LEMMA Slashings ==
    ASSUME NEW st \in Sound
    PROVE  process_slashings(st) \in Conserving(st)
<1> DEFINE seq == [i \in DOMAIN st.validators |-> i]
           n == Len(seq)
           A == Conserving(st)
           per == PenaltyPerIncrement(st)
           F == PunishSteps(A, seq, per)
<1>1. /\ seq \in Seq(Nat) /\ n = Len(st.validators) /\ n \in Nat
      /\ \A i \in 1..n : seq[i] = i /\ i \in Indices(st)
  BY Numbered
<1>2. process_slashings(st) = RunPunished(st, seq, per)
  BY DEF process_slashings, FoldLeftDomain, RunPunished
<1>3. st \in A /\ per \in Nat
  BY ConservingItself, PenaltyIsNat
<1> HIDE DEF seq, per
<1>4. ASSUME NEW a \in A, NEW i \in 1..n PROVE Punished(a, seq[i], per) \in A
  <2>1. seq[i] \in Indices(st)
    BY <1>1
  <2>2. a \in Alike(st)
    BY DEF Conserving
  <2>3. a \in Sound /\ seq[i] \in Indices(a)
    BY <2>1, <2>2, SameIndices
  <2>4. Punished(a, seq[i], per) \in Conserving(a)
    BY <1>3, <2>3, PunishedKeeps
  <2> QED
    BY <2>4, ConservingTransitive
<1> HIDE DEF A
<1>5. F \in [A -> [1..n -> A]]
  BY <1>4 DEF PunishSteps
<1>6. IsLoop(A, F, st, n)
  BY <1>1, <1>3, <1>5 DEF IsLoop
<1> HIDE DEF n, F
<1>7. PICK t : t \in [0..n -> A]
               /\ RunPunished(st, seq, per) = t[n]
  <2>1. seq \in Seq(Nat) /\ IsLoop(A, PunishSteps(A, seq, per), st, Len(seq))
    BY <1>1, <1>6 DEF n, F
  <2>2. \E t : /\ t \in [0..Len(seq) -> A] /\ t[0] = st
               /\ \A i \in 1..Len(seq) : t[i] = Punished(t[i - 1], seq[i], per)
               /\ RunPunished(st, seq, per) = t[Len(seq)]
    BY <1>3, <2>1, FoldPunished
  <2> QED
    BY <2>2 DEF n
<1>8. n \in 0..n
  BY <1>1
<1> QED
  BY <1>2, <1>7, <1>8 DEF A

--------------------------------------------------------------------------------
(* Consolidations *)

(* What is left of a queue was in it. *)
LEMMA Remaining ==
    ASSUME NEW S, NEW p \in Seq(S), NEW m \in Nat
    PROVE  LET q == SubSeq(p, m + 1, Len(p))
           IN /\ q \in Seq(S)
              /\ \A k \in DOMAIN q : \E x \in DOMAIN p : q[k] = p[x]
<1> DEFINE n == Len(p)
           q == SubSeq(p, m + 1, n)
<1>1. n \in Nat /\ DOMAIN p = 1..n /\ \A i \in 1..n : p[i] \in S
  OBVIOUS
<1>2. \A i \in (m + 1)..n : p[i] \in S
  BY <1>1
<1>3. q \in Seq(S)
  BY <1>1, <1>2
<1>4. ASSUME NEW k \in 1..Len(q) PROVE k + m \in 1..n /\ q[k] = p[k + m]
  <2>1. Len(q) = IF m + 1 <= n THEN n - m ELSE 0
    BY <1>1
  <2>2. k \in 1..(n - m)
    BY <1>1, <2>1
  <2>3. q[k] = p[k + (m + 1) - 1]
    BY <1>1, <2>2
  <2>4. k + (m + 1) - 1 = k + m /\ k + m \in 1..n
    BY <1>1, <2>2
  <2> QED
    BY <2>3, <2>4
<1>5. DOMAIN q = 1..Len(q)
  BY <1>3
<1> QED
  BY <1>1, <1>3, <1>4, <1>5

(* What is taken from one balance and given to another. *)
LEMMA MovedKeeps ==
    ASSUME NEW st \in Sound, NEW i \in Indices(st), NEW j \in Indices(st),
           NEW moved \in Nat, moved <= st.balances[i]
    PROVE  increase_balance(decrease_balance(st, i, moved), j, moved) \in Conserving(st)
<1> DEFINE less == decrease_balance(st, i, moved)
           more == increase_balance(less, j, moved)
<1>1. st.balances[i] \in Nat
  BY FieldsOfOne
<1>2. Lesser(moved, st.balances[i]) = moved
  BY <1>1 DEF Lesser
<1>3. less \in Alike(st) /\ Wealth(less) = Wealth(st) - moved
  BY <1>2, DecreaseBalance
<1> HIDE DEF less
<1>4. less \in Sound /\ j \in Indices(less)
  BY <1>3, SameIndices
<1>5. more \in Alike(less) /\ Wealth(more) = Wealth(less) + moved
  BY <1>4, IncreaseBalance
<1> HIDE DEF more
<1>6. more \in Alike(st)
  BY <1>3, <1>5, AlikeTransitive
<1>7. Wealth(st) \in Int
  BY WealthIsInt
<1>8. Wealth(more) = Wealth(st)
  BY <1>3, <1>5, <1>7
<1> QED
  BY <1>6, <1>8 DEF Conserving, more, less

(* One turn of process_pending_consolidations conserves the gwei. *)
LEMMA HandleConsolidationKeeps ==
    ASSUME NEW st \in Sound, NEW c, c.source \in Indices(st), c.target \in Indices(st),
           NEW acc \in [st : Conserving(st), next : Nat, done : BOOLEAN]
    PROVE  HandleConsolidation(acc, c) \in [st : Conserving(st), next : Nat, done : BOOLEAN]
<1> DEFINE i == c.source
           j == c.target
           s == acc.st
           moved == Lesser(s.balances[i], s.validators[i].effective_balance)
           after == increase_balance(decrease_balance(s, i, moved), j, moved)
           R == [st : Conserving(st), next : Nat, done : BOOLEAN]
           r1 == [acc EXCEPT !.next = @ + 1]
           r2 == [acc EXCEPT !.done = TRUE]
           r3 == [acc EXCEPT !.st = after, !.next = @ + 1]
<1>1. s \in Conserving(st) /\ acc.next \in Nat
  OBVIOUS
<1>2. s \in Alike(st)
  BY <1>1 DEF Conserving
<1>3. s \in Sound /\ i \in Indices(s) /\ j \in Indices(s)
  BY <1>2, SameIndices
<1>4. HandleConsolidation(acc, c) \in {acc, r1, r2, r3}
  BY DEF HandleConsolidation
<1>5. moved \in Nat /\ moved <= s.balances[i]
  <2>1. s.balances[i] \in Nat /\ s.validators[i].effective_balance \in Nat
    BY <1>3, FieldsOfOne
  <2> QED
    BY <2>1 DEF Lesser
<1> HIDE DEF moved, i, j, s
<1>6. after \in Conserving(s)
  BY <1>3, <1>5, MovedKeeps
<1>7. after \in Conserving(st)
  BY <1>1, <1>6, ConservingTransitive
<1> HIDE DEF after
<1>8. r1 \in R
  OBVIOUS
<1>9. r2 \in R
  OBVIOUS
<1>10. r3 \in R
  <2> DEFINE m == [acc EXCEPT !.st = after]
  <2>1. m \in R
    BY <1>7
  <2>2. r3 = [m EXCEPT !.next = @ + 1]
    OBVIOUS
  <2> HIDE DEF m
  <2> QED
    BY <2>1, <2>2
<1> QED
  BY <1>4, <1>8, <1>9, <1>10

(* process_pending_consolidations conserves the gwei. *)
LEMMA PendingConsolidations ==
    ASSUME NEW st \in Sound
    PROVE  /\ process_pending_consolidations(st) \in Sound
           /\ Wealth(process_pending_consolidations(st)) = Wealth(st)
           /\ Len(process_pending_consolidations(st).validators) >= Len(st.validators)
<1> DEFINE seq == st.pending_consolidations
           n == Len(seq)
           A == [st : Conserving(st), next : Nat, done : BOOLEAN]
           base == [st |-> st, next |-> 0, done |-> FALSE]
           F == ConsolidationSteps(A, seq)
           r == RunConsolidations(base, seq)
<1>1. seq \in Seq(PendingConsolidation) /\ n \in Nat
  BY Fields
<1>2. \A i \in 1..n : seq[i].source \in Indices(st) /\ seq[i].target \in Indices(st)
  <2>1. IndicesExist(st)
    BY DEF Sound
  <2>2. DOMAIN seq = 1..n
    BY <1>1
  <2> QED
    BY <2>1, <2>2 DEF IndicesExist, Indices
<1>3. base \in A
  BY ConservingItself
<1> HIDE DEF seq, base
<1>4. ASSUME NEW a \in A, NEW i \in 1..n PROVE HandleConsolidation(a, seq[i]) \in A
  BY <1>2, HandleConsolidationKeeps
<1> HIDE DEF A
<1>5. F \in [A -> [1..n -> A]]
  BY <1>4 DEF ConsolidationSteps
<1>6. IsLoop(A, F, base, n)
  BY <1>1, <1>3, <1>5 DEF IsLoop
<1> HIDE DEF n, F
<1>7. PICK t : t \in [0..n -> A] /\ r = t[n]
  <2>1. seq \in Seq(PendingConsolidation) /\ IsLoop(A, ConsolidationSteps(A, seq), base, Len(seq))
    BY <1>1, <1>6 DEF n, F
  <2>2. \E t : /\ t \in [0..Len(seq) -> A] /\ t[0] = base
               /\ \A i \in 1..Len(seq) : t[i] = HandleConsolidation(t[i - 1], seq[i])
               /\ RunConsolidations(base, seq) = t[Len(seq)]
    BY <1>3, <2>1, FoldConsolidations
  <2> QED
    BY <2>2 DEF n
<1>8. n \in 0..n
  BY <1>1
<1>9. r \in A
  BY <1>7, <1>8
<1>10. process_pending_consolidations(st) =
         [r.st EXCEPT !.pending_consolidations = SubSeq(@, r.next + 1, Len(@))]
  BY DEF process_pending_consolidations, RunConsolidations, base, seq
<1> HIDE DEF r
<1>11. r.st \in Conserving(st) /\ r.next \in Nat
  BY <1>9 DEF A
<1> DEFINE s == r.st
           rest == SubSeq(s.pending_consolidations, r.next + 1, Len(s.pending_consolidations))
           after == [s EXCEPT !.pending_consolidations = rest]
<1>12. s \in Sound /\ Wealth(s) = Wealth(st) /\ Len(s.validators) >= Len(st.validators)
  BY <1>11 DEF Conserving, Alike
<1>13. /\ s.pending_consolidations \in Seq(PendingConsolidation)
       /\ Len(s.validators) \in Nat
  BY <1>12, Fields
<1> HIDE DEF s
<1>14. rest \in Seq(PendingConsolidation)
       /\ \A k \in DOMAIN rest : \E m \in DOMAIN s.pending_consolidations :
             rest[k] = s.pending_consolidations[m]
  <2> DEFINE p == s.pending_consolidations
             m == r.next
  <2>1. p \in Seq(PendingConsolidation) /\ m \in Nat
    BY <1>11, <1>13
  <2> HIDE DEF p, m
  <2>2. SubSeq(p, m + 1, Len(p)) \in Seq(PendingConsolidation)
        /\ \A k \in DOMAIN SubSeq(p, m + 1, Len(p)) : \E x \in DOMAIN p :
             SubSeq(p, m + 1, Len(p))[k] = p[x]
    BY <2>1, Remaining
  <2> QED
    BY <2>2 DEF p, m
<1> HIDE DEF rest
<1>15. s \in BeaconState /\ IndicesExist(s) /\ Backlog(s.exits) /\ Backlog(s.consolidations)
  BY <1>12 DEF Sound
<1>16. /\ after \in BeaconState /\ after.validators = s.validators /\ after.balances = s.balances
       /\ after.pending_deposits = s.pending_deposits /\ after.net = s.net
       /\ after.pending_partial_withdrawals = s.pending_partial_withdrawals
       /\ after.pending_consolidations = rest
       /\ after.exits = s.exits /\ after.consolidations = s.consolidations
       /\ after.next_withdrawal_validator_index = s.next_withdrawal_validator_index
  BY <1>14, <1>15 DEF BeaconState
<1>17. process_pending_consolidations(st) = after
  BY <1>10 DEF s, rest
<1> HIDE DEF after
<1>18. IndicesExist(after) /\ Wealth(after) = Wealth(s)
  BY <1>14, <1>15, <1>16 DEF IndicesExist, Wealth
<1>19. after \in Sound
  BY <1>15, <1>16, <1>18 DEF Sound
<1> QED
  BY <1>12, <1>16, <1>17, <1>18, <1>19

--------------------------------------------------------------------------------
(* Deposits *)

(* A prefix with its next item. *)
LEMMA Prefix ==
    ASSUME NEW S, NEW p \in Seq(S), NEW i \in 1..Len(p)
    PROVE  /\ SubSeq(p, 1, i - 1) \in Seq(S) /\ p[i] \in S /\ SubSeq(p, 1, i) \in Seq(S)
           /\ SubSeq(p, 1, i) = Append(SubSeq(p, 1, i - 1), p[i])
<1> DEFINE n == Len(p)
           q == SubSeq(p, 1, i)
           r == SubSeq(p, 1, i - 1)
           s == Append(r, p[i])
<1>1. n \in Nat /\ i \in Nat /\ i <= n /\ \A k \in 1..n : p[k] \in S
  OBVIOUS
<1>2. q \in Seq(S) /\ Len(q) = i /\ \A k \in 1..i : q[k] = p[k]
  <2>1. \A k \in 1..i : k \in 1..n /\ p[k] \in S
    BY <1>1
  <2> QED
    BY <1>1, <2>1
<1>3. r \in Seq(S) /\ Len(r) = i - 1 /\ \A k \in 1..(i - 1) : r[k] = p[k]
  <2>1. \A k \in 1..(i - 1) : k \in 1..n /\ p[k] \in S
    BY <1>1
  <2> QED
    BY <1>1, <2>1
<1> HIDE DEF q, r
<1>4. p[i] \in S
  BY <1>1
<1>5. s \in Seq(S) /\ Len(s) = i /\ s[i] = p[i] /\ \A k \in 1..(i - 1) : s[k] = r[k]
  <2>1. (i - 1) + 1 = i
    BY <1>1
  <2> QED
    BY <1>3, <1>4, <2>1
<1> HIDE DEF s
<1>6. ASSUME NEW k \in 1..Len(s) PROVE q[k] = s[k]
  <2>1. k = i \/ k \in 1..(i - 1)
    BY <1>1, <1>5
  <2> QED
    BY <1>1, <1>2, <1>3, <1>5, <2>1
<1>7. q = s
  BY <1>2, <1>5, <1>6, SameSeq
<1> QED
  BY <1>2, <1>3, <1>4, <1>7 DEF q, r, s

(* The amounts of deposits. *)
LEMMA DepositAmounts ==
    /\ \A d \in PendingDeposit : d.amount \in Nat
    /\ \A p \in Seq(PendingDeposit) :
          Amounts(p) \in Seq(Nat) /\ Amounts(p) \in Seq(Int) /\ Total(Amounts(p)) \in Nat
    /\ \A p \in Seq(PendingDeposit) : \A d \in PendingDeposit :
          Total(Amounts(Append(p, d))) = Total(Amounts(p)) + d.amount
    /\ \A p \in Seq(PendingDeposit) : \A q \in Seq(PendingDeposit) :
          Total(Amounts(p \o q)) = Total(Amounts(p)) + Total(Amounts(q))
<1>1. \A d \in PendingDeposit : d.amount \in Nat
  BY DEF PendingDeposit
<1>2. ASSUME NEW p \in Seq(PendingDeposit)
      PROVE  Amounts(p) \in Seq(Nat) /\ Amounts(p) \in Seq(Int) /\ Total(Amounts(p)) \in Nat
  <2>1. Amounts(p) \in Seq(Nat) /\ Amounts(p) \in Seq(Int)
    BY <1>1, AmountsOf
  <2> QED
    BY <2>1, TotalType
<1>3. ASSUME NEW p \in Seq(PendingDeposit), NEW d \in PendingDeposit
      PROVE  Total(Amounts(Append(p, d))) = Total(Amounts(p)) + d.amount
  <2>1. Amounts(Append(p, d)) = Append(Amounts(p), d.amount)
    BY <1>1, AmountsAppend
  <2>2. Amounts(p) \in Seq(Int) /\ d.amount \in Int
    BY <1>1, <1>2
  <2>3. Total(Append(Amounts(p), d.amount)) = Total(Amounts(p)) + d.amount
    BY <2>2, TotalAppend
  <2> QED
    BY <2>1, <2>3
<1>4. ASSUME NEW p \in Seq(PendingDeposit), NEW q \in Seq(PendingDeposit)
      PROVE  Total(Amounts(p \o q)) = Total(Amounts(p)) + Total(Amounts(q))
  <2>1. Amounts(p \o q) = Amounts(p) \o Amounts(q)
    BY <1>1, AmountsConcat
  <2>2. Amounts(p) \in Seq(Int) /\ Amounts(q) \in Seq(Int)
    BY <1>2
  <2>3. Total(Amounts(p) \o Amounts(q)) = Total(Amounts(p)) + Total(Amounts(q))
    BY <2>2, TotalConcat
  <2> QED
    BY <2>1, <2>3
<1> QED
  BY <1>1, <1>2, <1>3, <1>4

(* A new validator has every field. *)
LEMMA NewValidatorType ==
    ASSUME NEW d \in PendingDeposit
    PROVE  NewValidator(d) \in Validator
<1> DEFINE most == IF d.compounding THEN MAX_EFFECTIVE_BALANCE_ELECTRA ELSE MIN_ACTIVATION_BALANCE
           m == d.amount % EFFECTIVE_BALANCE_INCREMENT
           effective == Lesser(d.amount - m, most)
<1>1. d.amount \in Nat /\ d.pubkey \in PubKeys /\ d.compounding \in BOOLEAN
  BY DEF PendingDeposit
<1>2. m \in Nat /\ m <= d.amount
  <2>1. /\ m \in 0..(EFFECTIVE_BALANCE_INCREMENT - 1)
        /\ d.amount % EFFECTIVE_BALANCE_INCREMENT <= d.amount
    BY <1>1, Constants, Division
  <2> QED
    BY <2>1, Constants
<1>3. most \in Nat /\ FAR_FUTURE_EPOCH \in Nat
  BY Constants
<1>4. NewValidator(d) =
        [pubkey |-> d.pubkey, compounding |-> d.compounding, slashed |-> FALSE,
         effective_balance |-> effective,
         activation_eligibility_epoch |-> FAR_FUTURE_EPOCH, activation_epoch |-> FAR_FUTURE_EPOCH,
         exit_epoch |-> FAR_FUTURE_EPOCH, withdrawable_epoch |-> FAR_FUTURE_EPOCH]
  BY DEF NewValidator
<1> HIDE DEF m, most
<1>5. effective \in Nat
  BY <1>1, <1>2, <1>3 DEF Lesser
<1> HIDE DEF effective
<1> QED
  BY <1>1, <1>3, <1>4, <1>5 DEF Validator

(* A validator joins with a balance of its own. *)
LEMMA Joins ==
    ASSUME NEW st \in Sound, NEW v \in Validator, NEW amount \in Nat
    PROVE  LET r == [st EXCEPT !.validators = Append(@, v), !.balances = Append(@, amount)]
           IN r \in Alike(st) /\ Wealth(r) = Wealth(st) + amount
<1> DEFINE vs == Append(st.validators, v)
           bs == Append(st.balances, amount)
           r == [st EXCEPT !.validators = vs, !.balances = bs]
<1>1. st \in BeaconState /\ IndicesExist(st) /\ Backlog(st.exits) /\ Backlog(st.consolidations)
  BY DEF Sound
<1>2. /\ st.validators \in Seq(Validator) /\ st.balances \in Seq(Nat) /\ st.balances \in Seq(Int)
      /\ Len(st.balances) = Len(st.validators) /\ Len(st.validators) \in Nat
      /\ DOMAIN st.validators = 1..Len(st.validators)
  BY Fields
<1>3. /\ vs \in Seq(Validator) /\ bs \in Seq(Nat)
      /\ Len(vs) = Len(st.validators) + 1 /\ Len(bs) = Len(vs)
  BY <1>2
<1>4. Total(bs) = Total(st.balances) + amount
  BY <1>2, TotalAppend
<1>5. DOMAIN vs = 1..(Len(st.validators) + 1)
  BY <1>3
<1> HIDE DEF vs, bs
<1>6. /\ r \in BeaconState /\ r.validators = vs /\ r.balances = bs
      /\ r.pending_deposits = st.pending_deposits /\ r.net = st.net
      /\ r.pending_partial_withdrawals = st.pending_partial_withdrawals
      /\ r.pending_consolidations = st.pending_consolidations
      /\ r.exits = st.exits /\ r.consolidations = st.consolidations
      /\ r.next_withdrawal_validator_index = st.next_withdrawal_validator_index
  BY <1>1, <1>3 DEF BeaconState
<1>7. [st EXCEPT !.validators = Append(@, v), !.balances = Append(@, amount)] = r
  BY DEF vs, bs
<1> HIDE DEF r
<1>8. \A i \in DOMAIN st.validators : i \in DOMAIN r.validators
  BY <1>2, <1>5, <1>6
<1>9. IndicesExist(r)
  BY <1>1, <1>3, <1>6, <1>8 DEF IndicesExist
<1>10. Total(st.balances) \in Nat /\ Total(Amounts(st.pending_deposits)) \in Nat /\ st.net \in Int
  BY WealthIsInt
<1>11. Wealth(r) = Wealth(st) + amount
  BY <1>4, <1>6, <1>10 DEF Wealth
<1>12. r \in Sound
  BY <1>1, <1>6, <1>9 DEF Sound
<1>13. r \in Alike(st)
  BY <1>2, <1>3, <1>6, <1>12 DEF Alike
<1> QED
  BY <1>7, <1>11, <1>13

(* A deposit goes to a balance, or is counted as lost.                             *)
LEMMA DepositApplies ==
    ASSUME NEW st \in Sound, NEW d \in PendingDeposit
    PROVE  /\ apply_pending_deposit(st, d) \in Alike(st)
           /\ Wealth(apply_pending_deposit(st, d)) = Wealth(st) + d.amount
<1>1. d.amount \in Nat
  BY DEF PendingDeposit
<1>2. CASE \E i \in Indices(st) : IsIndexOf(st, i, d.pubkey)
  <2> DEFINE i == CHOOSE i \in Indices(st) : IsIndexOf(st, i, d.pubkey)
  <2>1. i \in Indices(st)
    BY <1>2
  <2>2. apply_pending_deposit(st, d) = increase_balance(st, i, d.amount)
    BY <1>2 DEF apply_pending_deposit
  <2> HIDE DEF i
  <2> QED
    BY <1>1, <2>1, <2>2, IncreaseBalance
<1>3. CASE ~(\E i \in Indices(st) : IsIndexOf(st, i, d.pubkey)) /\ d.valid
  <2> DEFINE v == NewValidator(d)
  <2>1. apply_pending_deposit(st, d) =
          [st EXCEPT !.validators = Append(@, v), !.balances = Append(@, d.amount)]
    BY <1>3 DEF apply_pending_deposit
  <2>2. v \in Validator
    BY NewValidatorType
  <2> HIDE DEF v
  <2> QED
    BY <1>1, <2>1, <2>2, Joins
<1>4. CASE ~(\E i \in Indices(st) : IsIndexOf(st, i, d.pubkey)) /\ ~d.valid
  <2> DEFINE r == [st EXCEPT !.net = @ + d.amount]
             net == st.net + d.amount
             b == [st EXCEPT !.balances = st.balances, !.net = net]
  <2>1. apply_pending_deposit(st, d) = r
    BY <1>4 DEF apply_pending_deposit
  <2>2. st \in BeaconState /\ st.balances \in Seq(Nat) /\ st.net \in Int
    BY Fields DEF Sound
  <2>3. net \in Int
    BY <1>1, <2>2
  <2>4. r = b
    BY <2>2 DEF BeaconState
  <2> HIDE DEF net
  <2>5. b \in Alike(st)
        /\ Wealth(b) = Wealth(st) + Total(st.balances) - Total(st.balances) + net - st.net
    BY <2>2, <2>3, BalancesChange
  <2>6. Total(st.balances) \in Nat /\ Wealth(st) \in Int
    BY WealthIsInt
  <2> HIDE DEF b, r
  <2>7. Wealth(b) = Wealth(st) + d.amount
    BY <1>1, <2>2, <2>5, <2>6 DEF net
  <2> QED
    BY <2>1, <2>4, <2>5, <2>7
<1> QED
  BY <1>2, <1>3, <1>4

(* The accumulator of the loop.                                                    *)
Depositing(st, available) ==
    {acc \in [st : Alike(st), available : {available}, processed : Nat, next : Nat,
              postponed : Seq(PendingDeposit), done : BOOLEAN, limited : BOOLEAN] :
        acc.processed <= available}

Held(acc) == Wealth(acc.st) + Total(Amounts(acc.postponed))

(* A turn takes the deposit, or breaks.                                            *)
Turn(acc, next, d) ==
    \/ next.done /\ next.next = acc.next /\ Held(next) = Held(acc)
    \/ /\ ~acc.done /\ ~next.done /\ next.next = acc.next + 1
       /\ Held(next) = Held(acc) + d.amount

(* One turn of process_pending_deposits: it takes over the amount it handles, or stops. *)
LEMMA HandleDepositKeeps ==
    ASSUME NEW st \in Sound, NEW available \in Nat, NEW d \in PendingDeposit,
           NEW acc \in Depositing(st, available)
    PROVE  /\ HandleDeposit(acc, d) \in Depositing(st, available)
           /\ Turn(acc, HandleDeposit(acc, d), d)
<1> DEFINE R == [st : Alike(st), available : {available}, processed : Nat, next : Nat,
                 postponed : Seq(PendingDeposit), done : BOOLEAN, limited : BOOLEAN]
           s == acc.st
           p == acc.postponed
           after == apply_pending_deposit(acc.st, d)
           r1 == [acc EXCEPT !.done = TRUE]
           r2 == [acc EXCEPT !.st = after, !.next = @ + 1]
           r3 == [acc EXCEPT !.postponed = Append(@, d), !.next = @ + 1]
           r4 == [acc EXCEPT !.done = TRUE, !.limited = TRUE]
           r5 == [r2 EXCEPT !.processed = @ + d.amount]
<1>1. /\ acc \in R /\ acc.processed <= available /\ d.amount \in Nat
      /\ s \in Alike(st) /\ p \in Seq(PendingDeposit) /\ acc.next \in Nat /\ acc.processed \in Nat
      /\ acc.available = available
  <2>1. acc \in R /\ acc.processed <= available
    BY DEF Depositing
  <2> QED
    BY <2>1 DEF PendingDeposit
<1>2. \/ HandleDeposit(acc, d) \in {r1, r4}
      \/ ~acc.done /\ HandleDeposit(acc, d) \in {r2, r3}
      \/ /\ ~acc.done /\ HandleDeposit(acc, d) = r5
         /\ ~(acc.processed + d.amount > acc.available)
  BY DEF HandleDeposit
<1>3. s \in Sound
  BY <1>1 DEF Alike
<1>4. after \in Alike(st) /\ Wealth(after) = Wealth(s) + d.amount
  <2>1. after \in Alike(s) /\ Wealth(after) = Wealth(s) + d.amount
    <3> HIDE DEF s
    <3> QED
      BY <1>3, DepositApplies DEF s
  <2> HIDE DEF s, after
  <2> QED
    BY <1>1, <2>1, AlikeTransitive
<1>5. Append(p, d) \in Seq(PendingDeposit)
      /\ Total(Amounts(Append(p, d))) = Total(Amounts(p)) + d.amount
      /\ Total(Amounts(p)) \in Nat
  <2>1. Append(p, d) \in Seq(PendingDeposit)
    BY <1>1
  <2> HIDE DEF p
  <2> QED
    BY <1>1, <2>1, DepositAmounts
<1>6. Wealth(s) \in Int
  BY <1>3, WealthIsInt
<1> HIDE DEF after
<1>7. ASSUME HandleDeposit(acc, d) \in {r1, r4}
      PROVE  HandleDeposit(acc, d) \in Depositing(st, available) /\ Turn(acc, HandleDeposit(acc, d), d)
  <2> DEFINE r == HandleDeposit(acc, d)
  <2>1. /\ r \in R /\ r.processed = acc.processed /\ r.done /\ r.next = acc.next
        /\ r.st = acc.st /\ r.postponed = acc.postponed
    <3>1. CASE r = r1
      BY <1>1, <3>1
    <3>2. CASE r = r4
      BY <1>1, <3>2
    <3> QED
      BY <1>7, <3>1, <3>2
  <2> HIDE DEF r
  <2>2. r \in Depositing(st, available)
    BY <1>1, <2>1 DEF Depositing
  <2>3. Turn(acc, r, d)
    BY <2>1 DEF Turn, Held
  <2> QED
    BY <2>2, <2>3 DEF r
<1>8. r2 \in R /\ r2.processed = acc.processed /\ r2.done = acc.done /\ r2.next = acc.next + 1
      /\ r2.st = after /\ r2.postponed = p
  <2> DEFINE m == [acc EXCEPT !.st = after]
  <2>1. m \in R /\ m.processed = acc.processed /\ m.done = acc.done /\ m.next = acc.next
        /\ m.st = after /\ m.postponed = p
    BY <1>1, <1>4
  <2>2. r2 = [m EXCEPT !.next = @ + 1]
    OBVIOUS
  <2> HIDE DEF m, r2, p
  <2> QED
    BY <1>1, <2>1, <2>2
<1>9. r3 \in R /\ r3.processed = acc.processed /\ r3.done = acc.done /\ r3.next = acc.next + 1
      /\ r3.st = s /\ r3.postponed = Append(p, d)
  <2> DEFINE q == Append(p, d)
             m == [acc EXCEPT !.postponed = q]
  <2>0. q \in Seq(PendingDeposit)
    BY <1>5
  <2>1. r3 = [m EXCEPT !.next = @ + 1]
    OBVIOUS
  <2> HIDE DEF q
  <2>2. m \in R /\ m.processed = acc.processed /\ m.done = acc.done /\ m.next = acc.next
        /\ m.st = s /\ m.postponed = q
    BY <1>1, <2>0
  <2> HIDE DEF m, r3, p
  <2>3. r3 \in R /\ r3.processed = acc.processed /\ r3.done = acc.done /\ r3.next = acc.next + 1
        /\ r3.st = s /\ r3.postponed = q
    BY <1>1, <2>1, <2>2
  <2> QED
    BY <2>3 DEF q
<1>10. /\ r5.processed = acc.processed + d.amount /\ r5 \in R /\ r5.done = acc.done
       /\ r5.next = acc.next + 1 /\ r5.st = after /\ r5.postponed = p
  <2> HIDE DEF r2, p
  <2> QED
    BY <1>1, <1>8
<1> HIDE DEF r2, r3, r5
<1>11. ASSUME ~acc.done, HandleDeposit(acc, d) \in {r2, r3}
       PROVE  HandleDeposit(acc, d) \in Depositing(st, available) /\ Turn(acc, HandleDeposit(acc, d), d)
  <2>1. CASE HandleDeposit(acc, d) = r2
    <3>1. r2 \in Depositing(st, available)
      BY <1>1, <1>8 DEF Depositing
    <3>2. Held(r2) = Held(acc) + d.amount
      BY <1>1, <1>4, <1>5, <1>6, <1>8 DEF Held
    <3> QED
      BY <1>8, <1>11, <2>1, <3>1, <3>2 DEF Turn
  <2>2. CASE HandleDeposit(acc, d) = r3
    <3>1. r3 \in Depositing(st, available)
      BY <1>1, <1>9 DEF Depositing
    <3>2. Held(r3) = Held(acc) + d.amount
      BY <1>1, <1>5, <1>6, <1>9 DEF Held
    <3> QED
      BY <1>9, <1>11, <2>2, <3>1, <3>2 DEF Turn
  <2> QED
    BY <1>11, <2>1, <2>2
<1>12. ASSUME ~acc.done, HandleDeposit(acc, d) = r5, ~(acc.processed + d.amount > acc.available)
       PROVE  HandleDeposit(acc, d) \in Depositing(st, available) /\ Turn(acc, HandleDeposit(acc, d), d)
  <2>1. acc.processed + d.amount <= available
    BY <1>1, <1>12
  <2>2. r5 \in Depositing(st, available)
    BY <1>10, <2>1 DEF Depositing
  <2>3. Held(r5) = Held(acc) + d.amount
    BY <1>1, <1>4, <1>5, <1>6, <1>10 DEF Held
  <2> QED
    BY <1>10, <1>12, <2>2, <2>3 DEF Turn
<1> QED
  BY <1>2, <1>7, <1>11, <1>12

(* The loop holds what it has taken so far.                                        *)
LEMMA PendingDeposits ==
    ASSUME NEW st \in Sound
    PROVE  /\ process_pending_deposits(st) \in Sound
           /\ Wealth(process_pending_deposits(st)) = Wealth(st)
           /\ Len(process_pending_deposits(st).validators) >= Len(st.validators)
<1> DEFINE seq == st.pending_deposits
           n == Len(seq)
           available == st.deposit_balance_to_consume + get_activation_exit_churn_limit(st)
           A == Depositing(st, available)
           base == [st |-> st, available |-> available, processed |-> 0, next |-> 0,
                    postponed |-> <<>>, done |-> FALSE, limited |-> FALSE]
           F == DepositSteps(A, seq)
           r == RunDeposits(base, seq)
<1>1. seq \in Seq(PendingDeposit) /\ n \in Nat /\ st.deposit_balance_to_consume \in Nat
  BY Fields
<1>2. available \in Nat
  BY <1>1, Limits
<1>3. process_pending_deposits(st) =
        [r.st EXCEPT
           !.pending_deposits = SubSeq(@, r.next + 1, Len(@)) \o r.postponed,
           !.deposit_balance_to_consume = IF r.limited THEN available - r.processed ELSE 0]
  BY DEF process_pending_deposits, RunDeposits, base, seq, available
<1> HIDE DEF available
<1>4. base \in A /\ base.st = st /\ base.next = 0 /\ base.postponed = <<>>
  <2>1. st \in Alike(st) /\ <<>> \in Seq(PendingDeposit)
    BY ConservingItself
  <2>2. base \in [st : Alike(st), available : {available}, processed : Nat, next : Nat,
                  postponed : Seq(PendingDeposit), done : BOOLEAN, limited : BOOLEAN]
    BY <2>1
  <2>3. base.processed <= available
    BY <1>2
  <2> QED
    BY <2>2, <2>3 DEF Depositing
<1> HIDE DEF base, seq
<1>5. ASSUME NEW a \in A, NEW i \in 1..n
      PROVE  HandleDeposit(a, seq[i]) \in A /\ Turn(a, HandleDeposit(a, seq[i]), seq[i])
  <2>1. seq[i] \in PendingDeposit
    BY <1>1
  <2> QED
    BY <1>2, <2>1, HandleDepositKeeps
<1> HIDE DEF A
<1>6. F \in [A -> [1..n -> A]]
  BY <1>5 DEF DepositSteps
<1>7. IsLoop(A, F, base, n)
  BY <1>1, <1>4, <1>6 DEF IsLoop
<1> HIDE DEF n, F
<1>8. PICK t : /\ t \in [0..n -> A] /\ t[0] = base
               /\ \A i \in 1..n : t[i] = HandleDeposit(t[i - 1], seq[i])
               /\ r = t[n]
  <2>1. seq \in Seq(PendingDeposit) /\ IsLoop(A, DepositSteps(A, seq), base, Len(seq))
    BY <1>1, <1>7 DEF n, F
  <2>2. \E t : /\ t \in [0..Len(seq) -> A] /\ t[0] = base
               /\ \A i \in 1..Len(seq) : t[i] = HandleDeposit(t[i - 1], seq[i])
               /\ RunDeposits(base, seq) = t[Len(seq)]
    BY <1>4, <2>1, FoldDeposits
  <2> QED
    BY <2>2 DEF n
<1> HIDE DEF r
<1>9. \A a \in A : /\ a.st \in Alike(st) /\ a.processed \in Nat /\ a.processed <= available
                   /\ a.next \in Nat /\ a.postponed \in Seq(PendingDeposit)
                   /\ Held(a) \in Int
  <2> SUFFICES ASSUME NEW a \in A
               PROVE  /\ a.st \in Alike(st) /\ a.processed \in Nat /\ a.processed <= available
                      /\ a.next \in Nat /\ a.postponed \in Seq(PendingDeposit) /\ Held(a) \in Int
    OBVIOUS
  <2>1. /\ a.st \in Alike(st) /\ a.processed \in Nat /\ a.processed <= available
        /\ a.next \in Nat /\ a.postponed \in Seq(PendingDeposit)
    BY DEF A, Depositing
  <2>2. Wealth(a.st) \in Int
    BY <2>1, WealthIsInt DEF Alike
  <2>3. Total(Amounts(a.postponed)) \in Nat
    BY <2>1, DepositAmounts
  <2> QED
    BY <2>1, <2>2, <2>3 DEF Held
(* What it holds is what there was and the deposits it has taken.                  *)
<1> DEFINE Taken(k) == Total(Amounts(SubSeq(seq, 1, k)))
           T == {i \in 0..n : /\ t[i].next <= i /\ (~t[i].done => t[i].next = i)
                              /\ Held(t[i]) = Wealth(st) + Taken(t[i].next)}
<1>10. 0 \in T
  <2>1. t[0] = base /\ t[0].next = 0 /\ 0 \in 0..n
    BY <1>1, <1>4, <1>8
  <2>2. SubSeq(seq, 1, 0) = <<>> /\ Amounts(<<>>) = <<>>
    BY <1>1 DEF Amounts
  <2>3. Taken(0) = 0 /\ Total(Amounts(<<>>)) = 0
    BY <2>2, TotalEmpty
  <2>4. Wealth(st) \in Int
    BY WealthIsInt
  <2>5. Held(t[0]) = Wealth(st)
    BY <1>4, <2>1, <2>3, <2>4 DEF Held
  <2> HIDE DEF Taken
  <2> QED
    BY <2>1, <2>3, <2>4, <2>5
<1>11. ASSUME NEW i \in 1..n, i - 1 \in T PROVE i \in T
  <2> DEFINE a == t[i - 1]
             b == t[i]
             d == seq[i]
  <2>1. a \in A /\ i \in 0..n /\ b = HandleDeposit(a, d)
    BY <1>1, <1>8, <1>11
  <2>2. Turn(a, b, d)
    BY <1>5, <2>1
  <2>3. a.next \in Nat /\ a.next <= i - 1 /\ (~a.done => a.next = i - 1)
        /\ Held(a) = Wealth(st) + Taken(a.next) /\ Held(a) \in Int
    BY <1>9, <1>11, <2>1
  <2>4. CASE b.done /\ b.next = a.next /\ Held(b) = Held(a)
    <3> HIDE DEF a, b, d, Taken
    <3>1. b.next <= i /\ (~b.done => b.next = i) /\ Held(b) = Wealth(st) + Taken(b.next)
      BY <2>3, <2>4
    <3> QED
      BY <2>1, <3>1 DEF b
  <2>5. CASE ~a.done /\ ~b.done /\ b.next = a.next + 1 /\ Held(b) = Held(a) + d.amount
    <3>1. a.next = i - 1 /\ b.next = i
      BY <2>3, <2>5
    <3>2. i \in 1..Len(seq)
      BY DEF n
    <3>3. /\ SubSeq(seq, 1, i - 1) \in Seq(PendingDeposit) /\ d \in PendingDeposit
          /\ SubSeq(seq, 1, i) = Append(SubSeq(seq, 1, i - 1), d)
      BY <1>1, <3>2, Prefix
    <3>4. Taken(i) = Taken(i - 1) + d.amount /\ Taken(i - 1) \in Nat /\ d.amount \in Nat
      BY <3>3, DepositAmounts
    <3>5. Wealth(st) \in Int
      BY WealthIsInt
    <3> HIDE DEF a, b, d, Taken
    <3>6. b.next <= i /\ (~b.done => b.next = i) /\ Held(b) = Wealth(st) + Taken(b.next)
      BY <2>3, <2>5, <3>1, <3>4, <3>5
    <3> QED
      BY <2>1, <3>6 DEF b
  <2> QED
    BY <2>2, <2>4, <2>5 DEF Turn
<1>12. n \in T
  <2>1. \A i \in 0..n : i \in T
    <3> HIDE DEF T
    <3> QED
      BY <1>1, <1>10, <1>11, UpTo
  <2> QED
    BY <1>1, <2>1
<1>13. r \in A /\ r.next <= n /\ Held(r) = Wealth(st) + Taken(r.next)
  BY <1>1, <1>8, <1>12
<1> DEFINE s == r.st
           k == r.next
           p == r.postponed
           rest == SubSeq(seq, k + 1, n)
           queue == rest \o p
           left == IF r.limited THEN available - r.processed ELSE 0
           after == [s EXCEPT !.pending_deposits = queue, !.deposit_balance_to_consume = left]
<1>14. s \in Alike(st) /\ k \in 0..n /\ p \in Seq(PendingDeposit) /\ left \in Nat
  <2>1. s \in Alike(st) /\ k \in Nat /\ p \in Seq(PendingDeposit)
        /\ r.processed \in Nat /\ r.processed <= available
    BY <1>9, <1>13
  <2> QED
    BY <1>1, <1>2, <1>13, <2>1
<1>15. Held(r) = Wealth(s) + Total(Amounts(p))
  BY DEF Held
<1>16. process_pending_deposits(st) = after
  <2>1. s.pending_deposits = seq
    BY <1>14 DEF Alike, seq
  <2> QED
    BY <1>3, <2>1 DEF n
<1> HIDE DEF s, k, p, left, T
<1>17. rest \in Seq(PendingDeposit) /\ queue \in Seq(PendingDeposit)
  <2>1. rest \in Seq(PendingDeposit)
    <3>1. k \in Nat
      BY <1>14
    <3> QED
      BY <1>1, <3>1, Remaining DEF n
  <2> HIDE DEF rest
  <2> QED
    BY <1>14, <2>1
<1>18. Total(Amounts(queue)) = Total(Amounts(rest)) + Total(Amounts(p))
       /\ Total(Amounts(rest)) \in Nat /\ Total(Amounts(p)) \in Nat /\ Total(Amounts(seq)) \in Nat
  <2> HIDE DEF rest
  <2> QED
    BY <1>1, <1>14, <1>17, DepositAmounts
<1>19. Total(Amounts(seq)) = Taken(k) + Total(Amounts(rest)) /\ Taken(k) \in Nat
  <2> DEFINE w == Amounts(seq)
  <2>0. \A d \in PendingDeposit : d.amount \in Nat
    BY DepositAmounts
  <2>1. w \in Seq(Nat) /\ w \in Seq(Int) /\ Len(w) = n
    BY <1>1, <2>0, AmountsOf DEF n
  <2>2. Amounts(SubSeq(seq, 1, k)) = SubSeq(w, 1, k)
    <3>1. 1 \in Nat \ {0} /\ k \in 0..Len(seq)
      BY <1>14 DEF n
    <3> QED
      BY <1>1, <2>0, <3>1, AmountsSubSeq
  <2>3. Amounts(rest) = SubSeq(w, k + 1, n)
    <3>1. k + 1 \in Nat \ {0} /\ n \in 0..Len(seq)
      BY <1>1, <1>14 DEF n
    <3> QED
      BY <1>1, <2>0, <3>1, AmountsSubSeq
  <2> HIDE DEF w, rest
  <2>4. Total(w) = Total(SubSeq(w, 1, k)) + Total(SubSeq(w, k + 1, Len(w)))
    <3>1. k \in 0..Len(w)
      BY <1>14, <2>1
    <3> QED
      BY <2>1, <3>1, TotalSplit
  <2>5. Taken(k) \in Nat
    <3>1. SubSeq(w, 1, k) \in Seq(Nat)
      <4>1. \A i \in 1..k : i \in 1..n /\ w[i] \in Nat
        BY <1>1, <1>14, <2>1
      <4> QED
        BY <1>14, <4>1
    <3> QED
      BY <2>2, <3>1, TotalType
  <2> QED
    BY <2>1, <2>2, <2>3, <2>4, <2>5 DEF w
<1> HIDE DEF queue, rest, Taken
<1>20. s \in Sound /\ Len(s.validators) >= Len(st.validators) /\ s.pending_deposits = seq
  BY <1>14 DEF Alike, seq
<1>21. s \in BeaconState /\ IndicesExist(s) /\ Backlog(s.exits) /\ Backlog(s.consolidations)
  BY <1>20 DEF Sound
<1>22. /\ after \in BeaconState /\ after.validators = s.validators /\ after.balances = s.balances
       /\ after.pending_deposits = queue /\ after.net = s.net
       /\ after.pending_partial_withdrawals = s.pending_partial_withdrawals
       /\ after.pending_consolidations = s.pending_consolidations
       /\ after.exits = s.exits /\ after.consolidations = s.consolidations
       /\ after.next_withdrawal_validator_index = s.next_withdrawal_validator_index
  BY <1>14, <1>17, <1>21 DEF BeaconState
<1> HIDE DEF after
<1>23. IndicesExist(after)
  BY <1>21, <1>22 DEF IndicesExist
<1>24. after \in Sound
  BY <1>21, <1>22, <1>23 DEF Sound
<1>25. Wealth(after) = Wealth(st)
  <2>1. Wealth(after) = Total(s.balances) + Total(Amounts(queue)) + s.net
    BY <1>22 DEF Wealth
  <2>2. Wealth(s) = Total(s.balances) + Total(Amounts(seq)) + s.net
    BY <1>20 DEF Wealth
  <2>3. Total(s.balances) \in Nat /\ s.net \in Int /\ Wealth(st) \in Int
    BY <1>20, WealthIsInt
  <2>4. Wealth(s) + Total(Amounts(p)) = Wealth(st) + Taken(k)
    BY <1>13, <1>15 DEF k
  <2> DEFINE x == Total(s.balances)
             q == Total(Amounts(queue))
             a == Total(Amounts(rest))
             b == Total(Amounts(p))
             c == Total(Amounts(seq))
             e == Taken(k)
             w == Wealth(st)
             net == s.net
  <2>5. /\ x \in Nat /\ a \in Nat /\ b \in Nat /\ c \in Nat /\ e \in Nat /\ w \in Int /\ net \in Int
        /\ q = a + b /\ c = e + a /\ (x + c + net) + b = w + e
    BY <1>18, <1>19, <2>2, <2>3, <2>4
  <2>6. Wealth(after) = x + q + net
    BY <2>1
  <2> HIDE DEF x, q, a, b, c, e, w, net
  <2>7. x + q + net = w
    BY <2>5
  <2> QED
    BY <2>6, <2>7 DEF w
<1> QED
  BY <1>16, <1>20, <1>22, <1>24, <1>25

--------------------------------------------------------------------------------
(* The epoch *)

(* process_effective_balance_updates touches no balance. *)
LEMMA EffectiveBalances ==
    ASSUME NEW st \in Sound
    PROVE  process_effective_balance_updates(st) \in Conserving(st)
<1> DEFINE increment == EFFECTIVE_BALANCE_INCREMENT \div HYSTERESIS_QUOTIENT
           Updated(v, balance) ==
             IF \/ balance + increment * HYSTERESIS_DOWNWARD_MULTIPLIER < v.effective_balance
                \/ v.effective_balance + increment * HYSTERESIS_UPWARD_MULTIPLIER < balance
               THEN [v EXCEPT !.effective_balance =
                       Lesser(balance - (balance % EFFECTIVE_BALANCE_INCREMENT),
                              get_max_effective_balance(v))]
               ELSE v
           vs == [i \in DOMAIN st.validators |-> Updated(st.validators[i], st.balances[i])]
<1>1. /\ st.validators \in Seq(Validator) /\ Len(st.validators) \in Nat
      /\ DOMAIN st.validators = 1..Len(st.validators)
  BY Fields
<1>2. process_effective_balance_updates(st) = [st EXCEPT !.validators = vs]
  BY DEF process_effective_balance_updates
<1>3. ASSUME NEW v \in Validator, NEW balance \in Nat PROVE Updated(v, balance) \in Validator
  <2> DEFINE m == balance % EFFECTIVE_BALANCE_INCREMENT
             e == Lesser(balance - m, get_max_effective_balance(v))
  <2>1. m \in 0..(EFFECTIVE_BALANCE_INCREMENT - 1) /\ m <= balance
    BY Constants, Division
  <2>2. get_max_effective_balance(v) \in Nat
    BY Constants DEF get_max_effective_balance
  <2> HIDE DEF m
  <2>3. e \in Nat
    BY <2>1, <2>2, Constants DEF Lesser
  <2> HIDE DEF e
  <2>4. [v EXCEPT !.effective_balance = e] \in Validator
    BY <2>3 DEF Validator
  <2>5. Updated(v, balance) \in {[v EXCEPT !.effective_balance = e], v}
    BY DEF e, m
  <2> QED
    BY <2>4, <2>5
<1>4. ASSUME NEW i \in DOMAIN st.validators
      PROVE  Updated(st.validators[i], st.balances[i]) \in Validator
  <2>1. st.validators[i] \in Validator /\ st.balances[i] \in Nat
    BY FieldsOfOne DEF Indices
  <2> QED
    BY <1>3, <2>1
<1>5. vs \in Seq(Validator) /\ Len(vs) = Len(st.validators)
  <2> DEFINE n == Len(st.validators)
  <2>1. vs = [i \in 1..n |-> vs[i]] /\ \A i \in 1..n : vs[i] \in Validator /\ n \in Nat
    BY <1>1, <1>4
  <2> HIDE DEF vs, n
  <2>2. n \in Nat
    BY <1>1 DEF n
  <2>3. vs \in Seq(Validator) /\ Len(vs) = n
    BY <2>1, <2>2
  <2> QED
    BY <2>3 DEF n
<1> HIDE DEF vs
<1> QED
  BY <1>2, <1>5, ValidatorsChange

(* process_slashings_reset touches no balance. *)
LEMMA SlashingsReset ==
    ASSUME NEW st \in Sound
    PROVE  process_slashings_reset(st) \in Conserving(st)
<1> DEFINE e == get_current_epoch(st) + 1
           k == e % EPOCHS_PER_SLASHINGS_VECTOR
           sl == [st.slashings EXCEPT ![k] = 0]
<1>1. st.slashings \in [0..EPOCHS_PER_SLASHINGS_VECTOR - 1 -> Nat]
  BY Fields
<1>2. process_slashings_reset(st) = [st EXCEPT !.slashings = sl]
  BY DEF process_slashings_reset
<1>3. sl \in [0..EPOCHS_PER_SLASHINGS_VECTOR - 1 -> Nat]
  <2> HIDE DEF k
  <2> QED
    BY <1>1
<1> HIDE DEF sl
<1>4. 0 \in Nat
  OBVIOUS
<1> QED
  BY <1>2, <1>3, <1>4, NumbersChange

(* An epoch conserves the gwei and everything else that is sound.                  *)
LEMMA EpochKeeps ==
    ASSUME NEW st \in Sound, NEW finalized \in Nat, NEW penalized,
           penalized.index \in Indices(st), penalized.amount \in Nat
    PROVE  /\ process_epoch(st, finalized, penalized) \in Sound
           /\ Wealth(process_epoch(st, finalized, penalized)) = Wealth(st)
<1> DEFINE weighed == [st EXCEPT !.finalized_epoch = finalized]
           fined == IF penalized.amount = 0 THEN weighed
                    ELSE Penalized(weighed, penalized.index, penalized.amount)
           updated == process_registry_updates(fined)
           registered == process_slashings(updated)
           deposited == process_pending_deposits(registered)
           queued == process_pending_consolidations(deposited)
           balanced == process_effective_balance_updates(queued)
           reset == process_slashings_reset(balanced)
<1>1. process_epoch(st, finalized, penalized) = reset
  BY DEF process_epoch
<1>2. weighed \in Conserving(st)
  <2>1. st.slot \in Nat /\ st.slashings \in [0..EPOCHS_PER_SLASHINGS_VECTOR - 1 -> Nat]
    BY Fields
  <2> QED
    BY <2>1, NumbersChange
<1> HIDE DEF weighed
<1>3. weighed \in Sound /\ penalized.index \in Indices(weighed)
  <2>1. weighed \in Alike(st)
    BY <1>2 DEF Conserving
  <2> QED
    BY <2>1, SameIndices
<1>4. fined \in Conserving(st)
  <2>1. Penalized(weighed, penalized.index, penalized.amount) \in Conserving(weighed)
    BY <1>3, DecreaseBalance
  <2>2. Penalized(weighed, penalized.index, penalized.amount) \in Conserving(st)
    BY <1>2, <2>1, ConservingTransitive
  <2> QED
    BY <1>2, <2>2
<1> HIDE DEF fined
<1>5. fined \in Sound /\ Wealth(fined) = Wealth(st)
  BY <1>4 DEF Conserving, Alike
<1>6. updated \in Sound /\ Wealth(updated) = Wealth(st)
  BY <1>5, RegistryUpdates DEF Conserving, Alike
<1> HIDE DEF updated
<1>7. registered \in Sound /\ Wealth(registered) = Wealth(st)
  BY <1>6, Slashings DEF Conserving, Alike
<1> HIDE DEF registered
<1>8. deposited \in Sound /\ Wealth(deposited) = Wealth(st)
  BY <1>7, PendingDeposits
<1> HIDE DEF deposited
<1>9. queued \in Sound /\ Wealth(queued) = Wealth(st)
  BY <1>8, PendingConsolidations
<1> HIDE DEF queued
<1>10. balanced \in Sound /\ Wealth(balanced) = Wealth(st)
  BY <1>9, EffectiveBalances DEF Conserving, Alike
<1> HIDE DEF balanced
<1>11. reset \in Sound /\ Wealth(reset) = Wealth(st)
  BY <1>10, SlashingsReset DEF Conserving, Alike
<1> QED
  BY <1>1, <1>11

--------------------------------------------------------------------------------
(* Withdrawals *)

Withdrawal(n) == [index : 1..n, amount : Nat]

Picked(ws, i) == [k \in DOMAIN ws |-> IF ws[k].index = i THEN ws[k].amount ELSE 0]

(* The amounts of one validator among the withdrawals. *)
LEMMA PickedIs ==
    ASSUME NEW n \in Nat, NEW ws \in Seq(Withdrawal(n)), NEW i
    PROVE  /\ Picked(ws, i) \in Seq(Nat) /\ Picked(ws, i) \in Seq(Int)
           /\ Len(Picked(ws, i)) = Len(ws)
           /\ \A k \in 1..Len(ws) :
                 Picked(ws, i)[k] = IF ws[k].index = i THEN ws[k].amount ELSE 0
           /\ AmountOf(ws, i) = Total(Picked(ws, i))
           /\ AmountOf(ws, i) \in Nat
<1> DEFINE m == Len(ws)
           p == [k \in 1..m |-> IF ws[k].index = i THEN ws[k].amount ELSE 0]
<1>1. m \in Nat /\ DOMAIN ws = 1..m /\ \A k \in 1..m : ws[k] \in Withdrawal(n)
  OBVIOUS
<1>2. \A k \in 1..m : ws[k].amount \in Nat
  BY <1>1 DEF Withdrawal
<1>3. Picked(ws, i) = p /\ AmountOf(ws, i) = Total(p)
  BY <1>1 DEF Picked, AmountOf
<1> HIDE DEF m
<1>4. p \in Seq(Nat) /\ p \in Seq(Int) /\ Len(p) = m
  BY <1>1, <1>2
<1>5. \A k \in 1..m : p[k] = IF ws[k].index = i THEN ws[k].amount ELSE 0
  OBVIOUS
<1> HIDE DEF p
<1>6. Total(p) \in Nat
  BY <1>4, TotalType
<1> QED
  BY <1>3, <1>4, <1>5, <1>6 DEF m

(* No withdrawals, no amount. *)
LEMMA PickedEmpty == \A i : AmountOf(<<>>, i) = 0
<1> SUFFICES ASSUME NEW i PROVE AmountOf(<<>>, i) = 0
  OBVIOUS
<1>1. Picked(<<>>, i) = <<>>
  BY DEF Picked
<1>2. AmountOf(<<>>, i) = Total(Picked(<<>>, i))
  BY DEF Picked, AmountOf
<1> QED
  BY <1>1, <1>2, TotalEmpty

(* The amount of one validator with one withdrawal more. *)
LEMMA PickedAppend ==
    ASSUME NEW n \in Nat, NEW ws \in Seq(Withdrawal(n)), NEW w \in Withdrawal(n), NEW i
    PROVE  AmountOf(Append(ws, w), i) = AmountOf(ws, i) + (IF w.index = i THEN w.amount ELSE 0)
<1> DEFINE m == Len(ws)
           vs == Append(ws, w)
           x == IF w.index = i THEN w.amount ELSE 0
           p == Picked(ws, i)
           q == Picked(vs, i)
           r == Append(p, x)
<1>1. /\ m \in Nat /\ vs \in Seq(Withdrawal(n)) /\ Len(vs) = m + 1 /\ vs[m + 1] = w
      /\ \A k \in 1..m : vs[k] = ws[k]
  OBVIOUS
<1>2. x \in Nat
  BY DEF Withdrawal
<1> HIDE DEF vs
<1>3. /\ p \in Seq(Nat) /\ p \in Seq(Int) /\ Len(p) = m /\ AmountOf(ws, i) = Total(p)
      /\ \A k \in 1..m : p[k] = IF ws[k].index = i THEN ws[k].amount ELSE 0
  BY PickedIs
<1>4. /\ q \in Seq(Nat) /\ Len(q) = m + 1 /\ AmountOf(vs, i) = Total(q)
      /\ \A k \in 1..(m + 1) : q[k] = IF vs[k].index = i THEN vs[k].amount ELSE 0
  <2>1. /\ q \in Seq(Nat) /\ Len(q) = Len(vs) /\ AmountOf(vs, i) = Total(q)
        /\ \A k \in 1..Len(vs) : q[k] = IF vs[k].index = i THEN vs[k].amount ELSE 0
    BY <1>1, PickedIs
  <2> QED
    BY <1>1, <2>1
<1> HIDE DEF p, q
<1>5. x = IF w.index = i THEN w.amount ELSE 0
  OBVIOUS
<1> HIDE DEF x, m
<1>6. r \in Seq(Nat) /\ Len(r) = m + 1 /\ r[m + 1] = x /\ \A k \in 1..m : r[k] = p[k]
  BY <1>1, <1>2, <1>3
<1> HIDE DEF r
<1>7. ASSUME NEW k \in 1..Len(r) PROVE q[k] = r[k]
  <2>1. k \in 1..(m + 1) /\ (k = m + 1 \/ k \in 1..m)
    BY <1>1, <1>6
  <2>2. CASE k = m + 1
    BY <1>1, <1>4, <1>5, <1>6, <2>1, <2>2
  <2>3. CASE k \in 1..m
    BY <1>1, <1>3, <1>4, <1>6, <2>1, <2>3
  <2> QED
    BY <2>1, <2>2, <2>3
<1>8. q = r
  BY <1>4, <1>6, <1>7, SameSeq
<1>9. Total(Append(p, x)) = Total(p) + x
  BY <1>2, <1>3, TotalAppend
<1> QED
  BY <1>3, <1>4, <1>8, <1>9 DEF r, vs, x

(* A prefix withdraws no more than the whole. *)
LEMMA PickedPrefix ==
    ASSUME NEW n \in Nat, NEW ws \in Seq(Withdrawal(n)), NEW j \in 0..Len(ws), NEW i
    PROVE  AmountOf(SubSeq(ws, 1, j), i) <= AmountOf(ws, i)
<1> DEFINE m == Len(ws)
           vs == SubSeq(ws, 1, j)
           p == Picked(ws, i)
           q == Picked(vs, i)
           r == SubSeq(p, 1, j)
           rest == SubSeq(p, j + 1, m)
<1>1. m \in Nat /\ j \in Nat /\ j <= m
  OBVIOUS
<1>2. vs \in Seq(Withdrawal(n)) /\ Len(vs) = j /\ \A k \in 1..j : vs[k] = ws[k]
  <2>1. \A k \in 1..j : k \in 1..m /\ ws[k] \in Withdrawal(n)
    BY <1>1
  <2> QED
    BY <1>1, <2>1
<1>3. /\ p \in Seq(Nat) /\ p \in Seq(Int) /\ Len(p) = m /\ AmountOf(ws, i) = Total(p)
      /\ \A k \in 1..m : p[k] = IF ws[k].index = i THEN ws[k].amount ELSE 0
  BY PickedIs
<1> HIDE DEF vs, m
<1>4. /\ q \in Seq(Nat) /\ Len(q) = j /\ AmountOf(vs, i) = Total(q)
      /\ \A k \in 1..j : q[k] = IF vs[k].index = i THEN vs[k].amount ELSE 0
  <2>1. /\ q \in Seq(Nat) /\ Len(q) = Len(vs) /\ AmountOf(vs, i) = Total(q)
        /\ \A k \in 1..Len(vs) : q[k] = IF vs[k].index = i THEN vs[k].amount ELSE 0
    BY <1>2, PickedIs
  <2> QED
    BY <1>2, <2>1
<1> HIDE DEF p, q
<1>5. r \in Seq(Nat) /\ Len(r) = j /\ \A k \in 1..j : r[k] = p[k]
  <2>1. \A k \in 1..j : k \in 1..m /\ p[k] \in Nat
    BY <1>1, <1>3
  <2> QED
    BY <1>1, <1>3, <2>1
<1>6. rest \in Seq(Nat)
  BY <1>1, <1>3, Remaining
<1>7. Total(p) = Total(r) + Total(rest)
  <2>1. j \in 0..Len(p)
    BY <1>1, <1>3
  <2> QED
    BY <1>3, <2>1, TotalSplit
<1> HIDE DEF r, rest
<1>8. ASSUME NEW k \in 1..Len(r) PROVE q[k] = r[k]
  <2>1. k \in 1..j /\ k \in 1..m
    BY <1>1, <1>5
  <2> QED
    BY <1>2, <1>3, <1>4, <1>5, <2>1
<1>9. q = r
  BY <1>4, <1>5, <1>8, SameSeq
<1>10. Total(r) \in Nat /\ Total(rest) \in Nat
  BY <1>5, <1>6, TotalType
<1> QED
  BY <1>3, <1>4, <1>7, <1>9, <1>10 DEF vs

(* By how much the withdrawals from each balance exceed it.                        *)
Excess(st, ws) == [i \in Indices(st) |-> Greater(AmountOf(ws, i) - st.balances[i], 0)]

(* Numbers, as many as there are validators. *)
LEMMA ExcessType ==
    ASSUME NEW st \in Sound, NEW ws \in Seq(Withdrawal(Len(st.validators)))
    PROVE  /\ Excess(st, ws) \in Seq(Nat) /\ Excess(st, ws) \in Seq(Int)
           /\ Len(Excess(st, ws)) = Len(st.validators)
           /\ \A i \in Indices(st) :
                 Excess(st, ws)[i] = Greater(AmountOf(ws, i) - st.balances[i], 0)
<1> DEFINE n == Len(st.validators)
           x(i) == Greater(AmountOf(ws, i) - st.balances[i], 0)
<1>1. n \in Nat /\ Indices(st) = 1..n
  BY Fields DEF Indices
<1> HIDE DEF n
<1>2. \A i \in 1..n : x(i) \in Nat
  <2> SUFFICES ASSUME NEW i \in 1..n PROVE x(i) \in Nat
    OBVIOUS
  <2>1. AmountOf(ws, i) \in Nat /\ st.balances[i] \in Nat
    BY <1>1, PickedIs, FieldsOfOne DEF n
  <2> QED
    BY <2>1 DEF Greater
<1>3. Excess(st, ws) = [i \in 1..n |-> x(i)]
  BY <1>1 DEF Excess
<1> HIDE DEF x
<1>4. /\ [i \in 1..n |-> x(i)] \in Seq(Nat) /\ [i \in 1..n |-> x(i)] \in Seq(Int)
      /\ Len([i \in 1..n |-> x(i)]) = n
  BY <1>1, <1>2
<1> QED
  BY <1>1, <1>3, <1>4 DEF n, x

(* Without withdrawals none is exceeded. *)
LEMMA NoExcess == ASSUME NEW st \in Sound PROVE Total(Excess(st, <<>>)) = 0
<1> DEFINE n == Len(st.validators)
           e == Excess(st, <<>>)
           t == [i \in 0..n |-> 0]
<1>1. n \in Nat /\ Indices(st) = 1..n
  BY Fields DEF Indices
<1>2. e \in Seq(Int) /\ Len(e) = n
      /\ \A i \in 1..n : e[i] = Greater(AmountOf(<<>>, i) - st.balances[i], 0)
  <2>1. <<>> \in Seq(Withdrawal(n))
    OBVIOUS
  <2> QED
    BY <1>1, <2>1, ExcessType
<1>3. \A i \in 1..n : e[i] = 0
  <2> SUFFICES ASSUME NEW i \in 1..n PROVE e[i] = 0
    OBVIOUS
  <2>1. AmountOf(<<>>, i) = 0 /\ st.balances[i] \in Nat
    BY <1>1, PickedEmpty, FieldsOfOne
  <2>2. e[i] = Greater(0 - st.balances[i], 0)
    BY <1>2, <2>1
  <2> QED
    BY <2>1, <2>2 DEF Greater
<1> HIDE DEF e, n
<1>4. IsTotal(t, e)
  BY <1>1, <1>2, <1>3 DEF IsTotal
<1>5. Total(e) = t[Len(e)]
  <2> HIDE DEF t
  <2> QED
    BY <1>2, <1>4, TotalIs
<1>6. Total(e) = 0
  BY <1>1, <1>2, <1>5
<1> QED
  BY <1>6 DEF e

(* What a payment of b, after payments of a, takes from a balance c that stops at 0. *)
LEMMA Overpaid ==
    ASSUME NEW a \in Nat, NEW b \in Nat, NEW c \in Nat
    PROVE  LET left == Greater(c - a, 0)
           IN /\ left \in Nat /\ Lesser(b, left) \in Nat
              /\ Greater(left - b, 0) = Greater(c - (a + b), 0)
              /\ Lesser(b, left) = b - Greater((a + b) - c, 0) + Greater(a - c, 0)
  BY DEF Greater, Lesser

Paying(st) == [st : {st}, withdrawals : Seq(Withdrawal(Len(st.validators))),
               processed : Nat, done : BOOLEAN]

(* One turn of the loop over the partial withdrawals. *)
LEMMA HandlePartialKeeps ==
    ASSUME NEW st \in Sound, NEW w \in PendingPartialWithdrawal, w.index \in Indices(st),
           NEW acc \in Paying(st)
    PROVE  HandlePartial(acc, w) \in Paying(st)
<1> DEFINE n == Len(st.validators)
           excess == acc.st.balances[w.index] - MIN_ACTIVATION_BALANCE
           x == [index |-> w.index, amount |-> Lesser(excess, w.amount)]
           ws == Append(acc.withdrawals, x)
           r1 == [acc EXCEPT !.done = TRUE]
           r2 == [acc EXCEPT !.processed = @ + 1]
           r3 == [acc EXCEPT !.processed = @ + 1, !.withdrawals = ws]
<1>1. /\ acc.st = st /\ acc.withdrawals \in Seq(Withdrawal(n)) /\ acc.processed \in Nat
      /\ n \in Nat /\ w.index \in 1..n /\ st.balances[w.index] \in Nat /\ w.amount \in Nat
      /\ MIN_ACTIVATION_BALANCE \in Nat
  <2>1. n \in Nat /\ w.index \in 1..n /\ st.balances[w.index] \in Nat
    BY Fields, FieldsOfOne
  <2> QED
    BY <2>1, Constants DEF Paying, PendingPartialWithdrawal
<1>2. \/ HandlePartial(acc, w) = r1
      \/ HandlePartial(acc, w) = [acc EXCEPT !.processed = @ + 1, !.withdrawals = @]
      \/ HandlePartial(acc, w) = r3 /\ excess > 0
  BY DEF HandlePartial
<1>3. [acc EXCEPT !.processed = @ + 1, !.withdrawals = @] = r2
  BY DEF Paying
<1>4. r1 \in Paying(st) /\ r2 \in Paying(st)
  <2>1. r1 \in Paying(st)
    BY DEF Paying
  <2>2. r2 \in Paying(st)
    BY DEF Paying
  <2> QED
    BY <2>1, <2>2
<1>5. ASSUME excess > 0 PROVE r3 \in Paying(st)
  <2>1. Lesser(excess, w.amount) \in Nat
    BY <1>1, <1>5 DEF Lesser
  <2>2. x \in Withdrawal(n)
    BY <1>1, <2>1 DEF Withdrawal
  <2> HIDE DEF x
  <2>3. ws \in Seq(Withdrawal(n))
    BY <1>1, <2>2
  <2> HIDE DEF ws, n
  <2>4. [acc EXCEPT !.withdrawals = ws] \in Paying(st)
    BY <2>3 DEF Paying, n
  <2>5. r3 = [[acc EXCEPT !.withdrawals = ws] EXCEPT !.processed = @ + 1]
    BY DEF Paying
  <2> DEFINE m == [acc EXCEPT !.withdrawals = ws]
  <2>6. m \in Paying(st) /\ r3 = [m EXCEPT !.processed = @ + 1]
    BY <2>4, <2>5
  <2> HIDE DEF m, r3
  <2> QED
    BY <2>6 DEF Paying
<1> HIDE DEF r1, r2, r3, excess
<1> QED
  BY <1>2, <1>3, <1>4, <1>5

(* The partial withdrawals of a block. *)
LEMMA Partials ==
    ASSUME NEW st \in Sound
    PROVE  /\ PartialWithdrawals(st).withdrawals \in Seq(Withdrawal(Len(st.validators)))
           /\ PartialWithdrawals(st).processed \in Nat
<1> DEFINE seq == st.pending_partial_withdrawals
           n == Len(seq)
           A == Paying(st)
           base == [st |-> st, withdrawals |-> <<>>, processed |-> 0, done |-> FALSE]
           F == PartialSteps(A, seq)
           r == RunPartials(base, seq)
<1>1. seq \in Seq(PendingPartialWithdrawal) /\ n \in Nat
  BY Fields
<1>2. \A i \in 1..n : seq[i] \in PendingPartialWithdrawal /\ seq[i].index \in Indices(st)
  <2>1. IndicesExist(st)
    BY DEF Sound
  <2>2. DOMAIN seq = 1..n /\ \A i \in 1..n : seq[i] \in PendingPartialWithdrawal
    BY <1>1
  <2> QED
    BY <2>1, <2>2 DEF IndicesExist, Indices
<1>3. base \in A
  BY DEF Paying
<1>4. PartialWithdrawals(st) = r
  BY DEF PartialWithdrawals, RunPartials
<1> HIDE DEF seq, base
<1>5. ASSUME NEW a \in A, NEW i \in 1..n PROVE HandlePartial(a, seq[i]) \in A
  BY <1>2, HandlePartialKeeps
<1> HIDE DEF A
<1>6. F \in [A -> [1..n -> A]]
  BY <1>5 DEF PartialSteps
<1>7. IsLoop(A, F, base, n)
  BY <1>1, <1>3, <1>6 DEF IsLoop
<1> HIDE DEF n, F
<1>8. PICK t : t \in [0..n -> A] /\ r = t[n]
  <2>1. seq \in Seq(PendingPartialWithdrawal) /\ IsLoop(A, PartialSteps(A, seq), base, Len(seq))
    BY <1>1, <1>7 DEF n, F
  <2>2. \E t : /\ t \in [0..Len(seq) -> A] /\ t[0] = base
               /\ \A i \in 1..Len(seq) : t[i] = HandlePartial(t[i - 1], seq[i])
               /\ RunPartials(base, seq) = t[Len(seq)]
    BY <1>3, <2>1, FoldPartials
  <2> QED
    BY <2>2 DEF n
<1>9. r \in A
  BY <1>1, <1>8
<1> HIDE DEF r
<1> QED
  BY <1>4, <1>9 DEF A, Paying

(* A turn of the sweep takes no more from a balance than is left of it, so that what
   exceeds a balance are the partial withdrawals. *)
Sweeping(st) ==
    {acc \in [st : {st}, withdrawals : Seq(Withdrawal(Len(st.validators))), index : Indices(st),
              done : BOOLEAN, underflow : BOOLEAN] :
        Excess(st, acc.withdrawals) = Excess(st, PartialWithdrawals(st).withdrawals)}

(* The next index is one. *)
LEMMA NextIndexType ==
    ASSUME NEW st \in Sound, NEW i \in Nat
    PROVE  NextIndex(st, i) \in Indices(st)
<1> DEFINE n == Len(st.validators)
           m == i % n
<1>1. n \in Nat \ {0} /\ Indices(st) = 1..n
  <2>1. n \in Nat /\ st.next_withdrawal_validator_index \in 1..n /\ DOMAIN st.validators = 1..n
    BY Fields
  <2> QED
    BY <2>1 DEF Indices
<1>2. NextIndex(st, i) = m + 1
  BY DEF NextIndex
<1> HIDE DEF n
<1>3. m \in 0..(n - 1)
  BY <1>1, Division
<1> HIDE DEF m
<1> QED
  BY <1>1, <1>2, <1>3

(* One turn of the sweep. *)
LEMMA SweepOneKeeps ==
    ASSUME NEW st \in Sound, NEW turn, NEW acc \in Sweeping(st)
    PROVE  SweepOne(acc, turn) \in Sweeping(st)
<1> DEFINE n == Len(st.validators)
           R == [st : {st}, withdrawals : Seq(Withdrawal(n)), index : Indices(st),
                 done : BOOLEAN, underflow : BOOLEAN]
           partial == Excess(st, PartialWithdrawals(st).withdrawals)
           v == acc.st.validators[acc.index]
           epoch == get_current_epoch(acc.st)
           balance == acc.st.balances[acc.index] - WithdrawnFrom(acc.withdrawals, acc.index)
           most == get_max_effective_balance(v)
           due == IF v.withdrawable_epoch <= epoch /\ balance > 0 THEN balance
                  ELSE IF v.effective_balance = most /\ balance > most THEN balance - most
                  ELSE 0
           ws == acc.withdrawals
           w == [index |-> acc.index, amount |-> due]
           paid == IF due > 0 THEN Append(acc.withdrawals, w) ELSE acc.withdrawals
           r1 == [acc EXCEPT !.underflow = TRUE]
           r2 == [acc EXCEPT !.withdrawals = paid, !.done = TRUE]
           r3 == [acc EXCEPT !.withdrawals = paid, !.index = NextIndex(acc.st, @)]
<1>1. /\ acc \in R /\ acc.st = st /\ ws \in Seq(Withdrawal(n)) /\ acc.index \in Indices(st)
      /\ Excess(st, ws) = partial
  BY DEF Sweeping
<1>2. n \in Nat /\ acc.index \in 1..n /\ acc.index \in Nat /\ st.balances[acc.index] \in Nat
  BY <1>1, Fields, FieldsOfOne
<1>3. WithdrawnFrom(ws, acc.index) \in Nat /\ balance = st.balances[acc.index] - WithdrawnFrom(ws, acc.index)
  <2>1. AmountOf(ws, acc.index) \in Nat
    <3> HIDE DEF n
    <3> QED
      BY <1>1, <1>2, PickedIs
  <2> QED
    BY <1>1, <2>1 DEF WithdrawnFrom
<1>4. most \in Nat
  BY Constants DEF get_max_effective_balance
<1>5. \/ SweepOne(acc, turn) = acc
      \/ SweepOne(acc, turn) = r1 /\ balance < 0
      \/ SweepOne(acc, turn) \in {r2, r3} /\ ~(balance < 0)
  BY DEF SweepOne
<1> HIDE DEF balance, most
<1>6. balance \in Int /\ due \in Int /\ (~(balance < 0) => due <= balance /\ due \in Nat)
  BY <1>2, <1>3, <1>4
<1> HIDE DEF due
<1>7. ASSUME ~(balance < 0)
      PROVE  paid \in Seq(Withdrawal(n)) /\ Excess(st, paid) = partial
  <2>1. CASE ~(due > 0)
    BY <1>1, <2>1
  <2>2. CASE due > 0
    <3>1. w \in Withdrawal(n)
      BY <1>2, <1>6, <1>7 DEF Withdrawal
    <3> HIDE DEF n
    <3>2. Append(ws, w) \in Seq(Withdrawal(n)) /\ paid = Append(ws, w)
      BY <1>1, <2>2, <3>1
    <3>3. ASSUME NEW i \in Indices(st)
          PROVE  Greater(AmountOf(Append(ws, w), i) - st.balances[i], 0)
                   = Greater(AmountOf(ws, i) - st.balances[i], 0)
      <4>2. w.index = acc.index /\ w.amount = due
        OBVIOUS
      <4> HIDE DEF w
      <4>3. AmountOf(Append(ws, w), i) = AmountOf(ws, i) + (IF acc.index = i THEN due ELSE 0)
        <5>1. AmountOf(Append(ws, w), i) = AmountOf(ws, i) + (IF w.index = i THEN w.amount ELSE 0)
          BY <1>1, <1>2, <3>1, PickedAppend
        <5> QED
          BY <4>2, <5>1
      <4>4. AmountOf(ws, i) \in Nat /\ st.balances[i] \in Nat
        BY <1>1, <1>2, PickedIs, FieldsOfOne
      <4>5. CASE acc.index = i
        <5>1. AmountOf(ws, i) + due <= st.balances[i] /\ AmountOf(ws, i) <= st.balances[i]
          BY <1>3, <1>6, <1>7, <4>4, <4>5 DEF WithdrawnFrom
        <5>2. AmountOf(Append(ws, w), i) = AmountOf(ws, i) + due
          BY <4>3, <4>5
        <5> QED
          BY <1>6, <1>7, <4>4, <5>1, <5>2 DEF Greater
      <4>6. CASE acc.index # i
        BY <4>3, <4>4, <4>6
      <4> QED
        BY <4>5, <4>6
    <3> HIDE DEF w
    <3>4. Excess(st, paid) = Excess(st, ws)
      BY <3>2, <3>3 DEF Excess
    <3> QED
      BY <1>1, <3>2, <3>4
  <2> QED
    BY <2>1, <2>2
<1> HIDE DEF paid
<1> HIDE DEF partial, ws, n
<1>8. CASE SweepOne(acc, turn) = acc
  BY <1>8
<1>9. CASE SweepOne(acc, turn) = r1
  <2>1. r1 \in R /\ r1.withdrawals = ws
    BY <1>1 DEF ws
  <2> HIDE DEF r1
  <2> QED
    BY <1>1, <1>9, <2>1 DEF Sweeping, partial, n
<1>10. CASE SweepOne(acc, turn) \in {r2, r3} /\ ~(balance < 0)
  <2> DEFINE m == [acc EXCEPT !.withdrawals = paid]
             j == NextIndex(acc.st, acc.index)
  <2>1. paid \in Seq(Withdrawal(n)) /\ Excess(st, paid) = partial
    BY <1>7, <1>10
  <2>2. m \in R /\ m.withdrawals = paid
    BY <1>1, <2>1
  <2>3. j \in Indices(st)
    BY <1>1, <1>2, NextIndexType
  <2>4. r2 = [m EXCEPT !.done = TRUE] /\ r3 = [m EXCEPT !.index = j]
    BY <1>1
  <2> HIDE DEF m, j
  <2>5. r2 \in R /\ r2.withdrawals = paid
    <3> HIDE DEF r2
    <3> QED
      BY <2>2, <2>4
  <2>6. r3 \in R /\ r3.withdrawals = paid
    <3> HIDE DEF r3
    <3> QED
      BY <2>2, <2>3, <2>4
  <2> HIDE DEF r2, r3
  <2>7. ASSUME NEW r \in {r2, r3} PROVE r \in Sweeping(st)
    <3>1. r \in R /\ r.withdrawals = paid
      BY <2>5, <2>6
    <3> QED
      BY <2>1, <3>1 DEF Sweeping, partial, n
  <2> QED
    BY <1>10, <2>7
<1> QED
  BY <1>5, <1>8, <1>9, <1>10

(* What a block pays exceeds each balance by what its partial withdrawals exceed it. *)
LEMMA Expected ==
    ASSUME NEW st \in Sound
    PROVE  LET expected == get_expected_withdrawals(st)
           IN /\ expected.withdrawals \in Seq(Withdrawal(Len(st.validators)))
              /\ expected.processed \in Nat
              /\ Excess(st, expected.withdrawals)
                   = Excess(st, PartialWithdrawals(st).withdrawals)
<1> DEFINE partial == PartialWithdrawals(st)
           bound == Lesser(Len(st.validators), MAX_VALIDATORS_PER_WITHDRAWALS_SWEEP)
           seq == [turn \in 1..bound |-> turn]
           n == Len(seq)
           A == Sweeping(st)
           base == [st |-> st, withdrawals |-> partial.withdrawals,
                    index |-> st.next_withdrawal_validator_index, done |-> FALSE,
                    underflow |-> FALSE]
           F == SweepSteps(A, seq)
           r == RunSweep(base, seq)
<1>1. bound \in Nat
  <2>1. Len(st.validators) \in Nat
    BY Fields
  <2> QED
    BY <2>1, Constants DEF Lesser
<1>2. get_expected_withdrawals(st) =
        [withdrawals |-> r.withdrawals, processed |-> partial.processed, underflow |-> r.underflow]
  BY DEF get_expected_withdrawals, RunSweep
<1> HIDE DEF bound
<1>3. seq \in Seq(Nat) /\ n \in Nat
  BY <1>1
<1>4. base \in A
  <2>1. partial.withdrawals \in Seq(Withdrawal(Len(st.validators)))
    BY Partials
  <2>2. st.next_withdrawal_validator_index \in Indices(st)
    BY Fields DEF Indices
  <2> DEFINE R == [st : {st}, withdrawals : Seq(Withdrawal(Len(st.validators))), index : Indices(st),
                   done : BOOLEAN, underflow : BOOLEAN]
  <2>3. base \in R /\ base.withdrawals = partial.withdrawals
    <3> HIDE DEF partial
    <3> QED
      BY <2>1, <2>2
  <2> HIDE DEF base
  <2> QED
    BY <2>3 DEF Sweeping
<1> HIDE DEF seq, base
<1>5. ASSUME NEW a \in A, NEW i \in 1..n PROVE SweepOne(a, seq[i]) \in A
  BY SweepOneKeeps
<1> HIDE DEF A
<1>6. F \in [A -> [1..n -> A]]
  BY <1>5 DEF SweepSteps
<1>7. IsLoop(A, F, base, n)
  BY <1>3, <1>4, <1>6 DEF IsLoop
<1> HIDE DEF n, F
<1>8. PICK t : t \in [0..n -> A] /\ r = t[n]
  <2>1. seq \in Seq(Nat) /\ IsLoop(A, SweepSteps(A, seq), base, Len(seq))
    BY <1>3, <1>7 DEF n, F
  <2>2. \E t : /\ t \in [0..Len(seq) -> A] /\ t[0] = base
               /\ \A i \in 1..Len(seq) : t[i] = SweepOne(t[i - 1], seq[i])
               /\ RunSweep(base, seq) = t[Len(seq)]
    BY <1>4, <2>1, FoldSweep
  <2> QED
    BY <2>2 DEF n
<1>9. r \in A
  BY <1>3, <1>8
<1>10. partial.processed \in Nat
  BY Partials
<1> HIDE DEF r, partial
<1>11. /\ r.withdrawals \in Seq(Withdrawal(Len(st.validators)))
       /\ Excess(st, r.withdrawals) = Excess(st, PartialWithdrawals(st).withdrawals)
  BY <1>9 DEF A, Sweeping
<1> QED
  BY <1>2, <1>10, <1>11

(* Paying costs what is paid, but for what exceeds a balance.                      *)
LEMMA PaidKeeps ==
    ASSUME NEW st \in Sound, NEW ws \in Seq(Withdrawal(Len(st.validators)))
    PROVE  /\ RunPaid(st, ws) \in Alike(st)
           /\ RunPaid(st, ws).pending_partial_withdrawals = st.pending_partial_withdrawals
           /\ Len(RunPaid(st, ws).validators) = Len(st.validators)
           /\ Wealth(RunPaid(st, ws))
                = Wealth(st) - Total(Amounts(ws)) + Total(Excess(st, ws))
<1> DEFINE n == Len(ws)
           k == Len(st.validators)
           A == {s \in Alike(st) :
                    /\ s.pending_partial_withdrawals = st.pending_partial_withdrawals
                    /\ Len(s.validators) = Len(st.validators)}
           F == PaySteps(A, ws)
           r == RunPaid(st, ws)
<1>1. n \in Nat /\ k \in Nat /\ ws \in Seq(Withdrawal(k)) /\ Indices(st) = 1..k
  BY Fields DEF Indices
<1>2. \A i \in 1..n : ws[i] \in Withdrawal(k) /\ ws[i].index \in Indices(st) /\ ws[i].amount \in Nat
  <2>1. \A i \in 1..n : ws[i] \in Withdrawal(k)
    BY <1>1
  <2> QED
    BY <1>1, <2>1 DEF Withdrawal
<1>3. st \in A
  BY ConservingItself
<1>4. ASSUME NEW s \in A, NEW i \in 1..n
      PROVE  /\ Paid(s, ws[i]) \in A
             /\ s \in Sound /\ ws[i].index \in Indices(s)
             /\ Paid(s, ws[i]) = decrease_balance(s, ws[i].index, ws[i].amount)
             /\ Wealth(Paid(s, ws[i])) =
                  Wealth(s) - Lesser(ws[i].amount, s.balances[ws[i].index])
             /\ Paid(s, ws[i]).balances =
                  [s.balances EXCEPT ![ws[i].index] = Greater(@ - ws[i].amount, 0)]
  <2> DEFINE w == ws[i]
             after == decrease_balance(s, w.index, w.amount)
  <2>1. s \in Alike(st) /\ w.index \in Indices(st) /\ w.amount \in Nat
    BY <1>2
  <2>2. s \in Sound /\ w.index \in Indices(s)
    BY <2>1, SameIndices
  <2>3. Paid(s, w) = after
    BY DEF Paid
  <2> HIDE DEF w
  <2>4. /\ after \in Alike(s) /\ Wealth(after) = Wealth(s) - Lesser(w.amount, s.balances[w.index])
    BY <2>1, <2>2, DecreaseBalance
  <2>5. /\ after.validators = s.validators
        /\ after.pending_partial_withdrawals = s.pending_partial_withdrawals
        /\ after.balances = [s.balances EXCEPT ![w.index] = Greater(@ - w.amount, 0)]
    <3>1. s \in BeaconState
      BY <2>2 DEF Sound
    <3> DEFINE bs == [s.balances EXCEPT ![w.index] = Greater(@ - w.amount, 0)]
    <3>2. after = [s EXCEPT !.balances = bs]
      BY DEF decrease_balance
    <3> HIDE DEF bs, after
    <3>3. /\ after.validators = s.validators /\ after.balances = bs
          /\ after.pending_partial_withdrawals = s.pending_partial_withdrawals
      BY <3>1, <3>2 DEF BeaconState
    <3> QED
      BY <3>3 DEF bs
  <2>6. after \in Alike(st)
    BY <2>1, <2>4, AlikeTransitive
  <2>7. after \in A
    BY <2>5, <2>6
  <2> HIDE DEF after
  <2> QED
    BY <2>2, <2>3, <2>4, <2>5, <2>7 DEF w, after
<1> HIDE DEF A
<1>5. F \in [A -> [1..n -> A]]
  BY <1>4 DEF PaySteps
<1>6. IsLoop(A, F, st, n)
  BY <1>1, <1>3, <1>5 DEF IsLoop
<1> HIDE DEF n, F, k
<1>7. PICK t : /\ t \in [0..n -> A] /\ t[0] = st
               /\ \A i \in 1..n : t[i] = Paid(t[i - 1], ws[i])
               /\ r = t[n]
  <2>1. ws \in Seq(Withdrawal(k)) /\ IsLoop(A, PaySteps(A, ws), st, Len(ws))
    BY <1>1, <1>6 DEF n, F
  <2>2. \E t : /\ t \in [0..Len(ws) -> A] /\ t[0] = st
               /\ \A i \in 1..Len(ws) : t[i] = Paid(t[i - 1], ws[i])
               /\ RunPaid(st, ws) = t[Len(ws)]
    BY <1>3, <2>1, FoldPaid
  <2> QED
    BY <2>2 DEF n
<1> HIDE DEF r
<1>8. r \in A
  BY <1>1, <1>7
<1>9. Wealth(r) = Wealth(st) - Total(Amounts(ws)) + Total(Excess(st, ws))
  <2> DEFINE P(i) == SubSeq(ws, 1, i)
             T == {i \in 0..n :
                     /\ Wealth(t[i]) = Wealth(st) - Total(Amounts(P(i))) + Total(Excess(st, P(i)))
                     /\ \A j \in 1..k :
                          t[i].balances[j] = Greater(st.balances[j] - AmountOf(P(i), j), 0)}
  <2>1. 0 \in T
    <3>1. P(0) = <<>> /\ Amounts(<<>>) = <<>>
      BY <1>1 DEF Amounts
    <3>2. /\ Total(Amounts(P(0))) = 0 /\ Total(Excess(st, P(0))) = 0
          /\ \A j \in 1..k : AmountOf(P(0), j) = 0
      BY <3>1, TotalEmpty, PickedEmpty, NoExcess
    <3>3. Wealth(st) \in Int /\ \A j \in 1..k : st.balances[j] \in Nat
      BY <1>1, WealthIsInt, FieldsOfOne
    <3> HIDE DEF P
    <3> QED
      BY <1>1, <1>7, <3>2, <3>3 DEF Greater
  <2>2. ASSUME NEW i \in 1..n, i - 1 \in T PROVE i \in T
    <3> DEFINE s == t[i - 1]
               w == ws[i]
               a == w.index
               b == w.amount
               p == P(i - 1)
               q == P(i)
    <3>1. s \in A /\ i \in 0..n
      BY <1>1, <1>7
    <3>2. /\ Wealth(s) = Wealth(st) - Total(Amounts(p)) + Total(Excess(st, p))
          /\ \A j \in 1..k : s.balances[j] = Greater(st.balances[j] - AmountOf(p, j), 0)
      BY <2>2
    <3>3. a \in 1..k /\ b \in Nat /\ w \in Withdrawal(k)
      BY <1>1, <1>2
    <3>4. /\ t[i] = Paid(s, w) /\ s \in Sound /\ a \in Indices(s)
          /\ Wealth(t[i]) = Wealth(s) - Lesser(b, s.balances[a])
          /\ t[i].balances = [s.balances EXCEPT ![a] = Greater(@ - b, 0)]
      <4>1. t[i] = Paid(s, w)
        BY <1>7
      <4>2. i \in 1..n /\ s \in A
        BY <3>1
      <4>3. /\ s \in Sound /\ ws[i].index \in Indices(s)
            /\ Wealth(Paid(s, ws[i])) = Wealth(s) - Lesser(ws[i].amount, s.balances[ws[i].index])
            /\ Paid(s, ws[i]).balances =
                 [s.balances EXCEPT ![ws[i].index] = Greater(@ - ws[i].amount, 0)]
        <5> HIDE DEF s
        <5> QED
          BY <1>4, <4>2
      <4> HIDE DEF s
      <4> QED
        BY <4>1, <4>3
    <3>5. p \in Seq(Withdrawal(k)) /\ q = Append(p, w)
      <4>1. i \in 1..Len(ws)
        BY DEF n
      <4> QED
        BY <1>1, <4>1, Prefix
    <3>6. \A j : AmountOf(q, j) = AmountOf(p, j) + (IF a = j THEN b ELSE 0)
      <4> HIDE DEF w, p, q
      <4>1. ASSUME NEW j PROVE AmountOf(q, j) = AmountOf(p, j) + (IF a = j THEN b ELSE 0)
        BY <1>1, <3>3, <3>5, PickedAppend
      <4> QED
        BY <4>1
    <3>7. Total(Amounts(q)) = Total(Amounts(p)) + b /\ Total(Amounts(p)) \in Nat
      <4> HIDE DEF p, q, w
      <4>1. \A x \in Withdrawal(k) : x.amount \in Nat
        BY DEF Withdrawal
      <4>2. Amounts(q) = Append(Amounts(p), b) /\ Amounts(p) \in Seq(Nat) /\ Amounts(p) \in Seq(Int)
        <5> DEFINE W == Withdrawal(k)
        <5>1. p \in Seq(W) /\ w \in W /\ \A x \in W : x.amount \in Nat
          BY <3>3, <3>5, <4>1
        <5> HIDE DEF W
        <5>2. Amounts(Append(p, w)) = Append(Amounts(p), w.amount)
          BY <5>1, AmountsAppend
        <5>3. Amounts(p) \in Seq(Nat) /\ Amounts(p) \in Seq(Int)
          BY <5>1, AmountsOf
        <5> QED
          BY <3>5, <5>2, <5>3
      <4>3. Total(Append(Amounts(p), b)) = Total(Amounts(p)) + b
        BY <3>3, <4>2, TotalAppend
      <4>4. Total(Amounts(p)) \in Nat
        BY <4>2, TotalType
      <4> QED
        BY <4>2, <4>3, <4>4
    <3>8. q \in Seq(Withdrawal(k))
      <4> HIDE DEF w, p, q
      <4> QED
        BY <3>3, <3>5
    <3> HIDE DEF s, w, p, q, P
    <3>9. \A j \in 1..k : AmountOf(p, j) \in Nat /\ st.balances[j] \in Nat
      BY <1>1, <3>5, PickedIs, FieldsOfOne
    <3> HIDE DEF a, b
    <3> DEFINE c == st.balances[a]
               d == AmountOf(p, a)
               e == Excess(st, p)
               f == Excess(st, q)
               x == Greater((d + b) - c, 0)
    <3>10. /\ s.balances[a] = Greater(c - d, 0) /\ s.balances[a] \in Nat
           /\ Greater(s.balances[a] - b, 0) = Greater(c - (d + b), 0)
           /\ Lesser(b, s.balances[a]) = b - x + Greater(d - c, 0)
           /\ AmountOf(q, a) = d + b
      <4>1. d \in Nat /\ c \in Nat /\ s.balances[a] = Greater(c - d, 0) /\ AmountOf(q, a) = d + b
        BY <3>2, <3>3, <3>6, <3>9
      <4> HIDE DEF c, d
      <4>2. LET left == Greater(c - d, 0)
            IN /\ left \in Nat /\ Lesser(b, left) \in Nat
               /\ Greater(left - b, 0) = Greater(c - (d + b), 0)
               /\ Lesser(b, left) = b - Greater((d + b) - c, 0) + Greater(d - c, 0)
        BY <3>3, <4>1, Overpaid
      <4> QED
        BY <4>1, <4>2
    (* Only the excess of one validator changes. *)
    <3>11. Total(f) = Total(e) - Greater(d - c, 0) + x /\ Total(e) \in Nat
      <4>1. /\ e \in Seq(Nat) /\ e \in Seq(Int) /\ Len(e) = k
            /\ \A j \in 1..k : e[j] = Greater(AmountOf(p, j) - st.balances[j], 0)
        BY <1>1, <3>5, ExcessType DEF k
      <4>2. /\ f \in Seq(Nat) /\ f \in Seq(Int) /\ Len(f) = k
            /\ \A j \in 1..k : f[j] = Greater(AmountOf(q, j) - st.balances[j], 0)
        BY <1>1, <3>8, ExcessType DEF k
      <4>3. e[a] = Greater(d - c, 0) /\ f[a] = x
        BY <3>3, <3>10, <4>1, <4>2
      <4>4. ASSUME NEW j \in 1..k, j # a PROVE f[j] = e[j]
        <5>1. AmountOf(q, j) = AmountOf(p, j)
          BY <3>6, <3>9, <4>4
        <5>2. /\ f[j] = Greater(AmountOf(q, j) - st.balances[j], 0)
              /\ e[j] = Greater(AmountOf(p, j) - st.balances[j], 0)
          BY <4>1, <4>2
        <5> HIDE DEF e, f
        <5> QED
          BY <5>1, <5>2
      <4>5. x \in Int
        BY <3>3, <4>2, <4>3
      <4> HIDE DEF e, f, c, d, x
      <4>6. f = [e EXCEPT ![a] = x]
        <5> DEFINE g == [e EXCEPT ![a] = x]
        <5>1. g \in Seq(Int) /\ Len(g) = k /\ \A j \in 1..k : g[j] = IF j = a THEN x ELSE e[j]
          BY <3>3, <4>1, <4>5
        <5> HIDE DEF g
        <5>2. Len(f) = Len(g) /\ \A j \in 1..Len(g) : f[j] = g[j]
          BY <4>2, <4>3, <4>4, <5>1
        <5>3. f = g
          BY <4>2, <5>1, <5>2, SameSeq
        <5> QED
          BY <5>3 DEF g
      <4>7. Total([e EXCEPT ![a] = x]) = Total(e) - e[a] + x
        BY <3>3, <4>1, <4>5, TotalUpdate
      <4>8. Total(e) \in Nat
        BY <4>1, TotalType
      <4> QED
        BY <4>3, <4>6, <4>7, <4>8
    <3>12. Greater(d - c, 0) \in Int /\ x \in Int
      <4>1. d \in Nat /\ c \in Nat
        BY <3>3, <3>9
      <4> HIDE DEF c, d
      <4> QED
        BY <3>3, <4>1 DEF Greater
    <3>13. Wealth(t[i]) = Wealth(st) - Total(Amounts(q)) + Total(f)
      <4>1. Wealth(st) \in Int
        BY WealthIsInt
      <4> DEFINE y == Greater(d - c, 0)
                 z == Wealth(st)
                 u == Total(Amounts(p))
                 v == Total(e)
      <4>2. Wealth(t[i]) = (z - u + v) - (b - x + y)
        BY <3>2, <3>4, <3>10
      <4>3. Total(Amounts(q)) = u + b /\ Total(f) = v - y + x
        BY <3>7, <3>11
      <4>4. u \in Nat /\ v \in Nat /\ y \in Int /\ x \in Int /\ b \in Nat /\ z \in Int
        BY <3>3, <3>7, <3>11, <3>12, <4>1
      <4> HIDE DEF u, v, x, y, z, e, f
      <4>5. (z - u + v) - (b - x + y) = z - (u + b) + (v - y + x)
        BY <3>3, <4>4
      <4>6. Wealth(t[i]) = z - (u + b) + (v - y + x)
        BY <4>2, <4>5
      <4> QED
        BY <4>3, <4>6 DEF z
    <3>14. ASSUME NEW j \in 1..k
           PROVE  t[i].balances[j] = Greater(st.balances[j] - AmountOf(q, j), 0)
      <4>1. s.balances \in Seq(Nat) /\ Len(s.balances) = Len(s.validators)
        BY <3>4, Fields
      <4>2. Len(s.balances) = k
        BY <3>1, <4>1 DEF A, k
      <4>3. j \in DOMAIN s.balances
        BY <4>1, <4>2
      <4>4. CASE j = a
        <5>1. t[i].balances[j] = Greater(s.balances[a] - b, 0)
          BY <3>4, <4>3, <4>4
        <5>2. st.balances[j] = c /\ AmountOf(q, j) = d + b
          BY <3>10, <4>4
        <5> HIDE DEF c, d
        <5> QED
          BY <3>10, <5>1, <5>2
      <4>5. CASE j # a
        <5>1. t[i].balances[j] = s.balances[j]
          BY <3>4, <4>3, <4>5
        <5>2. AmountOf(q, j) = AmountOf(p, j)
          BY <3>6, <3>9, <4>5
        <5> QED
          BY <3>2, <5>1, <5>2
      <4> QED
        BY <4>4, <4>5
    <3> HIDE DEF c, d, e, x
    <3> QED
      BY <3>1, <3>13, <3>14 DEF q, f
  <2>3. \A i \in 0..n : i \in T
    <3> HIDE DEF T
    <3> QED
      BY <1>1, <2>1, <2>2, UpTo
  <2>4. n \in T
    BY <1>1, <2>3
  <2>5. P(n) = ws
    <3>1. P(n) \in Seq(Withdrawal(k)) /\ Len(P(n)) = Len(ws) /\ \A i \in 1..Len(ws) : P(n)[i] = ws[i]
      <4>1. \A i \in 1..n : i \in 1..Len(ws) /\ ws[i] \in Withdrawal(k)
        BY <1>2 DEF n
      <4> QED
        BY <1>1, <4>1 DEF n
    <3> HIDE DEF P
    <3> QED
      BY <1>1, <3>1, SameSeq
  <2> QED
    BY <1>7, <2>4, <2>5
<1> QED
  BY <1>8, <1>9 DEF A, r

--------------------------------------------------------------------------------
(* The withdrawals of a block *)

(* Another queue of partial withdrawals, sweep and count of gwei. *)
LEMMA WithdrawalsChange ==
    ASSUME NEW st \in Sound, NEW q \in Seq(PendingPartialWithdrawal),
           \A k \in DOMAIN q : q[k].index \in Indices(st),
           NEW next \in Indices(st), NEW net \in Int
    PROVE  LET r == [st EXCEPT !.pending_partial_withdrawals = q,
                               !.next_withdrawal_validator_index = next, !.net = net]
           IN r \in Sound /\ Wealth(r) = Wealth(st) + net - st.net
<1> DEFINE r == [st EXCEPT !.pending_partial_withdrawals = q,
                           !.next_withdrawal_validator_index = next, !.net = net]
<1>1. st \in BeaconState /\ IndicesExist(st) /\ Backlog(st.exits) /\ Backlog(st.consolidations)
  BY DEF Sound
<1>2. next \in Nat /\ next \in DOMAIN st.validators
  BY FieldsOfOne DEF Indices
<1>3. /\ r \in BeaconState /\ r.validators = st.validators /\ r.balances = st.balances
      /\ r.pending_deposits = st.pending_deposits /\ r.net = net
      /\ r.pending_partial_withdrawals = q
      /\ r.pending_consolidations = st.pending_consolidations
      /\ r.exits = st.exits /\ r.consolidations = st.consolidations
      /\ r.next_withdrawal_validator_index = next
  BY <1>1, <1>2 DEF BeaconState
<1> HIDE DEF r
<1>4. \A k \in DOMAIN q : q[k].index \in DOMAIN st.validators
  BY DEF Indices
<1>5. IndicesExist(r)
  BY <1>1, <1>2, <1>3, <1>4 DEF IndicesExist
<1>6. r \in Sound
  BY <1>1, <1>3, <1>5 DEF Sound
<1>7. /\ Total(st.balances) \in Nat /\ Total(Amounts(st.pending_deposits)) \in Nat
      /\ st.net \in Int
  BY WealthIsInt
<1>8. Wealth(r) = Wealth(st) + net - st.net
  BY <1>3, <1>7 DEF Wealth
<1> QED
  BY <1>6, <1>8 DEF r

(* The sweep goes on at a validator. *)
LEMMA NextSweepType ==
    ASSUME NEW st \in Sound, NEW ws \in Seq(Withdrawal(Len(st.validators)))
    PROVE  NextSweep(st, ws) \in Indices(st)
<1> DEFINE n == Len(st.validators)
           at == st.next_withdrawal_validator_index - 1 + MAX_VALIDATORS_PER_WITHDRAWALS_SWEEP
           m == at % n
<1>1. n \in Nat \ {0} /\ Indices(st) = 1..n /\ at \in Nat
  <2>1. n \in Nat /\ st.next_withdrawal_validator_index \in 1..n /\ DOMAIN st.validators = 1..n
    BY Fields
  <2> QED
    BY <2>1, Constants DEF Indices
<1>2. CASE Len(ws) = MAX_WITHDRAWALS_PER_PAYLOAD
  <2> DEFINE i == Last(ws).index
  <2>1. Len(ws) \in 1..Len(ws) /\ ws[Len(ws)] \in Withdrawal(n)
    BY <1>2, Constants
  <2>2. i \in Nat
    <3>1. Last(ws) = ws[Len(ws)]
      BY DEF Last
    <3>2. \A w \in Withdrawal(n) : w.index \in Nat
      BY <1>1 DEF Withdrawal
    <3> QED
      BY <2>1, <3>1, <3>2
  <2>3. NextSweep(st, ws) = NextIndex(st, i)
    BY <1>2 DEF NextSweep
  <2> HIDE DEF i
  <2> QED
    BY <2>2, <2>3, NextIndexType
<1>3. CASE Len(ws) # MAX_WITHDRAWALS_PER_PAYLOAD
  <2>1. NextSweep(st, ws) = m + 1
    BY <1>3 DEF NextSweep
  <2> HIDE DEF n, at
  <2>2. m \in 0..(n - 1)
    BY <1>1, Division
  <2> HIDE DEF m
  <2> QED
    BY <1>1, <2>1, <2>2
<1> QED
  BY <1>2, <1>3

(* The state after process_withdrawals.                                            *)
Withdrawn(st) ==
    LET expected == get_expected_withdrawals(st)
        paid == expected.withdrawals
    IN [RunPaid(st, paid) EXCEPT
          !.pending_partial_withdrawals = SubSeq(@, expected.processed + 1, Len(@)),
          !.next_withdrawal_validator_index = NextSweep(st, paid),
          !.net = @ + Total(Amounts(paid))]

(* process_withdrawals makes what its partial withdrawals exceed the balances by. *)
LEMMA WithdrawnKeeps ==
    ASSUME NEW st \in Sound
    PROVE  /\ Withdrawn(st) \in Sound
           /\ Wealth(Withdrawn(st)) = Wealth(st) + Overdraft(st)
<1> DEFINE expected == get_expected_withdrawals(st)
           paid == expected.withdrawals
           processed == expected.processed
           r == RunPaid(st, paid)
           p == r.pending_partial_withdrawals
           q == SubSeq(p, processed + 1, Len(p))
           next == NextSweep(st, paid)
           sum == Total(Amounts(paid))
           over == Total(Excess(st, paid))
<1>1. /\ paid \in Seq(Withdrawal(Len(st.validators))) /\ processed \in Nat
      /\ over = Overdraft(st)
  <2>1. /\ paid \in Seq(Withdrawal(Len(st.validators))) /\ processed \in Nat
        /\ Excess(st, paid) = Excess(st, PartialWithdrawals(st).withdrawals)
    BY Expected
  <2>2. Overdraft(st) = Total(Excess(st, PartialWithdrawals(st).withdrawals))
    BY DEF Overdraft, Excess, WithdrawnFrom
  <2> HIDE DEF paid, processed
  <2> QED
    BY <2>1, <2>2
<1>2. Withdrawn(st) = [r EXCEPT !.pending_partial_withdrawals = q,
                                !.next_withdrawal_validator_index = next, !.net = r.net + sum]
  BY DEF Withdrawn
<1>3. next \in Indices(st)
  <2> HIDE DEF paid
  <2> QED
    BY <1>1, NextSweepType
<1>4. sum \in Nat
  <2> DEFINE W == Withdrawal(Len(st.validators))
  <2>1. \A w \in W : w.amount \in Nat
    BY DEF Withdrawal
  <2> HIDE DEF paid, W
  <2>2. Amounts(paid) \in Seq(Nat)
    <3>1. paid \in Seq(W)
      BY <1>1 DEF W
    <3> QED
      BY <2>1, <3>1, AmountsOf
  <2> QED
    BY <2>2, TotalType
<1> HIDE DEF paid, processed
<1>5. /\ r \in Alike(st) /\ p = st.pending_partial_withdrawals
      /\ Len(r.validators) = Len(st.validators)
      /\ Wealth(r) = Wealth(st) - sum + over
  BY <1>1, PaidKeeps
<1>14. over \in Nat
  <2>1. Excess(st, paid) \in Seq(Nat)
    BY <1>1, ExcessType
  <2> QED
    BY <2>1, TotalType
<1> HIDE DEF r, next, sum, over
<1>6. r \in Sound /\ next \in Indices(r)
  BY <1>3, <1>5, SameIndices
<1>7. p \in Seq(PendingPartialWithdrawal) /\ \A k \in DOMAIN p : p[k].index \in Indices(r)
  BY <1>6, Fields DEF Sound, IndicesExist, Indices
<1> HIDE DEF p
<1>8. q \in Seq(PendingPartialWithdrawal) /\ \A k \in DOMAIN q : \E x \in DOMAIN p : q[k] = p[x]
  <2> DEFINE S == PendingPartialWithdrawal
  <2>1. p \in Seq(S)
    BY <1>7
  <2> HIDE DEF S
  <2>2. LET t == SubSeq(p, processed + 1, Len(p))
        IN t \in Seq(S) /\ \A k \in DOMAIN t : \E x \in DOMAIN p : t[k] = p[x]
    BY <1>1, <2>1, Remaining
  <2> QED
    BY <2>2 DEF S
<1>9. \A k \in DOMAIN q : q[k].index \in Indices(r)
  BY <1>7, <1>8
<1> HIDE DEF q
<1>10. r.net \in Int /\ r.net + sum \in Int /\ Wealth(r) \in Int /\ Wealth(st) \in Int
  BY <1>4, <1>6, WealthIsInt
<1> DEFINE net == r.net + sum
<1> HIDE DEF net
<1>11. LET a == [r EXCEPT !.pending_partial_withdrawals = q,
                          !.next_withdrawal_validator_index = next, !.net = net]
       IN a \in Sound /\ Wealth(a) = Wealth(r) + net - r.net
  <2>1. net \in Int
    BY <1>10 DEF net
  <2> QED
    BY <1>6, <1>8, <1>9, <2>1, WithdrawalsChange
<1>12. Withdrawn(st) \in Sound /\ Wealth(Withdrawn(st)) = Wealth(r) + net - r.net
  BY <1>2, <1>11 DEF net
<1>13. Wealth(Withdrawn(st)) = Wealth(st) + over
  BY <1>4, <1>5, <1>10, <1>12, <1>14 DEF net
<1> QED
  BY <1>1, <1>12, <1>13

--------------------------------------------------------------------------------
(* The requests *)

(* One more partial withdrawal in the queue. *)
LEMMA PartialQueued ==
    ASSUME NEW st \in Sound, NEW w \in PendingPartialWithdrawal, w.index \in Indices(st)
    PROVE  LET r == [st EXCEPT !.pending_partial_withdrawals = Append(@, w)]
           IN r \in Sound /\ Wealth(r) = Wealth(st)
<1> DEFINE p == st.pending_partial_withdrawals
           q == Append(p, w)
           r == [st EXCEPT !.pending_partial_withdrawals = q]
           whole == [st EXCEPT !.pending_partial_withdrawals = q,
                       !.next_withdrawal_validator_index = st.next_withdrawal_validator_index,
                       !.net = st.net]
<1>1. st \in BeaconState /\ p \in Seq(PendingPartialWithdrawal) /\ st.net \in Int
      /\ st.next_withdrawal_validator_index \in Indices(st)
      /\ \A k \in DOMAIN p : p[k].index \in Indices(st)
  BY Fields DEF Sound, IndicesExist, Indices
<1>2. q \in Seq(PendingPartialWithdrawal) /\ \A k \in DOMAIN q : q[k].index \in Indices(st)
  <2> DEFINE S == PendingPartialWithdrawal
  <2>1. p \in Seq(S) /\ w \in S
    BY <1>1
  <2> HIDE DEF S, p
  <2>2. /\ q \in Seq(S) /\ DOMAIN q = 1..(Len(p) + 1) /\ DOMAIN p = 1..Len(p) /\ Len(p) \in Nat
        /\ q[Len(p) + 1] = w /\ \A k \in 1..Len(p) : q[k] = p[k]
    BY <2>1
  <2>3. ASSUME NEW k \in DOMAIN q PROVE q[k].index \in Indices(st)
    <3>1. k \in 1..Len(p) \/ k = Len(p) + 1
      BY <2>2
    <3>2. CASE k \in 1..Len(p)
      BY <1>1, <2>2, <3>2 DEF p
    <3>3. CASE k = Len(p) + 1
      BY <2>2, <3>3
    <3> QED
      BY <3>1, <3>2, <3>3
  <2> QED
    BY <2>2, <2>3 DEF S
<1> HIDE DEF q
<1>3. r = whole
  BY <1>1 DEF BeaconState
<1>4. whole \in Sound /\ Wealth(whole) = Wealth(st) + st.net - st.net
  BY <1>1, <1>2, WithdrawalsChange
<1>5. Wealth(st) \in Int
  BY WealthIsInt
<1> HIDE DEF whole, r
<1>6. r \in Sound /\ Wealth(r) = Wealth(st)
  BY <1>1, <1>3, <1>4, <1>5
<1> QED
  BY <1>6 DEF r, q

(* One more deposit in the queue. *)
LEMMA DepositQueued ==
    ASSUME NEW st \in Sound, NEW d \in PendingDeposit, NEW net \in Int
    PROVE  LET r == [st EXCEPT !.pending_deposits = Append(@, d), !.net = net]
           IN r \in Sound /\ Wealth(r) = Wealth(st) + d.amount + net - st.net
<1> DEFINE p == st.pending_deposits
           q == Append(p, d)
           r == [st EXCEPT !.pending_deposits = q, !.net = net]
<1>1. /\ st \in BeaconState /\ IndicesExist(st) /\ Backlog(st.exits) /\ Backlog(st.consolidations)
      /\ p \in Seq(PendingDeposit)
  BY Fields DEF Sound
<1>2. q \in Seq(PendingDeposit) /\ Total(Amounts(q)) = Total(Amounts(p)) + d.amount
      /\ d.amount \in Nat
  <2> DEFINE S == PendingDeposit
  <2>1. q \in Seq(S)
    <3>1. p \in Seq(S) /\ d \in S
      BY <1>1
    <3> HIDE DEF S, p
    <3> QED
      BY <3>1
  <2> QED
    BY <1>1, <2>1, DepositAmounts
<1> HIDE DEF q
<1>3. /\ r \in BeaconState /\ r.validators = st.validators /\ r.balances = st.balances
      /\ r.pending_deposits = q /\ r.net = net
      /\ r.pending_partial_withdrawals = st.pending_partial_withdrawals
      /\ r.pending_consolidations = st.pending_consolidations
      /\ r.exits = st.exits /\ r.consolidations = st.consolidations
      /\ r.next_withdrawal_validator_index = st.next_withdrawal_validator_index
  BY <1>1, <1>2 DEF BeaconState
<1> HIDE DEF r
<1>4. r \in Sound
  BY <1>1, <1>3 DEF IndicesExist, Sound
<1>5. Total(st.balances) \in Nat /\ Total(Amounts(p)) \in Nat /\ st.net \in Int
  BY WealthIsInt
<1>6. Wealth(r) = Wealth(st) + d.amount + net - st.net
  BY <1>2, <1>3, <1>5 DEF Wealth
<1> QED
  BY <1>4, <1>6 DEF r, q

(* One more consolidation in the queue. *)
LEMMA ConsolidationQueued ==
    ASSUME NEW st \in Sound, NEW i \in Indices(st), NEW j \in Indices(st)
    PROVE  LET r == [st EXCEPT !.pending_consolidations =
                                  Append(@, [source |-> i, target |-> j])]
           IN r \in Sound /\ Wealth(r) = Wealth(st)
<1> DEFINE p == st.pending_consolidations
           c == [source |-> i, target |-> j]
           q == Append(p, c)
           r == [st EXCEPT !.pending_consolidations = q]
           Fine(x) == x.source \in DOMAIN st.validators /\ x.target \in DOMAIN st.validators
<1>1. /\ st \in BeaconState /\ IndicesExist(st) /\ Backlog(st.exits) /\ Backlog(st.consolidations)
      /\ p \in Seq(PendingConsolidation) /\ \A k \in DOMAIN p : Fine(p[k])
  BY Fields DEF Sound, IndicesExist
<1>2. c \in PendingConsolidation /\ Fine(c)
  BY FieldsOfOne DEF PendingConsolidation, Indices
<1> HIDE DEF c, Fine
<1>3. q \in Seq(PendingConsolidation) /\ \A k \in DOMAIN q : Fine(q[k])
  <2> DEFINE S == PendingConsolidation
  <2>1. p \in Seq(S) /\ c \in S
    BY <1>1, <1>2
  <2> HIDE DEF S, p
  <2>2. /\ q \in Seq(S) /\ DOMAIN q = 1..(Len(p) + 1) /\ DOMAIN p = 1..Len(p) /\ Len(p) \in Nat
        /\ q[Len(p) + 1] = c /\ \A k \in 1..Len(p) : q[k] = p[k]
    BY <2>1
  <2>3. ASSUME NEW k \in DOMAIN q PROVE Fine(q[k])
    <3>1. k \in 1..Len(p) \/ k = Len(p) + 1
      BY <2>2
    <3>2. CASE k \in 1..Len(p)
      BY <1>1, <2>2, <3>2 DEF p
    <3>3. CASE k = Len(p) + 1
      BY <1>2, <2>2, <3>3
    <3> QED
      BY <3>1, <3>2, <3>3
  <2> QED
    BY <2>2, <2>3 DEF S
<1> HIDE DEF q
<1>4. /\ r \in BeaconState /\ r.validators = st.validators /\ r.balances = st.balances
      /\ r.pending_deposits = st.pending_deposits /\ r.net = st.net
      /\ r.pending_partial_withdrawals = st.pending_partial_withdrawals
      /\ r.pending_consolidations = q
      /\ r.exits = st.exits /\ r.consolidations = st.consolidations
      /\ r.next_withdrawal_validator_index = st.next_withdrawal_validator_index
  BY <1>1, <1>3 DEF BeaconState
<1> HIDE DEF r
<1>5. IndicesExist(r)
  BY <1>1, <1>3, <1>4 DEF IndicesExist, Fine
<1>6. r \in Sound /\ Wealth(r) = Wealth(st)
  BY <1>1, <1>4, <1>5 DEF Sound, Wealth
<1> QED
  BY <1>6 DEF r, q, c

--------------------------------------------------------------------------------
(* The steps *)

Kept == state' \in Sound /\ Wealth(state') = Wealth(state)

(* What conserves the gwei keeps what the steps have to keep. *)
LEMMA ConservingIsKept ==
    ASSUME NEW st \in Sound, NEW r \in Conserving(st)
    PROVE  r \in Sound /\ Wealth(r) = Wealth(st)
  BY DEF Conserving, Alike

(* A step of process_withdrawals. *)
LEMMA WithdrawalsStep ==
    ASSUME state \in Sound, process_withdrawals
    PROVE  state' \in Sound /\ Wealth(state') = Wealth(state) + Overdraft(state)
<1>1. state' = Withdrawn(state)
  BY DEF process_withdrawals, Withdrawn, RunPaid
<1> QED
  BY <1>1, WithdrawnKeeps

(* A step to the next slot, with its epoch. *)
LEMMA AdvanceStep ==
    ASSUME state \in Sound, AdvanceSlot
    PROVE  Kept
<1>1. PICK stalls \in BOOLEAN, loss \in 0..Penalties, i \in Indices(state) :
        LET boundary == (state.slot + 1) % SLOTS_PER_EPOCH = 0
            finalized == IF stalls THEN state.finalized_epoch ELSE Greater(Epoch - 1, 0)
            processed == IF boundary
                           THEN process_epoch(state, finalized, [index |-> i, amount |-> loss])
                           ELSE state
        IN state' = [processed EXCEPT !.slot = @ + 1]
  BY DEF AdvanceSlot
<1> DEFINE finalized == IF stalls THEN state.finalized_epoch ELSE Greater(Epoch - 1, 0)
           penalized == [index |-> i, amount |-> loss]
           after == process_epoch(state, finalized, penalized)
<1>2. finalized \in Nat
  <2>1. state.finalized_epoch \in Nat /\ Epoch \in Nat
    BY Fields, ExitEpoch DEF Epoch
  <2>2. Greater(Epoch - 1, 0) \in Nat
    BY <2>1 DEF Greater
  <2> QED
    BY <2>1, <2>2
<1>3. penalized.index \in Indices(state) /\ penalized.amount \in Nat
  BY RequestsAssumption
<1>4. PICK r \in {after, state} : state' = [r EXCEPT !.slot = @ + 1]
  BY <1>1
<1> HIDE DEF finalized, penalized
<1>5. r \in Sound /\ Wealth(r) = Wealth(state)
  <2>1. after \in Sound /\ Wealth(after) = Wealth(state)
    BY <1>2, <1>3, EpochKeeps
  <2> QED
    BY <2>1
<1>6. r.slot \in Nat /\ r.slot + 1 \in Nat
      /\ r.slashings \in [0..EPOCHS_PER_SLASHINGS_VECTOR - 1 -> Nat]
  BY <1>5, Fields
<1>7. [r EXCEPT !.slot = r.slot + 1] \in Conserving(r)
  <2> DEFINE slot == r.slot + 1
  <2>1. slot \in Nat
    BY <1>6
  <2> HIDE DEF slot
  <2>2. [r EXCEPT !.slot = slot] \in Conserving(r)
    BY <1>2, <1>5, <1>6, <2>1, NumbersChange
  <2> QED
    BY <2>2 DEF slot
<1>8. state' \in Conserving(r)
  BY <1>4, <1>7
<1> QED
  BY <1>5, <1>8, ConservingIsKept DEF Kept

(* Exits and slashings. *)
LEMMA LeavingSteps ==
    ASSUME state \in Sound,
           ProcessVoluntaryExit \/ ProcessFullExitRequest \/ ProcessSlashing
    PROVE  Kept
<1>1. PICK i \in Indices(state) :
        state' \in {initiate_validator_exit(state, i), slash_validator(state, i)}
  BY DEF ProcessVoluntaryExit, ProcessFullExitRequest, ProcessSlashing,
         process_voluntary_exit, process_full_exit_request, process_slashing
<1>2. initiate_validator_exit(state, i) \in Conserving(state)
  BY InitiateExit
<1>3. slash_validator(state, i) \in Conserving(state)
  BY Slash
<1>4. state' \in Conserving(state)
  BY <1>1, <1>2, <1>3
<1> QED
  BY <1>4, ConservingIsKept DEF Kept

(* A step of process_withdrawal_request. *)
LEMMA WithdrawalRequestStep ==
    ASSUME state \in Sound, ProcessWithdrawalRequest
    PROVE  Kept
<1>1. PICK i \in Indices(state), amount \in WithdrawalAmounts :
        process_withdrawal_request(i, amount)
  BY DEF ProcessWithdrawalRequest
<1> DEFINE excess == state.balances[i] - MIN_ACTIVATION_BALANCE
                       - get_pending_balance_to_withdraw(state, i)
           asked == Lesser(excess, amount)
           booked == BookExit(state, asked)
           at == booked.exits.earliest + MIN_VALIDATOR_WITHDRAWABILITY_DELAY
           w == [index |-> i, amount |-> asked, withdrawable_epoch |-> at]
<1>2. excess > 0 /\ state' = [booked EXCEPT !.pending_partial_withdrawals = Append(@, w)]
  BY <1>1 DEF process_withdrawal_request
<1>3. get_pending_balance_to_withdraw(state, i) \in Nat
  <2> DEFINE p == state.pending_partial_withdrawals
             s == [k \in 1..Len(p) |-> IF p[k].index = i THEN p[k].amount ELSE 0]
  <2>1. p \in Seq(PendingPartialWithdrawal)
    BY Fields
  <2>2. Len(p) \in Nat /\ DOMAIN p = 1..Len(p) /\ \A k \in 1..Len(p) : p[k].amount \in Nat
    <3>1. \A k \in 1..Len(p) : p[k] \in PendingPartialWithdrawal
      BY <2>1
    <3>2. \A x \in PendingPartialWithdrawal : x.amount \in Nat
      BY DEF PendingPartialWithdrawal
    <3> HIDE DEF p
    <3> QED
      BY <2>1, <3>1, <3>2
  <2>3. s \in Seq(Nat)
    <3>1. \A k \in 1..Len(p) : s[k] \in Nat
      BY <2>2
    <3>2. s = [k \in 1..Len(p) |-> s[k]]
      OBVIOUS
    <3> HIDE DEF s, p
    <3> QED
      BY <2>2, <3>1, <3>2
  <2>4. get_pending_balance_to_withdraw(state, i) = Total(s)
    BY <2>2 DEF get_pending_balance_to_withdraw, AmountOf
  <2> HIDE DEF s
  <2> QED
    BY <2>3, <2>4, TotalType
<1>4. asked \in Nat
  <2>1. state.balances[i] \in Nat /\ MIN_ACTIVATION_BALANCE \in Nat /\ amount \in Nat
    BY FieldsOfOne, Constants, RequestsAssumption
  <2>2. excess \in Int
    BY <1>3, <2>1
  <2> HIDE DEF excess
  <2> QED
    BY <1>2, <2>1, <2>2 DEF Lesser
<1> HIDE DEF asked, excess
<1>5. booked \in Conserving(state) /\ booked.exits.earliest \in Nat
  BY <1>4, BookExitKeeps
<1> HIDE DEF booked
<1>6. booked \in Sound /\ i \in Indices(booked) /\ Wealth(booked) = Wealth(state)
  BY <1>5, SameIndices DEF Conserving
<1>7. at \in Nat /\ i \in Nat
  BY <1>5, FieldsOfOne, Constants
<1> HIDE DEF at
<1>8. w \in PendingPartialWithdrawal /\ w.index \in Indices(booked)
  BY <1>4, <1>6, <1>7 DEF PendingPartialWithdrawal
<1> HIDE DEF w
<1>9. LET r == [booked EXCEPT !.pending_partial_withdrawals = Append(@, w)]
      IN r \in Sound /\ Wealth(r) = Wealth(booked)
  BY <1>6, <1>8, PartialQueued
<1> QED
  BY <1>2, <1>6, <1>9 DEF Kept

(* A step of process_deposit_request. *)
LEMMA DepositRequestStep ==
    ASSUME state \in Sound, ProcessDepositRequest
    PROVE  Kept
<1>1. PICK r \in DepositRequests : process_deposit_request(r)
  BY DEF ProcessDepositRequest
<1> DEFINE d == [pubkey |-> r.pubkey, compounding |-> r.compounding,
                 amount |-> r.amount, valid |-> r.valid, slot |-> state.slot]
           net == state.net - r.amount
<1>2. state' = [state EXCEPT !.pending_deposits = Append(@, d), !.net = net]
  BY <1>1 DEF process_deposit_request
<1>3. /\ r.amount \in Nat /\ r.pubkey \in PubKeys /\ r.compounding \in BOOLEAN
      /\ r.valid \in BOOLEAN
  BY RequestsAssumption
<1>4. state.slot \in Nat /\ state.net \in Int /\ Wealth(state) \in Int
  BY Fields, WealthIsInt
<1>5. d \in PendingDeposit /\ d.amount = r.amount /\ net \in Int
  BY <1>3, <1>4 DEF PendingDeposit
<1> HIDE DEF d
<1>6. LET s == [state EXCEPT !.pending_deposits = Append(@, d), !.net = net]
      IN s \in Sound /\ Wealth(s) = Wealth(state) + d.amount + net - state.net
  <2> HIDE DEF net
  <2> QED
    BY <1>5, DepositQueued
<1> QED
  BY <1>2, <1>3, <1>4, <1>5, <1>6 DEF Kept

(* A step of switch_to_compounding_validator. *)
LEMMA SwitchStep ==
    ASSUME state \in Sound, SwitchToCompounding
    PROVE  Kept
<1>1. PICK i \in Indices(state) : switch_to_compounding_validator(i)
  BY DEF SwitchToCompounding
<1> DEFINE v == state.validators[i]
           w == [v EXCEPT !.compounding = TRUE]
           excess == state.balances[i] - MIN_ACTIVATION_BALANCE
           switched == [state EXCEPT !.validators[i] = w]
           d == [pubkey |-> v.pubkey, compounding |-> TRUE, amount |-> excess,
                 valid |-> FALSE, slot |-> 0]
           least == [switched EXCEPT !.balances[i] = MIN_ACTIVATION_BALANCE]
           queued == [switched EXCEPT !.balances[i] = MIN_ACTIVATION_BALANCE,
                                      !.pending_deposits = Append(@, d)]
<1>2. state' = IF excess <= 0 THEN switched ELSE queued
  <2>1. [state EXCEPT !.validators[i].compounding = TRUE] = switched
    OBVIOUS
  <2> DEFINE s == [state EXCEPT !.validators[i].compounding = TRUE]
  <2>2. state' = IF excess <= 0 THEN s
                 ELSE [s EXCEPT !.balances[i] = MIN_ACTIVATION_BALANCE,
                                !.pending_deposits = Append(@, d)]
    BY <1>1 DEF switch_to_compounding_validator
  <2>3. s = switched
    BY <2>1
  <2> HIDE DEF s, switched, d, excess
  <2> QED
    BY <2>2, <2>3
<1>3. v \in Validator /\ v.pubkey \in PubKeys /\ state.balances[i] \in Nat
      /\ MIN_ACTIVATION_BALANCE \in Nat /\ i \in 1..Len(state.balances)
      /\ state.balances \in Seq(Nat) /\ state.net \in Int /\ Wealth(state) \in Int
  BY Fields, FieldsOfOne, Constants, WealthIsInt
<1>4. switched \in Conserving(state)
  <2>1. w \in Validator
    BY <1>3 DEF Validator
  <2> HIDE DEF w
  <2> QED
    BY <2>1, ValidatorChanges
<1>5. switched.balances = state.balances /\ switched.net = state.net
  <2>1. state \in BeaconState
    BY DEF Sound
  <2> QED
    BY <2>1 DEF BeaconState
<1> HIDE DEF w, switched
<1>6. switched \in Sound /\ Wealth(switched) = Wealth(state)
  BY <1>4, ConservingIsKept
<1>7. CASE excess <= 0
  BY <1>2, <1>6, <1>7 DEF Kept
<1>8. CASE ~(excess <= 0)
  <2> DEFINE bs == [state.balances EXCEPT ![i] = MIN_ACTIVATION_BALANCE]
             low == [switched EXCEPT !.balances = bs, !.net = state.net]
             high == [low EXCEPT !.pending_deposits = Append(@, d), !.net = state.net]
  <2>1. excess \in Nat /\ d \in PendingDeposit /\ d.amount = excess
    BY <1>3, <1>8 DEF PendingDeposit
  <2>2. bs \in Seq(Nat) /\ Len(bs) = Len(switched.balances)
    BY <1>3, <1>5
  <2>3. Total(bs) = Total(state.balances) - state.balances[i] + MIN_ACTIVATION_BALANCE
    <3>1. state.balances \in Seq(Int) /\ MIN_ACTIVATION_BALANCE \in Int
      BY <1>3, Fields
    <3> QED
      BY <1>3, <3>1, TotalUpdate
  <2>4. queued = high
    <3>1. switched \in BeaconState
      BY <1>6 DEF Sound
    <3>2. queued = [switched EXCEPT !.balances = bs, !.pending_deposits = Append(@, d)]
      BY <1>5
    <3> HIDE DEF bs, d
    <3> QED
      BY <1>5, <3>1, <3>2 DEF BeaconState
  <2> HIDE DEF bs, d
  <2>5. low \in Alike(switched)
        /\ Wealth(low) = Wealth(switched) + Total(bs) - Total(switched.balances)
                           + state.net - switched.net
    BY <1>3, <1>6, <2>2, BalancesChange
  <2>6. low \in Sound /\ low.net = state.net
    <3>1. switched \in BeaconState
      BY <1>6 DEF Sound
    <3>2. low.net = state.net
      BY <3>1 DEF BeaconState
    <3> HIDE DEF low
    <3> QED
      BY <2>5, <3>2 DEF Alike
  <2> HIDE DEF low
  <2>7. high \in Sound /\ Wealth(high) = Wealth(low) + d.amount + state.net - low.net
    BY <1>3, <2>1, <2>6, DepositQueued
  <2>8. Total(state.balances) \in Nat
    BY WealthIsInt
  <2> HIDE DEF high, queued
  <2>9. Wealth(low) = Wealth(state) - excess
    <3> DEFINE t == Total(state.balances)
               u == Total(bs)
               x == Wealth(state)
               b == state.balances[i]
    <3>1. Wealth(low) = x + u - t + state.net - state.net
      BY <1>5, <1>6, <2>5
    <3>2. u = t - b + MIN_ACTIVATION_BALANCE /\ t \in Nat /\ x \in Int /\ b \in Nat
      BY <1>3, <2>3, <2>8
    <3>3. excess = b - MIN_ACTIVATION_BALANCE
      OBVIOUS
    <3> HIDE DEF t, u, x, b, excess
    <3>4. Wealth(low) = x - excess
      BY <1>3, <3>1, <3>2, <3>3
    <3> QED
      BY <3>4 DEF x
  <2>10. Wealth(high) = Wealth(state)
    <3> HIDE DEF excess
    <3> QED
      BY <1>3, <2>1, <2>6, <2>7, <2>9
  <2> QED
    BY <1>2, <1>8, <2>4, <2>7, <2>10 DEF Kept
<1> QED
  BY <1>7, <1>8

(* A step of process_consolidation_request. *)
LEMMA ConsolidationRequestStep ==
    ASSUME state \in Sound, ProcessConsolidationRequest
    PROVE  Kept
<1>1. PICK i \in Indices(state), j \in Indices(state) : process_consolidation_request(i, j)
  BY DEF ProcessConsolidationRequest
<1> DEFINE amount == state.validators[i].effective_balance
           booked == BookConsolidation(state, amount)
           left == Leaves(booked, i, booked.consolidations.earliest)
<1>2. /\ get_consolidation_churn_limit(state) > MIN_ACTIVATION_BALANCE
      /\ state' = [left EXCEPT !.pending_consolidations =
                     Append(@, [source |-> i, target |-> j])]
  BY <1>1 DEF process_consolidation_request
<1>3. amount \in Nat /\ get_consolidation_churn_limit(state) # 0
  <2>1. amount \in Nat
    BY FieldsOfOne
  <2>2. get_consolidation_churn_limit(state) \in Nat
    BY Limits
  <2>3. MIN_ACTIVATION_BALANCE \in Nat
    BY Constants
  <2> HIDE DEF amount
  <2> QED
    BY <1>2, <2>1, <2>2, <2>3
<1> HIDE DEF amount
<1>4. booked \in Conserving(state) /\ booked.consolidations.earliest \in Nat
  BY <1>3, BookConsolidationKeeps
<1> HIDE DEF booked
<1>5. booked \in Sound /\ i \in Indices(booked)
  BY <1>4, SameIndices DEF Conserving
<1>6. left \in Conserving(booked)
  BY <1>4, <1>5, LeavesKeeps
<1> HIDE DEF left
<1>7. left \in Conserving(state)
  BY <1>4, <1>6, ConservingTransitive
<1>8. left \in Sound /\ i \in Indices(left) /\ j \in Indices(left) /\ Wealth(left) = Wealth(state)
  BY <1>7, SameIndices DEF Conserving
<1>9. LET r == [left EXCEPT !.pending_consolidations = Append(@, [source |-> i, target |-> j])]
      IN r \in Sound /\ Wealth(r) = Wealth(left)
  BY <1>8, ConsolidationQueued
<1> QED
  BY <1>2, <1>8, <1>9 DEF Kept

--------------------------------------------------------------------------------
(* The specification *)

(* Every record of the state has its fields, every index in it is one of the registry,
   and the block has come to one of its stages. *)
TypeOK == state \in BeaconState /\ IndicesExist(state) /\ stage \in 0..6 /\ events \in Nat

Inv == state \in Sound /\ stage \in 0..6 /\ events \in Nat

(* The registry starts sound, with the gwei it has. *)
LEMMA Start == Init => Inv /\ Wealth(state) = Total(InitialState.balances)
<1> SUFFICES ASSUME Init PROVE Inv /\ Wealth(state) = Total(InitialState.balances)
  OBVIOUS
<1>1. state = InitialState /\ stage = 0 /\ events = 0
  BY DEF Init
<1>2. /\ state \in BeaconState /\ IndicesExist(state)
      /\ state.pending_deposits = <<>> /\ state.net = 0
      /\ state.exits.booked = <<>> /\ state.exits.to_consume = 0
      /\ state.consolidations.booked = <<>> /\ state.consolidations.to_consume = 0
  BY <1>1, InitialAssumption
<1>3. WithinChurn(<<>>)
  BY DEF WithinChurn
<1>4. Backlog(state.exits) /\ Backlog(state.consolidations)
  BY <1>2, <1>3 DEF Backlog
<1>5. state \in Sound
  BY <1>2, <1>4 DEF Sound
<1>6. Amounts(<<>>) = <<>>
  BY DEF Amounts
<1>7. Wealth(state) = Total(state.balances)
  <2>1. Total(state.balances) \in Nat
    BY <1>5, WealthIsInt
  <2> QED
    BY <1>2, <1>6, <2>1, TotalEmpty DEF Wealth
<1> QED
  BY <1>1, <1>5, <1>7 DEF Inv

(* What a step makes: what GweiAccountedFor allows it. *)
Made == IF stage = 0 /\ stage' = Stage("withdrawals") THEN Overdraft(state) ELSE 0

(* Every step keeps it so, and makes no more than that. *)
LEMMA Step ==
    Inv /\ [Next]_vars => Inv' /\ Wealth(state') = Wealth(state) + Made
<1> SUFFICES ASSUME Inv, [Next]_vars
             PROVE  Inv' /\ Wealth(state') = Wealth(state) + Made
  OBVIOUS
<1>1. state \in Sound /\ stage \in 0..6 /\ events \in Nat
  BY DEF Inv
<1>2. state' \in Sound /\ Wealth(state') = Wealth(state) + Made
  <2>1. CASE process_withdrawals
    <3>1. Made = Overdraft(state)
      BY <2>1 DEF Made, process_withdrawals
    <3> QED
      BY <1>1, <2>1, <3>1, WithdrawalsStep
  <2>2. ASSUME Kept, ~(stage = 0 /\ stage' = 1)
        PROVE  state' \in Sound /\ Wealth(state') = Wealth(state) + Made
    <3>1. Made = 0
      BY <2>2 DEF Made, Stage
    <3>2. Wealth(state) \in Int
      BY <1>1, WealthIsInt
    <3> QED
      BY <2>2, <3>1, <3>2 DEF Kept
  <2>3. CASE AdvanceSlot
    <3>1. stage' = 0
      BY <2>3 DEF AdvanceSlot
    <3> QED
      BY <1>1, <2>2, <2>3, <3>1, AdvanceStep
  <2>4. ASSUME NEW kind \in {"slashing", "exit", "deposit_request", "withdrawal_request",
                             "consolidation_request"}, Event(kind)
        PROVE  stage # 0
    BY <2>4 DEF Event, Stage
  <2>5. CASE ProcessVoluntaryExit \/ ProcessSlashing \/ ProcessFullExitRequest
    <3>1. stage # 0
      BY <2>4, <2>5 DEF ProcessVoluntaryExit, ProcessSlashing, ProcessFullExitRequest,
           process_voluntary_exit, process_slashing, process_full_exit_request
    <3> QED
      BY <1>1, <2>2, <2>5, <3>1, LeavingSteps
  <2>6. CASE ProcessWithdrawalRequest
    <3>1. stage # 0
      BY <2>4, <2>6 DEF ProcessWithdrawalRequest, process_withdrawal_request
    <3> QED
      BY <1>1, <2>2, <2>6, <3>1, WithdrawalRequestStep
  <2>7. CASE ProcessDepositRequest
    <3>1. stage # 0
      BY <2>4, <2>7 DEF ProcessDepositRequest, process_deposit_request
    <3> QED
      BY <1>1, <2>2, <2>7, <3>1, DepositRequestStep
  <2>8. CASE SwitchToCompounding
    <3>1. stage # 0
      BY <2>4, <2>8 DEF SwitchToCompounding, switch_to_compounding_validator
    <3> QED
      BY <1>1, <2>2, <2>8, <3>1, SwitchStep
  <2>9. CASE ProcessConsolidationRequest
    <3>1. stage # 0
      BY <2>4, <2>9 DEF ProcessConsolidationRequest, process_consolidation_request
    <3> QED
      BY <1>1, <2>2, <2>9, <3>1, ConsolidationRequestStep
  <2>10. CASE UNCHANGED vars
    <3>1. Kept /\ stage' = stage
      BY <1>1, <2>10 DEF vars, Kept
    <3> QED
      BY <2>2, <3>1
  <2> QED
    BY <2>1, <2>3, <2>5, <2>6, <2>7, <2>8, <2>9, <2>10 DEF Next
<1>3. stage' \in 0..6 /\ events' \in Nat
  <2>1. ASSUME NEW kind \in {"slashing", "exit", "deposit_request", "withdrawal_request",
                             "consolidation_request"}, Event(kind)
        PROVE  stage' \in 0..6 /\ events' \in Nat
    BY <1>1, <2>1 DEF Event, Stage
  <2>2. CASE process_withdrawals
    BY <1>1, <2>2 DEF process_withdrawals, Stage
  <2>3. CASE AdvanceSlot
    <3>1. PICK n \in 0..3 : stage' = 0 /\ events' = events + n
      BY <2>3 DEF AdvanceSlot
    <3> QED
      BY <1>1, <3>1
  <2>4. CASE ProcessVoluntaryExit \/ ProcessSlashing \/ ProcessFullExitRequest
    BY <2>1, <2>4 DEF ProcessVoluntaryExit, ProcessSlashing, ProcessFullExitRequest,
         process_voluntary_exit, process_slashing, process_full_exit_request
  <2>5. CASE ProcessWithdrawalRequest \/ ProcessDepositRequest
    BY <2>1, <2>5 DEF ProcessWithdrawalRequest, ProcessDepositRequest,
         process_withdrawal_request, process_deposit_request
  <2>6. CASE SwitchToCompounding \/ ProcessConsolidationRequest
    BY <2>1, <2>6 DEF SwitchToCompounding, ProcessConsolidationRequest,
         switch_to_compounding_validator, process_consolidation_request
  <2>7. CASE UNCHANGED vars
    BY <1>1, <2>7 DEF vars
  <2> QED
    BY <2>2, <2>3, <2>4, <2>5, <2>6, <2>7 DEF Next
<1> QED
  BY <1>2, <1>3 DEF Inv

(* Every state of the registry is well formed: each index names a validator, each
   validator has a balance, and no amount is negative, whatever is queued, put off,
   consolidated or withdrawn. *)
THEOREM RegistryWellFormed == Spec => []TypeOK
<1>1. Init => Inv
  BY Start
<1>2. Inv /\ [Next]_vars => Inv'
  BY Step
<1>3. Inv => TypeOK
  BY DEF Inv, TypeOK, Sound
<1> QED
  BY <1>1, <1>2, <1>3, PTL DEF Spec

(* Of the exits and partial withdrawals, and of the consolidations, whatever is booked in
   a span of epochs after its first booking fits in the highest limit so far of each:
   compute_exit_epoch_and_update_churn and compute_consolidation_epoch_and_update_churn
   respect the churn as the limit rises and falls. *)
THEOREM ChurnIsRespected == Spec => []ChurnRespected
<1>1. Init => Inv
  BY Start
<1>2. Inv /\ [Next]_vars => Inv'
  BY Step
<1>3. Inv => ChurnRespected
  BY DEF Inv, ChurnRespected, Sound, Backlog
<1> QED
  BY <1>1, <1>2, <1>3, PTL DEF Spec

(* Every gwei is accounted for: no handler of a block and no pass of process_epoch loses
   or makes any, whatever the queues hold, and a payload makes exactly what its partial
   withdrawals exceed the balances by (electra/beacon-chain.md:1126). *)
THEOREM GweiAreAccountedFor == Spec => GweiAccountedFor
<1>1. Init => Inv
  BY Start
<1>2. Inv /\ [Next]_vars => Inv' /\ Wealth(state)' = Wealth(state) + Made
  <2>1. Inv /\ [Next]_vars => Inv' /\ Wealth(state') = Wealth(state) + Made
    BY Step
  <2>2. Wealth(state)' = Wealth(state')
    BY DEF Wealth
  <2> QED
    BY <2>1, <2>2
<1>3. GweiAccountedFor <=> [][Wealth(state)' = Wealth(state) + Made]_vars
  BY DEF GweiAccountedFor, Made
<1> HIDE DEF Inv, Wealth, Made, Next, vars, GweiAccountedFor
<1> QED
  BY <1>1, <1>2, <1>3, PTL DEF Spec
================================================================================
