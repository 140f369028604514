---------------------- MODULE DependencyOrder_proofs ----------------------
(***************************************************************************)
(* The loop of build_spec leaves class_objects only in an order in which   *)
(* every class comes after the classes it names, for any number of classes *)
(* and any acyclic field types.  The loop stops when a whole pass gives    *)
(* back the order it began with; the invariant MovesAreVisible says that a *)
(* pass which moved a class cannot do that.  The second half shows that    *)
(* the moves, written in closed form, are the pops of the code.            *)
(***************************************************************************)
EXTENDS DependencyOrder, TLAPS, FiniteSetTheorems, WellFoundedInduction

LEMMA CountIsNat == N \in Nat
BY DocumentsAssumption, FS_CardinalityType DEF N

(* A move keeps an order an order. *)
LEMMA PlaceBehindOrders ==
  ASSUME NEW p \in Orders, NEW key \in Objects, NEW dep \in Objects
  PROVE  PlaceBehind(p, key, dep) \in Orders
<1>1. \A k \in Objects : PlaceBehind(p, key, dep)[k] \in 1..N
  BY CountIsNat DEF PlaceBehind, Orders
<1>2. \A j, k \in Objects : PlaceBehind(p, key, dep)[j] = PlaceBehind(p, key, dep)[k] => j = k
  BY CountIsNat DEF PlaceBehind, Orders
<1>. QED
  BY <1>1, <1>2 DEF PlaceBehind, Orders

(* A move changes the order of the moved class only, and only backwards. *)
LEMMA PlaceBehindMovesOne ==
  ASSUME NEW p \in Orders, NEW key \in Objects, NEW dep \in Objects
  PROVE  /\ \A j, k \in Objects \ {key} :
              p[j] < p[k] <=> PlaceBehind(p, key, dep)[j] < PlaceBehind(p, key, dep)[k]
         /\ \A k \in Objects : p[k] < p[key] =>
              PlaceBehind(p, key, dep)[k] < PlaceBehind(p, key, dep)[key]
         /\ p[key] < p[dep] =>
              PlaceBehind(p, key, dep)[dep] < PlaceBehind(p, key, dep)[key]
         /\ ~ p[key] < p[dep] => PlaceBehind(p, key, dep) = p
<1>1. \A k \in Objects : p[k] \in 1..N
  BY DEF Orders
<1>2. \A j, k \in Objects : p[j] = p[k] => j = k
  BY DEF Orders
<1>3. p = [k \in Objects |-> p[k]]
  BY DEF Orders
<1>. QED
  BY <1>1, <1>2, <1>3, CountIsNat DEF PlaceBehind

(* Types. *)
LEMMA TypeInvariant == Spec => []TypeOK
<1>1. Init => TypeOK
  BY CountIsNat DEF Init, TypeOK
<1>2. TypeOK /\ [Next]_vars => TypeOK'
  <2> SUFFICES ASSUME TypeOK, [Next]_vars PROVE TypeOK'
    OBVIOUS
  <2>1. CASE Compare
    BY <2>1, CountIsNat DEF Compare, TypeOK
  <2>2. CASE HandleWord
    <3>1. PICK key \in Objects :
            /\ pc = "pass"
            /\ start[key] = turn
            /\ word \in DOMAIN deps[key]
            /\ IF deps[key][word] \in Objects
                 THEN /\ place' = PlaceBehind(place, key, deps[key][word])
                      /\ moved' = IF place[key] < place[deps[key][word]]
                                    THEN moved \cup {key} ELSE moved
                      /\ word' = word + 1
                      /\ UNCHANGED pc
                 ELSE pc' = "failed" /\ UNCHANGED <<place, word, moved>>
            /\ UNCHANGED <<deps, start, turn>>
      BY <2>2, Zenon DEF HandleWord
    <3>2. place' \in Orders
      BY <3>1, PlaceBehindOrders DEF TypeOK
    <3>. QED
      BY <3>1, <3>2 DEF TypeOK
  <2>3. CASE NextKey
    <3>1. turn + 1 \in 1..(N + 1)
      BY <2>3, CountIsNat DEF NextKey, TypeOK, Orders, Unordered
    <3>. QED
      BY <2>3, <3>1 DEF NextKey, TypeOK
  <2>4. CASE UNCHANGED vars
    BY <2>4 DEF vars, TypeOK
  <2>. QED
    BY <2>1, <2>2, <2>3, <2>4 DEF Next
<1>. QED
  BY <1>1, <1>2, PTL DEF Spec

(* A move keeps every account: the class a moved class relies on is never the one
   that moves, for it would rank below itself. *)
LEMMA MoveKeepsAccounts ==
  ASSUME TypeOK, MovesAreVisible, start # Unordered,
         NEW key \in Objects, NEW dep \in Objects, NEW rank \in Ranks,
         rank[dep] < rank[key],
         place[key] < place[dep],
         place' = PlaceBehind(place, key, dep),
         moved' = moved \cup {key},
         start' = start
  PROVE  \A k \in moved' : Accounted(rank, k)'
<1>. DEFINE Acc(k, m, pl) == \E j \in m, d \in Objects \ m :
              /\ rank[d] < rank[j] /\ rank[j] <= rank[k]
              /\ start[j] < start[d] /\ pl[d] < pl[j]
<1>1. /\ place \in Orders /\ start \in Orders
      /\ moved \subseteq Objects
      /\ rank \in [Objects -> 1..N]
  BY DEF TypeOK, Ranks
<1>2. \A k \in moved : Acc(k, moved, place)
  BY DEF MovesAreVisible, Accounted
<1>3. /\ \A x \in Objects : place[x] \in 1..N /\ start[x] \in 1..N /\ rank[x] \in 1..N
      /\ N \in Nat
  BY <1>1, CountIsNat DEF Orders
<1>4. /\ \A j, k \in Objects \ {key} : place[j] < place[k] <=> place'[j] < place'[k]
      /\ \A k \in Objects : place[k] < place[key] => place'[k] < place'[key]
      /\ place'[dep] < place'[key]
  BY <1>1, PlaceBehindMovesOne
<1>5. ASSUME NEW k \in moved, rank[k] <= rank[key] PROVE Acc(k, moved', place')
  <2>1. PICK j \in moved, d \in Objects \ moved :
          /\ rank[d] < rank[j] /\ rank[j] <= rank[k]
          /\ start[j] < start[d] /\ place[d] < place[j]
    BY <1>2, <1>5
  <2>2. d # key
    BY <2>1, <1>5, <1>3, <1>1
  <2>3. place'[d] < place'[j]
    BY <2>1, <2>2, <1>4, <1>1
  <2>. QED
    BY <2>1, <2>2, <2>3
<1>6. Acc(key, moved', place')
  <2>1. CASE key \in moved
    BY <2>1, <1>5, <1>3
  <2>2. CASE key \notin moved /\ dep \in moved
    <3>1. Acc(dep, moved', place')
      BY <2>2, <1>5, <1>3
    <3>. QED
      BY <3>1, <1>3, <1>1
  <2>3. CASE key \notin moved /\ dep \notin moved
    <3>1. start[key] < start[dep]
      BY <2>3 DEF MovesAreVisible
    <3>2. dep # key
      BY <1>3
    <3>. QED
      BY <2>3, <3>1, <3>2, <1>3, <1>4
  <2>. QED
    BY <2>1, <2>2, <2>3
<1>7. ASSUME NEW k \in moved PROVE Acc(k, moved', place')
  <2>1. PICK j \in moved, d \in Objects \ moved :
          /\ rank[d] < rank[j] /\ rank[j] <= rank[k]
          /\ start[j] < start[d] /\ place[d] < place[j]
    BY <1>2
  <2>2. CASE d = key
    BY <2>1, <2>2, <1>6, <1>3, <1>1
  <2>3. CASE d # key
    <3>1. place'[d] < place'[j]
      BY <2>1, <2>3, <1>4, <1>1
    <3>. QED
      BY <2>1, <2>3, <3>1
  <2>. QED
    BY <2>2, <2>3
<1>. QED
  BY <1>6, <1>7 DEF Accounted

(* One pass of the loop: from the comparison that starts it to its last word. *)
LEMMA VisibleStep ==
  ASSUME TypeOK, MovesAreVisible, [Next]_vars
  PROVE  MovesAreVisible'
<1>1. CASE Compare
  <2>1. CASE UNCHANGED start
    BY <1>1, <2>1 DEF Compare, MovesAreVisible, Accounted, Ranks
  <2>2. CASE start' = place /\ moved' = {} /\ turn' = 1 /\ word' = 1
    <3>1. \A k \in Objects : place[k] \in 1..N
      BY DEF TypeOK, Orders
    <3>2. place' = place /\ deps' = deps
      BY <1>1 DEF Compare
    <3>3. \A k \in Objects : deps[k] \in Seq(Names)
      BY DocumentsAssumption DEF TypeOK
    <3>4. \A k \in Objects : \A i \in DOMAIN deps'[k] :
            ~ (start'[k] < turn' \/ (start'[k] = turn' /\ i < word'))
      BY <2>2, <3>1, <3>2, <3>3, CountIsNat
    <3>. QED
      BY <2>2, <3>2, <3>4, Zenon DEF MovesAreVisible
  <2>. QED
    BY <1>1, <2>1, <2>2 DEF Compare
<1>2. CASE HandleWord
  <2>1. PICK key \in Objects :
          /\ pc = "pass"
          /\ start[key] = turn
          /\ word \in DOMAIN deps[key]
          /\ IF deps[key][word] \in Objects
               THEN /\ place' = PlaceBehind(place, key, deps[key][word])
                    /\ moved' = IF place[key] < place[deps[key][word]]
                                  THEN moved \cup {key} ELSE moved
                    /\ word' = word + 1
                    /\ UNCHANGED pc
               ELSE pc' = "failed" /\ UNCHANGED <<place, word, moved>>
          /\ UNCHANGED <<deps, start, turn>>
    BY <1>2, Zenon DEF HandleWord
  <2>2. CASE deps[key][word] \notin Objects
    BY <2>1, <2>2 DEF MovesAreVisible, Accounted, Ranks
  <2>. DEFINE dep == deps[key][word]
  <2>3. CASE dep \in Objects /\ place[key] < place[dep] /\ start # Unordered
    <3>1. place' = PlaceBehind(place, key, dep) /\ moved' = moved \cup {key} /\ start' = start
      BY <2>1, <2>3
    <3>2. Ranks' = Ranks
      BY <2>1 DEF Ranks
    <3>3. \A rank \in Ranks : rank[dep] < rank[key]
      BY <2>1, <2>3 DEF Ranks
    <3>4. \A rank \in Ranks : \A k \in moved' : Accounted(rank, k)'
      <4> SUFFICES ASSUME NEW rank \in Ranks PROVE \A k \in moved' : Accounted(rank, k)'
        OBVIOUS
      <4>. HIDE DEF dep
      <4>. QED
        BY <3>1, <3>3, <2>3, MoveKeepsAccounts
    <3>5. \A j, k \in Objects \ moved' : start[j] < start[k] <=> place'[j] < place'[k]
      <4>1. \A j, k \in Objects \ {key} : place[j] < place[k] <=> place'[j] < place'[k]
        BY <3>1, <2>3, PlaceBehindMovesOne DEF TypeOK
      <4>. QED
        BY <4>1, <3>1, <2>3 DEF MovesAreVisible
    <3>. QED
      BY <3>1, <3>2, <3>4, <3>5 DEF MovesAreVisible
  <2>4. CASE dep \in Objects /\ ~ place[key] < place[dep] /\ start # Unordered
    <3>1. place' = place /\ moved' = moved /\ start' = start /\ word' = word + 1 /\ turn' = turn
          /\ deps' = deps
      BY <2>1, <2>4, PlaceBehindMovesOne DEF TypeOK
    <3>2. PICK rank \in [Objects -> 1..N] : \A k \in Objects : \A i \in DOMAIN deps[k] :
            deps[k][i] \in Objects => rank[deps[k][i]] < rank[k]
      BY DocumentsAssumption DEF TypeOK, N
    <3>3. dep # key
      BY <2>1, <2>4, <3>2, CountIsNat
    <3>4. place[dep] < place[key]
      BY <2>4, <3>3, CountIsNat DEF TypeOK, Orders
    <3>5. ASSUME moved = {}, NEW k \in Objects, NEW i \in DOMAIN deps[k],
                 start[k] < turn \/ (start[k] = turn /\ i < word + 1)
          PROVE  deps[k][i] \in Objects /\ place[deps[k][i]] < place[k]
      <4>1. CASE start[k] < turn \/ (start[k] = turn /\ i < word)
        BY <4>1, <3>5, <2>4 DEF MovesAreVisible
      <4>2. CASE start[k] = turn /\ ~ i < word
        <5>1. i \in Nat
          BY DocumentsAssumption DEF TypeOK
        <5>2. i = word
          BY <5>1, <4>2, <3>5, CountIsNat DEF TypeOK
        <5>3. k = key
          BY <4>2, <2>1, <2>4 DEF TypeOK, Orders
        <5>. QED
          BY <5>2, <5>3, <3>4, <2>4
      <4>. QED
        BY <4>1, <4>2, <3>5
    <3>. QED
      BY <3>1, <3>5, <2>4 DEF MovesAreVisible, Accounted, Ranks
  <2>. QED
    BY <2>1, <2>2, <2>3, <2>4 DEF MovesAreVisible
<1>3. CASE NextKey
  <2>1. PICK key \in Objects : start[key] = turn /\ word \notin DOMAIN deps[key]
    BY <1>3 DEF NextKey
  <2>2. /\ turn' = turn + 1 /\ word' = 1
        /\ UNCHANGED <<deps, place, start, moved>>
    BY <1>3 DEF NextKey
  <2>3. ASSUME start # Unordered, moved = {}, NEW k \in Objects, NEW i \in DOMAIN deps[k],
               start[k] < turn + 1 \/ (start[k] = turn + 1 /\ i < 1)
        PROVE  deps[k][i] \in Objects /\ place[deps[k][i]] < place[k]
    <3>1. deps[k] \in Seq(Names) /\ deps[key] \in Seq(Names)
      BY DocumentsAssumption DEF TypeOK
    <3>2. start[k] < turn \/ start[k] = turn
      BY <2>3, <3>1, CountIsNat DEF TypeOK, Orders
    <3>3. start[k] = turn => k = key
      BY <2>1, <2>3 DEF TypeOK, Orders
    <3>4. k = key => i < word
      BY <2>1, <3>1 DEF TypeOK
    <3>. QED
      BY <2>3, <3>2, <3>3, <3>4 DEF MovesAreVisible
  <2>. QED
    BY <2>2, <2>3 DEF MovesAreVisible, Accounted, Ranks
<1>4. CASE UNCHANGED vars
  BY <1>4 DEF vars, MovesAreVisible, Accounted, Ranks
<1>. QED
  BY <1>1, <1>2, <1>3, <1>4 DEF Next

(* Between two passes every word of every class was handled. *)
Bookkeeping ==
  pc \in {"compare", "done"} => start = Unordered \/ turn = N + 1

(* The order is left only when it is one. *)
DoneWhenUnmoved == pc = "done" => place = start

(* A pass that gives back the order it began with moved no class. *)
LEMMA SameOrderMeansUnmoved ==
  ASSUME TypeOK, MovesAreVisible, place = start, start # Unordered
  PROVE  moved = {}
<1> SUFFICES ASSUME NEW k \in moved PROVE FALSE
  OBVIOUS
<1>1. PICK rank \in Ranks : TRUE
  BY DocumentsAssumption DEF TypeOK, Ranks, N
<1>2. Accounted(rank, k)
  BY DEF MovesAreVisible
<1>. QED
  BY <1>2, CountIsNat DEF Accounted, TypeOK, Orders

(* MovesAreVisible holds in every reachable state: no pass undoes its own moves. *)
THEOREM MovesStayVisible == Spec => []MovesAreVisible
<1>1. Init => MovesAreVisible
  BY DEF Init, MovesAreVisible
<1>. QED
  BY <1>1, TypeInvariant, VisibleStep, PTL DEF Spec

(* The order class_objects is left in puts every class after the classes its
   field types name: the generated module defines no class before one it needs. *)
THEOREM OrderedClassesAreTopological == Spec => []OrderIsTopological
<1>1. Init => Bookkeeping /\ DoneWhenUnmoved
  BY DEF Init, Bookkeeping, DoneWhenUnmoved
<1>2. TypeOK /\ Bookkeeping /\ DoneWhenUnmoved /\ [Next]_vars
        => Bookkeeping' /\ DoneWhenUnmoved'
  <2> SUFFICES ASSUME TypeOK, Bookkeeping, DoneWhenUnmoved, [Next]_vars
               PROVE  Bookkeeping' /\ DoneWhenUnmoved'
    OBVIOUS
  <2>1. CASE Compare
    BY <2>1 DEF Compare, Bookkeeping, DoneWhenUnmoved
  <2>2. CASE HandleWord
    BY <2>2 DEF HandleWord, Bookkeeping, DoneWhenUnmoved
  <2>3. CASE NextKey
    BY <2>3 DEF NextKey, Bookkeeping, DoneWhenUnmoved
  <2>4. CASE UNCHANGED vars
    BY <2>4 DEF vars, Bookkeeping, DoneWhenUnmoved
  <2>. QED
    BY <2>1, <2>2, <2>3, <2>4 DEF Next
<1>3. TypeOK /\ MovesAreVisible /\ Bookkeeping /\ DoneWhenUnmoved => OrderIsTopological
  <2> SUFFICES ASSUME TypeOK, MovesAreVisible, Bookkeeping, DoneWhenUnmoved, pc = "done",
                      NEW k \in Objects, NEW i \in DOMAIN deps[k]
               PROVE  deps[k][i] \in Objects /\ place[deps[k][i]] < place[k]
    BY DEF OrderIsTopological
  <2>1. place = start /\ place[k] \in 1..N
    BY DEF DoneWhenUnmoved, TypeOK, Orders
  <2>2. start # Unordered
    BY <2>1, CountIsNat DEF Unordered
  <2>3. moved = {}
    BY <2>1, <2>2, SameOrderMeansUnmoved
  <2>4. start[k] < turn
    BY <2>1, <2>2, CountIsNat DEF Bookkeeping
  <2>. QED
    BY <2>2, <2>3, <2>4 DEF MovesAreVisible
<1>. QED
  BY <1>1, <1>2, <1>3, TypeInvariant, MovesStayVisible, PTL DEF Spec

----------------------------------------------------------------------------
(* Induction up to n, of a set. *)
LEMMA UpTo ==
  ASSUME NEW n \in Nat, NEW T, 0 \in T, \A i \in 1..n : i - 1 \in T => i \in T
  PROVE  \A i \in 0..n : i \in T
<1> SUFFICES ASSUME NEW i \in 0..n, i \notin T PROVE FALSE
  OBVIOUS
<1>. DEFINE M == {j \in 0..n : j \notin T}
<1>1. PICK m \in M : \A j \in M : ~ <<j, m>> \in OpToRel(<, Nat)
  <2>1. M \subseteq Nat /\ M # {}
    OBVIOUS
  <2>. HIDE DEF M
  <2>. QED
    BY <2>1, NatLessThanWellFounded, WFMin
<1>2. \A j \in M : ~ j < m
  <2>1. \A j \in M : j \in Nat
    OBVIOUS
  <2>. HIDE DEF M
  <2>. QED
    BY <1>1, <2>1 DEF OpToRel
<1>3. m \in 1..n /\ m - 1 \in 0..n
  OBVIOUS
<1>4. m - 1 \in T
  BY <1>2, <1>3
<1>. QED
  BY <1>3, <1>4

(* An order of N classes takes every position: each names its class. *)
LEMMA KeyListOfOrder ==
  ASSUME NEW p \in Orders
  PROVE  /\ KeyList(p) \in [1..N -> Objects]
         /\ Len(KeyList(p)) = N
         /\ KeyList(p) \in Seq(Objects)
         /\ \A i \in 1..N : p[KeyList(p)[i]] = i
         /\ \A k \in Objects : KeyList(p)[p[k]] = k
<1>1. p \in [Objects -> 1..N] /\ \A j, k \in Objects : p[j] = p[k] => j = k
  BY DEF Orders
<1>2. \A i \in 1..N : \E k \in Objects : p[k] = i
  <2>1. p \in Injection(Objects, 1..N)
    BY <1>1 DEF Injection, IsInjective
  <2>2. IsFiniteSet(1..N) /\ Cardinality(1..N) = N
    BY CountIsNat, FS_Interval
  <2>3. p \in Surjection(Objects, 1..N)
    BY <2>1, <2>2, FS_Injection DEF N
  <2>. QED
    BY <2>3 DEF Surjection
<1>3. \A i \in 1..N : KeyList(p)[i] \in Objects /\ p[KeyList(p)[i]] = i
  BY <1>2 DEF KeyList
<1>4. KeyList(p) \in [1..N -> Objects]
  BY <1>3 DEF KeyList
<1>5. Len(KeyList(p)) = N /\ KeyList(p) \in Seq(Objects)
  BY <1>4, CountIsNat
<1>. QED
  BY <1>1, <1>3, <1>4, <1>5

(* What popping and reinserting an entry does to the positions. *)
PlaceLast(p, item) ==
  [k \in Objects |-> IF k = item THEN N ELSE IF p[item] < p[k] THEN p[k] - 1 ELSE p[k]]

LEMMA PlaceLastOrders ==
  ASSUME NEW p \in Orders, NEW item \in Objects
  PROVE  PlaceLast(p, item) \in Orders
<1>1. \A k \in Objects : PlaceLast(p, item)[k] \in 1..N
  BY CountIsNat DEF PlaceLast, Orders
<1>2. \A j, k \in Objects : PlaceLast(p, item)[j] = PlaceLast(p, item)[k] => j = k
  BY CountIsNat DEF PlaceLast, Orders
<1>. QED
  BY <1>1, <1>2 DEF PlaceLast, Orders

(* One step of the loop of pops, on the keys and on their positions. *)
LEMMA MoveToEndPlacesLast ==
  ASSUME NEW p \in Orders, NEW item \in Objects
  PROVE  MoveToEnd(KeyList(p), item) = KeyList(PlaceLast(p, item))
<1>. DEFINE list == KeyList(p)
            q == PlaceLast(p, item)
            at == CHOOSE i \in DOMAIN list : list[i] = item
<1>1. /\ list \in Seq(Objects) /\ Len(list) = N
      /\ \A i \in 1..N : list[i] \in Objects /\ p[list[i]] = i
      /\ \A k \in Objects : list[p[k]] = k
  BY KeyListOfOrder
<1>2. \A k \in Objects : p[k] \in 1..N
  BY DEF Orders
<1>3. /\ KeyList(q) \in [1..N -> Objects]
      /\ \A k \in Objects : KeyList(q)[q[k]] = k
      /\ \A k \in Objects : q[k] \in 1..N
      /\ \A k \in Objects : q[k] = IF k = item THEN N
                                   ELSE IF p[item] < p[k] THEN p[k] - 1 ELSE p[k]
  <2>1. q \in Orders
    BY PlaceLastOrders
  <2>. QED
    BY <2>1, KeyListOfOrder DEF Orders, PlaceLast
<1>. HIDE DEF list, q
<1>4. at = p[item]
  BY <1>1, <1>2
<1>. HIDE DEF at
<1>. DEFINE result == MoveToEnd(list, item)
<1>5. result = Append(SubSeq(list, 1, at - 1) \o SubSeq(list, at + 1, N), item)
  BY <1>1 DEF MoveToEnd, RemoveAt, at
<1>6. at \in 1..N /\ N \in Nat
  BY <1>2, <1>4, CountIsNat
<1>. DEFINE front == SubSeq(list, 1, at - 1)
            back == SubSeq(list, at + 1, N)
<1>7. /\ front \in Seq(Objects) /\ Len(front) = at - 1
      /\ \A i \in 1..(at - 1) : front[i] = list[i]
      /\ back \in Seq(Objects) /\ Len(back) = N - at
      /\ \A i \in 1..(N - at) : back[i] = list[at + i]
  BY <1>1, <1>6
<1>. HIDE DEF front, back
<1>8. /\ front \o back \in Seq(Objects) /\ Len(front \o back) = N - 1
      /\ \A i \in 1..(N - 1) : (front \o back)[i] = IF i < at THEN list[i] ELSE list[i + 1]
  <2>0. /\ front \o back \in Seq(Objects)
        /\ Len(front \o back) = Len(front) + Len(back)
        /\ \A i \in 1..(Len(front) + Len(back)) :
             (front \o back)[i] = IF i <= Len(front) THEN front[i] ELSE back[i - Len(front)]
    BY <1>7
  <2>1. /\ front \o back \in Seq(Objects)
        /\ Len(front \o back) = (at - 1) + (N - at)
        /\ \A i \in 1..(N - 1) : (front \o back)[i] = IF i <= at - 1 THEN front[i] ELSE back[i - (at - 1)]
    <3>1. Len(front) + Len(back) = N - 1
      BY <1>6, <1>7
    <3>. QED
      BY <2>0, <3>1, <1>6, <1>7
  <2>2. ASSUME NEW i \in 1..(N - 1), ~ i < at PROVE (front \o back)[i] = list[i + 1]
    <3>1. i - (at - 1) \in 1..(N - at) /\ at + (i - (at - 1)) = i + 1 /\ ~ i <= at - 1
      BY <1>6, <2>2
    <3>. QED
      BY <2>1, <3>1, <1>7
  <2>3. ASSUME NEW i \in 1..(N - 1), i < at PROVE (front \o back)[i] = list[i]
    <3>1. i \in 1..(at - 1) /\ i <= at - 1
      BY <1>6, <2>3
    <3>. QED
      BY <2>1, <3>1, <1>7
  <2>4. (at - 1) + (N - at) = N - 1
    BY <1>6
  <2>. QED
    BY <2>1, <2>2, <2>3, <2>4
<1>9. /\ result \in [1..N -> Objects]
      /\ result[N] = item
      /\ \A i \in 1..(N - 1) : result[i] = IF i < at THEN list[i] ELSE list[i + 1]
  <2>1. result = Append(front \o back, item)
    BY <1>5 DEF front, back
  <2>. DEFINE both == front \o back
  <2>2. both \in Seq(Objects) /\ Len(both) = N - 1
    BY <1>8
  <2>. HIDE DEF result, both
  <2>3. /\ Append(both, item) \in Seq(Objects) /\ Len(Append(both, item)) = N
        /\ Append(both, item)[N] = item
        /\ \A i \in 1..(N - 1) : Append(both, item)[i] = both[i]
    BY <2>2, <1>6
  <2>4. result = Append(both, item)
    BY <2>1 DEF both
  <2>5. \A i \in 1..(N - 1) : both[i] = IF i < at THEN list[i] ELSE list[i + 1]
    BY <1>8 DEF both
  <2>6. result \in [1..N -> Objects]
    <3>1. result \in Seq(Objects) /\ Len(result) = N
      BY <2>3, <2>4
    <3>2. result \in [1..Len(result) -> Objects]
      BY <3>1
    <3>. QED
      BY <3>1, <3>2
  <2>. QED
    BY <2>3, <2>4, <2>5, <2>6
<1>. HIDE DEF result
<1>10. ASSUME NEW i \in 1..N PROVE result[i] = KeyList(q)[i]
  <2>1. CASE i = N
    BY <2>1, <1>3, <1>9
  <2>2. CASE i < at
    <3>1. q[list[i]] = i
      BY <2>2, <1>1, <1>3, <1>4, <1>6
    <3>. QED
      BY <3>1, <2>2, <1>1, <1>3, <1>6, <1>9
  <2>3. CASE at <= i /\ i < N
    <3>1. i + 1 \in 1..N /\ i \in 1..(N - 1)
      BY <2>3, <1>6
    <3>2. list[i + 1] \in Objects /\ p[list[i + 1]] = i + 1
      BY <3>1, <1>1
    <3>3. q[list[i + 1]] = i
      BY <2>3, <3>2, <1>3, <1>4, <1>6
    <3>4. result[i] = list[i + 1]
      BY <2>3, <3>1, <1>9, <1>6
    <3>. QED
      BY <3>2, <3>3, <3>4, <1>3
  <2>. QED
    BY <2>1, <2>2, <2>3, <1>6
<1>. QED
  BY <1>3, <1>9, <1>10 DEF result, list, q

(* Mid-loop: where a class stands after n of the pops, the first of dep, the second
   of key, and then of the classes that stood behind dep. *)
Behind(p, key, dep, n) ==
  [k \in Objects |->
     IF n = 0 THEN p[k]
     ELSE IF n = 1 THEN IF k = dep THEN N ELSE IF p[dep] < p[k] THEN p[k] - 1 ELSE p[k]
     ELSE IF p[dep] < p[k] /\ p[k] <= p[dep] + n - 2 THEN N - (p[dep] + n - 2 - p[k])
     ELSE IF k = key THEN N - (n - 2)
     ELSE IF k = dep
       THEN IF p[dep] < p[key] /\ p[key] <= p[dep] + n - 2 THEN N - (n - 2) ELSE N - (n - 2) - 1
     ELSE IF p[key] < p[k] /\ p[dep] < p[k]
       THEN IF p[dep] < p[key] /\ p[key] <= p[dep] + n - 2 THEN p[k] - (n - 2) - 1
            ELSE p[k] - (n - 2) - 2
     ELSE IF p[key] < p[k] \/ p[dep] < p[k]
       THEN p[k] - (IF p[dep] < p[k] THEN n - 2 ELSE 0) - 1
     ELSE p[k]]

(* The class the n-th pop is of. *)
Popped(p, key, dep, n) ==
  IF n = 1 THEN dep ELSE IF n = 2 THEN key ELSE KeyList(p)[p[dep] + n - 2]

LEMMA BehindSteps ==
  ASSUME NEW p \in Orders, NEW key \in Objects, NEW dep \in Objects, key # dep,
         NEW n \in 1..(N - p[dep] + 2)
  PROVE  Behind(p, key, dep, n)
           = PlaceLast(Behind(p, key, dep, n - 1), Popped(p, key, dep, n))
<1>1. /\ \A k \in Objects : p[k] \in 1..N
      /\ \A j, k \in Objects : p[j] = p[k] => j = k
      /\ N \in Nat
  BY CountIsNat DEF Orders
<1>2. CASE n = 1
  BY <1>1, <1>2 DEF Behind, PlaceLast, Popped
<1>3. CASE n = 2
  BY <1>1, <1>3 DEF Behind, PlaceLast, Popped
<1>4. CASE n > 2
  <2>. DEFINE item == KeyList(p)[p[dep] + n - 2]
  <2>1. item \in Objects /\ p[item] = p[dep] + n - 2
    <3>1. p[dep] + n - 2 \in 1..N
      BY <1>1, <1>4
    <3>. QED
      BY <3>1, KeyListOfOrder
  <2>. HIDE DEF item
  <2>2. Popped(p, key, dep, n) = item
    BY <1>4 DEF Popped, item
  <2>. DEFINE was == Behind(p, key, dep, n - 1)
              is == Behind(p, key, dep, n)
  <2>3. ASSUME NEW k \in Objects
        PROVE  is[k] = IF k = item THEN N ELSE IF was[item] < was[k] THEN was[k] - 1 ELSE was[k]
    <3>1. CASE k = item
      BY <3>1, <2>1, <1>1, <1>4 DEF Behind
    <3>2. CASE k # item /\ key = item
      BY <3>2, <2>1, <1>1, <1>4 DEF Behind
    <3>3. CASE k # item /\ key # item
      <4>1. /\ p[dep] < p[item] /\ item # dep
            /\ was[item] = IF p[key] < p[item] THEN p[dep] - (IF p[key] < p[dep] THEN 1 ELSE 0)
                           ELSE p[dep]
        BY <3>3, <2>1, <1>1, <1>4 DEF Behind
      <4>2. CASE k = dep
        BY <4>1, <4>2, <3>3, <2>1, <1>1, <1>4 DEF Behind
      <4>3. CASE k = key
        BY <4>1, <4>3, <3>3, <2>1, <1>1, <1>4 DEF Behind
      <4>4. CASE k # key /\ k # dep /\ p[k] < p[dep]
        BY <4>1, <4>4, <3>3, <2>1, <1>1, <1>4 DEF Behind
      <4>5. CASE k # key /\ p[dep] < p[k] /\ p[k] < p[item]
        BY <4>1, <4>5, <3>3, <2>1, <1>1, <1>4 DEF Behind
      <4>6. CASE k # key /\ p[item] < p[k]
        BY <4>1, <4>6, <3>3, <2>1, <1>1, <1>4 DEF Behind
      <4>7. /\ p[k] \in Int /\ p[dep] \in Int /\ p[item] \in Int
            /\ p[k] # p[item]
            /\ k # dep => p[k] # p[dep]
        BY <3>3, <2>1, <1>1
      <4>8. \/ k = dep
            \/ k = key
            \/ k # key /\ k # dep /\ p[k] < p[dep]
            \/ k # key /\ p[dep] < p[k] /\ p[k] < p[item]
            \/ k # key /\ p[item] < p[k]
        BY <4>7, <4>1
      <4>. HIDE DEF was, is
      <4>. QED
        BY <4>8, <4>2, <4>3, <4>4, <4>5, <4>6
    <3>. QED
      BY <3>1, <3>2, <3>3
  <2>. QED
    BY <2>2, <2>3 DEF Behind, PlaceLast
<1>. QED
  BY <1>1, <1>2, <1>3, <1>4

(* After the last pop the class stands directly behind the one it names. *)
LEMMA BehindEnds ==
  ASSUME NEW p \in Orders, NEW key \in Objects, NEW dep \in Objects, key # dep
  PROVE  Behind(p, key, dep, N - p[dep] + 2) = PlaceBehind(p, key, dep)
<1>1. /\ \A k \in Objects : p[k] \in 1..N
      /\ \A j, k \in Objects : p[j] = p[k] => j = k
      /\ N \in Nat
  BY CountIsNat DEF Orders
<1>. DEFINE n == N - p[dep] + 2
<1>2. ASSUME NEW k \in Objects
      PROVE  Behind(p, key, dep, n)[k] = PlaceBehind(p, key, dep)[k]
  BY <1>1 DEF Behind, PlaceBehind
<1>. QED
  BY <1>2 DEF Behind, PlaceBehind

(* The keys after each pop. *)
IsHistory(lists, keyList, items) ==
  lists = [n \in 0..Len(items) |-> IF n = 0 THEN keyList ELSE MoveToEnd(lists[n - 1], items[n])]

(* The entries to pop: dep, key and what stands behind dep. *)
LEMMA ItemsArePopped ==
  ASSUME NEW p \in Orders, NEW key \in Objects, NEW dep \in Objects,
         NEW items, items = <<dep, key>> \o SubSeq(KeyList(p), 1 + p[dep], N)
  PROVE  /\ Len(items) = N - p[dep] + 2
         /\ \A n \in 1..(N - p[dep] + 2) : items[n] = Popped(p, key, dep, n)
<1>. DEFINE list == KeyList(p)
            d == p[dep]
            after == SubSeq(list, 1 + d, N)
<1>1. /\ list \in Seq(Objects) /\ Len(list) = N
      /\ d \in 1..N /\ N \in Nat
  BY KeyListOfOrder, CountIsNat DEF Orders
<1>. HIDE DEF list, d
<1>2. /\ after \in Seq(Objects) /\ Len(after) = N - d
      /\ \A i \in 1..(N - d) : after[i] = list[d + i]
  BY <1>1
<1>3. items = <<dep, key>> \o after
  BY DEF list, d
<1>. HIDE DEF after
<1>. DEFINE two == <<dep, key>>
<1>4. two \in Seq(Objects) /\ Len(two) = 2 /\ two[1] = dep /\ two[2] = key
  OBVIOUS
<1>5. items = two \o after
  BY <1>3
<1>. HIDE DEF two
<1>6. /\ Len(two \o after) = 2 + Len(after)
      /\ \A n \in 1..(2 + Len(after)) : (two \o after)[n] = IF n <= 2 THEN two[n] ELSE after[n - 2]
  <2>1. /\ Len(two \o after) = Len(two) + Len(after)
        /\ \A n \in 1..(Len(two) + Len(after)) :
             (two \o after)[n] = IF n <= Len(two) THEN two[n] ELSE after[n - Len(two)]
    <3>1. two \in Seq(Objects) /\ after \in Seq(Objects)
      BY <1>2, <1>4
    <3>. QED
      BY <3>1
  <2>. QED
    BY <2>1, <1>4
<1>7. Len(items) = N - d + 2
  <2>1. 2 + (N - d) = N - d + 2
    BY <1>1
  <2>2. Len(items) = 2 + Len(after)
    BY <1>5, <1>6
  <2>. QED
    BY <2>1, <2>2, <1>2
<1>. DEFINE both == two \o after
<1>8. /\ both[1] = dep /\ both[2] = key
      /\ \A i \in 1..(N - d) : both[i + 2] = list[d + i]
  <2>1. \A n \in 1..(2 + Len(after)) : both[n] = IF n <= 2 THEN two[n] ELSE after[n - 2]
    BY <1>6
  <2>2. 1 \in 1..(2 + Len(after)) /\ 2 \in 1..(2 + Len(after))
    BY <1>1, <1>2
  <2>3. ASSUME NEW i \in 1..(N - d)
        PROVE  i + 2 \in 1..(2 + Len(after)) /\ ~ i + 2 <= 2 /\ (i + 2) - 2 = i
    BY <1>1, <1>2
  <2>. HIDE DEF both
  <2>4. \A i \in 1..(N - d) : both[i + 2] = after[i]
    BY <2>1, <2>3
  <2>. QED
    BY <2>1, <2>2, <2>4, <1>2, <1>4
<1>9. items = both
  BY <1>5
<1>. HIDE DEF both
<1>10. ASSUME NEW n \in 1..(N - d + 2) PROVE both[n] = Popped(p, key, dep, n)
  <2>1. CASE n = 1
    BY <2>1, <1>8 DEF Popped
  <2>2. CASE n = 2
    BY <2>2, <1>8 DEF Popped
  <2>3. CASE n > 2
    <3>1. n - 2 \in 1..(N - d) /\ (n - 2) + 2 = n /\ d + (n - 2) = d + n - 2 /\ n # 1 /\ n # 2
      BY <2>3, <1>1
    <3>2. both[n] = list[d + n - 2]
      BY <3>1, <1>8
    <3>. QED
      BY <3>1, <3>2 DEF Popped, list, d
  <2>. QED
    BY <2>1, <2>2, <2>3, <1>1
<1>. QED
  BY <1>7, <1>9, <1>10 DEF d

(* Popping and reinserting the entries leaves the keys in the order PlaceBehind
   gives. *)
LEMMA ReinsertionPlacesBehind ==
  ASSUME NEW p \in Orders, NEW key \in Objects, NEW dep \in Objects, key # dep
  PROVE  PopAndReinsert(KeyList(p), key, dep) = KeyList(PlaceBehind(p, key, dep))
<1>. DEFINE list == KeyList(p)
            at == CHOOSE i \in DOMAIN list : list[i] = dep
            items == <<dep, key>> \o SubSeq(list, 1 + at, Len(list))
            lists == CHOOSE h : IsHistory(h, list, items)
            last == N - p[dep] + 2
            want == [n \in 0..last |-> KeyList(Behind(p, key, dep, n))]
<1>1. at = p[dep] /\ Len(list) = N
  <2>1. /\ list \in Seq(Objects) /\ Len(list) = N
        /\ \A i \in 1..N : list[i] \in Objects /\ p[list[i]] = i
        /\ \A k \in Objects : list[p[k]] = k
    BY KeyListOfOrder
  <2>. HIDE DEF list
  <2>2. p[dep] \in 1..N
    BY DEF Orders
  <2>. QED
    BY <2>1, <2>2
<1>2. PopAndReinsert(KeyList(p), key, dep) = lists[Len(items)]
  BY DEF PopAndReinsert, IsHistory
<1>. HIDE DEF lists, at
<1>3. /\ Len(items) = last
      /\ \A n \in 1..last : items[n] = Popped(p, key, dep, n)
  <2>1. items = <<dep, key>> \o SubSeq(KeyList(p), 1 + p[dep], N)
    BY <1>1
  <2>. HIDE DEF items
  <2>. QED
    BY <2>1, ItemsArePopped
<1>. HIDE DEF items
<1>4. last \in Nat
  BY CountIsNat DEF Orders
<1>5. Behind(p, key, dep, 0) = p
  BY DEF Behind, Orders
<1>6. ASSUME NEW n \in 1..last, Behind(p, key, dep, n - 1) \in Orders
      PROVE  /\ Behind(p, key, dep, n) \in Orders
             /\ KeyList(Behind(p, key, dep, n))
                  = MoveToEnd(KeyList(Behind(p, key, dep, n - 1)), items[n])
  <2>. DEFINE was == Behind(p, key, dep, n - 1)
              item == Popped(p, key, dep, n)
  <2>1. item \in Objects
    <3>1. n > 2 => p[dep] + n - 2 \in 1..N
      BY <1>4, CountIsNat DEF Orders
    <3>. QED
      BY <3>1, KeyListOfOrder, <1>4 DEF Popped
  <2>2. Behind(p, key, dep, n) = PlaceLast(was, item)
    BY BehindSteps
  <2>. HIDE DEF was, item
  <2>3. was \in Orders
    BY <1>6 DEF was
  <2>4. PlaceLast(was, item) \in Orders
    BY <2>1, <2>3, PlaceLastOrders
  <2>5. MoveToEnd(KeyList(was), item) = KeyList(PlaceLast(was, item))
    BY <2>1, <2>3, MoveToEndPlacesLast
  <2>6. items[n] = item
    BY <1>3 DEF item
  <2>. QED
    BY <2>2, <2>4, <2>5, <2>6 DEF was
<1>. HIDE DEF list
<1>7. \A n \in 0..last : Behind(p, key, dep, n) \in Orders
  <2>. DEFINE T == {n \in 0..last : Behind(p, key, dep, n) \in Orders}
  <2>1. 0 \in T
    BY <1>4, <1>5
  <2>2. ASSUME NEW n \in 1..last, n - 1 \in T PROVE n \in T
    <3>1. Behind(p, key, dep, n - 1) \in Orders /\ n \in 0..last
      BY <2>2, <1>4
    <3>. HIDE DEF last
    <3>. QED
      BY <3>1, <1>6
  <2>. HIDE DEF T
  <2>3. \A n \in 0..last : n \in T
    <3>. HIDE DEF last
    <3>. QED
      BY <1>4, <2>1, <2>2, UpTo
  <2>. QED
    BY <2>3 DEF T
<1>. HIDE DEF last
<1>8. ASSUME NEW n \in 1..last
      PROVE  n - 1 \in 0..last /\ n \in 0..last /\ n # 0
             /\ want[n] = MoveToEnd(want[n - 1], items[n])
  <2>1. n - 1 \in 0..last /\ n \in 0..last /\ n # 0
    BY <1>4
  <2>2. KeyList(Behind(p, key, dep, n)) = MoveToEnd(KeyList(Behind(p, key, dep, n - 1)), items[n])
    BY <2>1, <1>6, <1>7
  <2>. QED
    BY <2>1, <2>2
<1>9. want[0] = list
  BY <1>4, <1>5 DEF list
<1>10. want = [n \in 0..last |-> want[n]]
  OBVIOUS
<1>. HIDE DEF want
<1>11. ASSUME NEW n \in 0..last
       PROVE  want[n] = IF n = 0 THEN list ELSE MoveToEnd(want[n - 1], items[n])
  <2>1. n = 0 \/ n \in 1..last
    BY <1>4
  <2>. QED
    BY <2>1, <1>8, <1>9
<1>12. IsHistory(want, list, items)
  BY <1>3, <1>10, <1>11 DEF IsHistory
<1>13. IsHistory(lists, list, items)
  BY <1>12 DEF lists
<1>14. \A n \in 0..last : lists[n] = want[n]
  <2>. DEFINE T == {n \in 0..last : lists[n] = want[n]}
  <2>0. ASSUME NEW n \in 0..last
        PROVE  lists[n] = IF n = 0 THEN list ELSE MoveToEnd(lists[n - 1], items[n])
    BY <1>3, <1>13, Zenon DEF IsHistory
  <2>1. 0 \in T
    BY <1>4, <1>9, <2>0
  <2>2. ASSUME NEW n \in 1..last, n - 1 \in T PROVE n \in T
    BY <2>0, <2>2, <1>8
  <2>. HIDE DEF T
  <2>3. \A n \in 0..last : n \in T
    BY <1>4, <2>1, <2>2, UpTo
  <2>. QED
    BY <2>3 DEF T
<1>15. lists[last] = KeyList(Behind(p, key, dep, last))
  <2>1. last \in 0..last
    BY <1>4
  <2>. QED
    BY <1>14, <2>1 DEF want
<1>. QED
  BY <1>2, <1>3, <1>15, BehindEnds DEF last

(* Every move the ordering makes, written as PlaceBehind, is what popping and
   reinserting the entries of the dict one by one does: the invariants above speak of
   the dict of the code.  No class names itself, so the pair has two classes. *)
THEOREM MovesAreReinsertions == Spec => []PlacementIsReinsertion
<1>1. TypeOK => PlacementIsReinsertion
  <2> SUFFICES ASSUME TypeOK, NEW key \in Objects, word \in DOMAIN deps[key],
                      deps[key][word] \in Objects
               PROVE  LET dep == deps[key][word]
                          after == PopAndReinsert(KeyList(place), key, dep)
                      IN /\ Len(after) = N
                         /\ \A k \in Objects : after[PlaceBehind(place, key, dep)[k]] = k
    BY Zenon DEF PlacementIsReinsertion
  <2>. DEFINE dep == deps[key][word]
  <2>1. place \in Orders /\ deps \in Documents
    BY DEF TypeOK
  <2>2. PICK rank \in [Objects -> 1..N] : \A k \in Objects : \A i \in DOMAIN deps[k] :
          deps[k][i] \in Objects => rank[deps[k][i]] < rank[k]
    BY <2>1, DocumentsAssumption DEF N
  <2>3. rank[dep] < rank[key] /\ rank[key] \in Int /\ dep \in Objects
    BY <2>2, CountIsNat
  <2>. HIDE DEF dep
  <2>4. key # dep
    BY <2>3
  <2>5. PlaceBehind(place, key, dep) \in Orders
    BY <2>1, <2>3, PlaceBehindOrders
  <2>6. PopAndReinsert(KeyList(place), key, dep) = KeyList(PlaceBehind(place, key, dep))
    BY <2>1, <2>3, <2>4, ReinsertionPlacesBehind
  <2>. DEFINE q == PlaceBehind(place, key, dep)
  <2>7. Len(KeyList(q)) = N /\ \A k \in Objects : KeyList(q)[q[k]] = k
    <3>1. q \in Orders
      BY <2>5
    <3>. HIDE DEF q
    <3>. QED
      BY <3>1, KeyListOfOrder
  <2>. QED
    BY <2>6, <2>7 DEF dep
<1>. QED
  BY <1>1, TypeInvariant, PTL DEF Spec
=============================================================================
