------------------------- MODULE DependencyOrder -------------------------
(***************************************************************************)
(* The ordering of the class definitions of a generated specification      *)
(* module.  build_spec runs dependency_order_class_objects over the dict   *)
(* class_objects until a pass leaves its order alone; a pass takes the     *)
(* classes in the order the pass began with and, for every word of a       *)
(* class's field types, pops and reinserts entries of the dict so that the *)
(* class comes behind the class it names.  The order of the dict is the    *)
(* function `place`.                                                       *)
(***************************************************************************)
EXTENDS Integers, FiniteSets, Sequences, SequencesExt

CONSTANTS
  Objects,    \* the keys of class_objects: SSZ containers and dataclasses
  Names,      \* the words a field type may hold once the filters were applied
  Documents   \* possible markdown sources: the words of each class, in order

(* Python classes cannot name each other in a circle: every source admits a
   ranking in which a class is above the classes it names. *)
ASSUME DocumentsAssumption ==
  /\ IsFiniteSet(Objects)
  /\ Objects \subseteq Names
  /\ Documents \subseteq [Objects -> Seq(Names)]
  /\ \A doc \in Documents : \E rank \in [Objects -> 1..Cardinality(Objects)] :
       \A k \in Objects : \A i \in DOMAIN doc[k] :
         doc[k][i] \in Objects => rank[doc[k][i]] < rank[k]

N == Cardinality(Objects)

VARIABLES
  deps,    \* the source being built
  place,   \* place[k]: position of k in class_objects
  start,   \* new_objects: the order when the pass began; all 0 before the first
  turn,    \* the position in `items` of the class being handled
  word,    \* the next word of that class
  moved,   \* history: the classes this pass moved
  pc       \* "compare", "pass", "done" or "failed"

vars == <<deps, place, start, turn, word, moved, pc>>

Orders == { p \in [Objects -> 1..N] : \A j, k \in Objects : p[j] = p[k] => j = k }

Unordered == [k \in Objects |-> 0]

(* Mutant: the class is put in the place of the one it names, before it. *)
PlaceBefore(p, key, dep) ==
  [k \in Objects |->
     IF ~ p[key] < p[dep] THEN p[k]
     ELSE IF k = key THEN p[dep] - 1
     ELSE IF p[key] < p[k] /\ p[k] < p[dep] THEN p[k] - 1
     ELSE p[k]]

(* Mutant: the class is put directly behind, also when it already came later. *)
PlaceRightBehind(p, key, dep) ==
  LET to == IF p[key] < p[dep] THEN p[dep] ELSE p[dep] + 1
  IN [k \in Objects |->
        IF k = key THEN to
        ELSE IF p[key] < p[k] /\ p[k] <= to THEN p[k] - 1
        ELSE IF to <= p[k] /\ p[k] < p[key] THEN p[k] + 1
        ELSE p[k]]

(* Popping dep, then key, then every entry that followed dep, and reinserting
   each at the end: a key that came first ends up directly behind dep. *)
PlaceBehind(p, key, dep) ==
  [k \in Objects |->
     IF ~ p[key] < p[dep] THEN p[k]
     ELSE IF k = key THEN p[dep]
     ELSE IF p[key] < p[k] /\ p[k] <= p[dep] THEN p[k] - 1
     ELSE p[k]]

(* objects[item] = objects.pop(item): the entry leaves its position for the last. *)
MoveToEnd(list, item) ==
  Append(RemoveAt(list, CHOOSE i \in DOMAIN list : list[i] = item), item)

(* The same, entry by entry, as the dict operations do it: lists[n] holds the keys
   after n of them. *)
PopAndReinsert(keyList, key, dep) ==
  LET after == SubSeq(keyList, 1 + CHOOSE i \in DOMAIN keyList : keyList[i] = dep,
                      Len(keyList))
      items == <<dep, key>> \o after
      lists[n \in 0..Len(items)] ==
        IF n = 0 THEN keyList ELSE MoveToEnd(lists[n - 1], items[n])
  IN lists[Len(items)]

(* list(objects.keys()) *)
KeyList(p) == [i \in 1..N |-> CHOOSE k \in Objects : p[k] = i]

Init ==
  /\ deps \in Documents
  /\ place \in Orders
  /\ start = Unordered
  /\ turn = 1 /\ word = 1 /\ moved = {}
  /\ pc = "compare"

(* Mutant: the loop body runs once. *)
CompareOnce ==
  /\ pc = "compare"
  /\ IF start # Unordered
       THEN pc' = "done" /\ UNCHANGED <<start, turn, word, moved>>
       ELSE /\ pc' = "pass"
            /\ start' = place
            /\ turn' = 1 /\ word' = 1 /\ moved' = {}
  /\ UNCHANGED <<deps, place>>

(* while OrderedDict(new_objects) != OrderedDict(class_objects) *)
Compare ==
  /\ pc = "compare"
  /\ IF place = start
       THEN pc' = "done" /\ UNCHANGED <<start, turn, word, moved>>
       ELSE /\ pc' = "pass"
            /\ start' = place
            /\ turn' = 1 /\ word' = 1 /\ moved' = {}
  /\ UNCHANGED <<deps, place>>

(* One word of the class at hand: key_list.index raises for a word that is no
   class. *)
HandleWord ==
  /\ pc = "pass"
  /\ \E key \in Objects :
       /\ start[key] = turn
       /\ word \in DOMAIN deps[key]
       /\ LET dep == deps[key][word]
          IN IF dep \in Objects
               THEN /\ place' = PlaceBehind(place, key, dep)
                    /\ moved' = IF place[key] < place[dep] THEN moved \cup {key} ELSE moved
                    /\ word' = word + 1
                    /\ UNCHANGED pc
               ELSE pc' = "failed" /\ UNCHANGED <<place, word, moved>>
  /\ UNCHANGED <<deps, start, turn>>

(* The next class of items, or the end of the pass. *)
NextKey ==
  /\ pc = "pass"
  /\ \E key \in Objects :
       /\ start[key] = turn
       /\ word \notin DOMAIN deps[key]
  /\ turn' = turn + 1 /\ word' = 1
  /\ pc' = IF turn = N THEN "compare" ELSE pc
  /\ UNCHANGED <<deps, place, start, moved>>

Next == Compare \/ HandleWord \/ NextKey

Spec == Init /\ [][Next]_vars /\ WF_vars(Next)

----------------------------------------------------------------------------
TypeOK ==
  /\ deps \in Documents
  /\ place \in Orders
  /\ start \in Orders \cup {Unordered}
  /\ turn \in 1..(N + 1)
  /\ word \in Nat \ {0}
  /\ moved \subseteq Objects
  /\ pc \in {"compare", "pass", "done", "failed"}

(* A moved class is accounted for by one it ranks at least as high as, that now
   stands behind an unmoved class which the pass began behind it. *)
Accounted(rank, k) ==
  \E j \in moved, d \in Objects \ moved :
     /\ rank[d] < rank[j] /\ rank[j] <= rank[k]
     /\ start[j] < start[d] /\ place[d] < place[j]

Ranks == { rank \in [Objects -> 1..N] :
             \A k \in Objects : \A i \in DOMAIN deps[k] :
               deps[k][i] \in Objects => rank[deps[k][i]] < rank[k] }

(* During a pass: no class moved in it is back where it began relative to all the
   others, classes it did not move keep their order, and while it has moved none
   every word handled so far names a class in front.  Two moves of a pass can
   cancel out, which is how the loop of build_spec could stop at an order that
   is not one; that they never all do is this invariant. *)
MovesAreVisible ==
  start # Unordered =>
    /\ \A rank \in Ranks : \A k \in moved : Accounted(rank, k)
    /\ \A j, k \in Objects \ moved : start[j] < start[k] <=> place[j] < place[k]
    /\ moved = {} =>
         /\ place = start
         /\ \A k \in Objects : \A i \in DOMAIN deps[k] :
              (start[k] < turn \/ (start[k] = turn /\ i < word)) =>
                 deps[k][i] \in Objects /\ place[deps[k][i]] < place[k]

(* Every class a finished module defines comes after the classes its field types
   name, and all of those exist: importing the module raises no NameError. *)
OrderIsTopological ==
  pc = "done" => \A k \in Objects : \A i \in DOMAIN deps[k] :
                    deps[k][i] \in Objects /\ place[deps[k][i]] < place[k]

(* The closed form of a move is what popping and reinserting the entries of the
   dict one by one does, for the pair about to be handled. *)
PlacementIsReinsertion ==
  \A key \in Objects :
    (pc = "pass" /\ start[key] = turn /\ word \in DOMAIN deps[key]) =>
      LET dep == deps[key][word]
          after == PopAndReinsert(KeyList(place), key, dep)
      IN dep \in Objects =>
           /\ Len(after) = N
           /\ \A k \in Objects : after[PlaceBehind(place, key, dep)[k]] = k

(* The loop of build_spec ends: with an order, or with the ValueError of a word
   that is no class. *)
OrderingTerminates ==
  <>(pc = "done" \/ (pc = "failed" /\ \E k \in Objects : Range(deps[k]) \ Objects # {}))
=============================================================================
