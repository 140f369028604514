------------------------- MODULE SpecCache_proofs -------------------------
(***************************************************************************)
(* The cached functions answer as the uncached ones, for any contents of   *)
(* the state, any cache sizes and any number of calls and changes.         *)
(***************************************************************************)
EXTENDS SpecCache, TLAPS

(* A key fixes its argument and the parts it is computed from. *)
LEMMA KeyFixes ==
  ASSUME NEW f \in Functions, NEW a, NEW b, NEW s \in States, NEW t \in States,
         KeyOf(f, a, s) = KeyOf(f, b, t)
  PROVE  a = b /\ \A p \in KeyParts(f) : s[p] = t[p]
<1>1. a = b /\ [p \in KeyParts(f) |-> s[p]] = [p \in KeyParts(f) |-> t[p]]
  BY DEF KeyOf
<1> HIDE DEF KeyParts
<1>2. ASSUME NEW p \in KeyParts(f) PROVE s[p] = t[p]
  <2>1. [q \in KeyParts(f) |-> s[q]][p] = [q \in KeyParts(f) |-> t[q]][p]  BY <1>1
  <2> QED  BY <2>1
<1> QED  BY <1>1, <1>2

(* The key holds every part its function reads. *)
LEMMA ReadsAreInKey ==
  ASSUME NEW f \in Functions PROVE Reads(f) \subseteq KeyParts(f)
BY DEF Functions, Reads, KeyParts, Parts

(* Two calls under one key contribute the same. *)
LEMMA SameKeySameOwn ==
  ASSUME NEW f \in Functions, NEW a, NEW s \in States, NEW t \in States,
         \A p \in KeyParts(f) : s[p] = t[p]
  PROVE  Own(f, a, s) = Own(f, a, t)
<1>1. \A p \in Reads(f) : s[p] = t[p]  BY ReadsAreInKey
<1> HIDE DEF Reads
<1>2. { <<f, p, s[p]>> : p \in Reads(f) } = { <<f, p, t[p]>> : p \in Reads(f) }  BY <1>1
<1> QED  BY <1>2 DEF Own

(* Two calls under one key call the same functions, each under one key. *)
LEMMA SameKeySameCallees ==
  ASSUME NEW f \in Functions, NEW a \in Args(f), NEW s \in States, NEW t \in States,
         \A p \in KeyParts(f) : s[p] = t[p]
  PROVE  /\ Callees(f, a, s) = Callees(f, a, t)
         /\ \A i \in DOMAIN Callees(f, a, s) :
              \A p \in KeyParts(Callees(f, a, s)[i][1]) : s[p] = t[p]
<1>1. CASE f \in {"get_total_active_balance", "get_base_reward"}
  <2>1. KeyParts("get_active_validator_indices") = {"validators"}
        /\ KeyParts("get_total_active_balance") = {"validators", "epoch"}
        /\ KeyParts("get_base_reward") = {"validators", "epoch", "slot"}
    BY DEF KeyParts
  <2>2. s["epoch"] = t["epoch"]  BY <1>1, <2>1
  <2>3. \/ /\ f = "get_total_active_balance"
           /\ Callees(f, a, s) = << <<"get_active_validator_indices", s["epoch"]>> >>
           /\ Callees(f, a, t) = << <<"get_active_validator_indices", t["epoch"]>> >>
        \/ /\ f = "get_base_reward"
           /\ Callees(f, a, s) = << <<"get_total_active_balance", s["epoch"]>> >>
           /\ Callees(f, a, t) = << <<"get_total_active_balance", t["epoch"]>> >>
    BY <1>1 DEF Callees
  <2> QED  BY <2>1, <2>2, <2>3
<1>2. CASE f \in {"get_committee_count_per_slot", "get_attesting_indices"}
  BY <1>2 DEF Functions, Callees, KeyParts
<1>5. CASE f = "get_matching_head_attestations"
  <2>1. KeyParts(f) = Parts  BY <1>5 DEF KeyParts
  <2>2. Callees(f, a, s) = << <<"get_matching_target_attestations", a>> >>
        /\ Callees(f, a, t) = << <<"get_matching_target_attestations", a>> >>
    BY <1>5 DEF Callees
  <2>3. KeyParts("get_matching_target_attestations") = Parts  BY DEF KeyParts
  <2> QED  BY <2>1, <2>2, <2>3
<1>3. CASE f = "get_beacon_committee"
  BY <1>3 DEF Functions, Callees, KeyParts
<1>4. CASE f \in {"compute_shuffled_index", "get_active_validator_indices",
                  "get_matching_target_attestations"}
  BY <1>4 DEF Functions, Callees, KeyParts
<1> QED  BY <1>1, <1>2, <1>3, <1>4, <1>5 DEF Functions

(* A function only calls cached functions, with arguments they take. *)
LEMMA CalleesTyped ==
  ASSUME NEW f \in Functions, NEW a \in Args(f), NEW s \in States,
         NEW i \in DOMAIN Callees(f, a, s)
  PROVE  /\ Callees(f, a, s)[i][1] \in Functions
         /\ Callees(f, a, s)[i][2] \in Args(Callees(f, a, s)[i][1])
<1>1. s["validators"] \in Versions /\ s["randao"] \in Versions /\ s["epoch"] \in Versions
  BY DEF States, Parts
<1>2. CASE f = "get_beacon_committee"  BY <1>1, <1>2 DEF Functions, Callees, Args
<1>3. CASE f # "get_beacon_committee"  BY <1>1, <1>3 DEF Functions, Callees, Args
<1> QED  BY <1>2, <1>3

(* Calls are nested four deep: a function is computed after those it calls. *)
Level(f) ==
  CASE f = "get_attesting_indices" -> 3
    [] f \in {"get_beacon_committee", "get_base_reward"} -> 2
    [] f \in {"get_total_active_balance", "get_committee_count_per_slot",
              "get_matching_head_attestations"} -> 1
    [] OTHER -> 0

LEMMA CalleesAreLower ==
  ASSUME NEW f \in Functions, NEW a, NEW s, NEW i \in DOMAIN Callees(f, a, s)
  PROVE  Level(Callees(f, a, s)[i][1]) < Level(f)
<1>2. CASE f = "get_beacon_committee"  BY <1>2 DEF Functions, Callees, Level
<1>3. CASE f # "get_beacon_committee"  BY <1>3 DEF Functions, Callees, Level
<1> QED  BY <1>2, <1>3

(* The value of a function depends on the parts in its key alone. *)
SameValue(f) ==
  \A a \in Args(f), s \in States, t \in States :
    (\A p \in KeyParts(f) : s[p] = t[p]) => Direct(f, a, s) = Direct(f, a, t)

LEMMA SameValueFromCallees ==
  ASSUME NEW f \in Functions,
         \A g \in Functions : Level(g) < Level(f) => SameValue(g)
  PROVE  SameValue(f)
<1> SUFFICES ASSUME NEW a \in Args(f), NEW s \in States, NEW t \in States,
                    \A p \in KeyParts(f) : s[p] = t[p]
             PROVE  Direct(f, a, s) = Direct(f, a, t)
  BY DEF SameValue
<1> DEFINE C == Callees(f, a, s)
           D(u) == { Direct(C[i][1], C[i][2], u) : i \in DOMAIN C }
<1>1. Own(f, a, s) = Own(f, a, t)  BY SameKeySameOwn
<1>2. C = Callees(f, a, t)  BY SameKeySameCallees
<1>3. ASSUME NEW i \in DOMAIN C
      PROVE  Direct(C[i][1], C[i][2], s) = Direct(C[i][1], C[i][2], t)
  <2>1. \A p \in KeyParts(C[i][1]) : s[p] = t[p]  BY SameKeySameCallees
  <2>2. C[i][1] \in Functions /\ C[i][2] \in Args(C[i][1])  BY CalleesTyped
  <2>3. Level(C[i][1]) < Level(f)  BY CalleesAreLower
  <2>4. SameValue(C[i][1])  BY <2>2, <2>3
  <2> HIDE DEF C
  <2> QED  BY <2>1, <2>2, <2>4 DEF SameValue
<1>4. Direct(f, a, s) = Own(f, a, s) \cup UNION D(s)  BY DirectAssumption
<1>5. Direct(f, a, t) = Own(f, a, t) \cup UNION D(t)  BY <1>2, DirectAssumption
<1> HIDE DEF C
<1>6. D(s) = D(t)  BY <1>3
<1> HIDE DEF D
<1> QED  BY <1>1, <1>4, <1>5, <1>6

LEMMA ValueDependsOnKeyParts == \A f \in Functions : SameValue(f)
<1>1. \A f \in Functions : Level(f) \in {0, 1, 2, 3}  BY DEF Functions, Level
<1> HIDE DEF Level
<1>2. \A f \in Functions : Level(f) = 0 => SameValue(f)
  <2>1. \A f \in Functions : Level(f) = 0 => \A g \in Functions : ~(Level(g) < Level(f))
    BY <1>1
  <2> QED  BY <2>1, SameValueFromCallees
<1>3. \A f \in Functions : Level(f) = 1 => SameValue(f)
  <2>1. \A f, g \in Functions : Level(f) = 1 /\ Level(g) < Level(f) => Level(g) = 0  BY <1>1
  <2> QED  BY <2>1, <1>2, SameValueFromCallees
<1>4. \A f \in Functions : Level(f) = 2 => SameValue(f)
  <2>1. \A f, g \in Functions : Level(f) = 2 /\ Level(g) < Level(f) => Level(g) \in {0, 1}
    BY <1>1
  <2> QED  BY <2>1, <1>2, <1>3, SameValueFromCallees
<1>5. \A f \in Functions : Level(f) = 3 => SameValue(f)
  <2>1. \A f, g \in Functions : Level(f) = 3 /\ Level(g) < Level(f) => Level(g) \in {0, 1, 2}
    BY <1>1
  <2> QED  BY <2>1, <1>2, <1>3, <1>4, SameValueFromCallees
<1> QED  BY <1>1, <1>2, <1>3, <1>4, <1>5

(* Calls with one key have one value: what makes a cache under that key correct. *)
THEOREM EqualKeysEqualValues ==
  ASSUME NEW f \in Functions, NEW a \in Args(f), NEW b \in Args(f),
         NEW s \in States, NEW t \in States, KeyOf(f, a, s) = KeyOf(f, b, t)
  PROVE  Direct(f, a, s) = Direct(f, b, t)
<1>1. a = b /\ \A p \in KeyParts(f) : s[p] = t[p]  BY KeyFixes
<1> QED  BY <1>1, ValueDependsOnKeyParts DEF SameValue

----------------------------------------------------------------------------
(* What a cache may hold: under a key, the value in a state with that key. *)
EntrySet(f) ==
  { [key |-> KeyOf(f, as[1], as[2]), value |-> Direct(f, as[1], as[2])] :
      as \in Args(f) \X States }

EntriesCurrent == \A f \in Functions : cache[f] \in Seq(EntrySet(f))

(* What a call knows once its first n callees have answered. *)
Partial(f, a, s, n) ==
  Own(f, a, s) \cup
  UNION { Direct(Callees(f, a, s)[j][1], Callees(f, a, s)[j][2], s) :
            j \in { k \in DOMAIN Callees(f, a, s) : k <= n } }

AnyArg == UNION { Args(f) : f \in Functions }

Partials(s) == { Partial(y[1], y[2], s, y[3]) : y \in Functions \X AnyArg \X Nat }

Frames(s) == [f : Functions, arg : AnyArg, looked : BOOLEAN, next : Nat \ {0},
              value : Partials(s)]

(* The calls a frame has had an answer to: all it started, but the one in progress
   when it is not the innermost. *)
Given(stk, i) == IF i = 1 THEN stk[i].next - 1 ELSE stk[i].next - 2

FrameRight(stk, i, s) ==
  LET fr == stk[i]  callees == Callees(fr.f, fr.arg, s) IN
  /\ fr.arg \in Args(fr.f)
  /\ fr.next = 1 \/ fr.next - 1 \in DOMAIN callees
  /\ fr.value = Partial(fr.f, fr.arg, s, Given(stk, i))
  /\ i > 1 => /\ fr.next # 1
              /\ callees[fr.next - 1] = <<stk[i - 1].f, stk[i - 1].arg>>

StackRight(stk, s) ==
  /\ stk \in Seq(Frames(s))
  /\ \A i \in 1..Len(stk) : FrameRight(stk, i, s)

IInv ==
  /\ state \in States
  /\ DOMAIN cache = Functions
  /\ EntriesCurrent
  /\ StackRight(stack, state)
  /\ AnswersAreCurrent

(* The calls of a function are numbered from 1. *)
LEMMA CalleesNumbered ==
  ASSUME NEW f \in Functions, NEW a, NEW s
  PROVE  /\ Len(Callees(f, a, s)) \in Nat
         /\ DOMAIN Callees(f, a, s) = 1..Len(Callees(f, a, s))
<1>2. CASE f = "get_beacon_committee"  BY <1>2 DEF Functions, Callees
<1>3. CASE f # "get_beacon_committee"  BY <1>3 DEF Functions, Callees
<1> QED  BY <1>2, <1>3

(* A call names a function and an argument. *)
LEMMA CalleesArePairs ==
  ASSUME NEW f \in Functions, NEW a, NEW s, NEW i \in DOMAIN Callees(f, a, s)
  PROVE  Callees(f, a, s)[i] = <<Callees(f, a, s)[i][1], Callees(f, a, s)[i][2]>>
<1>2. CASE f = "get_beacon_committee"  BY <1>2 DEF Functions, Callees
<1>3. CASE f # "get_beacon_committee"  BY <1>3 DEF Functions, Callees
<1> QED  BY <1>2, <1>3

(* A call that has asked nobody knows its own part. *)
LEMMA PartialZero ==
  ASSUME NEW f \in Functions, NEW a, NEW s
  PROVE  Partial(f, a, s, 0) = Own(f, a, s)
<1>1. { k \in DOMAIN Callees(f, a, s) : k <= 0 } = {}  BY CalleesNumbered
<1> HIDE DEF Callees, Own
<1> QED  BY <1>1 DEF Partial

(* One more answer adds the value of that callee. *)
LEMMA PartialNext ==
  ASSUME NEW f \in Functions, NEW a, NEW s, NEW n \in Nat,
         n + 1 \in DOMAIN Callees(f, a, s)
  PROVE  Partial(f, a, s, n + 1) =
           Partial(f, a, s, n) \cup
           Direct(Callees(f, a, s)[n + 1][1], Callees(f, a, s)[n + 1][2], s)
<1> DEFINE C == Callees(f, a, s)
           W(j) == Direct(C[j][1], C[j][2], s)
           K(m) == { k \in DOMAIN C : k <= m }
<1>1. K(n + 1) = K(n) \cup {n + 1}  BY CalleesNumbered
<1> HIDE DEF C, K
<1>2. UNION { W(j) : j \in K(n + 1) } = (UNION { W(j) : j \in K(n) }) \cup W(n + 1)
  <2> HIDE DEF W
  <2>1. \A x : x \in UNION { W(j) : j \in K(n + 1) } <=> \E j \in K(n + 1) : x \in W(j)
    OBVIOUS
  <2>2. \A x : x \in UNION { W(j) : j \in K(n) } <=> \E j \in K(n) : x \in W(j)  OBVIOUS
  <2> QED  BY <1>1, <2>1, <2>2, Zenon
<1>3. Partial(f, a, s, n + 1) = Own(f, a, s) \cup UNION { W(j) : j \in K(n + 1) }
  BY DEF Partial, C, K
<1>4. Partial(f, a, s, n) = Own(f, a, s) \cup UNION { W(j) : j \in K(n) }
  BY DEF Partial, C, K
<1> HIDE DEF W
<1>5. Partial(f, a, s, n + 1) = Partial(f, a, s, n) \cup W(n + 1)
  <2> DEFINE U(m) == UNION { W(j) : j \in K(m) }
  <2>1. U(n + 1) = U(n) \cup W(n + 1) /\ Partial(f, a, s, n + 1) = Own(f, a, s) \cup U(n + 1)
        /\ Partial(f, a, s, n) = Own(f, a, s) \cup U(n)
    BY <1>2, <1>3, <1>4, Zenon
  <2> HIDE DEF U
  <2> QED  BY <2>1
<1> QED  BY <1>5 DEF W, C

(* With every answer in, a call knows its function's value. *)
LEMMA PartialAll ==
  ASSUME NEW f \in Functions, NEW a \in Args(f), NEW s \in States, NEW n \in Nat,
         n = 0 \/ n \in DOMAIN Callees(f, a, s), n + 1 \notin DOMAIN Callees(f, a, s)
  PROVE  Partial(f, a, s, n) = Direct(f, a, s)
<1>1. { k \in DOMAIN Callees(f, a, s) : k <= n } = DOMAIN Callees(f, a, s)
  <2>1. \A k \in DOMAIN Callees(f, a, s) : k \in Nat /\ k <= n  BY CalleesNumbered
  <2> QED  BY <2>1
<1> HIDE DEF Callees, Own
<1> QED  BY <1>1, DirectAssumption DEF Partial

(* An entry found under the key of a call is the value the call asks for. *)
LEMMA FoundValue ==
  ASSUME NEW f \in Functions, NEW a \in Args(f), NEW s \in States, NEW e \in EntrySet(f),
         e.key = KeyOf(f, a, s)
  PROVE  e.value = Direct(f, a, s)
<1>1. PICK as \in Args(f) \X States :
        e = [key |-> KeyOf(f, as[1], as[2]), value |-> Direct(f, as[1], as[2])]
  BY DEF EntrySet
<1>2. as[1] \in Args(f) /\ as[2] \in States  BY <1>1
<1>3. KeyOf(f, as[1], as[2]) = KeyOf(f, a, s) /\ e.value = Direct(f, as[1], as[2])
  BY <1>1
<1> QED  BY <1>2, <1>3, EqualKeysEqualValues

(* What a call knows is one of the values a frame may hold. *)
LEMMA PartialIsPartial ==
  ASSUME NEW f \in Functions, NEW a \in Args(f), NEW s, NEW n \in Nat
  PROVE  a \in AnyArg /\ Partial(f, a, s, n) \in Partials(s)
<1>1. a \in AnyArg  BY DEF AnyArg
<1>2. <<f, a, n>> \in Functions \X AnyArg \X Nat  BY <1>1
<1>3. Partial(<<f, a, n>>[1], <<f, a, n>>[2], s, <<f, a, n>>[3]) \in Partials(s)
  BY <1>2, Zenon DEF Partials
<1>4. <<f, a, n>>[1] = f /\ <<f, a, n>>[2] = a /\ <<f, a, n>>[3] = n  OBVIOUS
<1>5. Partial(f, a, s, n) \in Partials(s)  BY <1>3, <1>4, Zenon
<1> QED  BY <1>1, <1>5

(* A new frame is a frame. *)
LEMMA NewFrame ==
  ASSUME NEW f \in Functions, NEW a \in Args(f)
  PROVE  /\ Frame(f, a) \in Frames(state)
         /\ Frame(f, a).f = f /\ Frame(f, a).arg = a /\ Frame(f, a).next = 1
         /\ Frame(f, a).value = Partial(f, a, state, 0)
<1>1. Own(f, a, state) = Partial(f, a, state, 0)  BY PartialZero
<1>2. a \in AnyArg /\ Partial(f, a, state, 0) \in Partials(state)  BY PartialIsPartial
<1>3. Frame(f, a) = [f |-> f, arg |-> a, looked |-> FALSE, next |-> 1,
                     value |-> Partial(f, a, state, 0)]
  BY <1>1, Zenon DEF Frame
<1> QED  BY <1>2, <1>3 DEF Frames

(* Popping a stack and changing the frame below. *)
LEMMA PopAndChange ==
  ASSUME NEW S, NEW q \in Seq(S), Len(q) >= 2, NEW r \in S,
         NEW z, z = [Tail(q) EXCEPT ![1] = r]
  PROVE  /\ z \in Seq(S) /\ Len(z) = Len(q) - 1 /\ z[1] = r
         /\ \A i \in 2..Len(z) : z[i] = q[i + 1]
<1>1. /\ Tail(q) \in Seq(S) /\ Len(Tail(q)) = Len(q) - 1 /\ Len(q) \in Nat
      /\ \A i \in 1..(Len(q) - 1) : Tail(q)[i] = q[i + 1]
  OBVIOUS
<1> DEFINE w == Tail(q)
<1>2. /\ w \in Seq(S) /\ Len(w) = Len(q) - 1 /\ Len(w) \in Nat /\ Len(w) >= 1
      /\ \A i \in 1..Len(w) : w[i] = q[i + 1]
  BY <1>1
<1>3. z = [w EXCEPT ![1] = r]  OBVIOUS
<1> HIDE DEF w
<1>4. z \in Seq(S) /\ Len(z) = Len(w) /\ z[1] = r /\ \A i \in 2..Len(w) : z[i] = w[i]
  BY <1>2, <1>3
<1> QED  BY <1>2, <1>4

(* Changing the top frame of a stack and pushing one. *)
LEMMA ChangeAndPush ==
  ASSUME NEW S, NEW q \in Seq(S), Len(q) >= 1, NEW r \in S, NEW x \in S,
         NEW z, z = <<x>> \o [q EXCEPT ![1] = r]
  PROVE  /\ z \in Seq(S) /\ Len(z) = Len(q) + 1 /\ z[1] = x /\ z[2] = r
         /\ \A i \in 3..Len(z) : z[i] = q[i - 1]
<1> DEFINE u == [q EXCEPT ![1] = r]
<1>1. /\ u \in Seq(S) /\ Len(u) = Len(q) /\ Len(q) \in Nat /\ u[1] = r
      /\ \A i \in 2..Len(q) : u[i] = q[i]
  OBVIOUS
<1> HIDE DEF u
<1>2. /\ z \in Seq(S) /\ Len(z) = Len(q) + 1 /\ z[1] = x
      /\ \A i \in 2..(Len(q) + 1) : z[i] = u[i - 1]
  BY <1>1 DEF u
<1> QED  BY <1>1, <1>2

(* A call that returns the value of its function leaves the calls below it, and the
   answer to the caller, right. *)
LEMMA ReturnRight ==
  ASSUME IInv, stack # << >>, NEW v,
         v = Direct(stack[1].f, stack[1].arg, state), Return(v)
  PROVE  StackRight(stack', state) /\ AnswersAreCurrent'
<1>1. /\ stack \in Seq(Frames(state)) /\ Len(stack) \in Nat /\ Len(stack) # 0
      /\ \A i \in 1..Len(stack) : stack[i] \in Frames(state) /\ FrameRight(stack, i, state)
  BY DEF IInv, StackRight
<1>2. CASE Len(stack) = 1
  <2>1. stack' = << >> /\ answer' = [f |-> stack[1].f, arg |-> stack[1].arg, value |-> v,
                                     state |-> state]
    BY <1>2 DEF Return
  <2>2. StackRight(stack', state)  BY <2>1 DEF StackRight
  <2>3. AnswersAreCurrent'  BY <2>1 DEF AnswersAreCurrent
  <2> QED  BY <2>2, <2>3
<1>3. CASE Len(stack) # 1
  <2> DEFINE c == stack[2]
             n == stack[2].next - 2
  <2>1. stack' = [Tail(stack) EXCEPT ![1].value = @ \cup v] /\ answer' = answer
    BY <1>3 DEF Return
  <2>2. /\ c \in Frames(state) /\ c.f \in Functions /\ c.arg \in Args(c.f)
        /\ c.next \in Nat \ {0} /\ c.next # 1
        /\ c.next - 1 \in DOMAIN Callees(c.f, c.arg, state)
        /\ Callees(c.f, c.arg, state)[c.next - 1] = <<stack[1].f, stack[1].arg>>
        /\ c.value = Partial(c.f, c.arg, state, n)
    <3>0. 2 \in 1..Len(stack)  BY <1>1, <1>3
    <3> HIDE DEF n
    <3>1. c \in Frames(state) /\ FrameRight(stack, 2, state)  BY <1>1, <3>0, Zenon
    <3>2. c.f \in Functions /\ c.next \in Nat \ {0}  BY <3>1 DEF Frames
    <3>3. Given(stack, 2) = n  BY DEF Given, n
    <3> QED  BY <3>1, <3>2, <3>3 DEF FrameRight
  <2>3. n \in Nat /\ n + 1 = c.next - 1  BY <2>2
  <2>4. c.value \cup v = Partial(c.f, c.arg, state, c.next - 1)
    <3>1. Partial(c.f, c.arg, state, n + 1) = Partial(c.f, c.arg, state, n) \cup
            Direct(Callees(c.f, c.arg, state)[n + 1][1],
                   Callees(c.f, c.arg, state)[n + 1][2], state)
      BY <2>2, <2>3, PartialNext
    <3> QED  BY <3>1, <2>2, <2>3
  <2>5. Partial(c.f, c.arg, state, c.next - 1) \in Partials(state)
    BY <2>2, <2>3, PartialIsPartial
  <2>6. [c EXCEPT !.value = c.value \cup v] \in Frames(state)
    BY <2>2, <2>4, <2>5 DEF Frames
  <2>7. /\ Len(stack') = Len(stack) - 1 /\ stack' \in Seq(Frames(state))
        /\ stack'[1] = [c EXCEPT !.value = c.value \cup v]
        /\ \A i \in 2..Len(stack') : stack'[i] = stack[i + 1]
    <3> DEFINE r == [c EXCEPT !.value = c.value \cup v]
    <3>1. Len(stack) >= 2  BY <1>1, <1>3
    <3>2. Tail(stack)[1] = c  BY <1>1, <3>1
    <3>3. stack' = [Tail(stack) EXCEPT ![1] = r]  BY <2>1, <3>2
    <3>4. r \in Frames(state)  BY <2>6
    <3> HIDE DEF r
    <3>5. /\ stack' \in Seq(Frames(state)) /\ Len(stack') = Len(stack) - 1 /\ stack'[1] = r
          /\ \A i \in 2..Len(stack') : stack'[i] = stack[i + 1]
      BY <1>1, <3>1, <3>3, <3>4, PopAndChange
    <3> QED  BY <3>5 DEF r
  <2>8. FrameRight(stack', 1, state)
    <3>1. /\ stack'[1].f = c.f /\ stack'[1].arg = c.arg /\ stack'[1].next = c.next
          /\ stack'[1].value = Partial(c.f, c.arg, state, c.next - 1)
      BY <2>2, <2>4, <2>7 DEF Frames
    <3> QED  BY <3>1, <2>2 DEF FrameRight, Given
  <2>9. ASSUME NEW i \in 2..Len(stack') PROVE FrameRight(stack', i, state)
    <3>1. FrameRight(stack, i + 1, state)  BY <1>1, <2>7
    <3>2. /\ stack'[i] = stack[i + 1]
          /\ stack'[i - 1].f = stack[i].f /\ stack'[i - 1].arg = stack[i].arg
      <4>0. stack'[i] = stack[i + 1]  BY <2>7
      <4>1. CASE i = 2
        <5>1. stack'[1].f = c.f /\ stack'[1].arg = c.arg  BY <2>2, <2>7 DEF Frames
        <5> QED  BY <4>0, <4>1, <5>1
      <4>2. CASE i # 2
        <5>1. i - 1 \in 2..Len(stack') /\ i - 1 + 1 = i  BY <1>1, <2>7, <4>2
        <5>2. stack'[i - 1] = stack[i]  BY <2>7, <5>1
        <5> QED  BY <4>0, <5>2
      <4> QED  BY <4>1, <4>2
    <3>3. Given(stack', i) = Given(stack, i + 1)  BY <3>2 DEF Given
    <3> QED  BY <3>1, <3>2, <3>3 DEF FrameRight
  <2>10. \A i \in 1..Len(stack') : FrameRight(stack', i, state)  BY <1>1, <2>7, <2>8, <2>9
  <2>11. StackRight(stack', state)  BY <2>7, <2>10 DEF StackRight
  <2>12. AnswersAreCurrent'  BY <2>1 DEF IInv, AnswersAreCurrent
  <2> QED  BY <2>11, <2>12
<1> QED  BY <1>2, <1>3

(* A new cache for one function keeps the caches right. *)
LEMMA CacheRight ==
  ASSUME IInv, NEW f \in Functions, NEW q \in Seq(EntrySet(f)),
         cache' = [cache EXCEPT ![f] = q]
  PROVE  DOMAIN cache' = Functions /\ EntriesCurrent'
<1>1. DOMAIN cache' = Functions  BY DEF IInv
<1>2. ASSUME NEW g \in Functions PROVE cache'[g] \in Seq(EntrySet(g))
  <2>1. cache[g] \in Seq(EntrySet(g)) /\ DOMAIN cache = Functions
    BY DEF IInv, EntriesCurrent
  <2> HIDE DEF EntrySet, Functions
  <2>2. cache'[g] = IF g = f THEN q ELSE cache[g]  BY <2>1
  <2> QED  BY <2>1, <2>2
<1>3. \A g \in Functions : (EntrySet(g))' = EntrySet(g)  BY DEF EntrySet, KeyOf
<1> QED  BY <1>1, <1>2, <1>3 DEF EntriesCurrent

(* The invariant holds in every reachable state. *)
THEOREM CachesAreRight == Spec => []IInv
<1>1. Init => IInv
  BY DEF Init, IInv, EntriesCurrent, StackRight, AnswersAreCurrent
<1>2. IInv /\ [Next]_vars => IInv'
  <2> SUFFICES ASSUME IInv, [Next]_vars PROVE IInv'
    OBVIOUS
  <2>0. /\ state \in States /\ DOMAIN cache = Functions /\ EntriesCurrent
        /\ StackRight(stack, state) /\ AnswersAreCurrent
        /\ LruAssumption
    BY LruAssumption DEF IInv
  <2> USE DEF IInv
  <2>1. CASE ChangeState
    <3>1. state' \in States  BY <2>1 DEF ChangeState, States
    <3>2. stack' = << >> /\ cache' = cache /\ answer' = answer  BY <2>1 DEF ChangeState
    <3> QED  BY <2>0, <3>1, <3>2 DEF StackRight, EntriesCurrent, AnswersAreCurrent
  <2>2. CASE Call
    <3>1. PICK f \in Functions : \E arg \in Args(f) : stack' = <<Frame(f, arg)>>
      BY <2>2, Zenon DEF Call
    <3>2. PICK arg \in Args(f) : stack' = <<Frame(f, arg)>>  BY <3>1
    <3>3. state' = state /\ cache' = cache /\ answer' = answer  BY <2>2 DEF Call
    <3>4. /\ Frame(f, arg) \in Frames(state)
          /\ Frame(f, arg).f = f /\ Frame(f, arg).arg = arg /\ Frame(f, arg).next = 1
          /\ Frame(f, arg).value = Partial(f, arg, state, 0)
      BY NewFrame
    <3>5. stack' \in Seq(Frames(state)) /\ Len(stack') = 1 /\ stack'[1] = Frame(f, arg)
      BY <3>2, <3>4
    <3>6. FrameRight(stack', 1, state)  BY <3>4, <3>5 DEF FrameRight, Given
    <3>7. StackRight(stack', state')  BY <3>3, <3>5, <3>6 DEF StackRight
    <3> QED  BY <2>0, <3>3, <3>7 DEF EntriesCurrent, AnswersAreCurrent
  <2>3. CASE Hit
    <3> DEFINE f == stack[1].f
    <3>1. stack # << >> /\ state' = state  BY <2>3 DEF Hit
    <3>2. PICK i \in DOMAIN cache[f] :
            /\ cache[f][i].key = Key
            /\ cache' = [cache EXCEPT ![f] = ToFront(@, i)]
            /\ Return(cache[f][i].value)
      BY <2>3, Zenon DEF Hit
    <3>3. stack[1] \in Frames(state) /\ FrameRight(stack, 1, state)
      BY <2>0, <3>1 DEF StackRight
    <3>4. f \in Functions /\ stack[1].arg \in Args(f)  BY <3>3 DEF FrameRight, Frames
    <3>5. cache[f] \in Seq(EntrySet(f))  BY <2>0, <3>4 DEF EntriesCurrent
    <3>6. cache[f][i] \in EntrySet(f)  BY <3>2, <3>5
    <3>7. cache[f][i].value = Direct(f, stack[1].arg, state)
      BY <2>0, <3>2, <3>4, <3>6, FoundValue DEF Key
    <3>8. StackRight(stack', state) /\ AnswersAreCurrent'
      BY <3>1, <3>2, <3>7, ReturnRight
    <3>9. ToFront(cache[f], i) \in Seq(EntrySet(f))
      <4> DEFINE q == cache[f]
      <4>1. q \in Seq(EntrySet(f)) /\ i \in 1..Len(q)  BY <3>2, <3>5
      <4> HIDE DEF q, f, EntrySet
      <4>2. SubSeq(q, 1, i - 1) \in Seq(EntrySet(f))
            /\ SubSeq(q, i + 1, Len(q)) \in Seq(EntrySet(f)) /\ q[i] \in EntrySet(f)
        BY <4>1
      <4> QED  BY <4>2 DEF ToFront, q
    <3>10. cache' = [cache EXCEPT ![f] = ToFront(cache[f], i)]  BY <3>2
    <3>11. DOMAIN cache' = Functions /\ EntriesCurrent'
      BY <3>4, <3>9, <3>10, CacheRight
    <3> QED  BY <2>0, <3>1, <3>8, <3>11
  <2>4. CASE Miss
    <3>1. /\ stack # << >> /\ stack' = [stack EXCEPT ![1].looked = TRUE]
          /\ state' = state /\ cache' = cache /\ answer' = answer
      BY <2>4 DEF Miss
    <3>2. /\ stack' \in Seq(Frames(state)) /\ Len(stack') = Len(stack)
          /\ \A i \in 1..Len(stack) :
               /\ stack'[i].f = stack[i].f /\ stack'[i].arg = stack[i].arg
               /\ stack'[i].next = stack[i].next /\ stack'[i].value = stack[i].value
      <4>1. stack \in Seq(Frames(state)) /\ 1 \in 1..Len(stack) /\ stack[1] \in Frames(state)
        BY <2>0, <3>1 DEF StackRight
      <4>2. [stack[1] EXCEPT !.looked = TRUE] \in Frames(state)  BY <4>1 DEF Frames
      <4> QED  BY <3>1, <4>1, <4>2 DEF Frames
    <3>3. ASSUME NEW i \in 1..Len(stack) PROVE FrameRight(stack', i, state)
      <4>1. FrameRight(stack, i, state)  BY <2>0 DEF StackRight
      <4>2. Given(stack', i) = Given(stack, i)  BY <3>2 DEF Given
      <4>3. i > 1 => i - 1 \in 1..Len(stack)  OBVIOUS
      <4> QED  BY <4>1, <4>2, <4>3, <3>2 DEF FrameRight
    <3> QED  BY <2>0, <3>1, <3>2, <3>3 DEF StackRight, EntriesCurrent, AnswersAreCurrent
  <2>5. CASE CallNext
    <3> DEFINE t == stack[1]
               n == stack[1].next
               callees == Callees(stack[1].f, stack[1].arg, state)
    <3>1. /\ stack # << >> /\ n \in DOMAIN callees
          /\ stack' = <<Frame(callees[n][1], callees[n][2])>> \o [stack EXCEPT ![1].next = n + 1]
          /\ state' = state /\ cache' = cache /\ answer' = answer
      BY <2>5 DEF CallNext
    <3>2. /\ stack \in Seq(Frames(state)) /\ t \in Frames(state) /\ FrameRight(stack, 1, state)
          /\ Len(stack) \in Nat /\ Len(stack) >= 1
      BY <2>0, <3>1 DEF StackRight
    <3>3. t.f \in Functions /\ t.arg \in Args(t.f) /\ n \in Nat \ {0}
          /\ t.value = Partial(t.f, t.arg, state, n - 1)
      BY <3>2 DEF FrameRight, Frames, Given
    <3>4. callees[n][1] \in Functions /\ callees[n][2] \in Args(callees[n][1])
      BY <2>0, <3>1, <3>3, CalleesTyped
    <3> DEFINE g == callees[n][1]
               b == callees[n][2]
               u == [stack EXCEPT ![1].next = n + 1]
    <3>5. /\ Frame(g, b) \in Frames(state)
          /\ Frame(g, b).f = g /\ Frame(g, b).arg = b /\ Frame(g, b).next = 1
          /\ Frame(g, b).value = Partial(g, b, state, 0)
      BY <3>4, NewFrame
    <3> DEFINE r == [t EXCEPT !.next = n + 1]
    <3>6. /\ r \in Frames(state) /\ r.f = t.f /\ r.arg = t.arg /\ r.next = n + 1
          /\ r.value = t.value
      BY <3>2, <3>3 DEF Frames
    <3>7. callees[n] = <<g, b>>
      BY <3>1, <3>3, CalleesArePairs
    <3> HIDE DEF g, b, callees
    <3>8. /\ stack' \in Seq(Frames(state)) /\ Len(stack') = Len(stack) + 1
          /\ stack'[1] = Frame(g, b) /\ stack'[2] = r
          /\ \A i \in 3..Len(stack') : stack'[i] = stack[i - 1]
      <4>1. stack' = <<Frame(g, b)>> \o [stack EXCEPT ![1] = r]  BY <3>1 DEF g, b
      <4> HIDE DEF r
      <4> QED  BY <4>1, <3>2, <3>5, <3>6, ChangeAndPush
    <3>9. FrameRight(stack', 1, state)  BY <3>4, <3>5, <3>8 DEF FrameRight, Given, g, b
    <3>10. FrameRight(stack', 2, state)
      <4>2. Given(stack', 2) = n - 1  BY <3>3, <3>6, <3>8 DEF Given
      <4>3. Callees(r.f, r.arg, state) = callees  BY <3>6 DEF callees
      <4>4. n + 1 - 1 = n /\ n + 1 # 1  BY <3>3
      <4>5. stack'[2].f = t.f /\ stack'[2].arg = t.arg /\ stack'[2].next = n + 1
            /\ stack'[2].value = Partial(t.f, t.arg, state, n - 1)
        BY <3>3, <3>6, <3>8
      <4>6. stack'[2 - 1].f = g /\ stack'[2 - 1].arg = b  BY <3>5, <3>8
      <4> HIDE DEF r, t, n
      <4>7. Callees(stack'[2].f, stack'[2].arg, state) = callees  BY <4>5 DEF callees, t
      <4>8. stack'[2].arg \in Args(stack'[2].f)  BY <3>3, <4>5
      <4>9. stack'[2].next - 1 = n /\ stack'[2].next # 1
        <5>1. stack'[2].next = n + 1  BY <4>5, Zenon
        <5>2. n \in Nat \ {0}  BY <3>3, Zenon
        <5> QED  BY <5>1, <5>2, SMT
      <4>10. stack'[2].value = Partial(stack'[2].f, stack'[2].arg, state, Given(stack', 2))
        BY <4>2, <4>5
      <4> HIDE DEF Given, Callees, Partial
      <4>11. stack'[2].next - 1 \in DOMAIN callees
             /\ callees[stack'[2].next - 1] = <<stack'[2 - 1].f, stack'[2 - 1].arg>>
        BY <4>6, <4>9, <3>1, <3>7
      <4> QED  BY <4>7, <4>8, <4>9, <4>10, <4>11, Zenon DEF FrameRight
    <3>11. ASSUME NEW i \in 3..(Len(stack) + 1) PROVE FrameRight(stack', i, state)
      <4>0. i \in Nat /\ i - 1 \in 1..Len(stack) /\ i > 1 /\ i - 1 > 1
        <5> DEFINE m == Len(stack)
        <5>1. m \in Nat /\ i \in 3..(m + 1)  BY <3>2
        <5> HIDE DEF m
        <5>2. i \in Nat /\ i - 1 \in 1..m /\ i > 1 /\ i - 1 > 1  BY <5>1
        <5> QED  BY <5>2 DEF m
      <4>1. FrameRight(stack, i - 1, state)  BY <2>0, <4>0 DEF StackRight
      <4>2. stack'[i] = stack[i - 1]  BY <3>8
      <4>3. stack'[i - 1].f = stack[i - 1 - 1].f /\ stack'[i - 1].arg = stack[i - 1 - 1].arg
        <5>1. CASE i = 3
          <6>1. stack'[2].f = stack[1].f /\ stack'[2].arg = stack[1].arg  BY <3>6, <3>8
          <6>2. i - 1 = 2 /\ i - 1 - 1 = 1  BY <5>1
          <6> QED  BY <6>1, <6>2
        <5>2. CASE i # 3
          <6>1. i - 1 \in 3..Len(stack')  BY <3>2, <3>8, <5>2
          <6> QED  BY <3>8, <6>1
        <5> QED  BY <5>1, <5>2
      <4>4. Given(stack', i) = Given(stack, i - 1)  BY <4>0, <4>2 DEF Given
      <4> QED  BY <4>0, <4>1, <4>2, <4>3, <4>4 DEF FrameRight
    <3>12. \A i \in 1..Len(stack') : FrameRight(stack', i, state)
      BY <3>2, <3>8, <3>9, <3>10, <3>11
    <3> QED  BY <2>0, <3>1, <3>8, <3>12 DEF StackRight, EntriesCurrent, AnswersAreCurrent
  <2>6. CASE Fill
    <3> DEFINE f == stack[1].f
               entry == [key |-> Key, value |-> stack[1].value]
    <3>1. /\ stack # << >> /\ stack[1].next \notin DOMAIN Callees(f, stack[1].arg, state)
          /\ cache' = [cache EXCEPT ![f] = Add(@, entry, LruSize(f))]
          /\ Return(stack[1].value) /\ state' = state
      BY <2>6 DEF Fill
    <3>2. stack[1] \in Frames(state) /\ FrameRight(stack, 1, state)
      BY <2>0, <3>1 DEF StackRight
    <3>3. /\ f \in Functions /\ stack[1].arg \in Args(f) /\ stack[1].next \in Nat \ {0}
          /\ stack[1].next = 1 \/ stack[1].next - 1 \in DOMAIN Callees(f, stack[1].arg, state)
          /\ stack[1].value = Partial(f, stack[1].arg, state, stack[1].next - 1)
      BY <3>2 DEF FrameRight, Frames, Given
    <3>4. stack[1].value = Direct(f, stack[1].arg, state)
      <4> DEFINE n == stack[1].next - 1
      <4>1. n \in Nat /\ n + 1 = stack[1].next  BY <3>3
      <4>2. n = 0 \/ n \in DOMAIN Callees(f, stack[1].arg, state)  BY <3>3, <4>1
      <4> HIDE DEF n, f
      <4>3. Partial(f, stack[1].arg, state, n) = Direct(f, stack[1].arg, state)
        BY <2>0, <3>1, <3>3, <4>1, <4>2, PartialAll
      <4> QED  BY <3>3, <4>3 DEF n
    <3>5. StackRight(stack', state) /\ AnswersAreCurrent'
      BY <3>1, <3>4, ReturnRight
    <3>6. entry \in EntrySet(f)
      <4>1. <<stack[1].arg, state>> \in Args(f) \X States  BY <2>0, <3>3
      <4> DEFINE e(as) == [key |-> KeyOf(f, as[1], as[2]), value |-> Direct(f, as[1], as[2])]
      <4>2. entry = e(<<stack[1].arg, state>>)  BY <3>4 DEF Key
      <4>3. EntrySet(f) = { e(as) : as \in Args(f) \X States }  BY DEF EntrySet
      <4> HIDE DEF e
      <4> QED  BY <4>1, <4>2, <4>3
    <3>7. cache[f] \in Seq(EntrySet(f))  BY <2>0, <3>3 DEF EntriesCurrent
    <3>8. Add(cache[f], entry, LruSize(f)) \in Seq(EntrySet(f))
      <4> DEFINE q == cache[f]
                 l == IF Len(q) < LruSize(f) THEN Len(q) ELSE LruSize(f) - 1
      <4>1. q \in Seq(EntrySet(f)) /\ LruSize(f) \in Nat \ {0}  BY <3>3, <3>7, LruAssumption
      <4> HIDE DEF q, f, EntrySet, entry
      <4>2. l \in 0..Len(q)  BY <4>1
      <4>3. SubSeq(q, 1, l) \in Seq(EntrySet(f))  BY <4>1, <4>2
      <4> QED  BY <3>6, <4>3 DEF Add, q
    <3>9. cache' = [cache EXCEPT ![f] = Add(cache[f], entry, LruSize(f))]  BY <3>1
    <3>10. DOMAIN cache' = Functions /\ EntriesCurrent'
      BY <3>3, <3>8, <3>9, CacheRight
    <3> QED  BY <2>0, <3>1, <3>5, <3>10
  <2>7. CASE UNCHANGED vars
    BY <2>0, <2>7 DEF vars, StackRight, FrameRight, Given, EntriesCurrent, AnswersAreCurrent
  <2> QED  BY <2>1, <2>2, <2>3, <2>4, <2>5, <2>6, <2>7 DEF Next
<1> QED  BY <1>1, <1>2, PTL DEF Spec

(* Every answer a caller gets is the value of the uncached function, for all
   contents of the state, cache sizes, and sequences of calls and changes. *)
THEOREM CachedAnswersAreCurrent == Spec => []AnswersAreCurrent
<1>1. IInv => AnswersAreCurrent  BY DEF IInv
<1> QED  BY CachesAreRight, <1>1, PTL
=============================================================================
