---------------------------- MODULE SpecCache ----------------------------
(***************************************************************************)
(* The caches a generated specification module puts around nine of its     *)
(* functions (cache_this).  A cached function finds its answer under a key *)
(* computed from its arguments, not under the arguments themselves, and    *)
(* calls other cached functions while it computes one; a beacon state      *)
(* changes between two calls.  A state is cut into the parts the keys and  *)
(* the functions tell apart; a version of a part stands for its contents.  *)
(* A value is what it was computed from: two values are equal only when    *)
(* every function could tell them so.                                      *)
(***************************************************************************)
EXTENDS Naturals, Sequences

CONSTANTS
  Versions,          \* contents a part may have; also the epochs and slots of arguments
  LruSize(_),        \* lru_size of each cache
  Direct(_, _, _),   \* Direct(f, arg, state): the value of the function uncached
  MaxCalls,          \* bound on the calls of a run
  MaxChanges         \* bound on the changes of the state

VARIABLES
  state,     \* the beacon state calls are made with
  cache,     \* cache[f]: entries [key, value], the most recently used first
  stack,     \* the calls in progress, the innermost first
  answer,    \* the last call to return to the caller, with the state it was made in
  calls, changes

vars == <<state, cache, stack, answer, calls, changes>>

(* state.slot is an epoch and a slot within it; "history" is everything else, the
   pending attestations and block roots among it. *)
Parts == {"validators", "randao", "epoch", "slot", "history"}

States == [Parts -> Versions]

Functions ==
  {"compute_shuffled_index", "get_total_active_balance", "get_base_reward",
   "get_committee_count_per_slot", "get_active_validator_indices",
   "get_beacon_committee", "get_matching_target_attestations",
   "get_matching_head_attestations", "get_attesting_indices"}

(* The arguments beside the state: an epoch, slot, index or attestation;
   compute_shuffled_index is given what the active validators, the randao mixes and
   an epoch determine. *)
Args(f) == IF f = "compute_shuffled_index" THEN Versions \X Versions \X Versions ELSE Versions

(* Mutant: the committee's key leaves out the randao mixes. *)
KeyPartsNoMixes(f) ==
  CASE f = "compute_shuffled_index" -> {}
    [] f = "get_total_active_balance" -> {"validators", "epoch"}
    [] f = "get_base_reward" -> {"validators", "epoch", "slot"}
    [] f \in {"get_matching_target_attestations", "get_matching_head_attestations"} -> Parts
    [] OTHER -> {"validators"}

(* The parts of the state whose root or value is in the key. *)
KeyParts(f) ==
  CASE f = "compute_shuffled_index" -> {}
    [] f = "get_total_active_balance" -> {"validators", "epoch"}
    [] f = "get_base_reward" -> {"validators", "epoch", "slot"}
    [] f \in {"get_committee_count_per_slot", "get_active_validator_indices"} -> {"validators"}
    [] f \in {"get_beacon_committee", "get_attesting_indices"} -> {"validators", "randao"}
    [] OTHER -> Parts

KeyOf(f, arg, s) == <<arg, [p \in KeyParts(f) |-> s[p]]>>

(* The parts a function reads itself. *)
Reads(f) ==
  CASE f \in {"get_total_active_balance", "get_base_reward", "get_active_validator_indices"}
         -> {"validators"}
    [] f = "get_beacon_committee" -> {"randao"}
    [] f \in {"get_matching_target_attestations", "get_matching_head_attestations"}
         -> {"epoch", "slot", "history"}
    [] OTHER -> {}

(* The cached functions it calls, in order, and with what argument. *)
Callees(f, arg, s) ==
  CASE f = "get_total_active_balance" -> << <<"get_active_validator_indices", s["epoch"]>> >>
    [] f = "get_base_reward" -> << <<"get_total_active_balance", s["epoch"]>> >>
    [] f = "get_committee_count_per_slot" -> << <<"get_active_validator_indices", arg>> >>
    [] f = "get_beacon_committee"
         -> << <<"get_committee_count_per_slot", arg>>, <<"get_active_validator_indices", arg>>,
               <<"compute_shuffled_index", <<s["validators"], s["randao"], arg>> >> >>
    [] f = "get_matching_head_attestations" -> << <<"get_matching_target_attestations", arg>> >>
    [] f = "get_attesting_indices" -> << <<"get_beacon_committee", arg>> >>
    [] OTHER -> << >>

(* What a function contributes to its value: its argument and what it reads. *)
Own(f, arg, s) == {<<f, "argument", arg>>} \cup { <<f, p, s[p]>> : p \in Reads(f) }

(* Uncached, a function's value comes from its own reads and its callees' values. *)
ASSUME DirectAssumption ==
  \A f \in Functions : \A arg \in Args(f), s \in States :
    Direct(f, arg, s) =
      Own(f, arg, s) \cup
      UNION { Direct(Callees(f, arg, s)[i][1], Callees(f, arg, s)[i][2], s) :
                i \in DOMAIN Callees(f, arg, s) }

ASSUME LruAssumption == \A f \in Functions : LruSize(f) \in Nat \ {0}

Frame(f, arg) == [f |-> f, arg |-> arg, looked |-> FALSE, next |-> 1, value |-> Own(f, arg, state)]

Init ==
  /\ state \in States
  /\ cache = [f \in Functions |-> << >>]
  /\ stack = << >> /\ answer = [f |-> "none"]
  /\ calls = 0 /\ changes = 0

(* Block processing, or a test, changes the state between two calls. *)
ChangeState ==
  /\ stack = << >> /\ changes < MaxChanges
  /\ \E p \in Parts, v \in Versions : state' = [state EXCEPT ![p] = v]
  /\ changes' = changes + 1
  /\ UNCHANGED <<cache, stack, answer, calls>>

Call ==
  /\ stack = << >> /\ calls < MaxCalls
  /\ \E f \in Functions : \E arg \in Args(f) : stack' = <<Frame(f, arg)>>
  /\ calls' = calls + 1
  /\ UNCHANGED <<state, cache, answer, changes>>

Key == KeyOf(stack[1].f, stack[1].arg, state)

(* return cache_dict[key]: the innermost call gives its value to the one below. *)
Return(value) ==
  IF Len(stack) = 1
    THEN /\ stack' = << >>
         /\ answer' = [f |-> stack[1].f, arg |-> stack[1].arg, value |-> value, state |-> state]
    ELSE /\ stack' = [Tail(stack) EXCEPT ![1].value = @ \cup value]
         /\ UNCHANGED answer

(* The entry becomes the most recently used. *)
ToFront(entries, i) ==
  <<entries[i]>> \o SubSeq(entries, 1, i - 1) \o SubSeq(entries, i + 1, Len(entries))

(* key in cache_dict. *)
Hit ==
  /\ stack # << >> /\ ~stack[1].looked
  /\ \E i \in DOMAIN cache[stack[1].f] :
       /\ cache[stack[1].f][i].key = Key
       /\ cache' = [cache EXCEPT ![stack[1].f] = ToFront(@, i)]
       /\ Return(cache[stack[1].f][i].value)
  /\ UNCHANGED <<state, calls, changes>>

Miss ==
  /\ stack # << >> /\ ~stack[1].looked
  /\ \A i \in DOMAIN cache[stack[1].f] : cache[stack[1].f][i].key # Key
  /\ stack' = [stack EXCEPT ![1].looked = TRUE]
  /\ UNCHANGED <<state, cache, answer, calls, changes>>

(* value_fn calls the next cached function it needs. *)
CallNext ==
  /\ stack # << >> /\ stack[1].looked
  /\ LET callees == Callees(stack[1].f, stack[1].arg, state)
         n == stack[1].next
     IN /\ n \in DOMAIN callees
        /\ stack' = <<Frame(callees[n][1], callees[n][2])>> \o [stack EXCEPT ![1].next = n + 1]
  /\ UNCHANGED <<state, cache, answer, calls, changes>>

(* A new entry takes the place of the least recently used one. *)
Add(entries, entry, size) ==
  <<entry>> \o SubSeq(entries, 1, IF Len(entries) < size THEN Len(entries) ELSE size - 1)

(* cache_dict[key] = value_fn(...), then the value just stored is returned. *)
Fill ==
  /\ stack # << >> /\ stack[1].looked
  /\ stack[1].next \notin DOMAIN Callees(stack[1].f, stack[1].arg, state)
  /\ LET entry == [key |-> Key, value |-> stack[1].value]
     IN cache' = [cache EXCEPT ![stack[1].f] = Add(@, entry, LruSize(stack[1].f))]
  /\ Return(stack[1].value)
  /\ UNCHANGED <<state, calls, changes>>

Next == ChangeState \/ Call \/ Hit \/ Miss \/ CallNext \/ Fill

Spec == Init /\ [][Next]_vars

----------------------------------------------------------------------------
(* A caller cannot tell the cached function from the one it wraps: every answer
   is the value the function has in the state it was called with, whatever was
   computed before, for other states, or evicted. *)
AnswersAreCurrent ==
  answer.f # "none" => answer.value = Direct(answer.f, answer.arg, answer.state)
=============================================================================
