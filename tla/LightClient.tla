--------------------------- MODULE LightClient ---------------------------
(***************************************************************************)
(* The store of an altair light client (sync-protocol.md): it follows a    *)
(* chain by headers that sync committees signed, learns the committee of   *)
(* each period from an update of the period before, and may force the best *)
(* update it has seen when no finality arrives.  Updates are about one     *)
(* chain and come from anybody, in any order, old ones included; a header  *)
(* is its slot, a committee the period it serves, 0 the empty header and   *)
(* None the empty committee.                                               *)
(***************************************************************************)
EXTENDS Integers

CONSTANTS
  SLOTS_PER_PERIOD,                 \* SLOTS_PER_EPOCH * EPOCHS_PER_SYNC_COMMITTEE_PERIOD
  SYNC_COMMITTEE_SIZE,
  MIN_SYNC_COMMITTEE_PARTICIPANTS,
  Histories,   \* how finality may go: the finalized slot in the state of each header
  None,
  MaxSlot      \* bound on the clock

ASSUME PeriodAssumption == SLOTS_PER_PERIOD \in Nat \ {0} /\ MaxSlot \in Nat
ASSUME CommitteeAssumption ==
  SYNC_COMMITTEE_SIZE \in Nat /\ MIN_SYNC_COMMITTEE_PARTICIPANTS \in Nat /\ None \notin Nat

Slots == 0..MaxSlot

ASSUME HistoryAssumption ==
  Histories \subseteq { h \in [Slots -> Slots] : \A s \in Slots : h[s] <= s }

UPDATE_TIMEOUT == SLOTS_PER_PERIOD

VARIABLES
  current_slot,
  history,       \* the finality of the chain, the same throughout
  store          \* LightClientStore

vars == <<current_slot, history, store>>

compute_sync_committee_period_at_slot(s) == s \div SLOTS_PER_PERIOD

Period(s) == compute_sync_committee_period_at_slot(s)

is_sync_committee_update(u) == u.next_sync_committee # None
is_finality_update(u) == u.finality

(* An update of the chain: its branches, where it has them, prove what is in the
   state of the attested header. *)
Update(attested, signature, participants, withCommittee, withFinality) ==
  [attested |-> attested, signature |-> signature, participants |-> participants,
   next_sync_committee |-> IF withCommittee THEN Period(attested) + 1 ELSE None,
   finality |-> withFinality,
   finalized |-> IF withFinality THEN history[attested] ELSE 0]

----------------------------------------------------------------------------
supermajority(n) == n * 3 >= SYNC_COMMITTEE_SIZE * 2

has_relevant_sync_committee(u) ==
  is_sync_committee_update(u) /\ Period(u.attested) = Period(u.signature)

has_sync_committee_finality(u) == Period(u.finalized) = Period(u.attested)

(* The comparisons of is_better_update, each made when those before it are ties. *)
is_better_update(new, old) ==
  LET newSuper == supermajority(new.participants)
      oldSuper == supermajority(old.participants)
  IN CASE newSuper # oldSuper -> newSuper
       [] newSuper = oldSuper /\ ~newSuper /\ new.participants # old.participants
            -> new.participants > old.participants
       [] OTHER ->
          CASE has_relevant_sync_committee(new) # has_relevant_sync_committee(old)
                 -> has_relevant_sync_committee(new)
            [] has_relevant_sync_committee(new) = has_relevant_sync_committee(old)
               /\ is_finality_update(new) # is_finality_update(old)
                 -> is_finality_update(new)
            [] OTHER ->
               IF is_finality_update(new)
                  /\ has_sync_committee_finality(new) # has_sync_committee_finality(old)
                 THEN has_sync_committee_finality(new)
               ELSE IF new.participants # old.participants
                 THEN new.participants > old.participants
               ELSE IF new.attested # old.attested THEN new.attested < old.attested
               ELSE new.signature < old.signature

is_next_sync_committee_known(st) == st.next_sync_committee # None

Maximum(m, n) == IF m >= n THEN m ELSE n

get_safety_threshold(st) ==
  Maximum(st.previous_max_active_participants, st.current_max_active_participants) \div 2

(* initialize_light_client_store of a header of the chain. *)
InitialStore(s) ==
  [finalized_header |-> s, optimistic_header |-> s,
   current_sync_committee |-> Period(s), next_sync_committee |-> None,
   best_valid_update |-> None,
   previous_max_active_participants |-> 0, current_max_active_participants |-> 0]

----------------------------------------------------------------------------
(* Mutant: a client that lacks the next committee takes updates of later periods. *)
validate_light_client_update_any_period(st, u) ==
  /\ u.participants >= MIN_SYNC_COMMITTEE_PARTICIPANTS
  /\ current_slot >= u.signature /\ u.signature > u.attested /\ u.attested >= u.finalized
  /\ Period(u.signature) \in {Period(st.finalized_header), Period(st.finalized_header) + 1}
  /\ u.attested > st.finalized_header

(* The asserts of validate_light_client_update that do not hold of every update of
   the chain.  The last is the signature: made by the committee of its slot, checked
   with a committee of the store. *)
validate_light_client_update(st, u) ==
  LET store_period == Period(st.finalized_header)
      known == is_next_sync_committee_known(st)
  IN /\ u.participants >= MIN_SYNC_COMMITTEE_PARTICIPANTS
     /\ current_slot >= u.signature /\ u.signature > u.attested /\ u.attested >= u.finalized
     /\ Period(u.signature) \in IF known THEN {store_period, store_period + 1} ELSE {store_period}
     /\ \/ u.attested > st.finalized_header
        \/ ~known /\ is_sync_committee_update(u) /\ Period(u.attested) = store_period
     /\ (is_sync_committee_update(u) /\ Period(u.attested) = store_period /\ known)
          => u.next_sync_committee = st.next_sync_committee
     /\ Period(u.signature) = IF Period(u.signature) = store_period
                                THEN st.current_sync_committee ELSE st.next_sync_committee

(* The assert of apply_light_client_update. *)
CanApply(st, u) ==
  ~is_next_sync_committee_known(st) => Period(u.finalized) = Period(st.finalized_header)

(* Mutant: the next committee stays when the committees are rotated. *)
rotated_keeping_next(st, u) ==
  IF ~is_next_sync_committee_known(st)
    THEN [st EXCEPT !.next_sync_committee = u.next_sync_committee]
  ELSE IF Period(u.finalized) = Period(st.finalized_header) + 1
    THEN [st EXCEPT !.current_sync_committee = st.next_sync_committee,
                    !.previous_max_active_participants = st.current_max_active_participants,
                    !.current_max_active_participants = 0]
  ELSE st

(* The committees after an update: learned, rotated, or as they were. *)
rotated(st, u) ==
  IF ~is_next_sync_committee_known(st)
    THEN [st EXCEPT !.next_sync_committee = u.next_sync_committee]
  ELSE IF Period(u.finalized) = Period(st.finalized_header) + 1
    THEN [st EXCEPT !.current_sync_committee = st.next_sync_committee,
                    !.next_sync_committee = u.next_sync_committee,
                    !.previous_max_active_participants = st.current_max_active_participants,
                    !.current_max_active_participants = 0]
  ELSE st

(* apply_light_client_update; both callers then drop the best update. *)
applied(st, u) ==
  LET r == rotated(st, u)
      fin == Maximum(st.finalized_header, u.finalized)
  IN [r EXCEPT !.finalized_header = fin,
               !.optimistic_header = IF u.finalized > st.finalized_header
                                       THEN Maximum(@, fin) ELSE @,
               !.best_valid_update = None]

(* Mutant: an older header with enough signatures replaces the optimistic one. *)
noted_any_header(st, u) ==
  LET max == Maximum(st.current_max_active_participants, u.participants)
      st1 == [st EXCEPT !.current_max_active_participants = max]
  IN [st1 EXCEPT
        !.best_valid_update =
           IF st.best_valid_update = None \/ is_better_update(u, st.best_valid_update)
             THEN u ELSE @,
        !.optimistic_header =
           IF u.participants > get_safety_threshold(st1) THEN u.attested ELSE @]

(* What process_light_client_update notes of every valid update. *)
noted(st, u) ==
  LET max == Maximum(st.current_max_active_participants, u.participants)
      st1 == [st EXCEPT !.current_max_active_participants = max]
  IN [st1 EXCEPT
        !.best_valid_update =
           IF st.best_valid_update = None \/ is_better_update(u, st.best_valid_update)
             THEN u ELSE @,
        !.optimistic_header =
           IF u.participants > get_safety_threshold(st1) /\ u.attested > @
             THEN u.attested ELSE @]

(* The condition of the normal update. *)
updates_finalized_header(st, u) ==
  /\ supermajority(u.participants)
  /\ \/ u.finalized > st.finalized_header
     \/ /\ ~is_next_sync_committee_known(st)
        /\ is_sync_committee_update(u) /\ is_finality_update(u)
        /\ has_sync_committee_finality(u)

(* An assert that fails in apply leaves what was noted before. *)
process_light_client_update(u) ==
  /\ validate_light_client_update(store, u)
  /\ LET st == noted(store, u)
     IN store' = IF updates_finalized_header(st, u) /\ CanApply(st, u) THEN applied(st, u) ELSE st
  /\ UNCHANGED <<current_slot, history>>

----------------------------------------------------------------------------
Init ==
  /\ history \in Histories
  /\ current_slot \in Slots
  /\ \E s \in 0..current_slot : store = InitialStore(s)

(* The local clock. *)
Tick ==
  /\ current_slot < MaxSlot /\ current_slot' = current_slot + 1
  /\ UNCHANGED <<history, store>>

ProcessUpdate ==
  \E a, s \in Slots, n \in 0..SYNC_COMMITTEE_SIZE, c, f \in BOOLEAN :
    process_light_client_update(Update(a, s, n, c, f))

(* A LightClientFinalityUpdate has no next committee. *)
ProcessFinalityUpdate ==
  \E a, s \in Slots, n \in 0..SYNC_COMMITTEE_SIZE :
    process_light_client_update(Update(a, s, n, FALSE, TRUE))

(* A LightClientOptimisticUpdate proves no finality either. *)
ProcessOptimisticUpdate ==
  \E a, s \in Slots, n \in 0..SYNC_COMMITTEE_SIZE :
    process_light_client_update(Update(a, s, n, FALSE, FALSE))

(* Mutant: the best update is forced as it is. *)
forced_as_is(st) == st.best_valid_update

(* The update that is forced: without new finality, the attested header counts. *)
forced(st) ==
  IF st.best_valid_update.finalized <= st.finalized_header
    THEN [st.best_valid_update EXCEPT !.finalized = st.best_valid_update.attested]
    ELSE st.best_valid_update

process_light_client_store_force_update ==
  /\ current_slot > store.finalized_header + UPDATE_TIMEOUT
  /\ store.best_valid_update # None
  /\ store' = IF CanApply(store, forced(store)) THEN applied(store, forced(store))
                ELSE [store EXCEPT !.best_valid_update = forced(store)]
  /\ UNCHANGED <<current_slot, history>>

Next ==
  \/ Tick \/ ProcessUpdate \/ ProcessFinalityUpdate \/ ProcessOptimisticUpdate
  \/ process_light_client_store_force_update

Spec == Init /\ [][Next]_vars

(* What the servers of light clients hold for each period at least: an update with
   the next committee, signed by the fewest participants that count, no finality. *)
LeastUpdate ==
  \E a, s \in Slots :
    process_light_client_update(Update(a, s, MIN_SYNC_COMMITTEE_PARTICIPANTS, TRUE, FALSE))

(* A client that goes on to receive updates and forces them when it is stuck. *)
FairSpec ==
  Spec /\ WF_vars(LeastUpdate) /\ WF_vars(process_light_client_store_force_update)

----------------------------------------------------------------------------
(* The committees of a store are those of the period of its finalized header, the
   next one if it is known at all: a header the store trusts never goes with a
   committee that had no part in it, and updates of the chain keep verifying, also
   after forced updates and periods without finality. *)
CommitteesMatchPeriod ==
  /\ store.current_sync_committee = Period(store.finalized_header)
  /\ store.next_sync_committee \in {None, Period(store.finalized_header) + 1}

(* Whatever is delivered late, twice or forced, neither header of a store goes back,
   and the optimistic one stays at or ahead of the finalized one. *)
HeadersOnlyAdvance ==
  [][ /\ store'.finalized_header >= store.finalized_header
      /\ store'.optimistic_header >= store.optimistic_header
      /\ store'.optimistic_header >= store'.finalized_header ]_vars

(* The best update a store keeps can be applied whenever the timeout strikes: the
   assert of apply_light_client_update holds of it, and applying it finalizes a
   later header or makes the next committee known. *)
StoredUpdateIsUseful ==
  store.best_valid_update # None =>
    LET u == forced(store) IN
    /\ CanApply(store, u)
    /\ \/ u.finalized > store.finalized_header
       \/ ~is_next_sync_committee_known(store) /\ is_sync_committee_update(u)

(* A client that is given weakly signed updates, the least its servers can send,
   and forces them when it is stuck gets to within the timeout of the present,
   also when the chain finalizes nothing. *)
ClientCatchesUp == <>[](current_slot <= store.finalized_header + UPDATE_TIMEOUT)
=============================================================================
