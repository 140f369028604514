----------------------- MODULE LightClient_proofs -----------------------
(***************************************************************************)
(* What a light client's store keeps, whatever updates of the chain reach  *)
(* it, in any order, for every length of a period and size of a committee. *)
(***************************************************************************)
EXTENDS LightClient, TLAPS

Committees == Nat \cup {None}

LightClientUpdates ==
  [attested : Nat, signature : Nat, participants : Nat, next_sync_committee : Committees,
   finality : BOOLEAN, finalized : Nat]

LightClientStores ==
  [finalized_header : Nat, optimistic_header : Nat,
   current_sync_committee : Nat, next_sync_committee : Committees,
   best_valid_update : LightClientUpdates \cup {None},
   previous_max_active_participants : Nat, current_max_active_participants : Nat]

TypeOK ==
  /\ current_slot \in Nat
  /\ history \in [Slots -> Slots]
  /\ \A s \in Slots : history[s] <= s
  /\ store \in LightClientStores

(* The committees of st belong to the period of its finalized header. *)
Matches(st) ==
  /\ st.current_sync_committee = Period(st.finalized_header)
  /\ st.next_sync_committee \in {None, Period(st.finalized_header) + 1}

(* An update of the chain: it carries the committee of the period after its own. *)
OfChain(u) ==
  /\ u.attested >= u.finalized /\ u.signature > u.attested
  /\ u.next_sync_committee \in {None, Period(u.attested) + 1}

(* What validation leaves true of u as long as the finalized header and the next
   committee of st stay as they are. *)
Usable(st, u) ==
  /\ OfChain(u)
  /\ Period(u.attested) <= Period(st.finalized_header)
                             + IF is_next_sync_committee_known(st) THEN 1 ELSE 0
  /\ \/ u.attested > st.finalized_header
     \/ /\ ~is_next_sync_committee_known(st)
        /\ is_sync_committee_update(u) /\ Period(u.attested) = Period(st.finalized_header)

StoreInv(st) ==
  /\ Matches(st)
  /\ st.optimistic_header >= st.finalized_header
  /\ st.best_valid_update # None => Usable(st, st.best_valid_update)

IInv == TypeOK /\ StoreInv(store)

----------------------------------------------------------------------------
(* Periods *)

LEMMA PeriodMonotone ==
  ASSUME NEW m \in Nat, NEW n \in Nat
  PROVE  /\ Period(m) \in Nat /\ Period(n) \in Nat
         /\ m <= n => Period(m) <= Period(n)
         /\ Period(m) < Period(n) => m < n
BY PeriodAssumption DEF Period, compute_sync_committee_period_at_slot

LEMMA MaximumType ==
  ASSUME NEW m \in Nat, NEW n \in Nat
  PROVE  Maximum(m, n) \in Nat /\ Maximum(m, n) >= m /\ Maximum(m, n) >= n
         /\ Maximum(m, n) \in {m, n}
BY DEF Maximum

LEMMA UpdateFields ==
  ASSUME NEW u \in LightClientUpdates
  PROVE  /\ u.attested \in Nat /\ u.signature \in Nat /\ u.participants \in Nat
         /\ u.next_sync_committee \in Committees /\ u.finality \in BOOLEAN /\ u.finalized \in Nat
BY DEF LightClientUpdates

LEMMA StoreFields ==
  ASSUME NEW st \in LightClientStores
  PROVE  /\ st.finalized_header \in Nat /\ st.optimistic_header \in Nat
         /\ st.current_sync_committee \in Nat /\ st.next_sync_committee \in Committees
         /\ st.best_valid_update \in LightClientUpdates \cup {None}
         /\ st.previous_max_active_participants \in Nat
         /\ st.current_max_active_participants \in Nat
BY DEF LightClientStores

----------------------------------------------------------------------------
(* Applying an update *)

(* An update that may be applied keeps the committees with the period, and moves no
   header back. *)
LEMMA AppliedKeeps ==
  ASSUME NEW st \in LightClientStores, NEW u \in LightClientUpdates,
         Matches(st), st.optimistic_header >= st.finalized_header,
         Usable(st, u), CanApply(st, u)
  PROVE  /\ applied(st, u) \in LightClientStores /\ StoreInv(applied(st, u))
         /\ applied(st, u).finalized_header >= st.finalized_header
         /\ applied(st, u).optimistic_header >= st.optimistic_header
<1>. DEFINE r == rotated(st, u)
            fin == Maximum(st.finalized_header, u.finalized)
            opt == IF u.finalized > st.finalized_header
                     THEN Maximum(st.optimistic_header, fin) ELSE st.optimistic_header
            sp == Period(st.finalized_header)
<1>1. /\ u.attested \in Nat /\ u.finalized \in Nat /\ u.next_sync_committee \in Committees
      /\ st.finalized_header \in Nat /\ st.optimistic_header \in Nat
      /\ fin \in Nat /\ fin >= st.finalized_header /\ fin >= u.finalized
      /\ fin \in {st.finalized_header, u.finalized}
  BY UpdateFields, StoreFields, MaximumType
<1>2. /\ sp \in Nat /\ Period(u.attested) \in Nat /\ Period(u.finalized) \in Nat
      /\ Period(u.finalized) <= Period(u.attested)
      /\ u.finalized > st.finalized_header => Period(u.finalized) >= sp
      /\ Period(u.finalized) > sp => u.finalized > st.finalized_header
  BY <1>1, PeriodMonotone DEF Usable, OfChain
<1>3. /\ r \in LightClientStores
      /\ r.finalized_header = st.finalized_header
      /\ r.optimistic_header = st.optimistic_header
      /\ r.current_sync_committee = Period(fin)
      /\ r.next_sync_committee \in {None, Period(fin) + 1}
  <2>1. CASE ~is_next_sync_committee_known(st)
    <3>1. r = [st EXCEPT !.next_sync_committee = u.next_sync_committee]
      BY <2>1 DEF rotated
    <3>2. r \in LightClientStores
      BY <3>1, <1>1 DEF LightClientStores
    <3>3. /\ r.finalized_header = st.finalized_header
          /\ r.optimistic_header = st.optimistic_header
          /\ r.current_sync_committee = st.current_sync_committee
          /\ r.next_sync_committee = u.next_sync_committee
      BY <3>1 DEF LightClientStores
    <3>4. Period(u.finalized) = sp /\ Period(fin) = sp
      BY <2>1, <1>1 DEF CanApply
    <3>5. Period(u.attested) = sp
      BY <2>1, <1>2, <3>4 DEF Usable
    <3>. QED
      BY <3>2, <3>3, <3>4, <3>5 DEF Matches, Usable, OfChain
  <2>2. CASE is_next_sync_committee_known(st) /\ Period(u.finalized) = sp + 1
    <3>1. r = [st EXCEPT !.current_sync_committee = st.next_sync_committee,
                    !.next_sync_committee = u.next_sync_committee,
                    !.previous_max_active_participants = st.current_max_active_participants,
                    !.current_max_active_participants = 0]
      BY <2>2 DEF rotated
    <3>2. st.next_sync_committee = sp + 1 /\ sp + 1 \in Nat
      BY <2>2, <1>2 DEF Matches, is_next_sync_committee_known
    <3>3. r \in LightClientStores
      <4>1. st.next_sync_committee \in Nat /\ st.current_max_active_participants \in Nat
        BY <3>2, StoreFields
      <4>. HIDE DEF r
      <4>. QED
        BY <3>1, <4>1, <1>1 DEF LightClientStores
    <3>4. /\ r.finalized_header = st.finalized_header
          /\ r.optimistic_header = st.optimistic_header
          /\ r.current_sync_committee = st.next_sync_committee
          /\ r.next_sync_committee = u.next_sync_committee
      BY <3>1 DEF LightClientStores
    <3>5. fin = u.finalized
      BY <2>2, <1>1, <1>2
    <3>6. Period(u.attested) = sp + 1
      BY <2>2, <1>2 DEF Usable
    <3>. QED
      BY <2>2, <3>2, <3>3, <3>4, <3>5, <3>6 DEF Usable, OfChain
  <2>3. CASE is_next_sync_committee_known(st) /\ Period(u.finalized) # sp + 1
    <3>1. r = st
      BY <2>3 DEF rotated
    <3>2. Period(u.attested) <= sp + 1
      BY <2>3 DEF Usable
    <3>3. Period(fin) = sp
      BY <2>3, <1>1, <1>2, <3>2
    <3>. QED
      BY <3>1, <3>3 DEF Matches
  <2>. QED
    BY <2>1, <2>2, <2>3
<1>4. opt \in Nat /\ opt >= st.optimistic_header /\ opt >= fin
  <2>1. CASE u.finalized > st.finalized_header
    BY <2>1, <1>1, MaximumType
  <2>2. CASE ~(u.finalized > st.finalized_header)
    BY <2>2, <1>1
  <2>. QED
    BY <2>1, <2>2
<1>5. applied(st, u) = [r EXCEPT !.finalized_header = fin, !.optimistic_header = opt,
                                 !.best_valid_update = None]
  <2>1. r.optimistic_header = st.optimistic_header
    BY <1>3
  <2>. QED
    BY <2>1, <1>3 DEF applied, LightClientStores
<1>. HIDE DEF r, fin, opt
<1>6. /\ applied(st, u) \in LightClientStores
      /\ applied(st, u).finalized_header = fin /\ applied(st, u).optimistic_header = opt
      /\ applied(st, u).best_valid_update = None
      /\ applied(st, u).current_sync_committee = r.current_sync_committee
      /\ applied(st, u).next_sync_committee = r.next_sync_committee
  BY <1>1, <1>3, <1>4, <1>5 DEF LightClientStores
<1>. QED
  BY <1>1, <1>3, <1>4, <1>6 DEF StoreInv, Matches

----------------------------------------------------------------------------
(* Processing an update *)

(* A validated update of the chain is usable. *)
LEMMA ValidIsUsable ==
  ASSUME NEW st \in LightClientStores, NEW u \in LightClientUpdates,
         validate_light_client_update(st, u), u.next_sync_committee \in {None, Period(u.attested) + 1}
  PROVE  Usable(st, u)
<1>1. /\ u.attested \in Nat /\ u.signature \in Nat /\ u.finalized \in Nat
      /\ st.finalized_header \in Nat
  BY UpdateFields, StoreFields
<1>2. OfChain(u)
  BY DEF validate_light_client_update, OfChain
<1>3. Period(u.attested) <= Period(u.signature)
      /\ Period(u.attested) \in Nat /\ Period(u.signature) \in Nat
      /\ Period(st.finalized_header) \in Nat
  BY <1>1, <1>2, PeriodMonotone DEF OfChain
<1>4. Period(u.attested) <= Period(st.finalized_header)
                             + IF is_next_sync_committee_known(st) THEN 1 ELSE 0
  <2>1. CASE is_next_sync_committee_known(st)
    BY <2>1, <1>3 DEF validate_light_client_update
  <2>2. CASE ~is_next_sync_committee_known(st)
    BY <2>2, <1>3 DEF validate_light_client_update
  <2>. QED
    BY <2>1, <2>2
<1>. QED
  BY <1>2, <1>4 DEF Usable, validate_light_client_update

(* Noting an update changes neither the finalized header nor the committees. *)
LEMMA NotedKeeps ==
  ASSUME NEW st \in LightClientStores, NEW u \in LightClientUpdates,
         StoreInv(st), Usable(st, u)
  PROVE  /\ noted(st, u) \in LightClientStores /\ StoreInv(noted(st, u))
         /\ noted(st, u).finalized_header = st.finalized_header
         /\ noted(st, u).next_sync_committee = st.next_sync_committee
         /\ noted(st, u).optimistic_header >= st.optimistic_header
<1>. DEFINE max == Maximum(st.current_max_active_participants, u.participants)
            st1 == [st EXCEPT !.current_max_active_participants = max]
            best == IF st.best_valid_update = None \/ is_better_update(u, st.best_valid_update)
                      THEN u ELSE st.best_valid_update
            opt == IF u.participants > get_safety_threshold(st1)
                      /\ u.attested > st.optimistic_header
                     THEN u.attested ELSE st.optimistic_header
<1>1. max \in Nat
  BY UpdateFields, StoreFields, MaximumType
<1>2. /\ st1 \in LightClientStores
      /\ st1.finalized_header = st.finalized_header
      /\ st1.optimistic_header = st.optimistic_header
      /\ st1.best_valid_update = st.best_valid_update
      /\ st1.current_sync_committee = st.current_sync_committee
      /\ st1.next_sync_committee = st.next_sync_committee
  BY <1>1 DEF LightClientStores
<1>3. /\ best \in LightClientUpdates \cup {None}
      /\ best # None => Usable(st, best)
  BY StoreFields DEF StoreInv
<1>4. opt \in Nat /\ opt >= st.optimistic_header
  BY UpdateFields, StoreFields
<1>5. noted(st, u) = [st1 EXCEPT !.best_valid_update = best, !.optimistic_header = opt]
  BY <1>2 DEF noted, LightClientStores
<1>. HIDE DEF max, st1, best, opt
<1>6. /\ noted(st, u) \in LightClientStores
      /\ noted(st, u).finalized_header = st.finalized_header
      /\ noted(st, u).optimistic_header = opt
      /\ noted(st, u).best_valid_update = best
      /\ noted(st, u).current_sync_committee = st.current_sync_committee
      /\ noted(st, u).next_sync_committee = st.next_sync_committee
  BY <1>2, <1>3, <1>4, <1>5 DEF LightClientStores
<1>7. st.finalized_header \in Nat /\ st.optimistic_header \in Nat
  BY StoreFields
<1>8. best # None => Usable(noted(st, u), best)
  BY <1>3, <1>6 DEF Usable, is_next_sync_committee_known
<1>. QED
  BY <1>4, <1>6, <1>7, <1>8 DEF StoreInv, Matches

(* A normal update can be applied: the assert of apply_light_client_update holds of
   every update that process_light_client_update takes for a finalized header. *)
LEMMA NormalUpdateApplies ==
  ASSUME NEW st \in LightClientStores, NEW u \in LightClientUpdates,
         Usable(st, u), updates_finalized_header(st, u)
  PROVE  CanApply(st, u)
<1>1. /\ u.attested \in Nat /\ u.finalized \in Nat /\ st.finalized_header \in Nat
  BY UpdateFields, StoreFields
<1>2. /\ Period(u.finalized) \in Nat /\ Period(u.attested) \in Nat
      /\ Period(st.finalized_header) \in Nat
      /\ Period(u.finalized) <= Period(u.attested)
      /\ u.attested > st.finalized_header => Period(st.finalized_header) <= Period(u.attested)
      /\ u.finalized > st.finalized_header => Period(st.finalized_header) <= Period(u.finalized)
  BY <1>1, PeriodMonotone DEF Usable, OfChain
<1>. SUFFICES ASSUME ~is_next_sync_committee_known(st)
              PROVE  Period(u.finalized) = Period(st.finalized_header)
  BY DEF CanApply
<1>3. Period(u.attested) <= Period(st.finalized_header)
  BY <1>2 DEF Usable
<1>4. CASE u.finalized > st.finalized_header
  BY <1>2, <1>3, <1>4
<1>5. CASE has_sync_committee_finality(u)
  BY <1>2, <1>3, <1>5 DEF Usable, has_sync_committee_finality
<1>. QED
  BY <1>4, <1>5 DEF updates_finalized_header

(* A forced update is usable, can be applied, and brings something new. *)
LEMMA ForcedApplies ==
  ASSUME NEW st \in LightClientStores, StoreInv(st), st.best_valid_update # None
  PROVE  /\ forced(st) \in LightClientUpdates
         /\ Usable(st, forced(st)) /\ CanApply(st, forced(st))
         /\ \/ forced(st).finalized > st.finalized_header
            \/ ~is_next_sync_committee_known(st) /\ is_sync_committee_update(forced(st))
<1>. DEFINE b == st.best_valid_update
            u == forced(st)
<1>1. b \in LightClientUpdates /\ Usable(st, b)
  BY StoreFields DEF StoreInv
<1>2. /\ b.attested \in Nat /\ b.finalized \in Nat /\ st.finalized_header \in Nat
  BY <1>1, UpdateFields, StoreFields
<1>3. /\ u \in LightClientUpdates
      /\ u.attested = b.attested /\ u.signature = b.signature
      /\ u.next_sync_committee = b.next_sync_committee
      /\ u.finalized = IF b.finalized <= st.finalized_header THEN b.attested ELSE b.finalized
  <2>1. CASE b.finalized <= st.finalized_header
    <3>1. u = [b EXCEPT !.finalized = b.attested]
      BY <2>1 DEF forced
    <3>. QED
      BY <2>1, <3>1, <1>1, <1>2 DEF LightClientUpdates
  <2>2. CASE ~(b.finalized <= st.finalized_header)
    BY <2>2, <1>1 DEF forced
  <2>. QED
    BY <2>1, <2>2
<1>. HIDE DEF u, b
<1>4. Usable(st, u)
  BY <1>1, <1>2, <1>3 DEF Usable, OfChain, is_sync_committee_update
<1>5. /\ Period(u.finalized) \in Nat /\ Period(u.attested) \in Nat
      /\ Period(st.finalized_header) \in Nat
      /\ Period(u.finalized) <= Period(u.attested)
      /\ u.attested > st.finalized_header => Period(st.finalized_header) <= Period(u.attested)
      /\ u.finalized > st.finalized_header => Period(st.finalized_header) <= Period(u.finalized)
  BY <1>2, <1>3, <1>4, PeriodMonotone DEF Usable, OfChain
<1>6. CanApply(st, u)
  <2>. SUFFICES ASSUME ~is_next_sync_committee_known(st)
                PROVE  Period(u.finalized) = Period(st.finalized_header)
    BY DEF CanApply
  <2>1. Period(u.attested) <= Period(st.finalized_header)
    BY <1>4, <1>5 DEF Usable
  <2>2. CASE b.finalized <= st.finalized_header
    BY <2>1, <2>2, <1>3, <1>4, <1>5 DEF Usable
  <2>3. CASE ~(b.finalized <= st.finalized_header)
    BY <2>1, <2>3, <1>2, <1>3, <1>5
  <2>. QED
    BY <2>2, <2>3
<1>7. \/ u.finalized > st.finalized_header
      \/ ~is_next_sync_committee_known(st) /\ is_sync_committee_update(u)
  BY <1>2, <1>3, <1>4 DEF Usable
<1>. QED
  BY <1>3, <1>4, <1>6, <1>7 DEF u
----------------------------------------------------------------------------
(* The invariant *)

LEMMA UpdateType ==
  ASSUME TypeOK, NEW a \in Slots, NEW s \in Slots, NEW n \in 0..SYNC_COMMITTEE_SIZE,
         NEW c \in BOOLEAN, NEW f \in BOOLEAN
  PROVE  /\ Update(a, s, n, c, f) \in LightClientUpdates
         /\ Update(a, s, n, c, f).next_sync_committee
              \in {None, Period(Update(a, s, n, c, f).attested) + 1}
<1>. DEFINE next == IF c THEN Period(a) + 1 ELSE None
            fin == IF f THEN history[a] ELSE 0
<1>1. a \in Nat /\ s \in Nat /\ n \in Nat /\ history[a] \in Nat
  BY PeriodAssumption, CommitteeAssumption DEF TypeOK, Slots
<1>2. next \in {None, Period(a) + 1} /\ next \in Committees /\ fin \in Nat
  BY <1>1, PeriodMonotone DEF Committees
<1>3. Update(a, s, n, c, f) =
        [attested |-> a, signature |-> s, participants |-> n,
         next_sync_committee |-> next, finality |-> f, finalized |-> fin]
  BY DEF Update
<1>. HIDE DEF next, fin
<1>. QED
  BY <1>1, <1>2, <1>3 DEF LightClientUpdates

(* What every step that processes an update does to the store. *)
LEMMA ProcessKeeps ==
  ASSUME IInv, NEW u \in LightClientUpdates,
         u.next_sync_committee \in {None, Period(u.attested) + 1},
         process_light_client_update(u)
  PROVE  /\ IInv'
         /\ store'.finalized_header >= store.finalized_header
         /\ store'.optimistic_header >= store.optimistic_header
<1>. DEFINE st == noted(store, u)
<1>1. store \in LightClientStores /\ StoreInv(store) /\ Usable(store, u)
  BY ValidIsUsable DEF IInv, TypeOK, process_light_client_update
<1>2. /\ st \in LightClientStores /\ StoreInv(st)
      /\ st.finalized_header = store.finalized_header
      /\ st.next_sync_committee = store.next_sync_committee
      /\ st.optimistic_header >= store.optimistic_header
  BY <1>1, NotedKeeps
<1>3. Usable(st, u)
  BY <1>1, <1>2 DEF Usable, is_next_sync_committee_known
<1>4. /\ store' = IF updates_finalized_header(st, u) /\ CanApply(st, u)
                    THEN applied(st, u) ELSE st
      /\ current_slot' = current_slot /\ history' = history
  BY DEF process_light_client_update
<1>5. /\ store.finalized_header \in Nat /\ store.optimistic_header \in Nat
      /\ st.finalized_header \in Nat /\ st.optimistic_header \in Nat
  BY <1>1, <1>2, StoreFields
<1>. HIDE DEF st
<1>6. CASE store' = st
  BY <1>2, <1>4, <1>5, <1>6 DEF IInv, TypeOK
<1>7. CASE CanApply(st, u) /\ store' = applied(st, u)
  <2>1. /\ applied(st, u) \in LightClientStores /\ StoreInv(applied(st, u))
        /\ applied(st, u).finalized_header >= st.finalized_header
        /\ applied(st, u).optimistic_header >= st.optimistic_header
    BY <1>2, <1>3, <1>7, AppliedKeeps DEF StoreInv
  <2>2. /\ applied(st, u).finalized_header \in Nat
        /\ applied(st, u).optimistic_header \in Nat
    BY <2>1, StoreFields
  <2>. QED
    BY <2>1, <2>2, <1>2, <1>4, <1>5, <1>7 DEF IInv, TypeOK
<1>. QED
  BY <1>4, <1>6, <1>7

LEMMA ForceKeeps ==
  ASSUME IInv, process_light_client_store_force_update
  PROVE  /\ IInv'
         /\ store'.finalized_header >= store.finalized_header
         /\ store'.optimistic_header >= store.optimistic_header
<1>1. store \in LightClientStores /\ StoreInv(store) /\ store.best_valid_update # None
  BY DEF IInv, TypeOK, process_light_client_store_force_update
<1>2. /\ forced(store) \in LightClientUpdates
      /\ Usable(store, forced(store)) /\ CanApply(store, forced(store))
  BY <1>1, ForcedApplies
<1>3. /\ store' = applied(store, forced(store))
      /\ current_slot' = current_slot /\ history' = history
  BY <1>2 DEF process_light_client_store_force_update
<1>4. /\ applied(store, forced(store)) \in LightClientStores
      /\ StoreInv(applied(store, forced(store)))
      /\ applied(store, forced(store)).finalized_header >= store.finalized_header
      /\ applied(store, forced(store)).optimistic_header >= store.optimistic_header
  BY <1>1, <1>2, AppliedKeeps DEF StoreInv
<1>. QED
  BY <1>3, <1>4 DEF IInv, TypeOK

LEMMA InitInv == Init => IInv
<1>. SUFFICES ASSUME Init PROVE IInv
  OBVIOUS
<1>1. /\ current_slot \in Nat /\ history \in [Slots -> Slots]
      /\ \A s \in Slots : history[s] <= s
  BY PeriodAssumption, HistoryAssumption DEF Init, Slots
<1>2. PICK s \in Nat : store = InitialStore(s)
  BY PeriodAssumption DEF Init, Slots
<1>3. Period(s) \in Nat
  BY PeriodMonotone
<1>4. store \in LightClientStores
  BY <1>2, <1>3 DEF InitialStore, LightClientStores, Committees
<1>5. StoreInv(store)
  BY <1>2, <1>3 DEF InitialStore, StoreInv, Matches
<1>. QED
  BY <1>1, <1>4, <1>5 DEF IInv, TypeOK

(* No step breaks the invariant or takes a header back. *)
LEMMA StepKeeps ==
  ASSUME IInv, [Next]_vars
  PROVE  /\ IInv'
         /\ store'.finalized_header >= store.finalized_header
         /\ store'.optimistic_header >= store.optimistic_header
<1>1. store.finalized_header \in Nat /\ store.optimistic_header \in Nat
  BY StoreFields DEF IInv, TypeOK
<1>2. CASE UNCHANGED vars
  BY <1>1, <1>2 DEF IInv, TypeOK, vars
<1>3. CASE Tick
  BY <1>1, <1>3 DEF Tick, IInv, TypeOK
<1>4. CASE ProcessUpdate
  <2>1. PICK a \in Slots, s \in Slots, n \in 0..SYNC_COMMITTEE_SIZE,
             c \in BOOLEAN, f \in BOOLEAN :
               process_light_client_update(Update(a, s, n, c, f))
    BY <1>4, Zenon DEF ProcessUpdate
  <2>. QED
    BY <2>1, UpdateType, ProcessKeeps DEF IInv
<1>5. CASE ProcessFinalityUpdate
  <2>1. PICK a \in Slots, s \in Slots, n \in 0..SYNC_COMMITTEE_SIZE :
               process_light_client_update(Update(a, s, n, FALSE, TRUE))
    BY <1>5, Zenon DEF ProcessFinalityUpdate
  <2>. QED
    BY <2>1, UpdateType, ProcessKeeps DEF IInv
<1>6. CASE ProcessOptimisticUpdate
  <2>1. PICK a \in Slots, s \in Slots, n \in 0..SYNC_COMMITTEE_SIZE :
               process_light_client_update(Update(a, s, n, FALSE, FALSE))
    BY <1>6, Zenon DEF ProcessOptimisticUpdate
  <2>. QED
    BY <2>1, UpdateType, ProcessKeeps DEF IInv
<1>7. CASE process_light_client_store_force_update
  BY <1>7, ForceKeeps
<1>. QED
  BY <1>2, <1>3, <1>4, <1>5, <1>6, <1>7 DEF Next

(* The store is well-formed, its committees belong to its header, and the update it
   keeps for the timeout can be used, in every state that is reached. *)
THEOREM StoreSound == Spec => []IInv
<1>1. IInv /\ [Next]_vars => IInv'
  BY StepKeeps
<1>. QED
  BY InitInv, <1>1, PTL DEF Spec

(* The store never holds a committee of another period than its finalized header's
   and the one after it: apply_light_client_update rotates exactly with the header. *)
THEOREM CommitteesSound == Spec => []CommitteesMatchPeriod
<1>1. IInv => CommitteesMatchPeriod
  BY DEF IInv, StoreInv, Matches, CommitteesMatchPeriod
<1>. QED
  BY StoreSound, <1>1, PTL

(* The timeout always finds an update that apply_light_client_update accepts and that
   brings the store forward. *)
THEOREM StoredUpdateSound == Spec => []StoredUpdateIsUseful
<1>1. IInv => StoredUpdateIsUseful
  BY ForcedApplies DEF IInv, TypeOK, StoredUpdateIsUseful
<1>. QED
  BY StoreSound, <1>1, PTL

(* Late, repeated and forced updates never take a header of the store back. *)
THEOREM HeadersSound == Spec => HeadersOnlyAdvance
<1>. DEFINE Advance ==
       /\ store'.finalized_header >= store.finalized_header
       /\ store'.optimistic_header >= store.optimistic_header
       /\ store'.optimistic_header >= store'.finalized_header
<1>1. IInv /\ [Next]_vars => Advance
  <2>1. IInv' => store'.optimistic_header >= store'.finalized_header
    BY DEF IInv, StoreInv
  <2>. QED
    BY <2>1, StepKeeps
<1>2. IInv /\ [Next]_vars => [Advance]_vars
  BY <1>1
<1>3. Spec => [][Advance]_vars
  BY <1>2, StoreSound, PTL DEF Spec
<1>. QED
  BY <1>3 DEF HeadersOnlyAdvance

(* No update that process_light_client_update goes through with fails the assert of
   apply_light_client_update halfway, after it was noted. *)
ApplyNeverFails ==
  \A u \in LightClientUpdates :
    /\ u.next_sync_committee \in {None, Period(u.attested) + 1}
    /\ validate_light_client_update(store, u)
    /\ updates_finalized_header(noted(store, u), u)
    => CanApply(noted(store, u), u)

(* The assert in apply_light_client_update never fails for an update of the chain that
   was validated: a store is updated as a whole or not at all. *)
THEOREM ApplySound == Spec => []ApplyNeverFails
<1>1. IInv => ApplyNeverFails
  <2>. SUFFICES ASSUME IInv, NEW u \in LightClientUpdates,
                       u.next_sync_committee \in {None, Period(u.attested) + 1},
                       validate_light_client_update(store, u),
                       updates_finalized_header(noted(store, u), u)
                PROVE  CanApply(noted(store, u), u)
    BY DEF ApplyNeverFails
  <2>1. store \in LightClientStores /\ StoreInv(store) /\ Usable(store, u)
    BY ValidIsUsable DEF IInv, TypeOK
  <2>2. /\ noted(store, u) \in LightClientStores
        /\ noted(store, u).finalized_header = store.finalized_header
        /\ noted(store, u).next_sync_committee = store.next_sync_committee
    BY <2>1, NotedKeeps
  <2>3. Usable(noted(store, u), u)
    BY <2>1, <2>2 DEF Usable, is_next_sync_committee_known
  <2>. QED
    BY <2>2, <2>3, NormalUpdateApplies
<1>. QED
  BY StoreSound, <1>1, PTL

----------------------------------------------------------------------------
(* The order of updates *)

(* A chain of comparisons, each made when the ones before it are ties, as one formula. *)
Ranks(p, q, rest) == (p /\ ~q) \/ ((p <=> q) /\ rest)

Tiebreak(u, v) ==
  \/ u.participants > v.participants
  \/ /\ u.participants = v.participants
     /\ \/ u.attested < v.attested
        \/ u.attested = v.attested /\ u.signature < v.signature

(* The levels of is_better_update, the lowest first. *)
ByFinality(u, v) ==
  Ranks(is_finality_update(u), is_finality_update(v),
        IF is_finality_update(u)
          THEN Ranks(has_sync_committee_finality(u), has_sync_committee_finality(v), Tiebreak(u, v))
          ELSE Tiebreak(u, v))

ByCommittee(u, v) ==
  Ranks(has_relevant_sync_committee(u), has_relevant_sync_committee(v), ByFinality(u, v))

ByParticipation(u, v) ==
  Ranks(supermajority(u.participants), supermajority(v.participants),
        IF supermajority(u.participants) THEN ByCommittee(u, v)
        ELSE \/ u.participants > v.participants
             \/ u.participants = v.participants /\ ByCommittee(u, v))

LEMMA BetterByRanks ==
  ASSUME NEW u \in LightClientUpdates, NEW v \in LightClientUpdates
  PROVE  is_better_update(u, v) <=> ByParticipation(u, v)
<1>. DEFINE last == IF is_finality_update(u)
                       /\ has_sync_committee_finality(u) # has_sync_committee_finality(v)
                      THEN has_sync_committee_finality(u)
                    ELSE IF u.participants # v.participants
                      THEN u.participants > v.participants
                    ELSE IF u.attested # v.attested THEN u.attested < v.attested
                    ELSE u.signature < v.signature
            middle == CASE has_relevant_sync_committee(u) # has_relevant_sync_committee(v)
                             -> has_relevant_sync_committee(u)
                        [] has_relevant_sync_committee(u) = has_relevant_sync_committee(v)
                           /\ is_finality_update(u) # is_finality_update(v)
                             -> is_finality_update(u)
                        [] OTHER -> last
            first == CASE supermajority(u.participants) # supermajority(v.participants)
                            -> supermajority(u.participants)
                       [] supermajority(u.participants) = supermajority(v.participants)
                          /\ ~supermajority(u.participants) /\ u.participants # v.participants
                            -> u.participants > v.participants
                       [] OTHER -> middle
<1>1. /\ u.participants \in Nat /\ u.attested \in Nat /\ u.signature \in Nat
      /\ v.participants \in Nat /\ v.attested \in Nat /\ v.signature \in Nat
      /\ is_finality_update(u) \in BOOLEAN /\ is_finality_update(v) \in BOOLEAN
  BY UpdateFields DEF is_finality_update
<1>2. /\ has_sync_committee_finality(u) \in BOOLEAN /\ has_sync_committee_finality(v) \in BOOLEAN
      /\ has_relevant_sync_committee(u) \in BOOLEAN /\ has_relevant_sync_committee(v) \in BOOLEAN
      /\ supermajority(u.participants) \in BOOLEAN /\ supermajority(v.participants) \in BOOLEAN
  BY DEF has_sync_committee_finality, has_relevant_sync_committee, supermajority
<1>3. (IF u.participants # v.participants THEN u.participants > v.participants
       ELSE IF u.attested # v.attested THEN u.attested < v.attested
       ELSE u.signature < v.signature) <=> Tiebreak(u, v)
  BY <1>1 DEF Tiebreak
<1>4. (is_finality_update(u) = is_finality_update(v))
        => (last <=> ByFinality(u, v))
  BY <1>1, <1>2, <1>3 DEF ByFinality, Ranks
<1>. HIDE DEF last
<1>5. middle <=> ByCommittee(u, v)
  BY <1>1, <1>2, <1>4 DEF ByCommittee, ByFinality, Ranks
<1>. HIDE DEF middle
<1>6. first <=> ByParticipation(u, v)
  BY <1>1, <1>2, <1>5 DEF ByParticipation, Ranks
<1>7. is_better_update(u, v) <=> first
  BY DEF is_better_update, middle, last
<1>. QED
  BY <1>6, <1>7

(* is_better_update is a strict order: of the updates that reach a store in a period,
   the one that is kept is not worse than any other, whatever the order they come in. *)
THEOREM BetterIsStrictOrder ==
  ASSUME NEW u \in LightClientUpdates, NEW v \in LightClientUpdates,
         NEW w \in LightClientUpdates
  PROVE  /\ ~is_better_update(u, u)
         /\ is_better_update(u, v) /\ is_better_update(v, w) => is_better_update(u, w)
<1>1. /\ u.participants \in Nat /\ u.attested \in Nat /\ u.signature \in Nat
      /\ v.participants \in Nat /\ v.attested \in Nat /\ v.signature \in Nat
      /\ w.participants \in Nat /\ w.attested \in Nat /\ w.signature \in Nat
  BY UpdateFields
<1>2. ~Tiebreak(u, u) /\ (Tiebreak(u, v) /\ Tiebreak(v, w) => Tiebreak(u, w))
  BY <1>1 DEF Tiebreak
<1>3. ~ByFinality(u, u) /\ (ByFinality(u, v) /\ ByFinality(v, w) => ByFinality(u, w))
  BY <1>2 DEF ByFinality, Ranks
<1>4. ~ByCommittee(u, u) /\ (ByCommittee(u, v) /\ ByCommittee(v, w) => ByCommittee(u, w))
  BY <1>3 DEF ByCommittee, Ranks
<1>5. /\ ~ByParticipation(u, u)
      /\ ByParticipation(u, v) /\ ByParticipation(v, w) => ByParticipation(u, w)
  BY <1>1, <1>4 DEF ByParticipation, Ranks
<1>. QED
  BY <1>5, BetterByRanks
=============================================================================
