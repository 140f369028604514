---------------------------- MODULE FFGChain_proofs ----------------------------
(* Proofs about FFGChain for every registry, epoch length and input: the types,   *)
(* the order of the checkpoints, the sources of the pending votes, and that the   *)
(* checkpoints of the state are those of Casper FFG. The last part is about a tree *)
(* of blocks (ChainStates): its states are what ForkChoice takes them to be, and   *)
(* nothing is finalized beside another unless a third of the balance is slashable. *)
EXTENDS FFGChain, ChainStates, FiniteSetTheorems, WellFoundedInduction, TLAPS

--------------------------------------------------------------------------------
(* Slots and epochs *)

LEMMA EpochInNat ==
    ASSUME NEW slot \in Nat
    PROVE  compute_epoch_at_slot(slot) \in Nat
BY SlotsAssumption DEF compute_epoch_at_slot

LEMMA EpochOfNextSlot ==
    ASSUME NEW slot \in Nat
    PROVE  /\ compute_epoch_at_slot(slot) <= compute_epoch_at_slot(slot + 1)
           /\ IsEpochStart(slot + 1) =>
                  compute_epoch_at_slot(slot) < compute_epoch_at_slot(slot + 1)
BY SlotsAssumption DEF compute_epoch_at_slot, IsEpochStart

LEMMA RingIndex ==
    ASSUME NEW slot \in Nat
    PROVE  slot % SLOTS_PER_HISTORICAL_ROOT \in 0 .. SLOTS_PER_HISTORICAL_ROOT - 1
<1>1. SLOTS_PER_HISTORICAL_ROOT \in Nat \ {0}
  BY SlotsAssumption, HistoricalRootAssumption
<1> QED
  BY <1>1

LEMMA PreviousEpoch ==
    ASSUME NEW st, st.slot \in Nat
    PROVE  /\ get_current_epoch(st) \in Nat
           /\ get_previous_epoch(st) \in Nat
           /\ get_current_epoch(st) # 0 => get_previous_epoch(st) = get_current_epoch(st) - 1
BY EpochInNat DEF get_current_epoch, get_previous_epoch, GENESIS_EPOCH

--------------------------------------------------------------------------------
(* The checkpoint an epoch has in a state *)
LEMMA CheckpointAtType ==
    ASSUME NEW st \in StateType, NEW epoch \in Nat
    PROVE  /\ CheckpointAt(st, epoch) \in Checkpoint
           /\ CheckpointAt(st, epoch).epoch = epoch
<1>1. compute_start_slot_at_epoch(epoch) \in Nat
  BY SlotsAssumption DEF compute_start_slot_at_epoch
<1>2. compute_start_slot_at_epoch(epoch) % SLOTS_PER_HISTORICAL_ROOT
          \in 0 .. SLOTS_PER_HISTORICAL_ROOT - 1
  BY <1>1, RingIndex
<1>3. get_block_root(st, epoch) \in Nat
  BY <1>2 DEF get_block_root, get_block_root_at_slot, StateType, Root
<1> QED
  BY <1>3 DEF CheckpointAt, Checkpoint, Epoch, Root

--------------------------------------------------------------------------------
(* The order of checkpoints, of a state whose epochs before clock are processed.  *)
Ordered(st, clock) ==
    /\ st.finalized_checkpoint.epoch <= st.previous_justified_checkpoint.epoch
    /\ st.previous_justified_checkpoint.epoch <= st.current_justified_checkpoint.epoch
    /\ \/ st.current_justified_checkpoint.epoch < clock
       \/ st.current_justified_checkpoint.epoch = GENESIS_EPOCH

Checkpoints(st) ==
    <<st.finalized_checkpoint, st.previous_justified_checkpoint, st.current_justified_checkpoint>>

Advances(st, next) ==
    /\ st.finalized_checkpoint.epoch <= next.finalized_checkpoint.epoch
    /\ st.current_justified_checkpoint.epoch <= next.current_justified_checkpoint.epoch

LEMMA UpdatedBitsType ==
    ASSUME NEW bits \in [BitIndex -> BOOLEAN], NEW p \in BOOLEAN, NEW c \in BOOLEAN
    PROVE  UpdatedBits(bits, p, c) \in [BitIndex -> BOOLEAN]
<1>1. ASSUME NEW i \in BitIndex
      PROVE  (CASE i = 0 -> c [] i = 1 -> bits[0] \/ p [] OTHER -> bits[i - 1]) \in BOOLEAN
  <2>1. CASE i = 0
    BY <2>1
  <2>2. CASE i = 1
    BY <2>2 DEF BitIndex
  <2>3. CASE i # 0 /\ i # 1
    <3>1. i - 1 \in BitIndex
      BY <2>3 DEF BitIndex, JUSTIFICATION_BITS_LENGTH
    <3> QED
      BY <2>3, <3>1
  <2> QED
    BY <2>1, <2>2, <2>3
<1> QED
  BY <1>1 DEF UpdatedBits

LEMMA NewJustifiedType ==
    ASSUME NEW st \in StateType, NEW p, NEW c
    PROVE  /\ NewJustified(st, p, c) \in Checkpoint
           /\ NewJustified(st, p, c).epoch \in {get_current_epoch(st), get_previous_epoch(st),
                                                st.current_justified_checkpoint.epoch}
<1>1. st.slot \in Nat /\ st.current_justified_checkpoint \in Checkpoint
  BY DEF StateType, Slot
<1>2. get_current_epoch(st) \in Nat /\ get_previous_epoch(st) \in Nat
  BY <1>1, PreviousEpoch
<1> QED
  BY <1>1, <1>2, CheckpointAtType DEF NewJustified

(* Weighing an epoch keeps the order and takes no checkpoint back, given that the *)
(* current justified checkpoint is of an epoch before the one weighed.            *)
LEMMA WeighOrdered ==
    ASSUME NEW st \in StateType, NEW total, NEW previous, NEW current,
           get_current_epoch(st) # 0
    PROVE  LET next == weigh_justification_and_finalization(st, total, previous, current)
           IN  /\ next \in StateType
               /\ next.slot = st.slot
               /\ next.previous_justified_checkpoint = st.current_justified_checkpoint
               /\ next.current_epoch_attestations = st.current_epoch_attestations
               /\ Ordered(st, get_current_epoch(st)) =>
                    /\ Ordered(next, get_current_epoch(st) + 1)
                    /\ Advances(st, next)
<1> DEFINE next == weigh_justification_and_finalization(st, total, previous, current)
           epoch == get_current_epoch(st)
           p == IsSupermajority(previous, total)
           c == IsSupermajority(current, total)
           bits == UpdatedBits(st.justification_bits, p, c)
           justified == NewJustified(st, p, c)
           finalized == IF FinalizesOldCurrent(bits, st.current_justified_checkpoint, epoch)
                        THEN st.current_justified_checkpoint
                        ELSE IF FinalizesOldPrevious(bits, st.previous_justified_checkpoint, epoch)
                        THEN st.previous_justified_checkpoint
                        ELSE st.finalized_checkpoint
<1>1. next = [st EXCEPT !.justification_bits = bits,
                        !.previous_justified_checkpoint = st.current_justified_checkpoint,
                        !.current_justified_checkpoint = justified,
                        !.finalized_checkpoint = finalized]
  BY DEF weigh_justification_and_finalization
<1>2. p \in BOOLEAN /\ c \in BOOLEAN
  BY DEF IsSupermajority
<1>3. bits \in [BitIndex -> BOOLEAN]
  <2>1. st.justification_bits \in [BitIndex -> BOOLEAN]
    BY DEF StateType
  <2> QED
    BY <1>2, <2>1, UpdatedBitsType
<1>4. /\ justified \in Checkpoint
      /\ justified.epoch \in {epoch, get_previous_epoch(st), st.current_justified_checkpoint.epoch}
  BY NewJustifiedType
<1>5. finalized \in {st.current_justified_checkpoint, st.previous_justified_checkpoint,
                     st.finalized_checkpoint}
  OBVIOUS
<1>6. /\ st.current_justified_checkpoint \in Checkpoint
      /\ st.previous_justified_checkpoint \in Checkpoint
      /\ st.finalized_checkpoint \in Checkpoint
      /\ st.slot \in Nat
  BY DEF StateType, Slot
<1>7. epoch \in Nat /\ get_previous_epoch(st) = epoch - 1
  BY <1>6, PreviousEpoch
<1> HIDE DEF next, p, c, bits, justified, finalized
<1>8. next \in StateType /\ next.slot = st.slot
  BY <1>1, <1>3, <1>4, <1>5, <1>6 DEF StateType
<1>9. /\ next.previous_justified_checkpoint = st.current_justified_checkpoint
      /\ next.current_justified_checkpoint = justified
      /\ next.finalized_checkpoint = finalized
      /\ next.current_epoch_attestations = st.current_epoch_attestations
  BY <1>1 DEF StateType
<1>10. ASSUME Ordered(st, epoch)
       PROVE  Ordered(next, epoch + 1) /\ Advances(st, next)
  <2>1. /\ st.current_justified_checkpoint.epoch \in Nat
        /\ st.previous_justified_checkpoint.epoch \in Nat
        /\ st.finalized_checkpoint.epoch \in Nat
        /\ justified.epoch \in Nat
    BY <1>4, <1>6 DEF Checkpoint, Epoch
  <2>2. st.current_justified_checkpoint.epoch <= epoch - 1
    BY <1>7, <1>10, <2>1 DEF Ordered, GENESIS_EPOCH
  <2>3. /\ st.current_justified_checkpoint.epoch <= justified.epoch
        /\ justified.epoch <= epoch
    BY <1>4, <1>7, <2>1, <2>2
  <2>4. /\ finalized.epoch <= st.current_justified_checkpoint.epoch
        /\ st.finalized_checkpoint.epoch <= finalized.epoch
    BY <1>5, <1>10, <2>1 DEF Ordered
  <2> QED
    BY <1>7, <1>9, <2>1, <2>3, <2>4 DEF Ordered, Advances
<1> QED
  BY <1>8, <1>9, <1>10 DEF next

(* The same of the first two epochs, which are not weighed.                       *)
LEMMA JustificationOrdered ==
    ASSUME NEW st \in StateType
    PROVE  LET weighed == process_justification_and_finalization(st)
               epoch == get_current_epoch(st)
           IN  /\ weighed \in StateType
               /\ weighed.slot = st.slot
               /\ weighed.current_epoch_attestations = st.current_epoch_attestations
               /\ IF epoch <= 1
                  THEN weighed = st
                  ELSE weighed.previous_justified_checkpoint = st.current_justified_checkpoint
               /\ Ordered(st, epoch) => Ordered(weighed, epoch + 1) /\ Advances(st, weighed)
<1> DEFINE weighed == process_justification_and_finalization(st)
           epoch == get_current_epoch(st)
<1>1. /\ st.slot \in Nat
      /\ st.current_justified_checkpoint \in Checkpoint
      /\ st.previous_justified_checkpoint \in Checkpoint
      /\ st.finalized_checkpoint \in Checkpoint
  BY DEF StateType, Slot
<1>2. epoch \in Nat
  BY <1>1, PreviousEpoch
<1>3. CASE epoch <= 1
  <2>1. weighed = st
    BY <1>3 DEF process_justification_and_finalization, GENESIS_EPOCH
  <2> QED
    BY <1>1, <1>2, <1>3, <2>1 DEF Ordered, Advances, Checkpoint, Epoch, GENESIS_EPOCH
<1>4. CASE epoch > 1
  <2>1. PICK total, previous, current :
            weighed = weigh_justification_and_finalization(st, total, previous, current)
    BY <1>2, <1>4 DEF process_justification_and_finalization, GENESIS_EPOCH
  <2>2. get_current_epoch(st) # 0
    BY <1>4
  <2> QED
    BY <1>2, <1>4, <2>1, <2>2, WeighOrdered
<1> QED
  BY <1>2, <1>3, <1>4

LEMMA ProcessEpochOrdered ==
    ASSUME NEW st \in StateType
    PROVE  /\ process_epoch(st) \in StateType
           /\ process_epoch(st).slot = st.slot
           /\ process_epoch(st).previous_epoch_attestations = st.current_epoch_attestations
           /\ process_epoch(st).current_epoch_attestations = {}
           /\ Checkpoints(process_epoch(st))
                = Checkpoints(process_justification_and_finalization(st))
           /\ IF get_current_epoch(st) <= 1
              THEN /\ process_epoch(st).previous_justified_checkpoint
                        = st.previous_justified_checkpoint
                   /\ process_epoch(st).current_justified_checkpoint
                        = st.current_justified_checkpoint
              ELSE process_epoch(st).previous_justified_checkpoint
                        = st.current_justified_checkpoint
           /\ Ordered(st, get_current_epoch(st)) =>
                /\ Ordered(process_epoch(st), get_current_epoch(st) + 1)
                /\ Advances(st, process_epoch(st))
<1> DEFINE weighed == process_justification_and_finalization(st)
           epoch == get_current_epoch(st)
<1>1. /\ st.slot \in Nat
      /\ st.current_justified_checkpoint \in Checkpoint
      /\ st.previous_justified_checkpoint \in Checkpoint
      /\ st.finalized_checkpoint \in Checkpoint
  BY DEF StateType, Slot
<1>2. epoch \in Nat
  BY <1>1, PreviousEpoch
<1>3. /\ weighed \in StateType
      /\ weighed.slot = st.slot
      /\ weighed.current_epoch_attestations = st.current_epoch_attestations
      /\ IF epoch <= 1
         THEN weighed = st
         ELSE weighed.previous_justified_checkpoint = st.current_justified_checkpoint
      /\ Ordered(st, epoch) => Ordered(weighed, epoch + 1) /\ Advances(st, weighed)
  BY JustificationOrdered
<1> HIDE DEF weighed
<1>4. process_epoch(st) =
        [weighed EXCEPT !.previous_epoch_attestations = weighed.current_epoch_attestations,
                        !.current_epoch_attestations = {}]
  BY DEF process_epoch, process_participation_record_updates, weighed
<1>5. process_epoch(st) \in StateType /\ process_epoch(st).slot = st.slot
  BY <1>3, <1>4 DEF StateType
<1>6. /\ process_epoch(st).finalized_checkpoint = weighed.finalized_checkpoint
      /\ process_epoch(st).previous_justified_checkpoint = weighed.previous_justified_checkpoint
      /\ process_epoch(st).current_justified_checkpoint = weighed.current_justified_checkpoint
      /\ process_epoch(st).previous_epoch_attestations = weighed.current_epoch_attestations
      /\ process_epoch(st).current_epoch_attestations = {}
  BY <1>3, <1>4 DEF StateType
<1> QED
  BY <1>3, <1>5, <1>6 DEF Ordered, Advances, Checkpoints, weighed

LEMMA ProcessSlotType ==
    ASSUME NEW st \in StateType
    PROVE  /\ process_slot(st) \in StateType
           /\ process_slot(st).slot = st.slot
           /\ process_slot(st).finalized_checkpoint = st.finalized_checkpoint
           /\ process_slot(st).previous_justified_checkpoint = st.previous_justified_checkpoint
           /\ process_slot(st).current_justified_checkpoint = st.current_justified_checkpoint
<1> DEFINE roots == [st.block_roots EXCEPT ![st.slot % SLOTS_PER_HISTORICAL_ROOT]
                                            = st.latest_block.root]
<1>1. process_slot(st) = [st EXCEPT !.block_roots = roots]
  BY DEF process_slot, StateType
<1>2. roots \in [0 .. SLOTS_PER_HISTORICAL_ROOT - 1 -> Root]
  BY DEF StateType
<1> HIDE DEF roots
<1> QED
  BY <1>1, <1>2 DEF StateType

(* One turn of the loop of process_slots, at an epoch boundary or not.            *)
LEMMA AdvanceOneSlotOrdered ==
    ASSUME NEW st \in StateType
    PROVE  /\ AdvanceOneSlot(st) \in StateType
           /\ AdvanceOneSlot(st).slot = st.slot + 1
           /\ Ordered(st, get_current_epoch(st)) =>
                /\ Ordered(AdvanceOneSlot(st), get_current_epoch(AdvanceOneSlot(st)))
                /\ Advances(st, AdvanceOneSlot(st))
<1> DEFINE cached == process_slot(st)
           ended == IF IsEpochStart(st.slot + 1) THEN process_epoch(cached) ELSE cached
           next == AdvanceOneSlot(st)
<1>1. /\ st.slot \in Nat
      /\ st.current_justified_checkpoint \in Checkpoint
      /\ st.previous_justified_checkpoint \in Checkpoint
      /\ st.finalized_checkpoint \in Checkpoint
  BY DEF StateType, Slot
<1>2. cached \in StateType /\ cached.slot = st.slot
  BY ProcessSlotType
<1>3. ended \in StateType /\ ended.slot = st.slot
  BY <1>2, ProcessEpochOrdered
<1>4. next = [ended EXCEPT !.slot = ended.slot + 1]
  BY DEF AdvanceOneSlot
<1>5. /\ get_current_epoch(cached) = get_current_epoch(st)
      /\ Ordered(st, get_current_epoch(st)) => Ordered(cached, get_current_epoch(cached))
      /\ \A x \in StateType : Advances(cached, x) => Advances(st, x)
  BY ProcessSlotType DEF get_current_epoch, Ordered, Advances
<1> HIDE DEF cached
<1>6. ASSUME Ordered(st, get_current_epoch(st))
      PROVE  /\ Ordered(ended, IF IsEpochStart(st.slot + 1) THEN get_current_epoch(st) + 1
                                                           ELSE get_current_epoch(st))
             /\ Advances(st, ended)
  <2>1. CASE IsEpochStart(st.slot + 1)
    BY <1>2, <1>5, <1>6, <2>1, ProcessEpochOrdered
  <2>2. CASE ~IsEpochStart(st.slot + 1)
    <3>1. Advances(cached, cached)
      BY <1>2 DEF Advances, StateType, Checkpoint, Epoch
    <3> QED
      BY <1>2, <1>5, <1>6, <2>2, <3>1
  <2> QED
    BY <2>1, <2>2
<1> HIDE DEF ended
<1>7. next \in StateType /\ next.slot = st.slot + 1
  BY <1>1, <1>3, <1>4 DEF StateType, Slot
<1>8. /\ next.finalized_checkpoint = ended.finalized_checkpoint
      /\ next.previous_justified_checkpoint = ended.previous_justified_checkpoint
      /\ next.current_justified_checkpoint = ended.current_justified_checkpoint
  BY <1>3, <1>4 DEF StateType
<1>9. /\ get_current_epoch(st) \in Nat /\ get_current_epoch(next) \in Nat
      /\ get_current_epoch(st) <= get_current_epoch(next)
      /\ IsEpochStart(st.slot + 1) => get_current_epoch(st) + 1 <= get_current_epoch(next)
  BY <1>1, <1>7, EpochOfNextSlot, EpochInNat DEF get_current_epoch
<1>10. ended.current_justified_checkpoint.epoch \in Nat
  BY <1>3 DEF StateType, Checkpoint, Epoch
<1>11. Ordered(st, get_current_epoch(st)) =>
          Ordered(next, get_current_epoch(next)) /\ Advances(st, next)
  BY <1>6, <1>8, <1>9, <1>10 DEF Ordered, Advances
<1> QED
  BY <1>7, <1>11
--------------------------------------------------------------------------------
(* Blocks. The votes and the evidence a block may carry                            *)

LEMMA IncludableVoteType ==
    ASSUME state \in StateType, NEW epoch \in Nat, NEW a \in IncludableVotes(epoch)
    PROVE  PendingAttestation(a) \in PendingAttestations
<1>1. a \in VotesFor(epoch)
  BY DEF IncludableVotes
<1>2. PICK n \in 0 .. SLOTS_PER_EPOCH - 1,
           root \in {ZeroRoot, get_block_root(state, epoch)},
           source \in {state.previous_justified_checkpoint, state.current_justified_checkpoint},
           indices \in Aggregate :
        a = [slot |-> compute_start_slot_at_epoch(epoch) + n,
             beacon_block_root |-> root,
             source |-> source,
             target |-> [epoch |-> epoch, root |-> root],
             attesting_indices |-> indices]
  BY <1>1 DEF VotesFor
<1>3. root \in Root
  BY CheckpointAtType DEF CheckpointAt, Checkpoint, ZeroRoot, Root
<1>4. source \in Checkpoint
  BY DEF StateType
<1>5. indices \in SUBSET Validator
  BY InputAssumption
<1>6. PendingAttestation(a) = [source |-> source, target |-> [epoch |-> epoch, root |-> root],
                               attesting_indices |-> indices]
  BY <1>2 DEF PendingAttestation
<1> QED
  BY <1>3, <1>4, <1>5, <1>6 DEF PendingAttestations, Checkpoint, Epoch

(* What may be assumed of a block that is processed on a state.                   *)
BlockInput(st, block) ==
    /\ block.slot \in Slot /\ block.root \in Root
    /\ \A e \in block.attester_slashings : NewlySlashed(st, e) \subseteq Validator
    /\ \A a \in block.attestations :
            PendingAttestation(a) \in PendingAttestations /\ CanProcessAttestation(st, a)

(* Header and attester slashings touch nothing that concerns finality.            *)
LEMMA SlashingsType ==
    ASSUME NEW st \in StateType, NEW block, BlockInput(st, block)
    PROVE  LET next == process_attester_slashings(process_block_header(st, block),
                                                  block.attester_slashings)
           IN  /\ next \in StateType
               /\ next.slot = st.slot
               /\ Checkpoints(next) = Checkpoints(st)
               /\ next.current_epoch_attestations = st.current_epoch_attestations
               /\ next.previous_epoch_attestations = st.previous_epoch_attestations
               /\ next.justification_bits = st.justification_bits
               /\ next.block_roots = st.block_roots
               /\ next.latest_block.root = block.root
<1> DEFINE header == process_block_header(st, block)
           next == process_attester_slashings(header, block.attester_slashings)
           Same(x) == /\ x \in StateType
                      /\ x.slot = st.slot
                      /\ Checkpoints(x) = Checkpoints(st)
                      /\ x.current_epoch_attestations = st.current_epoch_attestations
                      /\ x.previous_epoch_attestations = st.previous_epoch_attestations
                      /\ x.justification_bits = st.justification_bits
                      /\ x.block_roots = st.block_roots
                      /\ x.latest_block.root = block.root
           all == header.slashed
                    \cup UNION {NewlySlashed(header, e) : e \in block.attester_slashings}
<1>1. Same(header) /\ header.slashed = st.slashed
  BY DEF process_block_header, StateType, BlockInput, Checkpoints
<1>2. \A e \in block.attester_slashings : NewlySlashed(header, e) \subseteq Validator
  BY <1>1 DEF NewlySlashed, BlockInput
<1> HIDE DEF header
<1>3. next = [header EXCEPT !.slashed = all]
  BY DEF process_attester_slashings
<1>4. all \subseteq Validator
  BY <1>1, <1>2 DEF StateType
<1> HIDE DEF all, next
<1>5. Same(next)
  BY <1>1, <1>3, <1>4 DEF StateType, Checkpoints
<1> QED
  BY <1>5 DEF next, header

(* A block adds pending votes whose source is the justified checkpoint of the     *)
(* epoch they are kept for, and leaves the checkpoints alone.                     *)
LEMMA ProcessBlockType ==
    ASSUME NEW st \in StateType, NEW block, BlockInput(st, block)
    PROVE  LET next == process_block(st, block)
           IN  /\ next \in StateType
               /\ next.slot = st.slot
               /\ Checkpoints(next) = Checkpoints(st)
               /\ next.justification_bits = st.justification_bits
               /\ next.block_roots = st.block_roots
               /\ next.latest_block.root = block.root
               /\ \A a \in next.current_epoch_attestations \ st.current_epoch_attestations :
                        /\ a.source = st.current_justified_checkpoint
                        /\ \E b \in block.attestations :
                                /\ a = PendingAttestation(b)
                                /\ b.target.epoch = get_current_epoch(st)
               /\ \A a \in next.previous_epoch_attestations \ st.previous_epoch_attestations :
                        /\ a.source = st.previous_justified_checkpoint
                        /\ \E b \in block.attestations :
                                /\ a = PendingAttestation(b)
                                /\ b.target.epoch # get_current_epoch(st)
<1> DEFINE before == process_attester_slashings(process_block_header(st, block),
                                                block.attester_slashings)
           next == process_block(st, block)
           current == {a \in block.attestations : a.target.epoch = get_current_epoch(before)}
           pending(atts) == {PendingAttestation(a) : a \in atts}
           currents == before.current_epoch_attestations \cup pending(current)
           previouses == before.previous_epoch_attestations
                           \cup pending(block.attestations \ current)
<1>1. /\ before \in StateType
      /\ before.slot = st.slot
      /\ Checkpoints(before) = Checkpoints(st)
      /\ before.current_epoch_attestations = st.current_epoch_attestations
      /\ before.previous_epoch_attestations = st.previous_epoch_attestations
      /\ before.justification_bits = st.justification_bits
      /\ before.block_roots = st.block_roots
      /\ before.latest_block.root = block.root
  BY SlashingsType
<1>2. get_current_epoch(before) = get_current_epoch(st)
  BY <1>1 DEF get_current_epoch
<1>3. next = process_attestations(before, block.attestations)
  BY DEF process_block
<1> HIDE DEF before, next
<1>4. next = [before EXCEPT !.current_epoch_attestations = currents,
                            !.previous_epoch_attestations = previouses]
  BY <1>3 DEF process_attestations
<1>5. /\ currents \subseteq PendingAttestations
      /\ previouses \subseteq PendingAttestations
  BY <1>1 DEF StateType, BlockInput
<1>6. \A a \in currents \ st.current_epoch_attestations :
          /\ a.source = st.current_justified_checkpoint
          /\ \E b \in block.attestations :
                /\ a = PendingAttestation(b)
                /\ b.target.epoch = get_current_epoch(st)
  BY <1>1, <1>2 DEF BlockInput, CanProcessAttestation, PendingAttestation
<1>7. \A a \in previouses \ st.previous_epoch_attestations :
          /\ a.source = st.previous_justified_checkpoint
          /\ \E b \in block.attestations :
                /\ a = PendingAttestation(b)
                /\ b.target.epoch # get_current_epoch(st)
  BY <1>1, <1>2 DEF BlockInput, CanProcessAttestation, PendingAttestation
<1> HIDE DEF currents, previouses
<1>8. /\ next \in StateType
      /\ next.slot = st.slot
      /\ Checkpoints(next) = Checkpoints(st)
      /\ next.current_epoch_attestations = currents
      /\ next.previous_epoch_attestations = previouses
      /\ next.justification_bits = st.justification_bits
      /\ next.block_roots = st.block_roots
      /\ next.latest_block.root = block.root
  BY <1>1, <1>4, <1>5 DEF StateType, Checkpoints
<1> QED
  BY <1>6, <1>7, <1>8 DEF next

LEMMA NewLinksType ==
    ASSUME state \in StateType
    PROVE  NewLinks \subseteq Checkpoint \X Checkpoint
<1> DEFINE pending == state.previous_epoch_attestations \cup state.current_epoch_attestations
<1>1. NewLinks \subseteq {<<a.source, a.target>> : a \in pending}
  BY DEF NewLinks
<1>2. pending \subseteq PendingAttestations
  BY DEF StateType
<1>3. \A a \in pending : a.source \in Checkpoint /\ a.target \in Checkpoint
  BY <1>2 DEF PendingAttestations
<1> QED
  BY <1>1, <1>3

--------------------------------------------------------------------------------
(* The steps *)

LEMMA BlockStep ==
    ASSUME TypeOK, ProcessBlock
    PROVE  /\ TypeOK' /\ links' = links
           /\ state'.slot = state.slot
           /\ Checkpoints(state') = Checkpoints(state)
           /\ state'.justification_bits = state.justification_bits
           /\ state'.block_roots = state.block_roots
           /\ state'.latest_block.root = RootOfSlot(state.slot)
           /\ \A a \in state'.current_epoch_attestations \ state.current_epoch_attestations :
                    /\ a.source = state.current_justified_checkpoint
                    /\ \E b \in IncludableVotes(get_current_epoch(state)) : a = PendingAttestation(b)
           /\ \A a \in state'.previous_epoch_attestations \ state.previous_epoch_attestations :
                    /\ a.source = state.previous_justified_checkpoint
                    /\ \E b \in IncludableVotes(get_previous_epoch(state)) : a = PendingAttestation(b)
<1>1. PICK slashings \in AtMostOne(AttesterSlashing),
           previous \in AtMostOne(IncludableVotes(get_previous_epoch(state))),
           current \in AtMostOne(IncludableVotes(get_current_epoch(state))) :
        /\ state' = process_block(state,
                       [slot |-> state.slot,
                        root |-> RootOfSlot(state.slot),
                        parent_root |-> state.latest_block.root,
                        proposer_index |-> get_beacon_proposer_index(state.slot),
                        attester_slashings |-> slashings,
                        attestations |-> previous \cup current])
        /\ links' = links
  BY Zenon DEF ProcessBlock
<1> DEFINE block == [slot |-> state.slot,
                     root |-> RootOfSlot(state.slot),
                     parent_root |-> state.latest_block.root,
                     proposer_index |-> get_beacon_proposer_index(state.slot),
                     attester_slashings |-> slashings,
                     attestations |-> previous \cup current]
<1>2. state \in StateType /\ state.slot \in Nat
  BY DEF TypeOK, StateType, Slot
<1>3. block.slot \in Slot /\ block.root \in Root
  BY <1>2 DEF Slot, Root, RootOfSlot
<1>4. \A e \in block.attester_slashings : NewlySlashed(state, e) \subseteq Validator
  <2>1. \A e \in block.attester_slashings : e \in AttesterSlashing
    BY DEF AtMostOne
  <2> QED
    BY <2>1, InputAssumption DEF NewlySlashed
<1>5. \A a \in block.attestations :
          PendingAttestation(a) \in PendingAttestations /\ CanProcessAttestation(state, a)
  <2>1. get_previous_epoch(state) \in Nat /\ get_current_epoch(state) \in Nat
    BY <1>2, PreviousEpoch
  <2>2. \A a \in block.attestations :
            \/ a \in IncludableVotes(get_previous_epoch(state))
            \/ a \in IncludableVotes(get_current_epoch(state))
    BY DEF AtMostOne
  <2>3. \A epoch : \A a \in IncludableVotes(epoch) : CanProcessAttestation(state, a)
    BY DEF IncludableVotes
  <2> QED
    BY <1>2, <2>1, <2>2, <2>3, IncludableVoteType
<1>6. BlockInput(state, block)
  BY <1>3, <1>4, <1>5 DEF BlockInput
<1>7. state' = process_block(state, block) /\ links' = links
  BY <1>1
<1>8. /\ block.root = RootOfSlot(state.slot)
      /\ \A b \in block.attestations :
            /\ b.target.epoch = get_current_epoch(state) =>
                    b \in IncludableVotes(get_current_epoch(state))
            /\ b.target.epoch # get_current_epoch(state) =>
                    b \in IncludableVotes(get_previous_epoch(state))
  <2>1. \A b \in block.attestations :
            \/ b \in IncludableVotes(get_previous_epoch(state))
            \/ b \in IncludableVotes(get_current_epoch(state))
    BY DEF AtMostOne
  <2>2. \A epoch : \A b \in IncludableVotes(epoch) : b.target.epoch = epoch
    BY DEF IncludableVotes, VotesFor
  <2> QED
    BY <2>1, <2>2
<1> HIDE DEF block
<1>9. /\ state' \in StateType /\ state'.slot = state.slot
      /\ Checkpoints(state') = Checkpoints(state)
      /\ state'.justification_bits = state.justification_bits
      /\ state'.block_roots = state.block_roots
      /\ state'.latest_block.root = RootOfSlot(state.slot)
  BY <1>2, <1>6, <1>7, <1>8, ProcessBlockType
<1>10. \A a \in state'.current_epoch_attestations \ state.current_epoch_attestations :
            /\ a.source = state.current_justified_checkpoint
            /\ \E b \in block.attestations :
                    a = PendingAttestation(b) /\ b.target.epoch = get_current_epoch(state)
  BY <1>2, <1>6, <1>7, ProcessBlockType
<1>11. \A a \in state'.previous_epoch_attestations \ state.previous_epoch_attestations :
            /\ a.source = state.previous_justified_checkpoint
            /\ \E b \in block.attestations :
                    a = PendingAttestation(b) /\ b.target.epoch # get_current_epoch(state)
  BY <1>2, <1>6, <1>7, ProcessBlockType
<1> QED
  BY <1>7, <1>8, <1>9, <1>10, <1>11 DEF TypeOK

LEMMA SlotStep ==
    ASSUME TypeOK, AdvanceSlot
    PROVE  /\ TypeOK'
           /\ state'.slot = state.slot + 1
           /\ CheckpointOrder => CheckpointOrder' /\ Advances(state, state')
<1>1. /\ state \in StateType
      /\ state' = AdvanceOneSlot(state)
      /\ links' \subseteq links \cup NewLinks
  BY DEF TypeOK, AdvanceSlot
<1>2. TypeOK'
  BY <1>1, AdvanceOneSlotOrdered, NewLinksType DEF TypeOK
<1>3. CheckpointOrder <=> Ordered(state, get_current_epoch(state))
  BY DEF CheckpointOrder, Ordered
<1>4. CheckpointOrder' <=> Ordered(state', get_current_epoch(state'))
  BY DEF CheckpointOrder, Ordered, get_current_epoch
<1> QED
  BY <1>1, <1>2, <1>3, <1>4, AdvanceOneSlotOrdered

LEMMA InitOrdered == Init => TypeOK /\ CheckpointOrder
<1> SUFFICES ASSUME Init
             PROVE  TypeOK /\ CheckpointOrder
  OBVIOUS
<1>1. state = GenesisState(1) /\ links = {}
  BY DEF Init, RootOfSlot, GENESIS_SLOT
<1>2. GenesisCheckpoint \in Checkpoint /\ GenesisCheckpoint.epoch = 0
  BY DEF GenesisCheckpoint, Checkpoint, Epoch, Root, GENESIS_EPOCH, ZeroRoot
<1>3. state \in StateType
  BY <1>1, <1>2 DEF GenesisState, StateType, Slot, Root, GENESIS_SLOT, ZeroRoot
<1>4. CheckpointOrder
  BY <1>1, <1>2 DEF CheckpointOrder, GenesisState, GENESIS_EPOCH
<1> QED
  BY <1>1, <1>3, <1>4 DEF TypeOK

--------------------------------------------------------------------------------
(* Every state a chain reaches has the shape of the BeaconState container: the    *)
(* shift of justification_bits keeps it at four bits, and every root the epoch    *)
(* boundary reads comes out of the ring.                                          *)
THEOREM TypeCorrect == Spec => []TypeOK
<1>1. Init => TypeOK
  BY InitOrdered
<1>2. TypeOK /\ [Next]_vars => TypeOK'
  <2> SUFFICES ASSUME TypeOK, [Next]_vars
               PROVE  TypeOK'
    OBVIOUS
  <2>1. CASE AdvanceSlot
    BY <2>1, SlotStep
  <2>2. CASE ProcessBlock
    BY <2>2, BlockStep
  <2>3. CASE UNCHANGED vars
    BY <2>3 DEF TypeOK, vars
  <2> QED
    BY <2>1, <2>2, <2>3 DEF Next
<1> QED
  BY <1>1, <1>2, PTL DEF Spec

(* What a step does to the order: inductive once the type is known.               *)
LEMMA StepOrdered ==
    ASSUME TypeOK, CheckpointOrder, [Next]_vars
    PROVE  /\ TypeOK' /\ CheckpointOrder'
           /\ Advances(state, state') /\ state.slot <= state'.slot
<1>1. /\ state.slot \in Nat
      /\ state.finalized_checkpoint.epoch \in Nat
      /\ state.current_justified_checkpoint.epoch \in Nat
  BY DEF TypeOK, StateType, Slot, Checkpoint, Epoch
<1>2. CASE AdvanceSlot
  BY <1>1, <1>2, SlotStep
<1>3. CASE ProcessBlock
  <2>1. Checkpoints(state') = Checkpoints(state) /\ state'.slot = state.slot /\ TypeOK'
    BY <1>3, BlockStep
  <2> QED
    BY <1>1, <2>1 DEF CheckpointOrder, Advances, Checkpoints, get_current_epoch
<1>4. CASE UNCHANGED vars
  BY <1>1, <1>4 DEF vars, TypeOK, CheckpointOrder, Advances, get_current_epoch
<1> QED
  BY <1>2, <1>3, <1>4 DEF Next

(* The checkpoints of every reachable state are in order, and the justified one   *)
(* is of an epoch that is over: process_justification_and_finalization never      *)
(* meets a state where its assignments would replace a checkpoint by an older one.*)
THEOREM CheckpointsOrdered == Spec => []CheckpointOrder
<1>1. Init => TypeOK /\ CheckpointOrder
  BY InitOrdered
<1>2. TypeOK /\ CheckpointOrder /\ [Next]_vars => TypeOK' /\ CheckpointOrder'
  BY StepOrdered
<1> QED
  BY <1>1, <1>2, PTL DEF Spec

(* No slot, epoch boundary or block takes justification or finality back.         *)
THEOREM FinalityNeverRegresses == Spec => FinalityAdvances
<1>1. TypeOK /\ CheckpointOrder /\ [Next]_vars
        => [/\ state.finalized_checkpoint.epoch <= state'.finalized_checkpoint.epoch
            /\ state.current_justified_checkpoint.epoch <= state'.current_justified_checkpoint.epoch
            /\ state.slot <= state'.slot]_vars
  BY StepOrdered DEF Advances
<1> QED
  BY <1>1, TypeCorrect, CheckpointsOrdered, PTL DEF Spec, FinalityAdvances
--------------------------------------------------------------------------------
(* Sources of the pending votes. Up to epoch 1 nothing is weighed and the rotation *)
(* keeps both checkpoints, so it matters that they are still equal.               *)
Sources(st) ==
    /\ \A a \in st.current_epoch_attestations : a.source = st.current_justified_checkpoint
    /\ \A a \in st.previous_epoch_attestations : a.source = st.previous_justified_checkpoint
    /\ get_current_epoch(st) <= 1 =>
           st.previous_justified_checkpoint = st.current_justified_checkpoint

LEMMA SlotSources ==
    ASSUME NEW st \in StateType, Sources(st)
    PROVE  Sources(AdvanceOneSlot(st))
<1> DEFINE cached == process_slot(st)
           ended == IF IsEpochStart(st.slot + 1) THEN process_epoch(cached) ELSE cached
           next == AdvanceOneSlot(st)
<1>1. st.slot \in Nat
  BY DEF StateType, Slot
<1>2. cached \in StateType /\ cached.slot = st.slot
  BY ProcessSlotType
<1>3. /\ cached.current_epoch_attestations = st.current_epoch_attestations
      /\ cached.previous_epoch_attestations = st.previous_epoch_attestations
  BY DEF process_slot, StateType
<1>4. get_current_epoch(cached) = get_current_epoch(st) /\ Sources(cached)
  BY <1>2, <1>3, ProcessSlotType DEF Sources, get_current_epoch
<1> HIDE DEF cached
<1>5. ended \in StateType
  BY <1>2, ProcessEpochOrdered
<1>6. next = [ended EXCEPT !.slot = ended.slot + 1]
  BY DEF AdvanceOneSlot, cached
<1>7. next.slot = st.slot + 1
  BY AdvanceOneSlotOrdered
<1>8. /\ get_current_epoch(st) \in Nat /\ get_current_epoch(next) \in Nat
      /\ get_current_epoch(st) <= get_current_epoch(next)
  BY <1>1, <1>7, EpochOfNextSlot, EpochInNat DEF get_current_epoch
<1>9. /\ \A a \in ended.current_epoch_attestations : a.source = ended.current_justified_checkpoint
      /\ \A a \in ended.previous_epoch_attestations : a.source = ended.previous_justified_checkpoint
      /\ get_current_epoch(st) <= 1 =>
             ended.previous_justified_checkpoint = ended.current_justified_checkpoint
  <2>1. CASE IsEpochStart(st.slot + 1)
    <3>1. ended = process_epoch(cached)
      BY <2>1
    <3>2. CASE get_current_epoch(st) <= 1
      BY <1>2, <1>4, <3>1, <3>2, ProcessEpochOrdered DEF Sources
    <3>3. CASE ~(get_current_epoch(st) <= 1)
      BY <1>2, <1>4, <3>1, <3>3, ProcessEpochOrdered DEF Sources
    <3> QED
      BY <3>2, <3>3
  <2>2. CASE ~IsEpochStart(st.slot + 1)
    BY <1>4, <2>2 DEF Sources
  <2> QED
    BY <2>1, <2>2
<1> HIDE DEF ended, next
<1>10. /\ next.current_epoch_attestations = ended.current_epoch_attestations
       /\ next.previous_epoch_attestations = ended.previous_epoch_attestations
       /\ next.previous_justified_checkpoint = ended.previous_justified_checkpoint
       /\ next.current_justified_checkpoint = ended.current_justified_checkpoint
  BY <1>5, <1>6 DEF StateType
<1>11. Sources(next)
  BY <1>8, <1>9, <1>10 DEF Sources
<1> QED
  BY <1>11 DEF next

LEMMA BlockSources ==
    ASSUME TypeOK, Sources(state), ProcessBlock
    PROVE  Sources(state')
<1>1. Checkpoints(state') = Checkpoints(state) /\ state'.slot = state.slot
  BY BlockStep
<1>2. /\ state'.previous_justified_checkpoint = state.previous_justified_checkpoint
      /\ state'.current_justified_checkpoint = state.current_justified_checkpoint
      /\ get_current_epoch(state') = get_current_epoch(state)
  BY <1>1 DEF Checkpoints, get_current_epoch
<1> QED
  BY <1>2, BlockStep DEF Sources

(* All votes an epoch boundary weighs share the source the finalization rules take *)
(* them to have, whatever blocks included them and however often they rotated.    *)
THEOREM PendingVotesShareSource == Spec => []PendingSources
<1>1. Init => Sources(state)
  BY DEF Init, GenesisState, Sources
<1>2. TypeOK /\ Sources(state) /\ [Next]_vars => Sources(state')
  <2> SUFFICES ASSUME TypeOK, Sources(state), [Next]_vars
               PROVE  Sources(state')
    OBVIOUS
  <2>1. CASE AdvanceSlot
    BY <2>1, SlotSources DEF TypeOK, AdvanceSlot
  <2>2. CASE ProcessBlock
    BY <2>2, BlockSources
  <2>3. CASE UNCHANGED vars
    BY <2>3 DEF vars
  <2> QED
    BY <2>1, <2>2, <2>3 DEF Next
<1>3. Sources(state) => PendingSources
  BY DEF Sources, PendingSources
<1> DEFINE Inv == Sources(state)
<1>4. Init => Inv
  BY <1>1
<1>5. TypeOK /\ Inv /\ [Next]_vars => Inv'
  BY <1>2
<1>6. Inv => PendingSources
  BY <1>3
<1> HIDE DEF Inv
<1> QED
  BY <1>4, <1>5, <1>6, TypeCorrect, PTL DEF Spec
--------------------------------------------------------------------------------
(* Casper. JustifiedBy, the smallest closed set, in the form the steps use it.    *)

LEMMA JustifiedByClosed ==
    ASSUME NEW L
    PROVE  /\ GenesisCheckpoint \in JustifiedBy(L)
           /\ \A l \in L : l[1] \in JustifiedBy(L) /\ l[2].root # ZeroRoot => l[2] \in JustifiedBy(L)
           /\ \A c \in JustifiedBy(L) :
                    c = GenesisCheckpoint \/ \E l \in L : l[2] = c /\ l[2].root # ZeroRoot
BY DEF JustifiedBy

(* More links justify more.                                                       *)
LEMMA JustifiedByMonotone ==
    ASSUME NEW L, NEW K, L \subseteq K
    PROVE  JustifiedBy(L) \subseteq JustifiedBy(K)
<1> DEFINE Ours(M) == {l \in M : l[2].root # ZeroRoot}
           Candidates(M) == {GenesisCheckpoint} \cup {l[2] : l \in Ours(M)}
           IsClosed(M, J) == GenesisCheckpoint \in J /\ \A l \in Ours(M) : l[1] \in J => l[2] \in J
<1>1. \A M : JustifiedBy(M)
                = {c \in Candidates(M) : \A J \in SUBSET Candidates(M) : IsClosed(M, J) => c \in J}
  BY DEF JustifiedBy
<1>2. Candidates(L) \subseteq Candidates(K)
  OBVIOUS
<1>3. ASSUME NEW J \in SUBSET Candidates(K), IsClosed(K, J)
      PROVE  /\ J \cap Candidates(L) \in SUBSET Candidates(L)
             /\ IsClosed(L, J \cap Candidates(L))
  BY <1>3
<1> HIDE DEF Candidates, IsClosed
<1> QED
  BY <1>1, <1>2, <1>3

(* What a set of links whose sources are justified comes to once new ones start   *)
(* from justified checkpoints, too.                                               *)
LEMMA JustifiedByMore ==
    ASSUME NEW L, NEW New,
           \A l \in L \cup New : l[1] \in JustifiedBy(L)
    PROVE  /\ JustifiedBy(L) \subseteq JustifiedBy(L \cup New)
           /\ \A l \in New : l[2].root # ZeroRoot => l[2] \in JustifiedBy(L \cup New)
           /\ \A c \in JustifiedBy(L \cup New) :
                    c \in JustifiedBy(L) \/ \E l \in New : l[2] = c /\ l[2].root # ZeroRoot
<1>1. JustifiedBy(L) \subseteq JustifiedBy(L \cup New)
  BY JustifiedByMonotone
<1>2. \A l \in New : l[2].root # ZeroRoot => l[2] \in JustifiedBy(L \cup New)
  BY <1>1, JustifiedByClosed
<1>3. ASSUME NEW c \in JustifiedBy(L \cup New), \A l \in New : ~(l[2] = c /\ l[2].root # ZeroRoot)
      PROVE  c \in JustifiedBy(L)
  <2>1. c = GenesisCheckpoint \/ \E l \in L : l[2] = c /\ l[2].root # ZeroRoot
    BY <1>3, JustifiedByClosed
  <2> QED
    BY <2>1, JustifiedByClosed
<1> QED
  BY <1>1, <1>2, <1>3

(* The finalizing links. *)
Finalizing(J, source, target) ==
    \/ target.epoch = source.epoch + 1
    \/ target.epoch = source.epoch + 2 /\ \E middle \in J : middle.epoch = source.epoch + 1

LEMMA FinalizedByMember ==
    ASSUME NEW L, NEW c
    PROVE  c \in FinalizedBy(L) <=>
                \/ c = GenesisCheckpoint
                \/ \E l \in L : /\ c = l[1] /\ l[1] \in JustifiedBy(L) /\ l[2] \in JustifiedBy(L)
                                /\ Finalizing(JustifiedBy(L), l[1], l[2])
BY DEF FinalizedBy, Finalizing

IsJustifiedEpoch(J, epoch) == \E c \in J : c.epoch = epoch

(* What a state that stands in an epoch knows of the links of the epochs before:  *)
(* every link starts from a justified checkpoint; a justification bit says of its *)
(* epoch whether Casper justifies a checkpoint of it (the genesis epoch has no     *)
(* bit); the first bit was set by votes from the checkpoint that was current then *)
(* and is previous now; and the checkpoints are the highest ones.                 *)
CasperAt(L, epoch, bits, previous, current, finalized) ==
    LET J == JustifiedBy(L)
    IN  /\ \A l \in L : l[1] \in J /\ l[2].epoch \in 1 .. epoch - 1
        /\ \A i \in BitIndex : \A n \in 1 .. epoch :
                n + 1 + i = epoch => (bits[i] <=> IsJustifiedEpoch(J, n))
        /\ bits[0] => \E l \in L : l[1] = previous /\ l[2] \in J /\ l[2].epoch + 1 = epoch
        /\ previous \in J
        /\ IsHighest(current, J)
        /\ IsHighest(finalized, FinalizedBy(L))

(* The links an epoch adds: from the previous and the current justified checkpoint *)
(* of the state to the two epochs weighed, one for each supermajority, and any for *)
(* other forks.                                                                   *)
LinksOfEpoch(New, epoch, previous, current, toPrevious, toCurrent, W) ==
    /\ \A l \in New : l[1] \in {previous, current} /\ l[2].epoch \in {epoch - 1, epoch}
    /\ \A l \in New : l[2].root # ZeroRoot =>
            \/ toPrevious \in W /\ l = <<previous, toPrevious>>
            \/ toCurrent \in W /\ l = <<current, toCurrent>>
    /\ toPrevious \in W => <<previous, toPrevious>> \in New
    /\ toCurrent \in W => <<current, toCurrent>> \in New
    /\ toPrevious.epoch = epoch - 1 /\ toPrevious.root # ZeroRoot
    /\ toCurrent.epoch = epoch /\ toCurrent.root # ZeroRoot

(* An epoch boundary: the state before it and the links it adds.                  *)
EpochBoundary(L, New, epoch, bits, next, previous, current, finalized,
              toPrevious, toCurrent, W) ==
    /\ epoch \in Nat /\ epoch >= 2
    /\ bits \in [BitIndex -> BOOLEAN] /\ next \in [BitIndex -> BOOLEAN]
    /\ (next[0] <=> toCurrent \in W) /\ (next[1] <=> bits[0] \/ toPrevious \in W)
    /\ next[2] = bits[1] /\ next[3] = bits[2]
    /\ previous.epoch \in Nat /\ current.epoch \in Nat /\ current.epoch < epoch
    /\ \A x \in JustifiedBy(L) : x.epoch \in Nat
    /\ CasperAt(L, epoch, bits, previous, current, finalized)
    /\ LinksOfEpoch(New, epoch, previous, current, toPrevious, toCurrent, W)

(* The justified epochs after the new links. *)
LEMMA JustifiedAfter ==
    ASSUME NEW L, NEW New, NEW epoch, NEW bits, NEW next, NEW previous, NEW current,
           NEW finalized, NEW toPrevious, NEW toCurrent, NEW W,
           EpochBoundary(L, New, epoch, bits, next, previous, current, finalized,
                         toPrevious, toCurrent, W)
    PROVE  LET J == JustifiedBy(L)
               K == JustifiedBy(L \cup New)
           IN  /\ J \subseteq K /\ current \in J /\ previous \in J
               /\ toPrevious \in W => toPrevious \in K
               /\ toCurrent \in W => toCurrent \in K
               /\ \A x \in K : x \in J \/ (toPrevious \in W /\ x = toPrevious) \/ (toCurrent \in W /\ x = toCurrent)
               /\ \A l \in L \cup New : l[1] \in J /\ l[2].epoch \in 1 .. epoch
<1>0. /\ epoch \in Nat /\ epoch >= 2
      /\ bits \in [BitIndex -> BOOLEAN] /\ next \in [BitIndex -> BOOLEAN]
      /\ (next[0] <=> toCurrent \in W) /\ (next[1] <=> bits[0] \/ toPrevious \in W)
      /\ next[2] = bits[1] /\ next[3] = bits[2]
      /\ previous.epoch \in Nat /\ current.epoch \in Nat /\ current.epoch < epoch
      /\ \A x \in JustifiedBy(L) : x.epoch \in Nat
      /\ CasperAt(L, epoch, bits, previous, current, finalized)
      /\ LinksOfEpoch(New, epoch, previous, current, toPrevious, toCurrent, W)
  BY DEF EpochBoundary
<1> USE <1>0
<1> DEFINE J == JustifiedBy(L)
           K == JustifiedBy(L \cup New)
<1>1. current \in J /\ previous \in J /\ \A l \in L : l[1] \in J
  BY DEF CasperAt, IsHighest
<1>2. \A l \in New : l[1] \in J
  BY <1>1 DEF LinksOfEpoch
<1>3. /\ J \subseteq K
      /\ \A l \in New : l[2].root # ZeroRoot => l[2] \in K
      /\ \A x \in K : x \in J \/ \E l \in New : l[2] = x /\ l[2].root # ZeroRoot
  <2>1. \A l \in L \cup New : l[1] \in JustifiedBy(L)
    BY <1>1, <1>2
  <2>2. J \subseteq K
    BY <2>1, JustifiedByMore
  <2>3. \A l \in New : l[2].root # ZeroRoot => l[2] \in K
    BY <2>1, JustifiedByMore
  <2>4. \A x \in K : x \in J \/ \E l \in New : l[2] = x /\ l[2].root # ZeroRoot
    BY <2>1, JustifiedByMore
  <2> QED
    BY <2>2, <2>3, <2>4
<1>4. (toPrevious \in W => toPrevious \in K) /\ (toCurrent \in W => toCurrent \in K)
  <2> HIDE DEF K
  <2>1. ASSUME toPrevious \in W PROVE toPrevious \in K
    <3>1. <<previous, toPrevious>> \in New /\ toPrevious.root # ZeroRoot
      BY <2>1 DEF LinksOfEpoch
    <3>2. <<previous, toPrevious>>[2] = toPrevious
      OBVIOUS
    <3> QED
      BY <1>3, <3>1, <3>2
  <2>2. ASSUME toCurrent \in W PROVE toCurrent \in K
    <3>1. <<current, toCurrent>> \in New /\ toCurrent.root # ZeroRoot
      BY <2>2 DEF LinksOfEpoch
    <3>2. <<current, toCurrent>>[2] = toCurrent
      OBVIOUS
    <3> QED
      BY <1>3, <3>1, <3>2
  <2> QED
    BY <2>1, <2>2
<1>5. \A x \in K : x \in J \/ (toPrevious \in W /\ x = toPrevious) \/ (toCurrent \in W /\ x = toCurrent)
  <2> HIDE DEF J, K
  <2>1. \A l \in New : l[2].root # ZeroRoot =>
            (toPrevious \in W /\ l[2] = toPrevious) \/ (toCurrent \in W /\ l[2] = toCurrent)
    BY DEF LinksOfEpoch
  <2> QED
    BY <1>3, <2>1
<1>6. \A l \in L : l[2].epoch \in 1 .. epoch - 1
  BY DEF CasperAt
<1>7. \A l \in New : l[2].epoch \in 1 .. epoch
  BY DEF LinksOfEpoch
<1>8. \A l \in L : l[2].epoch \in 1 .. epoch
  BY <1>6
<1> HIDE DEF J, K
<1>9. \A l \in L \cup New : l[1] \in J /\ l[2].epoch \in 1 .. epoch
  BY <1>1, <1>2, <1>7, <1>8
<1> QED
  BY <1>1, <1>3, <1>4, <1>5, <1>9 DEF J, K

LEMMA JustifiedEpochsAfter ==
    ASSUME NEW L, NEW New, NEW epoch, NEW bits, NEW next, NEW previous, NEW current,
           NEW finalized, NEW toPrevious, NEW toCurrent, NEW W,
           EpochBoundary(L, New, epoch, bits, next, previous, current, finalized,
                         toPrevious, toCurrent, W),
           NEW n \in Nat
    PROVE  IsJustifiedEpoch(JustifiedBy(L \cup New), n) <=>
                \/ IsJustifiedEpoch(JustifiedBy(L), n)
                \/ toPrevious \in W /\ n = epoch - 1
                \/ toCurrent \in W /\ n = epoch
<1>0. /\ epoch \in Nat /\ epoch >= 2
      /\ bits \in [BitIndex -> BOOLEAN] /\ next \in [BitIndex -> BOOLEAN]
      /\ (next[0] <=> toCurrent \in W) /\ (next[1] <=> bits[0] \/ toPrevious \in W)
      /\ next[2] = bits[1] /\ next[3] = bits[2]
      /\ previous.epoch \in Nat /\ current.epoch \in Nat /\ current.epoch < epoch
      /\ \A x \in JustifiedBy(L) : x.epoch \in Nat
      /\ CasperAt(L, epoch, bits, previous, current, finalized)
      /\ LinksOfEpoch(New, epoch, previous, current, toPrevious, toCurrent, W)
  BY DEF EpochBoundary
<1> USE <1>0
<1> DEFINE J == JustifiedBy(L)
           K == JustifiedBy(L \cup New)
<1>1. J \subseteq K /\ (toPrevious \in W => toPrevious \in K) /\ (toCurrent \in W => toCurrent \in K)
  <2>1. J \subseteq K
    BY JustifiedAfter
  <2>2. toPrevious \in W => toPrevious \in K
    BY JustifiedAfter
  <2>3. toCurrent \in W => toCurrent \in K
    BY JustifiedAfter
  <2> QED
    BY <2>1, <2>2, <2>3
<1>2. \A x \in K : x \in J \/ (toPrevious \in W /\ x = toPrevious) \/ (toCurrent \in W /\ x = toCurrent)
  BY JustifiedAfter
<1>3. toPrevious.epoch = epoch - 1 /\ toCurrent.epoch = epoch
  BY DEF LinksOfEpoch
<1> HIDE DEF J, K
<1>4. IsJustifiedEpoch(K, n) <=>
        IsJustifiedEpoch(J, n) \/ (toPrevious \in W /\ n = epoch - 1) \/ (toCurrent \in W /\ n = epoch)
  BY <1>1, <1>2, <1>3 DEF IsJustifiedEpoch
<1> QED
  BY <1>4 DEF J, K

LEMMA BitsAfter ==
    ASSUME NEW L, NEW New, NEW epoch, NEW bits, NEW next, NEW previous, NEW current,
           NEW finalized, NEW toPrevious, NEW toCurrent, NEW W,
           EpochBoundary(L, New, epoch, bits, next, previous, current, finalized,
                         toPrevious, toCurrent, W),
           NEW i \in BitIndex, NEW n \in Nat, n > 0, n + i = epoch
    PROVE  next[i] <=> IsJustifiedEpoch(JustifiedBy(L \cup New), n)
<1>0. /\ epoch \in Nat /\ epoch >= 2
      /\ bits \in [BitIndex -> BOOLEAN] /\ next \in [BitIndex -> BOOLEAN]
      /\ (next[0] <=> toCurrent \in W) /\ (next[1] <=> bits[0] \/ toPrevious \in W)
      /\ next[2] = bits[1] /\ next[3] = bits[2]
      /\ previous.epoch \in Nat /\ current.epoch \in Nat /\ current.epoch < epoch
      /\ \A x \in JustifiedBy(L) : x.epoch \in Nat
      /\ CasperAt(L, epoch, bits, previous, current, finalized)
      /\ LinksOfEpoch(New, epoch, previous, current, toPrevious, toCurrent, W)
  BY DEF EpochBoundary
<1> USE <1>0
<1> DEFINE J == JustifiedBy(L)
           K == JustifiedBy(L \cup New)
<1>1. IsJustifiedEpoch(K, n) <=>
        IsJustifiedEpoch(J, n) \/ (toPrevious \in W /\ n = epoch - 1) \/ (toCurrent \in W /\ n = epoch)
  BY JustifiedEpochsAfter
<1>2. \A j \in BitIndex : \A m \in 1 .. epoch :
            m + 1 + j = epoch => (bits[j] <=> IsJustifiedEpoch(J, m))
  BY DEF CasperAt
<1>3. i \in Nat /\ 0 \in BitIndex /\ (i # 0 => i - 1 \in BitIndex)
  BY DEF BitIndex, JUSTIFICATION_BITS_LENGTH
<1>7. i = 2 \/ i = 3 \/ i = 0 \/ i = 1
  BY DEF BitIndex, JUSTIFICATION_BITS_LENGTH
<1>4. CASE i = 0
  <2>1. next[i] <=> toCurrent \in W
    BY <1>4
  <2>2. ~IsJustifiedEpoch(J, n)
    <3>1. \A x \in J : x.epoch <= current.epoch
      BY DEF CasperAt, IsHighest
    <3>2. n = epoch
      BY <1>4
    <3> HIDE DEF J
    <3>3. \A x \in J : x.epoch # epoch
      BY <3>1
    <3> QED
      BY <3>2, <3>3 DEF IsJustifiedEpoch
  <2>3. n = epoch /\ n # epoch - 1
    BY <1>4
  <2> QED
    BY <1>1, <2>1, <2>2, <2>3
<1>5. CASE i = 1
  <2>1. next[i] <=> bits[0] \/ toPrevious \in W
    BY <1>5
  <2>2. n = epoch - 1 /\ n # epoch /\ n \in 1 .. epoch /\ n + 1 + 0 = epoch
    BY <1>5
  <2>3. bits[0] <=> IsJustifiedEpoch(J, n)
    BY <1>2, <1>3, <2>2
  <2> QED
    BY <1>1, <2>1, <2>2, <2>3
<1>6. CASE i # 0 /\ i # 1
  <2>1. next[i] = bits[i - 1]
    BY <1>6, <1>7
  <2>2. n # epoch - 1 /\ n # epoch /\ n \in 1 .. epoch /\ n + 1 + (i - 1) = epoch
    BY <1>3, <1>6
  <2>3. bits[i - 1] <=> IsJustifiedEpoch(J, n)
    BY <1>2, <1>3, <1>6, <2>2
  <2> QED
    BY <1>1, <2>1, <2>2, <2>3
<1> QED
  BY <1>4, <1>5, <1>6

(* The finalized checkpoints after the new links: the old ones, and the sources of *)
(* the two new links where these pass over justified epochs only.                 *)
LEMMA FinalizedAfter ==
    ASSUME NEW L, NEW New, NEW epoch, NEW bits, NEW next, NEW previous, NEW current,
           NEW finalized, NEW toPrevious, NEW toCurrent, NEW W,
           EpochBoundary(L, New, epoch, bits, next, previous, current, finalized,
                         toPrevious, toCurrent, W)
    PROVE  /\ FinalizedBy(L) \subseteq FinalizedBy(L \cup New)
           /\ toCurrent \in W /\ Finalizing(JustifiedBy(L \cup New), current, toCurrent)
                => current \in FinalizedBy(L \cup New)
           /\ toPrevious \in W /\ Finalizing(JustifiedBy(L \cup New), previous, toPrevious)
                => previous \in FinalizedBy(L \cup New)
           /\ \A x \in FinalizedBy(L \cup New) :
                \/ x \in FinalizedBy(L)
                \/ toCurrent \in W /\ Finalizing(JustifiedBy(L \cup New), current, toCurrent) /\ x = current
                \/ toPrevious \in W /\ Finalizing(JustifiedBy(L \cup New), previous, toPrevious) /\ x = previous
<1>0. /\ epoch \in Nat /\ epoch >= 2
      /\ bits \in [BitIndex -> BOOLEAN] /\ next \in [BitIndex -> BOOLEAN]
      /\ (next[0] <=> toCurrent \in W) /\ (next[1] <=> bits[0] \/ toPrevious \in W)
      /\ next[2] = bits[1] /\ next[3] = bits[2]
      /\ previous.epoch \in Nat /\ current.epoch \in Nat /\ current.epoch < epoch
      /\ \A x \in JustifiedBy(L) : x.epoch \in Nat
      /\ CasperAt(L, epoch, bits, previous, current, finalized)
      /\ LinksOfEpoch(New, epoch, previous, current, toPrevious, toCurrent, W)
  BY DEF EpochBoundary
<1> USE <1>0
<1> DEFINE J == JustifiedBy(L)
           K == JustifiedBy(L \cup New)
<1>1. /\ J \subseteq K /\ current \in J /\ previous \in J
      /\ toPrevious \in W => toPrevious \in K
      /\ toCurrent \in W => toCurrent \in K
  BY JustifiedAfter
<1>2. \A x \in K : x \in J \/ (toPrevious \in W /\ x = toPrevious) \/ (toCurrent \in W /\ x = toCurrent)
  BY JustifiedAfter
<1>3. \A l \in L : l[2].epoch \in 1 .. epoch - 1
  BY DEF CasperAt
<1>4. /\ toPrevious \in W => <<previous, toPrevious>> \in New
      /\ toCurrent \in W => <<current, toCurrent>> \in New
      /\ \A l \in New : l[2].root # ZeroRoot =>
            (toPrevious \in W /\ l = <<previous, toPrevious>>) \/ (toCurrent \in W /\ l = <<current, toCurrent>>)
      /\ toPrevious.epoch = epoch - 1 /\ toPrevious.root # ZeroRoot
      /\ toCurrent.epoch = epoch /\ toCurrent.root # ZeroRoot
      /\ \A l \in New : l[2].epoch \in {epoch - 1, epoch}
  BY DEF LinksOfEpoch
<1>5. \A x : /\ <<previous, x>>[1] = previous /\ <<previous, x>>[2] = x
             /\ <<current, x>>[1] = current /\ <<current, x>>[2] = x
  OBVIOUS
<1>6. \A x, y : Finalizing(J, x, y) => Finalizing(K, x, y)
  BY <1>1 DEF Finalizing
<1>7. ASSUME NEW x \in FinalizedBy(L) PROVE x \in FinalizedBy(L \cup New)
  <2>1. CASE x = GenesisCheckpoint
    BY <2>1, FinalizedByMember
  <2>2. ASSUME NEW l \in L, x = l[1], l[1] \in J, l[2] \in J, Finalizing(J, l[1], l[2])
        PROVE  x \in FinalizedBy(L \cup New)
    <3>1. l \in L \cup New /\ l[1] \in K /\ l[2] \in K /\ Finalizing(K, l[1], l[2])
      BY <1>1, <1>6, <2>2
    <3> QED
      BY <2>2, <3>1, FinalizedByMember
  <2>3. x \in FinalizedBy(L) <=>
            \/ x = GenesisCheckpoint
            \/ \E l \in L : x = l[1] /\ l[1] \in J /\ l[2] \in J /\ Finalizing(J, l[1], l[2])
    BY FinalizedByMember
  <2> HIDE DEF J
  <2> QED
    BY <1>7, <2>1, <2>2, <2>3
<1>8. ASSUME toCurrent \in W, Finalizing(K, current, toCurrent) PROVE current \in FinalizedBy(L \cup New)
  <2>1. <<current, toCurrent>> \in L \cup New /\ current \in K /\ toCurrent \in K
    BY <1>1, <1>4, <1>8
  <2> QED
    BY <1>5, <1>8, <2>1, FinalizedByMember
<1>9. ASSUME toPrevious \in W, Finalizing(K, previous, toPrevious) PROVE previous \in FinalizedBy(L \cup New)
  <2>1. <<previous, toPrevious>> \in L \cup New /\ previous \in K /\ toPrevious \in K
    BY <1>1, <1>4, <1>9
  <2> QED
    BY <1>5, <1>9, <2>1, FinalizedByMember
<1>10. GenesisCheckpoint.epoch = 0
  BY DEF GenesisCheckpoint, GENESIS_EPOCH
<1>11. \A l \in L \cup New : l[2] \in K => l[2].root # ZeroRoot
  <2>1. \A x \in K : x = GenesisCheckpoint \/ x.root # ZeroRoot
    <3>1. \A x \in K : x = GenesisCheckpoint \/ \E l \in L \cup New : l[2] = x /\ l[2].root # ZeroRoot
      BY JustifiedByClosed
    <3> QED
      BY <3>1
  <2>2. \A l \in L \cup New : l[2].epoch # 0
    BY <1>3, <1>4
  <2> QED
    BY <1>10, <2>1, <2>2
<1>12. ASSUME NEW l \in L, l[1] \in K, l[2] \in K, Finalizing(K, l[1], l[2])
       PROVE  l[1] \in FinalizedBy(L)
  <2>1. l[1] \in J /\ l[2] \in J
    <3>1. \A k \in L : k[1] \in J
      BY DEF CasperAt
    <3> QED
      BY <1>11, <1>12, <3>1, JustifiedByClosed
  <2>2. Finalizing(J, l[1], l[2])
    <3>1. CASE l[2].epoch = l[1].epoch + 1
      BY <3>1 DEF Finalizing
    <3>2. CASE l[2].epoch = l[1].epoch + 2
      <4>1. PICK middle \in K : middle.epoch = l[1].epoch + 1
        BY <1>12, <2>1, <3>2 DEF Finalizing
      <4>2. l[1].epoch \in Nat /\ l[2].epoch < epoch /\ l[2].epoch \in Nat
        BY <1>3, <2>1
      <4>3. middle.epoch < epoch - 1
        BY <3>2, <4>1, <4>2
      <4>4. middle \in J
        <5>1. middle # toPrevious /\ middle # toCurrent
          BY <1>4, <4>3
        <5> HIDE DEF J, K
        <5> QED
          BY <1>2, <5>1
      <4> QED
        BY <3>2, <4>1, <4>4 DEF Finalizing
    <3> QED
      BY <1>12, <3>1, <3>2 DEF Finalizing
  <2> QED
    BY <2>1, <2>2, FinalizedByMember
<1>13. ASSUME NEW l \in New, l[2] \in K, Finalizing(K, l[1], l[2])
       PROVE  \/ toCurrent \in W /\ Finalizing(K, current, toCurrent) /\ l[1] = current
              \/ toPrevious \in W /\ Finalizing(K, previous, toPrevious) /\ l[1] = previous
  <2>1. l[2].root # ZeroRoot
    BY <1>11, <1>13
  <2>2. \/ toCurrent \in W /\ l[1] = current /\ l[2] = toCurrent
        \/ toPrevious \in W /\ l[1] = previous /\ l[2] = toPrevious
    BY <1>4, <1>5, <2>1
  <2> HIDE DEF K
  <2> QED
    BY <1>13, <2>2
<1>14. GenesisCheckpoint \in FinalizedBy(L)
  BY FinalizedByMember
<1>15. ASSUME NEW x \in FinalizedBy(L \cup New)
       PROVE  \/ x \in FinalizedBy(L)
              \/ toCurrent \in W /\ Finalizing(K, current, toCurrent) /\ x = current
              \/ toPrevious \in W /\ Finalizing(K, previous, toPrevious) /\ x = previous
  <2>1. CASE x = GenesisCheckpoint
    BY <1>14, <2>1
  <2>2. ASSUME NEW l \in L \cup New, x = l[1], l[1] \in K, l[2] \in K, Finalizing(K, l[1], l[2])
        PROVE  \/ x \in FinalizedBy(L)
               \/ toCurrent \in W /\ Finalizing(K, current, toCurrent) /\ x = current
               \/ toPrevious \in W /\ Finalizing(K, previous, toPrevious) /\ x = previous
    <3> HIDE DEF K
    <3> QED
      BY <1>12, <1>13, <2>2
  <2> QED
    BY <2>1, <2>2, FinalizedByMember
<1> QED
  BY <1>7, <1>8, <1>9, <1>15

(* Which of the two finalization rules fires: exactly when the link it stands for *)
(* finalizes its source, the genesis checkpoint apart.                            *)
LEMMA RulesAfter ==
    ASSUME NEW L, NEW New, NEW epoch, NEW bits, NEW next, NEW previous, NEW current,
           NEW finalized, NEW toPrevious, NEW toCurrent, NEW W,
           EpochBoundary(L, New, epoch, bits, next, previous, current, finalized,
                         toPrevious, toCurrent, W)
    PROVE  /\ FinalizesOldCurrent(next, current, epoch) => current \in FinalizedBy(L \cup New)
           /\ toCurrent \in W /\ current.epoch > 0
              /\ Finalizing(JustifiedBy(L \cup New), current, toCurrent)
                => FinalizesOldCurrent(next, current, epoch)
           /\ FinalizesOldPrevious(next, previous, epoch) => previous \in FinalizedBy(L \cup New)
           /\ toPrevious \in W /\ previous.epoch > 0
              /\ Finalizing(JustifiedBy(L \cup New), previous, toPrevious)
                => FinalizesOldPrevious(next, previous, epoch)
<1>0. /\ epoch \in Nat /\ epoch >= 2
      /\ bits \in [BitIndex -> BOOLEAN] /\ next \in [BitIndex -> BOOLEAN]
      /\ (next[0] <=> toCurrent \in W) /\ (next[1] <=> bits[0] \/ toPrevious \in W)
      /\ next[2] = bits[1] /\ next[3] = bits[2]
      /\ previous.epoch \in Nat /\ current.epoch \in Nat /\ current.epoch < epoch
      /\ \A x \in JustifiedBy(L) : x.epoch \in Nat
      /\ CasperAt(L, epoch, bits, previous, current, finalized)
      /\ LinksOfEpoch(New, epoch, previous, current, toPrevious, toCurrent, W)
  BY DEF EpochBoundary
<1> USE <1>0
<1> DEFINE J == JustifiedBy(L)
           K == JustifiedBy(L \cup New)
           Just(n) == IsJustifiedEpoch(K, n)
<1>1. /\ next[0] \in BOOLEAN /\ next[1] \in BOOLEAN /\ next[2] \in BOOLEAN /\ next[3] \in BOOLEAN
      /\ 0 \in BitIndex /\ 1 \in BitIndex /\ 2 \in BitIndex /\ 3 \in BitIndex
  BY DEF BitIndex, JUSTIFICATION_BITS_LENGTH
<1>2. /\ next[0] <=> Just(epoch)
      /\ next[1] <=> Just(epoch - 1)
      /\ epoch - 2 > 0 => (next[2] <=> Just(epoch - 2))
      /\ epoch - 3 > 0 => (next[3] <=> Just(epoch - 3))
  <2>1. \A i \in BitIndex : \A n \in Nat : n > 0 /\ n + i = epoch => (next[i] <=> Just(n))
    BY BitsAfter
  <2> HIDE DEF Just
  <2>2. next[0] <=> Just(epoch)
    BY <1>1, <2>1
  <2>3. next[1] <=> Just(epoch - 1)
    <3>1. epoch - 1 \in Nat /\ epoch - 1 > 0 /\ (epoch - 1) + 1 = epoch
      OBVIOUS
    <3> QED
      BY <1>1, <2>1, <3>1
  <2>4. epoch - 2 > 0 => (next[2] <=> Just(epoch - 2))
    <3> SUFFICES ASSUME epoch - 2 > 0 PROVE next[2] <=> Just(epoch - 2)
      OBVIOUS
    <3>1. epoch - 2 \in Nat /\ (epoch - 2) + 2 = epoch
      OBVIOUS
    <3> QED
      BY <1>1, <2>1, <3>1
  <2>5. epoch - 3 > 0 => (next[3] <=> Just(epoch - 3))
    <3> SUFFICES ASSUME epoch - 3 > 0 PROVE next[3] <=> Just(epoch - 3)
      OBVIOUS
    <3>1. epoch - 3 \in Nat /\ (epoch - 3) + 3 = epoch
      OBVIOUS
    <3> QED
      BY <1>1, <2>1, <3>1
  <2> QED
    BY <2>2, <2>3, <2>4, <2>5
<1>3. (next[0] <=> toCurrent \in W) /\ (next[1] <=> bits[0] \/ toPrevious \in W)
  OBVIOUS
<1>4. /\ FinalizesOldCurrent(next, current, epoch) <=>
            \/ next[0] /\ next[1] /\ next[2] /\ current.epoch + 2 = epoch
            \/ next[0] /\ next[1] /\ current.epoch + 1 = epoch
      /\ FinalizesOldPrevious(next, previous, epoch) <=>
            \/ next[1] /\ next[2] /\ next[3] /\ previous.epoch + 3 = epoch
            \/ next[1] /\ next[2] /\ previous.epoch + 2 = epoch
  <2>1. /\ AllBits(next, 0, 3) <=> next[0] /\ next[1] /\ next[2]
        /\ AllBits(next, 0, 2) <=> next[0] /\ next[1]
        /\ AllBits(next, 1, 4) <=> next[1] /\ next[2] /\ next[3]
        /\ AllBits(next, 1, 3) <=> next[1] /\ next[2]
    <3>1. /\ 0 .. 3 - 1 = {0, 1, 2} /\ 0 .. 2 - 1 = {0, 1}
          /\ 1 .. 4 - 1 = {1, 2, 3} /\ 1 .. 3 - 1 = {1, 2}
      OBVIOUS
    <3> QED
      BY <3>1 DEF AllBits
  <2> QED
    BY <2>1 DEF FinalizesOldCurrent, FinalizesOldPrevious
<1>5. toPrevious.epoch = epoch - 1 /\ toCurrent.epoch = epoch
  BY DEF LinksOfEpoch
<1>6. /\ J \subseteq K /\ current \in J /\ previous \in J
  <2>1. J \subseteq K
    BY JustifiedAfter
  <2>2. current \in J
    BY JustifiedAfter
  <2>3. previous \in J
    BY JustifiedAfter
  <2> QED
    BY <2>1, <2>2, <2>3
<1>7. Just(current.epoch) /\ Just(previous.epoch)
  BY <1>6 DEF IsJustifiedEpoch
<1>8. /\ Finalizing(K, current, toCurrent) <=>
            \/ epoch = current.epoch + 1
            \/ epoch = current.epoch + 2 /\ Just(current.epoch + 1)
      /\ \A target : target.epoch = epoch - 1 =>
            (Finalizing(K, previous, target) <=>
                \/ epoch - 1 = previous.epoch + 1
                \/ epoch - 1 = previous.epoch + 2 /\ Just(previous.epoch + 1))
  BY <1>5 DEF Finalizing, IsJustifiedEpoch
<1>9. /\ toCurrent \in W /\ Finalizing(K, current, toCurrent)
            => current \in FinalizedBy(L \cup New)
      /\ toPrevious \in W /\ Finalizing(K, previous, toPrevious)
            => previous \in FinalizedBy(L \cup New)
  BY FinalizedAfter
<1>10. ASSUME bits[0], \A target : target.epoch = epoch - 1 => Finalizing(K, previous, target)
       PROVE  previous \in FinalizedBy(L \cup New)
  <2>1. PICK l \in L : l[1] = previous /\ l[2] \in J /\ l[2].epoch + 1 = epoch
    BY <1>10 DEF CasperAt
  <2>2. l[2].epoch = epoch - 1
    BY <1>6, <2>1
  <2>3. l \in L \cup New /\ l[1] \in K /\ l[2] \in K /\ Finalizing(K, l[1], l[2])
    BY <1>6, <1>10, <2>1, <2>2
  <2> QED
    BY <2>1, <2>3, FinalizedByMember
<1> HIDE DEF J, K, Just
<1>11. ASSUME FinalizesOldCurrent(next, current, epoch)
       PROVE  current \in FinalizedBy(L \cup New)
  <2>1. CASE current.epoch + 1 = epoch
    BY <1>3, <1>4, <1>8, <1>9, <1>11, <2>1
  <2>2. CASE current.epoch + 2 = epoch
    <3>1. epoch - 1 = current.epoch + 1 /\ Just(epoch - 1)
      BY <1>2, <1>4, <1>11, <2>2
    <3> QED
      BY <1>3, <1>4, <1>8, <1>9, <1>11, <2>2, <3>1
  <2> QED
    BY <1>4, <1>11, <2>1, <2>2
<1>12. ASSUME toCurrent \in W, Finalizing(K, current, toCurrent), current.epoch > 0
       PROVE  FinalizesOldCurrent(next, current, epoch)
  <2>1. CASE epoch = current.epoch + 1
    <3>1. current.epoch = epoch - 1
      BY <2>1
    <3>2. next[0] /\ next[1]
      BY <1>2, <1>3, <1>7, <1>12, <3>1
    <3> QED
      BY <1>4, <2>1, <3>2
  <2>2. CASE epoch = current.epoch + 2 /\ Just(current.epoch + 1)
    <3>1. current.epoch = epoch - 2 /\ current.epoch + 1 = epoch - 1 /\ epoch - 2 > 0
      BY <1>12, <2>2
    <3>2. next[0] /\ next[1] /\ next[2]
      BY <1>2, <1>3, <1>7, <1>12, <2>2, <3>1
    <3> QED
      BY <1>4, <2>2, <3>2
  <2> QED
    BY <1>8, <1>12, <2>1, <2>2
<1>13. ASSUME FinalizesOldPrevious(next, previous, epoch)
       PROVE  previous \in FinalizedBy(L \cup New)
  <2>1. \A target : target.epoch = epoch - 1 => Finalizing(K, previous, target)
    <3>1. CASE previous.epoch + 2 = epoch
      <4>1. epoch - 1 = previous.epoch + 1
        BY <3>1
      <4> QED
        BY <1>8, <4>1
    <3>2. CASE previous.epoch + 3 = epoch /\ next[2]
      <4>1. epoch - 1 = previous.epoch + 2 /\ epoch - 2 = previous.epoch + 1 /\ epoch - 2 > 0
        BY <3>2
      <4>2. Just(previous.epoch + 1)
        BY <1>2, <3>2, <4>1
      <4> QED
        BY <1>8, <4>1, <4>2
    <3> QED
      BY <1>4, <1>13, <3>1, <3>2
  <2>2. next[1]
    BY <1>4, <1>13
  <2>3. CASE bits[0]
    BY <1>10, <2>1, <2>3
  <2>4. CASE toPrevious \in W
    BY <1>5, <1>9, <2>1, <2>4
  <2> QED
    BY <1>3, <2>2, <2>3, <2>4
<1>14. ASSUME toPrevious \in W, Finalizing(K, previous, toPrevious), previous.epoch > 0
       PROVE  FinalizesOldPrevious(next, previous, epoch)
  <2>1. next[1]
    BY <1>3, <1>14
  <2>2. CASE epoch - 1 = previous.epoch + 1
    <3>1. previous.epoch = epoch - 2 /\ epoch - 2 > 0
      BY <1>14, <2>2
    <3>2. next[2]
      BY <1>2, <1>7, <3>1
    <3> QED
      BY <1>4, <2>1, <2>2, <3>2
  <2>3. CASE epoch - 1 = previous.epoch + 2 /\ Just(previous.epoch + 1)
    <3>1. previous.epoch = epoch - 3 /\ epoch - 3 > 0 /\ epoch - 2 > 0 /\ previous.epoch + 1 = epoch - 2
      BY <1>14, <2>3
    <3>2. next[2] /\ next[3]
      BY <1>2, <1>7, <2>3, <3>1
    <3> QED
      BY <1>4, <2>1, <2>3, <3>2
  <2> QED
    BY <1>5, <1>8, <1>14, <2>2, <2>3
<1> QED
  BY <1>11, <1>12, <1>13, <1>14 DEF K

(* The checkpoints weigh_justification_and_finalization takes.                    *)
JustifiedOf(W, toPrevious, toCurrent, current) ==
    IF toCurrent \in W THEN toCurrent ELSE IF toPrevious \in W THEN toPrevious ELSE current
FinalizedOf(bits, epoch, previous, current, finalized) ==
    IF FinalizesOldCurrent(bits, current, epoch) THEN current
    ELSE IF FinalizesOldPrevious(bits, previous, epoch) THEN previous
    ELSE finalized

(* One epoch boundary keeps what the state knows of the links: the bits, the two  *)
(* old checkpoints and the rules do for Casper's definition what is wanted.       *)
LEMMA CasperAfter ==
    ASSUME NEW L, NEW New, NEW epoch, NEW bits, NEW next, NEW previous, NEW current,
           NEW finalized, NEW toPrevious, NEW toCurrent, NEW W,
           EpochBoundary(L, New, epoch, bits, next, previous, current, finalized,
                         toPrevious, toCurrent, W),
           finalized.epoch \in Nat, finalized.epoch <= previous.epoch,
           previous.epoch <= current.epoch
    PROVE  CasperAt(L \cup New, epoch + 1, next, current,
                    JustifiedOf(W, toPrevious, toCurrent, current),
                    FinalizedOf(next, epoch, previous, current, finalized))
<1>0. /\ epoch \in Nat /\ epoch >= 2
      /\ next[0] <=> toCurrent \in W
      /\ previous.epoch \in Nat /\ current.epoch \in Nat /\ current.epoch < epoch
      /\ \A x \in JustifiedBy(L) : x.epoch \in Nat
      /\ CasperAt(L, epoch, bits, previous, current, finalized)
      /\ LinksOfEpoch(New, epoch, previous, current, toPrevious, toCurrent, W)
  BY DEF EpochBoundary
<1> DEFINE J == JustifiedBy(L)
           K == JustifiedBy(L \cup New)
           F == FinalizedBy(L)
           G == FinalizedBy(L \cup New)
           byCurrent == FinalizesOldCurrent(next, current, epoch)
           byPrevious == FinalizesOldPrevious(next, previous, epoch)
           justified == JustifiedOf(W, toPrevious, toCurrent, current)
           latest == FinalizedOf(next, epoch, previous, current, finalized)
<1>latest. latest = IF byCurrent THEN current ELSE IF byPrevious THEN previous ELSE finalized
  BY DEF FinalizedOf
<1>justified. justified = IF toCurrent \in W THEN toCurrent
                          ELSE IF toPrevious \in W THEN toPrevious ELSE current
  BY DEF JustifiedOf
<1>1. J \subseteq K
  BY JustifiedAfter
<1>2. current \in J
  BY JustifiedAfter
<1>3. toPrevious \in W => toPrevious \in K
  BY JustifiedAfter
<1>4. toCurrent \in W => toCurrent \in K
  BY JustifiedAfter
<1>5. \A x \in K : \/ x \in J
                   \/ toPrevious \in W /\ x = toPrevious
                   \/ toCurrent \in W /\ x = toCurrent
  BY JustifiedAfter
<1>6. \A l \in L \cup New : l[1] \in J /\ l[2].epoch \in 1 .. epoch
  BY JustifiedAfter
<1>7. \A i \in BitIndex : \A n \in Nat : n > 0 /\ n + i = epoch => (next[i] <=> IsJustifiedEpoch(K, n))
  BY BitsAfter
<1>8. F \subseteq G
  BY FinalizedAfter
<1>9. \A x \in G : \/ x \in F
                   \/ toCurrent \in W /\ Finalizing(K, current, toCurrent) /\ x = current
                   \/ toPrevious \in W /\ Finalizing(K, previous, toPrevious) /\ x = previous
  BY FinalizedAfter
<1>10. byCurrent => current \in G
  BY RulesAfter
<1>11. toCurrent \in W /\ current.epoch > 0 /\ Finalizing(K, current, toCurrent) => byCurrent
  BY RulesAfter
<1>12. byPrevious => previous \in G
  BY RulesAfter
<1>13. toPrevious \in W /\ previous.epoch > 0 /\ Finalizing(K, previous, toPrevious) => byPrevious
  BY RulesAfter
<1>14. /\ \A x \in J : x.epoch <= current.epoch
       /\ finalized \in F /\ \A x \in F : x.epoch <= finalized.epoch
  BY <1>0 DEF CasperAt, IsHighest
<1>15. /\ toPrevious.epoch = epoch - 1 /\ toCurrent.epoch = epoch
       /\ toCurrent \in W => <<current, toCurrent>> \in New
  BY <1>0 DEF LinksOfEpoch
<1> HIDE DEF J, K, F, G, byCurrent, byPrevious, justified, latest
<1>16. IsHighest(justified, K)
  <2>1. justified \in K
    BY <1>1, <1>2, <1>3, <1>4, <1>justified
  <2>2. ASSUME NEW x \in K PROVE x.epoch <= justified.epoch
    <3>1. CASE x \in J
      <4>1. x.epoch <= current.epoch /\ x.epoch \in Nat
        BY <1>0, <1>14, <3>1 DEF J
      <4> QED
        BY <1>0, <1>15, <1>justified, <4>1
    <3>2. CASE toPrevious \in W /\ x = toPrevious
      BY <1>0, <1>15, <1>justified, <3>2
    <3>3. CASE toCurrent \in W /\ x = toCurrent
      BY <1>0, <1>15, <1>justified, <3>3
    <3> QED
      BY <1>5, <3>1, <3>2, <3>3
  <2> QED
    BY <2>1, <2>2 DEF IsHighest
<1>17. IsHighest(latest, G)
  <2>1. latest \in G
    BY <1>latest, <1>8, <1>10, <1>12, <1>14
  <2>2. ASSUME NEW x \in G PROVE x.epoch <= latest.epoch
    <3>1. CASE x \in F
      <4>1. x.epoch <= finalized.epoch
        BY <1>14, <3>1
      <4>2. x.epoch \in Nat
        <5>1. x = GenesisCheckpoint \/ x \in J
          BY <3>1, FinalizedByMember DEF F, J
        <5> QED
          BY <1>0, <5>1 DEF J, GenesisCheckpoint, GENESIS_EPOCH
      <4> QED
        BY <1>0, <1>latest, <4>1, <4>2
    <3>2. CASE toCurrent \in W /\ Finalizing(K, current, toCurrent) /\ x = current
      <4>1. byCurrent \/ current.epoch = 0
        BY <1>0, <1>11, <3>2
      <4> QED
        BY <1>0, <1>latest, <3>2, <4>1
    <3>3. CASE toPrevious \in W /\ Finalizing(K, previous, toPrevious) /\ x = previous
      <4>1. byPrevious \/ previous.epoch = 0
        BY <1>0, <1>13, <3>3
      <4> QED
        BY <1>0, <1>latest, <3>3, <4>1
    <3> QED
      BY <1>9, <3>1, <3>2, <3>3
  <2> QED
    BY <2>1, <2>2 DEF IsHighest
<1>18. \A l \in L \cup New : l[1] \in K /\ l[2].epoch \in 1 .. (epoch + 1) - 1
  BY <1>0, <1>1, <1>6
<1>19. \A i \in BitIndex : \A n \in 1 .. epoch + 1 :
            n + 1 + i = epoch + 1 => (next[i] <=> IsJustifiedEpoch(K, n))
  <2> SUFFICES ASSUME NEW i \in BitIndex, NEW n \in 1 .. epoch + 1, n + 1 + i = epoch + 1
               PROVE  next[i] <=> IsJustifiedEpoch(K, n)
    OBVIOUS
  <2>1. n \in Nat /\ n > 0 /\ n + i = epoch
    BY <1>0 DEF BitIndex
  <2> QED
    BY <1>7, <2>1
<1>20. next[0] => \E l \in L \cup New : l[1] = current /\ l[2] \in K /\ l[2].epoch + 1 = epoch + 1
  <2> SUFFICES ASSUME next[0]
               PROVE  \E l \in L \cup New :
                        l[1] = current /\ l[2] \in K /\ l[2].epoch + 1 = epoch + 1
    OBVIOUS
  <2>1. toCurrent \in W
    BY <1>0
  <2>2. <<current, toCurrent>> \in L \cup New
    BY <1>15, <2>1
  <2>3. <<current, toCurrent>>[1] = current /\ <<current, toCurrent>>[2] = toCurrent
    OBVIOUS
  <2>4. toCurrent \in K /\ toCurrent.epoch + 1 = epoch + 1
    BY <1>4, <1>15, <2>1
  <2> QED
    BY <2>2, <2>3, <2>4
<1> QED
  BY <1>1, <1>2, <1>16, <1>17, <1>18, <1>19, <1>20 DEF CasperAt, K, G, justified, latest

(* Without new links the epoch may pass as long as no epoch but the genesis one   *)
(* was weighed.                                                                   *)
LEMMA CasperEarly ==
    ASSUME NEW L, NEW epoch \in Nat, epoch <= 1,
           NEW bits, \A i \in BitIndex : ~bits[i],
           NEW previous, NEW current, NEW finalized,
           CasperAt(L, epoch, bits, previous, current, finalized)
    PROVE  CasperAt(L, epoch + 1, bits, previous, current, finalized)
<1> DEFINE J == JustifiedBy(L)
<1>1. \A l \in L : l[1] \in J /\ l[2].epoch \in 1 .. epoch - 1
  BY DEF CasperAt
<1>2. L = {}
  BY <1>1
<1>3. \A x \in J : x = GenesisCheckpoint
  BY <1>2, JustifiedByClosed
<1> HIDE DEF J
<1>4. \A n \in Nat : n > 0 => ~IsJustifiedEpoch(J, n)
  BY <1>3 DEF IsJustifiedEpoch, GenesisCheckpoint, GENESIS_EPOCH
<1>5. \A i \in BitIndex : \A n \in 1 .. epoch + 1 :
            n + 1 + i = epoch + 1 => (bits[i] <=> IsJustifiedEpoch(J, n))
  BY <1>4
<1>6. 0 \in BitIndex
  BY DEF BitIndex, JUSTIFICATION_BITS_LENGTH
<1>7. previous \in J /\ IsHighest(current, J) /\ IsHighest(finalized, FinalizedBy(L))
  BY DEF CasperAt, J
<1>8. bits[0] => \E l \in L : l[1] = previous /\ l[2] \in J /\ l[2].epoch + 1 = epoch + 1
  BY <1>6
<1>9. \A l \in L : l[1] \in J /\ l[2].epoch \in 1 .. (epoch + 1) - 1
  BY <1>2
<1> QED
  BY <1>5, <1>7, <1>8, <1>9 DEF CasperAt, J

(* No votes are no supermajority, though get_total_balance has a floor.           *)
LEMMA NoVotesNoSupermajority ==
    ASSUME NEW st
    PROVE  ~IsSupermajority(get_attesting_balance(st, {}), get_total_active_balance)
<1>1. SumOfBalances({}) = 0
  <2> DEFINE Zero == [s \in SUBSET {} |-> 0]
             IsSum(f) == f = [s \in SUBSET {} |->
                                IF s = {} THEN 0
                                ELSE EffectiveBalance[CHOOSE x \in s : TRUE]
                                        + f[s \ {CHOOSE x \in s : TRUE}]]
  <2>1. IsSum(Zero)
    <3>1. \A s \in SUBSET {} : s = {}
      OBVIOUS
    <3> QED
      BY <3>1
  <2>2. IsSum(CHOOSE f : IsSum(f))
    BY <2>1
  <2>3. {} \in SUBSET {}
    OBVIOUS
  <2>4. (CHOOSE f : IsSum(f))[{}] = 0
    BY <2>2, <2>3
  <2> QED
    BY <2>4 DEF SumOfBalances, MapThenSumSet, MapThenFoldSet
<1>2. UNION {a.attesting_indices : a \in {}} \ st.slashed = {}
  OBVIOUS
<1>3. get_attesting_balance(st, {}) = get_total_balance({})
  BY <1>2 DEF get_attesting_balance, get_unslashed_attesting_indices
<1>4. get_total_balance({}) = EFFECTIVE_BALANCE_INCREMENT
  BY <1>1, RegistryAssumption DEF get_total_balance
<1> QED
  BY <1>3, <1>4, BalanceAssumption

(* The epoch of the next slot, exactly. *)
LEMMA NextSlotEpoch ==
    ASSUME NEW slot \in Nat
    PROVE  compute_epoch_at_slot(slot + 1)
             = IF IsEpochStart(slot + 1) THEN compute_epoch_at_slot(slot) + 1
                                         ELSE compute_epoch_at_slot(slot)
BY SlotsAssumption DEF compute_epoch_at_slot, IsEpochStart

(* The slots of an epoch. *)
LEMMA SlotInEpoch ==
    ASSUME NEW slot \in Nat
    PROVE  /\ compute_start_slot_at_epoch(compute_epoch_at_slot(slot)) \in Nat
           /\ compute_start_slot_at_epoch(compute_epoch_at_slot(slot)) <= slot
           /\ slot < compute_start_slot_at_epoch(compute_epoch_at_slot(slot)) + SLOTS_PER_EPOCH
BY SlotsAssumption DEF compute_start_slot_at_epoch, compute_epoch_at_slot

LEMMA StartSlots ==
    ASSUME NEW epoch \in Nat
    PROVE  /\ compute_start_slot_at_epoch(epoch) \in Nat
           /\ compute_start_slot_at_epoch(epoch + 1)
                = compute_start_slot_at_epoch(epoch) + SLOTS_PER_EPOCH
BY SlotsAssumption DEF compute_start_slot_at_epoch

(* Two slots less than a ring apart have entries of their own. *)
LEMMA RingDistinct ==
    ASSUME NEW m \in Nat, NEW n \in Nat, m < n, n < m + SLOTS_PER_HISTORICAL_ROOT
    PROVE  m % SLOTS_PER_HISTORICAL_ROOT # n % SLOTS_PER_HISTORICAL_ROOT
<1> DEFINE R == SLOTS_PER_HISTORICAL_ROOT
           a == m \div R
           b == n \div R
<1>1. R \in Nat \ {0}
  BY SlotsAssumption, HistoricalRootAssumption
<1> SUFFICES ASSUME m % R = n % R PROVE FALSE
  OBVIOUS
<1>2. /\ a \in Nat /\ m % R \in Nat /\ m = R * a + (m % R)
      /\ b \in Nat /\ n % R \in Nat /\ n = R * b + (n % R)
  BY <1>1
<1>3. /\ R * a \in Nat /\ R * b \in Nat /\ R * a < R * b /\ R * b < R * a + R
  <2>1. R * a \in Nat /\ R * b \in Nat
    BY <1>1, <1>2
  <2> HIDE DEF a, b, R
  <2> QED
    BY <1>1, <1>2, <2>1 DEF R
<1> HIDE DEF a, b, R
<1>4. a < b
  <2> SUFFICES ASSUME b <= a PROVE FALSE
    BY <1>2
  <2>1. R * b <= R * a
    BY <1>1, <1>2
  <2> QED
    BY <1>3, <2>1
<1>5. R * (a + 1) <= R * b
  BY <1>1, <1>2, <1>4
<1>6. R * (a + 1) = R * a + R
  BY <1>1, <1>2
<1> QED
  BY <1>1, <1>3, <1>5, <1>6

(* What an epoch boundary makes of bits and checkpoints. *)
PreviousWins(st) ==
    IsSupermajority(
        get_attesting_balance(st, MatchingTarget(st, st.previous_epoch_attestations,
                                                 get_previous_epoch(st))),
        get_total_active_balance)
CurrentWins(st) ==
    IsSupermajority(
        get_attesting_balance(st, MatchingTarget(st, st.current_epoch_attestations,
                                                 get_current_epoch(st))),
        get_total_active_balance)

LEMMA EpochWeighed ==
    ASSUME NEW st \in StateType, get_current_epoch(st) > 1
    PROVE  LET next == process_epoch(st)
               bits == UpdatedBits(st.justification_bits, PreviousWins(st), CurrentWins(st))
               epoch == get_current_epoch(st)
           IN  /\ next.justification_bits = bits
               /\ next.previous_justified_checkpoint = st.current_justified_checkpoint
               /\ next.current_justified_checkpoint
                    = NewJustified(st, PreviousWins(st), CurrentWins(st))
               /\ next.finalized_checkpoint =
                    IF FinalizesOldCurrent(bits, st.current_justified_checkpoint, epoch)
                    THEN st.current_justified_checkpoint
                    ELSE IF FinalizesOldPrevious(bits, st.previous_justified_checkpoint, epoch)
                    THEN st.previous_justified_checkpoint
                    ELSE st.finalized_checkpoint
               /\ next.block_roots = st.block_roots
               /\ next.latest_block = st.latest_block
<1> DEFINE p == PreviousWins(st)
           c == CurrentWins(st)
           epoch == get_current_epoch(st)
           bits == UpdatedBits(st.justification_bits, p, c)
           justified == NewJustified(st, p, c)
           finalized == IF FinalizesOldCurrent(bits, st.current_justified_checkpoint, epoch)
                        THEN st.current_justified_checkpoint
                        ELSE IF FinalizesOldPrevious(bits, st.previous_justified_checkpoint, epoch)
                        THEN st.previous_justified_checkpoint
                        ELSE st.finalized_checkpoint
           weighed == process_justification_and_finalization(st)
           next == process_epoch(st)
<1>1. epoch \in Nat /\ ~(epoch <= GENESIS_EPOCH + 1)
  BY PreviousEpoch DEF StateType, Slot, GENESIS_EPOCH
<1>2. weighed = [st EXCEPT !.justification_bits = bits,
                           !.previous_justified_checkpoint = st.current_justified_checkpoint,
                           !.current_justified_checkpoint = justified,
                           !.finalized_checkpoint = finalized]
  BY <1>1 DEF process_justification_and_finalization, weigh_justification_and_finalization,
              PreviousWins, CurrentWins
<1> HIDE DEF p, c, epoch, bits, justified, finalized, weighed
<1>3. /\ weighed.justification_bits = bits
      /\ weighed.previous_justified_checkpoint = st.current_justified_checkpoint
      /\ weighed.current_justified_checkpoint = justified
      /\ weighed.finalized_checkpoint = finalized
      /\ weighed.block_roots = st.block_roots
      /\ weighed.latest_block = st.latest_block
  BY <1>2 DEF StateType
<1>4. next = [weighed EXCEPT !.previous_epoch_attestations = weighed.current_epoch_attestations,
                             !.current_epoch_attestations = {}]
  BY DEF process_epoch, process_participation_record_updates, weighed
<1> HIDE DEF next
<1>5. /\ next.justification_bits = bits
      /\ next.previous_justified_checkpoint = st.current_justified_checkpoint
      /\ next.current_justified_checkpoint = justified
      /\ next.finalized_checkpoint = finalized
      /\ next.block_roots = st.block_roots
      /\ next.latest_block = st.latest_block
  BY <1>3, <1>4
<1> QED
  BY <1>5 DEF next, justified, finalized, bits, p, c, epoch

(* Up to epoch 1 nothing is weighed. *)
LEMMA EpochNotWeighed ==
    ASSUME NEW st \in StateType, get_current_epoch(st) <= 1
    PROVE  LET next == process_epoch(st)
           IN  /\ next.justification_bits = st.justification_bits
               /\ Checkpoints(next) = Checkpoints(st)
               /\ next.block_roots = st.block_roots
               /\ next.latest_block = st.latest_block
<1>1. process_justification_and_finalization(st) = st
  BY DEF process_justification_and_finalization, GENESIS_EPOCH
<1>2. process_epoch(st) =
        [st EXCEPT !.previous_epoch_attestations = st.current_epoch_attestations,
                   !.current_epoch_attestations = {}]
  BY <1>1 DEF process_epoch, process_participation_record_updates
<1> QED
  BY <1>2 DEF StateType, Checkpoints

--------------------------------------------------------------------------------
(* The ring of block roots and the votes that point into it                       *)

(* Every slot behind the state that the ring reaches has the root of a block.     *)
HasRoots(st) ==
    /\ st.latest_block.root # ZeroRoot
    /\ \A slot \in Nat :
            slot < st.slot /\ st.slot <= slot + SLOTS_PER_HISTORICAL_ROOT
                => get_block_root_at_slot(st, slot) # ZeroRoot

(* The pending votes are for the epoch they are kept for: for the block this      *)
(* chain has at its start or for one of another fork.                             *)
VotesAreFor(st, votes, epoch) ==
    \A a \in votes :
        /\ a.target.epoch = epoch /\ epoch # GENESIS_EPOCH
        /\ compute_start_slot_at_epoch(epoch) < st.slot
        /\ a.target.root \in {ZeroRoot, get_block_root(st, epoch)}

Targets(st) ==
    /\ VotesAreFor(st, st.current_epoch_attestations, get_current_epoch(st))
    /\ VotesAreFor(st, st.previous_epoch_attestations, get_previous_epoch(st))

(* process_slot enters the latest block and leaves the other slots alone.          *)
LEMMA CachedRing ==
    ASSUME NEW st \in StateType
    PROVE  LET cached == process_slot(st)
           IN  /\ \A slot \in Nat :
                    slot < st.slot /\ st.slot < slot + SLOTS_PER_HISTORICAL_ROOT
                        => get_block_root_at_slot(cached, slot) = get_block_root_at_slot(st, slot)
               /\ get_block_root_at_slot(cached, st.slot) = st.latest_block.root
               /\ cached.latest_block = st.latest_block
               /\ cached.slashed = st.slashed
               /\ cached.justification_bits = st.justification_bits
               /\ cached.current_epoch_attestations = st.current_epoch_attestations
               /\ cached.previous_epoch_attestations = st.previous_epoch_attestations
<1> DEFINE R == SLOTS_PER_HISTORICAL_ROOT
           cached == process_slot(st)
           roots == [st.block_roots EXCEPT ![st.slot % R] = st.latest_block.root]
<1>1. cached = [st EXCEPT !.block_roots = roots]
  BY DEF process_slot
<1>2. st.slot \in Nat /\ st.block_roots \in [0 .. R - 1 -> Root]
  BY DEF StateType, Slot
<1> HIDE DEF roots, cached
<1>3. /\ cached.block_roots = roots
      /\ cached.latest_block = st.latest_block
      /\ cached.slashed = st.slashed
      /\ cached.justification_bits = st.justification_bits
      /\ cached.current_epoch_attestations = st.current_epoch_attestations
      /\ cached.previous_epoch_attestations = st.previous_epoch_attestations
  BY <1>1 DEF StateType
<1>4. \A i \in 0 .. R - 1 : roots[i] = IF i = st.slot % R THEN st.latest_block.root
                                                          ELSE st.block_roots[i]
  BY <1>2 DEF roots
<1>5. ASSUME NEW slot \in Nat, slot < st.slot, st.slot < slot + R
      PROVE  get_block_root_at_slot(cached, slot) = get_block_root_at_slot(st, slot)
  <2>1. slot % R # st.slot % R
    BY <1>2, <1>5, RingDistinct
  <2>2. slot % R \in 0 .. R - 1
    BY RingIndex
  <2> HIDE DEF R
  <2> QED
    BY <1>3, <1>4, <2>1, <2>2 DEF get_block_root_at_slot, R
<1>6. get_block_root_at_slot(cached, st.slot) = st.latest_block.root
  <2>1. st.slot % R \in 0 .. R - 1
    BY <1>2, RingIndex
  <2> HIDE DEF R
  <2> QED
    BY <1>3, <1>4, <2>1 DEF get_block_root_at_slot, R
<1> QED
  BY <1>3, <1>5, <1>6 DEF cached

LEMMA CachedState ==
    ASSUME NEW st \in StateType, HasRoots(st)
    PROVE  LET cached == process_slot(st)
           IN  /\ \A slot \in Nat :
                    slot < st.slot /\ st.slot < slot + SLOTS_PER_HISTORICAL_ROOT
                        => get_block_root_at_slot(cached, slot) = get_block_root_at_slot(st, slot)
               /\ \A slot \in Nat :
                    slot <= st.slot /\ st.slot < slot + SLOTS_PER_HISTORICAL_ROOT
                        => get_block_root_at_slot(cached, slot) # ZeroRoot
               /\ cached.latest_block = st.latest_block
               /\ cached.slashed = st.slashed
               /\ cached.justification_bits = st.justification_bits
               /\ cached.current_epoch_attestations = st.current_epoch_attestations
               /\ cached.previous_epoch_attestations = st.previous_epoch_attestations
<1> DEFINE cached == process_slot(st)
<1>1. st.slot \in Nat
  BY DEF StateType, Slot
<1>2. ASSUME NEW slot \in Nat, slot <= st.slot, st.slot < slot + SLOTS_PER_HISTORICAL_ROOT
      PROVE  get_block_root_at_slot(cached, slot) # ZeroRoot
  <2>1. CASE slot = st.slot
    BY <2>1, CachedRing DEF HasRoots
  <2>2. CASE slot < st.slot
    <3>1. st.slot <= slot + SLOTS_PER_HISTORICAL_ROOT
      BY <1>1, <1>2, HistoricalRootAssumption
    <3>2. get_block_root_at_slot(cached, slot) = get_block_root_at_slot(st, slot)
      BY <1>2, <2>2, CachedRing
    <3> QED
      BY <1>2, <2>2, <3>1, <3>2 DEF HasRoots
  <2> QED
    BY <1>1, <1>2, <2>1, <2>2
<1> QED
  BY <1>2, CachedRing

(* The start slots of the two epochs a state has votes for are in the ring.       *)
LEMMA StartsInRing ==
    ASSUME NEW st, st.slot \in Nat
    PROVE  /\ compute_start_slot_at_epoch(get_current_epoch(st)) \in Nat
           /\ compute_start_slot_at_epoch(get_current_epoch(st)) <= st.slot
           /\ st.slot < compute_start_slot_at_epoch(get_current_epoch(st))
                            + SLOTS_PER_HISTORICAL_ROOT
           /\ compute_start_slot_at_epoch(get_previous_epoch(st)) \in Nat
           /\ compute_start_slot_at_epoch(get_previous_epoch(st)) <= st.slot
           /\ st.slot < compute_start_slot_at_epoch(get_previous_epoch(st))
                            + SLOTS_PER_HISTORICAL_ROOT
<1> DEFINE e == get_current_epoch(st)
           start(n) == compute_start_slot_at_epoch(n)
<1>1. SLOTS_PER_EPOCH \in Nat \ {0} /\ SLOTS_PER_HISTORICAL_ROOT \in Nat
      /\ SLOTS_PER_HISTORICAL_ROOT >= 2 * SLOTS_PER_EPOCH
  BY SlotsAssumption, HistoricalRootAssumption
<1>2. start(e) \in Nat /\ start(e) <= st.slot /\ st.slot < start(e) + SLOTS_PER_EPOCH
  BY SlotInEpoch DEF get_current_epoch
<1>3. e \in Nat /\ get_previous_epoch(st) \in Nat /\ (e # 0 => get_previous_epoch(st) = e - 1)
      /\ (e = 0 => get_previous_epoch(st) = e)
  BY PreviousEpoch DEF get_previous_epoch, GENESIS_EPOCH
<1>4. e # 0 => start(e - 1) \in Nat /\ start(e) = start(e - 1) + SLOTS_PER_EPOCH
  <2> SUFFICES ASSUME e # 0
               PROVE  start(e - 1) \in Nat /\ start(e) = start(e - 1) + SLOTS_PER_EPOCH
    OBVIOUS
  <2>1. e - 1 \in Nat /\ (e - 1) + 1 = e
    BY <1>3
  <2> HIDE DEF e
  <2> QED
    BY <2>1, StartSlots
<1> HIDE DEF e, start
<1>5. CASE e = 0
  <2>1. start(get_previous_epoch(st)) = start(e)
    BY <1>3, <1>5
  <2> QED
    BY <1>1, <1>2, <2>1 DEF e, start
<1>6. CASE e # 0
  <2>1. start(get_previous_epoch(st)) = start(e - 1)
    BY <1>3, <1>6
  <2>2. start(e - 1) \in Nat /\ start(e) = start(e - 1) + SLOTS_PER_EPOCH
    BY <1>4, <1>6
  <2>3. start(e - 1) <= st.slot /\ st.slot < start(e - 1) + SLOTS_PER_HISTORICAL_ROOT
        /\ st.slot < start(e) + SLOTS_PER_HISTORICAL_ROOT
    BY <1>1, <1>2, <2>2
  <2> QED
    BY <1>2, <2>1, <2>2, <2>3 DEF e, start
<1> QED
  BY <1>5, <1>6

(* What a turn of the loop keeps of the state it may have processed the epoch of. *)
Kept(st) ==
    <<st.justification_bits, st.finalized_checkpoint, st.previous_justified_checkpoint,
      st.current_justified_checkpoint, st.block_roots, st.latest_block,
      st.previous_epoch_attestations, st.current_epoch_attestations>>

LEMMA AdvancedKeeps ==
    ASSUME NEW st \in StateType
    PROVE  LET cached == process_slot(st)
           IN  /\ IsEpochStart(st.slot + 1) => Kept(AdvanceOneSlot(st)) = Kept(process_epoch(cached))
               /\ ~IsEpochStart(st.slot + 1) => Kept(AdvanceOneSlot(st)) = Kept(cached)
<1> DEFINE cached == process_slot(st)
           ended == IF IsEpochStart(st.slot + 1) THEN process_epoch(cached) ELSE cached
           next == AdvanceOneSlot(st)
<1>1. cached \in StateType
  BY ProcessSlotType
<1> HIDE DEF cached
<1>2. ended \in StateType
  BY <1>1, ProcessEpochOrdered
<1>3. next = [ended EXCEPT !.slot = ended.slot + 1]
  BY DEF AdvanceOneSlot, cached
<1> HIDE DEF ended, next
<1>4. Kept(next) = Kept(ended)
  BY <1>2, <1>3 DEF StateType, Kept
<1> QED
  BY <1>4 DEF ended, next, cached

LEMMA AdvancedRoots ==
    ASSUME NEW st \in StateType
    PROVE  LET cached == process_slot(st)
               next == AdvanceOneSlot(st)
           IN  /\ next.block_roots = cached.block_roots
               /\ next.latest_block = cached.latest_block
               /\ IsEpochStart(st.slot + 1) =>
                    /\ next.current_epoch_attestations = {}
                    /\ next.previous_epoch_attestations = cached.current_epoch_attestations
               /\ ~IsEpochStart(st.slot + 1) =>
                    /\ next.current_epoch_attestations = cached.current_epoch_attestations
                    /\ next.previous_epoch_attestations = cached.previous_epoch_attestations
<1> DEFINE cached == process_slot(st)
           next == AdvanceOneSlot(st)
<1>1. cached \in StateType
  BY ProcessSlotType
<1>2. /\ IsEpochStart(st.slot + 1) => Kept(next) = Kept(process_epoch(cached))
      /\ ~IsEpochStart(st.slot + 1) => Kept(next) = Kept(cached)
  BY AdvancedKeeps
<1> HIDE DEF cached, next
<1>3. /\ process_epoch(cached).block_roots = cached.block_roots
      /\ process_epoch(cached).latest_block = cached.latest_block
  <2>1. CASE get_current_epoch(cached) <= 1
    BY <1>1, <2>1, EpochNotWeighed
  <2>2. CASE get_current_epoch(cached) > 1
    BY <1>1, <2>2, EpochWeighed
  <2>3. get_current_epoch(cached) \in Nat
    BY <1>1, PreviousEpoch DEF StateType, Slot
  <2> QED
    BY <2>1, <2>2, <2>3
<1>4. /\ process_epoch(cached).previous_epoch_attestations = cached.current_epoch_attestations
      /\ process_epoch(cached).current_epoch_attestations = {}
  BY <1>1, ProcessEpochOrdered
<1>5. CASE IsEpochStart(st.slot + 1)
  BY <1>2, <1>3, <1>4, <1>5 DEF Kept, cached, next
<1>6. CASE ~IsEpochStart(st.slot + 1)
  BY <1>2, <1>6 DEF Kept, cached, next
<1> QED
  BY <1>5, <1>6

LEMMA SlotTargets ==
    ASSUME NEW st \in StateType, HasRoots(st), Targets(st)
    PROVE  HasRoots(AdvanceOneSlot(st)) /\ Targets(AdvanceOneSlot(st))
<1> DEFINE cached == process_slot(st)
           next == AdvanceOneSlot(st)
           e == get_current_epoch(st)
           start(n) == compute_start_slot_at_epoch(n)
<1>1. st.slot \in Nat /\ next.slot = st.slot + 1
  BY AdvanceOneSlotOrdered DEF StateType, Slot
<1>2. \A slot \in Nat : slot < st.slot /\ st.slot < slot + SLOTS_PER_HISTORICAL_ROOT
            => get_block_root_at_slot(next, slot) = get_block_root_at_slot(st, slot)
  <2>1. \A slot \in Nat : slot < st.slot /\ st.slot < slot + SLOTS_PER_HISTORICAL_ROOT
            => get_block_root_at_slot(cached, slot) = get_block_root_at_slot(st, slot)
    BY CachedState
  <2>2. next.block_roots = cached.block_roots
    BY AdvancedRoots
  <2> QED
    BY <2>1, <2>2 DEF get_block_root_at_slot
<1>3. HasRoots(next)
  <2>1. \A slot \in Nat : slot <= st.slot /\ st.slot < slot + SLOTS_PER_HISTORICAL_ROOT
            => get_block_root_at_slot(cached, slot) # ZeroRoot
    BY CachedState
  <2>2. next.block_roots = cached.block_roots
    BY AdvancedRoots
  <2>3. next.latest_block = cached.latest_block
    BY AdvancedRoots
  <2>4. cached.latest_block = st.latest_block
    BY CachedState
  <2>5. \A slot \in Nat : slot <= st.slot /\ st.slot < slot + SLOTS_PER_HISTORICAL_ROOT
            => get_block_root_at_slot(next, slot) # ZeroRoot
    BY <2>1, <2>2 DEF get_block_root_at_slot
  <2> HIDE DEF next, cached
  <2>6. SLOTS_PER_HISTORICAL_ROOT \in Nat
    BY HistoricalRootAssumption
  <2>7. \A slot \in Nat : slot < next.slot /\ next.slot <= slot + SLOTS_PER_HISTORICAL_ROOT
            => slot <= st.slot /\ st.slot < slot + SLOTS_PER_HISTORICAL_ROOT
    BY <1>1, <2>6
  <2> QED
    BY <2>3, <2>4, <2>5, <2>7 DEF HasRoots
<1>4. ASSUME NEW votes, NEW n \in {e, get_previous_epoch(st)}, VotesAreFor(st, votes, n)
      PROVE  VotesAreFor(next, votes, n)
  <2>1. start(n) \in Nat /\ st.slot < start(n) + SLOTS_PER_HISTORICAL_ROOT
    BY <1>1, StartsInRing
  <2>2. start(n) < st.slot => get_block_root(next, n) = get_block_root(st, n)
    BY <1>2, <2>1 DEF get_block_root
  <2>3. start(n) < st.slot => start(n) < next.slot
    BY <1>1, <2>1
  <2> HIDE DEF next, start
  <2> QED
    BY <1>4, <2>2, <2>3 DEF VotesAreFor, start
<1>5. /\ VotesAreFor(st, st.current_epoch_attestations, e)
      /\ VotesAreFor(st, st.previous_epoch_attestations, get_previous_epoch(st))
  BY DEF Targets
<1>6. /\ cached.current_epoch_attestations = st.current_epoch_attestations
      /\ cached.previous_epoch_attestations = st.previous_epoch_attestations
  <2>1. cached.current_epoch_attestations = st.current_epoch_attestations
    BY CachedState
  <2>2. cached.previous_epoch_attestations = st.previous_epoch_attestations
    BY CachedState
  <2> QED
    BY <2>1, <2>2
<1>7. get_current_epoch(next) = IF IsEpochStart(st.slot + 1) THEN e + 1 ELSE e
  BY <1>1, NextSlotEpoch DEF get_current_epoch
<1>8. e \in Nat
  BY <1>1, PreviousEpoch
<1>9. CASE IsEpochStart(st.slot + 1)
  <2>1. /\ next.current_epoch_attestations = {}
        /\ next.previous_epoch_attestations = st.current_epoch_attestations
    BY <1>6, <1>9, AdvancedRoots
  <2>2. get_previous_epoch(next) = e
    BY <1>7, <1>8, <1>9 DEF get_previous_epoch, GENESIS_EPOCH
  <2>3. VotesAreFor(next, st.current_epoch_attestations, e)
    BY <1>4, <1>5
  <2> HIDE DEF next
  <2>4. VotesAreFor(next, next.previous_epoch_attestations, get_previous_epoch(next))
    BY <2>1, <2>2, <2>3
  <2>5. VotesAreFor(next, next.current_epoch_attestations, get_current_epoch(next))
    BY <2>1 DEF VotesAreFor
  <2> QED
    BY <1>3, <2>4, <2>5 DEF Targets, next
<1>10. CASE ~IsEpochStart(st.slot + 1)
  <2>1. /\ next.current_epoch_attestations = st.current_epoch_attestations
        /\ next.previous_epoch_attestations = st.previous_epoch_attestations
    BY <1>6, <1>10, AdvancedRoots
  <2>2. get_current_epoch(next) = e /\ get_previous_epoch(next) = get_previous_epoch(st)
    BY <1>7, <1>10 DEF get_previous_epoch
  <2>3. /\ VotesAreFor(next, st.current_epoch_attestations, e)
        /\ VotesAreFor(next, st.previous_epoch_attestations, get_previous_epoch(st))
    BY <1>4, <1>5
  <2> HIDE DEF next
  <2> QED
    BY <1>3, <2>1, <2>2, <2>3 DEF Targets, next
<1> QED
  BY <1>9, <1>10

LEMMA BlockTargets ==
    ASSUME TypeOK, HasRoots(state), Targets(state), ProcessBlock
    PROVE  HasRoots(state') /\ Targets(state')
<1> DEFINE next == state'
<1>1. /\ next.slot = state.slot
      /\ next.block_roots = state.block_roots
      /\ next.latest_block.root = RootOfSlot(state.slot)
      /\ \A a \in next.current_epoch_attestations \ state.current_epoch_attestations :
            \E b \in IncludableVotes(get_current_epoch(state)) : a = PendingAttestation(b)
      /\ \A a \in next.previous_epoch_attestations \ state.previous_epoch_attestations :
            \E b \in IncludableVotes(get_previous_epoch(state)) : a = PendingAttestation(b)
  BY BlockStep
<1>2. state.slot \in Nat
  BY DEF TypeOK, StateType, Slot
<1>3. /\ \A slot : get_block_root_at_slot(next, slot) = get_block_root_at_slot(state, slot)
      /\ \A epoch : get_block_root(next, epoch) = get_block_root(state, epoch)
  BY <1>1 DEF get_block_root_at_slot, get_block_root
<1>4. /\ get_current_epoch(next) = get_current_epoch(state)
      /\ get_previous_epoch(next) = get_previous_epoch(state)
  BY <1>1 DEF get_current_epoch, get_previous_epoch
<1>5. ASSUME NEW epoch \in Nat, NEW b \in IncludableVotes(epoch)
      PROVE  /\ PendingAttestation(b).target.epoch = epoch /\ epoch # GENESIS_EPOCH
             /\ compute_start_slot_at_epoch(epoch) < state.slot
             /\ PendingAttestation(b).target.root \in {ZeroRoot, get_block_root(state, epoch)}
  <2>1. /\ b \in VotesFor(epoch) /\ epoch # GENESIS_EPOCH
        /\ ~(state.slot <= compute_start_slot_at_epoch(epoch))
    BY <1>5 DEF IncludableVotes
  <2>2. PICK root \in {ZeroRoot, get_block_root(state, epoch)} :
            b.target = [epoch |-> epoch, root |-> root]
    BY <2>1 DEF VotesFor
  <2>3. compute_start_slot_at_epoch(epoch) \in Nat
    BY StartSlots
  <2> QED
    BY <1>2, <2>1, <2>2, <2>3 DEF PendingAttestation
<1>6. get_current_epoch(state) \in Nat /\ get_previous_epoch(state) \in Nat
  BY <1>2, PreviousEpoch
<1> HIDE DEF next
<1>7. HasRoots(next)
  <2>1. next.latest_block.root # ZeroRoot
    BY <1>1, <1>2 DEF RootOfSlot, ZeroRoot
  <2> QED
    BY <1>1, <1>3, <2>1 DEF HasRoots
<1>8. ASSUME NEW epoch \in Nat, NEW votes, NEW more, VotesAreFor(state, votes, epoch),
             \A a \in more \ votes : \E b \in IncludableVotes(epoch) : a = PendingAttestation(b)
      PROVE  VotesAreFor(next, more, epoch)
  BY <1>1, <1>3, <1>5, <1>8 DEF VotesAreFor
<1>9. VotesAreFor(next, next.current_epoch_attestations, get_current_epoch(state))
  BY <1>1, <1>6, <1>8 DEF Targets
<1>10. VotesAreFor(next, next.previous_epoch_attestations, get_previous_epoch(state))
  BY <1>1, <1>6, <1>8 DEF Targets
<1> QED
  BY <1>4, <1>7, <1>9, <1>10 DEF Targets, next

--------------------------------------------------------------------------------
(* The links of an epoch boundary are the two the balances stand for              *)

LEMMA NewLinksOfEpoch ==
    ASSUME state \in StateType, HasRoots(state), Targets(state), Sources(state),
           get_current_epoch(state) > 1
    PROVE  LET cached == process_slot(state)
               epoch == get_current_epoch(state)
               toPrevious == CheckpointAt(cached, get_previous_epoch(cached))
               toCurrent == CheckpointAt(cached, get_current_epoch(cached))
               W == {x \in {toPrevious, toCurrent} :
                        \/ x = toPrevious /\ PreviousWins(cached)
                        \/ x = toCurrent /\ CurrentWins(cached)}
           IN  /\ toPrevious \in W <=> PreviousWins(cached)
               /\ toCurrent \in W <=> CurrentWins(cached)
               /\ LinksOfEpoch(NewLinks, epoch, state.previous_justified_checkpoint,
                               state.current_justified_checkpoint, toPrevious, toCurrent, W)
<1> DEFINE cached == process_slot(state)
           epoch == get_current_epoch(state)
           start(n) == compute_start_slot_at_epoch(n)
           toPrevious == CheckpointAt(cached, epoch - 1)
           toCurrent == CheckpointAt(cached, epoch)
           olds == state.previous_epoch_attestations
           currents == state.current_epoch_attestations
           pending == olds \cup currents
           votes(source, target) == {a \in pending : a.source = source /\ a.target = target}
           previous == state.previous_justified_checkpoint
           current == state.current_justified_checkpoint
           Wins(set) == IsSupermajority(get_attesting_balance(state, set), get_total_active_balance)
<1>1. state.slot \in Nat /\ epoch \in Nat /\ get_previous_epoch(state) = epoch - 1
      /\ epoch - 1 \in Nat /\ epoch # epoch - 1
  BY PreviousEpoch DEF StateType, Slot
<1>2. /\ cached \in StateType /\ cached.slot = state.slot
      /\ get_current_epoch(cached) = epoch /\ get_previous_epoch(cached) = epoch - 1
  BY <1>1, ProcessSlotType DEF get_current_epoch, get_previous_epoch
<1>3. /\ cached.slashed = state.slashed
      /\ cached.previous_epoch_attestations = olds
      /\ cached.current_epoch_attestations = currents
  <2>1. cached.slashed = state.slashed
    BY CachedState
  <2>2. cached.previous_epoch_attestations = olds
    BY CachedState
  <2>3. cached.current_epoch_attestations = currents
    BY CachedState
  <2> QED
    BY <2>1, <2>2, <2>3
<1>4. ASSUME NEW n \in {epoch - 1, epoch}
      PROVE  /\ start(n) < state.slot => get_block_root(cached, n) = get_block_root(state, n)
             /\ get_block_root(cached, n) # ZeroRoot
  <2>1. /\ start(n) \in Nat /\ start(n) <= state.slot
        /\ state.slot < start(n) + SLOTS_PER_HISTORICAL_ROOT
    BY <1>1, StartsInRing
  <2>2. start(n) < state.slot =>
            get_block_root_at_slot(cached, start(n)) = get_block_root_at_slot(state, start(n))
    BY <2>1, CachedState
  <2>3. get_block_root_at_slot(cached, start(n)) # ZeroRoot
    BY <2>1, CachedState
  <2> QED
    BY <2>2, <2>3 DEF get_block_root
<1>5. /\ toPrevious = [epoch |-> epoch - 1, root |-> get_block_root(cached, epoch - 1)]
      /\ toCurrent = [epoch |-> epoch, root |-> get_block_root(cached, epoch)]
  BY DEF CheckpointAt
<1>6. /\ toPrevious.epoch = epoch - 1 /\ toPrevious.root = get_block_root(cached, epoch - 1)
      /\ toCurrent.epoch = epoch /\ toCurrent.root = get_block_root(cached, epoch)
  BY <1>5
<1>7. toPrevious.root # ZeroRoot /\ toCurrent.root # ZeroRoot /\ toPrevious # toCurrent
  BY <1>1, <1>4, <1>6
<1>8. /\ \A a \in pending : a.source \in Checkpoint /\ a.target \in Checkpoint
      /\ \A a \in currents : a.source = current
      /\ \A a \in olds : a.source = previous
  BY DEF StateType, PendingAttestations, Sources
<1>9. /\ \A a \in currents : a.target.epoch = epoch /\ start(epoch) < state.slot
                /\ a.target.root \in {ZeroRoot, get_block_root(state, epoch)}
      /\ \A a \in olds : a.target.epoch = epoch - 1 /\ start(epoch - 1) < state.slot
                /\ a.target.root \in {ZeroRoot, get_block_root(state, epoch - 1)}
  BY <1>1 DEF Targets, VotesAreFor
<1> HIDE DEF cached, epoch, start, toPrevious, toCurrent
<1>10. /\ \A a \in currents : a.target.root \in {ZeroRoot, toCurrent.root}
       /\ \A a \in olds : a.target.root \in {ZeroRoot, toPrevious.root}
  BY <1>4, <1>6, <1>9
<1>11. ASSUME NEW a \in pending, NEW c \in {toPrevious, toCurrent},
              a.target.epoch = c.epoch, a.target.root = c.root
       PROVE  a.target = c
  BY <1>5, <1>6, <1>8, <1>11 DEF Checkpoint
<1>12. /\ MatchingTarget(cached, currents, epoch) = votes(current, toCurrent)
       /\ MatchingTarget(cached, olds, epoch - 1) = votes(previous, toPrevious)
  <2>1. MatchingTarget(cached, currents, epoch) = {a \in currents : a.target.root = toCurrent.root}
    BY <1>6 DEF MatchingTarget
  <2>2. MatchingTarget(cached, olds, epoch - 1) = {a \in olds : a.target.root = toPrevious.root}
    BY <1>6 DEF MatchingTarget
  <2>3. \A a \in currents : a.target.root = toCurrent.root <=> a.target = toCurrent
    BY <1>6, <1>9, <1>11
  <2>4. \A a \in olds : a.target.root = toPrevious.root <=> a.target = toPrevious
    BY <1>6, <1>9, <1>11
  <2>5. \A a \in pending : /\ a.target = toCurrent => a \in currents
                           /\ a.target = toPrevious => a \in olds
    BY <1>1, <1>6, <1>9
  <2> QED
    BY <1>8, <2>1, <2>2, <2>3, <2>4, <2>5
<1>13. /\ CurrentWins(cached) <=> Wins(votes(current, toCurrent))
       /\ PreviousWins(cached) <=> Wins(votes(previous, toPrevious))
  <2>1. \A set : get_attesting_balance(cached, set) = get_attesting_balance(state, set)
    BY <1>3 DEF get_attesting_balance, get_unslashed_attesting_indices
  <2> QED
    BY <1>2, <1>3, <1>12, <2>1 DEF CurrentWins, PreviousWins
<1>14. ~Wins({})
  BY NoVotesNoSupermajority
<1> DEFINE W == {x \in {toPrevious, toCurrent} : \/ x = toPrevious /\ PreviousWins(cached)
                                                 \/ x = toCurrent /\ CurrentWins(cached)}
<1>15. /\ toPrevious \in W <=> PreviousWins(cached)
       /\ toCurrent \in W <=> CurrentWins(cached)
  BY <1>7
<1> HIDE DEF W
<1>16. NewLinks = {link \in {<<a.source, a.target>> : a \in pending} : Wins(votes(link[1], link[2]))}
  <2>1. ~(get_current_epoch(state) <= GENESIS_EPOCH + 1)
    BY <1>1 DEF epoch, GENESIS_EPOCH
  <2> QED
    BY <2>1 DEF NewLinks
<1> HIDE DEF Wins, votes, pending, olds, currents
<1>17. ASSUME NEW a, NEW source, NEW target, a \in votes(source, target)
       PROVE  a \in pending /\ <<a.source, a.target>> = <<source, target>>
  BY <1>17 DEF votes
<1>18. ASSUME NEW source, NEW target, Wins(votes(source, target))
       PROVE  <<source, target>> \in NewLinks
  <2>1. PICK a : a \in votes(source, target)
    BY <1>14, <1>18
  <2>2. a \in pending /\ <<a.source, a.target>> = <<source, target>>
    BY <1>17, <2>1
  <2>3. <<source, target>>[1] = source /\ <<source, target>>[2] = target
    OBVIOUS
  <2> QED
    BY <1>16, <1>18, <2>2, <2>3
<1>19. ASSUME NEW l \in NewLinks
       PROVE  /\ l[1] \in {previous, current} /\ l[2].epoch \in {epoch - 1, epoch}
              /\ l[2].root # ZeroRoot =>
                    \/ toPrevious \in W /\ l = <<previous, toPrevious>>
                    \/ toCurrent \in W /\ l = <<current, toCurrent>>
  <2>1. PICK a \in pending : l = <<a.source, a.target>> /\ Wins(votes(l[1], l[2]))
    BY <1>16
  <2>2. l[1] = a.source /\ l[2] = a.target
    BY <2>1
  <2>3. CASE a \in currents
    <3>1. a.source = current /\ a.target.epoch = epoch
      BY <1>8, <1>9, <2>3
    <3>2. ASSUME a.target.root # ZeroRoot PROVE toCurrent \in W /\ l = <<current, toCurrent>>
      <4>1. a.target = toCurrent
        BY <1>6, <1>10, <1>11, <2>3, <3>1, <3>2
      <4> QED
        BY <1>13, <1>15, <2>1, <2>2, <3>1, <4>1
    <3> QED
      BY <2>2, <3>1, <3>2
  <2>4. CASE a \in olds
    <3>1. a.source = previous /\ a.target.epoch = epoch - 1
      BY <1>8, <1>9, <2>4
    <3>2. ASSUME a.target.root # ZeroRoot PROVE toPrevious \in W /\ l = <<previous, toPrevious>>
      <4>1. a.target = toPrevious
        BY <1>6, <1>10, <1>11, <2>4, <3>1, <3>2
      <4> QED
        BY <1>13, <1>15, <2>1, <2>2, <3>1, <4>1
    <3> QED
      BY <2>2, <3>1, <3>2
  <2> QED
    BY <2>3, <2>4 DEF pending
<1>20. /\ toPrevious \in W => <<previous, toPrevious>> \in NewLinks
       /\ toCurrent \in W => <<current, toCurrent>> \in NewLinks
  BY <1>13, <1>15, <1>18
<1>21. LinksOfEpoch(NewLinks, epoch, previous, current, toPrevious, toCurrent, W)
  BY <1>6, <1>7, <1>19, <1>20 DEF LinksOfEpoch
<1> QED
  BY <1>2, <1>15, <1>21 DEF cached, epoch, toPrevious, toCurrent, W

--------------------------------------------------------------------------------
(* The state knows of the links of its chain what Casper needs: with the types    *)
(* and the order of the checkpoints, this is kept by every step.                  *)
CasperState(st, L) ==
    /\ Sources(st) /\ HasRoots(st) /\ Targets(st)
    /\ get_current_epoch(st) <= 1 => \A i \in BitIndex : ~st.justification_bits[i]
    /\ CasperAt(L, get_current_epoch(st), st.justification_bits, st.previous_justified_checkpoint,
                st.current_justified_checkpoint, st.finalized_checkpoint)

LEMMA InitCasper == Init => CasperState(state, links)
<1> SUFFICES ASSUME Init PROVE CasperState(state, links)
  OBVIOUS
<1>1. state = GenesisState(1) /\ links = {}
  BY DEF Init, RootOfSlot, GENESIS_SLOT
<1>2. /\ state.slot = 0 /\ state.latest_block.root = 1
      /\ state.previous_epoch_attestations = {} /\ state.current_epoch_attestations = {}
      /\ state.justification_bits = [i \in BitIndex |-> FALSE]
      /\ state.previous_justified_checkpoint = GenesisCheckpoint
      /\ state.current_justified_checkpoint = GenesisCheckpoint
      /\ state.finalized_checkpoint = GenesisCheckpoint
  BY <1>1 DEF GenesisState, GENESIS_SLOT
<1>3. get_current_epoch(state) = 0
  BY <1>2, SlotsAssumption DEF get_current_epoch, compute_epoch_at_slot
<1>4. Sources(state) /\ HasRoots(state) /\ Targets(state)
  BY <1>2 DEF Sources, HasRoots, Targets, VotesAreFor, ZeroRoot
<1>5. \A i \in BitIndex : ~state.justification_bits[i]
  BY <1>2
<1>6. GenesisCheckpoint.epoch = 0
  BY DEF GenesisCheckpoint, GENESIS_EPOCH
<1>7. IsHighest(GenesisCheckpoint, JustifiedBy(links))
  BY <1>1, <1>6, JustifiedByClosed DEF IsHighest
<1>8. IsHighest(GenesisCheckpoint, FinalizedBy(links))
  BY <1>1, <1>6, FinalizedByMember DEF IsHighest
<1>9. 0 \in BitIndex
  BY DEF BitIndex, JUSTIFICATION_BITS_LENGTH
<1>10. CasperAt(links, 0, state.justification_bits, GenesisCheckpoint, GenesisCheckpoint,
                GenesisCheckpoint)
  <2>1. \A i \in BitIndex : \A n \in 1 .. 0 : FALSE
    OBVIOUS
  <2>2. GenesisCheckpoint \in JustifiedBy(links)
    BY JustifiedByClosed
  <2> QED
    BY <1>1, <1>5, <1>7, <1>8, <1>9, <2>1, <2>2 DEF CasperAt
<1> QED
  BY <1>2, <1>3, <1>4, <1>5, <1>10 DEF CasperState

LEMMA BlockCasper ==
    ASSUME TypeOK, CasperState(state, links), ProcessBlock
    PROVE  CasperState(state', links')
<1>1. /\ links' = links
      /\ state'.slot = state.slot
      /\ Checkpoints(state') = Checkpoints(state)
      /\ state'.justification_bits = state.justification_bits
  BY BlockStep
<1>2. /\ state'.previous_justified_checkpoint = state.previous_justified_checkpoint
      /\ state'.current_justified_checkpoint = state.current_justified_checkpoint
      /\ state'.finalized_checkpoint = state.finalized_checkpoint
      /\ get_current_epoch(state') = get_current_epoch(state)
  BY <1>1 DEF Checkpoints, get_current_epoch
<1>3. Sources(state) /\ HasRoots(state) /\ Targets(state)
  BY DEF CasperState
<1>4. Sources(state') /\ HasRoots(state') /\ Targets(state')
  BY <1>3, BlockSources, BlockTargets
<1> QED
  BY <1>1, <1>2, <1>4 DEF CasperState

(* The epoch boundary that weighs votes. *)
LEMMA BoundaryCasper ==
    ASSUME TypeOK, CheckpointOrder, CasperState(state, links),
           IsEpochStart(state.slot + 1), get_current_epoch(state) > 1
    PROVE  LET next == AdvanceOneSlot(state)
           IN  CasperAt(links \cup NewLinks, get_current_epoch(state) + 1,
                        next.justification_bits, next.previous_justified_checkpoint,
                        next.current_justified_checkpoint, next.finalized_checkpoint)
<1> DEFINE cached == process_slot(state)
           next == AdvanceOneSlot(state)
           epoch == get_current_epoch(state)
           toPrevious == CheckpointAt(cached, get_previous_epoch(cached))
           toCurrent == CheckpointAt(cached, get_current_epoch(cached))
           W == {x \in {toPrevious, toCurrent} : \/ x = toPrevious /\ PreviousWins(cached)
                                                 \/ x = toCurrent /\ CurrentWins(cached)}
           bits == state.justification_bits
           after == UpdatedBits(bits, PreviousWins(cached), CurrentWins(cached))
           previous == state.previous_justified_checkpoint
           current == state.current_justified_checkpoint
           finalized == state.finalized_checkpoint
<1>1. /\ state \in StateType /\ state.slot \in Nat /\ epoch \in Nat
      /\ bits \in [BitIndex -> BOOLEAN]
      /\ previous \in Checkpoint /\ current \in Checkpoint /\ finalized \in Checkpoint
  BY PreviousEpoch DEF TypeOK, StateType, Slot
<1>2. /\ Sources(state) /\ HasRoots(state) /\ Targets(state)
      /\ CasperAt(links, epoch, bits, previous, current, finalized)
  BY DEF CasperState
<1>3. /\ cached \in StateType /\ cached.slot = state.slot
      /\ cached.finalized_checkpoint = finalized
      /\ cached.previous_justified_checkpoint = previous
      /\ cached.current_justified_checkpoint = current
  BY <1>1, ProcessSlotType
<1>4. cached.justification_bits = bits
  BY <1>1, <1>2, CachedState
<1>5. get_current_epoch(cached) = epoch
  BY <1>3 DEF get_current_epoch
<1>6. toPrevious \in W <=> PreviousWins(cached)
  BY <1>1, <1>2, NewLinksOfEpoch
<1>7. toCurrent \in W <=> CurrentWins(cached)
  BY <1>1, <1>2, NewLinksOfEpoch
<1>8. LinksOfEpoch(NewLinks, epoch, previous, current, toPrevious, toCurrent, W)
  BY <1>1, <1>2, NewLinksOfEpoch
<1>9. /\ after \in [BitIndex -> BOOLEAN]
      /\ after[0] <=> toCurrent \in W
      /\ after[1] <=> bits[0] \/ toPrevious \in W
      /\ after[2] = bits[1] /\ after[3] = bits[2]
  <2>1. PreviousWins(cached) \in BOOLEAN /\ CurrentWins(cached) \in BOOLEAN
    BY DEF PreviousWins, CurrentWins, IsSupermajority
  <2>2. after \in [BitIndex -> BOOLEAN]
    BY <1>1, <2>1, UpdatedBitsType
  <2>3. /\ after[0] <=> CurrentWins(cached)
        /\ after[1] <=> bits[0] \/ PreviousWins(cached)
        /\ after[2] = bits[1] /\ after[3] = bits[2]
    <3>1. 0 \in BitIndex /\ 1 \in BitIndex /\ 2 \in BitIndex /\ 3 \in BitIndex
      BY DEF BitIndex, JUSTIFICATION_BITS_LENGTH
    <3> HIDE DEF cached, bits
    <3>2. after[0] <=> CurrentWins(cached)
      BY <3>1 DEF UpdatedBits
    <3>3. after[1] <=> bits[0] \/ PreviousWins(cached)
      BY <2>2, <3>1 DEF UpdatedBits
    <3>4. after[2] = bits[1] /\ after[3] = bits[2]
      BY <3>1 DEF UpdatedBits
    <3> QED
      BY <3>2, <3>3, <3>4
  <2> HIDE DEF after, W, toPrevious, toCurrent
  <2> QED
    BY <1>6, <1>7, <2>2, <2>3
<1>10. /\ previous.epoch \in Nat /\ current.epoch \in Nat /\ finalized.epoch \in Nat
       /\ finalized.epoch <= previous.epoch /\ previous.epoch <= current.epoch
       /\ current.epoch < epoch
  BY <1>1 DEF CheckpointOrder, Checkpoint, Epoch, GENESIS_EPOCH
<1>11. \A x \in JustifiedBy(links) : x.epoch \in Nat
  <2>1. \A l \in links : l[2] \in Checkpoint
    BY DEF TypeOK
  <2>2. \A x \in JustifiedBy(links) : x = GenesisCheckpoint \/ \E l \in links : l[2] = x
    BY JustifiedByClosed
  <2> QED
    BY <2>1, <2>2 DEF GenesisCheckpoint, Checkpoint, Epoch, GENESIS_EPOCH
<1> HIDE DEF next, epoch, W, bits, after, previous, current, finalized
<1>12. /\ next.justification_bits = after
       /\ next.previous_justified_checkpoint = current
       /\ next.current_justified_checkpoint
            = NewJustified(cached, PreviousWins(cached), CurrentWins(cached))
       /\ next.finalized_checkpoint =
            IF FinalizesOldCurrent(after, current, epoch) THEN current
            ELSE IF FinalizesOldPrevious(after, previous, epoch) THEN previous ELSE finalized
  <2>1. Kept(next) = Kept(process_epoch(cached))
    BY <1>1, AdvancedKeeps DEF next
  <2>2. get_current_epoch(cached) > 1
    BY <1>5 DEF epoch
  <2>3. after = UpdatedBits(cached.justification_bits, PreviousWins(cached), CurrentWins(cached))
    BY <1>4 DEF after
  <2> HIDE DEF cached
  <2>4. process_epoch(cached).justification_bits = after
    BY <1>3, <2>2, <2>3, EpochWeighed
  <2>5. process_epoch(cached).previous_justified_checkpoint = current
    BY <1>3, <2>2, EpochWeighed
  <2>6. process_epoch(cached).current_justified_checkpoint
            = NewJustified(cached, PreviousWins(cached), CurrentWins(cached))
    BY <1>3, <2>2, EpochWeighed
  <2>7. process_epoch(cached).finalized_checkpoint =
            IF FinalizesOldCurrent(after, current, epoch) THEN current
            ELSE IF FinalizesOldPrevious(after, previous, epoch) THEN previous ELSE finalized
    BY <1>3, <1>5, <2>2, <2>3, EpochWeighed
  <2> QED
    BY <2>1, <2>4, <2>5, <2>6, <2>7 DEF Kept
<1>13. NewJustified(cached, PreviousWins(cached), CurrentWins(cached))
         = IF toCurrent \in W THEN toCurrent ELSE IF toPrevious \in W THEN toPrevious ELSE current
  BY <1>3, <1>6, <1>7 DEF NewJustified
<1> HIDE DEF cached, toPrevious, toCurrent
<1>14. EpochBoundary(links, NewLinks, epoch, bits, after, previous, current, finalized,
                     toPrevious, toCurrent, W)
  <2>1. epoch >= 2
    BY <1>1 DEF epoch
  <2> QED
    BY <1>1, <1>2, <1>8, <1>9, <1>10, <1>11, <2>1 DEF EpochBoundary
<1>15. /\ next.current_justified_checkpoint = JustifiedOf(W, toPrevious, toCurrent, current)
       /\ next.finalized_checkpoint = FinalizedOf(after, epoch, previous, current, finalized)
  BY <1>12, <1>13 DEF JustifiedOf, FinalizedOf
<1>16. CasperAt(links \cup NewLinks, epoch + 1, after, current,
                JustifiedOf(W, toPrevious, toCurrent, current),
                FinalizedOf(after, epoch, previous, current, finalized))
  BY <1>10, <1>14, CasperAfter
<1> QED
  BY <1>12, <1>15, <1>16 DEF next, epoch

LEMMA SlotCasper ==
    ASSUME TypeOK, CheckpointOrder, CasperState(state, links), AdvanceSlot
    PROVE  CasperState(state', links')
<1> DEFINE cached == process_slot(state)
           epoch == get_current_epoch(state)
           next == AdvanceOneSlot(state)
           more == IF IsEpochStart(state.slot + 1) THEN links \cup NewLinks ELSE links
           At(st, L) == CasperAt(L, get_current_epoch(st), st.justification_bits,
                                 st.previous_justified_checkpoint,
                                 st.current_justified_checkpoint, st.finalized_checkpoint)
<1>1. state' = next /\ links' = more
  BY DEF AdvanceSlot
<1>2. /\ state \in StateType /\ state.slot \in Nat /\ epoch \in Nat
      /\ Sources(state) /\ HasRoots(state) /\ Targets(state)
      /\ epoch <= 1 => \A i \in BitIndex : ~state.justification_bits[i]
      /\ At(state, links)
  BY PreviousEpoch DEF TypeOK, StateType, Slot, CasperState
<1>3. /\ cached \in StateType /\ cached.slot = state.slot
      /\ Checkpoints(cached) = Checkpoints(state)
  BY <1>2, ProcessSlotType DEF Checkpoints
<1>4. cached.justification_bits = state.justification_bits
  BY <1>2, CachedState
<1>5. get_current_epoch(cached) = epoch
  BY <1>3 DEF get_current_epoch
<1>6. get_current_epoch(next) = IF IsEpochStart(state.slot + 1) THEN epoch + 1 ELSE epoch
  <2>1. next.slot = state.slot + 1
    BY <1>2, AdvanceOneSlotOrdered
  <2> HIDE DEF next
  <2> QED
    BY <1>2, <2>1, NextSlotEpoch DEF get_current_epoch
<1>7. /\ IsEpochStart(state.slot + 1) => Kept(next) = Kept(process_epoch(cached))
      /\ ~IsEpochStart(state.slot + 1) => Kept(next) = Kept(cached)
  BY <1>2, AdvancedKeeps
<1>8. Sources(next) /\ HasRoots(next) /\ Targets(next)
  BY <1>2, SlotSources, SlotTargets
<1> HIDE DEF cached, next
<1>9. CASE ~IsEpochStart(state.slot + 1)
  <2>1. /\ next.justification_bits = state.justification_bits
        /\ Checkpoints(next) = Checkpoints(state)
    BY <1>3, <1>4, <1>7, <1>9 DEF Kept, Checkpoints
  <2>2. At(next, links) /\ (epoch <= 1 => \A i \in BitIndex : ~next.justification_bits[i])
    BY <1>2, <1>6, <1>9, <2>1 DEF Checkpoints
  <2> QED
    BY <1>1, <1>6, <1>8, <1>9, <2>2 DEF CasperState
<1>10. CASE IsEpochStart(state.slot + 1) /\ epoch <= 1
  <2>1. /\ next.justification_bits = state.justification_bits
        /\ Checkpoints(next) = Checkpoints(state)
    <3>1. process_epoch(cached).justification_bits = cached.justification_bits
      BY <1>3, <1>5, <1>10, EpochNotWeighed
    <3>2. Checkpoints(process_epoch(cached)) = Checkpoints(cached)
      BY <1>3, <1>5, <1>10, EpochNotWeighed
    <3> QED
      BY <1>3, <1>4, <1>7, <1>10, <3>1, <3>2 DEF Kept, Checkpoints
  <2>2. more = links
    <3>1. NewLinks = {}
      BY <1>10 DEF NewLinks, GENESIS_EPOCH
    <3> QED
      BY <3>1
  <2>3. \A i \in BitIndex : ~state.justification_bits[i]
    BY <1>2, <1>10
  <2>4. CasperAt(links, epoch + 1, state.justification_bits, state.previous_justified_checkpoint,
                 state.current_justified_checkpoint, state.finalized_checkpoint)
    BY <1>2, <1>10, <2>3, CasperEarly
  <2>5. At(next, more) /\ \A i \in BitIndex : ~next.justification_bits[i]
    BY <1>6, <1>10, <2>1, <2>2, <2>3, <2>4 DEF Checkpoints
  <2> QED
    BY <1>1, <1>8, <2>5 DEF CasperState
<1>11. CASE IsEpochStart(state.slot + 1) /\ epoch > 1
  <2>1. CasperAt(links \cup NewLinks, epoch + 1,
                 next.justification_bits, next.previous_justified_checkpoint,
                 next.current_justified_checkpoint, next.finalized_checkpoint)
    BY <1>11, BoundaryCasper DEF next
  <2>2. At(next, more) /\ ~(get_current_epoch(next) <= 1)
    BY <1>2, <1>6, <1>11, <2>1
  <2> QED
    BY <1>1, <1>8, <2>2 DEF CasperState
<1> QED
  BY <1>2, <1>9, <1>10, <1>11

LEMMA CasperInvariant == Spec => []CasperState(state, links)
<1> DEFINE Inv == CasperState(state, links)
<1>1. Init => Inv
  BY InitCasper
<1>2. TypeOK /\ CheckpointOrder /\ Inv /\ [Next]_vars => Inv'
  <2> SUFFICES ASSUME TypeOK, CheckpointOrder, CasperState(state, links), [Next]_vars
               PROVE  CasperState(state', links')
    OBVIOUS
  <2>1. CASE AdvanceSlot
    BY <2>1, SlotCasper
  <2>2. CASE ProcessBlock
    BY <2>2, BlockCasper
  <2>3. CASE UNCHANGED vars
    BY <2>3 DEF vars
  <2> QED
    BY <2>1, <2>2, <2>3 DEF Next
<1> HIDE DEF Inv
<1>3. Spec => []Inv
  BY <1>1, <1>2, TypeCorrect, CheckpointsOrdered, PTL DEF Spec
<1> QED
  BY <1>3 DEF Inv

(* weigh_justification_and_finalization keeps two checkpoints and four bits of all *)
(* the votes of a chain, and its current justified checkpoint is the highest one  *)
(* Casper justifies from all of them: for every registry, epoch length and votes. *)
THEOREM JustificationIsCasper == Spec => []JustifiedIsCasper
<1> DEFINE Inv == CasperState(state, links)
<1>1. Inv => JustifiedIsCasper
  BY DEF CasperState, CasperAt, JustifiedIsCasper, CasperJustified
<1>2. Spec => []Inv
  BY CasperInvariant
<1> HIDE DEF Inv
<1> QED
  BY <1>1, <1>2, PTL

(* The four finalization rules finalize exactly the highest checkpoint Casper     *)
(* finalizes by links of one or two epochs from all the votes of the chain.       *)
THEOREM FinalizationIsCasper == Spec => []FinalizedIsCasper
<1> DEFINE Inv == CasperState(state, links)
<1>1. Inv => FinalizedIsCasper
  BY DEF CasperState, CasperAt, FinalizedIsCasper, CasperFinalized
<1>2. Spec => []Inv
  BY CasperInvariant
<1> HIDE DEF Inv
<1> QED
  BY <1>1, <1>2, PTL

--------------------------------------------------------------------------------
(* Induction and recursion                                                        *)

LEMMA LeastNumber ==
    ASSUME NEW T, T \subseteq Nat, T # {}
    PROVE  \E m \in T : \A k \in T : m <= k
<1>1. \E m \in T : \A k \in T : ~(<<k, m>> \in OpToRel(<, Nat))
  BY NatLessThanWellFounded, WFMin
<1>2. PICK m \in T : \A k \in T : ~(<<k, m>> \in OpToRel(<, Nat))
  BY <1>1
<1>3. \A k \in T : ~(k < m)
  BY <1>2 DEF OpToRel
<1> QED
  BY <1>3

LEMMA Induction ==
    ASSUME NEW T, 0 \in T, \A n \in Nat : n \in T => n + 1 \in T
    PROVE  \A n \in Nat : n \in T
<1> SUFFICES ASSUME NEW n \in Nat, n \notin T PROVE FALSE
  OBVIOUS
<1> DEFINE M == {k \in Nat : k \notin T}
<1>1. PICK m \in M : \A k \in M : m <= k
  <2>1. M \subseteq Nat /\ M # {}
    OBVIOUS
  <2> HIDE DEF M
  <2> QED
    BY <2>1, LeastNumber
<1>2. m \in Nat /\ m # 0
  OBVIOUS
<1>3. m - 1 \in Nat /\ m - 1 \notin M
  BY <1>1, <1>2
<1>4. m - 1 \in T
  BY <1>3
<1> QED
  BY <1>2, <1>3, <1>4

(* Descent by a rank: a property of the elements of D that each inherits from     *)
(* those of lower rank.                                                           *)
LEMMA RankInduction ==
    ASSUME NEW D, NEW rank, \A d \in D : rank[d] \in Nat, NEW T,
           \A d \in D : (\A e \in D : rank[e] < rank[d] => e \in T) => d \in T
    PROVE  \A d \in D : d \in T
<1> SUFFICES ASSUME NEW d \in D, d \notin T PROVE FALSE
  OBVIOUS
<1> DEFINE M == {rank[e] : e \in {x \in D : x \notin T}}
<1>1. M \subseteq Nat /\ M # {}
  OBVIOUS
<1>2. PICK m \in M : \A k \in M : m <= k
  <2> HIDE DEF M
  <2> QED
    BY <1>1, LeastNumber
<1>3. PICK e \in D : e \notin T /\ m = rank[e]
  OBVIOUS
<1>4. ASSUME NEW x \in D, rank[x] < rank[e], x \notin T PROVE FALSE
  <2>1. rank[x] \in M
    BY <1>4
  <2>2. rank[e] <= rank[x] /\ rank[e] \in Nat /\ rank[x] \in Nat
    BY <1>2, <1>3, <2>1
  <2> QED
    BY <1>4, <2>2
<1> QED
  BY <1>3, <1>4

(* A function on D may be defined by recursion on a rank: step[d] of it depends on *)
(* its values of lower rank only.                                                  *)
IsRecursion(D, rank, V, step) ==
    /\ V # {}
    /\ \A d \in D : rank[d] \in Nat
    /\ \A d \in D : \A g \in [D -> V] : step[d][g] \in V
    /\ \A d \in D : \A g, h \in [D -> V] :
           (\A e \in D : rank[e] < rank[d] => g[e] = h[e]) => step[d][g] = step[d][h]

LEMMA RankRecursion ==
    ASSUME NEW D, NEW rank, NEW V, NEW step, IsRecursion(D, rank, V, step)
    PROVE  \E g \in [D -> V] : \A d \in D : g[d] = step[d][g]
<1>0. /\ V # {}
      /\ \A d \in D : rank[d] \in Nat
      /\ \A d \in D : \A g \in [D -> V] : step[d][g] \in V
      /\ \A d \in D : \A g, h \in [D -> V] :
             (\A e \in D : rank[e] < rank[d] => g[e] = h[e]) => step[d][g] = step[d][h]
  BY DEF IsRecursion
<1> USE <1>0
<1> DEFINE Good(n, g) == g \in [D -> V] /\ \A d \in D : rank[d] < n => g[d] = step[d][g]
           N == {n \in Nat : \E g : Good(n, g)}
<1>1. 0 \in N
  <2>1. PICK v \in V : TRUE
    OBVIOUS
  <2>2. Good(0, [d \in D |-> v])
    OBVIOUS
  <2> QED
    BY <2>2
<1>2. ASSUME NEW n \in Nat, n \in N PROVE n + 1 \in N
  <2>1. PICK g : Good(n, g)
    BY <1>2
  <2> DEFINE h == [d \in D |-> IF rank[d] < n THEN g[d] ELSE step[d][g]]
  <2>2. h \in [D -> V]
    BY <2>1
  <2>3. ASSUME NEW d \in D, rank[d] < n + 1 PROVE h[d] = step[d][h]
    <3>1. \A e \in D : rank[e] < rank[d] => g[e] = h[e]
      BY <2>3
    <3>2. step[d][g] = step[d][h]
      <4> HIDE DEF h
      <4> QED
        BY <2>1, <2>2, <3>1
    <3>3. h[d] = step[d][g]
      BY <2>1
    <3> QED
      BY <3>2, <3>3
  <2>4. Good(n + 1, h)
    BY <2>2, <2>3
  <2>5. n + 1 \in Nat /\ \E x : Good(n + 1, x)
    <3> HIDE DEF Good, h
    <3> QED
      BY <2>4
  <2> QED
    BY <2>5
<1>3. \A n \in Nat : n \in N
  <2> HIDE DEF N
  <2> QED
    BY <1>1, <1>2, Induction
<1>4. ASSUME NEW m \in Nat, NEW n \in Nat, m <= n, NEW g, NEW h, Good(m, g), Good(n, h),
             NEW d \in D, rank[d] < m
      PROVE  g[d] = h[d]
  <2> DEFINE T == {e \in D : rank[e] < m => g[e] = h[e]}
  <2>1. ASSUME NEW e \in D, \A x \in D : rank[x] < rank[e] => x \in T PROVE e \in T
    <3> SUFFICES ASSUME rank[e] < m PROVE g[e] = h[e]
      OBVIOUS
    <3>1. \A x \in D : rank[x] < rank[e] => g[x] = h[x]
      BY <2>1
    <3>2. step[e][g] = step[e][h]
      BY <1>4, <3>1
    <3> QED
      BY <1>4, <3>2
  <2>2. \A e \in D : e \in T
    <3> HIDE DEF T
    <3> QED
      BY <2>1, RankInduction
  <2> QED
    BY <1>4, <2>2
<1>5. PICK at : \A n \in Nat : Good(n, at[n])
  <2> DEFINE a == [n \in Nat |-> CHOOSE g : Good(n, g)]
  <2>1. ASSUME NEW n \in Nat PROVE Good(n, a[n])
    <3>1. \E g : Good(n, g)
      BY <1>3
    <3>2. Good(n, CHOOSE g : Good(n, g))
      <4> HIDE DEF Good
      <4> QED
        BY <3>1
    <3>3. a[n] = CHOOSE g : Good(n, g)
      OBVIOUS
    <3> QED
      BY <3>2, <3>3
  <2> HIDE DEF a, Good
  <2> QED
    BY <2>1
<1> DEFINE f == [d \in D |-> at[rank[d] + 1][d]]
<1>6. ASSUME NEW d \in D
      PROVE  rank[d] + 1 \in Nat /\ at[rank[d] + 1] \in [D -> V]
  BY <1>5
<1>7. f \in [D -> V]
  BY <1>6
<1>8. ASSUME NEW d \in D PROVE f[d] = step[d][f]
  <2> DEFINE n == rank[d] + 1
  <2>1. n \in Nat /\ at[n] \in [D -> V]
    BY <1>6
  <2>2. Good(n, at[n])
    BY <1>5, <2>1
  <2>3. \A e \in D : rank[e] < rank[d] => at[n][e] = f[e]
    <3> SUFFICES ASSUME NEW e \in D, rank[e] < rank[d] PROVE at[n][e] = f[e]
      OBVIOUS
    <3>1. rank[e] + 1 \in Nat /\ rank[e] + 1 <= n /\ rank[e] < rank[e] + 1
      BY <1>6
    <3>2. Good(rank[e] + 1, at[rank[e] + 1])
      BY <1>5, <3>1
    <3>3. at[rank[e] + 1][e] = at[n][e]
      <4> HIDE DEF Good
      <4> QED
        BY <1>4, <2>1, <2>2, <3>1, <3>2
    <3> QED
      BY <3>3
  <2>4. step[d][at[n]] = step[d][f]
    <3> HIDE DEF f, n
    <3> QED
      BY <1>7, <2>1, <2>3
  <2>5. at[n][d] = step[d][at[n]]
    BY <2>1, <2>2
  <2> QED
    BY <2>4, <2>5
<1> QED
  BY <1>7, <1>8

--------------------------------------------------------------------------------
(* The block tree                                                                 *)

LEMMA BlockSlots ==
    /\ Anchor \in Block /\ ZeroRoot \notin Block
    /\ \A b \in Block : SlotOf(b) \in Nat
    /\ \A b \in Block \ {Anchor} : ParentOf(b) \in Block /\ SlotOf(ParentOf(b)) < SlotOf(b)
BY TreeAssumption DEF Slot

(* get_ancestor, as the code runs it: it stops at the slot, or goes to the parent. *)
LEMMA AncestorWalk ==
    ASSUME NEW slot \in Nat, NEW root \in Block
    PROVE  /\ get_ancestor(root, slot) \in Block \cup {ZeroRoot}
           /\ get_ancestor(root, slot) =
                IF SlotOf(root) <= slot THEN root
                ELSE IF root = Anchor THEN ZeroRoot
                ELSE get_ancestor(ParentOf(root), slot)
<1> DEFINE V == Block \cup {ZeroRoot}
           rank == [r \in Block |-> SlotOf(r)]
           step == [r \in Block |-> [g \in [Block -> V] |->
                       IF SlotOf(r) <= slot THEN r
                       ELSE IF r = Anchor THEN ZeroRoot
                       ELSE g[ParentOf(r)]]]
           IsWalk(f) == f = [r \in Block |-> IF SlotOf(r) <= slot THEN r
                                             ELSE IF r = Anchor THEN ZeroRoot
                                             ELSE f[ParentOf(r)]]
           walk == CHOOSE f : IsWalk(f)
<1>1. \E g \in [Block -> V] : \A r \in Block : g[r] = step[r][g]
  <2>1. \A r \in Block : rank[r] \in Nat
    BY BlockSlots
  <2>2. V # {}
    OBVIOUS
  <2>3. \A r \in Block : \A g \in [Block -> V] : step[r][g] \in V
    BY BlockSlots
  <2>4. ASSUME NEW r \in Block, NEW g \in [Block -> V], NEW h \in [Block -> V],
               \A e \in Block : rank[e] < rank[r] => g[e] = h[e]
        PROVE  step[r][g] = step[r][h]
    BY <2>4, BlockSlots
  <2>5. IsRecursion(Block, rank, V, step)
    <3> HIDE DEF V, rank, step
    <3> QED
      BY <2>1, <2>2, <2>3, <2>4 DEF IsRecursion
  <2> HIDE DEF V, rank, step
  <2> QED
    BY <2>5, RankRecursion
<1>2. PICK g \in [Block -> V] : \A r \in Block : g[r] = step[r][g]
  BY <1>1
<1>3. IsWalk(g)
  BY <1>2
<1>4. IsWalk(walk)
  <2> HIDE DEF IsWalk
  <2> QED
    BY <1>3
<1>5. \A r \in Block : get_ancestor(r, slot) = walk[r]
  BY DEF get_ancestor
<1>6. \A r \in Block : walk[r] = IF SlotOf(r) <= slot THEN r
                                 ELSE IF r = Anchor THEN ZeroRoot
                                 ELSE walk[ParentOf(r)]
  <2> HIDE DEF walk
  <2> QED
    BY <1>4
<1>7. \A r \in Block : walk[r] \in V
  <2> DEFINE T == {r \in Block : walk[r] \in V}
  <2>1. \A r \in Block : rank[r] \in Nat
    BY BlockSlots
  <2>2. ASSUME NEW r \in Block, \A e \in Block : rank[e] < rank[r] => e \in T
        PROVE  r \in T
    <3> HIDE DEF walk
    <3> QED
      BY <1>6, <2>2, BlockSlots
  <2>3. \A r \in Block : r \in T
    <3> HIDE DEF T, rank
    <3> QED
      BY <2>1, <2>2, RankInduction
  <2> QED
    BY <2>3
<1> HIDE DEF walk
<1> QED
  BY <1>5, <1>6, <1>7, BlockSlots

(* process_slots is the loop of its turns. *)
IsTurns(f, st, n) ==
    f = [s \in st.slot .. n |-> IF s = st.slot THEN st ELSE AdvanceOneSlot(f[s - 1])]

LEMMA SlotTurns ==
    ASSUME NEW st \in StateType, NEW n \in Nat, st.slot <= n
    PROVE  \E f \in [st.slot .. n -> StateType] :
               /\ process_slots(st, n) = f[n]
               /\ f[st.slot] = st
               /\ \A s \in st.slot .. n : s # st.slot => f[s] = AdvanceOneSlot(f[s - 1])
<1> DEFINE D == st.slot .. n
           V == StateType
           rank == [s \in D |-> s]
           step == [s \in D |-> [g \in [D -> V] |->
                       IF s = st.slot THEN st ELSE AdvanceOneSlot(g[s - 1])]]
           walk == CHOOSE f : IsTurns(f, st, n)
<1>1. st.slot \in Nat
  BY DEF StateType, Slot
<1>2. \A s \in D : s \in Nat /\ (s # st.slot => s - 1 \in D /\ s - 1 < s)
  BY <1>1
<1>3. \E g \in [D -> V] : \A s \in D : g[s] = step[s][g]
  <2>1. \A s \in D : rank[s] \in Nat
    BY <1>2
  <2>2. V # {}
    OBVIOUS
  <2>3. ASSUME NEW s \in D, NEW g \in [D -> V] PROVE step[s][g] \in V
    <3>1. CASE s = st.slot
      BY <3>1
    <3>2. CASE s # st.slot
      <4>1. g[s - 1] \in StateType
        BY <1>2, <3>2
      <4>2. AdvanceOneSlot(g[s - 1]) \in StateType
        BY <4>1, AdvanceOneSlotOrdered
      <4> QED
        BY <3>2, <4>2
    <3> QED
      BY <3>1, <3>2
  <2>4. ASSUME NEW s \in D, NEW g \in [D -> V], NEW h \in [D -> V],
               \A e \in D : rank[e] < rank[s] => g[e] = h[e]
        PROVE  step[s][g] = step[s][h]
    <3>1. s # st.slot => g[s - 1] = h[s - 1]
      BY <1>2, <2>4
    <3> QED
      BY <3>1
  <2>5. IsRecursion(D, rank, V, step)
    <3> HIDE DEF D, V, rank, step
    <3> QED
      BY <2>1, <2>2, <2>3, <2>4 DEF IsRecursion
  <2> HIDE DEF D, V, rank, step
  <2> QED
    BY <2>5, RankRecursion
<1>4. PICK g \in [D -> V] : \A s \in D : g[s] = step[s][g]
  BY <1>3
<1>5. IsTurns(g, st, n)
  BY <1>4 DEF IsTurns
<1>6. IsTurns(walk, st, n)
  BY <1>5
<1>7. process_slots(st, n) = walk[n]
  BY DEF process_slots, IsTurns
<1> HIDE DEF walk
<1>8. /\ walk = [s \in D |-> walk[s]]
      /\ \A s \in D : walk[s] = IF s = st.slot THEN st ELSE AdvanceOneSlot(walk[s - 1])
  BY <1>6 DEF IsTurns
<1>9. st.slot \in D /\ n \in D
  BY <1>1
<1>10. \A s \in D : walk[s] \in V
  <2> DEFINE T == {s \in D : walk[s] \in V}
  <2>1. \A s \in D : rank[s] \in Nat
    BY <1>2
  <2>2. ASSUME NEW s \in D, \A e \in D : rank[e] < rank[s] => e \in T PROVE s \in T
    <3>1. CASE s = st.slot
      BY <1>8, <3>1
    <3>2. CASE s # st.slot
      <4>1. s - 1 \in D /\ rank[s - 1] < rank[s]
        BY <1>2, <3>2
      <4>2. walk[s - 1] \in StateType
        BY <2>2, <4>1
      <4>3. AdvanceOneSlot(walk[s - 1]) \in StateType
        BY <4>2, AdvanceOneSlotOrdered
      <4> QED
        BY <1>8, <3>2, <4>3
    <3> QED
      BY <3>1, <3>2
  <2>3. \A s \in D : s \in T
    <3> HIDE DEF T, rank, D
    <3> QED
      BY <2>1, <2>2, RankInduction
  <2> QED
    BY <2>3
<1>11. walk \in [D -> V]
  <2> HIDE DEF D, V
  <2> QED
    BY <1>8, <1>10
<1> QED
  BY <1>7, <1>8, <1>9, <1>11


--------------------------------------------------------------------------------
(* States of a block tree. What the state st, advanced from that of block b, has   *)
(* of b's chain: its ring has the ancestors of b, those before the anchor as the    *)
(* anchor's ring has them; votes of the current epoch come in after its first slot; *)
(* the checkpoints later than the anchor are blocks of the chain.                   *)
AncestorRoot(b, slot) ==
    IF slot < SlotOf(Anchor) THEN get_block_root_at_slot(BlockState[Anchor], slot)
                             ELSE get_ancestor(b, slot)

Ancestry(st, b) ==
    \A slot \in Nat :
        slot < st.slot /\ st.slot <= slot + SLOTS_PER_HISTORICAL_ROOT
            => get_block_root_at_slot(st, slot) = AncestorRoot(b, slot)

Early(st) ==
    st.current_epoch_attestations # {}
        => compute_start_slot_at_epoch(get_current_epoch(st)) < st.slot

IsOnChain(c, b) ==
    c.epoch > AnchorEpoch => c.root = get_checkpoint_block(b, c.epoch)

OnChain(st, b) ==
    /\ IsOnChain(st.finalized_checkpoint, b)
    /\ IsOnChain(st.previous_justified_checkpoint, b)
    /\ IsOnChain(st.current_justified_checkpoint, b)

ChainInv(st, b) ==
    /\ SlotOf(b) <= st.slot /\ st.latest_block.root = b
    /\ Ordered(st, get_current_epoch(st))
    /\ Ancestry(st, b) /\ Early(st) /\ OnChain(st, b)

(* The roots that weighing an epoch reads, where it reads any. *)
ReadsChain(st, b) ==
    /\ st.current_epoch_attestations # {} =>
            get_block_root(st, get_current_epoch(st))
                = AncestorRoot(b, compute_start_slot_at_epoch(get_current_epoch(st)))
    /\ get_current_epoch(st) # 0 =>
            get_block_root(st, get_previous_epoch(st))
                = AncestorRoot(b, compute_start_slot_at_epoch(get_previous_epoch(st)))

LEMMA LaterStart ==
    ASSUME NEW m \in Nat, NEW n \in Nat, m < n
    PROVE  /\ compute_start_slot_at_epoch(m) \in Nat
           /\ compute_start_slot_at_epoch(m) < compute_start_slot_at_epoch(n)
<1> DEFINE S == SLOTS_PER_EPOCH
<1>1. S \in Nat \ {0}
  BY SlotsAssumption
<1> HIDE DEF S
<1>2. m * S \in Nat /\ (m + 1) * S = m * S + S
  BY <1>1
<1>3. (m + 1) * S <= n * S /\ n * S \in Nat
  BY <1>1
<1>4. m * S < n * S
  BY <1>1, <1>2, <1>3
<1> QED
  BY <1>2, <1>4 DEF S, compute_start_slot_at_epoch

(* The anchor is the first block, at the start of its epoch. *)
LEMMA AnchorFirst ==
    /\ \A b \in Block : SlotOf(Anchor) <= SlotOf(b)
    /\ AnchorEpoch \in Nat /\ compute_start_slot_at_epoch(AnchorEpoch) = SlotOf(Anchor)
<1> DEFINE rank == [b \in Block |-> SlotOf(b)]
           T == {b \in Block : SlotOf(Anchor) <= SlotOf(b)}
<1>1. \A b \in Block : rank[b] \in Nat
  BY BlockSlots
<1>2. ASSUME NEW b \in Block, \A e \in Block : rank[e] < rank[b] => e \in T PROVE b \in T
  BY <1>2, BlockSlots
<1>3. \A b \in Block : b \in T
  <2> HIDE DEF T, rank
  <2> QED
    BY <1>1, <1>2, RankInduction
<1>4. SlotOf(Anchor) \in Nat /\ SlotOf(Anchor) % SLOTS_PER_EPOCH = 0
  BY TreeAssumption DEF IsEpochStart, Slot
<1>5. compute_start_slot_at_epoch(AnchorEpoch) = SlotOf(Anchor)
  BY <1>4, SlotsAssumption
     DEF AnchorEpoch, EpochOf, compute_start_slot_at_epoch, compute_epoch_at_slot
<1>6. AnchorEpoch \in Nat
  BY <1>4, EpochInNat DEF AnchorEpoch, EpochOf
<1> QED
  BY <1>3, <1>5, <1>6

(* Past the anchor the two agree. *)
LEMMA LaterRoot ==
    ASSUME NEW b \in Block, NEW epoch \in Nat, epoch > AnchorEpoch
    PROVE  AncestorRoot(b, compute_start_slot_at_epoch(epoch)) = get_checkpoint_block(b, epoch)
<1>1. /\ compute_start_slot_at_epoch(epoch) > SlotOf(Anchor)
      /\ compute_start_slot_at_epoch(epoch) \in Nat /\ SlotOf(Anchor) \in Nat
  <2>1. AnchorEpoch < epoch /\ AnchorEpoch \in Nat
    BY AnchorFirst
  <2>2. compute_start_slot_at_epoch(AnchorEpoch) < compute_start_slot_at_epoch(epoch)
        /\ compute_start_slot_at_epoch(AnchorEpoch) \in Nat
    BY <2>1, LaterStart
  <2>3. compute_start_slot_at_epoch(epoch) \in Nat
    BY StartSlots
  <2> QED
    BY <2>2, <2>3, AnchorFirst
<1> QED
  BY <1>1 DEF AncestorRoot, get_checkpoint_block

(* The start of the previous epoch is behind the state. *)
LEMMA PreviousStart ==
    ASSUME NEW st, st.slot \in Nat, get_current_epoch(st) # 0
    PROVE  compute_start_slot_at_epoch(get_previous_epoch(st)) < st.slot
<1> DEFINE e == get_current_epoch(st)
<1>1. e \in Nat /\ get_previous_epoch(st) = e - 1
  BY PreviousEpoch
<1>2. compute_start_slot_at_epoch(e) \in Nat /\ compute_start_slot_at_epoch(e) <= st.slot
  BY StartsInRing
<1>3. e - 1 \in Nat /\ (e - 1) + 1 = e
  BY <1>1
<1> HIDE DEF e
<1>4. /\ compute_start_slot_at_epoch(e - 1) \in Nat
      /\ compute_start_slot_at_epoch(e) = compute_start_slot_at_epoch(e - 1) + SLOTS_PER_EPOCH
  BY <1>3, StartSlots
<1>5. get_previous_epoch(st) = e - 1 /\ SLOTS_PER_EPOCH \in Nat \ {0}
  BY <1>1, SlotsAssumption DEF e
<1> QED
  BY <1>2, <1>4, <1>5

LEMMA ChainReads ==
    ASSUME NEW st \in StateType, NEW b \in Block, ChainInv(st, b)
    PROVE  ReadsChain(st, b)
<1>1. st.slot \in Nat
  BY DEF StateType, Slot
<1>2. SLOTS_PER_HISTORICAL_ROOT \in Nat
  BY HistoricalRootAssumption
<1>3. ASSUME NEW slot \in Nat, slot < st.slot, st.slot < slot + SLOTS_PER_HISTORICAL_ROOT
      PROVE  get_block_root_at_slot(st, slot) = AncestorRoot(b, slot)
  BY <1>1, <1>2, <1>3 DEF ChainInv, Ancestry
<1>4. ASSUME st.current_epoch_attestations # {}
      PROVE  get_block_root(st, get_current_epoch(st))
                = AncestorRoot(b, compute_start_slot_at_epoch(get_current_epoch(st)))
  <2>1. compute_start_slot_at_epoch(get_current_epoch(st)) < st.slot
    BY <1>4 DEF ChainInv, Early
  <2> QED
    BY <1>1, <1>3, <2>1, StartsInRing DEF get_block_root
<1>5. ASSUME get_current_epoch(st) # 0
      PROVE  get_block_root(st, get_previous_epoch(st))
                = AncestorRoot(b, compute_start_slot_at_epoch(get_previous_epoch(st)))
  <2>1. compute_start_slot_at_epoch(get_previous_epoch(st)) < st.slot
    BY <1>1, <1>5, PreviousStart
  <2> QED
    BY <1>1, <1>3, <2>1, StartsInRing DEF get_block_root
<1> QED
  BY <1>4, <1>5 DEF ReadsChain

(* Once the slot's own root is cached the ring reaches up to the slot. *)
LEMMA ChainCached ==
    ASSUME NEW st \in StateType, NEW b \in Block, ChainInv(st, b)
    PROVE  LET cached == process_slot(st)
           IN  /\ \A slot \in Nat :
                    slot <= st.slot /\ st.slot < slot + SLOTS_PER_HISTORICAL_ROOT
                        => get_block_root_at_slot(cached, slot) = AncestorRoot(b, slot)
               /\ ReadsChain(cached, b)
<1> DEFINE cached == process_slot(st)
<1>1. st.slot \in Nat /\ SLOTS_PER_HISTORICAL_ROOT \in Nat
  BY HistoricalRootAssumption DEF StateType, Slot
<1>2. cached.slot = st.slot /\ cached \in StateType
  BY ProcessSlotType
<1>3. ASSUME NEW slot \in Nat, slot <= st.slot, st.slot < slot + SLOTS_PER_HISTORICAL_ROOT
      PROVE  get_block_root_at_slot(cached, slot) = AncestorRoot(b, slot)
  <2>1. CASE slot = st.slot
    <3>1. get_block_root_at_slot(cached, slot) = b
      BY <2>1, CachedRing DEF ChainInv
    <3>2. SlotOf(b) <= slot
      BY <2>1 DEF ChainInv
    <3>3. ~(slot < SlotOf(Anchor))
      BY <1>1, <2>1, <3>2, AnchorFirst, BlockSlots
    <3> QED
      BY <3>1, <3>2, <3>3, AncestorWalk DEF AncestorRoot
  <2>2. CASE slot < st.slot
    <3>1. get_block_root_at_slot(cached, slot) = get_block_root_at_slot(st, slot)
      BY <1>3, <2>2, CachedRing
    <3>2. st.slot <= slot + SLOTS_PER_HISTORICAL_ROOT
      BY <1>1, <1>3
    <3> QED
      BY <2>2, <3>1, <3>2 DEF ChainInv, Ancestry
  <2> QED
    BY <1>1, <1>3, <2>1, <2>2
<1> HIDE DEF cached
<1>4. get_current_epoch(cached) = get_current_epoch(st)
      /\ get_previous_epoch(cached) = get_previous_epoch(st)
  BY <1>2 DEF get_current_epoch, get_previous_epoch
<1>5. ReadsChain(cached, b)
  BY <1>1, <1>2, <1>3, <1>4, StartsInRing DEF ReadsChain, get_block_root
<1> QED
  BY <1>3, <1>5 DEF cached

(* What weighing an epoch makes of the checkpoints of a state. *)
LEMMA Weighed ==
    ASSUME NEW st \in StateType
    PROVE  LET weighed == process_justification_and_finalization(st)
           IN  IF get_current_epoch(st) <= 1
               THEN weighed = st
               ELSE /\ weighed.previous_justified_checkpoint = st.current_justified_checkpoint
                    /\ weighed.current_justified_checkpoint
                         = NewJustified(st, PreviousWins(st), CurrentWins(st))
                    /\ weighed.finalized_checkpoint \in {st.finalized_checkpoint,
                         st.previous_justified_checkpoint, st.current_justified_checkpoint}
<1>1. get_current_epoch(st) \in Nat
  BY PreviousEpoch DEF StateType, Slot
<1>2. CASE get_current_epoch(st) <= 1
  BY <1>2 DEF process_justification_and_finalization, GENESIS_EPOCH
<1>3. CASE ~(get_current_epoch(st) <= 1)
  <2> DEFINE epoch == get_current_epoch(st)
             bits == UpdatedBits(st.justification_bits, PreviousWins(st), CurrentWins(st))
             justified == NewJustified(st, PreviousWins(st), CurrentWins(st))
             finalized == IF FinalizesOldCurrent(bits, st.current_justified_checkpoint, epoch)
                          THEN st.current_justified_checkpoint
                          ELSE IF FinalizesOldPrevious(bits, st.previous_justified_checkpoint, epoch)
                          THEN st.previous_justified_checkpoint
                          ELSE st.finalized_checkpoint
             weighed == process_justification_and_finalization(st)
  <2>1. weighed = [st EXCEPT !.justification_bits = bits,
                             !.previous_justified_checkpoint = st.current_justified_checkpoint,
                             !.current_justified_checkpoint = justified,
                             !.finalized_checkpoint = finalized]
    BY <1>3 DEF process_justification_and_finalization, weigh_justification_and_finalization,
                PreviousWins, CurrentWins, GENESIS_EPOCH
  <2>2. finalized \in {st.finalized_checkpoint, st.previous_justified_checkpoint,
                       st.current_justified_checkpoint}
    OBVIOUS
  <2> HIDE DEF bits, justified, finalized, weighed
  <2>3. /\ weighed.previous_justified_checkpoint = st.current_justified_checkpoint
        /\ weighed.current_justified_checkpoint = justified
        /\ weighed.finalized_checkpoint = finalized
    BY <2>1 DEF StateType
  <2> QED
    BY <1>3, <2>2, <2>3 DEF weighed, justified
<1> QED
  BY <1>2, <1>3

(* Without a vote for the current epoch it is not justified. *)
LEMMA CurrentNeedsVotes ==
    ASSUME NEW st, st.current_epoch_attestations = {}
    PROVE  ~CurrentWins(st)
<1>1. MatchingTarget(st, st.current_epoch_attestations, get_current_epoch(st)) = {}
  BY DEF MatchingTarget
<1> QED
  BY <1>1, NoVotesNoSupermajority DEF CurrentWins

(* Weighing justifies a block of the chain. *)
LEMMA WeighedOnChain ==
    ASSUME NEW st \in StateType, NEW b \in Block, ReadsChain(st, b), OnChain(st, b)
    PROVE  OnChain(process_justification_and_finalization(st), b)
<1> DEFINE weighed == process_justification_and_finalization(st)
           p == PreviousWins(st)
           c == CurrentWins(st)
           e == get_current_epoch(st)
           n == get_previous_epoch(st)
<1>1. e \in Nat /\ n \in Nat
  BY PreviousEpoch DEF StateType, Slot
<1>2. CASE e <= 1
  BY <1>2, Weighed
<1>3. CASE ~(e <= 1)
  <2>1. /\ weighed.previous_justified_checkpoint = st.current_justified_checkpoint
        /\ weighed.current_justified_checkpoint = NewJustified(st, p, c)
        /\ weighed.finalized_checkpoint \in {st.finalized_checkpoint,
                 st.previous_justified_checkpoint, st.current_justified_checkpoint}
    BY <1>3, Weighed
  <2>2. IsOnChain(NewJustified(st, p, c), b)
    <3>1. CASE c
      <4>1. st.current_epoch_attestations # {}
        BY <3>1, CurrentNeedsVotes
      <4>2. NewJustified(st, p, c) = CheckpointAt(st, e)
        BY <3>1 DEF NewJustified
      <4>3. CheckpointAt(st, e).root = AncestorRoot(b, compute_start_slot_at_epoch(e))
            /\ CheckpointAt(st, e).epoch = e
        BY <4>1 DEF CheckpointAt, ReadsChain
      <4> QED
        BY <1>1, <4>2, <4>3, LaterRoot DEF IsOnChain
    <3>2. CASE ~c /\ p
      <4>1. NewJustified(st, p, c) = CheckpointAt(st, get_previous_epoch(st))
        BY <3>2 DEF NewJustified
      <4>2. e # 0
        BY <1>1, <1>3
      <4>3. CheckpointAt(st, n).root = AncestorRoot(b, compute_start_slot_at_epoch(n))
            /\ CheckpointAt(st, n).epoch = n
        BY <4>2 DEF CheckpointAt, ReadsChain
      <4> QED
        BY <1>1, <4>1, <4>3, LaterRoot DEF IsOnChain
    <3>3. CASE ~c /\ ~p
      BY <3>3 DEF NewJustified, OnChain
    <3> QED
      BY <3>1, <3>2, <3>3
  <2> HIDE DEF weighed
  <2>3. OnChain(weighed, b)
    BY <2>1, <2>2 DEF OnChain
  <2> QED
    BY <2>3 DEF weighed
<1> QED
  BY <1>2, <1>3

(* Two states of an epoch that agree on its votes justify the same epoch. *)
SameVotes(st, q) ==
    /\ get_current_epoch(q) = get_current_epoch(st)
    /\ q.current_justified_checkpoint = st.current_justified_checkpoint
    /\ q.current_epoch_attestations = st.current_epoch_attestations
    /\ q.previous_epoch_attestations = st.previous_epoch_attestations
    /\ q.slashed = st.slashed

LEMMA SameWeighing ==
    ASSUME NEW st \in StateType, NEW q \in StateType, NEW b \in Block, SameVotes(st, q),
           ReadsChain(st, b), ReadsChain(q, b)
    PROVE  process_justification_and_finalization(q).current_justified_checkpoint.epoch
             = process_justification_and_finalization(st).current_justified_checkpoint.epoch
<1> DEFINE e == get_current_epoch(st)
<1>1. e \in Nat /\ get_current_epoch(q) = e
  BY PreviousEpoch DEF StateType, Slot, SameVotes
<1>2. get_previous_epoch(q) = get_previous_epoch(st)
  BY DEF SameVotes, get_previous_epoch
<1>3. CASE e <= 1
  BY <1>1, <1>3, Weighed DEF SameVotes
<1>4. CASE ~(e <= 1)
  <2>1. e # 0
    BY <1>1, <1>4
  <2>2. PreviousWins(q) = PreviousWins(st)
    <3>1. get_block_root(q, get_previous_epoch(q)) = get_block_root(st, get_previous_epoch(st))
      BY <1>1, <1>2, <2>1 DEF ReadsChain
    <3>2. MatchingTarget(q, q.previous_epoch_attestations, get_previous_epoch(q))
            = MatchingTarget(st, st.previous_epoch_attestations, get_previous_epoch(st))
      BY <3>1 DEF MatchingTarget, SameVotes
    <3>3. \A votes : get_attesting_balance(q, votes) = get_attesting_balance(st, votes)
      BY DEF SameVotes, get_attesting_balance, get_unslashed_attesting_indices
    <3> QED
      BY <3>2, <3>3 DEF PreviousWins
  <2>3. CurrentWins(q) = CurrentWins(st)
    <3>1. CASE st.current_epoch_attestations = {}
      <4>1. ~CurrentWins(st) /\ ~CurrentWins(q)
        BY <3>1, CurrentNeedsVotes DEF SameVotes
      <4>2. CurrentWins(st) \in BOOLEAN /\ CurrentWins(q) \in BOOLEAN
        BY DEF CurrentWins, IsSupermajority
      <4> QED
        BY <4>1, <4>2
    <3>2. CASE st.current_epoch_attestations # {}
      <4>1. get_block_root(q, e) = get_block_root(st, e)
        BY <1>1, <3>2 DEF ReadsChain, SameVotes
      <4>2. MatchingTarget(q, q.current_epoch_attestations, get_current_epoch(q))
              = MatchingTarget(st, st.current_epoch_attestations, e)
        BY <1>1, <4>1 DEF MatchingTarget, SameVotes
      <4>3. \A votes : get_attesting_balance(q, votes) = get_attesting_balance(st, votes)
        BY DEF SameVotes, get_attesting_balance, get_unslashed_attesting_indices
      <4> QED
        BY <4>2, <4>3 DEF CurrentWins
    <3> QED
      BY <3>1, <3>2
  <2>4. /\ process_justification_and_finalization(q).current_justified_checkpoint
              = NewJustified(q, PreviousWins(q), CurrentWins(q))
        /\ process_justification_and_finalization(st).current_justified_checkpoint
              = NewJustified(st, PreviousWins(st), CurrentWins(st))
    BY <1>1, <1>4, Weighed
  <2>5. NewJustified(q, PreviousWins(q), CurrentWins(q)).epoch
          = NewJustified(st, PreviousWins(st), CurrentWins(st)).epoch
    BY <1>1, <1>2, <2>2, <2>3 DEF NewJustified, CheckpointAt, SameVotes
  <2> QED
    BY <2>4, <2>5
<1> QED
  BY <1>3, <1>4

--------------------------------------------------------------------------------
(* Advancing a state of the tree *)
LEMMA ChainSlot ==
    ASSUME NEW st \in StateType, NEW b \in Block, ChainInv(st, b)
    PROVE  ChainInv(AdvanceOneSlot(st), b)
<1> DEFINE cached == process_slot(st)
           next == AdvanceOneSlot(st)
<1>1. /\ st.slot \in Nat /\ next.slot = st.slot + 1
      /\ cached \in StateType /\ cached.slot = st.slot
      /\ SLOTS_PER_HISTORICAL_ROOT \in Nat /\ SlotOf(b) \in Nat
  BY AdvanceOneSlotOrdered, ProcessSlotType, HistoricalRootAssumption, BlockSlots
     DEF StateType, Slot
<1>2. get_current_epoch(cached) = get_current_epoch(st)
  BY <1>1 DEF get_current_epoch
<1>3. next.block_roots = cached.block_roots /\ next.latest_block = st.latest_block
  BY AdvancedRoots, CachedRing
<1>4. Ordered(next, get_current_epoch(next))
  BY AdvanceOneSlotOrdered DEF ChainInv
<1>5. Ancestry(next, b)
  <2>1. \A slot \in Nat : slot <= st.slot /\ st.slot < slot + SLOTS_PER_HISTORICAL_ROOT
            => get_block_root_at_slot(cached, slot) = AncestorRoot(b, slot)
    BY ChainCached
  <2>2. \A slot : get_block_root_at_slot(next, slot) = get_block_root_at_slot(cached, slot)
    BY <1>3 DEF get_block_root_at_slot
  <2> HIDE DEF next, cached
  <2> QED
    BY <1>1, <2>1, <2>2 DEF Ancestry
<1>6. Early(next)
  <2>1. CASE IsEpochStart(st.slot + 1)
    BY <2>1, AdvancedRoots DEF Early
  <2>2. CASE ~IsEpochStart(st.slot + 1)
    <3>1. next.current_epoch_attestations = st.current_epoch_attestations
      BY <2>2, AdvancedRoots, CachedRing
    <3>2. get_current_epoch(next) = get_current_epoch(st)
      BY <1>1, <2>2, NextSlotEpoch DEF get_current_epoch
    <3>3. compute_start_slot_at_epoch(get_current_epoch(st)) \in Nat
      BY <1>1, StartsInRing
    <3> HIDE DEF next
    <3> QED
      BY <1>1, <3>1, <3>2, <3>3 DEF ChainInv, Early
  <2> QED
    BY <2>1, <2>2
<1>7. OnChain(next, b)
  <2>1. OnChain(cached, b)
    BY ProcessSlotType DEF ChainInv, OnChain
  <2>2. CASE IsEpochStart(st.slot + 1)
    <3>1. OnChain(process_justification_and_finalization(cached), b)
      BY <1>1, <2>1, ChainCached, WeighedOnChain
    <3>2. Checkpoints(process_epoch(cached))
            = Checkpoints(process_justification_and_finalization(cached))
      BY <1>1, ProcessEpochOrdered
    <3>3. OnChain(process_epoch(cached), b)
      BY <3>1, <3>2 DEF OnChain, Checkpoints
    <3>4. Kept(next) = Kept(process_epoch(cached))
      BY <2>2, AdvancedKeeps
    <3> QED
      BY <3>3, <3>4 DEF Kept, OnChain
  <2>3. CASE ~IsEpochStart(st.slot + 1)
    <3>1. Kept(next) = Kept(cached)
      BY <2>3, AdvancedKeeps
    <3> QED
      BY <2>1, <3>1 DEF Kept, OnChain
  <2> QED
    BY <2>2, <2>3
<1>8. SlotOf(b) <= next.slot /\ next.latest_block.root = b
  <2> HIDE DEF next
  <2> QED
    BY <1>1, <1>3 DEF ChainInv
<1> QED
  BY <1>4, <1>5, <1>6, <1>7, <1>8 DEF ChainInv

(* A state advanced from st: within the epoch it has the same votes, and once past  *)
(* the boundary it has justified what st is pulled up to, or more.                  *)
Follows(st, q) ==
    /\ get_current_epoch(st) <= get_current_epoch(q)
    /\ get_current_epoch(st) = get_current_epoch(q) => SameVotes(st, q)
    /\ get_current_epoch(st) < get_current_epoch(q) =>
            process_justification_and_finalization(st).current_justified_checkpoint.epoch
                <= q.current_justified_checkpoint.epoch

LEMMA FollowsSlot ==
    ASSUME NEW st \in StateType, NEW q \in StateType, NEW b \in Block,
           ChainInv(st, b), ChainInv(q, b), Follows(st, q)
    PROVE  Follows(st, AdvanceOneSlot(q))
<1> DEFINE cached == process_slot(q)
           next == AdvanceOneSlot(q)
           e == get_current_epoch(q)
           pulledUp == process_justification_and_finalization(st)
<1>1. /\ q.slot \in Nat /\ next.slot = q.slot + 1 /\ st.slot \in Nat
      /\ cached \in StateType /\ cached.slot = q.slot
      /\ next \in StateType
  BY AdvanceOneSlotOrdered, ProcessSlotType DEF StateType, Slot
<1>2. /\ e \in Nat /\ get_current_epoch(st) \in Nat
      /\ get_current_epoch(cached) = e
      /\ get_current_epoch(next) = IF IsEpochStart(q.slot + 1) THEN e + 1 ELSE e
  BY <1>1, PreviousEpoch, NextSlotEpoch DEF get_current_epoch
<1>3. get_current_epoch(st) <= get_current_epoch(next)
  <2> HIDE DEF next, e
  <2> QED
    BY <1>2 DEF Follows, e
<1>4. ASSUME get_current_epoch(st) = get_current_epoch(next) PROVE SameVotes(st, next)
  <2>1. ~IsEpochStart(q.slot + 1) /\ get_current_epoch(st) = e
    <3> HIDE DEF next, e
    <3> QED
      BY <1>2, <1>4 DEF Follows, e
  <2>2. SameVotes(st, q)
    BY <2>1 DEF Follows
  <2>3. Kept(next) = Kept(cached)
    BY <2>1, AdvancedKeeps
  <2>4. next.slashed = cached.slashed
    <3>1. next = [cached EXCEPT !.slot = cached.slot + 1]
      BY <2>1 DEF AdvanceOneSlot
    <3> HIDE DEF next, cached
    <3> QED
      BY <1>1, <3>1 DEF StateType
  <2>5. /\ cached.current_justified_checkpoint = q.current_justified_checkpoint
        /\ cached.current_epoch_attestations = q.current_epoch_attestations
        /\ cached.previous_epoch_attestations = q.previous_epoch_attestations
        /\ cached.slashed = q.slashed
    BY ProcessSlotType, CachedRing
  <2>6. /\ next.current_justified_checkpoint = cached.current_justified_checkpoint
        /\ next.current_epoch_attestations = cached.current_epoch_attestations
        /\ next.previous_epoch_attestations = cached.previous_epoch_attestations
    <3> HIDE DEF next, cached
    <3> QED
      BY <2>3 DEF Kept
  <2> HIDE DEF next, cached
  <2> QED
    BY <1>4, <2>2, <2>4, <2>5, <2>6 DEF SameVotes
<1>5. ASSUME get_current_epoch(st) < get_current_epoch(next)
      PROVE  pulledUp.current_justified_checkpoint.epoch
                <= next.current_justified_checkpoint.epoch
  <2>1. /\ q.current_justified_checkpoint.epoch <= next.current_justified_checkpoint.epoch
        /\ q.current_justified_checkpoint.epoch \in Nat
        /\ next.current_justified_checkpoint.epoch \in Nat
        /\ pulledUp.current_justified_checkpoint.epoch \in Nat
    <3>1. q.current_justified_checkpoint.epoch <= next.current_justified_checkpoint.epoch
      BY AdvanceOneSlotOrdered DEF ChainInv, Advances
    <3>2. \A x \in StateType : x.current_justified_checkpoint.epoch \in Nat
      BY DEF StateType, Checkpoint, Epoch
    <3>3. pulledUp \in StateType
      BY JustificationOrdered
    <3> HIDE DEF next, pulledUp
    <3> QED
      BY <1>1, <3>1, <3>2, <3>3
  <2>2. CASE get_current_epoch(st) < e
    <3>1. pulledUp.current_justified_checkpoint.epoch <= q.current_justified_checkpoint.epoch
      BY <2>2 DEF Follows
    <3> HIDE DEF next, pulledUp
    <3> QED
      BY <2>1, <3>1
  <2>3. CASE get_current_epoch(st) = e
    <3>1. IsEpochStart(q.slot + 1)
      <4> HIDE DEF next, e
      <4> QED
        BY <1>2, <1>5, <2>3 DEF Follows, e
    <3>2. SameVotes(st, q)
      BY <2>3 DEF Follows
    <3>3. /\ cached.current_justified_checkpoint = q.current_justified_checkpoint
          /\ cached.current_epoch_attestations = q.current_epoch_attestations
          /\ cached.previous_epoch_attestations = q.previous_epoch_attestations
          /\ cached.slashed = q.slashed
      BY ProcessSlotType, CachedRing
    <3>4. SameVotes(st, cached)
      <4> HIDE DEF cached
      <4> QED
        BY <1>2, <3>2, <3>3 DEF SameVotes
    <3>5. ReadsChain(st, b) /\ ReadsChain(cached, b)
      BY ChainReads, ChainCached
    <3>6. process_justification_and_finalization(cached).current_justified_checkpoint.epoch
            = pulledUp.current_justified_checkpoint.epoch
      <4> HIDE DEF cached
      <4> QED
        BY <1>1, <3>4, <3>5, SameWeighing
    <3>7. process_epoch(cached).current_justified_checkpoint
            = process_justification_and_finalization(cached).current_justified_checkpoint
      BY <1>1, ProcessEpochOrdered DEF Checkpoints
    <3>8. next.current_justified_checkpoint = process_epoch(cached).current_justified_checkpoint
      BY <3>1, AdvancedKeeps DEF Kept
    <3> HIDE DEF next, pulledUp, cached
    <3> QED
      BY <2>1, <3>6, <3>7, <3>8
  <2>4. get_current_epoch(st) <= e
    BY DEF Follows
  <2> HIDE DEF e
  <2> QED
    BY <1>2, <2>2, <2>3, <2>4
<1> HIDE DEF next
<1> QED
  BY <1>3, <1>4, <1>5 DEF Follows, next

LEMMA ChainSlots ==
    ASSUME NEW st \in StateType, NEW b \in Block, ChainInv(st, b),
           NEW n \in Nat, st.slot <= n
    PROVE  LET q == process_slots(st, n)
           IN  q \in StateType /\ q.slot = n /\ ChainInv(q, b) /\ Follows(st, q)
<1> DEFINE D == st.slot .. n
           Good(s, q) == q \in StateType /\ q.slot = s /\ ChainInv(q, b) /\ Follows(st, q)
<1>1. st.slot \in Nat
  BY DEF StateType, Slot
<1>2. PICK f \in [D -> StateType] :
          /\ process_slots(st, n) = f[n]
          /\ f[st.slot] = st
          /\ \A s \in D : s # st.slot => f[s] = AdvanceOneSlot(f[s - 1])
  BY SlotTurns
<1> DEFINE rank == [s \in D |-> s]
           T == {s \in D : Good(s, f[s])}
<1>3. \A s \in D : rank[s] \in Nat
  BY <1>1
<1>4. ASSUME NEW s \in D, \A e \in D : rank[e] < rank[s] => e \in T PROVE s \in T
  <2>1. CASE s = st.slot
    <3>1. Follows(st, st)
      BY <1>1, PreviousEpoch DEF Follows, SameVotes
    <3> QED
      BY <1>2, <2>1, <3>1
  <2>2. CASE s # st.slot
    <3>1. s - 1 \in D /\ rank[s - 1] < rank[s] /\ s \in Nat
      BY <1>1, <2>2
    <3>2. Good(s - 1, f[s - 1])
      BY <1>4, <3>1
    <3>3. f[s] = AdvanceOneSlot(f[s - 1])
      BY <1>2, <2>2
    <3> DEFINE q == f[s - 1]
    <3>4. q \in StateType /\ q.slot = s - 1 /\ ChainInv(q, b) /\ Follows(st, q)
      BY <3>2
    <3> HIDE DEF q
    <3>5. AdvanceOneSlot(q) \in StateType /\ AdvanceOneSlot(q).slot = s
      BY <3>1, <3>4, AdvanceOneSlotOrdered
    <3>6. ChainInv(AdvanceOneSlot(q), b)
      BY <3>4, ChainSlot
    <3>7. Follows(st, AdvanceOneSlot(q))
      BY <3>4, FollowsSlot
    <3>8. f[s] = AdvanceOneSlot(q)
      BY <3>3 DEF q
    <3> QED
      BY <3>5, <3>6, <3>7, <3>8
  <2> QED
    BY <2>1, <2>2
<1>5. \A s \in D : s \in T
  <2> HIDE DEF T, rank, D
  <2> QED
    BY <1>3, <1>4, RankInduction
<1>6. n \in D
  BY <1>1
<1>7. Good(n, f[n])
  BY <1>5, <1>6
<1> QED
  BY <1>2, <1>7

--------------------------------------------------------------------------------
(* The states of the blocks *)
(* A checkpoint of a state is of an epoch before the state's own. *)
LEMMA CheckpointBefore ==
    ASSUME NEW st \in StateType, Ordered(st, get_current_epoch(st)),
           NEW c \in {st.finalized_checkpoint, st.previous_justified_checkpoint,
                      st.current_justified_checkpoint},
           c.epoch > 0
    PROVE  /\ compute_start_slot_at_epoch(c.epoch) \in Nat
           /\ compute_start_slot_at_epoch(c.epoch) < st.slot
<1>1. /\ st.slot \in Nat
      /\ st.finalized_checkpoint.epoch \in Nat
      /\ st.previous_justified_checkpoint.epoch \in Nat
      /\ st.current_justified_checkpoint.epoch \in Nat
      /\ c.epoch \in Nat
  BY DEF StateType, Slot, Checkpoint, Epoch
<1>2. get_current_epoch(st) \in Nat
  BY <1>1, PreviousEpoch
<1>3. c.epoch < get_current_epoch(st)
  BY <1>1, <1>2 DEF Ordered, GENESIS_EPOCH
<1>4. /\ compute_start_slot_at_epoch(c.epoch) \in Nat
      /\ compute_start_slot_at_epoch(c.epoch)
            < compute_start_slot_at_epoch(get_current_epoch(st))
  BY <1>1, <1>2, <1>3, LaterStart
<1>5. /\ compute_start_slot_at_epoch(get_current_epoch(st)) \in Nat
      /\ compute_start_slot_at_epoch(get_current_epoch(st)) <= st.slot
  BY <1>1, StartsInRing
<1> QED
  BY <1>1, <1>4, <1>5

LEMMA TreeBlockInput ==
    ASSUME BlockTypes, NEW st \in StateType, NEW b \in Block,
           CanProcessBlock(st, BeaconBlock[b])
    PROVE  BlockInput(st, BeaconBlock[b])
<1> DEFINE block == BeaconBlock[b]
<1>1. block.slot \in Slot /\ block.root \in Root
  BY TreeAssumption DEF BlockTypes, SlotOf
<1>2. \A e \in block.attester_slashings : NewlySlashed(st, e) \subseteq Validator
  BY DEF BlockTypes, NewlySlashed
<1>3. ASSUME NEW a \in block.attestations
      PROVE  PendingAttestation(a) \in PendingAttestations /\ CanProcessAttestation(st, a)
  <2>1. CanProcessAttestation(st, a)
    BY <1>3 DEF CanProcessBlock
  <2>2. a.source \in Checkpoint
    BY <2>1 DEF CanProcessAttestation, StateType
  <2>3. a.target \in Checkpoint /\ a.attesting_indices \in SUBSET Validator
    BY <1>3 DEF BlockTypes
  <2> QED
    BY <2>1, <2>2, <2>3 DEF PendingAttestation, PendingAttestations
<1> QED
  BY <1>1, <1>2, <1>3 DEF BlockInput

LEMMA ChainBlock ==
    ASSUME BlockTypes, NEW b \in Block \ {Anchor}, NEW q \in StateType,
           q.slot = SlotOf(b), ChainInv(q, ParentOf(b)), CanProcessBlock(q, BeaconBlock[b])
    PROVE  LET next == process_block(q, BeaconBlock[b])
           IN  /\ next \in StateType /\ next.slot = SlotOf(b)
               /\ Checkpoints(next) = Checkpoints(q)
               /\ ChainInv(next, b)
<1> DEFINE block == BeaconBlock[b]
           parent == ParentOf(b)
           next == process_block(q, block)
<1>1. BlockInput(q, block)
  BY TreeBlockInput
<1>2. /\ next \in StateType
      /\ next.slot = q.slot
      /\ Checkpoints(next) = Checkpoints(q)
      /\ next.block_roots = q.block_roots
      /\ next.latest_block.root = block.root
      /\ \A a \in next.current_epoch_attestations \ q.current_epoch_attestations :
            \E v \in block.attestations : v.target.epoch = get_current_epoch(q)
  <2> HIDE DEF block
  <2> QED
    BY <1>1, ProcessBlockType
<1>3. /\ b \in Block /\ b # Anchor /\ parent \in Block /\ SlotOf(b) \in Nat
      /\ q.slot \in Nat /\ block.root = b
  BY BlockSlots DEF BlockTypes, StateType, Slot
<1>4. \A slot \in Nat : slot < SlotOf(b) => get_ancestor(b, slot) = get_ancestor(parent, slot)
  BY <1>3, AncestorWalk
<1> HIDE DEF next, parent
<1>5. /\ next.finalized_checkpoint = q.finalized_checkpoint
      /\ next.previous_justified_checkpoint = q.previous_justified_checkpoint
      /\ next.current_justified_checkpoint = q.current_justified_checkpoint
      /\ get_current_epoch(next) = get_current_epoch(q)
  BY <1>2 DEF Checkpoints, get_current_epoch
<1>6. Ordered(next, get_current_epoch(next))
  BY <1>5 DEF ChainInv, Ordered
<1>7. Ancestry(next, b)
  <2>1. Ancestry(q, parent)
    BY DEF ChainInv, parent
  <2>2. \A slot \in Nat : slot < SlotOf(b) => AncestorRoot(b, slot) = AncestorRoot(parent, slot)
    BY <1>4 DEF AncestorRoot
  <2> QED
    BY <1>2, <2>1, <2>2 DEF Ancestry, get_block_root_at_slot
<1>8. Early(next)
  <2>1. CASE q.current_epoch_attestations # {}
    BY <1>2, <1>5, <2>1 DEF ChainInv, Early
  <2>2. CASE q.current_epoch_attestations = {}
    <3> SUFFICES ASSUME next.current_epoch_attestations # {}
                 PROVE  compute_start_slot_at_epoch(get_current_epoch(q)) < q.slot
      BY <1>2, <1>5 DEF Early
    <3>1. PICK v \in block.attestations : v.target.epoch = get_current_epoch(q)
      BY <1>2, <2>2
    <3>2. CanProcessAttestation(q, v)
      BY DEF CanProcessBlock
    <3>3. v.slot \in Nat
      BY DEF BlockTypes, Slot
    <3>4. /\ get_current_epoch(q) = compute_epoch_at_slot(v.slot)
          /\ v.slot + MIN_ATTESTATION_INCLUSION_DELAY <= q.slot
      BY <3>1, <3>2 DEF CanProcessAttestation
    <3>5. v.slot < q.slot
      BY <1>3, <3>3, <3>4, InclusionDelayAssumption
    <3>6. /\ compute_start_slot_at_epoch(compute_epoch_at_slot(v.slot)) \in Nat
          /\ compute_start_slot_at_epoch(compute_epoch_at_slot(v.slot)) <= v.slot
      BY <3>3, SlotInEpoch
    <3> QED
      BY <1>3, <3>3, <3>4, <3>5, <3>6
  <2> QED
    BY <2>1, <2>2
<1>9. OnChain(next, b)
  <2>1. ASSUME NEW c \in {q.finalized_checkpoint, q.previous_justified_checkpoint,
                          q.current_justified_checkpoint}
        PROVE  IsOnChain(c, b)
    <3> SUFFICES ASSUME c.epoch > AnchorEpoch PROVE c.root = get_checkpoint_block(b, c.epoch)
      BY DEF IsOnChain
    <3>0. c.epoch > 0
      <4>1. c.epoch \in Nat /\ AnchorEpoch \in Nat
        BY AnchorFirst DEF StateType, Checkpoint, Epoch
      <4> QED
        BY <4>1
    <3>1. /\ compute_start_slot_at_epoch(c.epoch) \in Nat
          /\ compute_start_slot_at_epoch(c.epoch) < q.slot
      BY <3>0, CheckpointBefore DEF ChainInv
    <3>2. c.root = get_checkpoint_block(parent, c.epoch)
      BY DEF ChainInv, OnChain, IsOnChain, parent
    <3> QED
      BY <1>4, <3>1, <3>2 DEF get_checkpoint_block
  <2> QED
    BY <1>5, <2>1 DEF OnChain
<1>10. SlotOf(b) <= next.slot /\ next.latest_block.root = b
  BY <1>2, <1>3
<1>11. ChainInv(next, b)
  BY <1>6, <1>7, <1>8, <1>9, <1>10 DEF ChainInv
<1> QED
  BY <1>2, <1>11 DEF next

LEMMA ChainAnchor ==
    ASSUME StatesAreComputed
    PROVE  LET st == BlockState[Anchor]
           IN  st \in StateType /\ st.slot = SlotOf(Anchor) /\ ChainInv(st, Anchor)
<1> DEFINE st == BlockState[Anchor]
<1>1. /\ AnchorState(st) /\ st.slot = SlotOf(Anchor) /\ st.latest_block.root = Anchor
      /\ st \in StateType
  BY DEF StatesAreComputed, AnchorState
<1>2. /\ st.slot \in Nat /\ AnchorEpoch \in Nat
      /\ get_current_epoch(st) = AnchorEpoch
  BY <1>1, AnchorFirst DEF StateType, Slot, get_current_epoch, AnchorEpoch, EpochOf
<1>3. Ordered(st, get_current_epoch(st))
  BY <1>1 DEF AnchorState, Ordered
<1>4. Ancestry(st, Anchor)
  BY <1>1 DEF Ancestry, AncestorRoot
<1>5. Early(st)
  BY <1>1 DEF AnchorState, Early
<1>6. OnChain(st, Anchor)
  <2>1. /\ st.finalized_checkpoint.epoch \in Nat
        /\ st.previous_justified_checkpoint.epoch \in Nat
        /\ st.current_justified_checkpoint.epoch \in Nat
    BY <1>1 DEF StateType, Checkpoint, Epoch
  <2> HIDE DEF st
  <2>2. /\ st.finalized_checkpoint.epoch <= AnchorEpoch
        /\ st.previous_justified_checkpoint.epoch <= AnchorEpoch
        /\ st.current_justified_checkpoint.epoch <= AnchorEpoch
    BY <1>2, <1>3, <2>1 DEF Ordered, GENESIS_EPOCH
  <2> QED
    BY <1>2, <2>1, <2>2 DEF OnChain, IsOnChain
<1>7. SlotOf(Anchor) <= st.slot
  BY <1>1, <1>2
<1> QED
  BY <1>1, <1>3, <1>4, <1>5, <1>6, <1>7 DEF ChainInv

(* The state of a valid block, at its slot and on its chain. *)
LEMMA TreeStates ==
    ASSUME BlockTypes, StatesAreComputed
    PROVE  \A b \in DOMAIN BlockState :
               /\ b \in Block
               /\ BlockState[b] \in StateType
               /\ BlockState[b].slot = SlotOf(b)
               /\ ChainInv(BlockState[b], b)
<1> DEFINE D == DOMAIN BlockState
           Good(b) == /\ BlockState[b] \in StateType
                      /\ BlockState[b].slot = SlotOf(b)
                      /\ ChainInv(BlockState[b], b)
           rank == [b \in D |-> SlotOf(b)]
           T == {b \in D : Good(b)}
<1>1. D \subseteq Block
  BY TreeAssumption
<1>2. \A b \in D : rank[b] \in Nat
  BY <1>1, BlockSlots
<1>3. ASSUME NEW b \in D, \A e \in D : rank[e] < rank[b] => e \in T PROVE b \in T
  <2>1. CASE b = Anchor
    BY <2>1, ChainAnchor
  <2>2. CASE b # Anchor
    <3> DEFINE p == ParentOf(b)
               st == BlockState[p]
               q == process_slots(st, SlotOf(b))
    <3>1. b \in ValidBlock /\ b \in Block \ {Anchor}
      BY <1>1, <2>2 DEF ValidBlock
    <3>2. /\ p \in D
          /\ st.slot < SlotOf(b) /\ CanProcessBlock(q, BeaconBlock[b])
          /\ BlockState[b] = process_block(q, BeaconBlock[b])
      BY <3>1 DEF StatesAreComputed, CanTransition, state_transition, SlotOf
    <3>3. rank[p] < rank[b]
      BY <3>1, <3>2, BlockSlots
    <3>4. Good(p)
      BY <1>3, <3>2, <3>3
    <3>5. p \in Block /\ SlotOf(b) \in Nat /\ st.slot \in Nat
      BY <1>1, <3>1, <3>2, <3>4, BlockSlots
    <3>6. q \in StateType /\ q.slot = SlotOf(b) /\ ChainInv(q, p)
      <4>1. st.slot <= SlotOf(b)
        BY <3>2, <3>5
      <4> HIDE DEF st, p
      <4> QED
        BY <3>4, <3>5, <4>1, ChainSlots DEF st
    <3> HIDE DEF q
    <3>7. Good(b)
      BY <3>1, <3>2, <3>6, ChainBlock
    <3> QED
      BY <3>7
  <2> QED
    BY <2>1, <2>2
<1>4. \A b \in D : b \in T
  <2> HIDE DEF T, rank, D
  <2> QED
    BY <1>2, <1>3, RankInduction
<1> QED
  BY <1>1, <1>4

(* A block's state has justified what its parent's has, an epoch on what that is     *)
(* pulled up to.                                                                     *)
LEMMA ParentJustified ==
    ASSUME BlockTypes, StatesAreComputed, NEW b \in ValidBlock, ParentOf(b) \in ValidBlock
    PROVE  (IF EpochOf(ParentOf(b)) < EpochOf(b)
            THEN PulledUpState[ParentOf(b)]
            ELSE BlockState[ParentOf(b)]).current_justified_checkpoint.epoch
                <= BlockState[b].current_justified_checkpoint.epoch
<1> DEFINE p == ParentOf(b)
           st == BlockState[p]
           q == process_slots(st, SlotOf(b))
<1>1. b \in DOMAIN BlockState /\ p \in DOMAIN BlockState /\ b # Anchor
  BY DEF ValidBlock
<1>2. /\ b \in Block \ {Anchor} /\ p \in Block
      /\ st \in StateType /\ st.slot = SlotOf(p) /\ ChainInv(st, p)
  BY <1>1, TreeStates
<1>3. /\ st.slot < SlotOf(b) /\ CanProcessBlock(q, BeaconBlock[b])
      /\ BlockState[b] = process_block(q, BeaconBlock[b])
      /\ PulledUpState[p] = process_justification_and_finalization(st)
  BY <1>1 DEF StatesAreComputed, CanTransition, state_transition, SlotOf
<1>4. st.slot \in Nat /\ SlotOf(b) \in Nat
  BY <1>2, BlockSlots
<1>5. /\ q \in StateType /\ q.slot = SlotOf(b) /\ ChainInv(q, p)
      /\ Follows(st, q)
  <2>1. st.slot <= SlotOf(b)
    BY <1>3, <1>4
  <2> HIDE DEF st, p
  <2> QED
    BY <1>2, <1>4, <2>1, ChainSlots
<1> HIDE DEF q
<1>6. BlockState[b].current_justified_checkpoint = q.current_justified_checkpoint
  BY <1>2, <1>3, <1>5, ChainBlock DEF Checkpoints
<1>7. get_current_epoch(st) = EpochOf(p) /\ get_current_epoch(q) = EpochOf(b)
  BY <1>2, <1>5 DEF get_current_epoch, EpochOf
<1>8. EpochOf(p) \in Nat /\ EpochOf(b) \in Nat
  BY <1>2, <1>4, EpochInNat DEF EpochOf
<1>9. q.current_justified_checkpoint.epoch \in Nat
  BY <1>5 DEF StateType, Checkpoint, Epoch
<1> HIDE DEF st, p
<1>10. CASE EpochOf(p) < EpochOf(b)
  BY <1>3, <1>5, <1>6, <1>7, <1>10 DEF Follows, p, st
<1>11. CASE ~(EpochOf(p) < EpochOf(b))
  <2>1. SameVotes(st, q)
    BY <1>5, <1>7, <1>8, <1>11 DEF Follows
  <2>2. st.current_justified_checkpoint.epoch <= q.current_justified_checkpoint.epoch
    BY <1>9, <2>1 DEF SameVotes
  <2> QED
    BY <1>6, <1>11, <2>2 DEF p, st
<1> QED
  BY <1>10, <1>11

(* The loop of process_slots, from its end: one turn after the slot before.          *)
LEMMA LastTurn ==
    ASSUME NEW st \in StateType, NEW n \in Nat, st.slot <= n
    PROVE  /\ process_slots(st, n) \in StateType
           /\ process_slots(st, n).slot = n
           /\ process_slots(st, st.slot) = st
           /\ st.slot < n => process_slots(st, n) = AdvanceOneSlot(process_slots(st, n - 1))
<1>1. st.slot \in Nat
  BY DEF StateType, Slot
<1>2. PICK f \in [st.slot .. n -> StateType] :
          /\ process_slots(st, n) = f[n]
          /\ f[st.slot] = st
          /\ \A s \in st.slot .. n : s # st.slot => f[s] = AdvanceOneSlot(f[s - 1])
  BY SlotTurns
<1>3. process_slots(st, n) \in StateType /\ process_slots(st, n).slot = n
  <2> DEFINE D == st.slot .. n
             rank == [s \in D |-> s]
             T == {s \in D : f[s].slot = s}
  <2>1. n \in D
    BY <1>1
  <2>2. \A s \in D : rank[s] \in Nat
    BY <1>1
  <2>3. ASSUME NEW s \in D, \A e \in D : rank[e] < rank[s] => e \in T PROVE s \in T
    <3>1. CASE s = st.slot
      BY <1>2, <3>1
    <3>2. CASE s # st.slot
      <4>1. s - 1 \in D /\ rank[s - 1] < rank[s] /\ s \in Nat
        BY <1>1, <3>2
      <4>2. f[s - 1] \in StateType /\ f[s - 1].slot = s - 1
        BY <1>2, <2>3, <4>1
      <4>3. f[s] = AdvanceOneSlot(f[s - 1])
        BY <1>2, <3>2
      <4>4. f[s].slot = (s - 1) + 1
        BY <4>2, <4>3, AdvanceOneSlotOrdered
      <4> QED
        BY <4>1, <4>4
    <3> QED
      BY <3>1, <3>2
  <2>4. \A s \in D : s \in T
    <3> HIDE DEF T, rank, D
    <3> QED
      BY <2>2, <2>3, RankInduction
  <2> QED
    BY <1>2, <2>1, <2>4
<1>4. process_slots(st, st.slot) = st
  BY <1>1, SlotTurns
<1>5. ASSUME st.slot < n
      PROVE  process_slots(st, n) = AdvanceOneSlot(process_slots(st, n - 1))
  <2>1. n - 1 \in Nat /\ st.slot <= n - 1
    BY <1>1, <1>5
  <2>2. PICK g \in [st.slot .. n - 1 -> StateType] :
            /\ process_slots(st, n - 1) = g[n - 1]
            /\ g[st.slot] = st
            /\ \A s \in st.slot .. n - 1 : s # st.slot => g[s] = AdvanceOneSlot(g[s - 1])
    BY <2>1, SlotTurns
  <2> DEFINE D == st.slot .. n - 1
             rank == [s \in D |-> s]
             T == {s \in D : f[s] = g[s]}
  <2>3. \A s \in D : rank[s] \in Nat
    BY <1>1
  <2>4. ASSUME NEW s \in D, \A e \in D : rank[e] < rank[s] => e \in T PROVE s \in T
    <3>1. CASE s = st.slot
      BY <1>2, <2>2, <3>1
    <3>2. CASE s # st.slot
      <4>1. s - 1 \in D /\ rank[s - 1] < rank[s] /\ s \in st.slot .. n
        BY <1>1, <3>2
      <4>2. f[s - 1] = g[s - 1]
        BY <2>4, <4>1
      <4> QED
        BY <1>2, <2>2, <3>2, <4>1, <4>2
    <3> QED
      BY <3>1, <3>2
  <2>5. \A s \in D : s \in T
    <3> HIDE DEF T, rank, D
    <3> QED
      BY <2>3, <2>4, RankInduction
  <2>6. n - 1 \in D
    BY <1>1, <2>1
  <2>7. f[n - 1] = g[n - 1]
    BY <2>5, <2>6
  <2>8. f[n] = AdvanceOneSlot(f[n - 1])
    BY <1>1, <1>2, <1>5
  <2> QED
    BY <1>2, <2>2, <2>7, <2>8
<1> QED
  BY <1>3, <1>4, <1>5

LEMMA EpochMonotone ==
    ASSUME NEW m \in Nat, NEW n \in Nat, m <= n
    PROVE  compute_epoch_at_slot(m) <= compute_epoch_at_slot(n)
BY SlotsAssumption DEF compute_epoch_at_slot

(* No checkpoint moves before the end of the epoch.                                   *)
LEMMA EpochKeepsCheckpoints ==
    ASSUME NEW st \in StateType, NEW m \in Nat, NEW n \in Nat, st.slot <= m, m <= n,
           compute_epoch_at_slot(m) = compute_epoch_at_slot(n)
    PROVE  Checkpoints(process_slots(st, n)) = Checkpoints(process_slots(st, m))
<1>0. st.slot \in Nat
  BY DEF StateType, Slot
<1> DEFINE D == m .. n
           rank == [s \in D |-> s]
           T == {s \in D : Checkpoints(process_slots(st, s)) = Checkpoints(process_slots(st, m))}
<1>1. \A s \in D : rank[s] \in Nat
  OBVIOUS
<1>2. ASSUME NEW s \in D, \A e \in D : rank[e] < rank[s] => e \in T PROVE s \in T
  <2>1. CASE s = m
    BY <2>1
  <2>2. CASE s # m
    <3> DEFINE q == process_slots(st, s - 1)
               cached == process_slot(q)
    <3>1. /\ s - 1 \in D /\ rank[s - 1] < rank[s] /\ s \in Nat /\ s - 1 \in Nat
          /\ st.slot \in Nat /\ st.slot < s /\ st.slot <= s - 1 /\ m <= s - 1 /\ s <= n
      BY <2>2 DEF StateType, Slot
    <3>2. Checkpoints(q) = Checkpoints(process_slots(st, m))
      BY <1>2, <3>1
    <3>3. process_slots(st, s) = AdvanceOneSlot(q) /\ q \in StateType
      BY <3>1, LastTurn
    <3>4. q.slot = s - 1
      BY <3>1, LastTurn
    <3>5. ~IsEpochStart(s)
      <4>1. /\ compute_epoch_at_slot(m) <= compute_epoch_at_slot(s - 1)
            /\ compute_epoch_at_slot(s) <= compute_epoch_at_slot(n)
            /\ compute_epoch_at_slot(s) = IF IsEpochStart(s) THEN compute_epoch_at_slot(s - 1) + 1
                                          ELSE compute_epoch_at_slot(s - 1)
        <5>1. compute_epoch_at_slot((s - 1) + 1)
                = IF IsEpochStart((s - 1) + 1) THEN compute_epoch_at_slot(s - 1) + 1
                                               ELSE compute_epoch_at_slot(s - 1)
          BY <3>1, NextSlotEpoch
        <5>2. (s - 1) + 1 = s
          BY <3>1
        <5>3. /\ compute_epoch_at_slot(m) <= compute_epoch_at_slot(s - 1)
              /\ compute_epoch_at_slot(s) <= compute_epoch_at_slot(n)
          BY <3>1, EpochMonotone
        <5> QED
          BY <5>1, <5>2, <5>3
      <4>2. compute_epoch_at_slot(s) \in Nat /\ compute_epoch_at_slot(s - 1) \in Nat
            /\ compute_epoch_at_slot(m) \in Nat /\ compute_epoch_at_slot(n) \in Nat
        BY <3>1, EpochInNat
      <4> QED
        BY <4>1, <4>2
    <3> HIDE DEF q
    <3>6. Kept(AdvanceOneSlot(q)) = Kept(cached)
      <4>1. ~IsEpochStart(q.slot + 1)
        BY <3>1, <3>4, <3>5
      <4> QED
        BY <3>3, <4>1, AdvancedKeeps
    <3>7. Checkpoints(AdvanceOneSlot(q)) = Checkpoints(q)
      BY <3>3, <3>6, ProcessSlotType DEF Kept, Checkpoints
    <3> QED
      BY <3>2, <3>3, <3>7
  <2> QED
    BY <2>1, <2>2
<1>3. \A s \in D : s \in T
  <2> HIDE DEF T, rank, D
  <2> QED
    BY <1>1, <1>2, RankInduction
<1> QED
  BY <1>3

(* Blocks of one epoch on one parent start from one state: what the parent's has     *)
(* become at the first of their slots, with the checkpoints it keeps until the other. *)
LEMMA SiblingCheckpoints ==
    ASSUME BlockTypes, StatesAreComputed, NEW b \in ValidBlock, NEW c \in ValidBlock,
           ParentOf(c) = ParentOf(b), EpochOf(c) = EpochOf(b)
    PROVE  Checkpoints(BlockState[c]) = Checkpoints(BlockState[b])
<1> DEFINE p == ParentOf(b)
           st == BlockState[p]
           At(x) == process_slots(st, SlotOf(x))
<1>1. /\ p \in DOMAIN BlockState /\ p \in Block
      /\ st \in StateType /\ st.slot \in Nat /\ ChainInv(st, p)
  <2>1. p \in DOMAIN BlockState
    BY DEF StatesAreComputed
  <2> QED
    BY <2>1, TreeStates DEF StateType, Slot
<1> HIDE DEF st, p
<1>2. ASSUME NEW x \in ValidBlock, ParentOf(x) = p
      PROVE  /\ SlotOf(x) \in Nat /\ st.slot <= SlotOf(x)
             /\ Checkpoints(BlockState[x]) = Checkpoints(At(x))
  <2>1. x \in Block \ {Anchor} /\ SlotOf(x) \in Nat
    BY TreeAssumption, BlockSlots DEF ValidBlock
  <2>2. /\ st.slot < SlotOf(x) /\ CanProcessBlock(At(x), BeaconBlock[x])
        /\ BlockState[x] = process_block(At(x), BeaconBlock[x])
    BY <1>2 DEF StatesAreComputed, CanTransition, state_transition, SlotOf, st
  <2>3. st.slot <= SlotOf(x)
    BY <1>1, <2>1, <2>2
  <2>4. At(x) \in StateType /\ At(x).slot = SlotOf(x) /\ ChainInv(At(x), p)
    BY <1>1, <2>1, <2>3, ChainSlots
  <2> HIDE DEF At
  <2> QED
    BY <1>2, <2>1, <2>2, <2>3, <2>4, ChainBlock
<1>3. /\ SlotOf(b) \in Nat /\ st.slot <= SlotOf(b) /\ SlotOf(c) \in Nat /\ st.slot <= SlotOf(c)
      /\ Checkpoints(BlockState[b]) = Checkpoints(At(b))
      /\ Checkpoints(BlockState[c]) = Checkpoints(At(c))
  BY <1>2 DEF p
<1>4. compute_epoch_at_slot(SlotOf(b)) = compute_epoch_at_slot(SlotOf(c))
  BY DEF EpochOf
<1>5. Checkpoints(At(c)) = Checkpoints(At(b))
  <2>1. CASE SlotOf(b) <= SlotOf(c)
    BY <1>1, <1>3, <1>4, <2>1, EpochKeepsCheckpoints
  <2>2. CASE SlotOf(c) <= SlotOf(b)
    BY <1>1, <1>3, <1>4, <2>2, EpochKeepsCheckpoints
  <2> QED
    BY <1>3, <2>1, <2>2
<1> QED
  BY <1>3, <1>5

LEMMA EpochCheckpoints ==
    ASSUME BlockTypes, StatesAreComputed
    PROVE  StatesOfEpoch
<1>1. ASSUME NEW b \in ValidBlock, BlockState[b].current_justified_checkpoint.epoch > AnchorEpoch
      PROVE  BlockState[b].current_justified_checkpoint.epoch < EpochOf(b)
  <2>1. b \in DOMAIN BlockState
    BY DEF ValidBlock
  <2>2. /\ BlockState[b] \in StateType /\ BlockState[b].slot = SlotOf(b)
        /\ ChainInv(BlockState[b], b)
    BY <2>1, TreeStates
  <2>3. /\ BlockState[b].current_justified_checkpoint.epoch \in Nat /\ AnchorEpoch \in Nat
    BY <2>2, AnchorFirst DEF StateType, Checkpoint, Epoch
  <2>4. \/ BlockState[b].current_justified_checkpoint.epoch < get_current_epoch(BlockState[b])
        \/ BlockState[b].current_justified_checkpoint.epoch = 0
    BY <2>2 DEF ChainInv, Ordered, GENESIS_EPOCH
  <2> QED
    BY <1>1, <2>2, <2>3, <2>4 DEF get_current_epoch, EpochOf
<1>2. ASSUME NEW b \in ValidBlock, NEW c \in ValidBlock,
             ParentOf(c) = ParentOf(b), EpochOf(c) = EpochOf(b)
      PROVE  /\ BlockState[c].current_justified_checkpoint
                     = BlockState[b].current_justified_checkpoint
             /\ BlockState[c].finalized_checkpoint = BlockState[b].finalized_checkpoint
  BY <1>2, SiblingCheckpoints DEF Checkpoints
<1> QED
  BY <1>1, <1>2 DEF StatesOfEpoch

(* The states of a block tree grown from a trusted state, each state_transition of  *)
(* its parent's and pulled up by process_justification_and_finalization, are what the   *)
(* fork choice takes them to be (StateAssumption, ChainAssumption, EpochAssumption of *)
(* ForkChoice): pulling up lowers no checkpoint, every checkpoint is a block of the   *)
(* state's own chain, read from the ring of block roots, a block starts from what its *)
(* parent has justified, or, an epoch later, from what its parent is pulled up to,    *)
(* and the checkpoints of a state move at the end of an epoch only.                   *)
THEOREM StatesAsAssumed ==
    BlockTypes /\ StatesAreComputed => StatesOrdered /\ StatesOnChain /\ StatesOfEpoch
<1> SUFFICES ASSUME BlockTypes, StatesAreComputed
             PROVE  StatesOrdered /\ StatesOnChain /\ StatesOfEpoch
  OBVIOUS
<1>1. ASSUME NEW b \in ValidBlock
      PROVE  LET st == BlockState[b]
                 pulledUp == PulledUpState[b]
             IN  /\ st \in StateType /\ pulledUp \in StateType
                 /\ EpochOf(b) \in Nat
                 /\ Ordered(st, EpochOf(b)) /\ Ordered(pulledUp, EpochOf(b) + 1)
                 /\ Advances(st, pulledUp)
                 /\ OnChain(st, b) /\ OnChain(pulledUp, b)
  <2> DEFINE st == BlockState[b]
             weighed == process_justification_and_finalization(st)
  <2>1. b \in DOMAIN BlockState
    BY DEF ValidBlock
  <2>2. b \in Block /\ st \in StateType /\ st.slot = SlotOf(b) /\ ChainInv(st, b)
    BY <2>1, TreeStates
  <2>3. PulledUpState[b] = weighed
    BY <2>1 DEF StatesAreComputed
  <2>4. get_current_epoch(st) = EpochOf(b) /\ EpochOf(b) \in Nat
    BY <2>2, PreviousEpoch, EpochInNat DEF get_current_epoch, EpochOf, StateType, Slot
  <2> HIDE DEF st
  <2>5. OnChain(weighed, b)
    BY <2>2, ChainReads, WeighedOnChain DEF ChainInv
  <2>6. /\ weighed \in StateType /\ Ordered(weighed, EpochOf(b) + 1) /\ Advances(st, weighed)
    BY <2>2, <2>4, JustificationOrdered DEF ChainInv
  <2>7. Ordered(st, EpochOf(b)) /\ OnChain(st, b)
    BY <2>2, <2>4 DEF ChainInv
  <2> QED
    BY <2>2, <2>3, <2>4, <2>5, <2>6, <2>7 DEF st
<1>2. \A x \in StateType : {x.current_justified_checkpoint, x.finalized_checkpoint}
                                \subseteq Checkpoint
  BY DEF StateType
<1>3. \A x \in StateType : /\ x.current_justified_checkpoint.epoch \in Nat
                           /\ x.previous_justified_checkpoint.epoch \in Nat
                           /\ x.finalized_checkpoint.epoch \in Nat
  BY DEF StateType, Checkpoint, Epoch
<1>4. \A x \in StateType : \A n : Ordered(x, n) =>
          x.finalized_checkpoint.epoch <= x.current_justified_checkpoint.epoch
  BY <1>3 DEF Ordered
<1>5. StatesOrdered
  <2>1. ASSUME NEW b \in ValidBlock
        PROVE  LET st == BlockState[b]
                   pulledUp == PulledUpState[b]
               IN  /\ {st.current_justified_checkpoint, st.finalized_checkpoint,
                       pulledUp.current_justified_checkpoint, pulledUp.finalized_checkpoint}
                           \subseteq Checkpoint
                   /\ st.current_justified_checkpoint.epoch
                        <= pulledUp.current_justified_checkpoint.epoch
                   /\ st.finalized_checkpoint.epoch <= pulledUp.finalized_checkpoint.epoch
                   /\ st.finalized_checkpoint.epoch <= st.current_justified_checkpoint.epoch
                   /\ pulledUp.finalized_checkpoint.epoch
                        <= pulledUp.current_justified_checkpoint.epoch
    BY <1>1, <1>2, <1>4 DEF Advances
  <2> QED
    BY <2>1 DEF StatesOrdered
<1>6. AnchorEpoch \in Nat
  BY BlockSlots, EpochInNat DEF AnchorEpoch, EpochOf
<1>7. ASSUME NEW b \in ValidBlock, NEW x \in StateType, OnChain(x, b),
             Ordered(x, EpochOf(b) + 1) \/ Ordered(x, EpochOf(b)),
             NEW c \in {x.current_justified_checkpoint, x.finalized_checkpoint},
             c.epoch > AnchorEpoch
      PROVE  c.epoch <= EpochOf(b) /\ c.root = get_checkpoint_block(b, c.epoch)
  <2>1. c.epoch \in Nat /\ c.epoch > 0
    BY <1>3, <1>6, <1>7
  <2>2. IsOnChain(c, b)
    BY <1>7 DEF OnChain
  <2>3. EpochOf(b) \in Nat
    BY <1>1
  <2>4. c.epoch <= x.current_justified_checkpoint.epoch
        /\ x.current_justified_checkpoint.epoch \in Nat
    BY <1>3, <1>4, <1>7
  <2>5. c.epoch <= EpochOf(b)
    BY <1>7, <2>1, <2>3, <2>4 DEF Ordered, GENESIS_EPOCH
  <2> QED
    BY <1>7, <2>1, <2>2, <2>5 DEF IsOnChain
<1>8. StatesOnChain
  <2>1. ASSUME NEW b \in ValidBlock,
               NEW c \in {BlockState[b].current_justified_checkpoint,
                          BlockState[b].finalized_checkpoint,
                          PulledUpState[b].current_justified_checkpoint,
                          PulledUpState[b].finalized_checkpoint},
               c.epoch > AnchorEpoch
        PROVE  c.epoch <= EpochOf(b) /\ c.root = get_checkpoint_block(b, c.epoch)
    <3>1. CASE c \in {BlockState[b].current_justified_checkpoint,
                      BlockState[b].finalized_checkpoint}
      BY <1>1, <1>7, <2>1, <3>1
    <3>2. CASE c \in {PulledUpState[b].current_justified_checkpoint,
                      PulledUpState[b].finalized_checkpoint}
      BY <1>1, <1>7, <2>1, <3>2
    <3> QED
      BY <3>1, <3>2
  <2> QED
    BY <2>1, ParentJustified DEF StatesOnChain
<1> QED
  BY <1>5, <1>8, EpochCheckpoints

(* The state of a chain that runs from genesis is fit to be trusted at the first    *)
(* slot of every epoch: get_forkchoice_store may be given one, at genesis or later.  *)
THEOREM EpochStartsAreAnchors ==
    Spec => [](IsEpochStart(state.slot) => AnchorState(state))
<1>1. ASSUME TypeOK, CheckpointOrder, CasperState(state, links), IsEpochStart(state.slot)
      PROVE  AnchorState(state)
  <2>1. state \in StateType /\ state.slot \in Nat
    BY <1>1 DEF TypeOK, StateType, Slot
  <2>2. compute_start_slot_at_epoch(get_current_epoch(state)) = state.slot
    BY <1>1, <2>1, SlotsAssumption
       DEF compute_start_slot_at_epoch, get_current_epoch, compute_epoch_at_slot, IsEpochStart
  <2>3. state.current_epoch_attestations = {}
    BY <1>1, <2>1, <2>2 DEF CasperState, Targets, VotesAreFor
  <2>4. /\ \A a \in state.previous_epoch_attestations :
               a.source = state.previous_justified_checkpoint
        /\ get_current_epoch(state) <= GENESIS_EPOCH + 1 =>
               state.previous_justified_checkpoint = state.current_justified_checkpoint
    BY <1>1 DEF CasperState, Sources, GENESIS_EPOCH
  <2> QED
    BY <1>1, <2>1, <2>3, <2>4 DEF CheckpointOrder, AnchorState
<1> QED
  BY <1>1, TypeCorrect, CheckpointsOrdered, CasperInvariant, PTL

--------------------------------------------------------------------------------
(* A property of the empty set that adding an element keeps. *)
LEMMA FiniteInduction ==
    ASSUME NEW S, IsFiniteSet(S), NEW C, {} \in C,
           \A T \in SUBSET S : \A x \in S \ T : T \in C => T \cup {x} \in C
    PROVE  S \in C
<1> DEFINE N == {n \in Nat : \A T \in SUBSET S : Cardinality(T) = n => T \in C}
<1>1. 0 \in N
  BY FS_EmptySet, FS_Subset
<1>2. ASSUME NEW n \in Nat, n \in N PROVE n + 1 \in N
  <2> SUFFICES ASSUME NEW T \in SUBSET S, Cardinality(T) = n + 1 PROVE T \in C
    OBVIOUS
  <2>1. IsFiniteSet(T)
    BY FS_Subset
  <2>2. T # {}
    <3>1. Cardinality({}) = 0 /\ n + 1 # 0
      BY FS_EmptySet
    <3> QED
      BY <3>1
  <2>3. PICK x \in T : TRUE
    BY <2>2
  <2>4. Cardinality(T \ {x}) = n
    <3>1. Cardinality(T \ {x}) = Cardinality(T) - 1
      BY <2>1, <2>3, FS_RemoveElement
    <3> QED
      BY <3>1
  <2>5. T \ {x} \in C
    BY <1>2, <2>4
  <2>6. (T \ {x}) \cup {x} \in C
    BY <2>5
  <2>7. (T \ {x}) \cup {x} = T
    BY <2>3
  <2> QED
    BY <2>6, <2>7
<1>3. \A n \in Nat : n \in N
  <2> HIDE DEF N
  <2> QED
    BY <1>1, <1>2, Induction
<1> QED
  BY <1>3, FS_CardinalityType

--------------------------------------------------------------------------------
(* Sums over finite sets. MapThenSumSet takes the elements in the order CHOOSE     *)
(* finds them (IsFold); the order does not matter (IsSum).                         *)
Pick(S) == CHOOSE x \in S : TRUE

IsFold(f, w, D) ==
    f = [S \in SUBSET D |-> IF S = {} THEN 0 ELSE w[Pick(S)] + f[S \ {Pick(S)}]]

IsSum(f, w, D) ==
    /\ f \in [SUBSET D -> Nat]
    /\ f[{}] = 0
    /\ \A S \in SUBSET D : \A x \in D \ S : f[S \cup {x}] = f[S] + w[x]

LEMMA Picked == ASSUME NEW S, S # {} PROVE Pick(S) \in S
BY DEF Pick

LEMMA SmallerSets ==
    ASSUME NEW D, IsFiniteSet(D), NEW S \in SUBSET D
    PROVE  /\ IsFiniteSet(S) /\ Cardinality(S) \in Nat
           /\ \A x \in S : Cardinality(S \ {x}) < Cardinality(S)
           /\ \A x \in D \ S : Cardinality(S) < Cardinality(S \cup {x})
<1>1. IsFiniteSet(S) /\ Cardinality(S) \in Nat
  BY FS_Subset, FS_CardinalityType
<1>2. ASSUME NEW x \in S PROVE Cardinality(S \ {x}) < Cardinality(S)
  <2>1. Cardinality(S \ {x}) = Cardinality(S) - 1
    BY <1>1, FS_RemoveElement
  <2> QED
    BY <1>1, <2>1
<1>3. ASSUME NEW x \in D \ S PROVE Cardinality(S) < Cardinality(S \cup {x})
  <2>1. Cardinality(S \cup {x}) = Cardinality(S) + 1
    BY <1>1, FS_AddElement
  <2> QED
    BY <1>1, <2>1
<1> QED
  BY <1>1, <1>2, <1>3

LEMMA FoldExists ==
    ASSUME NEW D, IsFiniteSet(D), NEW w \in [D -> Nat]
    PROVE  \E f \in [SUBSET D -> Nat] : IsFold(f, w, D)
<1> DEFINE rank == [S \in SUBSET D |-> Cardinality(S)]
           step == [S \in SUBSET D |-> [g \in [SUBSET D -> Nat] |->
                       IF S = {} THEN 0 ELSE w[Pick(S)] + g[S \ {Pick(S)}]]]
<1>1. \A S \in SUBSET D : rank[S] \in Nat
  BY SmallerSets
<1>2. ASSUME NEW S \in SUBSET D, NEW g \in [SUBSET D -> Nat]
      PROVE  step[S][g] \in Nat
  BY Picked
<1>3. ASSUME NEW S \in SUBSET D, NEW g \in [SUBSET D -> Nat], NEW h \in [SUBSET D -> Nat],
             \A e \in SUBSET D : rank[e] < rank[S] => g[e] = h[e]
      PROVE  step[S][g] = step[S][h]
  <2>1. CASE S = {}
    BY <2>1
  <2>2. CASE S # {}
    <3>1. Pick(S) \in S
      BY <2>2, Picked
    <3>2. S \ {Pick(S)} \in SUBSET D /\ Cardinality(S \ {Pick(S)}) < Cardinality(S)
      BY <3>1, SmallerSets
    <3>3. g[S \ {Pick(S)}] = h[S \ {Pick(S)}]
      BY <1>3, <3>2
    <3> QED
      BY <2>2, <3>3
  <2> QED
    BY <2>1, <2>2
<1>4. IsRecursion(SUBSET D, rank, Nat, step)
  <2> HIDE DEF rank, step
  <2> QED
    BY <1>1, <1>2, <1>3 DEF IsRecursion
<1>5. PICK f \in [SUBSET D -> Nat] : \A S \in SUBSET D : f[S] = step[S][f]
  <2> HIDE DEF rank, step
  <2> QED
    BY <1>4, RankRecursion
<1>6. IsFold(f, w, D)
  BY <1>5 DEF IsFold
<1> QED
  BY <1>6

LEMMA FoldIsSum ==
    ASSUME NEW D, IsFiniteSet(D), NEW w \in [D -> Nat], NEW f \in [SUBSET D -> Nat], IsFold(f, w, D)
    PROVE  IsSum(f, w, D)
<1> DEFINE P == SUBSET D
           rank == [S \in P |-> Cardinality(S)]
           T == {S \in P : \A x \in D \ S : f[S \cup {x}] = f[S] + w[x]}
<1>1. \A S \in P : rank[S] \in Nat
  BY SmallerSets
<1>2. \A S \in SUBSET D : f[S] = IF S = {} THEN 0 ELSE w[Pick(S)] + f[S \ {Pick(S)}]
  BY DEF IsFold
<1>3. ASSUME NEW S \in SUBSET D, \A e \in SUBSET D : rank[e] < rank[S] => e \in T,
             NEW x \in D \ S
      PROVE  f[S \cup {x}] = f[S] + w[x]
  <2> DEFINE U == S \cup {x}
             y == Pick(U)
  <2>1. U \in SUBSET D /\ y \in U /\ U # {}
    BY Picked
  <2>2. f[U] = w[y] + f[U \ {y}]
    BY <1>2, <2>1
  <2>3. CASE y = x
    <3>1. U \ {y} = S
      BY <2>3
    <3>2. f[S] \in Nat /\ w[x] \in Nat
      OBVIOUS
    <3>3. f[U] = w[x] + f[S]
      <4> HIDE DEF U, y
      <4> QED
        BY <2>2, <2>3, <3>1
    <3> HIDE DEF y
    <3> QED
      BY <3>2, <3>3
  <2>4. CASE y # x
    <3> DEFINE R == S \ {y}
    <3>1. y \in S /\ R \in SUBSET D /\ R \cup {x} = U \ {y} /\ R \cup {y} = S
      BY <2>1, <2>4
    <3>2. rank[R] < rank[S]
      BY <3>1, SmallerSets
    <3>3. R \in T
      BY <1>3, <3>1, <3>2
    <3>4. f[R \cup {x}] = f[R] + w[x] /\ f[R \cup {y}] = f[R] + w[y]
      BY <2>1, <3>1, <3>3
    <3>5. f[U] = w[y] + (f[R] + w[x]) /\ f[S] = f[R] + w[y]
      <4> HIDE DEF R, U, y
      <4> QED
        BY <2>2, <3>1, <3>4
    <3>6. f[R] \in Nat /\ w[x] \in Nat /\ w[y] \in Nat
      BY <3>1
    <3>7. f[U] = f[S] + w[x]
      <4> HIDE DEF R, U, y
      <4> QED
        BY <3>5, <3>6
    <3> QED
      BY <3>7
  <2> QED
    BY <2>3, <2>4
<1>4. \A S \in P : S \in T
  <2>1. ASSUME NEW S \in P, \A e \in P : rank[e] < rank[S] => e \in T
        PROVE  S \in T
    BY <1>3, <2>1
  <2> HIDE DEF T, rank, P
  <2> QED
    BY <1>1, <2>1, RankInduction
<1>5. f[{}] = 0
  BY <1>2
<1> QED
  BY <1>4, <1>5 DEF IsSum

(* A fold over a part of D gives what the fold over D gives for that part.        *)
LEMMA FoldOfPart ==
    ASSUME NEW D, IsFiniteSet(D), NEW w, NEW f, IsFold(f, w, D),
           NEW S \in SUBSET D, NEW g, IsFold(g, w, S)
    PROVE  g[S] = f[S]
<1> DEFINE P == SUBSET S
           rank == [U \in P |-> Cardinality(U)]
           T == {U \in P : g[U] = f[U]}
<1>1. \A U \in P : rank[U] \in Nat
  BY SmallerSets
<1>2. ASSUME NEW U \in P, \A e \in P : rank[e] < rank[U] => e \in T
      PROVE  U \in T
  <2>1. /\ f[U] = IF U = {} THEN 0 ELSE w[Pick(U)] + f[U \ {Pick(U)}]
        /\ g[U] = IF U = {} THEN 0 ELSE w[Pick(U)] + g[U \ {Pick(U)}]
    BY DEF IsFold
  <2>2. CASE U = {}
    BY <2>1, <2>2
  <2>3. CASE U # {}
    <3>1. Pick(U) \in U
      BY <2>3, Picked
    <3>2. U \ {Pick(U)} \in SUBSET S /\ rank[U \ {Pick(U)}] < rank[U]
      BY <3>1, SmallerSets
    <3>3. g[U \ {Pick(U)}] = f[U \ {Pick(U)}]
      BY <1>2, <3>2
    <3> QED
      BY <2>1, <2>3, <3>3
  <2> QED
    BY <2>2, <2>3
<1>3. \A U \in P : U \in T
  <2> HIDE DEF T, rank, P
  <2> QED
    BY <1>1, <1>2, RankInduction
<1> QED
  BY <1>3

LEMMA SumOfUnion ==
    ASSUME NEW D, IsFiniteSet(D), NEW w \in [D -> Nat], NEW f, IsSum(f, w, D),
           NEW S \in SUBSET D, NEW T \in SUBSET D, S \cap T = {}
    PROVE  f[S \cup T] = f[S] + f[T]
<1> DEFINE C == {U \in SUBSET T : f[S \cup U] = f[S] + f[U]}
<1>1. {} \in C
  <2>1. S \cup {} = S /\ f[{}] = 0 /\ f[S] \in Nat
    BY DEF IsSum
  <2> QED
    BY <2>1
<1>2. ASSUME NEW U \in SUBSET T, NEW x \in T \ U, U \in C
      PROVE  U \cup {x} \in C
  <2>1. /\ S \cup U \in SUBSET D /\ x \in D \ (S \cup U) /\ U \in SUBSET D /\ x \in D \ U
        /\ S \cup (U \cup {x}) = (S \cup U) \cup {x}
    OBVIOUS
  <2>2. /\ f[(S \cup U) \cup {x}] = f[S \cup U] + w[x]
        /\ f[U \cup {x}] = f[U] + w[x]
    BY <2>1 DEF IsSum
  <2>3. f[S] \in Nat /\ f[U] \in Nat /\ w[x] \in Nat /\ f[S \cup U] = f[S] + f[U]
    BY <1>2, <2>1 DEF IsSum
  <2>4. f[(S \cup U) \cup {x}] = (f[S] + f[U]) + w[x]
    BY <2>2, <2>3
  <2>5. f[U \cup {x}] = f[U] + w[x]
    BY <2>2
  <2>6. f[(S \cup U) \cup {x}] = f[S] + f[U \cup {x}]
    BY <2>3, <2>4, <2>5, Z3
  <2>7. f[S \cup (U \cup {x})] = f[(S \cup U) \cup {x}]
    BY <2>1, Zenon
  <2> QED
    BY <2>6, <2>7
<1>3. T \in C
  <2>1. IsFiniteSet(T)
    BY FS_Subset
  <2> HIDE DEF C
  <2> QED
    BY <1>1, <1>2, <2>1, FiniteInduction
<1> QED
  BY <1>3

LEMMA SumOfPart ==
    ASSUME NEW D, IsFiniteSet(D), NEW w \in [D -> Nat], NEW f, IsSum(f, w, D),
           NEW T \in SUBSET D, NEW S \in SUBSET T
    PROVE  f[S] \in Nat /\ f[T] \in Nat /\ f[S] <= f[T]
<1>1. S \cup (T \ S) = T /\ S \cap (T \ S) = {} /\ S \in SUBSET D /\ T \ S \in SUBSET D
  OBVIOUS
<1>2. f[T] = f[S] + f[T \ S]
  <2> DEFINE R == T \ S
  <2>1. S \cup R = T /\ S \cap R = {} /\ R \in SUBSET D
    BY <1>1
  <2> HIDE DEF R
  <2>2. f[S \cup R] = f[S] + f[R]
    BY <1>1, <2>1, SumOfUnion
  <2>3. f[T] = f[S] + f[R]
    BY <2>1, <2>2
  <2> QED
    BY <2>3 DEF R
<1>3. f[S] \in Nat /\ f[T] \in Nat /\ f[T \ S] \in Nat
  BY <1>1 DEF IsSum
<1> QED
  BY <1>2, <1>3

(* Weights *)

LEMMA BalanceSums ==
    \E f : /\ IsSum(f, EffectiveBalance, Validator)
           /\ \A S \in SUBSET Validator : SumOfBalances(S) = f[S]
<1>1. IsFiniteSet(Validator) /\ EffectiveBalance \in [Validator -> Nat]
  BY RegistryAssumption
<1>2. PICK f \in [SUBSET Validator -> Nat] : IsFold(f, EffectiveBalance, Validator)
  BY <1>1, FoldExists
<1>3. IsSum(f, EffectiveBalance, Validator)
  BY <1>1, <1>2, FoldIsSum
<1>4. ASSUME NEW S \in SUBSET Validator
      PROVE  SumOfBalances(S) = f[S]
  <2> DEFINE IsIt(g) == g = [s \in SUBSET S |-> IF s = {} THEN 0
                                  ELSE EffectiveBalance[Pick(s)] + g[s \ {Pick(s)}]]
             h == [s \in SUBSET S |-> f[s]]
             it == CHOOSE g : IsIt(g)
  <2>1. IsIt(h)
    <3>1. \A s \in SUBSET S : f[s] = IF s = {} THEN 0
                                     ELSE EffectiveBalance[Pick(s)] + f[s \ {Pick(s)}]
      BY <1>2 DEF IsFold
    <3>2. \A s \in SUBSET S : s # {} => s \ {Pick(s)} \in SUBSET S
      OBVIOUS
    <3> QED
      BY <3>1, <3>2
  <2>2. IsIt(it)
    <3> HIDE DEF IsIt
    <3> QED
      BY <2>1
  <2>3. IsFold(it, EffectiveBalance, S)
    <3> HIDE DEF it
    <3> QED
      BY <2>2 DEF IsFold
  <2>4. SumOfBalances(S) = it[S]
    BY DEF SumOfBalances, MapThenSumSet, MapThenFoldSet, Pick
  <2> HIDE DEF it
  <2> QED
    BY <1>1, <1>2, <2>3, <2>4, FoldOfPart
<1> QED
  BY <1>3, <1>4

(* What every block inherits from its parent holds of all, if it holds of the     *)
(* anchor.                                                                        *)
LEMMA BlockInduction ==
    ASSUME NEW T, Anchor \in T,
           \A r \in Block \ {Anchor} : ParentOf(r) \in T => r \in T
    PROVE  \A r \in Block : r \in T
<1> DEFINE rank == [r \in Block |-> SlotOf(r)]
<1>1. \A r \in Block : rank[r] \in Nat
  BY BlockSlots
<1>2. ASSUME NEW r \in Block, \A e \in Block : rank[e] < rank[r] => e \in T
      PROVE  r \in T
  BY <1>2, BlockSlots
<1> HIDE DEF rank
<1> QED
  BY <1>1, <1>2, RankInduction

(* Two walks in one go: the ancestor at a slot of the ancestor at a later slot.   *)
LEMMA AncestorOfAncestor ==
    ASSUME NEW s \in Nat, NEW t \in Nat, s <= t, NEW root \in Block,
           get_ancestor(root, t) \in Block
    PROVE  get_ancestor(root, s) = get_ancestor(get_ancestor(root, t), s)
<1> DEFINE T == {r \in Block : get_ancestor(r, t) \in Block =>
                    get_ancestor(r, s) = get_ancestor(get_ancestor(r, t), s)}
<1>1. Anchor \in T
  BY AncestorWalk, BlockSlots
<1>2. ASSUME NEW r \in Block \ {Anchor}, ParentOf(r) \in T
      PROVE  r \in T
  <2>1. CASE SlotOf(r) <= t
    BY <2>1, AncestorWalk
  <2>2. CASE ~(SlotOf(r) <= t)
    <3>1. get_ancestor(r, t) = get_ancestor(ParentOf(r), t)
      BY <2>2, AncestorWalk
    <3>2. ~(SlotOf(r) <= s)
      BY <2>2, BlockSlots
    <3>3. get_ancestor(r, s) = get_ancestor(ParentOf(r), s)
      BY <3>2, AncestorWalk
    <3> QED
      BY <1>2, <3>1, <3>3
  <2> QED
    BY <2>1, <2>2
<1>3. root \in T
  <2> HIDE DEF T
  <2> QED
    BY <1>1, <1>2, BlockInduction
<1> QED
  BY <1>3

LEMMA AncestorExists ==
    ASSUME NEW slot \in Nat, SlotOf(Anchor) <= slot, NEW root \in Block
    PROVE  get_ancestor(root, slot) \in Block
<1> DEFINE T == {r \in Block : get_ancestor(r, slot) \in Block}
<1>1. Anchor \in T
  BY AncestorWalk, BlockSlots
<1>2. ASSUME NEW r \in Block \ {Anchor}, ParentOf(r) \in T
      PROVE  r \in T
  BY <1>2, AncestorWalk
<1>3. root \in T
  <2> HIDE DEF T
  <2> QED
    BY <1>1, <1>2, BlockInduction
<1> QED
  BY <1>3

(* An epoch past the anchor has a block on every chain. *)
LEMMA LaterAncestor ==
    ASSUME NEW b \in Block, NEW epoch \in Nat, epoch > AnchorEpoch
    PROVE  get_checkpoint_block(b, epoch) \in Block
<1>1. /\ AnchorEpoch \in Nat /\ AnchorEpoch < epoch
      /\ compute_start_slot_at_epoch(AnchorEpoch) = SlotOf(Anchor)
  BY AnchorFirst
<1>2. /\ SlotOf(Anchor) \in Nat
      /\ SlotOf(Anchor) < compute_start_slot_at_epoch(epoch)
  BY <1>1, LaterStart
<1>3. compute_start_slot_at_epoch(epoch) \in Nat
  BY StartSlots
<1>4. SlotOf(Anchor) <= compute_start_slot_at_epoch(epoch)
  BY <1>2, <1>3
<1> QED
  BY <1>3, <1>4, AncestorExists DEF get_checkpoint_block

LEMMA StartsOrdered ==
    ASSUME NEW m \in Nat, NEW n \in Nat, m <= n
    PROVE  /\ compute_start_slot_at_epoch(m) \in Nat /\ compute_start_slot_at_epoch(n) \in Nat
           /\ compute_start_slot_at_epoch(m) <= compute_start_slot_at_epoch(n)
<1>1. compute_start_slot_at_epoch(m) \in Nat /\ compute_start_slot_at_epoch(n) \in Nat
  BY StartSlots
<1>2. CASE m = n
  BY <1>1, <1>2
<1>3. CASE m < n
  <2>1. compute_start_slot_at_epoch(m) < compute_start_slot_at_epoch(n)
    BY <1>3, LaterStart
  <2> QED
    BY <1>1, <2>1
<1> QED
  BY <1>2, <1>3

--------------------------------------------------------------------------------
(* Casper's safety. Two thirds of the balance have votes for a link in blocks of  *)
(* the tree.                                                                      *)
HasVote(v, source, target) ==
    \E a \in IncludedVotes : v \in a.attesting_indices /\ a.source = source /\ a.target = target

IsQuorumLink(source, target) ==
    \E S \in SUBSET Validator :
        /\ IsSupermajority(get_total_balance(S), get_total_active_balance)
        /\ \A v \in S : HasVote(v, source, target)

(* Two quorums share a validator that is not slashable. *)
LEMMA QuorumsMeet ==
    ASSUME FewSlashable, NEW A \in SUBSET Validator, NEW B \in SUBSET Validator,
           IsSupermajority(get_total_balance(A), get_total_active_balance),
           IsSupermajority(get_total_balance(B), get_total_active_balance)
    PROVE  \E v \in A \cap B : v \notin Slashable
<1> SUFFICES ASSUME A \cap B \subseteq Slashable PROVE FALSE
  OBVIOUS
<1> DEFINE both == A \cap B
           onlyB == B \ A
           all == get_total_active_balance
           floor == EFFECTIVE_BALANCE_INCREMENT
<1>1. PICK f : /\ IsSum(f, EffectiveBalance, Validator)
               /\ \A S \in SUBSET Validator : SumOfBalances(S) = f[S]
  BY BalanceSums
<1>2. IsFiniteSet(Validator) /\ EffectiveBalance \in [Validator -> Nat] /\ floor \in Nat
  BY RegistryAssumption
<1>3. /\ Slashable \in SUBSET Validator /\ both \in SUBSET Validator /\ onlyB \in SUBSET Validator
      /\ both \in SUBSET Slashable /\ A \cup onlyB \in SUBSET Validator
      /\ both \cup onlyB = B /\ both \cap onlyB = {} /\ A \cap onlyB = {}
      /\ Validator \in SUBSET Validator
  BY DEF Slashable
<1>4. f[both] <= f[Slashable] /\ f[both] \in Nat /\ f[Slashable] \in Nat
  <2> HIDE DEF both
  <2> QED
    BY <1>1, <1>2, <1>3, SumOfPart
<1>5. f[B] = f[both] + f[onlyB]
  <2> HIDE DEF both, onlyB
  <2>1. f[both \cup onlyB] = f[both] + f[onlyB]
    BY <1>1, <1>2, <1>3, SumOfUnion
  <2> QED
    BY <1>3, <2>1
<1>6. f[A] + f[onlyB] <= f[Validator] /\ f[Validator] \in Nat
  <2> HIDE DEF both, onlyB
  <2>1. f[A \cup onlyB] = f[A] + f[onlyB]
    BY <1>1, <1>2, <1>3, SumOfUnion
  <2>2. f[A \cup onlyB] <= f[Validator] /\ f[Validator] \in Nat
    BY <1>1, <1>2, <1>3, SumOfPart
  <2> QED
    BY <2>1, <2>2
<1>7. f[A] \in Nat /\ f[B] \in Nat /\ f[onlyB] \in Nat
  BY <1>1, <1>3 DEF IsSum
<1>8. f[Slashable] * 3 < all
  BY <1>1, <1>3 DEF FewSlashable
<1>9. all = IF f[Validator] > floor THEN f[Validator] ELSE floor
  BY <1>1, <1>3 DEF get_total_active_balance, get_total_balance
<1>10. ASSUME NEW S \in SUBSET Validator, f[S] \in Nat,
              IsSupermajority(get_total_balance(S), get_total_active_balance)
       PROVE  f[S] * 3 >= all * 2
  <2>1. get_total_balance(S) = IF f[S] > floor THEN f[S] ELSE floor
    BY <1>1 DEF get_total_balance
  <2>2. ~IsSupermajority(floor, all)
    BY BalanceAssumption
  <2>3. get_total_balance(S) = f[S]
    BY <1>10, <2>1, <2>2
  <2> QED
    BY <1>10, <2>3 DEF IsSupermajority
<1>11. f[A] * 3 >= all * 2 /\ f[B] * 3 >= all * 2
  BY <1>7, <1>10
<1> HIDE DEF both, onlyB, all, floor
<1> DEFINE fa == f[A]  fb == f[B]  fBoth == f[both]  fRest == f[onlyB]
           fv == f[Validator]  fs == f[Slashable]
<1>12. /\ fa \in Nat /\ fb \in Nat /\ fBoth \in Nat /\ fRest \in Nat /\ fv \in Nat /\ fs \in Nat
       /\ fBoth <= fs /\ fb = fBoth + fRest /\ fa + fRest <= fv /\ fs * 3 < all
       /\ all = IF fv > floor THEN fv ELSE floor
       /\ fa * 3 >= all * 2 /\ fb * 3 >= all * 2
       /\ floor \in Nat
  BY <1>2, <1>4, <1>5, <1>6, <1>7, <1>8, <1>9, <1>11
<1> HIDE DEF fa, fb, fBoth, fRest, fv, fs
<1>13. all \in Nat /\ fv <= all
  BY <1>12
<1> QED
  BY <1>12, <1>13

(* Who has voted for two links and is not slashable has kept both conditions. *)
LEMMA LinksAgree ==
    ASSUME FewSlashable, NEW s, NEW t, NEW x, NEW y,
           IsQuorumLink(s, t), IsQuorumLink(x, y)
    PROVE  /\ t.epoch = y.epoch => t = y
           /\ ~(s.epoch < x.epoch /\ y.epoch < t.epoch)
<1>1. PICK A \in SUBSET Validator :
          /\ IsSupermajority(get_total_balance(A), get_total_active_balance)
          /\ \A v \in A : HasVote(v, s, t)
  BY DEF IsQuorumLink
<1>2. PICK B \in SUBSET Validator :
          /\ IsSupermajority(get_total_balance(B), get_total_active_balance)
          /\ \A v \in B : HasVote(v, x, y)
  BY DEF IsQuorumLink
<1>3. PICK v \in A \cap B : v \notin Slashable
  BY <1>1, <1>2, QuorumsMeet
<1>4. PICK a1 \in IncludedVotes : v \in a1.attesting_indices /\ a1.source = s /\ a1.target = t
  BY <1>1, <1>3 DEF HasVote
<1>5. PICK a2 \in IncludedVotes : v \in a2.attesting_indices /\ a2.source = x /\ a2.target = y
  BY <1>2, <1>3 DEF HasVote
<1>6. ~is_slashable_attestation_data(a1, a2)
  <2>1. v \in Validator /\ v \in a1.attesting_indices \cap a2.attesting_indices
    BY <1>1, <1>3, <1>4, <1>5
  <2> QED
    BY <1>3, <2>1 DEF Slashable
<1>7. t # y => AttestationData(a1) # AttestationData(a2)
  BY <1>4, <1>5 DEF AttestationData
<1> QED
  BY <1>4, <1>5, <1>6, <1>7 DEF is_slashable_attestation_data, IsDoubleVote, IsSurroundVote

(* The links of a chain with targets past the anchor: from a checkpoint to a later  *)
(* one that is the chain's, with a quorum of votes. A source past the anchor is a    *)
(* target of the chain itself; of what the anchor's state had justified nothing is   *)
(* known and nothing is needed.                                                     *)
LinksOnChain(L, b) ==
    \A l \in L :
        /\ l \in Checkpoint \X Checkpoint
        /\ l[1].epoch < l[2].epoch
        /\ l[2].epoch > AnchorEpoch
        /\ l[2].root = get_checkpoint_block(b, l[2].epoch)
        /\ IsQuorumLink(l[1], l[2])
        /\ l[1].epoch > AnchorEpoch => \E k \in L : k[2] = l[1]

(* Justified: the target of a link. Finalized: justified, and the source of a link   *)
(* that passes over justified epochs only, one at most.                              *)
TargetsOf(L) == {l[2] : l \in L}
FinalizedIn(L, c) ==
    c \in TargetsOf(L) /\ \E l \in L : l[1] = c /\ Finalizing(TargetsOf(L), c, l[2])

(* What a state that stands in an epoch knows of the links of its chain. The epochs  *)
(* whose bits decide over the finality of an epoch past the anchor are later ones.   *)
HistoryAt(L, b, epoch, st) ==
    /\ LinksOnChain(L, b)
    /\ \A l \in L : l[2].epoch < epoch
    /\ \A c \in {st.previous_justified_checkpoint, st.current_justified_checkpoint} :
            c.epoch > AnchorEpoch => c \in TargetsOf(L)
    /\ st.finalized_checkpoint.epoch > AnchorEpoch => FinalizedIn(L, st.finalized_checkpoint)
    /\ \A i \in BitIndex : \A n \in Nat :
            n > AnchorEpoch + 1 /\ n + 1 + i = epoch /\ st.justification_bits[i]
                => \E l \in L : l[2].epoch = n
    /\ \A n \in Nat : n > AnchorEpoch + 1 /\ n + 1 = epoch /\ st.justification_bits[0]
            => \E l \in L : l[1] = st.previous_justified_checkpoint /\ l[2].epoch = n

LEMMA TargetOfLinks ==
    ASSUME NEW b \in Block, NEW L, LinksOnChain(L, b), NEW c \in TargetsOf(L)
    PROVE  /\ c \in Checkpoint /\ c.epoch \in Nat /\ c.epoch > AnchorEpoch
           /\ c.root = get_checkpoint_block(b, c.epoch)
           /\ \E s \in Checkpoint : /\ s.epoch \in Nat /\ s.epoch < c.epoch
                                    /\ IsQuorumLink(s, c)
                                    /\ s.epoch > AnchorEpoch => s \in TargetsOf(L)
<1>1. PICK l \in L : l[2] = c
  BY DEF TargetsOf
<1>2. /\ l[1] \in Checkpoint /\ c \in Checkpoint /\ l[1].epoch < c.epoch
      /\ c.epoch > AnchorEpoch /\ c.root = get_checkpoint_block(b, c.epoch)
      /\ IsQuorumLink(l[1], c)
      /\ l[1].epoch > AnchorEpoch => l[1] \in TargetsOf(L)
  BY <1>1 DEF LinksOnChain, TargetsOf
<1>3. l[1].epoch \in Nat /\ c.epoch \in Nat
  BY <1>2 DEF Checkpoint, Epoch
<1> QED
  BY <1>2, <1>3

(* A chain's link may go on from a checkpoint that is justified or not past the anchor. *)
LEMMA LinkAdded ==
    ASSUME NEW b, NEW L, LinksOnChain(L, b),
           NEW s \in Checkpoint, NEW t \in Checkpoint, s.epoch < t.epoch,
           t.epoch > AnchorEpoch, t.root = get_checkpoint_block(b, t.epoch),
           IsQuorumLink(s, t), s.epoch > AnchorEpoch => s \in TargetsOf(L)
    PROVE  LinksOnChain(L \cup {<<s, t>>}, b)
<1> DEFINE K == L \cup {<<s, t>>}
           Good(l) == /\ l \in Checkpoint \X Checkpoint
                      /\ l[1].epoch < l[2].epoch
                      /\ l[2].epoch > AnchorEpoch
                      /\ l[2].root = get_checkpoint_block(b, l[2].epoch)
                      /\ IsQuorumLink(l[1], l[2])
<1>1. ASSUME NEW l \in L PROVE Good(l) /\ (l[1].epoch > AnchorEpoch => \E k \in K : k[2] = l[1])
  BY <1>1 DEF LinksOnChain
<1>2. Good(<<s, t>>) /\ (s.epoch > AnchorEpoch => \E k \in K : k[2] = s)
  BY DEF TargetsOf
<1>3. ASSUME NEW l \in K PROVE Good(l) /\ (l[1].epoch > AnchorEpoch => \E k \in K : k[2] = l[1])
  <2>1. CASE l \in L
    BY <1>1, <2>1
  <2>2. CASE l = <<s, t>>
    <3> HIDE DEF K, Good
    <3>1. l[1] = s
      BY <2>2
    <3> QED
      BY <1>2, <2>2, <3>1
  <2> QED
    BY <2>1, <2>2
<1> HIDE DEF K
<1>4. LinksOnChain(K, b)
  BY <1>3 DEF LinksOnChain
<1> QED
  BY <1>4 DEF K

(* No two chains justify two checkpoints of an epoch past the anchor. *)
LEMMA JustifiedAgree ==
    ASSUME FewSlashable, NEW b \in Block, NEW d \in Block, NEW L, NEW M,
           LinksOnChain(L, b), LinksOnChain(M, d),
           NEW x \in TargetsOf(L), NEW y \in TargetsOf(M), x.epoch = y.epoch
    PROVE  x = y
<1>1. PICK s \in Checkpoint : IsQuorumLink(s, x)
  BY TargetOfLinks
<1>2. PICK t \in Checkpoint : IsQuorumLink(t, y)
  BY TargetOfLinks
<1> QED
  BY <1>1, <1>2, LinksAgree

(* A checkpoint both chains justify has what lies below it in common. *)
LEMMA SharedBelow ==
    ASSUME NEW b \in Block, NEW d \in Block, NEW L, NEW M,
           LinksOnChain(L, b), LinksOnChain(M, d),
           NEW f \in TargetsOf(L), NEW x \in TargetsOf(L), x \in TargetsOf(M),
           f.epoch <= x.epoch
    PROVE  get_checkpoint_block(d, f.epoch) = f.root
<1> DEFINE m == compute_start_slot_at_epoch(f.epoch)
           n == compute_start_slot_at_epoch(x.epoch)
<1>1. f.epoch \in Nat /\ f.epoch > AnchorEpoch /\ f.root = get_ancestor(b, m)
  BY TargetOfLinks DEF get_checkpoint_block
<1>2. x.epoch \in Nat /\ x.epoch > AnchorEpoch /\ x.root = get_ancestor(b, n)
  BY TargetOfLinks DEF get_checkpoint_block
<1>3. x.root = get_ancestor(d, n)
  BY TargetOfLinks DEF get_checkpoint_block
<1>4. m \in Nat /\ n \in Nat /\ m <= n
  BY <1>1, <1>2, StartsOrdered
<1>5. get_ancestor(b, n) \in Block /\ get_ancestor(d, n) \in Block
  BY <1>2, LaterAncestor DEF get_checkpoint_block
<1> HIDE DEF m, n
<1>6. get_ancestor(b, m) = get_ancestor(get_ancestor(b, n), m)
  BY <1>4, <1>5, AncestorOfAncestor
<1>7. get_ancestor(d, m) = get_ancestor(get_ancestor(d, n), m)
  BY <1>4, <1>5, AncestorOfAncestor
<1> QED
  BY <1>1, <1>2, <1>3, <1>6, <1>7 DEF get_checkpoint_block, m

(* Casper's theorem: what one chain finalizes past the anchor is below everything   *)
(* that another justifies for its epoch or a later one. The link that goes on from a *)
(* finalized checkpoint passes over justified epochs only; a link to a still later   *)
(* one that starts before it would be around it.                                    *)
LEMMA FinalizedBelow ==
    ASSUME FewSlashable, NEW b \in Block, NEW d \in Block, NEW L, NEW M,
           LinksOnChain(L, b), LinksOnChain(M, d),
           NEW f, FinalizedIn(L, f), NEW c \in TargetsOf(M), f.epoch <= c.epoch
    PROVE  get_checkpoint_block(d, f.epoch) = f.root
<1> DEFINE J == TargetsOf(L)
           K == TargetsOf(M)
<1>1. PICK l \in L : f = l[1] /\ f \in J /\ l[2] \in J /\ Finalizing(J, f, l[2])
  BY DEF FinalizedIn, TargetsOf
<1> DEFINE t == l[2]
<1>2. /\ t \in J /\ f.epoch \in Nat /\ f.epoch > AnchorEpoch /\ t.epoch \in Nat
      /\ f.epoch < t.epoch /\ IsQuorumLink(f, t)
  BY <1>1, TargetOfLinks DEF LinksOnChain
<1>3. \/ t.epoch = f.epoch + 1
      \/ t.epoch = f.epoch + 2 /\ \E m \in J : m.epoch = f.epoch + 1
  BY <1>1 DEF Finalizing
<1>4. \A k \in K : k.epoch \in Nat
  BY TargetOfLinks
<1>5. ASSUME NEW x \in J, NEW k \in K, x.epoch = k.epoch, f.epoch <= x.epoch
      PROVE  get_checkpoint_block(d, f.epoch) = f.root
  <2>1. x = k
    BY <1>5, JustifiedAgree
  <2>2. x \in TargetsOf(M)
    BY <2>1
  <2> QED
    BY <1>1, <1>5, <2>2, SharedBelow
<1> DEFINE rank == [k \in K |-> k.epoch]
           T == {k \in K : f.epoch <= k.epoch => get_checkpoint_block(d, f.epoch) = f.root}
<1> HIDE DEF t
<1>6. ASSUME NEW k \in K, \A e \in K : rank[e] < rank[k] => e \in T
      PROVE  k \in T
  <2> SUFFICES ASSUME f.epoch <= k.epoch PROVE get_checkpoint_block(d, f.epoch) = f.root
    OBVIOUS
  <2>1. CASE k.epoch <= t.epoch
    <3>1. PICK x \in J : x.epoch = k.epoch
      <4> HIDE DEF J, K
      <4> QED
        BY <1>1, <1>2, <1>3, <1>4, <2>1
    <3>2. f.epoch <= x.epoch
      BY <3>1
    <3> QED
      BY <1>5, <3>1, <3>2
  <2>2. CASE ~(k.epoch <= t.epoch)
    <3>1. k.epoch \in Nat /\ k.epoch > t.epoch
      BY <1>2, <1>4, <2>2
    <3>2. PICK s \in Checkpoint : /\ s.epoch \in Nat /\ s.epoch < k.epoch /\ IsQuorumLink(s, k)
                                  /\ s.epoch > AnchorEpoch => s \in TargetsOf(M)
      BY TargetOfLinks
    <3>3. ~(s.epoch < f.epoch)
      BY <1>2, <3>1, <3>2, LinksAgree
    <3>4. f.epoch <= s.epoch /\ s.epoch > AnchorEpoch
      BY <1>2, <3>2, <3>3, AnchorFirst
    <3>5. s \in K /\ rank[s] < rank[k]
      BY <3>2, <3>4
    <3>6. s \in T
      BY <1>6, <3>5
    <3> QED
      BY <3>4, <3>6
  <2> QED
    BY <2>1, <2>2
<1>7. \A k \in K : k \in T
  <2>1. \A k \in K : rank[k] \in Nat
    BY <1>4
  <2> HIDE DEF T, rank, K
  <2> QED
    BY <1>6, <2>1, RankInduction
<1> QED
  BY <1>7

--------------------------------------------------------------------------------
(* The votes a state of the tree has pending: votes that blocks of the tree include, *)
(* kept for the epoch of their target, with one source for each epoch, which is an   *)
(* earlier one where votes are weighed. In the anchor's epoch the previous votes are *)
(* those the anchor's state came with.                                              *)
ArePending(votes, epoch) ==
    \A p \in votes : p.target.epoch = epoch /\ \E a \in IncludedVotes : p = PendingAttestation(a)

VotesInv(st) ==
    /\ Sources(st)
    /\ ArePending(st.current_epoch_attestations, get_current_epoch(st))
    /\ get_current_epoch(st) > AnchorEpoch =>
           /\ ArePending(st.previous_epoch_attestations, get_previous_epoch(st))
           /\ \/ st.previous_justified_checkpoint.epoch < get_previous_epoch(st)
              \/ st.previous_justified_checkpoint.epoch = 0

ChainCasper(st, b) ==
    VotesInv(st) /\ \E L : HistoryAt(L, b, get_current_epoch(st), st)

(* A supermajority of pending votes is one of votes in the tree. *)
LEMMA WinIsQuorum ==
    ASSUME NEW st, NEW votes, votes \subseteq PendingAttestations,
           NEW epoch, NEW source, ArePending(votes, epoch), \A p \in votes : p.source = source,
           IsSupermajority(get_attesting_balance(st, MatchingTarget(st, votes, epoch)),
                           get_total_active_balance)
    PROVE  IsQuorumLink(source, CheckpointAt(st, epoch))
<1> DEFINE S == get_unslashed_attesting_indices(st, MatchingTarget(st, votes, epoch))
           target == CheckpointAt(st, epoch)
<1>1. IsSupermajority(get_total_balance(S), get_total_active_balance)
  BY DEF get_attesting_balance
<1>2. ASSUME NEW v \in S
      PROVE  v \in Validator /\ HasVote(v, source, target)
  <2>1. PICK p \in votes : p.target.root = get_block_root(st, epoch) /\ v \in p.attesting_indices
    BY DEF get_unslashed_attesting_indices, MatchingTarget
  <2>2. p \in PendingAttestations
    BY <2>1
  <2>3. p.target = target
    BY <2>1, <2>2 DEF PendingAttestations, Checkpoint, CheckpointAt, ArePending
  <2>4. PICK a \in IncludedVotes : p = PendingAttestation(a)
    BY <2>1 DEF ArePending
  <2>5. a.source = source /\ a.target = target /\ v \in a.attesting_indices
    BY <2>1, <2>3, <2>4 DEF PendingAttestation
  <2> QED
    BY <2>1, <2>2, <2>4, <2>5 DEF HasVote, PendingAttestations
<1> HIDE DEF S
<1>3. S \in SUBSET Validator /\ \A v \in S : HasVote(v, source, target)
  BY <1>2
<1> QED
  BY <1>1, <1>3 DEF IsQuorumLink

(* The checkpoint a chain has for an epoch. *)
CheckpointOf(b, epoch) == [epoch |-> epoch, root |-> get_checkpoint_block(b, epoch)]

(* It is a checkpoint, and the ring of the chain has its root. *)
LEMMA ChainCheckpoint ==
    ASSUME NEW b \in Block, NEW epoch \in Nat, epoch > AnchorEpoch
    PROVE  /\ CheckpointOf(b, epoch) \in Checkpoint
           /\ CheckpointOf(b, epoch).epoch = epoch
           /\ CheckpointOf(b, epoch).root = get_checkpoint_block(b, epoch)
           /\ AncestorRoot(b, compute_start_slot_at_epoch(epoch)) = get_checkpoint_block(b, epoch)
<1>1. get_checkpoint_block(b, epoch) \in Block
  BY LaterAncestor
<1>2. Block \subseteq Nat
  BY TreeAssumption DEF Root
<1>3. AncestorRoot(b, compute_start_slot_at_epoch(epoch)) = get_checkpoint_block(b, epoch)
  BY LaterRoot
<1> QED
  BY <1>1, <1>2, <1>3 DEF CheckpointOf, Checkpoint, Root, Epoch

(* What weighing an epoch makes of bits and checkpoints. *)
LEMMA WeighedFields ==
    ASSUME NEW st \in StateType, get_current_epoch(st) > 1
    PROVE  LET weighed == process_justification_and_finalization(st)
               bits == UpdatedBits(st.justification_bits, PreviousWins(st), CurrentWins(st))
               epoch == get_current_epoch(st)
           IN  /\ weighed.justification_bits = bits
               /\ weighed.previous_justified_checkpoint = st.current_justified_checkpoint
               /\ weighed.current_justified_checkpoint
                    = NewJustified(st, PreviousWins(st), CurrentWins(st))
               /\ weighed.finalized_checkpoint =
                    FinalizedOf(bits, epoch, st.previous_justified_checkpoint,
                                st.current_justified_checkpoint, st.finalized_checkpoint)
<1> DEFINE weighed == process_justification_and_finalization(st)
           next == process_epoch(st)
<1>1. weighed \in StateType
  BY JustificationOrdered
<1>2. next = [weighed EXCEPT !.previous_epoch_attestations = weighed.current_epoch_attestations,
                             !.current_epoch_attestations = {}]
  BY DEF process_epoch, process_participation_record_updates
<1> HIDE DEF next, weighed
<1>3. /\ next.justification_bits = weighed.justification_bits
      /\ next.previous_justified_checkpoint = weighed.previous_justified_checkpoint
      /\ next.current_justified_checkpoint = weighed.current_justified_checkpoint
      /\ next.finalized_checkpoint = weighed.finalized_checkpoint
  BY <1>1, <1>2 DEF StateType
<1> QED
  BY <1>3, EpochWeighed DEF next, weighed, FinalizedOf

(* The links that weighing an epoch past the anchor adds to those of the chain: from *)
(* the checkpoints justified before to the two epochs weighed, one for each that two *)
(* thirds have voted for.                                                            *)
WeighedLinks(st, b) ==
    LET epoch == get_current_epoch(st)
    IN  {l \in {<<st.previous_justified_checkpoint, CheckpointOf(b, epoch - 1)>>} :
                epoch - 1 > AnchorEpoch /\ PreviousWins(st)}
        \cup {l \in {<<st.current_justified_checkpoint, CheckpointOf(b, epoch)>>} :
                epoch > AnchorEpoch /\ CurrentWins(st)}

LEMMA WeighedLinksOnChain ==
    ASSUME NEW st \in StateType, NEW b \in Block, ReadsChain(st, b),
           Ordered(st, get_current_epoch(st)), VotesInv(st), get_current_epoch(st) > 1,
           NEW L, HistoryAt(L, b, get_current_epoch(st), st)
    PROVE  /\ LinksOnChain(L \cup WeighedLinks(st, b), b)
           /\ PreviousWins(st) /\ get_current_epoch(st) - 1 > AnchorEpoch =>
                  CheckpointAt(st, get_previous_epoch(st)) = CheckpointOf(b, get_current_epoch(st) - 1)
           /\ CurrentWins(st) /\ get_current_epoch(st) > AnchorEpoch =>
                  CheckpointAt(st, get_current_epoch(st)) = CheckpointOf(b, get_current_epoch(st))
<1> DEFINE epoch == get_current_epoch(st)
           toPrevious == CheckpointOf(b, epoch - 1)
           toCurrent == CheckpointOf(b, epoch)
           previous == st.previous_justified_checkpoint
           current == st.current_justified_checkpoint
           K == L \cup WeighedLinks(st, b)
<1>1. /\ epoch \in Nat /\ epoch >= 2 /\ epoch - 1 \in Nat /\ AnchorEpoch \in Nat
      /\ get_previous_epoch(st) = epoch - 1
  <2>1. st.slot \in Nat
    BY DEF StateType, Slot
  <2>2. get_current_epoch(st) \in Nat /\ get_current_epoch(st) # 0
    BY <2>1, PreviousEpoch
  <2> QED
    BY <2>2, AnchorFirst DEF get_previous_epoch, GENESIS_EPOCH
<1>2. /\ previous \in Checkpoint /\ current \in Checkpoint
      /\ previous.epoch \in Nat /\ current.epoch \in Nat
      /\ st.previous_epoch_attestations \subseteq PendingAttestations
      /\ st.current_epoch_attestations \subseteq PendingAttestations
  BY DEF StateType, Checkpoint, Epoch
<1>3. /\ previous.epoch > AnchorEpoch => previous \in TargetsOf(L)
      /\ current.epoch > AnchorEpoch => current \in TargetsOf(L)
      /\ LinksOnChain(L, b)
  BY DEF HistoryAt
<1>4. ASSUME PreviousWins(st), epoch - 1 > AnchorEpoch
      PROVE  /\ CheckpointAt(st, epoch - 1) = toPrevious
             /\ LinksOnChain(L \cup {<<previous, toPrevious>>}, b)
  <2>1. epoch > AnchorEpoch
    BY <1>1, <1>4
  <2>2. /\ toPrevious \in Checkpoint /\ toPrevious.epoch = epoch - 1
        /\ toPrevious.root = get_checkpoint_block(b, epoch - 1)
        /\ AncestorRoot(b, compute_start_slot_at_epoch(epoch - 1)) = toPrevious.root
    BY <1>1, <1>4, ChainCheckpoint
  <2>3. CheckpointAt(st, epoch - 1) = toPrevious
    <3>1. get_block_root(st, epoch - 1) = AncestorRoot(b, compute_start_slot_at_epoch(epoch - 1))
      BY <1>1 DEF ReadsChain
    <3> QED
      BY <2>2, <3>1 DEF CheckpointAt, CheckpointOf
  <2>4. IsQuorumLink(previous, toPrevious)
    <3>1. IsQuorumLink(previous, CheckpointAt(st, get_previous_epoch(st)))
      BY <1>2, <1>4, <2>1, WinIsQuorum DEF PreviousWins, VotesInv, Sources
    <3> QED
      BY <1>1, <2>3, <3>1
  <2>5. previous.epoch < toPrevious.epoch
    BY <1>1, <1>2, <1>4, <2>1, <2>2 DEF VotesInv
  <2> HIDE DEF previous, toPrevious, epoch
  <2> QED
    BY <1>2, <1>3, <1>4, <2>2, <2>3, <2>4, <2>5, LinkAdded
<1>5. ASSUME CurrentWins(st), epoch > AnchorEpoch
      PROVE  /\ CheckpointAt(st, epoch) = toCurrent
             /\ LinksOnChain(L \cup {<<current, toCurrent>>}, b)
  <2>2. /\ toCurrent \in Checkpoint /\ toCurrent.epoch = epoch
        /\ toCurrent.root = get_checkpoint_block(b, epoch)
        /\ AncestorRoot(b, compute_start_slot_at_epoch(epoch)) = toCurrent.root
    BY <1>1, <1>5, ChainCheckpoint
  <2>3. CheckpointAt(st, epoch) = toCurrent
    <3>1. st.current_epoch_attestations # {}
      BY <1>5, CurrentNeedsVotes
    <3>2. get_block_root(st, epoch) = AncestorRoot(b, compute_start_slot_at_epoch(epoch))
      BY <3>1 DEF ReadsChain
    <3> QED
      BY <2>2, <3>2 DEF CheckpointAt, CheckpointOf
  <2>4. IsQuorumLink(current, toCurrent)
    <3>1. IsQuorumLink(current, CheckpointAt(st, epoch))
      BY <1>2, <1>5, WinIsQuorum DEF CurrentWins, VotesInv, Sources
    <3> QED
      BY <2>3, <3>1
  <2>5. current.epoch < toCurrent.epoch
    BY <1>1, <1>2, <2>2 DEF Ordered, GENESIS_EPOCH
  <2> HIDE DEF current, toCurrent, epoch
  <2> QED
    BY <1>2, <1>3, <1>5, <2>2, <2>3, <2>4, <2>5, LinkAdded
<1>6. LinksOnChain(K, b)
  <2>1. \A l \in WeighedLinks(st, b) :
            \/ PreviousWins(st) /\ epoch - 1 > AnchorEpoch /\ l = <<previous, toPrevious>>
            \/ CurrentWins(st) /\ epoch > AnchorEpoch /\ l = <<current, toCurrent>>
    BY DEF WeighedLinks
  <2>2. \A l \in K : \E M \in SUBSET K : l \in M /\ LinksOnChain(M, b)
    <3> SUFFICES ASSUME NEW l \in K PROVE \E M \in SUBSET K : l \in M /\ LinksOnChain(M, b)
      OBVIOUS
    <3> HIDE DEF previous, current, toPrevious, toCurrent, epoch
    <3>1. CASE l \in L
      BY <1>3, <3>1
    <3>2. CASE PreviousWins(st) /\ epoch - 1 > AnchorEpoch /\ l = <<previous, toPrevious>>
      <4>1. L \cup {<<previous, toPrevious>>} \in SUBSET K
        BY <3>2
      <4> HIDE DEF K
      <4> QED
        BY <1>4, <3>2, <4>1
    <3>3. CASE CurrentWins(st) /\ epoch > AnchorEpoch /\ l = <<current, toCurrent>>
      <4>1. L \cup {<<current, toCurrent>>} \in SUBSET K
        BY <3>3
      <4> HIDE DEF K
      <4> QED
        BY <1>5, <3>3, <4>1
    <3> QED
      BY <2>1, <3>1, <3>2, <3>3
  <2> HIDE DEF K
  <2> QED
    BY <2>2 DEF LinksOnChain
<1> QED
  BY <1>1, <1>4, <1>5, <1>6

(* The bits after an epoch, and what they say of the links. *)
LEMMA WeighedBits ==
    ASSUME NEW st \in StateType, NEW b \in Block, get_current_epoch(st) > 1,
           NEW L, HistoryAt(L, b, get_current_epoch(st), st)
    PROVE  LET K == L \cup WeighedLinks(st, b)
               bits == UpdatedBits(st.justification_bits, PreviousWins(st), CurrentWins(st))
               epoch == get_current_epoch(st)
           IN  /\ \A i \in BitIndex : \A n \in Nat :
                     n > AnchorEpoch + 1 /\ n + 1 + i = epoch + 1 /\ bits[i]
                         => \E l \in K : l[2].epoch = n
               /\ epoch > AnchorEpoch /\ bits[0] =>
                     \E l \in K : l[1] = st.current_justified_checkpoint /\ l[2].epoch = epoch
               /\ epoch > AnchorEpoch + 2 /\ bits[1] =>
                     \E l \in K : l[1] = st.previous_justified_checkpoint /\ l[2].epoch = epoch - 1
<1> DEFINE epoch == get_current_epoch(st)
           bits == st.justification_bits
           after == UpdatedBits(bits, PreviousWins(st), CurrentWins(st))
           previous == st.previous_justified_checkpoint
           current == st.current_justified_checkpoint
           New == WeighedLinks(st, b)
           K == L \cup New
<1>1. /\ epoch \in Nat /\ epoch >= 2 /\ AnchorEpoch \in Nat
  BY PreviousEpoch, AnchorFirst DEF StateType, Slot
<1>2. /\ after[0] <=> CurrentWins(st)
      /\ after[1] <=> bits[0] \/ PreviousWins(st)
      /\ after[2] = bits[1] /\ after[3] = bits[2]
  <2>1. bits \in [BitIndex -> BOOLEAN]
    BY DEF StateType
  <2>2. PreviousWins(st) \in BOOLEAN /\ CurrentWins(st) \in BOOLEAN
    BY DEF PreviousWins, CurrentWins, IsSupermajority
  <2>3. after \in [BitIndex -> BOOLEAN]
    BY <2>1, <2>2, UpdatedBitsType
  <2>4. 0 \in BitIndex /\ 1 \in BitIndex /\ 2 \in BitIndex /\ 3 \in BitIndex
    BY DEF BitIndex, JUSTIFICATION_BITS_LENGTH
  <2> HIDE DEF bits
  <2>5. after[0] <=> CurrentWins(st)
    BY <2>4 DEF UpdatedBits
  <2>6. after[1] <=> bits[0] \/ PreviousWins(st)
    BY <2>3, <2>4 DEF UpdatedBits
  <2>7. after[2] = bits[1] /\ after[3] = bits[2]
    BY <2>4 DEF UpdatedBits
  <2> QED
    BY <2>5, <2>6, <2>7
<1>3. ASSUME CurrentWins(st), epoch > AnchorEpoch
      PROVE  \E l \in K : l[1] = current /\ l[2].epoch = epoch
  <2>1. <<current, CheckpointOf(b, epoch)>> \in K
    BY <1>3 DEF WeighedLinks
  <2> HIDE DEF K
  <2> QED
    BY <2>1 DEF CheckpointOf
<1>4. ASSUME PreviousWins(st), epoch - 1 > AnchorEpoch
      PROVE  \E l \in K : l[1] = previous /\ l[2].epoch = epoch - 1
  <2>1. <<previous, CheckpointOf(b, epoch - 1)>> \in K
    BY <1>4 DEF WeighedLinks
  <2> HIDE DEF K
  <2> QED
    BY <2>1 DEF CheckpointOf
<1>5. /\ \A i \in BitIndex : \A n \in Nat :
              n > AnchorEpoch + 1 /\ n + 1 + i = epoch /\ bits[i] => \E l \in L : l[2].epoch = n
      /\ \A n \in Nat : n > AnchorEpoch + 1 /\ n + 1 = epoch /\ bits[0]
              => \E l \in L : l[1] = previous /\ l[2].epoch = n
  BY DEF HistoryAt
<1>6. L \subseteq K
  OBVIOUS
<1> HIDE DEF epoch, bits, after, previous, current, New, K
<1>7. ASSUME NEW i \in BitIndex, NEW n \in Nat,
             n > AnchorEpoch + 1, n + 1 + i = epoch + 1, after[i]
      PROVE  \E l \in K : l[2].epoch = n
  <2>0. i \in {0, 1, 2, 3}
    BY DEF BitIndex, JUSTIFICATION_BITS_LENGTH
  <2>1. CASE i = 0
    <3>1. n = epoch /\ epoch > AnchorEpoch
      BY <1>1, <1>7, <2>1
    <3> QED
      BY <1>2, <1>3, <1>7, <2>1, <3>1
  <2>2. CASE i = 1 /\ PreviousWins(st)
    <3>1. n = epoch - 1 /\ epoch - 1 > AnchorEpoch
      BY <1>1, <1>7, <2>2
    <3> QED
      BY <1>4, <2>2, <3>1
  <2>3. CASE i = 1 /\ bits[0]
    <3>1. n + 1 + 0 = epoch /\ 0 \in BitIndex
      BY <1>1, <1>7, <2>3 DEF BitIndex, JUSTIFICATION_BITS_LENGTH
    <3> QED
      BY <1>5, <1>6, <1>7, <2>3, <3>1
  <2>4. CASE i = 2
    <3>1. n + 1 + 1 = epoch /\ 1 \in BitIndex /\ bits[1]
      BY <1>1, <1>2, <1>7, <2>4 DEF BitIndex, JUSTIFICATION_BITS_LENGTH
    <3> QED
      BY <1>5, <1>6, <1>7, <3>1
  <2>5. CASE i = 3
    <3>1. n + 1 + 2 = epoch /\ 2 \in BitIndex /\ bits[2]
      BY <1>1, <1>2, <1>7, <2>5 DEF BitIndex, JUSTIFICATION_BITS_LENGTH
    <3> QED
      BY <1>5, <1>6, <1>7, <3>1
  <2> QED
    BY <1>2, <1>7, <2>0, <2>1, <2>2, <2>3, <2>4, <2>5
<1>8. ASSUME epoch > AnchorEpoch + 2, after[1]
      PROVE  \E l \in K : l[1] = previous /\ l[2].epoch = epoch - 1
  <2>1. /\ epoch - 1 \in Nat /\ epoch - 1 > AnchorEpoch + 1 /\ epoch - 1 > AnchorEpoch
        /\ (epoch - 1) + 1 = epoch
    BY <1>1, <1>8
  <2>2. CASE bits[0]
    BY <1>5, <1>6, <2>1, <2>2
  <2>3. CASE PreviousWins(st)
    BY <1>4, <2>1, <2>3
  <2> QED
    BY <1>2, <1>8, <2>2, <2>3
<1>9. epoch > AnchorEpoch /\ after[0] =>
          \E l \in K : l[1] = current /\ l[2].epoch = epoch
  BY <1>2, <1>3
<1> QED
  BY <1>7, <1>8, <1>9 DEF epoch, bits, after, previous, current, New, K

(* Weighing an epoch adds to the links of the chain those two thirds have voted for, *)
(* and what it justifies and finalizes, the links do.                                *)
LEMMA WeighedHistory ==
    ASSUME NEW st \in StateType, NEW b \in Block, ReadsChain(st, b),
           Ordered(st, get_current_epoch(st)), VotesInv(st), get_current_epoch(st) > 1,
           NEW L, HistoryAt(L, b, get_current_epoch(st), st)
    PROVE  \E K : HistoryAt(K, b, get_current_epoch(st) + 1,
                            process_justification_and_finalization(st))
<1> DEFINE epoch == get_current_epoch(st)
           after == UpdatedBits(st.justification_bits, PreviousWins(st), CurrentWins(st))
           previous == st.previous_justified_checkpoint
           current == st.current_justified_checkpoint
           finalized == st.finalized_checkpoint
           New == WeighedLinks(st, b)
           K == L \cup New
           weighed == process_justification_and_finalization(st)
<1>1. /\ epoch \in Nat /\ epoch >= 2 /\ epoch - 1 \in Nat /\ AnchorEpoch \in Nat
      /\ get_previous_epoch(st) = epoch - 1
  <2>1. st.slot \in Nat
    BY DEF StateType, Slot
  <2>2. get_current_epoch(st) \in Nat /\ get_current_epoch(st) # 0
    BY <2>1, PreviousEpoch
  <2> QED
    BY <2>2, AnchorFirst DEF get_previous_epoch, GENESIS_EPOCH
<1>2. previous.epoch \in Nat /\ current.epoch \in Nat
  BY DEF StateType, Checkpoint, Epoch
<1>3. /\ LinksOnChain(L, b)
      /\ \A l \in L : l[2].epoch < epoch
      /\ previous.epoch > AnchorEpoch => previous \in TargetsOf(L)
      /\ current.epoch > AnchorEpoch => current \in TargetsOf(L)
      /\ finalized.epoch > AnchorEpoch => FinalizedIn(L, finalized)
  BY DEF HistoryAt
<1>4. /\ LinksOnChain(K, b)
      /\ PreviousWins(st) /\ epoch - 1 > AnchorEpoch =>
             CheckpointAt(st, epoch - 1) = CheckpointOf(b, epoch - 1)
      /\ CurrentWins(st) /\ epoch > AnchorEpoch => CheckpointAt(st, epoch) = CheckpointOf(b, epoch)
  BY <1>1, WeighedLinksOnChain
<1>5. /\ \A i \in BitIndex : \A n \in Nat :
              n > AnchorEpoch + 1 /\ n + 1 + i = epoch + 1 /\ after[i]
                  => \E l \in K : l[2].epoch = n
      /\ epoch > AnchorEpoch /\ after[0] =>
              \E l \in K : l[1] = current /\ l[2].epoch = epoch
      /\ epoch > AnchorEpoch + 2 /\ after[1] =>
              \E l \in K : l[1] = previous /\ l[2].epoch = epoch - 1
  BY WeighedBits
<1>6. /\ weighed.justification_bits = after
      /\ weighed.previous_justified_checkpoint = current
      /\ weighed.current_justified_checkpoint
            = NewJustified(st, PreviousWins(st), CurrentWins(st))
      /\ weighed.finalized_checkpoint = FinalizedOf(after, epoch, previous, current, finalized)
  BY WeighedFields
<1>7. \A l \in K : l[2].epoch < epoch + 1
  <2>1. \A l \in New : l[2].epoch \in {epoch - 1, epoch}
    BY DEF WeighedLinks, CheckpointOf
  <2>2. \A l \in L : l[2].epoch \in Nat
    BY <1>3 DEF LinksOnChain, Checkpoint, Epoch
  <2> HIDE DEF New, epoch
  <2> QED
    BY <1>1, <1>3, <2>1, <2>2
<1>8. TargetsOf(L) \subseteq TargetsOf(K) /\ \A c : FinalizedIn(L, c) => FinalizedIn(K, c)
  BY DEF TargetsOf, FinalizedIn, Finalizing
<1>9. ASSUME weighed.current_justified_checkpoint.epoch > AnchorEpoch
      PROVE  weighed.current_justified_checkpoint \in TargetsOf(K)
  <2>1. CASE CurrentWins(st)
    <3>1. weighed.current_justified_checkpoint = CheckpointAt(st, epoch)
      BY <1>6, <2>1 DEF NewJustified
    <3>2. epoch > AnchorEpoch
      BY <1>9, <3>1 DEF CheckpointAt
    <3>3. <<current, CheckpointOf(b, epoch)>> \in K
      BY <2>1, <3>2 DEF WeighedLinks
    <3> HIDE DEF K
    <3> QED
      BY <1>4, <2>1, <3>1, <3>2, <3>3 DEF TargetsOf
  <2>2. CASE PreviousWins(st) /\ ~CurrentWins(st)
    <3>1. weighed.current_justified_checkpoint = CheckpointAt(st, epoch - 1)
      BY <1>1, <1>6, <2>2 DEF NewJustified
    <3>2. epoch - 1 > AnchorEpoch
      BY <1>9, <3>1 DEF CheckpointAt
    <3>3. <<previous, CheckpointOf(b, epoch - 1)>> \in K
      BY <2>2, <3>2 DEF WeighedLinks
    <3> HIDE DEF K
    <3> QED
      BY <1>4, <2>2, <3>1, <3>2, <3>3 DEF TargetsOf
  <2>3. CASE ~PreviousWins(st) /\ ~CurrentWins(st)
    <3>1. weighed.current_justified_checkpoint = current
      BY <1>6, <2>3 DEF NewJustified
    <3> QED
      BY <1>3, <1>8, <1>9, <3>1
  <2> QED
    BY <2>1, <2>2, <2>3
<1> HIDE DEF epoch, after, previous, current, finalized, New, K, weighed
<1>10. ASSUME FinalizesOldCurrent(after, current, epoch), current.epoch > AnchorEpoch
       PROVE  FinalizedIn(K, current)
  <2>1. /\ after[0] /\ after[1]
        /\ current.epoch + 1 = epoch \/ current.epoch + 2 = epoch
    BY <1>10 DEF FinalizesOldCurrent, AllBits
  <2>2. PICK l \in K : l[1] = current /\ l[2].epoch = epoch
    BY <1>1, <1>2, <1>5, <1>10, <2>1
  <2>3. current \in TargetsOf(K) /\ l[2] \in TargetsOf(K)
    BY <1>3, <1>8, <1>10 DEF TargetsOf
  <2>4. CASE current.epoch + 1 = epoch
    BY <2>2, <2>3, <2>4 DEF FinalizedIn, Finalizing
  <2>5. CASE current.epoch + 2 = epoch
    <3>1. /\ current.epoch + 1 \in Nat /\ current.epoch + 1 > AnchorEpoch + 1
          /\ (current.epoch + 1) + 1 + 1 = epoch + 1 /\ 1 \in BitIndex
      BY <1>1, <1>2, <1>10, <2>5 DEF BitIndex, JUSTIFICATION_BITS_LENGTH
    <3>2. \E k \in K : k[2].epoch = current.epoch + 1
      BY <1>5, <2>1, <3>1
    <3>3. \E m \in TargetsOf(K) : m.epoch = current.epoch + 1
      BY <3>2 DEF TargetsOf
    <3> QED
      BY <2>2, <2>3, <2>5, <3>3 DEF FinalizedIn, Finalizing
  <2> QED
    BY <2>1, <2>4, <2>5
<1>11. ASSUME FinalizesOldPrevious(after, previous, epoch), previous.epoch > AnchorEpoch
       PROVE  FinalizedIn(K, previous)
  <2>1. /\ after[1] /\ after[2]
        /\ previous.epoch + 2 = epoch \/ previous.epoch + 3 = epoch
    BY <1>11 DEF FinalizesOldPrevious, AllBits
  <2>2. PICK l \in K : l[1] = previous /\ l[2].epoch = epoch - 1
    BY <1>1, <1>2, <1>5, <1>11, <2>1
  <2>3. previous \in TargetsOf(K) /\ l[2] \in TargetsOf(K)
    BY <1>3, <1>8, <1>11 DEF TargetsOf
  <2>4. CASE previous.epoch + 2 = epoch
    <3>1. l[2].epoch = previous.epoch + 1
      BY <1>1, <1>2, <2>2, <2>4
    <3> QED
      BY <2>2, <2>3, <3>1 DEF FinalizedIn, Finalizing
  <2>5. CASE previous.epoch + 3 = epoch
    <3>1. /\ previous.epoch + 1 \in Nat /\ previous.epoch + 1 > AnchorEpoch + 1
          /\ (previous.epoch + 1) + 1 + 2 = epoch + 1 /\ 2 \in BitIndex
          /\ l[2].epoch = previous.epoch + 2
      BY <1>1, <1>2, <1>11, <2>2, <2>5 DEF BitIndex, JUSTIFICATION_BITS_LENGTH
    <3>2. \E k \in K : k[2].epoch = previous.epoch + 1
      BY <1>5, <2>1, <3>1
    <3>3. \E m \in TargetsOf(K) : m.epoch = previous.epoch + 1
      BY <3>2 DEF TargetsOf
    <3> QED
      BY <2>2, <2>3, <3>1, <3>3 DEF FinalizedIn, Finalizing
  <2> QED
    BY <2>1, <2>4, <2>5
<1>12. ASSUME weighed.finalized_checkpoint.epoch > AnchorEpoch
       PROVE  FinalizedIn(K, weighed.finalized_checkpoint)
  BY <1>3, <1>6, <1>8, <1>10, <1>11, <1>12 DEF FinalizedOf
<1>13. \A n \in Nat : n > AnchorEpoch + 1 /\ n + 1 = epoch + 1 /\ weighed.justification_bits[0]
           => \E l \in K : l[1] = weighed.previous_justified_checkpoint /\ l[2].epoch = n
  <2> SUFFICES ASSUME NEW n \in Nat, n > AnchorEpoch + 1, n + 1 = epoch + 1, after[0]
               PROVE  \E l \in K : l[1] = current /\ l[2].epoch = n
    BY <1>6
  <2>1. n = epoch /\ epoch > AnchorEpoch
    BY <1>1
  <2> QED
    BY <1>5, <2>1
<1>14. \A c \in {weighed.previous_justified_checkpoint, weighed.current_justified_checkpoint} :
           c.epoch > AnchorEpoch => c \in TargetsOf(K)
  BY <1>3, <1>6, <1>8, <1>9
<1>15. HistoryAt(K, b, epoch + 1, weighed)
  BY <1>4, <1>5, <1>6, <1>7, <1>12, <1>13, <1>14 DEF HistoryAt
<1> QED
  BY <1>15 DEF epoch, weighed

(* A turn of the process_slots loop: at an epoch boundary votes are weighed and     *)
(* rotated, and the current justified checkpoint becomes the previous one.           *)
LEMMA CasperSlot ==
    ASSUME NEW st \in StateType, NEW b \in Block, ChainInv(st, b), ChainCasper(st, b)
    PROVE  ChainCasper(AdvanceOneSlot(st), b)
<1> DEFINE cached == process_slot(st)
           next == AdvanceOneSlot(st)
           epoch == get_current_epoch(st)
           weighed == process_justification_and_finalization(cached)
<1>1. /\ st.slot \in Nat /\ epoch \in Nat /\ AnchorEpoch \in Nat
      /\ cached \in StateType /\ cached.slot = st.slot
      /\ get_current_epoch(cached) = epoch
      /\ get_previous_epoch(cached) = get_previous_epoch(st)
  BY PreviousEpoch, ProcessSlotType, AnchorFirst
     DEF StateType, Slot, get_current_epoch, get_previous_epoch
<1>2. get_current_epoch(next) = IF IsEpochStart(st.slot + 1) THEN epoch + 1 ELSE epoch
  <2>1. next.slot = st.slot + 1
    BY AdvanceOneSlotOrdered
  <2> HIDE DEF next
  <2> QED
    BY <1>1, <2>1, NextSlotEpoch DEF get_current_epoch
<1>3. /\ cached.finalized_checkpoint = st.finalized_checkpoint
      /\ cached.previous_justified_checkpoint = st.previous_justified_checkpoint
      /\ cached.current_justified_checkpoint = st.current_justified_checkpoint
      /\ cached.justification_bits = st.justification_bits
      /\ cached.current_epoch_attestations = st.current_epoch_attestations
      /\ cached.previous_epoch_attestations = st.previous_epoch_attestations
  BY ProcessSlotType, CachedRing
<1>4. PICK L : HistoryAt(L, b, epoch, st)
  BY DEF ChainCasper
<1>5. VotesInv(st)
  BY DEF ChainCasper
<1>6. Ordered(st, epoch)
  BY DEF ChainInv
<1>7. VotesInv(cached) /\ Ordered(cached, epoch) /\ HistoryAt(L, b, epoch, cached)
  <2> HIDE DEF cached
  <2>1. Sources(cached) /\ VotesInv(cached)
    BY <1>1, <1>3, <1>5 DEF VotesInv, Sources
  <2>2. Ordered(cached, epoch)
    BY <1>3, <1>6 DEF Ordered
  <2>3. HistoryAt(L, b, epoch, cached)
    BY <1>3, <1>4 DEF HistoryAt
  <2> QED
    BY <2>1, <2>2, <2>3
<1>8. /\ st.previous_justified_checkpoint.epoch \in Nat
      /\ st.current_justified_checkpoint.epoch \in Nat
      /\ st.previous_justified_checkpoint.epoch <= st.current_justified_checkpoint.epoch
      /\ st.current_justified_checkpoint.epoch < epoch \/ st.current_justified_checkpoint.epoch = 0
  BY <1>6 DEF StateType, Checkpoint, Epoch, Ordered, GENESIS_EPOCH
<1>9. Sources(next)
  BY <1>5, SlotSources DEF VotesInv
<1>10. CASE ~IsEpochStart(st.slot + 1)
  <2>1. Kept(next) = Kept(cached)
    BY <1>10, AdvancedKeeps
  <2>2. get_current_epoch(next) = epoch /\ get_previous_epoch(next) = get_previous_epoch(st)
    BY <1>2, <1>10 DEF get_previous_epoch
  <2>3. /\ next.finalized_checkpoint = cached.finalized_checkpoint
        /\ next.previous_justified_checkpoint = cached.previous_justified_checkpoint
        /\ next.current_justified_checkpoint = cached.current_justified_checkpoint
        /\ next.justification_bits = cached.justification_bits
        /\ next.current_epoch_attestations = cached.current_epoch_attestations
        /\ next.previous_epoch_attestations = cached.previous_epoch_attestations
    <3> HIDE DEF next, cached
    <3> QED
      BY <2>1 DEF Kept
  <2> HIDE DEF next, cached, epoch
  <2>4. VotesInv(next)
    BY <1>1, <1>7, <1>9, <2>2, <2>3 DEF VotesInv
  <2>5. HistoryAt(L, b, epoch, next)
    BY <1>7, <2>3 DEF HistoryAt
  <2>6. ChainCasper(next, b)
    BY <2>2, <2>4, <2>5 DEF ChainCasper
  <2> QED
    BY <2>6 DEF next
<1>11. CASE IsEpochStart(st.slot + 1)
  <2>1. Kept(next) = Kept(process_epoch(cached))
    BY <1>11, AdvancedKeeps
  <2>2. get_current_epoch(next) = epoch + 1 /\ get_previous_epoch(next) = epoch
    <3>1. get_current_epoch(next) = epoch + 1
      BY <1>2, <1>11
    <3>2. epoch + 1 # 0 /\ (epoch + 1) - 1 = epoch
      BY <1>1
    <3> QED
      BY <3>1, <3>2 DEF get_previous_epoch, GENESIS_EPOCH
  <2>3. weighed \in StateType
    BY <1>1, JustificationOrdered
  <2>4. process_epoch(cached) =
            [weighed EXCEPT !.previous_epoch_attestations = weighed.current_epoch_attestations,
                            !.current_epoch_attestations = {}]
    BY DEF process_epoch, process_participation_record_updates
  <2>5. /\ next.finalized_checkpoint = weighed.finalized_checkpoint
        /\ next.previous_justified_checkpoint = weighed.previous_justified_checkpoint
        /\ next.current_justified_checkpoint = weighed.current_justified_checkpoint
        /\ next.justification_bits = weighed.justification_bits
    <3> HIDE DEF next, cached, weighed
    <3> QED
      BY <2>1, <2>3, <2>4 DEF Kept, StateType
  <2>6. /\ next.current_epoch_attestations = {}
        /\ next.previous_epoch_attestations = cached.current_epoch_attestations
    BY <1>11, AdvancedRoots
  <2>7. CASE epoch <= 1
    <3>1. weighed = cached
      BY <1>1, <2>7, JustificationOrdered
    <3> HIDE DEF next, cached, weighed
    <3>2. /\ LinksOnChain(L, b)
          /\ \A l \in L : l[2].epoch < epoch
          /\ \A c \in {st.previous_justified_checkpoint, st.current_justified_checkpoint} :
                  c.epoch > AnchorEpoch => c \in TargetsOf(L)
          /\ st.finalized_checkpoint.epoch > AnchorEpoch
                  => FinalizedIn(L, st.finalized_checkpoint)
      BY <1>4 DEF HistoryAt
    <3>3. \A l \in L : l[2].epoch \in Nat /\ l[2].epoch < epoch + 1
      BY <1>1, <3>2 DEF LinksOnChain, Checkpoint, Epoch
    <3>4. \A i \in Nat : \A n \in Nat : ~(n > AnchorEpoch + 1 /\ n + 1 + i = epoch + 1)
      BY <1>1, <2>7
    <3>5. HistoryAt(L, b, epoch + 1, next)
      <4>1. \A i \in BitIndex : i \in Nat
        BY DEF BitIndex
      <4>2. \A n \in Nat : ~(n > AnchorEpoch + 1 /\ n + 1 = epoch + 1)
        BY <1>1, <2>7
      <4> QED
        BY <1>3, <2>5, <3>1, <3>2, <3>3, <3>4, <4>1, <4>2 DEF HistoryAt
    <3>6. \/ next.previous_justified_checkpoint.epoch < epoch
          \/ next.previous_justified_checkpoint.epoch = 0
      BY <1>1, <1>3, <1>8, <2>5, <3>1
    <3>7. VotesInv(next)
      BY <1>3, <1>5, <1>9, <2>2, <2>6, <3>6 DEF VotesInv, ArePending
    <3> QED
      BY <2>2, <3>5, <3>7 DEF ChainCasper, next
  <2>8. CASE ~(epoch <= 1)
    <3>1. epoch > 1
      BY <1>1, <2>8
    <3>2. ReadsChain(cached, b)
      BY ChainCached
    <3>3. PICK K : HistoryAt(K, b, epoch + 1, weighed)
      <4> HIDE DEF cached
      <4> QED
        BY <1>1, <1>7, <3>1, <3>2, WeighedHistory
    <3>4. weighed.previous_justified_checkpoint = cached.current_justified_checkpoint
      BY <1>1, <2>8, JustificationOrdered
    <3> HIDE DEF next, cached, weighed
    <3>5. HistoryAt(K, b, epoch + 1, next)
      BY <2>5, <3>3 DEF HistoryAt
    <3>6. \/ next.previous_justified_checkpoint.epoch < epoch
          \/ next.previous_justified_checkpoint.epoch = 0
      BY <1>3, <1>8, <2>5, <3>4
    <3>7. VotesInv(next)
      BY <1>3, <1>5, <1>9, <2>2, <2>6, <3>6 DEF VotesInv, ArePending
    <3> QED
      BY <2>2, <3>5, <3>7 DEF ChainCasper, next
  <2> QED
    BY <2>7, <2>8
<1> QED
  BY <1>10, <1>11

(* A block adds votes it includes. *)
LEMMA CasperBlock ==
    ASSUME BlockTypes, NEW b \in ValidBlock, NEW q \in StateType,
           q.slot = SlotOf(b), ChainInv(q, ParentOf(b)), CanProcessBlock(q, BeaconBlock[b]),
           ChainCasper(q, ParentOf(b))
    PROVE  ChainCasper(process_block(q, BeaconBlock[b]), b)
<1> DEFINE block == BeaconBlock[b]
           parent == ParentOf(b)
           next == process_block(q, block)
           epoch == get_current_epoch(q)
<1>1. b \in Block \ {Anchor} /\ b \in Block
  BY TreeAssumption DEF ValidBlock
<1>2. BlockInput(q, block)
  BY <1>1, TreeBlockInput
<1>3. /\ next.slot = q.slot
      /\ Checkpoints(next) = Checkpoints(q)
      /\ next.justification_bits = q.justification_bits
      /\ \A a \in next.current_epoch_attestations \ q.current_epoch_attestations :
             /\ a.source = q.current_justified_checkpoint
             /\ \E v \in block.attestations :
                    a = PendingAttestation(v) /\ v.target.epoch = get_current_epoch(q)
      /\ \A a \in next.previous_epoch_attestations \ q.previous_epoch_attestations :
             /\ a.source = q.previous_justified_checkpoint
             /\ \E v \in block.attestations :
                    a = PendingAttestation(v) /\ v.target.epoch # get_current_epoch(q)
  <2> HIDE DEF block
  <2> QED
    BY <1>2, ProcessBlockType
<1>4. \A v \in block.attestations :
          /\ v \in IncludedVotes
          /\ v.target.epoch \in {get_previous_epoch(q), get_current_epoch(q)}
          /\ PendingAttestation(v).target = v.target
  BY DEF IncludedVotes, CanProcessBlock, CanProcessAttestation, PendingAttestation
<1> HIDE DEF next, block
<1>5. /\ next.finalized_checkpoint = q.finalized_checkpoint
      /\ next.previous_justified_checkpoint = q.previous_justified_checkpoint
      /\ next.current_justified_checkpoint = q.current_justified_checkpoint
      /\ get_current_epoch(next) = epoch /\ get_previous_epoch(next) = get_previous_epoch(q)
  BY <1>3 DEF Checkpoints, get_current_epoch, get_previous_epoch
<1>6. VotesInv(q)
  BY DEF ChainCasper
<1>7. Sources(next)
  BY <1>3, <1>5, <1>6 DEF VotesInv, Sources
<1>8. ArePending(next.current_epoch_attestations, get_current_epoch(next))
  BY <1>3, <1>4, <1>5, <1>6 DEF VotesInv, ArePending
<1>9. get_current_epoch(next) > AnchorEpoch =>
          ArePending(next.previous_epoch_attestations, get_previous_epoch(next))
  BY <1>3, <1>4, <1>5, <1>6 DEF VotesInv, ArePending
<1>10. VotesInv(next)
  BY <1>3, <1>5, <1>6, <1>7, <1>8, <1>9 DEF VotesInv
<1>11. PICK L : HistoryAt(L, parent, epoch, q)
  BY DEF ChainCasper
<1>12. LinksOnChain(L, parent) /\ \A l \in L : l[2].epoch < epoch
  BY <1>11 DEF HistoryAt
<1>13. epoch \in Nat /\ q.slot \in Nat
  BY PreviousEpoch DEF StateType, Slot
<1>14. LinksOnChain(L, b)
  <2>1. ASSUME NEW l \in L
        PROVE  get_checkpoint_block(b, l[2].epoch) = get_checkpoint_block(parent, l[2].epoch)
    <3>1. l[2].epoch \in Nat /\ l[2].epoch < epoch
      BY <1>12 DEF LinksOnChain, Checkpoint, Epoch
    <3>2. /\ compute_start_slot_at_epoch(l[2].epoch) \in Nat
          /\ compute_start_slot_at_epoch(l[2].epoch) < compute_start_slot_at_epoch(epoch)
      BY <1>13, <3>1, LaterStart
    <3>3. /\ compute_start_slot_at_epoch(epoch) \in Nat
          /\ compute_start_slot_at_epoch(epoch) <= q.slot
      BY <1>13, StartsInRing
    <3>4. compute_start_slot_at_epoch(l[2].epoch) < SlotOf(b)
      BY <1>13, <3>2, <3>3
    <3>5. ~(SlotOf(b) <= compute_start_slot_at_epoch(l[2].epoch))
      BY <1>13, <3>2, <3>4
    <3> QED
      BY <1>1, <3>2, <3>5, AncestorWalk DEF get_checkpoint_block
  <2> QED
    BY <1>12, <2>1 DEF LinksOnChain
<1>15. HistoryAt(L, b, epoch, next)
  BY <1>3, <1>5, <1>11, <1>14 DEF HistoryAt
<1>16. ChainCasper(next, b)
  BY <1>5, <1>10, <1>15 DEF ChainCasper
<1> QED
  BY <1>16 DEF next, block

(* The anchor's state has no votes of its epoch, and no checkpoint past it. *)
LEMMA CasperAnchor ==
    ASSUME StatesAreComputed
    PROVE  ChainCasper(BlockState[Anchor], Anchor)
<1> DEFINE st == BlockState[Anchor]
<1>1. AnchorState(st) /\ st \in StateType /\ st.slot = SlotOf(Anchor)
  BY DEF StatesAreComputed, AnchorState
<1> HIDE DEF st
<1>2. AnchorEpoch \in Nat /\ get_current_epoch(st) = AnchorEpoch
  BY <1>1, AnchorFirst DEF get_current_epoch, AnchorEpoch, EpochOf
<1>3. VotesInv(st)
  BY <1>1, <1>2 DEF AnchorState, VotesInv, Sources, ArePending, GENESIS_EPOCH
<1>4. /\ st.finalized_checkpoint.epoch \in Nat
      /\ st.previous_justified_checkpoint.epoch \in Nat
      /\ st.current_justified_checkpoint.epoch \in Nat
  BY <1>1 DEF StateType, Checkpoint, Epoch
<1>5. /\ ~(st.finalized_checkpoint.epoch > AnchorEpoch)
      /\ ~(st.previous_justified_checkpoint.epoch > AnchorEpoch)
      /\ ~(st.current_justified_checkpoint.epoch > AnchorEpoch)
  BY <1>1, <1>2, <1>4 DEF AnchorState, GENESIS_EPOCH
<1>6. \A i \in Nat : \A n \in Nat : ~(n > AnchorEpoch + 1 /\ n + 1 + i = AnchorEpoch)
  BY <1>2
<1>7. \A n \in Nat : ~(n > AnchorEpoch + 1 /\ n + 1 = AnchorEpoch)
  BY <1>2
<1>8. \A i \in BitIndex : i \in Nat
  BY DEF BitIndex
<1>9. HistoryAt({}, Anchor, AnchorEpoch, st)
  BY <1>5, <1>6, <1>7, <1>8 DEF HistoryAt, LinksOnChain
<1> QED
  BY <1>2, <1>3, <1>9 DEF ChainCasper, st

(* process_slots. *)
LEMMA CasperSlots ==
    ASSUME NEW st \in StateType, NEW b \in Block, ChainInv(st, b),
           ChainCasper(st, b), NEW n \in Nat, st.slot <= n
    PROVE  LET q == process_slots(st, n)
           IN  q \in StateType /\ q.slot = n /\ ChainInv(q, b) /\ ChainCasper(q, b)
<1> DEFINE D == st.slot .. n
           Good(q) == ChainInv(q, b) /\ ChainCasper(q, b)
           rank == [s \in D |-> s]
<1>1. st.slot \in Nat
  BY DEF StateType, Slot
<1>2. PICK f \in [D -> StateType] :
          /\ process_slots(st, n) = f[n]
          /\ f[st.slot] = st
          /\ \A s \in D : s # st.slot => f[s] = AdvanceOneSlot(f[s - 1])
  BY SlotTurns
<1> DEFINE T == {s \in D : Good(f[s])}
<1>3. \A s \in D : rank[s] \in Nat
  BY <1>1
<1>4. ASSUME NEW s \in D, \A e \in D : rank[e] < rank[s] => e \in T PROVE s \in T
  <2>1. CASE s = st.slot
    BY <1>2, <2>1
  <2>2. CASE s # st.slot
    <3>1. s - 1 \in D /\ rank[s - 1] < rank[s] /\ s \in Nat
      BY <1>1, <2>2
    <3>2. Good(f[s - 1]) /\ f[s - 1] \in StateType
      BY <1>2, <1>4, <3>1
    <3>3. f[s] = AdvanceOneSlot(f[s - 1])
      BY <1>2, <2>2
    <3>4. Good(AdvanceOneSlot(f[s - 1]))
      BY <3>2, ChainSlot, CasperSlot
    <3> QED
      BY <3>3, <3>4
  <2> QED
    BY <2>1, <2>2
<1>5. \A s \in D : s \in T
  <2> HIDE DEF T, rank, D
  <2> QED
    BY <1>3, <1>4, RankInduction
<1>6. n \in D
  BY <1>1
<1>7. ChainCasper(process_slots(st, n), b)
  BY <1>2, <1>5, <1>6
<1> QED
  BY <1>7, ChainSlots

(* Every state of a tree knows the links of its chain. *)
LEMMA TreeCasper ==
    ASSUME BlockTypes, StatesAreComputed
    PROVE  \A b \in DOMAIN BlockState : ChainCasper(BlockState[b], b)
<1> DEFINE D == DOMAIN BlockState
           rank == [b \in D |-> SlotOf(b)]
           T == {b \in D : ChainCasper(BlockState[b], b)}
<1>1. \A b \in D : /\ b \in Block /\ SlotOf(b) \in Nat /\ BlockState[b] \in StateType
                   /\ BlockState[b].slot = SlotOf(b) /\ ChainInv(BlockState[b], b)
  BY TreeStates, BlockSlots
<1>2. \A b \in D : rank[b] \in Nat
  BY <1>1
<1>3. ASSUME NEW b \in D, \A e \in D : rank[e] < rank[b] => e \in T PROVE b \in T
  <2>1. CASE b = Anchor
    BY <2>1, CasperAnchor
  <2>2. CASE b # Anchor
    <3> DEFINE p == ParentOf(b)
               st == BlockState[p]
               q == process_slots(st, SlotOf(b))
    <3>1. b \in ValidBlock /\ b \in Block \ {Anchor}
      BY <1>1, <2>2 DEF ValidBlock
    <3>2. /\ p \in D
          /\ st.slot < SlotOf(b) /\ CanProcessBlock(q, BeaconBlock[b])
          /\ BlockState[b] = process_block(q, BeaconBlock[b])
      BY <3>1 DEF StatesAreComputed, CanTransition, state_transition, SlotOf
    <3>3. rank[p] < rank[b]
      BY <3>1, <3>2, BlockSlots
    <3>4. ChainCasper(st, p)
      BY <1>3, <3>2, <3>3
    <3>5. /\ p \in Block /\ SlotOf(b) \in Nat /\ st.slot \in Nat /\ st.slot <= SlotOf(b)
          /\ st \in StateType /\ ChainInv(st, p)
      BY <1>1, <3>2
    <3>6. q \in StateType /\ q.slot = SlotOf(b) /\ ChainInv(q, p) /\ ChainCasper(q, p)
      <4> HIDE DEF st, p
      <4> QED
        BY <3>4, <3>5, CasperSlots
    <3> HIDE DEF q
    <3>7. ChainCasper(process_block(q, BeaconBlock[b]), b)
      BY <3>1, <3>2, <3>6, CasperBlock
    <3> QED
      BY <3>2, <3>7
  <2> QED
    BY <2>1, <2>2
<1>4. \A b \in D : b \in T
  <2> HIDE DEF T, rank, D
  <2> QED
    BY <1>2, <1>3, RankInduction
<1> QED
  BY <1>4

(* What a block's state has justified and finalized past the anchor, and what it is  *)
(* pulled up to, comes from votes that blocks of its chain include.                  *)
LEMMA TreeHistories ==
    ASSUME BlockTypes, StatesAreComputed, NEW b \in ValidBlock,
           NEW st \in {BlockState[b], PulledUpState[b]}
    PROVE  \E L : /\ LinksOnChain(L, b)
                  /\ st.current_justified_checkpoint.epoch > AnchorEpoch =>
                         st.current_justified_checkpoint \in TargetsOf(L)
                  /\ st.finalized_checkpoint.epoch > AnchorEpoch =>
                         FinalizedIn(L, st.finalized_checkpoint)
<1> DEFINE q == BlockState[b]
           weighed == process_justification_and_finalization(q)
<1>1. b \in DOMAIN BlockState
  BY DEF ValidBlock
<1>2. b \in Block /\ q \in StateType /\ ChainInv(q, b) /\ ChainCasper(q, b)
  BY <1>1, TreeStates, TreeCasper
<1>3. PulledUpState[b] = weighed
  BY <1>1 DEF StatesAreComputed
<1> HIDE DEF q
<1>4. VotesInv(q) /\ Ordered(q, get_current_epoch(q)) /\ get_current_epoch(q) \in Nat
  BY <1>2, PreviousEpoch DEF ChainCasper, ChainInv, StateType, Slot
<1>5. PICK L : HistoryAt(L, b, get_current_epoch(q), q)
  BY <1>2 DEF ChainCasper
<1>6. \E n, K : HistoryAt(K, b, n, st)
  <2>1. CASE st = q
    BY <1>5, <2>1
  <2>2. CASE st = weighed /\ get_current_epoch(q) <= 1
    BY <1>2, <1>5, <2>2, JustificationOrdered
  <2>3. CASE st = weighed /\ get_current_epoch(q) > 1
    <3>1. ReadsChain(q, b)
      BY <1>2, ChainReads
    <3>2. \E K : HistoryAt(K, b, get_current_epoch(q) + 1, weighed)
      BY <1>2, <1>4, <1>5, <2>3, <3>1, WeighedHistory
    <3> QED
      BY <2>3, <3>2
  <2> QED
    BY <1>3, <1>4, <2>1, <2>2, <2>3 DEF q
<1>7. PICK n, K : HistoryAt(K, b, n, st)
  BY <1>6
<1> QED
  BY <1>7 DEF HistoryAt

(* Casper's accountable safety, from the code of the state transition: in a tree of  *)
(* blocks grown from any trusted state, whatever its branches include and whenever   *)
(* they weigh it, a checkpoint past the anchor that is finalized in the state of one *)
(* block is below every checkpoint that the state of any block justifies or          *)
(* finalizes for its epoch or a later one - or else validators with a third of the   *)
(* balance have cast two votes that break a slashing condition of                    *)
(* is_slashable_attestation_data. AccountableSafety is what the theorems about the   *)
(* fork choice store assume.                                                        *)
THEOREM CasperIsSafe ==
    BlockTypes /\ StatesAreComputed /\ FewSlashable => AccountableSafety
<1> SUFFICES ASSUME BlockTypes, StatesAreComputed, FewSlashable,
                    NEW f \in FinalizedOnChain,
                    NEW c \in JustifiedOnChain \cup FinalizedOnChain, f.epoch <= c.epoch
             PROVE  get_checkpoint_block(c.root, f.epoch) = f.root
  BY DEF AccountableSafety
<1>1. PICK b \in ValidBlock : \E L : LinksOnChain(L, b) /\ FinalizedIn(L, f)
  BY TreeHistories DEF FinalizedOnChain
<1>L. PICK L : LinksOnChain(L, b) /\ FinalizedIn(L, f)
  BY <1>1
<1>2. PICK d \in ValidBlock : \E M : LinksOnChain(M, d) /\ c \in TargetsOf(M)
  BY TreeHistories DEF FinalizedOnChain, JustifiedOnChain, FinalizedIn
<1>M. PICK M : LinksOnChain(M, d) /\ c \in TargetsOf(M)
  BY <1>2
<1>3. b \in Block /\ d \in Block
  BY TreeAssumption DEF ValidBlock
<1>4. get_checkpoint_block(d, f.epoch) = f.root
  BY <1>L, <1>M, <1>3, FinalizedBelow
<1> DEFINE m == compute_start_slot_at_epoch(f.epoch)
           n == compute_start_slot_at_epoch(c.epoch)
<1>5. f.epoch \in Nat
  BY DEF FinalizedOnChain, Checkpoint, Epoch
<1>6. c.epoch \in Nat /\ c.epoch > AnchorEpoch /\ c.root = get_ancestor(d, n)
  BY <1>M, <1>3, TargetOfLinks DEF get_checkpoint_block
<1>7. m \in Nat /\ n \in Nat /\ m <= n
  BY <1>5, <1>6, StartsOrdered
<1>8. get_ancestor(d, n) \in Block
  BY <1>3, <1>6, LaterAncestor DEF get_checkpoint_block
<1> HIDE DEF m, n
<1>9. get_ancestor(d, m) = get_ancestor(get_ancestor(d, n), m)
  BY <1>3, <1>7, <1>8, AncestorOfAncestor
<1> QED
  BY <1>4, <1>6, <1>9 DEF get_checkpoint_block, m
================================================================================
