------------------------------ MODULE BeaconChain ------------------------------
(* The finality part of the phase 0 state transition, as operators on states:   *)
(* process_slots with its epoch processing, and process_block with the          *)
(* operations that reach finality (attestations, attester slashings).           *)
(*                                                                              *)
(* A state is a record                                                          *)
(*   slot                          the slot the state has been advanced to      *)
(*   latest_block                  [slot, root] of latest_block_header          *)
(*   block_roots                   the ring of the last block roots, by slot    *)
(*                                 modulo SLOTS_PER_HISTORICAL_ROOT             *)
(*   slashed                       the validators with the slashed flag         *)
(*   previous_epoch_attestations, current_epoch_attestations                    *)
(*   justification_bits            0..3 -> BOOLEAN, 0 the most recent epoch     *)
(*   previous_justified_checkpoint, current_justified_checkpoint,               *)
(*   finalized_checkpoint                                                       *)
(* Balances, activations and exits keep their genesis value: within the epochs  *)
(* checked a slashed validator has not left the active set yet, because         *)
(* compute_activation_exit_epoch is five epochs ahead.                          *)
EXTENDS BeaconTypes

CONSTANTS
    MIN_ATTESTATION_INCLUSION_DELAY,
    SLOTS_PER_HISTORICAL_ROOT,
    get_beacon_proposer_index(_)  \* slot -> the validator drawn to propose at it

(* The ring reaches back to the start of the previous epoch. *)
ASSUME HistoricalRootAssumption ==
    SLOTS_PER_HISTORICAL_ROOT \in Nat /\ SLOTS_PER_HISTORICAL_ROOT >= 2 * SLOTS_PER_EPOCH

(* A vote is included a slot after its own at the earliest.                       *)
ASSUME InclusionDelayAssumption == MIN_ATTESTATION_INCLUSION_DELAY \in Nat \ {0}

JUSTIFICATION_BITS_LENGTH == 4
BitIndex == 0 .. JUSTIFICATION_BITS_LENGTH - 1

(* The part of the BeaconState container that finality concerns.                  *)
PendingAttestations ==
    [source : Checkpoint, target : Checkpoint, attesting_indices : SUBSET Validator]

StateType ==
    [slot : Slot,
     latest_block : [slot : Slot, root : Root],
     block_roots : [0 .. SLOTS_PER_HISTORICAL_ROOT - 1 -> Root],
     slashed : SUBSET Validator,
     previous_epoch_attestations : SUBSET PendingAttestations,
     current_epoch_attestations : SUBSET PendingAttestations,
     justification_bits : [BitIndex -> BOOLEAN],
     previous_justified_checkpoint : Checkpoint,
     current_justified_checkpoint : Checkpoint,
     finalized_checkpoint : Checkpoint]

GenesisState(genesisRoot) ==
    [slot |-> GENESIS_SLOT,
     latest_block |-> [slot |-> GENESIS_SLOT, root |-> genesisRoot],
     block_roots |-> [i \in 0 .. SLOTS_PER_HISTORICAL_ROOT - 1 |-> ZeroRoot],
     slashed |-> {},
     previous_epoch_attestations |-> {},
     current_epoch_attestations |-> {},
     justification_bits |-> [i \in BitIndex |-> FALSE],
     previous_justified_checkpoint |-> GenesisCheckpoint,
     current_justified_checkpoint |-> GenesisCheckpoint,
     finalized_checkpoint |-> GenesisCheckpoint]

--------------------------------------------------------------------------------
(* Accessors *)
get_current_epoch(state) == compute_epoch_at_slot(state.slot)
get_previous_epoch(state) ==
    IF get_current_epoch(state) = GENESIS_EPOCH
    THEN GENESIS_EPOCH
    ELSE get_current_epoch(state) - 1

(* Has a value only when slot < state.slot <= slot + SLOTS_PER_HISTORICAL_ROOT. *)
get_block_root_at_slot(state, slot) == state.block_roots[slot % SLOTS_PER_HISTORICAL_ROOT]
get_block_root(state, epoch) ==
    get_block_root_at_slot(state, compute_start_slot_at_epoch(epoch))
CheckpointAt(state, epoch) == [epoch |-> epoch, root |-> get_block_root(state, epoch)]

(* Mutant: votes for other forks count as well. *)
AnyTarget(state, attestations, epoch) == attestations

MatchingTarget(state, attestations, epoch) ==
    {a \in attestations : a.target.root = get_block_root(state, epoch)}
get_unslashed_attesting_indices(state, attestations) ==
    UNION {a.attesting_indices : a \in attestations} \ state.slashed
get_attesting_balance(state, attestations) ==
    get_total_balance(get_unslashed_attesting_indices(state, attestations))

(* Mutant: a third is enough. *)
IsOneThird(balance, total) == balance * 3 >= total

IsSupermajority(balance, total) == balance * 3 >= total * 2

(* The registry has more than the balance of no validator at all, the floor of    *)
(* get_total_balance: an epoch without a vote justifies nothing. A genesis state  *)
(* needs MIN_GENESIS_ACTIVE_VALIDATOR_COUNT validators of 32 increments to start. *)
ASSUME BalanceAssumption ==
    ~IsSupermajority(EFFECTIVE_BALANCE_INCREMENT, get_total_active_balance)

--------------------------------------------------------------------------------
(* Justification and finalization *)

(* justification_bits shifted by one epoch, then set for the epochs that have   *)
(* two thirds of the balance behind their target.                               *)
(* Mutant: the oldest bit is not sliced off. *)
UnslicedBits(bits, previousJustified, currentJustified) ==
    [i \in 0 .. JUSTIFICATION_BITS_LENGTH |->
        CASE i = 0 -> currentJustified
          [] i = 1 -> bits[0] \/ previousJustified
          [] OTHER -> bits[i - 1]]

UpdatedBits(bits, previousJustified, currentJustified) ==
    [i \in BitIndex |->
        CASE i = 0 -> currentJustified
          [] i = 1 -> bits[0] \/ previousJustified
          [] OTHER -> bits[i - 1]]

AllBits(bits, from, to) == \A i \in from .. to - 1 : bits[i]

(* The four finalization rules: which of the two old justified checkpoints is   *)
(* the source of a justified link that spans one or two justified epochs.       *)
(* Mutant: the target of the two-epoch link need not be justified. *)
FinalizesWithoutTarget(bits, oldPrevious, epoch) ==
    \/ AllBits(bits, 2, 4) /\ oldPrevious.epoch + 3 = epoch
    \/ AllBits(bits, 1, 3) /\ oldPrevious.epoch + 2 = epoch

FinalizesOldPrevious(bits, oldPrevious, epoch) ==
    \/ AllBits(bits, 1, 4) /\ oldPrevious.epoch + 3 = epoch
    \/ AllBits(bits, 1, 3) /\ oldPrevious.epoch + 2 = epoch
FinalizesOldCurrent(bits, oldCurrent, epoch) ==
    \/ AllBits(bits, 0, 3) /\ oldCurrent.epoch + 2 = epoch
    \/ AllBits(bits, 0, 2) /\ oldCurrent.epoch + 1 = epoch

(* Mutant: without a supermajority the checkpoint of an epoch before is kept. *)
OlderCheckpointKept(state, previousJustified, currentJustified) ==
    IF currentJustified THEN CheckpointAt(state, get_current_epoch(state))
    ELSE IF previousJustified THEN CheckpointAt(state, get_previous_epoch(state))
    ELSE state.previous_justified_checkpoint

NewJustified(state, previousJustified, currentJustified) ==
    IF currentJustified THEN CheckpointAt(state, get_current_epoch(state))
    ELSE IF previousJustified THEN CheckpointAt(state, get_previous_epoch(state))
    ELSE state.current_justified_checkpoint

weigh_justification_and_finalization(state, total, previousTarget, currentTarget) ==
    LET epoch == get_current_epoch(state)
        oldPrevious == state.previous_justified_checkpoint
        oldCurrent == state.current_justified_checkpoint
        previousJustified == IsSupermajority(previousTarget, total)
        currentJustified == IsSupermajority(currentTarget, total)
        bits == UpdatedBits(state.justification_bits, previousJustified, currentJustified)
    IN  [state EXCEPT
          !.justification_bits = bits,
          !.previous_justified_checkpoint = oldCurrent,
          !.current_justified_checkpoint =
              NewJustified(state, previousJustified, currentJustified),
          !.finalized_checkpoint =
              IF FinalizesOldCurrent(bits, oldCurrent, epoch) THEN oldCurrent
              ELSE IF FinalizesOldPrevious(bits, oldPrevious, epoch) THEN oldPrevious
              ELSE @]

process_justification_and_finalization(state) ==
    LET balance(attestations, epoch) ==
            get_attesting_balance(state, MatchingTarget(state, attestations, epoch))
    IN  IF get_current_epoch(state) <= GENESIS_EPOCH + 1
        THEN state
        ELSE weigh_justification_and_finalization(
                 state,
                 get_total_active_balance,
                 balance(state.previous_epoch_attestations, get_previous_epoch(state)),
                 balance(state.current_epoch_attestations, get_current_epoch(state)))

(* Mutant: the current attestations are not reset. *)
CopyCurrentAttestations(state) ==
    [state EXCEPT !.previous_epoch_attestations = state.current_epoch_attestations]

process_participation_record_updates(state) ==
    [state EXCEPT !.previous_epoch_attestations = state.current_epoch_attestations,
                  !.current_epoch_attestations = {}]

process_epoch(state) ==
    process_participation_record_updates(process_justification_and_finalization(state))

--------------------------------------------------------------------------------
(* Slot processing *)
process_slot(state) ==
    [state EXCEPT !.block_roots[state.slot % SLOTS_PER_HISTORICAL_ROOT] = state.latest_block.root]

(* One turn of the loop of process_slots. *)
AdvanceOneSlot(state) ==
    LET cached == process_slot(state)
        ended == IF IsEpochStart(state.slot + 1) THEN process_epoch(cached) ELSE cached
    IN  [ended EXCEPT !.slot = @ + 1]

process_slots(state, slot) ==
    LET advanced[s \in state.slot .. slot] ==
            IF s = state.slot THEN state ELSE AdvanceOneSlot(advanced[s - 1])
    IN  advanced[slot]

--------------------------------------------------------------------------------
(* Block processing. A block is a record                                        *)
(*   [slot, root, parent_root, proposer_index, attester_slashings, attestations]*)
(* with at most one attester slashing. An assert that fails makes the block     *)
(* invalid: each process_X below has its asserts in CanX.                       *)

CanProcessHeader(state, block) ==
    /\ block.slot = state.slot
    /\ block.slot > state.latest_block.slot
    /\ block.parent_root = state.latest_block.root
    /\ block.proposer_index = get_beacon_proposer_index(state.slot)
    /\ block.proposer_index \notin state.slashed

process_block_header(state, block) ==
    [state EXCEPT !.latest_block = [slot |-> block.slot, root |-> block.root]]

(* The attesters of both votes that are still slashable. *)
NewlySlashed(state, evidence) ==
    (evidence.attestation_1.attesting_indices
        \cap evidence.attestation_2.attesting_indices) \ state.slashed

CanProcessAttesterSlashing(state, evidence) ==
    /\ is_slashable_attestation_data(evidence.attestation_1, evidence.attestation_2)
    /\ is_valid_indexed_attestation(evidence.attestation_1)
    /\ is_valid_indexed_attestation(evidence.attestation_2)
    /\ NewlySlashed(state, evidence) # {}

process_attester_slashings(state, slashings) ==
    [state EXCEPT !.slashed = @ \cup UNION {NewlySlashed(state, e) : e \in slashings}]

CanProcessAttestation(state, a) ==
    /\ a.target.epoch \in {get_previous_epoch(state), get_current_epoch(state)}
    /\ a.target.epoch = compute_epoch_at_slot(a.slot)
    /\ a.slot + MIN_ATTESTATION_INCLUSION_DELAY <= state.slot
    /\ state.slot <= a.slot + SLOTS_PER_EPOCH
    /\ a.source = IF a.target.epoch = get_current_epoch(state)
                  THEN state.current_justified_checkpoint
                  ELSE state.previous_justified_checkpoint
    /\ is_valid_indexed_attestation(a)

(* A pending attestation keeps what epoch processing reads of it. *)
PendingAttestation(a) ==
    [source |-> a.source, target |-> a.target, attesting_indices |-> a.attesting_indices]

process_attestations(state, attestations) ==
    LET current == {a \in attestations : a.target.epoch = get_current_epoch(state)}
        pending(atts) == {PendingAttestation(a) : a \in atts}
    IN  [state EXCEPT !.current_epoch_attestations = @ \cup pending(current),
                      !.previous_epoch_attestations = @ \cup pending(attestations \ current)]

CanProcessBlock(state, block) ==
    /\ CanProcessHeader(state, block)
    /\ \A e \in block.attester_slashings : CanProcessAttesterSlashing(state, e)
    /\ \A a \in block.attestations : CanProcessAttestation(state, a)

process_block(state, block) ==
    process_attestations(
        process_attester_slashings(
            process_block_header(state, block), block.attester_slashings),
        block.attestations)

(* process_slots asserts that the block is from a later slot than the state. *)
CanTransition(state, block) ==
    /\ state.slot < block.slot
    /\ CanProcessBlock(process_slots(state, block.slot), block)

state_transition(state, block) ==
    process_block(process_slots(state, block.slot), block)

(* The post-states of a tree of blocks (root -> block) grown from one state: for  *)
(* each root the set that holds the state after the block, empty when the block,  *)
(* or one before it, is invalid.                                                  *)
PostStates(tree, first, firstState) ==
    LET post[root \in DOMAIN tree] ==
            IF root = first THEN {firstState}
            ELSE {state_transition(pre, tree[root]) :
                    pre \in {p \in post[tree[root].parent_root] : CanTransition(p, tree[root])}}
    IN  post
================================================================================
