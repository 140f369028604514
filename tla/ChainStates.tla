------------------------------ MODULE ChainStates ------------------------------
(* Where the states of a block tree come from: on_block runs the state transition  *)
(* of each block on the state of its parent, and compute_pulled_up_tip weighs the   *)
(* votes of the block's epoch ahead of time.                                        *)
EXTENDS BlockTree, BeaconChain

(* The containers of a block: what its fields are by their SSZ types, and its root. *)
BlockTypes ==
    \A b \in Block :
        /\ BeaconBlock[b].root = b
        /\ \A a \in BeaconBlock[b].attestations :
                a.slot \in Slot /\ a.target \in Checkpoint /\ a.attesting_indices \subseteq Validator
        /\ \A e \in BeaconBlock[b].attester_slashings :
                e.attestation_1.attesting_indices \cap e.attestation_2.attesting_indices
                    \subseteq Validator

(* A state fit to be trusted, one a chain may have at the first slot of an epoch:    *)
(* the checkpoints are of earlier epochs, no vote of the epoch has come in, and       *)
(* those of the epoch before have the source that process_attestation asks for. In   *)
(* epochs 0 and 1 nothing has moved the justified checkpoints apart.                 *)
AnchorState(state) ==
    /\ state \in StateType
    /\ state.finalized_checkpoint.epoch <= state.previous_justified_checkpoint.epoch
    /\ state.previous_justified_checkpoint.epoch <= state.current_justified_checkpoint.epoch
    /\ \/ state.current_justified_checkpoint.epoch < get_current_epoch(state)
       \/ state.current_justified_checkpoint.epoch = GENESIS_EPOCH
    /\ state.current_epoch_attestations = {}
    /\ \A a \in state.previous_epoch_attestations :
            a.source = state.previous_justified_checkpoint
    /\ get_current_epoch(state) <= GENESIS_EPOCH + 1 =>
            state.previous_justified_checkpoint = state.current_justified_checkpoint

(* The anchor has such a state. A valid block follows a valid one, and its state is  *)
(* what state_transition makes of that block's state.                                *)
StatesAreComputed ==
    /\ AnchorState(BlockState[Anchor])
    /\ BlockState[Anchor].slot = SlotOf(Anchor) /\ BlockState[Anchor].latest_block.root = Anchor
    /\ \A b \in ValidBlock :
            /\ ParentOf(b) \in DOMAIN BlockState
            /\ CanTransition(BlockState[ParentOf(b)], BeaconBlock[b])
            /\ BlockState[b] = state_transition(BlockState[ParentOf(b)], BeaconBlock[b])
    /\ \A b \in DOMAIN BlockState :
            PulledUpState[b] = process_justification_and_finalization(BlockState[b])

(* Who could be slashed for the votes that blocks of the tree include, on whatever  *)
(* branches: two of a validator's votes break a slashing condition.                  *)
IncludedVotes == UNION {BeaconBlock[b].attestations : b \in ValidBlock}

Slashable ==
    {v \in Validator : \E a1, a2 \in IncludedVotes :
        /\ v \in a1.attesting_indices \cap a2.attesting_indices
        /\ is_slashable_attestation_data(a1, a2)}

(* Less than a third of the balance.                                                *)
FewSlashable == SumOfBalances(Slashable) * 3 < get_total_active_balance
================================================================================
