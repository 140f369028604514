------------------------------ MODULE BeaconTypes ------------------------------
(* What the state transition (specs/phase0/beacon-chain.md) and the fork choice *)
(* (specs/phase0/fork-choice.md) share: slots and epochs, checkpoints, votes    *)
(* and balances.                                                                *)
(*                                                                              *)
(* A block root is a natural number, so that "lexicographically higher root"    *)
(* is >, and ZeroRoot stands for Root(), the 32 zero bytes no block hashes to.  *)
(* An attestation is a record                                                   *)
(*    [slot, beacon_block_root, source, target, attesting_indices]              *)
(* whose attesting_indices are the committee members with their aggregation bit *)
(* set: committee selection is not modelled, so any subset may attest.          *)
EXTENDS Naturals, FiniteSets, FiniteSetsExt

CONSTANTS
    Validator,                    \* the registry: every validator is active in the horizon checked
    EffectiveBalance,             \* Validator -> effective balance, in increments
    EFFECTIVE_BALANCE_INCREMENT,  \* the floor of get_total_balance
    SLOTS_PER_EPOCH

ASSUME SlotsAssumption == SLOTS_PER_EPOCH \in Nat \ {0}

ASSUME RegistryAssumption ==
    /\ IsFiniteSet(Validator)
    /\ EffectiveBalance \in [Validator -> Nat]
    /\ EFFECTIVE_BALANCE_INCREMENT \in Nat

GENESIS_SLOT == 0
GENESIS_EPOCH == 0
ZeroRoot == 0

Root == Nat
Slot == Nat
Epoch == Nat
Checkpoint == [epoch : Epoch, root : Root]

GenesisCheckpoint == [epoch |-> GENESIS_EPOCH, root |-> ZeroRoot]

--------------------------------------------------------------------------------
compute_epoch_at_slot(slot) == slot \div SLOTS_PER_EPOCH
compute_start_slot_at_epoch(epoch) == epoch * SLOTS_PER_EPOCH
IsEpochStart(slot) == slot % SLOTS_PER_EPOCH = 0

SumOfBalances(indices) ==
    MapThenSumSet(LAMBDA i : EffectiveBalance[i], indices)

get_total_balance(indices) ==
    LET sum == SumOfBalances(indices)
    IN  IF sum > EFFECTIVE_BALANCE_INCREMENT THEN sum ELSE EFFECTIVE_BALANCE_INCREMENT

get_total_active_balance == get_total_balance(Validator)

--------------------------------------------------------------------------------
AttestationData(a) == <<a.slot, a.beacon_block_root, a.source, a.target>>

(* Two votes with one target epoch, or the first around the second. *)
IsDoubleVote(a1, a2) ==
    /\ AttestationData(a1) # AttestationData(a2)
    /\ a1.target.epoch = a2.target.epoch
IsSurroundVote(a1, a2) ==
    /\ a1.source.epoch < a2.source.epoch
    /\ a2.target.epoch < a1.target.epoch
is_slashable_attestation_data(a1, a2) == IsDoubleVote(a1, a2) \/ IsSurroundVote(a1, a2)

(* The signature is taken to be right; only an empty committee is refused. *)
is_valid_indexed_attestation(a) == a.attesting_indices # {}
================================================================================
