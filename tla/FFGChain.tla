-------------------------------- MODULE FFGChain --------------------------------
(* One chain of the phase 0 state transition as a state machine: the state moves *)
(* one turn of the process_slots loop at a time, and at a slot it may process a   *)
(* block with any attestations and attester slashing that the asserts accept.     *)
(* A block that fails an assert changes nothing (the caller works on a copy), so  *)
(* only valid blocks are steps.                                                   *)
EXTENDS BeaconChain

CONSTANTS
    Aggregate,         \* the sets of validators an attestation may aggregate
    AttesterSlashing,  \* the evidence a block may carry
    MaxSlot            \* bound: the chain stops at this slot

ASSUME InputAssumption ==
    /\ MaxSlot \in Nat
    /\ Aggregate \subseteq SUBSET Validator
    /\ \A e \in AttesterSlashing :
            /\ e.attestation_1.attesting_indices \subseteq Validator
            /\ e.attestation_2.attesting_indices \subseteq Validator

VARIABLES
    state,   \* the beacon state
    links    \* history: the <<source, target>> pairs two thirds attested to

vars == <<state, links>>

(* The block at a slot has root slot + 1; ZeroRoot is no block's. *)
RootOfSlot(slot) == slot + 1

--------------------------------------------------------------------------------
(* The votes of an epoch that a block at state.slot could include: for the block *)
(* the chain has at the start of the epoch, or for one of another fork (a root   *)
(* this chain has no block of). Votes of epoch 0 are left out: no epoch boundary *)
(* ever weighs them.                                                             *)
VotesFor(epoch) ==
    {[slot |-> compute_start_slot_at_epoch(epoch) + n,
      beacon_block_root |-> root,
      source |-> source,
      target |-> [epoch |-> epoch, root |-> root],
      attesting_indices |-> indices] :
        n \in 0 .. SLOTS_PER_EPOCH - 1,
        root \in {ZeroRoot, get_block_root(state, epoch)},
        source \in {state.previous_justified_checkpoint, state.current_justified_checkpoint},
        indices \in Aggregate}

(* Those the asserts of process_attestation accept. A vote for the current epoch *)
(* is at least one slot old, so its target block is in the ring.                 *)
IncludableVotes(epoch) ==
    IF epoch = GENESIS_EPOCH \/ state.slot <= compute_start_slot_at_epoch(epoch)
    THEN {}
    ELSE {a \in VotesFor(epoch) : CanProcessAttestation(state, a)}

AtMostOne(S) == {{}} \cup {{x} : x \in S}

(* The supermajority links of the pending attestations that the epoch boundary   *)
(* weighs; the first two boundaries weigh none.                                  *)
NewLinks ==
    LET pending == state.previous_epoch_attestations \cup state.current_epoch_attestations
        votes(source, target) == {a \in pending : a.source = source /\ a.target = target}
    IN  IF get_current_epoch(state) <= GENESIS_EPOCH + 1
        THEN {}
        ELSE {link \in {<<a.source, a.target>> : a \in pending} :
                IsSupermajority(get_attesting_balance(state, votes(link[1], link[2])),
                                get_total_active_balance)}

--------------------------------------------------------------------------------
Init ==
    /\ state = GenesisState(RootOfSlot(GENESIS_SLOT))
    /\ links = {}

AdvanceSlot ==
    /\ state.slot < MaxSlot
    /\ state' = AdvanceOneSlot(state)
    /\ links' = IF IsEpochStart(state.slot + 1) THEN links \cup NewLinks ELSE links

ProcessBlock ==
    \E slashings \in AtMostOne(AttesterSlashing),
       previous \in AtMostOne(IncludableVotes(get_previous_epoch(state))),
       current \in AtMostOne(IncludableVotes(get_current_epoch(state))) :
        LET block == [slot |-> state.slot,
                      root |-> RootOfSlot(state.slot),
                      parent_root |-> state.latest_block.root,
                      proposer_index |-> get_beacon_proposer_index(state.slot),
                      attester_slashings |-> slashings,
                      attestations |-> previous \cup current]
        IN  /\ CanProcessBlock(state, block)
            /\ state' = process_block(state, block)
            /\ UNCHANGED links

Next == AdvanceSlot \/ ProcessBlock

Spec == Init /\ [][Next]_vars

--------------------------------------------------------------------------------
(* Casper FFG, read from the votes alone: the justified checkpoints of this chain *)
(* are the smallest set that holds the genesis checkpoint and, with the source of *)
(* a link, its target; one is finalized when a link from it to a justified one    *)
(* passes over justified epochs only, one at most.                                *)
JustifiedBy(L) ==
    LET ours == {l \in L : l[2].root # ZeroRoot}
        candidates == {GenesisCheckpoint} \cup {l[2] : l \in ours}
        isClosed(J) == GenesisCheckpoint \in J /\ \A l \in ours : l[1] \in J => l[2] \in J
    IN  {c \in candidates : \A J \in SUBSET candidates : isClosed(J) => c \in J}

FinalizedBy(L) ==
    LET J == JustifiedBy(L)
        finalizing(source, target) ==
            \/ target.epoch = source.epoch + 1
            \/ /\ target.epoch = source.epoch + 2
               /\ \E middle \in J : middle.epoch = source.epoch + 1
    IN  {GenesisCheckpoint} \cup
        {l[1] : l \in {k \in L : {k[1], k[2]} \subseteq J /\ finalizing(k[1], k[2])}}

CasperJustified == JustifiedBy(links)
CasperFinalized == FinalizedBy(links)

IsHighest(checkpoint, S) ==
    checkpoint \in S /\ \A other \in S : other.epoch <= checkpoint.epoch

--------------------------------------------------------------------------------
(* The state has the shape of the BeaconState container; in particular its        *)
(* justification bits stay four (the slice that shifts them drops the oldest).    *)
TypeOK ==
    /\ state \in StateType
    /\ links \subseteq Checkpoint \X Checkpoint

(* weigh_justification_and_finalization keeps no votes, only the last two         *)
(* justified checkpoints; the one it has as current is the highest checkpoint     *)
(* Casper justifies from the links on the chain, no more and no less.             *)
JustifiedIsCasper == IsHighest(state.current_justified_checkpoint, CasperJustified)

(* The four finalization rules on four bits and two old checkpoints finalize      *)
(* exactly the highest checkpoint Casper finalizes with links of one or two epochs.*)
FinalizedIsCasper == IsHighest(state.finalized_checkpoint, CasperFinalized)

(* All pending votes of an epoch share the source the rules take them to have:    *)
(* across the rotation at an epoch boundary, the votes kept as previous have the  *)
(* previous justified checkpoint as source, the current ones the current one.     *)
PendingSources ==
    /\ \A a \in state.current_epoch_attestations :
            a.source = state.current_justified_checkpoint
    /\ \A a \in state.previous_epoch_attestations :
            a.source = state.previous_justified_checkpoint

(* The checkpoints of a state are ordered, and the current justified one is of an *)
(* epoch already processed: what weigh_justification_and_finalization needs to    *)
(* never replace a checkpoint by an older one.                                    *)
CheckpointOrder ==
    /\ state.finalized_checkpoint.epoch <= state.previous_justified_checkpoint.epoch
    /\ state.previous_justified_checkpoint.epoch <= state.current_justified_checkpoint.epoch
    /\ \/ state.current_justified_checkpoint.epoch < get_current_epoch(state)
       \/ state.current_justified_checkpoint.epoch = GENESIS_EPOCH

(* No slot and no block takes justification or finality back: the rule that       *)
(* fires last in an epoch may not overwrite a later finalized checkpoint.         *)
FinalityAdvances ==
    [][/\ state.finalized_checkpoint.epoch <= state'.finalized_checkpoint.epoch
       /\ state.current_justified_checkpoint.epoch <= state'.current_justified_checkpoint.epoch
       /\ state.slot <= state'.slot]_vars
================================================================================
