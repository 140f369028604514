------------------------------- MODULE BlockTree -------------------------------
(* The blocks a node may ever receive, grown from a trusted anchor, with the       *)
(* post-state of each (specs/phase0/fork-choice.md): the part of the store that is *)
(* a function of the blocks and never changes.                                     *)
EXTENDS BeaconTypes

CONSTANTS
    BeaconBlock,      \* root -> [slot, parent_root, attestations, attester_slashings]
    Anchor,           \* the root of the trusted anchor block
    BlockState,       \* root -> the post-state, for the blocks whose state_transition succeeds
    PulledUpState     \* root -> that state after process_justification_and_finalization

Block == DOMAIN BeaconBlock
ValidBlock == DOMAIN BlockState \ {Anchor}
SlotOf(root) == BeaconBlock[root].slot
ParentOf(root) == BeaconBlock[root].parent_root
EpochOf(root) == compute_epoch_at_slot(SlotOf(root))
AnchorEpoch == EpochOf(Anchor)
AnchorCheckpoint == [epoch |-> AnchorEpoch, root |-> Anchor]

(* The tree of blocks. get_checkpoint_block would walk past an anchor that is not *)
(* the first slot of its epoch, and no block could follow it.                     *)
ASSUME TreeAssumption ==
    /\ Anchor \in Block
    /\ Block \subseteq Root \ {ZeroRoot}
    /\ Anchor \in DOMAIN BlockState /\ DOMAIN BlockState \subseteq Block
    /\ \A b \in Block : SlotOf(b) \in Slot
    /\ \A b \in Block \ {Anchor} : ParentOf(b) \in Block /\ SlotOf(ParentOf(b)) < SlotOf(b)
    /\ ParentOf(Anchor) \notin Block
    /\ IsEpochStart(SlotOf(Anchor))

--------------------------------------------------------------------------------
(* The block tree. A walk past the anchor (a KeyError) gives ZeroRoot, which is   *)
(* the root of no block and no checkpoint.                                        *)
get_ancestor(root, slot) ==
    LET walk[r \in Block] ==
            IF SlotOf(r) <= slot THEN r
            ELSE IF r = Anchor THEN ZeroRoot
            ELSE walk[ParentOf(r)]
    IN  walk[root]

get_checkpoint_block(root, epoch) ==
    get_ancestor(root, compute_start_slot_at_epoch(epoch))

IsDescendant(root, ancestor) == get_ancestor(root, SlotOf(ancestor)) = ancestor

--------------------------------------------------------------------------------
(* What the state transition guarantees of the states of valid blocks: weighing   *)
(* an epoch never lowers a checkpoint, and finality does not pass justification.  *)
StatesOrdered ==
    \A b \in ValidBlock :
        LET state == BlockState[b]
            pulledUp == PulledUpState[b]
        IN  /\ {state.current_justified_checkpoint, state.finalized_checkpoint,
                pulledUp.current_justified_checkpoint, pulledUp.finalized_checkpoint}
                    \subseteq Checkpoint
            /\ state.current_justified_checkpoint.epoch <= pulledUp.current_justified_checkpoint.epoch
            /\ state.finalized_checkpoint.epoch <= pulledUp.finalized_checkpoint.epoch
            /\ state.finalized_checkpoint.epoch <= state.current_justified_checkpoint.epoch
            /\ pulledUp.finalized_checkpoint.epoch <= pulledUp.current_justified_checkpoint.epoch

(* What the state transition further guarantees: a checkpoint of a state is on the *)
(* chain of its block and not of a later epoch (get_block_root reads the state's   *)
(* own ring), and the state of a block starts from what the state of its parent    *)
(* has justified, an epoch on from what that is pulled up to.                      *)
StatesOnChain ==
    \A b \in ValidBlock :
        LET state == BlockState[b]
            pulledUp == PulledUpState[b]
        IN  /\ \A c \in {state.current_justified_checkpoint, state.finalized_checkpoint,
                         pulledUp.current_justified_checkpoint, pulledUp.finalized_checkpoint} :
                   c.epoch > AnchorEpoch =>
                       c.epoch <= EpochOf(b) /\ c.root = get_checkpoint_block(b, c.epoch)
            /\ ParentOf(b) \in ValidBlock =>
                   LET before == IF EpochOf(ParentOf(b)) < EpochOf(b)
                                 THEN PulledUpState[ParentOf(b)] ELSE BlockState[ParentOf(b)]
                   IN  before.current_justified_checkpoint.epoch
                           <= state.current_justified_checkpoint.epoch

(* And of an epoch: its checkpoints move at its end only. What a state has justified *)
(* above the anchor is of an epoch that is over, and blocks of one epoch that follow *)
(* one parent have its checkpoints, weighed as often, whatever they include.         *)
StatesOfEpoch ==
    \A b \in ValidBlock :
        /\ BlockState[b].current_justified_checkpoint.epoch > AnchorEpoch =>
               BlockState[b].current_justified_checkpoint.epoch < EpochOf(b)
        /\ \A c \in ValidBlock : ParentOf(c) = ParentOf(b) /\ EpochOf(c) = EpochOf(b) =>
               /\ BlockState[c].current_justified_checkpoint
                       = BlockState[b].current_justified_checkpoint
               /\ BlockState[c].finalized_checkpoint = BlockState[b].finalized_checkpoint

(* Casper's safety, of all the states together: above the anchor no checkpoint is  *)
(* justified, and none finalized, beside a finalized one of its epoch or before.   *)
JustifiedOnChain ==
    {c \in Checkpoint : /\ c.epoch > AnchorEpoch
                        /\ \E b \in ValidBlock :
                              c \in {BlockState[b].current_justified_checkpoint,
                                     PulledUpState[b].current_justified_checkpoint}}
FinalizedOnChain ==
    {c \in Checkpoint : /\ c.epoch > AnchorEpoch
                        /\ \E b \in ValidBlock : c \in {BlockState[b].finalized_checkpoint,
                                                       PulledUpState[b].finalized_checkpoint}}

AccountableSafety ==
    \A f \in FinalizedOnChain : \A c \in JustifiedOnChain \cup FinalizedOnChain :
        f.epoch <= c.epoch => get_checkpoint_block(c.root, f.epoch) = f.root
================================================================================
