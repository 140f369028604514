------------------------------ MODULE ForkChoice ------------------------------
(* The fork choice store of one node (specs/phase0/fork-choice.md): its handlers  *)
(* on_tick, on_block, on_attestation and on_attester_slashing as actions, and     *)
(* get_head and get_proposer_head as operators on the store.                      *)
(*                                                                                *)
(* The store's block_states and unrealized_justifications are functions of the    *)
(* block, read from the states of BlockTree for the roots in blocks. A handler    *)
(* that raises leaves the store alone, so its asserts are guards.                 *)
EXTENDS BlockTree

CONSTANTS
    Attestation,      \* the attestations the wire may deliver
    AttesterSlashing, \* the attester slashings the wire may deliver
    TickTime,         \* bound: the times of on_tick, in seconds after genesis
    SECONDS_PER_SLOT,
    INTERVALS_PER_SLOT,
    PROPOSER_SCORE_BOOST,
    REORG_HEAD_WEIGHT_THRESHOLD,
    REORG_PARENT_WEIGHT_THRESHOLD,
    REORG_MAX_EPOCHS_SINCE_FINALIZATION

(* What the state transition guarantees of the blocks' states (see BlockTree).    *)
ASSUME StateAssumption == StatesOrdered
ASSUME ChainAssumption == StatesOnChain
ASSUME EpochAssumption == StatesOfEpoch

(* What the SSZ types say of the messages of the wire and of those in blocks.     *)
ASSUME WireAssumption ==
    /\ \A a \in Attestation \cup UNION {BeaconBlock[b].attestations : b \in Block} :
            a.slot \in Slot /\ a.beacon_block_root \in Root /\ a.target \in Checkpoint
    /\ \A e \in AttesterSlashing \cup UNION {BeaconBlock[b].attester_slashings : b \in Block} :
            e.attestation_1.attesting_indices \cap e.attestation_2.attesting_indices
                \subseteq Validator

ASSUME TimeAssumption ==
    /\ SECONDS_PER_SLOT \in Nat \ {0}
    /\ INTERVALS_PER_SLOT \in Nat \ {0}
    /\ TickTime \subseteq Nat

ASSUME BoostAssumption == PROPOSER_SCORE_BOOST \in Nat

VARIABLES
    time,                             \* store.time - store.genesis_time
    justified_checkpoint,
    finalized_checkpoint,
    unrealized_justified_checkpoint,
    unrealized_finalized_checkpoint,
    proposer_boost_root,
    equivocating_indices,
    blocks,                           \* the roots in store.blocks
    block_timeliness,                 \* the roots whose entry is True
    checkpoint_states,                \* the checkpoints with an entry
    latest_messages                   \* Validator -> message, NoMessage for no entry

vars == <<time, justified_checkpoint, finalized_checkpoint, unrealized_justified_checkpoint,
          unrealized_finalized_checkpoint, proposer_boost_root, equivocating_indices, blocks,
          block_timeliness, checkpoint_states, latest_messages>>

NoMessage == [epoch |-> GENESIS_EPOCH, root |-> ZeroRoot]
HasMessage(v) == latest_messages[v] # NoMessage

--------------------------------------------------------------------------------
(* Time *)
SlotAt(t) == t \div SECONDS_PER_SLOT
get_current_slot == SlotAt(time)
get_current_store_epoch == compute_epoch_at_slot(get_current_slot)
TimeIntoSlot == time % SECONDS_PER_SLOT

(* unrealized_justifications: get_forkchoice_store gives the anchor its own       *)
(* checkpoint, compute_pulled_up_tip gives a block what its state is pulled up to.*)
unrealized_justification(root) ==
    IF root = Anchor THEN AnchorCheckpoint
    ELSE PulledUpState[root].current_justified_checkpoint

(* Mutant: the source of a block of an earlier epoch is not pulled up. *)
SourceInState(root) == BlockState[root].current_justified_checkpoint

get_voting_source(root) ==
    IF get_current_store_epoch > EpochOf(root)
    THEN unrealized_justification(root)
    ELSE BlockState[root].current_justified_checkpoint

--------------------------------------------------------------------------------
(* Weights. checkpoint_states[justified_checkpoint] is the block's state advanced *)
(* to the epoch, which changes no slashed flag.                                   *)
calculate_committee_fraction(committee_percent) ==
    ((get_total_active_balance \div SLOTS_PER_EPOCH) * committee_percent) \div 100

get_proposer_score == calculate_committee_fraction(PROPOSER_SCORE_BOOST)

Supporters(root) ==
    {v \in Validator \ BlockState[justified_checkpoint.root].slashed :
        /\ HasMessage(v)
        /\ v \notin equivocating_indices
        /\ IsDescendant(latest_messages[v].root, root)}

(* Mutant: the boost goes to every block. *)
BoostForAll(root) == proposer_boost_root # ZeroRoot

IsBoosted(root) ==
    proposer_boost_root # ZeroRoot /\ IsDescendant(proposer_boost_root, root)

get_weight(root) ==
    SumOfBalances(Supporters(root)) + (IF IsBoosted(root) THEN get_proposer_score ELSE 0)

--------------------------------------------------------------------------------
(* The head: LMD-GHOST from the justified root over the branches whose leaves     *)
(* agree with the store's checkpoints.                                            *)
Children(root) == {c \in blocks : c # Anchor /\ ParentOf(c) = root}

IsViableLeaf(root) ==
    /\ \/ justified_checkpoint.epoch = GENESIS_EPOCH
       \/ get_voting_source(root).epoch = justified_checkpoint.epoch
       \/ get_voting_source(root).epoch + 2 >= get_current_store_epoch
    /\ \/ finalized_checkpoint.epoch = GENESIS_EPOCH
       \/ get_checkpoint_block(root, finalized_checkpoint.epoch) = finalized_checkpoint.root

filter_block_tree ==
    LET viable[root \in blocks] ==
            IF Children(root) = {} THEN IsViableLeaf(root)
            ELSE \E child \in Children(root) : viable[child]
    IN  {root \in blocks : viable[root]}

get_filtered_block_tree ==
    {root \in filter_block_tree : IsDescendant(root, justified_checkpoint.root)}

IsHeavier(root, other) ==
    LET weight == get_weight(root)
        otherWeight == get_weight(other)
    IN  weight > otherWeight \/ (weight = otherWeight /\ root >= other)

get_head ==
    LET tree == get_filtered_block_tree
        walk[root \in blocks] ==
            LET children == Children(root) \cap tree
            IN  IF children = {} THEN root
                ELSE walk[CHOOSE c \in children : \A d \in children : IsHeavier(c, d)]
    IN  walk[justified_checkpoint.root]

(* A store always has a head: get_head returns after every handler. It raises     *)
(* when it has children to compare and get_weight finds no entry of               *)
(* checkpoint_states for the justified checkpoint.                                *)
HeadIsDefined ==
    \/ justified_checkpoint \in checkpoint_states
    \/ Children(justified_checkpoint.root) \cap get_filtered_block_tree = {}

--------------------------------------------------------------------------------
(* The proposer's choice of a parent for a block at a slot *)
is_head_late(head_root) == head_root \notin block_timeliness
is_shuffling_stable(slot) == ~IsEpochStart(slot)
is_ffg_competitive(head_root, parent_root) ==
    unrealized_justification(head_root) = unrealized_justification(parent_root)
is_finalization_ok(slot) ==
    compute_epoch_at_slot(slot)
        <= finalized_checkpoint.epoch + REORG_MAX_EPOCHS_SINCE_FINALIZATION
is_proposing_on_time ==
    TimeIntoSlot <= (SECONDS_PER_SLOT \div INTERVALS_PER_SLOT) \div 2
(* Mutant: measured against the threshold of the parent. *)
IsHeadBelowParentThreshold(head_root) ==
    get_weight(head_root) < calculate_committee_fraction(REORG_PARENT_WEIGHT_THRESHOLD)

is_head_weak(head_root) ==
    get_weight(head_root) < calculate_committee_fraction(REORG_HEAD_WEIGHT_THRESHOLD)
is_parent_strong(parent_root) ==
    get_weight(parent_root) > calculate_committee_fraction(REORG_PARENT_WEIGHT_THRESHOLD)
IsSingleSlotReorg(head_root, parent_root, slot) ==
    SlotOf(parent_root) + 1 = SlotOf(head_root) /\ SlotOf(head_root) + 1 = slot

MayReorg(head_root, slot) ==
    LET parent_root == ParentOf(head_root)
    IN  /\ is_head_late(head_root)
        /\ is_shuffling_stable(slot)
        /\ is_ffg_competitive(head_root, parent_root)
        /\ is_finalization_ok(slot)
        /\ is_proposing_on_time
        /\ IsSingleSlotReorg(head_root, parent_root, slot)
        /\ is_head_weak(head_root)
        /\ is_parent_strong(parent_root)

(* Raises for the anchor, which has no parent in the store, while the head still  *)
(* has the boost, and without a state to weigh by.                                *)
ProposerHeadIsDefined(head_root) ==
    /\ head_root # Anchor
    /\ proposer_boost_root # head_root
    /\ justified_checkpoint \in checkpoint_states

get_proposer_head(head_root, slot) ==
    IF MayReorg(head_root, slot) THEN ParentOf(head_root) ELSE head_root

--------------------------------------------------------------------------------
(* Handlers *)
Later(checkpoint, other) == IF checkpoint.epoch > other.epoch THEN checkpoint ELSE other

(* get_forkchoice_store *)
Init ==
    /\ time = SECONDS_PER_SLOT * SlotOf(Anchor)
    /\ justified_checkpoint = AnchorCheckpoint
    /\ finalized_checkpoint = AnchorCheckpoint
    /\ unrealized_justified_checkpoint = AnchorCheckpoint
    /\ unrealized_finalized_checkpoint = AnchorCheckpoint
    /\ proposer_boost_root = ZeroRoot
    /\ equivocating_indices = {}
    /\ blocks = {Anchor}
    /\ block_timeliness = {}
    /\ checkpoint_states = {AnchorCheckpoint}
    /\ latest_messages = [v \in Validator |-> NoMessage]

(* The loop of on_tick runs on_tick_per_slot at the start of every slot it        *)
(* missed, then once at the time given.                                           *)
(* Mutant: no catching up, only the slot of the new time is looked at. *)
LastSlot(t) == {SlotAt(t)} \ {get_current_slot}

MissedSlots(t) == get_current_slot + 1 .. SlotAt(t)

on_tick(t) ==
    /\ t > time
    /\ time' = t
    /\ proposer_boost_root' = IF MissedSlots(t) = {} THEN proposer_boost_root ELSE ZeroRoot
    /\ IF \E slot \in MissedSlots(t) : IsEpochStart(slot)
       THEN /\ justified_checkpoint' = Later(unrealized_justified_checkpoint, justified_checkpoint)
            /\ finalized_checkpoint' = Later(unrealized_finalized_checkpoint, finalized_checkpoint)
       ELSE UNCHANGED <<justified_checkpoint, finalized_checkpoint>>
    /\ UNCHANGED <<unrealized_justified_checkpoint, unrealized_finalized_checkpoint,
                   equivocating_indices, blocks, block_timeliness, checkpoint_states,
                   latest_messages>>

IsAcceptable(root) ==
    /\ ParentOf(root) \in blocks
    /\ SlotOf(root) <= get_current_slot
    /\ SlotOf(root) > compute_start_slot_at_epoch(finalized_checkpoint.epoch)
    /\ get_checkpoint_block(ParentOf(root), finalized_checkpoint.epoch) = finalized_checkpoint.root
    /\ root \in ValidBlock

(* Mutant: a late block is timely if it comes early in some slot. *)
IsEarlyInSlot(root) == TimeIntoSlot < SECONDS_PER_SLOT \div INTERVALS_PER_SLOT

IsTimely(root) ==
    /\ SlotOf(root) = get_current_slot
    /\ TimeIntoSlot < SECONDS_PER_SLOT \div INTERVALS_PER_SLOT

(* The boost goes to the first timely block of the slot. *)
(* Mutant: to the last one. *)
BoostOfLastBlock(root) == IF IsTimely(root) THEN root ELSE proposer_boost_root

BoostAfter(root) ==
    IF IsTimely(root) /\ proposer_boost_root = ZeroRoot THEN root ELSE proposer_boost_root

(* compute_pulled_up_tip applies the pulled-up checkpoints at once to a block from *)
(* a prior epoch.                                                                 *)
(* Mutant: to every block. *)
IsAnyBlock(root) == EpochOf(root) <= get_current_store_epoch

IsFromPriorEpoch(root) == EpochOf(root) < get_current_store_epoch

UpdatedByBlock(checkpoint, realized, unrealized, root) ==
    IF IsFromPriorEpoch(root)
    THEN Later(unrealized, Later(realized, checkpoint))
    ELSE Later(realized, checkpoint)

(* A block that is known already is processed again like any other. *)
on_block(root) ==
    LET state == BlockState[root]
        pulledUp == PulledUpState[root]
    IN  /\ IsAcceptable(root)
        /\ blocks' = blocks \cup {root}
        /\ block_timeliness' =
               IF IsTimely(root) THEN block_timeliness \cup {root} ELSE block_timeliness \ {root}
        /\ proposer_boost_root' = BoostAfter(root)
        /\ justified_checkpoint' =
               UpdatedByBlock(justified_checkpoint, state.current_justified_checkpoint,
                                   pulledUp.current_justified_checkpoint, root)
        /\ finalized_checkpoint' =
               UpdatedByBlock(finalized_checkpoint, state.finalized_checkpoint,
                                   pulledUp.finalized_checkpoint, root)
        /\ unrealized_justified_checkpoint' =
               Later(pulledUp.current_justified_checkpoint, unrealized_justified_checkpoint)
        /\ unrealized_finalized_checkpoint' =
               Later(pulledUp.finalized_checkpoint, unrealized_finalized_checkpoint)
        /\ UNCHANGED <<time, equivocating_indices, checkpoint_states, latest_messages>>

validate_target_epoch_against_current_time(target) ==
    \/ target.epoch = get_current_store_epoch
    \/ target.epoch + 1 = get_current_store_epoch

(* The vote for a head and the vote for a target are for one chain. *)
(* Mutant: the target only has to be known. *)
IsForKnownTarget(a) == a.target.root \in blocks

IsConsistentVote(a) ==
    a.target.root = get_checkpoint_block(a.beacon_block_root, a.target.epoch)

validate_on_attestation(a, is_from_block) ==
    /\ is_from_block \/ validate_target_epoch_against_current_time(a.target)
    /\ a.target.epoch = compute_epoch_at_slot(a.slot)
    /\ a.target.root \in blocks
    /\ a.beacon_block_root \in blocks
    /\ SlotOf(a.beacon_block_root) <= a.slot
    /\ IsConsistentVote(a)
    /\ get_current_slot >= a.slot + 1

(* Mutant: a second vote in an epoch replaces the first. *)
IsNotOlderMessage(a, v) == ~HasMessage(v) \/ a.target.epoch >= latest_messages[v].epoch

IsNewerMessage(a, v) == ~HasMessage(v) \/ a.target.epoch > latest_messages[v].epoch

MessageOf(a) == [epoch |-> a.target.epoch, root |-> a.beacon_block_root]
Voters(a) == {v \in a.attesting_indices \ equivocating_indices : IsNewerMessage(a, v)}

(* Mutant: the other validators' entries are lost. *)
OnlyNewMessages(a) == [v \in Voters(a) |-> MessageOf(a)]

update_latest_messages(a) ==
    [v \in Validator |-> IF v \in Voters(a) THEN MessageOf(a) ELSE latest_messages[v]]

on_attestation(a, is_from_block) ==
    /\ validate_on_attestation(a, is_from_block)
    /\ is_valid_indexed_attestation(a)
    /\ checkpoint_states' = checkpoint_states \cup {a.target}
    /\ latest_messages' = update_latest_messages(a)
    /\ UNCHANGED <<time, justified_checkpoint, finalized_checkpoint,
                   unrealized_justified_checkpoint, unrealized_finalized_checkpoint,
                   proposer_boost_root, equivocating_indices, blocks, block_timeliness>>

on_attester_slashing(evidence) ==
    LET a1 == evidence.attestation_1
        a2 == evidence.attestation_2
    IN  /\ is_slashable_attestation_data(a1, a2)
        /\ is_valid_indexed_attestation(a1)
        /\ is_valid_indexed_attestation(a2)
        /\ equivocating_indices' =
               equivocating_indices \cup (a1.attesting_indices \cap a2.attesting_indices)
        /\ UNCHANGED <<time, justified_checkpoint, finalized_checkpoint,
                       unrealized_justified_checkpoint, unrealized_finalized_checkpoint,
                       proposer_boost_root, blocks, block_timeliness, checkpoint_states,
                       latest_messages>>

--------------------------------------------------------------------------------
(* The node runs on_tick as time passes and the other handlers on what the wire   *)
(* delivers, in any order; the votes and the evidence in a block may be handed on *)
(* once the block is known.                                                       *)
OnTick == \E t \in TickTime : on_tick(t)
OnBlock == \E root \in Block \ {Anchor} : on_block(root)
OnAttestation == \E a \in Attestation : on_attestation(a, FALSE)
OnBlockAttestation ==
    \E root \in blocks : \E a \in BeaconBlock[root].attestations : on_attestation(a, TRUE)
OnAttesterSlashing == \E e \in AttesterSlashing : on_attester_slashing(e)
OnBlockAttesterSlashing ==
    \E root \in blocks : \E e \in BeaconBlock[root].attester_slashings : on_attester_slashing(e)

Next ==
    \/ OnTick
    \/ OnBlock
    \/ OnAttestation
    \/ OnBlockAttestation
    \/ OnAttesterSlashing
    \/ OnBlockAttesterSlashing

Spec == Init /\ [][Next]_vars

(* The clock goes on: on_tick is run whenever the time has passed store.time.     *)
FairSpec == Spec /\ WF_vars(OnTick)

--------------------------------------------------------------------------------
(* Properties *)

Message == [epoch : Epoch, root : Root]

(* The store has the shape of the Store dataclass, and only roots and validators  *)
(* it has seen get into its dictionaries.                                         *)
TypeOK ==
    /\ time \in Nat
    /\ {justified_checkpoint, finalized_checkpoint, unrealized_justified_checkpoint,
        unrealized_finalized_checkpoint} \subseteq Checkpoint
    /\ proposer_boost_root \in blocks \cup {ZeroRoot}
    /\ equivocating_indices \subseteq Validator
    /\ Anchor \in blocks /\ blocks \subseteq ValidBlock \cup {Anchor}
    /\ block_timeliness \subseteq blocks
    /\ checkpoint_states \subseteq Checkpoint
    /\ latest_messages \in [Validator -> Message]

JustifiedEpochOf(root) == BlockState[root].current_justified_checkpoint.epoch
FinalizedEpochOf(root) == BlockState[root].finalized_checkpoint.epoch
PulledUpJustifiedEpochOf(root) == PulledUpState[root].current_justified_checkpoint.epoch
PulledUpFinalizedEpochOf(root) == PulledUpState[root].finalized_checkpoint.epoch

View == INSTANCE CheckpointView WITH
            Block <- ValidBlock,
            AnchorEpoch <- AnchorEpoch,
            EpochOf <- EpochOf,
            JustifiedEpoch <- JustifiedEpochOf,
            FinalizedEpoch <- FinalizedEpochOf,
            PulledUpJustifiedEpoch <- PulledUpJustifiedEpochOf,
            PulledUpFinalizedEpoch <- PulledUpFinalizedEpochOf,
            clockEpoch <- get_current_store_epoch,
            known <- blocks \ {Anchor},
            justifiedEpoch <- justified_checkpoint.epoch,
            finalizedEpoch <- finalized_checkpoint.epoch

(* The store implements CheckpointView: update_checkpoints on arrival, pulling up *)
(* late blocks, and the epoch ticks of on_tick (also the ticks missed) together   *)
(* leave the epochs of the justified and the finalized checkpoint the greatest    *)
(* among the voting sources of the known blocks, in whatever order they ran.      *)
ImplementsView == View!Spec

(* A justified checkpoint always builds on the finalized one, though              *)
(* update_checkpoints moves the two independently: from different blocks, and     *)
(* from the unrealized pair gathered since the last epoch tick.                   *)
JustifiedExtendsFinalized ==
    /\ finalized_checkpoint.epoch <= justified_checkpoint.epoch
    /\ get_checkpoint_block(justified_checkpoint.root, finalized_checkpoint.epoch)
           = finalized_checkpoint.root

(* What a node has finalized stays finalized: a new finalized checkpoint descends *)
(* from the old one.                                                              *)
FinalityIsKept ==
    [][get_checkpoint_block(finalized_checkpoint'.root, finalized_checkpoint.epoch)
           = finalized_checkpoint.root]_vars

(* A block that slashes validators whose votes its parent of the same epoch counts *)
(* may be pulled up to less than the parent, which the store has gone by.          *)
UndoesJustification(root) ==
    /\ EpochOf(root) = EpochOf(ParentOf(root))
    /\ unrealized_justification(root).epoch < justified_checkpoint.epoch
    /\ unrealized_justification(ParentOf(root)).epoch = justified_checkpoint.epoch

(* Whenever get_head has a value, it is a viable leaf of the block tree that      *)
(* descends from both checkpoints: filter_block_tree never empties the tree and   *)
(* leaves get_head with the bare justified root. It does when a block undoes what *)
(* its parent has justified: the parent is then no leaf, and the block not viable.*)
HeadIsViableLeaf ==
    /\ HeadIsDefined
    /\ \A root \in blocks \ {Anchor} : ~UndoesJustification(root)
    => /\ Children(get_head) = {}
       /\ IsViableLeaf(get_head)
       /\ get_checkpoint_block(get_head, finalized_checkpoint.epoch) = finalized_checkpoint.root

(* The boost never outlives its slot, whatever slots on_tick jumps over.          *)
BoostIsFresh ==
    proposer_boost_root # ZeroRoot => SlotOf(proposer_boost_root) = get_current_slot

(* The block that has the boost is recorded as timely: on_block gives the boost   *)
(* to timely blocks only, so get_proposer_head must not take it for a late one.   *)
BoostedBlockIsTimely ==
    proposer_boost_root # ZeroRoot => proposer_boost_root \in block_timeliness

(* One block per slot gets the boost: it is not handed from a timely block to a   *)
(* second one, and goes away only with the slot.                                  *)
BoostIsNotHandedOver ==
    [][proposer_boost_root \notin {ZeroRoot, proposer_boost_root'} =>
           proposer_boost_root' = ZeroRoot /\ SlotAt(time') > get_current_slot]_vars

(* A block weighs at least as much as its children together: no vote and no boost *)
(* is counted under two siblings, so the descent of get_head is well founded.     *)
ParentOutweighsChildren ==
    \A root \in blocks : get_weight(root) >= MapThenSumSet(get_weight, Children(root))

(* Every vote that counts is for a known block that is not newer than the vote,   *)
(* its epoch has begun, and the state of its target checkpoint is stored.         *)
MessagesAreSupported ==
    \A v \in Validator : HasMessage(v) =>
        LET message == latest_messages[v]
        IN  /\ message.root \in blocks
            /\ EpochOf(message.root) <= message.epoch
            /\ message.epoch <= get_current_store_epoch
            /\ [epoch |-> message.epoch,
                root |-> get_checkpoint_block(message.root, message.epoch)] \in checkpoint_states

(* A vote is replaced only by one of a later epoch, and never again once its      *)
(* validator is known to equivocate.                                              *)
MessagesOnlyAdvance ==
    [][\A v \in Validator :
           latest_messages'[v] # latest_messages[v] =>
               /\ v \notin equivocating_indices
               /\ ~HasMessage(v) \/ latest_messages'[v].epoch > latest_messages[v].epoch]_vars

(* A proposer that follows get_proposer_head and gets its block out in time wins: *)
(* the new block becomes the head, over the late block it orphans.                *)
ReorgSucceeds ==
    [][\A root \in blocks' \ blocks :
           LET head == get_head
           IN  /\ HeadIsDefined /\ ProposerHeadIsDefined(head)
               /\ MayReorg(head, get_current_slot)
               /\ SlotOf(root) = get_current_slot
               /\ ParentOf(root) = get_proposer_head(head, get_current_slot)
               /\ proposer_boost_root = ZeroRoot
               => get_head' = root]_vars

(* Justification seen in a block takes effect: at the latest the tick into the    *)
(* next epoch makes it the store's justified checkpoint.                          *)
JustificationIsRealized ==
    \A epoch \in {PulledUpJustifiedEpochOf(root) : root \in ValidBlock} :
        unrealized_justified_checkpoint.epoch >= epoch ~> justified_checkpoint.epoch >= epoch
================================================================================
