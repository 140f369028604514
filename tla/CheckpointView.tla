----------------------------- MODULE CheckpointView -----------------------------
(* What a fork choice store promises about its checkpoint epochs: they depend on  *)
(* the set of blocks it knows and on the epoch its clock shows, and on nothing    *)
(* else. Neither the order in which blocks arrived nor the ticks that were missed *)
(* between them can be read off the checkpoints.                                  *)
EXTENDS Naturals

CONSTANTS
    Block,                     \* the blocks a store may learn, the anchor excluded
    AnchorEpoch,               \* the epoch of the trusted anchor
    EpochOf(_),                \* the epoch of a block
    JustifiedEpoch(_),         \* the justified epoch in the block's own state
    FinalizedEpoch(_),
    PulledUpJustifiedEpoch(_), \* the same once the block's epoch is weighed
    PulledUpFinalizedEpoch(_)

VARIABLES
    clockEpoch,      \* the epoch of the store's clock
    known,           \* the blocks learned
    justifiedEpoch,
    finalizedEpoch

vars == <<clockEpoch, known, justifiedEpoch, finalizedEpoch>>

(* A block speaks for the checkpoints of its own state during its epoch, and for  *)
(* the pulled-up ones from the next epoch on.                                     *)
VotingSource(block, clock) ==
    IF EpochOf(block) < clock THEN PulledUpJustifiedEpoch(block) ELSE JustifiedEpoch(block)
FinalitySource(block, clock) ==
    IF EpochOf(block) < clock THEN PulledUpFinalizedEpoch(block) ELSE FinalizedEpoch(block)

IsGreatest(n, S) == n \in S /\ \A m \in S : m <= n

JustifiedCandidates(blocks, clock) ==
    {AnchorEpoch} \cup {VotingSource(b, clock) : b \in blocks}
FinalizedCandidates(blocks, clock) ==
    {AnchorEpoch} \cup {FinalitySource(b, clock) : b \in blocks}

Agrees(justified, finalized, blocks, clock) ==
    /\ IsGreatest(justified, JustifiedCandidates(blocks, clock))
    /\ IsGreatest(finalized, FinalizedCandidates(blocks, clock))

--------------------------------------------------------------------------------
Init ==
    /\ clockEpoch = AnchorEpoch
    /\ known = {}
    /\ justifiedEpoch = AnchorEpoch
    /\ finalizedEpoch = AnchorEpoch

Learn(block) ==
    /\ block \notin known
    /\ EpochOf(block) <= clockEpoch
    /\ known' = known \cup {block}
    /\ UNCHANGED clockEpoch
    /\ Agrees(justifiedEpoch', finalizedEpoch', known', clockEpoch)

AdvanceEpoch ==
    /\ clockEpoch' \in Nat /\ clockEpoch' > clockEpoch
    /\ UNCHANGED known
    /\ Agrees(justifiedEpoch', finalizedEpoch', known, clockEpoch')

Next == AdvanceEpoch \/ \E block \in Block : Learn(block)

Spec == Init /\ [][Next]_vars
================================================================================
