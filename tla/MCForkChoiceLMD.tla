---------------------------- MODULE MCForkChoiceLMD ----------------------------
(* A store in the first epochs, where nothing is justified and the votes decide:  *)
(* late and timely blocks, competing votes, equivocation and proposer re-orgs.    *)
(* Balances 1, 3, 8 and 8 over two-slot epochs make a committee weigh 10: a head  *)
(* is weak below 2, the boost weighs 4 and a parent is strong above 16.           *)
(*                                                                                *)
(*   slot  0    1    2    3    4                                                  *)
(*         G -- A1 - A2 - A3           A2 comes late in the behaviours that       *)
(*               + ------ B3 - B4      re-org it by B3; B2 is a second block of   *)
(*               + -- B2               the proposer of slot 2                     *)
EXTENDS ForkChoice, ChainStates

G == 1
A1 == 11  A2 == 12  A3 == 13
B2 == 22  B3 == 23  B4 == 24

MCValidator == 1 .. 4
MCEffectiveBalance == [v \in MCValidator |-> CASE v = 1 -> 1 [] v = 2 -> 3 [] OTHER -> 8]
MCProposer(slot) == (slot % 3) + 2

At(epoch, root) == [epoch |-> epoch, root |-> root]

Vote(slot, head, target, indices) ==
    [slot |-> slot, beacon_block_root |-> head, source |-> GenesisCheckpoint,
     target |-> target, attesting_indices |-> indices]

BlockWith(root, slot, parent, slashings, attestations) ==
    [root |-> root, slot |-> slot, parent_root |-> parent,
     proposer_index |-> MCProposer(slot),
     attester_slashings |-> slashings, attestations |-> attestations]

ForA1 == Vote(1, A1, At(0, G), {2, 4})
StillForA1 == Vote(2, A1, At(1, A1), {3})
ForA2 == Vote(2, A2, At(1, A2), {1})
AlsoForA2 == Vote(2, A2, At(1, A2), {3})
ForB3 == Vote(3, B3, At(1, A1), {2})

DoubleVote == [attestation_1 |-> StillForA1, attestation_2 |-> AlsoForA2]
NoOffence == [attestation_1 |-> ForA1, attestation_2 |-> StillForA1]

MCBlocks ==
    {BlockWith(G, 0, ZeroRoot, {}, {}),
     BlockWith(A1, 1, G, {}, {}),
     BlockWith(A2, 2, A1, {}, {}),
     BlockWith(A3, 3, A2, {}, {ForA2}),
     BlockWith(B2, 2, A1, {}, {}),
     BlockWith(B3, 3, A1, {}, {ForA1}),
     BlockWith(B4, 4, B3, {DoubleVote}, {})}

BlockByRoot ==
    [root \in {b.root : b \in MCBlocks} |-> CHOOSE b \in MCBlocks : b.root = root]

(* The post-states of the valid blocks; the others have none. *)
StateByRoot ==
    LET states == PostStates(BlockByRoot, G, GenesisState(G))
        invalid == {root \in DOMAIN states : states[root] = {}}
    IN  [root \in DOMAIN states \ invalid |-> CHOOSE state \in states[root] : TRUE]
PulledUpByRoot ==
    [root \in DOMAIN StateByRoot |-> process_justification_and_finalization(StateByRoot[root])]

(* TLC evaluates the three functions above once. The LETs keep its coverage      *)
(* statistics from unfolding them at every use of a constant.                    *)
MCBeaconBlock == LET function == BlockByRoot IN function
MCBlockState == LET function == StateByRoot IN function
MCPulledUpState == LET function == PulledUpByRoot IN function

(* The tree is one whose states the state transition computes.                    *)
ASSUME TreeIsComputed == BlockTypes /\ StatesAreComputed

MCAttestation == {ForA1, StillForA1, ForA2, AlsoForA2, ForB3}
MCAttesterSlashing == {DoubleVote, NoOffence}

(* In each slot a time for timely blocks and re-orgs, and one past both deadlines.*)
MCTickTime == {12 * slot + offset : slot \in 1 .. 4, offset \in {1, 6}}
================================================================================
