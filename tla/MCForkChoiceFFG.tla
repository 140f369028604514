---------------------------- MODULE MCForkChoiceFFG ----------------------------
(* A store that sees justification switch branches and finality follow, with the  *)
(* post-states of its blocks computed by BeaconChain. Two-slot epochs from        *)
(* genesis, three validators of two increments each: two of them are two thirds.  *)
(*                                                                                *)
(*   slot   2    4    5    6    7    8    9    10                                 *)
(*     G -- A1 - A2 - A3 - A4 - A5 - A6           A3 justifies epoch 2, A5 has a  *)
(*          |    |                                third for epoch 3               *)
(*          |    + -- B5 - B6 ------ B8           late votes for epoch 2          *)
(*          |               + - B7                slashes one of their voters     *)
(*          + -- C4 ------ C6 - C7 - C8 - C9 - C10  C7 justifies epoch 3, C9      *)
(*                         |                      epoch 4 and finalizes epoch 3   *)
(*                         + ------- D8           late votes for epoch 3          *)
(*                                                                                *)
(* Validator 2 breaks no slashing condition: it votes for A2 in epoch 2 and, from *)
(* the same source, for C6 in epoch 3. Validator 1 votes twice in epoch 2, and B7 *)
(* has the evidence: without it B7 would be pulled up to epoch 2 like B6.         *)
EXTENDS ForkChoice, ChainStates

G == 1
A1 == 12  A2 == 14  A3 == 15  A4 == 16  A5 == 17  A6 == 18
B5 == 25  B6 == 26  B7 == 27  B8 == 28
C4 == 34  C6 == 36  C7 == 37  C8 == 38  C9 == 39  C10 == 40
D8 == 48
Bad == 57

MCValidator == 1 .. 3
MCEffectiveBalance == [v \in MCValidator |-> 2]
MCProposer(slot) == (slot % 3) + 1

At(epoch, root) == [epoch |-> epoch, root |-> root]

Vote(slot, head, source, target, indices) ==
    [slot |-> slot, beacon_block_root |-> head, source |-> source, target |-> target,
     attesting_indices |-> indices]

BlockWith(root, slot, parent, slashings, attestations) ==
    [root |-> root, slot |-> slot, parent_root |-> parent,
     proposer_index |-> MCProposer(slot),
     attester_slashings |-> slashings, attestations |-> attestations]

VotesFor2 == Vote(4, A2, GenesisCheckpoint, At(2, A2), {1, 2})
OneFor3OnA == Vote(6, A4, At(2, A2), At(3, A4), {1})
VotesFor3 == Vote(6, C6, GenesisCheckpoint, At(3, C6), {2, 3})
VotesFor4 == Vote(8, C8, At(3, C6), At(4, C8), {1, 3})
WrongSource == Vote(6, A4, GenesisCheckpoint, At(3, A4), {1, 2})
WrongTarget == Vote(6, C6, GenesisCheckpoint, At(3, A2), {3})

DoubleVote ==
    [attestation_1 |-> VotesFor2,
     attestation_2 |-> Vote(4, C4, GenesisCheckpoint, At(2, C4), {1})]

MCBlocks ==
    {BlockWith(G, 0, ZeroRoot, {}, {}),
     BlockWith(A1, 2, G, {}, {}),
     BlockWith(A2, 4, A1, {}, {}),
     BlockWith(A3, 5, A2, {}, {VotesFor2}),
     BlockWith(A4, 6, A3, {}, {}),
     BlockWith(A5, 7, A4, {}, {OneFor3OnA}),
     BlockWith(A6, 8, A5, {}, {}),
     BlockWith(B5, 5, A2, {}, {}),
     BlockWith(B6, 6, B5, {}, {VotesFor2}),
     BlockWith(B7, 7, B6, {DoubleVote}, {}),
     BlockWith(B8, 8, B6, {}, {}),
     BlockWith(C4, 4, A1, {}, {}),
     BlockWith(C6, 6, C4, {}, {}),
     BlockWith(C7, 7, C6, {}, {VotesFor3}),
     BlockWith(C8, 8, C7, {}, {}),
     BlockWith(C9, 9, C8, {}, {VotesFor4}),
     BlockWith(C10, 10, C9, {}, {}),
     BlockWith(D8, 8, C6, {}, {VotesFor3}),
     BlockWith(Bad, 7, A4, {}, {WrongSource})}

BlockByRoot ==
    [root \in {b.root : b \in MCBlocks} |-> CHOOSE b \in MCBlocks : b.root = root]

(* The post-states of the valid blocks; the others have none. *)
StateByRoot ==
    LET states == PostStates(BlockByRoot, G, GenesisState(G))
        invalid == {root \in DOMAIN states : states[root] = {}}
    IN  [root \in DOMAIN states \ invalid |-> CHOOSE state \in states[root] : TRUE]
PulledUpByRoot ==
    [root \in DOMAIN StateByRoot |-> process_justification_and_finalization(StateByRoot[root])]

(* TLC evaluates the three functions above once. The LETs keep its coverage      *)
(* statistics from unfolding them at every use of a constant.                    *)
MCBeaconBlock == LET function == BlockByRoot IN function
MCBlockState == LET function == StateByRoot IN function
MCPulledUpState == LET function == PulledUpByRoot IN function

(* The tree is one whose states the state transition computes.                    *)
ASSUME TreeIsComputed == BlockTypes /\ StatesAreComputed

(* The votes its blocks include slash nobody: validator 1 votes twice in epoch 2,   *)
(* but no block includes the second vote as one.                                    *)
ASSUME TreeIsSafe == FewSlashable

MCAttestation == {VotesFor2, WrongTarget}
MCAttesterSlashing == {}

(* Slots 4 to 13, past the deadline for timely blocks, some of them skipped, the   *)
(* last in an epoch after every block's.                                          *)
MCTickTime == {12 * slot + 6 : slot \in {4, 5, 6, 7, 8, 9, 11, 13}}
================================================================================
