------------------------------- MODULE MCFFGChain -------------------------------
(* Three validators of one increment each: two of them are exactly two thirds.   *)
EXTENDS FFGChain

MCValidator == 1 .. 3
MCEffectiveBalance == [v \in MCValidator |-> 1]
MCAggregate == {{1, 2}, {3}}

MCProposer(slot) == (slot % 3) + 1

(* Validator 2 voted twice for epoch 1. *)
Vote(root) ==
    [slot |-> 2, beacon_block_root |-> root, source |-> GenesisCheckpoint,
     target |-> [epoch |-> 1, root |-> root], attesting_indices |-> {2}]
MCAttesterSlashing == {[attestation_1 |-> Vote(2), attestation_2 |-> Vote(3)]}
================================================================================
