--------------------------- MODULE MCRegistry ---------------------------
(***************************************************************************)
(* A compounding validator with a balance above its maximum, one that is   *)
(* not compounding, one that waits for its activation, and a fourth that a *)
(* deposit may create; balances in quarters of an increment.  Two partial  *)
(* withdrawals of 13 asked for before the sweep brings 34 down to 24 fall  *)
(* due together and exceed what is left.                                   *)
(***************************************************************************)
EXTENDS Registry

Active(pubkey, compounding, effective) ==
  [pubkey |-> pubkey, compounding |-> compounding, slashed |-> FALSE,
   effective_balance |-> effective, activation_eligibility_epoch |-> 0,
   activation_epoch |-> 0, exit_epoch |-> FAR_FUTURE_EPOCH, withdrawable_epoch |-> FAR_FUTURE_EPOCH]

(* It becomes active as soon as epoch 4 is finalized and two epochs have passed. *)
Eligible(pubkey, compounding, effective) ==
  [Active(pubkey, compounding, effective) EXCEPT
     !.activation_eligibility_epoch = 4, !.activation_epoch = FAR_FUTURE_EPOCH]

NoQueue == [earliest |-> 0, to_consume |-> 0, booked |-> <<>>]

MCInitialState ==
  [slot |-> 4, finalized_epoch |-> 2,
   validators |-> <<Active("a", TRUE, 24), Active("b", FALSE, 8), Eligible("c", FALSE, 8)>>,
   balances |-> <<34, 9, 8>>,
   pending_deposits |-> <<>>, deposit_balance_to_consume |-> 0,
   pending_partial_withdrawals |-> <<>>, pending_consolidations |-> <<>>,
   exits |-> NoQueue, consolidations |-> NoQueue,
   slashings |-> [e \in 0..EPOCHS_PER_SLASHINGS_VECTOR - 1 |-> 0],
   next_withdrawal_validator_index |-> 2, net |-> 0]

MCDepositRequests ==
  { [pubkey |-> "a", compounding |-> TRUE, amount |-> 6, valid |-> TRUE],
    [pubkey |-> "b", compounding |-> FALSE, amount |-> 2, valid |-> TRUE],
    [pubkey |-> "d", compounding |-> FALSE, amount |-> 9, valid |-> TRUE],
    [pubkey |-> "d", compounding |-> FALSE, amount |-> 2, valid |-> FALSE] }
=============================================================================
