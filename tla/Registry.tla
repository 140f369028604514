---------------------------- MODULE Registry ----------------------------
(***************************************************************************)
(* The queues of the electra registry (electra/beacon-chain.md): exits and *)
(* partial withdrawals that share a churn, consolidations with a churn of  *)
(* their own, deposits that wait for finality, churn and exits, and the    *)
(* withdrawals of a block.  They draw on the same balances, a block at a   *)
(* time and an epoch at a time.  Requests that the code ignores change     *)
(* nothing and are no steps here; every request is authorized.             *)
(***************************************************************************)
EXTENDS Integers, Sequences, SequencesExt

CONSTANTS
  SLOTS_PER_EPOCH, MAX_SEED_LOOKAHEAD, SHARD_COMMITTEE_PERIOD,
  MIN_VALIDATOR_WITHDRAWABILITY_DELAY, EPOCHS_PER_SLASHINGS_VECTOR, FAR_FUTURE_EPOCH,
  EFFECTIVE_BALANCE_INCREMENT, MIN_ACTIVATION_BALANCE, MAX_EFFECTIVE_BALANCE_ELECTRA,
  EJECTION_BALANCE, HYSTERESIS_QUOTIENT, HYSTERESIS_DOWNWARD_MULTIPLIER,
  HYSTERESIS_UPWARD_MULTIPLIER,
  MIN_PER_EPOCH_CHURN_LIMIT_ELECTRA, MAX_PER_EPOCH_ACTIVATION_EXIT_CHURN_LIMIT,
  CHURN_LIMIT_QUOTIENT, MIN_SLASHING_PENALTY_QUOTIENT_ELECTRA,
  PROPORTIONAL_SLASHING_MULTIPLIER_BELLATRIX,
  MAX_PENDING_DEPOSITS_PER_EPOCH, MAX_PENDING_PARTIALS_PER_WITHDRAWALS_SWEEP,
  MAX_WITHDRAWALS_PER_PAYLOAD, MAX_VALIDATORS_PER_WITHDRAWALS_SWEEP,
  PENDING_PARTIAL_WITHDRAWALS_LIMIT, PENDING_CONSOLIDATIONS_LIMIT

CONSTANTS
  InitialState,     \* the registry at the start
  DepositRequests, WithdrawalAmounts, Penalties,   \* what may be asked and lost
  MaxEvents,        \* bound on requests, slashings, penalties, empty slots, stalls
  LastEventSlot,    \* no events after it
  MaxSlot

(* The containers, with unbounded numbers. *)
PubKeys == {InitialState.validators[i].pubkey : i \in DOMAIN InitialState.validators}
             \cup {r.pubkey : r \in DepositRequests}

Validator ==
  [pubkey : PubKeys, compounding : BOOLEAN, slashed : BOOLEAN, effective_balance : Nat,
   activation_eligibility_epoch : Nat, activation_epoch : Nat, exit_epoch : Nat,
   withdrawable_epoch : Nat]

PendingDeposit ==
  [pubkey : PubKeys, compounding : BOOLEAN, amount : Nat, valid : BOOLEAN, slot : Nat]

PendingPartialWithdrawal == [index : Nat, amount : Nat, withdrawable_epoch : Nat]
PendingConsolidation == [source : Nat, target : Nat]

(* A churn: its earliest epoch and the balance to consume in it, with the history of
   what was booked at which limit. *)
ChurnQueue ==
  [earliest : Nat, to_consume : Nat, booked : Seq([epoch : Nat, amount : Nat, churn : Nat])]

(* The last field is a history: the gwei that left the balances and the queue less
   those that came in. *)
BeaconState ==
  [slot : Nat, finalized_epoch : Nat, validators : Seq(Validator), balances : Seq(Nat),
   pending_deposits : Seq(PendingDeposit), deposit_balance_to_consume : Nat,
   pending_partial_withdrawals : Seq(PendingPartialWithdrawal),
   pending_consolidations : Seq(PendingConsolidation),
   exits : ChurnQueue, consolidations : ChurnQueue,
   slashings : [0..EPOCHS_PER_SLASHINGS_VECTOR - 1 -> Nat],
   next_withdrawal_validator_index : Nat, net : Int]

(* Every index is one of the registry. *)
IndicesExist(st) ==
  /\ Len(st.balances) = Len(st.validators)
  /\ st.next_withdrawal_validator_index \in DOMAIN st.validators
  /\ \A k \in DOMAIN st.pending_partial_withdrawals :
       st.pending_partial_withdrawals[k].index \in DOMAIN st.validators
  /\ \A k \in DOMAIN st.pending_consolidations :
       /\ st.pending_consolidations[k].source \in DOMAIN st.validators
       /\ st.pending_consolidations[k].target \in DOMAIN st.validators

ASSUME ConstantsAssumption ==
  /\ {MAX_SEED_LOOKAHEAD, SHARD_COMMITTEE_PERIOD, MIN_VALIDATOR_WITHDRAWABILITY_DELAY,
       FAR_FUTURE_EPOCH, MIN_ACTIVATION_BALANCE, MAX_EFFECTIVE_BALANCE_ELECTRA,
       EJECTION_BALANCE, HYSTERESIS_DOWNWARD_MULTIPLIER, HYSTERESIS_UPWARD_MULTIPLIER,
       PROPORTIONAL_SLASHING_MULTIPLIER_BELLATRIX, MAX_PENDING_DEPOSITS_PER_EPOCH,
       MAX_PENDING_PARTIALS_PER_WITHDRAWALS_SWEEP, MAX_VALIDATORS_PER_WITHDRAWALS_SWEEP}
        \subseteq Nat
  /\ {SLOTS_PER_EPOCH, EPOCHS_PER_SLASHINGS_VECTOR, EFFECTIVE_BALANCE_INCREMENT,
       HYSTERESIS_QUOTIENT, CHURN_LIMIT_QUOTIENT, MIN_SLASHING_PENALTY_QUOTIENT_ELECTRA,
       MAX_PER_EPOCH_ACTIVATION_EXIT_CHURN_LIMIT, MAX_WITHDRAWALS_PER_PAYLOAD}
        \subseteq Nat \ {0}
  /\ MIN_PER_EPOCH_CHURN_LIMIT_ELECTRA \in Nat
  /\ MIN_PER_EPOCH_CHURN_LIMIT_ELECTRA >= EFFECTIVE_BALANCE_INCREMENT

(* The registry of a genesis: nothing is queued yet. *)
ASSUME InitialAssumption ==
  /\ InitialState \in BeaconState /\ IndicesExist(InitialState)
  /\ InitialState.pending_deposits = <<>> /\ InitialState.net = 0
  /\ InitialState.exits.booked = <<>> /\ InitialState.exits.to_consume = 0
  /\ InitialState.consolidations.booked = <<>> /\ InitialState.consolidations.to_consume = 0

ASSUME RequestsAssumption ==
  /\ DepositRequests \subseteq
       [pubkey : PubKeys, compounding : BOOLEAN, amount : Nat, valid : BOOLEAN]
  /\ WithdrawalAmounts \subseteq Nat
  /\ Penalties \in Nat

VARIABLES
  state,       \* BeaconState
  stage,       \* how far the block of the slot has come (see Stage); 0 before it
  events

vars == <<state, stage, events>>

Lesser(m, n) == IF m <= n THEN m ELSE n
Greater(m, n) == IF m >= n THEN m ELSE n

Total(amounts) == FoldLeft(LAMBDA sum, x : sum + x, 0, amounts)
Amounts(seq) == [k \in DOMAIN seq |-> seq[k].amount]
AmountOf(seq, i) == Total([k \in DOMAIN seq |-> IF seq[k].index = i THEN seq[k].amount ELSE 0])

----------------------------------------------------------------------------
(* Validators *)

get_current_epoch(st) == st.slot \div SLOTS_PER_EPOCH
compute_activation_exit_epoch(epoch) == epoch + 1 + MAX_SEED_LOOKAHEAD

Indices(st) == DOMAIN st.validators
IsIndexOf(st, i, pubkey) == i \in Indices(st) /\ st.validators[i].pubkey = pubkey

is_active_validator(v, epoch) == v.activation_epoch <= epoch /\ epoch < v.exit_epoch

get_max_effective_balance(v) ==
  IF v.compounding THEN MAX_EFFECTIVE_BALANCE_ELECTRA ELSE MIN_ACTIVATION_BALANCE

get_total_active_balance(st) ==
  Greater(EFFECTIVE_BALANCE_INCREMENT,
          Total([i \in Indices(st) |->
                   IF is_active_validator(st.validators[i], get_current_epoch(st))
                     THEN st.validators[i].effective_balance ELSE 0]))

increase_balance(st, i, delta) == [st EXCEPT !.balances[i] = @ + delta]
decrease_balance(st, i, delta) == [st EXCEPT !.balances[i] = Greater(@ - delta, 0)]

(* A loss of i, for the history of what left the balances. *)
Penalized(st, i, penalty) ==
  [decrease_balance(st, i, penalty) EXCEPT !.net = @ + Lesser(penalty, st.balances[i])]

----------------------------------------------------------------------------
(* Churn.  exits and consolidations are the two queues. *)

get_balance_churn_limit(st) ==
  LET churn == Greater(MIN_PER_EPOCH_CHURN_LIMIT_ELECTRA,
                       get_total_active_balance(st) \div CHURN_LIMIT_QUOTIENT)
  IN churn - (churn % EFFECTIVE_BALANCE_INCREMENT)

get_activation_exit_churn_limit(st) ==
  Lesser(MAX_PER_EPOCH_ACTIVATION_EXIT_CHURN_LIMIT, get_balance_churn_limit(st))

get_consolidation_churn_limit(st) ==
  get_balance_churn_limit(st) - get_activation_exit_churn_limit(st)

(* Mutant: the epochs an amount takes beyond the first are rounded down. *)
BookedTooEarly(queue, now, churn, amount) ==
  LET first == Greater(queue.earliest, now)
      left == IF queue.earliest < first THEN churn ELSE queue.to_consume
      more == IF amount > left THEN (amount - left) \div churn ELSE 0
  IN [earliest |-> first + more,
      to_consume |-> left + more * churn - amount,
      booked |-> Append(queue.booked,
                      [epoch |-> first + more, amount |-> amount, churn |-> churn])]

(* compute_exit_epoch_and_update_churn and its twin for consolidations. *)
Booked(queue, now, churn, amount) ==
  LET first == Greater(queue.earliest, now)
      left == IF queue.earliest < first THEN churn ELSE queue.to_consume
      more == IF amount > left THEN (amount - left - 1) \div churn + 1 ELSE 0
  IN [earliest |-> first + more,
      to_consume |-> left + more * churn - amount,
      booked |-> Append(queue.booked,
                      [epoch |-> first + more, amount |-> amount, churn |-> churn])]

BookExit(st, amount) ==
  [st EXCEPT !.exits = Booked(@, compute_activation_exit_epoch(get_current_epoch(st)),
                              get_activation_exit_churn_limit(st), amount)]

BookConsolidation(st, amount) ==
  [st EXCEPT !.consolidations = Booked(@, compute_activation_exit_epoch(get_current_epoch(st)),
                                       get_consolidation_churn_limit(st), amount)]

(* The validator leaves at the epoch that was booked last. *)
Leaves(st, i, epoch) ==
  [st EXCEPT !.validators[i].exit_epoch = epoch,
             !.validators[i].withdrawable_epoch = epoch + MIN_VALIDATOR_WITHDRAWABILITY_DELAY]

initiate_validator_exit(st, i) ==
  IF st.validators[i].exit_epoch # FAR_FUTURE_EPOCH THEN st
  ELSE LET booked == BookExit(st, st.validators[i].effective_balance)
       IN Leaves(booked, i, booked.exits.earliest)

(* Its rewards to others are among those of process_rewards_and_penalties. *)
slash_validator(st, i) ==
  LET epoch == get_current_epoch(st)
      exited == initiate_validator_exit(st, i)
      effective == st.validators[i].effective_balance
  IN Penalized(
       [exited EXCEPT
          !.validators[i].slashed = TRUE,
          !.validators[i].withdrawable_epoch = Greater(@, epoch + EPOCHS_PER_SLASHINGS_VECTOR),
          !.slashings[epoch % EPOCHS_PER_SLASHINGS_VECTOR] = @ + effective],
       i, effective \div MIN_SLASHING_PENALTY_QUOTIENT_ELECTRA)

----------------------------------------------------------------------------
(* Epoch processing *)

(* One turn of the loop of process_registry_updates. *)
RegistryUpdate(st, i) ==
  LET v == st.validators[i]
      epoch == get_current_epoch(st)
  IN IF v.activation_eligibility_epoch = FAR_FUTURE_EPOCH
        /\ v.effective_balance >= MIN_ACTIVATION_BALANCE
       THEN [st EXCEPT !.validators[i].activation_eligibility_epoch = epoch + 1]
     ELSE IF is_active_validator(v, epoch) /\ v.effective_balance <= EJECTION_BALANCE
       THEN initiate_validator_exit(st, i)
     ELSE IF v.activation_eligibility_epoch <= st.finalized_epoch
             /\ v.activation_epoch = FAR_FUTURE_EPOCH
       THEN [st EXCEPT !.validators[i].activation_epoch = compute_activation_exit_epoch(epoch)]
     ELSE st

process_registry_updates(st) == FoldLeftDomain(RegistryUpdate, st, st.validators)

(* The correlation penalty, by increment of the balance of the slashed. *)
PenaltyPerIncrement(st) ==
  LET total == get_total_active_balance(st)
      slashed == Total([e \in 1..EPOCHS_PER_SLASHINGS_VECTOR |-> st.slashings[e - 1]])
      adjusted == Lesser(slashed * PROPORTIONAL_SLASHING_MULTIPLIER_BELLATRIX, total)
  IN adjusted \div (total \div EFFECTIVE_BALANCE_INCREMENT)

(* One turn of the loop of process_slashings. *)
Punished(st, i, perIncrement) ==
  LET v == st.validators[i]
  IN IF v.slashed
        /\ get_current_epoch(st) + EPOCHS_PER_SLASHINGS_VECTOR \div 2 = v.withdrawable_epoch
       THEN Penalized(st, i, perIncrement * (v.effective_balance \div EFFECTIVE_BALANCE_INCREMENT))
       ELSE st

process_slashings(st) ==
  LET perIncrement == PenaltyPerIncrement(st)
  IN FoldLeftDomain(LAMBDA s, i : Punished(s, i, perIncrement), st, st.validators)

NewValidator(d) ==
  [pubkey |-> d.pubkey, compounding |-> d.compounding, slashed |-> FALSE,
   effective_balance |->
     Lesser(d.amount - (d.amount % EFFECTIVE_BALANCE_INCREMENT),
            IF d.compounding THEN MAX_EFFECTIVE_BALANCE_ELECTRA ELSE MIN_ACTIVATION_BALANCE),
   activation_eligibility_epoch |-> FAR_FUTURE_EPOCH, activation_epoch |-> FAR_FUTURE_EPOCH,
   exit_epoch |-> FAR_FUTURE_EPOCH, withdrawable_epoch |-> FAR_FUTURE_EPOCH]

(* A first deposit with a bad signature is lost. *)
apply_pending_deposit(st, d) ==
  IF \E i \in Indices(st) : IsIndexOf(st, i, d.pubkey)
    THEN increase_balance(st, CHOOSE i \in Indices(st) : IsIndexOf(st, i, d.pubkey), d.amount)
  ELSE IF d.valid
    THEN [st EXCEPT !.validators = Append(@, NewValidator(d)), !.balances = Append(@, d.amount)]
  ELSE [st EXCEPT !.net = @ + d.amount]

(* Mutant: a deposit to a validator that has left is put off like one to a leaving one. *)
HandleDepositExitedFirst(acc, d) ==
  LET known == \E i \in Indices(acc.st) : IsIndexOf(acc.st, i, d.pubkey)
      v == acc.st.validators[CHOOSE i \in Indices(acc.st) : IsIndexOf(acc.st, i, d.pubkey)]
      exited == known /\ v.exit_epoch < FAR_FUTURE_EPOCH
      withdrawn == known /\ v.withdrawable_epoch < get_current_epoch(acc.st) + 1
      applied == [acc EXCEPT !.st = apply_pending_deposit(@, d), !.next = @ + 1]
  IN IF \/ acc.done
        \/ d.slot > acc.st.finalized_epoch * SLOTS_PER_EPOCH
        \/ acc.next >= MAX_PENDING_DEPOSITS_PER_EPOCH
       THEN [acc EXCEPT !.done = TRUE]
     ELSE IF exited THEN [acc EXCEPT !.postponed = Append(@, d), !.next = @ + 1]
     ELSE IF withdrawn THEN applied
     ELSE IF acc.processed + d.amount > acc.available
       THEN [acc EXCEPT !.done = TRUE, !.limited = TRUE]
     ELSE [applied EXCEPT !.processed = @ + d.amount]

(* One turn of the loop of process_pending_deposits; done is its break. *)
HandleDeposit(acc, d) ==
  LET known == \E i \in Indices(acc.st) : IsIndexOf(acc.st, i, d.pubkey)
      v == acc.st.validators[CHOOSE i \in Indices(acc.st) : IsIndexOf(acc.st, i, d.pubkey)]
      exited == known /\ v.exit_epoch < FAR_FUTURE_EPOCH
      withdrawn == known /\ v.withdrawable_epoch < get_current_epoch(acc.st) + 1
      applied == [acc EXCEPT !.st = apply_pending_deposit(@, d), !.next = @ + 1]
  IN IF \/ acc.done
        \/ d.slot > acc.st.finalized_epoch * SLOTS_PER_EPOCH
        \/ acc.next >= MAX_PENDING_DEPOSITS_PER_EPOCH
       THEN [acc EXCEPT !.done = TRUE]
     ELSE IF withdrawn THEN applied
     ELSE IF exited THEN [acc EXCEPT !.postponed = Append(@, d), !.next = @ + 1]
     ELSE IF acc.processed + d.amount > acc.available
       THEN [acc EXCEPT !.done = TRUE, !.limited = TRUE]
     ELSE [applied EXCEPT !.processed = @ + d.amount]

process_pending_deposits(st) ==
  LET available == st.deposit_balance_to_consume + get_activation_exit_churn_limit(st)
      r == FoldLeft(HandleDeposit,
                    [st |-> st, available |-> available, processed |-> 0, next |-> 0,
                     postponed |-> <<>>, done |-> FALSE, limited |-> FALSE],
                    st.pending_deposits)
  IN [r.st EXCEPT
        !.pending_deposits = SubSeq(@, r.next + 1, Len(@)) \o r.postponed,
        !.deposit_balance_to_consume = IF r.limited THEN available - r.processed ELSE 0]

(* One turn of the loop of process_pending_consolidations. *)
HandleConsolidation(acc, c) ==
  LET source == acc.st.validators[c.source]
      moved == Lesser(acc.st.balances[c.source], source.effective_balance)
  IN IF acc.done THEN acc
     ELSE IF source.slashed THEN [acc EXCEPT !.next = @ + 1]
     ELSE IF source.withdrawable_epoch > get_current_epoch(acc.st) + 1
       THEN [acc EXCEPT !.done = TRUE]
     ELSE [acc EXCEPT
             !.st = increase_balance(decrease_balance(@, c.source, moved), c.target, moved),
             !.next = @ + 1]

process_pending_consolidations(st) ==
  LET r == FoldLeft(HandleConsolidation, [st |-> st, next |-> 0, done |-> FALSE],
                    st.pending_consolidations)
  IN [r.st EXCEPT !.pending_consolidations = SubSeq(@, r.next + 1, Len(@))]

process_effective_balance_updates(st) ==
  LET increment == EFFECTIVE_BALANCE_INCREMENT \div HYSTERESIS_QUOTIENT
      Updated(v, balance) ==
        IF \/ balance + increment * HYSTERESIS_DOWNWARD_MULTIPLIER < v.effective_balance
           \/ v.effective_balance + increment * HYSTERESIS_UPWARD_MULTIPLIER < balance
          THEN [v EXCEPT !.effective_balance =
                  Lesser(balance - (balance % EFFECTIVE_BALANCE_INCREMENT),
                         get_max_effective_balance(v))]
          ELSE v
  IN [st EXCEPT !.validators = [i \in DOMAIN @ |-> Updated(@[i], st.balances[i])]]

process_slashings_reset(st) ==
  [st EXCEPT !.slashings[(get_current_epoch(st) + 1) % EPOCHS_PER_SLASHINGS_VECTOR] = 0]

(* finalized is what the votes of the epoch finalize, penalized who loses how much. *)
process_epoch(st, finalized, penalized) ==
  LET weighed == [st EXCEPT !.finalized_epoch = finalized]
      fined == IF penalized.amount = 0 THEN weighed
               ELSE Penalized(weighed, penalized.index, penalized.amount)
      registered == process_slashings(process_registry_updates(fined))
      queued == process_pending_consolidations(process_pending_deposits(registered))
  IN process_slashings_reset(process_effective_balance_updates(queued))

----------------------------------------------------------------------------
(* Withdrawals.  A validator index is one more than in the code. *)

WithdrawnFrom(withdrawals, i) == AmountOf(withdrawals, i)

NextIndex(st, i) == (i % Len(st.validators)) + 1

(* One turn of the loop over the pending partial withdrawals.  Each is computed from
   the balance before the block. *)
HandlePartial(acc, w) ==
  LET v == acc.st.validators[w.index]
      excess == acc.st.balances[w.index] - MIN_ACTIVATION_BALANCE
      pays == v.exit_epoch = FAR_FUTURE_EPOCH
              /\ v.effective_balance >= MIN_ACTIVATION_BALANCE /\ excess > 0
  IN IF \/ acc.done
        \/ w.withdrawable_epoch > get_current_epoch(acc.st)
        \/ Len(acc.withdrawals) = MAX_PENDING_PARTIALS_PER_WITHDRAWALS_SWEEP
       THEN [acc EXCEPT !.done = TRUE]
     ELSE [acc EXCEPT
             !.processed = @ + 1,
             !.withdrawals =
                IF pays THEN Append(@, [index |-> w.index, amount |-> Lesser(excess, w.amount)])
                        ELSE @]

(* Mutant: the sweep does not see the partial withdrawals before it. *)
SweepOneOfWhole(acc, turn) ==
  LET v == acc.st.validators[acc.index]
      balance == acc.st.balances[acc.index]
      most == get_max_effective_balance(v)
      due == IF v.withdrawable_epoch <= get_current_epoch(acc.st) /\ balance > 0 THEN balance
             ELSE IF v.effective_balance = most /\ balance > most THEN balance - most
             ELSE 0
      paid == IF due > 0 THEN Append(acc.withdrawals, [index |-> acc.index, amount |-> due])
              ELSE acc.withdrawals
  IN IF acc.done THEN acc
     ELSE IF Len(paid) = MAX_WITHDRAWALS_PER_PAYLOAD
       THEN [acc EXCEPT !.withdrawals = paid, !.done = TRUE]
     ELSE [acc EXCEPT !.withdrawals = paid, !.index = NextIndex(acc.st, @)]

(* One turn of the sweep.  The balance is unsigned, so a negative one is an exception. *)
SweepOne(acc, turn) ==
  LET v == acc.st.validators[acc.index]
      epoch == get_current_epoch(acc.st)
      balance == acc.st.balances[acc.index] - WithdrawnFrom(acc.withdrawals, acc.index)
      most == get_max_effective_balance(v)
      due == IF v.withdrawable_epoch <= epoch /\ balance > 0 THEN balance
             ELSE IF v.effective_balance = most /\ balance > most THEN balance - most
             ELSE 0
      paid == IF due > 0 THEN Append(acc.withdrawals, [index |-> acc.index, amount |-> due])
              ELSE acc.withdrawals
  IN IF acc.done \/ acc.underflow THEN acc
     ELSE IF balance < 0 THEN [acc EXCEPT !.underflow = TRUE]
     ELSE IF Len(paid) = MAX_WITHDRAWALS_PER_PAYLOAD
       THEN [acc EXCEPT !.withdrawals = paid, !.done = TRUE]
     ELSE [acc EXCEPT !.withdrawals = paid, !.index = NextIndex(acc.st, @)]

PartialWithdrawals(st) ==
  FoldLeft(HandlePartial, [st |-> st, withdrawals |-> <<>>, processed |-> 0, done |-> FALSE],
           st.pending_partial_withdrawals)

get_expected_withdrawals(st) ==
  LET partial == PartialWithdrawals(st)
      bound == Lesser(Len(st.validators), MAX_VALIDATORS_PER_WITHDRAWALS_SWEEP)
      sweep == FoldLeft(SweepOne,
                        [st |-> st, withdrawals |-> partial.withdrawals,
                         index |-> st.next_withdrawal_validator_index, done |-> FALSE,
                         underflow |-> FALSE],
                        [turn \in 1..bound |-> turn])
  IN [withdrawals |-> sweep.withdrawals, processed |-> partial.processed,
      underflow |-> sweep.underflow]

NextSweep(st, withdrawals) ==
  IF Len(withdrawals) = MAX_WITHDRAWALS_PER_PAYLOAD
    THEN NextIndex(st, Last(withdrawals).index)
    ELSE ((st.next_withdrawal_validator_index - 1 + MAX_VALIDATORS_PER_WITHDRAWALS_SWEEP)
            % Len(st.validators)) + 1

(* A block withdraws first; then its operations follow by kind, each kind any number
   of times. *)
Stage(kind) ==
  CASE kind = "withdrawals" -> 1 [] kind = "slashing" -> 2 [] kind = "exit" -> 3
    [] kind = "deposit_request" -> 4 [] kind = "withdrawal_request" -> 5
    [] kind = "consolidation_request" -> 6

Paid(st, w) == decrease_balance(st, w.index, w.amount)

process_withdrawals ==
  LET expected == get_expected_withdrawals(state)
      paid == expected.withdrawals
  IN /\ stage = 0
     /\ ~expected.underflow
     /\ state' = [FoldLeft(Paid, state, paid) EXCEPT
                    !.pending_partial_withdrawals = SubSeq(@, expected.processed + 1, Len(@)),
                    !.next_withdrawal_validator_index = NextSweep(state, paid),
                    !.net = @ + Total(Amounts(paid))]
     /\ stage' = Stage("withdrawals")
     /\ UNCHANGED events

----------------------------------------------------------------------------
(* Operations of a block, and what the execution layer requests *)

Event(kind) ==
  /\ events < MaxEvents /\ state.slot <= LastEventSlot /\ events' = events + 1
  /\ stage \in 1..Stage(kind) /\ stage' = Stage(kind)

Epoch == get_current_epoch(state)

get_pending_balance_to_withdraw(st, i) == AmountOf(st.pending_partial_withdrawals, i)

(* Active, not leaving, and long enough in the registry. *)
MayLeave(i) ==
  LET v == state.validators[i]
  IN /\ is_active_validator(v, Epoch) /\ v.exit_epoch = FAR_FUTURE_EPOCH
     /\ Epoch >= v.activation_epoch + SHARD_COMMITTEE_PERIOD

process_voluntary_exit(i) ==
  /\ Event("exit")
  /\ MayLeave(i) /\ get_pending_balance_to_withdraw(state, i) = 0
  /\ state' = initiate_validator_exit(state, i)

process_slashing(i) ==
  LET v == state.validators[i]
  IN /\ Event("slashing")
     /\ ~v.slashed /\ v.activation_epoch <= Epoch /\ Epoch < v.withdrawable_epoch
     /\ state' = slash_validator(state, i)

process_full_exit_request(i) ==
  /\ Event("withdrawal_request")
  /\ MayLeave(i) /\ get_pending_balance_to_withdraw(state, i) = 0
  /\ state' = initiate_validator_exit(state, i)

(* The partial requests of process_withdrawal_request. *)
process_withdrawal_request(i, amount) ==
  LET v == state.validators[i]
      excess == state.balances[i] - MIN_ACTIVATION_BALANCE
                  - get_pending_balance_to_withdraw(state, i)
      booked == BookExit(state, Lesser(excess, amount))
  IN /\ Event("withdrawal_request")
     /\ Len(state.pending_partial_withdrawals) < PENDING_PARTIAL_WITHDRAWALS_LIMIT
     /\ MayLeave(i)
     /\ v.compounding /\ v.effective_balance >= MIN_ACTIVATION_BALANCE /\ excess > 0
     /\ state' = [booked EXCEPT !.pending_partial_withdrawals = Append(@,
          [index |-> i, amount |-> Lesser(excess, amount),
           withdrawable_epoch |-> booked.exits.earliest + MIN_VALIDATOR_WITHDRAWABILITY_DELAY])]

process_deposit_request(r) ==
  /\ Event("deposit_request")
  /\ state' = [state EXCEPT
       !.pending_deposits = Append(@, [pubkey |-> r.pubkey, compounding |-> r.compounding,
                                       amount |-> r.amount, valid |-> r.valid, slot |-> state.slot]),
       !.net = @ - r.amount]

(* A consolidation request of a validator with itself. *)
switch_to_compounding_validator(i) ==
  LET v == state.validators[i]
      excess == state.balances[i] - MIN_ACTIVATION_BALANCE
      switched == [state EXCEPT !.validators[i].compounding = TRUE]
  IN /\ Event("consolidation_request")
     /\ ~v.compounding /\ is_active_validator(v, Epoch) /\ v.exit_epoch = FAR_FUTURE_EPOCH
     /\ state' = IF excess <= 0 THEN switched
                 ELSE [switched EXCEPT
                         !.balances[i] = MIN_ACTIVATION_BALANCE,
                         !.pending_deposits = Append(@,
                            [pubkey |-> v.pubkey, compounding |-> TRUE, amount |-> excess,
                             valid |-> FALSE, slot |-> 0])]

process_consolidation_request(source, target) ==
  LET booked == BookConsolidation(state, state.validators[source].effective_balance)
      t == state.validators[target]
  IN /\ Event("consolidation_request")
     /\ source # target
     /\ Len(state.pending_consolidations) < PENDING_CONSOLIDATIONS_LIMIT
     /\ get_consolidation_churn_limit(state) > MIN_ACTIVATION_BALANCE
     /\ t.compounding /\ is_active_validator(t, Epoch) /\ t.exit_epoch = FAR_FUTURE_EPOCH
     /\ MayLeave(source) /\ get_pending_balance_to_withdraw(state, source) = 0
     /\ state' = [Leaves(booked, source, booked.consolidations.earliest) EXCEPT
                    !.pending_consolidations = Append(@, [source |-> source, target |-> target])]

----------------------------------------------------------------------------
Init ==
  /\ state = InitialState
  /\ stage = 0
  /\ events = 0

(* The next slot, and at the end of an epoch process_epoch: it finalizes the epoch
   before unless votes are missing, and nobody loses balance unless it did not vote.
   A slot without a block, a stall and a loss each count as events. *)
AdvanceSlot ==
  \E stalls \in BOOLEAN, loss \in 0..Penalties, i \in Indices(state) :
    LET boundary == (state.slot + 1) % SLOTS_PER_EPOCH = 0
        finalized == IF stalls THEN state.finalized_epoch ELSE Greater(Epoch - 1, 0)
        processed == IF boundary THEN process_epoch(state, finalized, [index |-> i, amount |-> loss])
                                 ELSE state
        count == (IF stage > 0 THEN 0 ELSE 1) + (IF stalls THEN 1 ELSE 0) + (IF loss > 0 THEN 1 ELSE 0)
    IN /\ state.slot < MaxSlot
       /\ ~boundary => ~stalls /\ loss = 0
       /\ loss = 0 => i = 1
       /\ events + count <= MaxEvents
       /\ count > 0 => state.slot <= LastEventSlot
       /\ state' = [processed EXCEPT !.slot = @ + 1]
       /\ stage' = 0
       /\ events' = events + count

ProcessVoluntaryExit == \E i \in Indices(state) : process_voluntary_exit(i)
ProcessSlashing == \E i \in Indices(state) : process_slashing(i)
ProcessFullExitRequest == \E i \in Indices(state) : process_full_exit_request(i)
ProcessWithdrawalRequest ==
  \E i \in Indices(state), amount \in WithdrawalAmounts : process_withdrawal_request(i, amount)
ProcessDepositRequest == \E r \in DepositRequests : process_deposit_request(r)
SwitchToCompounding == \E i \in Indices(state) : switch_to_compounding_validator(i)
ProcessConsolidationRequest ==
  \E i, j \in Indices(state) : process_consolidation_request(i, j)

Next ==
  \/ process_withdrawals \/ AdvanceSlot
  \/ ProcessVoluntaryExit \/ ProcessSlashing \/ ProcessFullExitRequest
  \/ ProcessWithdrawalRequest \/ ProcessDepositRequest
  \/ SwitchToCompounding \/ ProcessConsolidationRequest

Spec == Init /\ [][Next]_vars

----------------------------------------------------------------------------
(* Of the exits of any span of epochs, all but the first fit in the churn of these
   epochs: the first may have begun in an epoch before.  The churn limit follows the
   total balance, and what is left of an epoch was left at the limit of its first
   booking, so it is the highest limit so far that counts.  Holds of the exits and
   partial withdrawals together, and of the consolidations. *)
WithinChurn(booked) ==
  \A m, n \in DOMAIN booked :
    m < n =>
      /\ booked[m].epoch <= booked[n].epoch
      /\ \E k \in 1..n :
           Total(Amounts(SubSeq(booked, m + 1, n)))
             <= booked[k].churn * (booked[n].epoch - booked[m].epoch + 1)

ChurnRespected == WithinChurn(state.exits.booked) /\ WithinChurn(state.consolidations.booked)

(* The gwei of a state: in the balances, in the deposit queue and paid out. *)
Wealth(st) == Total(st.balances) + Total(Amounts(st.pending_deposits)) + st.net

(* By how much the partial withdrawals a payload pays exceed the balances they are paid
   from.  Each is computed from the balance before the block, so those of one validator
   need not fit together; decrease_balance stops at zero, and the rest comes from
   nowhere. *)
Overdraft(st) ==
  Total([i \in Indices(st) |->
           Greater(WithdrawnFrom(PartialWithdrawals(st).withdrawals, i) - st.balances[i], 0)])

(* Every gwei is accounted for: no step loses or makes any between the balances, the
   deposit queue and what is paid out, whatever is put off, moved, switched or slashed at
   the same time.  The one exception is a payload whose partial withdrawals exceed a
   balance, and it makes what they exceed it by and no more: the sweep, which comes after
   them, takes only what they leave, and a block in which it meets an overdrawn balance
   is refused. *)
GweiAccountedFor ==
  [][Wealth(state)' = Wealth(state) + (IF stage = 0 /\ stage' = Stage("withdrawals")
                                         THEN Overdraft(state) ELSE 0)]_vars

(* Some time after the last request every queue is empty, and whoever has left has
   been paid out: no item is passed over, and none holds up those behind it for good. *)
QueuesDrain ==
  state.slot = MaxSlot =>
    /\ state.pending_deposits = <<>>
    /\ state.pending_partial_withdrawals = <<>>
    /\ state.pending_consolidations = <<>>
    /\ \A i \in Indices(state) :
         state.validators[i].withdrawable_epoch + Len(state.validators) <= Epoch
           => state.balances[i] = 0
=============================================================================
