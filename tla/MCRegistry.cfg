SPECIFICATION Spec
CONSTANTS
  SLOTS_PER_EPOCH = 1
  MAX_SEED_LOOKAHEAD = 1
  SHARD_COMMITTEE_PERIOD = 1
  MIN_VALIDATOR_WITHDRAWABILITY_DELAY = 3
  EPOCHS_PER_SLASHINGS_VECTOR = 4
  FAR_FUTURE_EPOCH = 1000
  EFFECTIVE_BALANCE_INCREMENT = 4
  MIN_ACTIVATION_BALANCE = 8
  MAX_EFFECTIVE_BALANCE_ELECTRA = 24
  EJECTION_BALANCE = 4
  HYSTERESIS_QUOTIENT = 4
  HYSTERESIS_DOWNWARD_MULTIPLIER = 1
  HYSTERESIS_UPWARD_MULTIPLIER = 5
  MIN_PER_EPOCH_CHURN_LIMIT_ELECTRA = 4
  MAX_PER_EPOCH_ACTIVATION_EXIT_CHURN_LIMIT = 28
  CHURN_LIMIT_QUOTIENT = 1
  MIN_SLASHING_PENALTY_QUOTIENT_ELECTRA = 4
  PROPORTIONAL_SLASHING_MULTIPLIER_BELLATRIX = 1
  MAX_PENDING_DEPOSITS_PER_EPOCH = 2
  MAX_PENDING_PARTIALS_PER_WITHDRAWALS_SWEEP = 2
  MAX_WITHDRAWALS_PER_PAYLOAD = 3
  MAX_VALIDATORS_PER_WITHDRAWALS_SWEEP = 1
  PENDING_PARTIAL_WITHDRAWALS_LIMIT = 2
  PENDING_CONSOLIDATIONS_LIMIT = 2
  InitialState <- MCInitialState
  DepositRequests <- MCDepositRequests
  WithdrawalAmounts = {2, 13}
  Penalties = 2
  MaxEvents = 3
  LastEventSlot = 8
  MaxSlot = 20
INVARIANTS
  ChurnRespected
  QueuesDrain
PROPERTIES
  GweiAccountedFor
CHECK_DEADLOCK FALSE
