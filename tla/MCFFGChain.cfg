SPECIFICATION Spec
CONSTANTS
    Validator <- MCValidator
    EffectiveBalance <- MCEffectiveBalance
    EFFECTIVE_BALANCE_INCREMENT = 1
    SLOTS_PER_EPOCH = 2
    MIN_ATTESTATION_INCLUSION_DELAY = 1
    SLOTS_PER_HISTORICAL_ROOT = 4
    get_beacon_proposer_index <- MCProposer
    Aggregate <- MCAggregate
    AttesterSlashing <- MCAttesterSlashing
    MaxSlot = 10
CHECK_DEADLOCK FALSE
INVARIANTS
    TypeOK
    JustifiedIsCasper
    FinalizedIsCasper
    PendingSources
    CheckpointOrder
PROPERTY FinalityAdvances
