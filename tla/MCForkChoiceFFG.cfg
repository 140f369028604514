SPECIFICATION FairSpec
CONSTANTS
    Validator <- MCValidator
    EffectiveBalance <- MCEffectiveBalance
    EFFECTIVE_BALANCE_INCREMENT = 1
    SLOTS_PER_EPOCH = 2
    MIN_ATTESTATION_INCLUSION_DELAY = 1
    SLOTS_PER_HISTORICAL_ROOT = 4
    get_beacon_proposer_index <- MCProposer
    BeaconBlock <- MCBeaconBlock
    Anchor = 1
    BlockState <- MCBlockState
    PulledUpState <- MCPulledUpState
    Attestation <- MCAttestation
    AttesterSlashing <- MCAttesterSlashing
    TickTime <- MCTickTime
    SECONDS_PER_SLOT = 12
    INTERVALS_PER_SLOT = 3
    PROPOSER_SCORE_BOOST = 40
    REORG_HEAD_WEIGHT_THRESHOLD = 20
    REORG_PARENT_WEIGHT_THRESHOLD = 160
    REORG_MAX_EPOCHS_SINCE_FINALIZATION = 2
CHECK_DEADLOCK FALSE
INVARIANTS
    TypeOK
    JustifiedExtendsFinalized
    HeadIsViableLeaf
    MessagesAreSupported
PROPERTIES
    ImplementsView
    FinalityIsKept
    JustificationIsRealized
