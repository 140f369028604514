SPECIFICATION FairSpec
CONSTANTS
  SLOTS_PER_PERIOD = 2
  SYNC_COMMITTEE_SIZE = 3
  MIN_SYNC_COMMITTEE_PARTICIPANTS = 1
  Histories <- MCHistories
  None = None
  MaxSlot = 6
INVARIANTS
  CommitteesMatchPeriod
  StoredUpdateIsUseful
PROPERTIES
  HeadersOnlyAdvance
  ClientCatchesUp
CHECK_DEADLOCK FALSE
