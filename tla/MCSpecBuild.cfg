SPECIFICATION Spec
CONSTANTS
  ForkOrder <- MCForkOrder
  PREVIOUS_FORK_OF <- MCPreviousForkOf
  None = "none"
  TargetOrder <- MCTargetOrder
  MaxEdits = 2
  MaxCrashes = 1
INVARIANTS
  CompletedRunsAreCurrent
  FailedRunsKeepFiles
  OneConfigurationPerRun
  ImportedModulesFirst
PROPERTY
  EventuallyCurrent
