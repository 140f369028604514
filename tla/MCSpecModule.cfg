SPECIFICATION Spec
CONSTANTS
  Targets = {"mainnet", "minimal"}
  PresetValue <- MCPresetValue
INVARIANTS
  ModulesImport
  LatestDefinitions
  EngineImplementsProtocol
CHECK_DEADLOCK FALSE
