SPECIFICATION Spec
CONSTANTS
  Elements <- MCElements
  MaxElements = 4
  Preset <- MCPreset
  Config <- MCConfig
  KzgSetups <- MCKzgSetups
  KzgNames <- MCKzgNames
  Crs = "CURDLEPROOFS_CRS"
  NoName = "NoName"
INVARIANTS
  LatestDefinitionWins
  OneKindPerConstant
  SetupsReplacedTogether
CHECK_DEADLOCK FALSE
