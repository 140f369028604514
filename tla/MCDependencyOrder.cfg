SPECIFICATION Spec
CONSTANTS
  A = A
  B = B
  C = C
  D = D
  Unknown = Unknown
  Objects <- MCObjects
  Names <- MCNames
  Documents <- MCDocuments
INVARIANTS
  OrderIsTopological
  PlacementIsReinsertion
PROPERTY
  OrderingTerminates
CHECK_DEADLOCK FALSE
