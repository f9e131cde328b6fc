SPECIFICATION FairSpec
CONSTANTS
  UMax = 7
  IdxMax = 3
  NoRequest = NoRequest
  Names <- MCNames
  Configs <- MCConfigs
INVARIANTS
  TypeOK
  SchemeAgrees
  NoSharedPage
  OwnedPagesReachOwner
  UnownedPagesNacked
  NoOverrun
  OverlapJustified
  StaleRangesHarmless
  IndicesDistinct
PROPERTIES
  ElementsWrittenOnce
  InitializationEnds
  ImplementsPageMap
CHECK_DEADLOCK FALSE
