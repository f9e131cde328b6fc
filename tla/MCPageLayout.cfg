SPECIFICATION Spec
CONSTANTS
  MinCap = 8
  NoKey = NoKey
  NoVal = NoVal
  UMax = 63
  BadName = BadName
  SpanNames <- MCSpans
  Layouts <- MCLayouts
CHECK_DEADLOCK FALSE
INVARIANT TypeOK
INVARIANT PartsInsidePage
INVARIANT PartsTileSpans
INVARIANT SpanArraysSuffice
INVARIANT SpanIndicesDense
INVARIANT PointersHoldWithoutCollisions
