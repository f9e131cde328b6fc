SPECIFICATION Spec
CONSTANTS
  MinCap = 16
  NoKey = NoKey
  NoVal = NoVal
  UMax = 63
  BadName = BadName
  SpanNames <- MCSpans
  Layouts <- MCLayoutsAnyBuild
CHECK_DEADLOCK FALSE
INVARIANT LayoutRules
