SPECIFICATION Spec
CONSTANTS
  UMax = 7
  IdxMax = 3
  NoRequest = NoRequest
  Names <- MCNames
  Configs <- MCConfigs
INVARIANT BoundaryTestExact
CHECK_DEADLOCK FALSE
