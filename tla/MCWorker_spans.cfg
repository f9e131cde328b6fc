SPECIFICATION Spec
CONSTANTS
  K = 2
  Pads = {}
  Lanes = {}
  PageSize = 9
  OobSize = 5
  Nothing = Nothing
  pa = pa
  pb = pb
  Pages <- MCPages
  Payloads <- MCPayloads
  Threads = {t1}
  Schemes <- LeavingSchemes
  Sizes <- Full
  MaxRequests = 2
  MaxFlips = 0
CHECK_DEADLOCK FALSE
INVARIANTS
  AccessesInsideSpans
