SPECIFICATION FairSpec
CONSTANTS
  K = 2
  Pads = {}
  Lanes = {}
  PageSize = 9
  OobSize = 5
  Nothing = Nothing
  pa = pa
  pb = pb
  Pages <- MCPages
  Payloads <- MCPayloads
  Threads = {t1, t2}
  Schemes <- LiveSchemes
  Sizes <- Full
  MaxRequests = 2
  MaxFlips = 2
CHECK_DEADLOCK FALSE
INVARIANTS
  InRangeNeverFaults
PROPERTIES
  EveryRequestAnswered
