SPECIFICATION Spec
CONSTANTS
  K = 2
  Pads = {}
  Lanes = {}
  PageSize = 9
  OobSize = 5
  Nothing = Nothing
  pa = pa
  pb = pb
  Pages <- MCPages
  Payloads <- MCPayloads
  Threads = {t1, t2}
  Schemes <- SoundSchemes
  Sizes <- AlsoShort
  MaxRequests = 3
  MaxFlips = 1
CHECK_DEADLOCK FALSE
INVARIANTS
  TypeOK
  ReadReturnsWritten
  ImageIgnoresHistory
  NackedPagesSealed
SYMMETRY ThreadSymmetry
