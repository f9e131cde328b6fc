SPECIFICATION Spec
CONSTANTS
  MinCap = 4
  NoKey = NoKey
  NoVal = NoVal
  Keys <- MCKeys
  Vals = {1, 2}
  Hashes <- MCHashes
  Caps = {0, 5}
INVARIANT TypeOK
INVARIANT RobinHoodOrder
INVARIANT ProbesEnd
INVARIANT ScanMeetsEachOnce
PROPERTY ImplementsDict
