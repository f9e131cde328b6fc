SPECIFICATION Spec
CONSTANTS
  K = 3
  Pads = {0, 1}
  Lanes = {0}
  MaxFlips = 2
INVARIANT TypeOK
INVARIANT SingleFlipRepaired
INVARIANT DoubleFlipNotHidden
CHECK_DEADLOCK FALSE
