SPECIFICATION Spec
CONSTANTS
  N = 2
  Docs <- MCDocs
  Nothing = Nothing
  IntMax = 127
  SizeMax = 255
  ByteMax = 255
  StepSizes = {16, 32}
  OobSize = 12
INVARIANTS
  TypeOK
  FreesExplained
  LeaksExplained
  NackReady
  FixupOnceUnlessParallel
  ParametersSound
  ExitIsClean
PROPERTIES
  ServiceKept
