SPECIFICATION Spec
CONSTANTS
  c1 = c1
  c2 = c2
  c3 = c3
  Children = {c1, c2, c3}
  Master = Master
  NoFrame = NoFrame
  Plug <- MCPlug
  NumChildren <- MCNumChildren
  HwType <- MCHwType
  InitialAddresses = {8, 9}
  MaxLosses = 2
  MasterPins = {0, 1}
  Pool = {20, 21, 22}
  InitialAddress = 8
  MaxTries = 3
  ShortAddresses = {0, 8, 20}
INVARIANTS
  EnumTypeOK
  OneTalker
  MapRight
PROPERTIES
  RepliesToMasterOnly
  EnumerationEnds
