SPECIFICATION CrcSpec
CONSTANTS
  Messages <- MCMessages
  Flips <- MCFlips
INVARIANTS
  RefusesDamaged
  AcceptsIntact
CHECK_DEADLOCK FALSE
