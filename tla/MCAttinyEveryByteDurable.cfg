SPECIFICATION MCSpec
CONSTANTS
  FLASH_ERASE_SIZE = 4
  FLASH_WRITE_SIZE = 2
  FLASH_APP_OFFSET = 0
  ApplicationSize = 10
  ADDR = 16
  FLASH_SIZE = 16
  Byte <- MCByte
  ERASED = 15
  BYTE = 16
  JUMP = 8
  OPCODE = 12
  Burn <- MCBurn
  BootVector <- MCBootVector
  Images <- MCImages
  MaxData = 2
  MaxErase = 1
INVARIANTS
  EveryByteDurable
