SPECIFICATION MCSpec
CONSTANTS
  FLASH_ERASE_SIZE = 4
  FLASH_WRITE_SIZE = 2
  FLASH_APP_OFFSET = 4
  ApplicationSize = 8
  ADDR = 12
  Byte <- MCByte
  ERASED = 15
  Images <- MCImages
  MaxData = 3
  MaxErase = 2
  HwErrors = {16}
  MaxCuts = 2
  ImageSize = 7
INVARIANTS
  InvalidMeansArrived
