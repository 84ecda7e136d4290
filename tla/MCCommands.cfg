SPECIFICATION Spec
CONSTANTS
  Boards = {"interfaceboard", "gphopper"}
  MAX_PACKET_LENGTH = 10
  BYTE = 18
  Arguments <- MCArguments
  Flashes <- MCFlashes
  FLASH_APP_OFFSET <- MCFLASH_APP_OFFSET
  ApplicationSize <- MCApplicationSize
  BOARD_INFO = 310
  BOARD_INFO_SIZE = 6
  FLASH_ERASE_SIZE = 2
  WriteErrors = {3}
  MaxErase = 1
  MaxErased = 2
  SerialNumber <- MCSerialNumber
INVARIANTS
  CommandsTypeOK
  AnswersAsPromised
