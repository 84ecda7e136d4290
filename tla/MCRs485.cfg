SPECIFICATION Spec
CONSTANTS
  MAX_PACKET_LENGTH = 4
  Frames <- MCFrames
  MyAddresses = {0, 1}
  MaxUnheard = 1
  ReplyLengths = {0, 4}
INVARIANTS
  Rs485TypeOK
  Heard
  ReadyAfterSilence
PROPERTIES
  OneFrame
  DeliveredAsSent
