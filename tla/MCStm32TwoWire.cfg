SPECIFICATION Spec
CONSTANTS
  MAX_PACKET_LENGTH = 2
  Addresses = {0, 15, 16}
  NewAddresses = {16}
  Bytes = {4, 6}
  Replies <- MCReplies
  MaxRead = 3
INVARIANT
  TwoWireTypeOK
PROPERTY
  ImplementsExchange
