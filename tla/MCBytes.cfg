SPECIFICATION BytesSpec
CONSTANTS
  MessageSize = {3, 5}
  MaxRead = 8
  MaxMessages = 3
  MaxBytes = 6
  MaxChunk = 3
  Plain <- MCPlain
  Names <- MCNames
  Backslash = "backslash"
  Delimiter = "delimiter"
  Newline = "newline"
  MaxPiece = 5
  MaxOctets = 4
  MCOctet = {0, 3, 77, 128, 255}
INVARIANTS
  FramingTypeOK
  InFrame
  CleanedUp
  IndexInOrder
  RowsReadBack
  FindsRow
  EncodedDecodes
PROPERTIES
  BytesInOrder
  WholeMessagesInOrder
  AllHandled
CHECK_DEADLOCK FALSE
