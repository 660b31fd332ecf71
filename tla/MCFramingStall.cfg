SPECIFICATION FairFramingSpec
CONSTANTS
  MessageSize = {3, 5}
  MaxRead = 8
  MaxMessages = 3
PROPERTIES
  DataHandled
CHECK_DEADLOCK FALSE
