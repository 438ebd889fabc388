\* Three lines typed at a terminal or written to a pipe, a PDU from the server.
SPECIFICATION FairSpec
CONSTANTS
  Warned = Warned
  EndOfFile = EndOfFile
  myHandle <- Handle
  Lines <- MCLines
  BufferSize = 10
  PartLimit = 9
  HandleSize = 3
  UInt8 = 16
  Inputs = {"terminal", "pipe"}
  MaxTyped = 3
  MaxPDUs = 1
CHECK_DEADLOCK FALSE
INVARIANTS
  LinesInOrder
  PartsCarryTheText
PROPERTIES
  TypedIsProcessed
  DeafAfterEnd
