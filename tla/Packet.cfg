\* Machines of either byte order, one byte flipped at most, rcopy's buffer of
\* three bytes of payload.
SPECIFICATION Spec
CONSTANTS
  None = None
  Requests <- MCRequests
  Files <- MCFiles
  Padding = {0, 255}
  NameSize = 6
  MAXBUF = 10
  Others <- MCOthers
  MaxFlips = 1
  MaxOthers = 2
CHECK_DEADLOCK FALSE
INVARIANTS
  ChecksumRight
  ChecksTell
  EndsAgree
