\* Every capture of up to two of the frames.
SPECIFICATION TraceSpec
CONSTANTS
  Frames <- MCFrames
  MaxPackets = 2
CHECK_DEADLOCK FALSE
INVARIANTS
  ReportsWhatWasSent
  ChecksumsRight
