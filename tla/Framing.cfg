\* Two senders: one may be killed, reset or stopped, the other only stays.
SPECIFICATION FairSpec
CONSTANTS
  Senders = {1, 2}
  Payloads <- MCPayloads
  UInt8 = 4
  BufferSize = 4
  Capacity = 3
  MaxSent = 2
  MayDie = {1}
  Stopped = {1}
CHECK_DEADLOCK FALSE
INVARIANTS
  AliveIsNotClosed
PROPERTIES
  ImplementsPduQueue
  OnlyStoppedOrBusyHoldUp
