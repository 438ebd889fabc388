\* Three client descriptors; the array starts with 4 elements and grows; standard input may hang up.
SPECIFICATION FairSpec
CONSTANTS
  Fds = {3, 4, 5, 6}
  POLL_SET_SIZE = 4
  mainServerSocket = 3
INVARIANTS
  ArrayConsistent
  OnlyOpenHandled
PROPERTIES
  ImplementsWatchSet
  SpinsAfterHangUp
  StarvedOnlyByLower
