\* Two clients and their children, all of which inject errors.
SPECIFICATION FairSpec
CONSTANTS
  c1 = c1
  c2 = c2
  c3 = c3
  NoFile = NoFile
  NoClient = NoClient
  Clients = {c1, c2}
  Blocks <- FileSizes
  windowSize = 1
  FlippedSizes = {0}
  Faulty = {c1, c2}
  ServerFaulty = TRUE
  LastPidCount = 1
INVARIANTS
  KeepsToItsClient
  AcksFollowData
  FirstPacketIsForeign
PROPERTIES
  ClientsEnd
  ChildrenEndOrHang
