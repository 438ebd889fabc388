\* One client, nothing lost or flipped: the first child that ends takes the server along.
SPECIFICATION FairSpec
CONSTANTS
  c1 = c1
  c2 = c2
  c3 = c3
  NoFile = NoFile
  NoClient = NoClient
  Clients = {c1}
  Blocks <- FileSizes
  windowSize = 1
  FlippedSizes = {0}
  Faulty = {}
  ServerFaulty = FALSE
  LastPidCount = 1
INVARIANTS
  ServiceOutlivesTransfers
