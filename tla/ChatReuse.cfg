\* Three clients on two descriptors, registrations with leftover bytes or without; the
\* first may be killed.
SPECIFICATION Spec
CONSTANTS
  c1 = c1
  c2 = c2
  c3 = c3
  a = a
  b = b
  g = g
  text = text
  NULL = NULL
  NoClient = NoClient
  Strings <- AllStrings
  mainServerSocket = 3
  Modulus = 65536
  POLL_SET_SIZE = 4
  Clients = {c1, c2, c3}
  HandleOf <- ThreeHandles
  StaleStrings = {a}
  Registrations = {"clean", "stale"}
  Lines <- OneOrBoth
  MaxLines = 1
  MayQuit = {c1}
  MayGoDeaf = {}
  ClientFds = {4, 5}
  Capacity = 8
INVARIANTS
  TypeOK
  WatchedAreOpen
  MisdeliveredOnlyAfterDeparture
  RegisteredIsReachable
