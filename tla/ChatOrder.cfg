\* Two clients, two lines each: a text in two parts, a broadcast whose text the server
\* reads as a recipient, lists.
SPECIFICATION Spec
CONSTANTS
  c1 = c1
  c2 = c2
  c3 = c3
  a = a
  b = b
  g = g
  text = text
  NULL = NULL
  NoClient = NoClient
  Strings <- AllStrings
  mainServerSocket = 3
  Modulus = 65536
  POLL_SET_SIZE = 4
  Clients = {c1, c2}
  HandleOf <- TwoHandles
  StaleStrings = {}
  Registrations = {"clean"}
  Lines <- LongAndList
  MaxLines = 2
  MayQuit = {}
  MayGoDeaf = {}
  ClientFds = {4, 5}
  Capacity = 8
INVARIANTS
  SenderOrder
  ListsAreWhole
PROPERTIES
  ServerExitHasCause
