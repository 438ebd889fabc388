\* Connections that buffer one PDU; the first client may be killed,
\* and the second's input may stay ready for good. A server stuck in a send stops
\* the system.
SPECIFICATION FairSpec
CONSTANTS
  c1 = c1
  c2 = c2
  c3 = c3
  a = a
  b = b
  g = g
  text = text
  NULL = NULL
  NoClient = NoClient
  Strings <- AllStrings
  mainServerSocket = 3
  Modulus = 65536
  POLL_SET_SIZE = 4
  Clients = {c1, c2}
  HandleOf <- TwoHandles
  StaleStrings = {g}
  Registrations = {"empty", "clean"}
  Lines <- LiveTalk
  MaxLines = 1
  MayQuit = {c1}
  MayGoDeaf = {c2}
  ClientFds = {4, 5}
  Capacity = 1
CHECK_DEADLOCK FALSE
INVARIANTS
  TerminatedOnlyUnregistered
PROPERTIES
  ClientsLearnOfExit
  OnlyClientsHoldUp
