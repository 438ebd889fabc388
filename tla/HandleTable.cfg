\* Terminated and unterminated handles, two sockets, two growths of the array.
SPECIFICATION Spec
CONSTANTS
  a = a
  b = b
  c = c
  d = d
  NULL = NULL
  Strings = {a, b, c, d}
  Readings <- MCReadings
  Sockets = {4, 5}
  Modulus = 16
  MaxEntries = 6
INVARIANTS
  EntriesInBounds
  NamesUnique
  ListedNameRoutesBack
PROPERTIES
  ImplementsDirectory
  HandleOfSocketStable
