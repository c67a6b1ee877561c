\* Two clients and up to two lost connections.  All clients may have left.
CONSTANTS
  Client = {c1, c2}
  MaxLost = 2
  MaxWait = 5
CHECK_DEADLOCK FALSE
SPECIFICATION ConsoleSpec
INVARIANTS
  BatchIsBounded
PROPERTIES
  AcceptedIsSimulated
