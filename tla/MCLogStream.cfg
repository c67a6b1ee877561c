\* Three calls that may overlap; all of them may be over.
CONSTANTS
  RPC = {r1, r2, r3}
  Line <- MCLine
  MaxLines = 2
CHECK_DEADLOCK FALSE
SPECIFICATION LogSpec
INVARIANTS
  WrongCallbackForOverlappedOnly
  ClientSeesItsRun
