\* Two commands and two SimulateAlls, whose accesses interleave freely.
\* The program may stop for good when it breaks.
CONSTANTS
  Caller = {c1, c2}
  Provision = {c2}
  Simulator = {s1, s2}
  Delay = 1
CHECK_DEADLOCK FALSE
SPECIFICATION ThreadsSpec
INVARIANTS
  DamageForOverlappedOnly
PROPERTIES
  AgendaKept
  BackInTimeForOverlappedOnly
  CommandsComplete
  SimulateAllEnds
