\* Three threads whose calls of Make interleave freely.
CONSTANTS
  NoName = none
  Thread = {t1, t2, t3}
  Name = {n1, n2}
  Modulus = 8
  MaxCalls = 4
SPECIFICATION RegisterSpec
INVARIANTS
  NamesLeadToActors
  HarmNeedsOverlap
PROPERTIES
  DirectoryKept
\* The clients may stop sending calls.
CHECK_DEADLOCK FALSE
