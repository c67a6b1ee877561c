\* Up to three commands per SimulateAll, four in all: every overlap of
\* transitions, begun in every state an earlier command can lead to.
CONSTANTS
  cloud = cloud
  dc = dc
  s1 = s1
  s2 = s2
  Resource <- MCResource
  Components <- MCComponents
  StartupDelay <- MCNoDelay
  ShutdownDelay <- MCNoDelay
  MaxCalls = 4
  MaxBatch = 3
SPECIFICATION TreeSpec
INVARIANTS
  TreeTypeOK
  TransitionScheduled
PROPERTIES
  FailsOnlyInBatch
  CommandsReachComponents
\* The clients may stop sending commands.
CHECK_DEADLOCK FALSE
