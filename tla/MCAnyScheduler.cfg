\* Any scheduler, and VMs that take a tick to stop and to restart.
CONSTANTS
  cloud = cloud
  dc = dc
  s1 = s1
  v1 = v1
  Storage = storage
  NoActor = nobody
  VM = {v1}
  Resource <- MCResource
  Components <- MCComponents
  StartupDelay <- MCNoDelay
  ShutdownDelay <- MCNoDelay
  StartDelay = 0
  RestartDelay = 1
  StopDelay = 1
  DeleteDelay = 0
  Servers = {s1}
  FirstServer = s1
  Requests <- MCRequests
  MaxCalls = 3
  MaxBatch = 2
  Sendable <- MCSendable
  MaxEvents = 2
  MaxAhead = 1
SPECIFICATION AnySpec
INVARIANTS
  WorldTypeOK
  HostedHasWorkload
  CompletionUnderWay
\* The clients may stop sending commands.
CHECK_DEADLOCK FALSE
