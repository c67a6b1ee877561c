\* Up to three commands per SimulateAll, as several clients send them; a deletion
\* takes a tick, so that a placement may overtake it.
CONSTANTS
  cloud = cloud
  dc = dc
  s1 = s1
  v1 = v1
  v2 = v2
  Storage = storage
  NoActor = nobody
  VM = {v1, v2}
  Resource <- MCResource
  Components <- MCComponents
  StartupDelay <- MCNoDelay
  ShutdownDelay <- MCNoDelay
  StartDelay = 0
  RestartDelay = 0
  StopDelay = 0
  DeleteDelay = 1
  Servers = {s1}
  FirstServer = s1
  Requests <- MCBatch
  MaxCalls = 6
  MaxBatch = 3
SPECIFICATION WorldSpec
INVARIANTS
  HostedIsPlaced
  NeverCrashes
  PlacedOnce
  Settled
PROPERTIES
  PlacementNeverFailsVM
  StorageFailureCause
  LedgerKept
  SimulateAllReturnsUnlessStorageFails
  ProvisionSucceeds
\* The clients may stop sending commands.
CHECK_DEADLOCK FALSE
