\* Boot, create, provision, stop: one command at a time.
CONSTANTS
  cloud = cloud
  dc = dc
  s1 = s1
  v1 = v1
  v2 = v2
  Storage = storage
  NoActor = nobody
  VM = {v1, v2}
  Resource <- MCResource
  Components <- MCComponents
  StartupDelay <- MCNoDelay
  ShutdownDelay <- MCNoDelay
  StartDelay = 0
  RestartDelay = 0
  StopDelay = 0
  DeleteDelay = 0
  Servers = {s1}
  FirstServer = s1
  Requests <- MCSensible
  MaxCalls = 4
  MaxBatch = 1
SPECIFICATION WorldSafetySpec
INVARIANTS
  StoppedHasLeftServer
\* The clients may stop sending commands.
CHECK_DEADLOCK FALSE
