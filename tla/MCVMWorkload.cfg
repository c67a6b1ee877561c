\* Words of three bits: an int ends at 3, a uint32_t at 7.  Two VMs have a
\* constant workload, one of them the one that is requested, and one a
\* random one.
CONSTANTS
  IMax = 3
  Number <- NearLimits
  VM = {v1, v2, v3}
  Requested = v1
  Ram = 4
  MaxDemand = 3
  Constant = {v1, v2}
CHECK_DEADLOCK FALSE
SPECIFICATION WorkloadSpec
INVARIANTS
  CreatedAsTyped
  NameBurntExactlyWhen
  ShareTypeOK
  RamIsShared
  NoneTurnedDownInVain
  TypedIsTaken
