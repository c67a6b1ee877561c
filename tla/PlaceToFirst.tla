----------------------------- MODULE PlaceToFirst -----------------------------
(***************************************************************************)
(* The update_world() callback (core/world.cpp): the server schedulers,    *)
(* which only log, then custom::FirstAvailableScheduler, which sends every *)
(* pending VM to the first server of the first data center, whatever the   *)
(* state of that server.                                                   *)
(***************************************************************************)
EXTENDS Server, SequencesExt

CONSTANT FirstServer  \* GetServers()[0] of the data center GetDataCenters()[0]

ASSUME FirstServerAssumption == FirstServer \in Servers

(* A faulty variant of UpdateSchedule: the server is not told. *)
UpdateScheduleStorageOnly(order) ==
  Reverse([i \in DOMAIN order |-> VMStorageEvent("kVMScheduled", order[i])])

(* UpdateSchedule() with the VMs of pending visited in the order of order: *)
(* each kVMScheduled goes to the head of the deque, so the last one comes  *)
(* first, and each kProvisionVM to its end.                                *)
UpdateSchedule(order) ==
  Reverse([i \in DOMAIN order |-> VMStorageEvent("kVMScheduled", order[i])])
    \o [i \in DOMAIN order |-> ServerEvent(FirstServer, "kProvisionVM", order[i])]

(* The deques update_world() may leave at the end of a step: it sees the   *)
(* storage as the step leaves it, and iterates over an unordered map.      *)
UpdateWorld == {UpdateSchedule(order) : order \in SetToSeqs(Pending')}

=============================================================================
