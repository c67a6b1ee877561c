----------------------------- MODULE MCAnyScheduler -----------------------------
(* A cloud of one data center with one server, and one VM. *)
EXTENDS AnyScheduler, TLC

CONSTANTS cloud, dc, s1, v1

MCResource == {cloud, dc, s1}

MCComponents == (cloud :> <<dc>>) @@ (dc :> <<s1>>) @@ (s1 :> << >>)

MCNoDelay == [r \in MCResource |-> 0]

MCRequests ==
  [op : {"kBoot", "kStop", "ProvisionVM"}, name : {s1, v1, Storage}]
    \cup [op : {"CreateVM", "CreateVMFails"}, name : {v1}]

(* Everything about the VM and to it, and power commands to its server. *)
MCSendable ==
  [to : {v1}, type : VMEventType]
    \cup [to : {Storage}, type : VMStorageEventType, vm : {v1}]
    \cup {ServerEvent(s1, "kProvisionVM", v1), ResourceEvent(s1, "kBoot"),
          ResourceEvent(s1, "kShutdown"),
          UnprovisionEvent(s1, v1, << >>),
          UnprovisionEvent(s1, v1, <<VMStorageEvent("kVMStopped", v1)>>)}

=============================================================================
