------------------------------ MODULE VMStorage ------------------------------
(***************************************************************************)
(* infra::VMStorage, infrastructure/vm-storage.cpp: the actor that knows   *)
(* the status of every VM and that the scheduler reads.  A failure is for  *)
(* good: every later event is ignored.  The program never sends            *)
(* kVMStopped: only in AnyScheduler does a VM become kStoppedVM.           *)
(***************************************************************************)
EXTENDS EventQueue

CONSTANTS
  VM,      \* the names clients give to virtual machines
  Storage  \* the storage actor, "vm-storage-1"

VARIABLES
  vms,          \* vms_: VM -> VMStatus, the VMs the storage knows
  storageState  \* state_

storageVars == <<vms, storageState>>

VMStatus == {"kCreated", "kPending", "kProvisioning", "kHostedVM", "kStoppedVM"}

StorageInit ==
  /\ vms = << >>
  /\ storageState = "kOk"

StorageTypeOK ==
  /\ DOMAIN vms \subseteq VM
  /\ \A v \in DOMAIN vms : vms[v] \in VMStatus
  /\ storageState \in {"kOk", "kFailure"}

(* A faulty variant of Pending: it takes in VMs nobody asked to provision. *)
PendingOrCreated == {v \in DOMAIN vms : vms[v] \in {"kCreated", "kPending"}}

Pending == {v \in DOMAIN vms : vms[v] = "kPending"}

-----------------------------------------------------------------------------
VMStorageEventType ==
  {"kVMCreated", "kVMProvisionRequested", "kVMScheduled", "kVMHosted", "kVMStopped",
   "kVMDeleted"}

(* The VM named in the event; a client may have named any other actor. *)
VMStorageEvent(type, v) == [to |-> Storage, type |-> type, vm |-> v]

StorageReceives(t) == IsNext(t) /\ NextEvent(t).to = Storage

(* A working storage handles an event of the given type that is about v. *)
StorageHandles(type, v, t) ==
  /\ StorageReceives(t)
  /\ storageState = "kOk"
  /\ NextEvent(t) = VMStorageEvent(type, v)

WithStatus(v, status) ==
  [w \in DOMAIN vms \cup {v} |-> IF w = v THEN status ELSE vms[w]]

(* vms_ becomes map, or the storage fails when the handler's check does. *)
UpdateOrFail(check, map) ==
  /\ vms' = IF check THEN map ELSE vms
  /\ storageState' = IF check THEN storageState ELSE "kFailure"

-----------------------------------------------------------------------------
InFailedState(t, updates) ==
  /\ StorageReceives(t)
  /\ storageState = "kFailure"
  /\ UNCHANGED storageVars
  /\ EndOfStep(t, t, << >>, updates)

(* A resource's or a VM's command addressed to the storage. *)
StorageInvalidEvent(t, updates) ==
  /\ StorageReceives(t)
  /\ storageState = "kOk"
  /\ NextEvent(t).type \notin VMStorageEventType
  /\ UpdateOrFail(FALSE, vms)
  /\ EndOfStep(t, t, << >>, updates)

AddVM(v, t, updates) ==
  /\ StorageHandles("kVMCreated", v, t)
  /\ UpdateOrFail(v \notin DOMAIN vms, WithStatus(v, "kCreated"))
  /\ EndOfStep(t, t, << >>, updates)

(* Faulty variants of the handlers that follow: any VM becomes pending;    *)
(* the new status is not written.                                          *)
MoveToPendingUnchecked(v, t, updates) ==
  /\ StorageHandles("kVMProvisionRequested", v, t)
  /\ UpdateOrFail(v \in DOMAIN vms, WithStatus(v, "kPending"))
  /\ EndOfStep(t, t, << >>, updates)

MoveToProvisioningUnwritten(v, t, updates) ==
  /\ StorageHandles("kVMScheduled", v, t)
  /\ UpdateOrFail(v \in DOMAIN vms, vms)
  /\ EndOfStep(t, t, << >>, updates)

MoveToHostedUnwritten(v, t, updates) ==
  /\ StorageHandles("kVMHosted", v, t)
  /\ UpdateOrFail(v \in DOMAIN vms, vms)
  /\ EndOfStep(t, t, << >>, updates)

(* Only a VM just created or stopped can become pending; for any other     *)
(* status the request is only logged.                                      *)
MoveToPending(v, t, updates) ==
  /\ StorageHandles("kVMProvisionRequested", v, t)
  /\ UpdateOrFail(v \in DOMAIN vms,
                  IF vms[v] \in {"kCreated", "kStoppedVM"} THEN WithStatus(v, "kPending") ELSE vms)
  /\ EndOfStep(t, t, << >>, updates)

(* kVMScheduled, kVMHosted and kVMStopped set the status whatever it was   *)
(* before.                                                                 *)
MoveToProvisioning(v, t, updates) ==
  /\ StorageHandles("kVMScheduled", v, t)
  /\ UpdateOrFail(v \in DOMAIN vms, WithStatus(v, "kProvisioning"))
  /\ EndOfStep(t, t, << >>, updates)

MoveToHosted(v, t, updates) ==
  /\ StorageHandles("kVMHosted", v, t)
  /\ UpdateOrFail(v \in DOMAIN vms, WithStatus(v, "kHostedVM"))
  /\ EndOfStep(t, t, << >>, updates)

MoveToStopped(v, t, updates) ==
  /\ StorageHandles("kVMStopped", v, t)
  /\ UpdateOrFail(v \in DOMAIN vms, WithStatus(v, "kStoppedVM"))
  /\ EndOfStep(t, t, << >>, updates)

DeleteVM(v, t, updates) ==
  /\ StorageHandles("kVMDeleted", v, t)
  /\ UpdateOrFail(v \in DOMAIN vms, [w \in DOMAIN vms \ {v} |-> vms[w]])
  /\ EndOfStep(t, t, << >>, updates)

(* v ranges over all that a client may have named. *)
HandleVMStorageEvent(v, t, updates) ==
  \/ AddVM(v, t, updates)
  \/ MoveToPending(v, t, updates)
  \/ MoveToProvisioning(v, t, updates)
  \/ MoveToHosted(v, t, updates)
  \/ MoveToStopped(v, t, updates)
  \/ DeleteVM(v, t, updates)

=============================================================================
