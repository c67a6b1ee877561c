----------------------------- MODULE VMLifecycle -----------------------------
(***************************************************************************)
(* infra::VM, infrastructure/vm.cpp: the states of one virtual machine.    *)
(* An event in a state its handler does not expect fails the VM            *)
(* (FAIL_ON_STATE_MISMATCH).                                               *)
(*                                                                         *)
(* No step here gives a VM an owner: IActor::SetOwner (events/actor.h) has *)
(* no caller, and Start does not look at the event's server_uuid.  World   *)
(* shows what follows.  Nor does the program send kRestart: AnyScheduler   *)
(* lets a scheduler do so.                                                 *)
(***************************************************************************)
EXTENDS VMStorage

CONSTANTS
  NoActor,                   \* UUID{0}, which no actor has
  StartDelay, RestartDelay,  \* start_delay_, restart_delay_
  StopDelay, DeleteDelay     \* stop_delay_, delete_delay_

ASSUME VMAssumption == {StartDelay, RestartDelay, StopDelay, DeleteDelay} \subseteq Nat

VARIABLES
  vmState,       \* state_ of every VM made so far
  storageHandle, \* vm_storage_handle_ of every VM made so far
  owner          \* owner_ of every VM made so far

vmVars == <<vmState, storageHandle, owner>>

VMState ==
  {"kProvisioning", "kStarting", "kRunning", "kRestarting", "kStopping", "kStopped",
   "kDeleting", "kFailure"}

VMInit ==
  /\ vmState = << >>
  /\ storageHandle = << >>
  /\ owner = << >>

VMTypeOK ==
  /\ DOMAIN vmState \subseteq VM
  /\ \A v \in DOMAIN vmState : vmState[v] \in VMState
  /\ DOMAIN storageHandle = DOMAIN vmState /\ DOMAIN owner = DOMAIN vmState
  /\ \A v \in DOMAIN vmState : storageHandle[v] \in {Storage, NoActor}

(* ActorRegister::Make<VM>: a new VM is in its default state and has no    *)
(* owner; its storage handle is set only if the rest of World::CreateVM is *)
(* reached.                                                                *)
MakeVM(v, handle) ==
  /\ owner' = [w \in DOMAIN vmState \cup {v} |-> IF w = v THEN NoActor ELSE owner[w]]
  /\ vmState' = [w \in DOMAIN vmState \cup {v} |->
                   IF w = v THEN "kProvisioning" ELSE vmState[w]]
  /\ storageHandle' = [w \in DOMAIN vmState \cup {v} |->
                         IF w = v THEN handle ELSE storageHandle[w]]

-----------------------------------------------------------------------------
VMEventType ==
  {"kStart", "kStartCompleted", "kRestart", "kRestartCompleted", "kStop", "kStopCompleted",
   "kDelete", "kDeleteCompleted"}

VMEvent(v, type) == [to |-> v, type |-> type]

(* notificator: the event to be scheduled once the VM has left the server, *)
(* or none.                                                                *)
UnprovisionEvent(server, v, notificator) ==
  [to |-> server, type |-> "kUnprovisionVM", vm |-> v, notificator |-> notificator]

(* The message a VM sends to its storage, or to nobody when it has none. *)
ReportToStorage(type, v) == [VMStorageEvent(type, v) EXCEPT !.to = storageHandle[v]]

VMReceives(v, t) == IsNext(t) /\ NextEvent(t).to = v

(* The state change of the handler for events of this type, and the events *)
(* it schedules for time at; in a state not expected the VM fails instead. *)
Transition(v, type, expected, next, at, out, t, updates) ==
  /\ VMReceives(v, t)
  /\ NextEvent(t).type = type
  /\ UNCHANGED storageHandle
  /\ \/ /\ vmState[v] \in expected
        /\ vmState' = [vmState EXCEPT ![v] = next]
        /\ EndOfStep(t, at, out, updates)
     \/ /\ vmState[v] \notin expected
        /\ vmState' = [vmState EXCEPT ![v] = "kFailure"]
        /\ EndOfStep(t, t, << >>, updates)

(* A faulty variant of Start: it makes the server of the event the owner,  *)
(* as the rest of the program seems to expect.                             *)
StartOwned(v, t, updates) ==
  /\ Transition(v, "kStart", {"kProvisioning"}, "kStarting",
                t + StartDelay, <<VMEvent(v, "kStartCompleted")>>, t, updates)
  /\ owner' = [owner EXCEPT ![v] = NextEvent(t).server]

Start(v, t, updates) ==
  /\ Transition(v, "kStart", {"kProvisioning"}, "kStarting",
                t + StartDelay, <<VMEvent(v, "kStartCompleted")>>, t, updates)
  /\ UNCHANGED owner

CompleteStart(v, t, updates) ==
  /\ Transition(v, "kStartCompleted", {"kStarting"}, "kRunning",
                t, <<ReportToStorage("kVMHosted", v)>>, t, updates)
  /\ UNCHANGED owner

(* A faulty variant of Restart: nothing brings the VM back. *)
RestartForGood(v, t, updates) ==
  /\ Transition(v, "kRestart", {"kRunning", "kFailure"}, "kRestarting", t, << >>, t, updates)
  /\ UNCHANGED owner

Restart(v, t, updates) ==
  /\ Transition(v, "kRestart", {"kRunning", "kFailure"}, "kRestarting",
                t + RestartDelay, <<VMEvent(v, "kRestartCompleted")>>, t, updates)
  /\ UNCHANGED owner

CompleteRestart(v, t, updates) ==
  /\ Transition(v, "kRestartCompleted", {"kRestarting"}, "kRunning", t, << >>, t, updates)
  /\ UNCHANGED owner

Stop(v, t, updates) ==
  /\ Transition(v, "kStop", {"kRunning"}, "kStopping",
                t + StopDelay, <<VMEvent(v, "kStopCompleted")>>, t, updates)
  /\ UNCHANGED owner

(* The owner is told, be it nobody, and then forgotten. *)
CompleteStop(v, t, updates) ==
  /\ Transition(v, "kStopCompleted", {"kStopping"}, "kStopped",
                t, <<UnprovisionEvent(owner[v], v, << >>)>>, t, updates)
  /\ owner' = IF vmState[v] = "kStopping" THEN [owner EXCEPT ![v] = NoActor] ELSE owner

Delete(v, t, updates) ==
  /\ Transition(v, "kDelete", {"kRunning", "kStopped", "kFailure"}, "kDeleting",
                t + DeleteDelay, <<VMEvent(v, "kDeleteCompleted")>>, t, updates)
  /\ UNCHANGED owner

(* A VM with an owner leaves it to the owner to tell the storage. *)
CompleteDelete(v, t, updates) ==
  /\ Transition(v, "kDeleteCompleted", {"kDeleting"}, "kDeleting",
                t, <<IF owner[v] # NoActor THEN UnprovisionEvent(owner[v], v, << >>)
                     ELSE ReportToStorage("kVMDeleted", v)>>, t, updates)
  /\ UNCHANGED owner

(* Not a VMEvent: a resource command addressed to a VM. *)
VMInvalidEvent(v, t, updates) ==
  /\ VMReceives(v, t)
  /\ NextEvent(t).type \notin VMEventType
  /\ vmState' = [vmState EXCEPT ![v] = "kFailure"]
  /\ UNCHANGED <<storageHandle, owner>>
  /\ EndOfStep(t, t, << >>, updates)

HandleVMEvent(v, t, updates) ==
  \/ Start(v, t, updates)
  \/ CompleteStart(v, t, updates)
  \/ Restart(v, t, updates)
  \/ CompleteRestart(v, t, updates)
  \/ Stop(v, t, updates)
  \/ CompleteStop(v, t, updates)
  \/ Delete(v, t, updates)
  \/ CompleteDelete(v, t, updates)
  \/ VMInvalidEvent(v, t, updates)

=============================================================================
