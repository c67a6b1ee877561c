-------------------------------- MODULE Server --------------------------------
(***************************************************************************)
(* infra::Server, infrastructure/server.cpp: a resource that also hosts    *)
(* virtual machines.                                                       *)
(***************************************************************************)
EXTENDS Resource, VMLifecycle

CONSTANT Servers  \* the resources that are servers

ASSUME ServerAssumption == Servers \subseteq Resource

VARIABLES
  hosted,  \* virtual_machines_ of every server
  crashed  \* the program has dereferenced a null pointer

serverVars == <<hosted, crashed>>

ServerInit ==
  /\ hosted = [s \in Servers |-> {}]
  /\ crashed = FALSE

ServerTypeOK ==
  /\ hosted \in [Servers -> SUBSET VM]
  /\ crashed \in BOOLEAN
  /\ \A v \in DOMAIN owner : owner[v] \in Servers \cup {NoActor}

ServerEvent(s, type, v) == [to |-> s, type |-> type, vm |-> v]

StartEvent(v, s) == [to |-> v, type |-> "kStart", server |-> s]

-----------------------------------------------------------------------------
(* A faulty variant of ProvisionVM: the VM is started but not listed. *)
ProvisionVMUnlisted(s, v, t, updates) ==
  /\ IsNext(t)
  /\ NextEvent(t) = ServerEvent(s, "kProvisionVM", v)
  /\ UNCHANGED <<power, serverVars>>
  /\ EndOfStep(t, t, <<StartEvent(v, s)>>, updates)

(* The VM joins the server's set and is started; a server that is not      *)
(* running fails instead, and forgets the VM.                              *)
ProvisionVM(s, v, t, updates) ==
  /\ IsNext(t)
  /\ NextEvent(t) = ServerEvent(s, "kProvisionVM", v)
  /\ UNCHANGED crashed
  /\ \/ /\ power[s] = "kRunning"
        /\ hosted' = [hosted EXCEPT ![s] = @ \cup {v}]
        /\ UNCHANGED power
        /\ EndOfStep(t, t, <<StartEvent(v, s)>>, updates)
     \/ /\ power[s] # "kRunning"
        /\ SetPowerState(s, "kFailure")
        /\ UNCHANGED hosted
        /\ EndOfStep(t, t, << >>, updates)

(* The VM leaves the set, and the event's notificator is scheduled without *)
(* a look at whether there is one.                                         *)
UnprovisionVM(s, v, t, updates) ==
  /\ IsNext(t)
  /\ NextEvent(t).type = "kUnprovisionVM"
  /\ NextEvent(t).to = s /\ NextEvent(t).vm = v
  /\ \/ /\ power[s] # "kRunning"
        /\ SetPowerState(s, "kFailure")
        /\ UNCHANGED serverVars
        /\ EndOfStep(t, t, << >>, updates)
     \/ /\ power[s] = "kRunning"
        /\ v \notin hosted[s]
        /\ UNCHANGED <<power, serverVars>>
        /\ EndOfStep(t, t, << >>, updates)
     \/ /\ power[s] = "kRunning"
        /\ v \in hosted[s]
        /\ hosted' = [hosted EXCEPT ![s] = @ \ {v}]
        /\ UNCHANGED power
        /\ \/ /\ NextEvent(t).notificator = << >>
              /\ crashed' = TRUE
              /\ UNCHANGED evVars
           \/ /\ NextEvent(t).notificator # << >>
              /\ UNCHANGED crashed
              /\ EndOfStep(t, t, NextEvent(t).notificator, updates)

(* IResource::HandleEvent only logs what is not a ResourceEvent: a command *)
(* for a VM that names a resource.                                         *)
ResourceInvalidEvent(r, t, updates) ==
  /\ IsNext(t)
  /\ NextEvent(t).to = r
  /\ NextEvent(t).type \in VMEventType
  /\ UNCHANGED power
  /\ EndOfStep(t, t, << >>, updates)

=============================================================================
