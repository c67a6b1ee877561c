--------------------------------- MODULE World ---------------------------------
(***************************************************************************)
(* The whole simulator: the resources, the VMs, the VM storage and the     *)
(* scheduler on one event queue, driven by the RPCs clients send           *)
(* (core/world.cpp, core/rpc-service.cpp).                                 *)
(*                                                                         *)
(* A request [op |-> o, name |-> n] is an RPC a client may send.  An RPC   *)
(* whose name is not registered, a VM whose name is taken, an unknown      *)
(* action and the unimplemented VM reboot are answered with an error and   *)
(* change nothing that later calls can see: they are no steps here.        *)
(***************************************************************************)
EXTENDS PlaceToFirst, Session, FiniteSets

CONSTANT Requests  \* the RPCs clients may send

Operation == ResourceCommand \cup
  {"CreateVM", "CreateVMFails", "ProvisionVM", "kStop", "kDelete"}

ASSUME WorldAssumption ==
  /\ \A request \in Requests :
       /\ request.op \in Operation
       /\ request.op \in {"CreateVM", "CreateVMFails"} => request.name \in VM
       /\ request.name \in Resource \cup VM \cup {Storage}
  /\ NoActor \notin Resource \cup VM \cup {Storage}
  /\ Storage \notin Resource \cup VM
  /\ Resource \cap VM = {}

worldVars == <<queue, now, power, hosted, crashed, vmState, storageHandle, owner, vms, storageState,
               simulating, calls, batch>>

actorVars == <<power, serverVars, vmVars, storageVars>>

WorldInit ==
  /\ EvInit /\ PowerInit /\ ServerInit /\ VMInit /\ StorageInit /\ SessionInit

-----------------------------------------------------------------------------
(* ActorRegister: the names the register resolves. *)
Registered == Resource \cup {Storage} \cup DOMAIN vmState

Request(op, name) == [op |-> op, name |-> name] \in Requests

(* Any registered name is accepted, whatever kind of actor has it. *)
DoResourceAction(type, n) ==
  /\ Request(type, n)
  /\ n \in Registered
  /\ Submit(ResourceEvent(n, type), FALSE)
  /\ UNCHANGED actorVars

(* A faulty variant of CreateVM: a taken name is not refused. *)
CreateVMAgain(v) ==
  /\ Request("CreateVM", v)
  /\ MakeVM(v, Storage)
  /\ Submit(VMStorageEvent("kVMCreated", v), FALSE)
  /\ UNCHANGED <<power, serverVars, storageVars>>

CreateVM(v) ==
  /\ Request("CreateVM", v)
  /\ v \notin Registered
  /\ MakeVM(v, Storage)
  /\ Submit(VMStorageEvent("kVMCreated", v), FALSE)
  /\ UNCHANGED <<power, serverVars, storageVars>>

(* A faulty variant of CreateVMFails: the storage is told before the       *)
(* workload model is set up.                                               *)
CreateVMFailsLate(v) ==
  /\ Request("CreateVMFails", v)
  /\ v \notin Registered
  /\ MakeVM(v, NoActor)
  /\ Submit(VMStorageEvent("kVMCreated", v), FALSE)
  /\ UNCHANGED <<power, serverVars, storageVars>>

(* The workload model is unknown or refuses its parameters: the client is  *)
(* answered with an error, but the VM is registered already.               *)
CreateVMFails(v) ==
  /\ Request("CreateVMFails", v)
  /\ v \notin Registered
  /\ Refuse
  /\ MakeVM(v, NoActor)
  /\ UNCHANGED <<power, serverVars, storageVars>>

(* The request goes to the head of the queue. *)
DoProvisionVM(n) ==
  /\ Request("ProvisionVM", n)
  /\ n \in Registered
  /\ Submit(VMStorageEvent("kVMProvisionRequested", n), TRUE)
  /\ UNCHANGED actorVars

(* DoStopVM and DoDeleteVM. *)
DoVMAction(type, n) ==
  /\ Request(type, n)
  /\ n \in Registered
  /\ Submit(VMEvent(n, type), FALSE)
  /\ UNCHANGED actorVars

ClientCall ==
  \/ \E n \in Resource \cup VM \cup {Storage} :
       \/ \E type \in ResourceCommand : DoResourceAction(type, n)
       \/ DoProvisionVM(n)
       \/ \E type \in {"kStop", "kDelete"} : DoVMAction(type, n)
  \/ \E v \in VM : CreateVM(v) \/ CreateVMFails(v)

-----------------------------------------------------------------------------
(* The addressee of the event is looked up and handles it. *)
ResourceStep(t, updates) ==
  /\ UNCHANGED <<storageVars, vmVars, serverVars>>
  /\ \E r \in Resource :
       \/ HandleResourceEvent(r, t, updates)
       \/ ResourceInvalidEvent(r, t, updates)

ServerStep(t, updates) ==
  /\ UNCHANGED <<storageVars, vmVars>>
  /\ \E s \in Servers, v \in VM :
       ProvisionVM(s, v, t, updates) \/ UnprovisionVM(s, v, t, updates)

VMStep(t, updates) ==
  /\ UNCHANGED <<storageVars, power, serverVars>>
  /\ \E v \in DOMAIN vmState : HandleVMEvent(v, t, updates)

StorageStep(t, updates) ==
  /\ UNCHANGED <<power, serverVars, vmVars>>
  /\ \/ InFailedState(t, updates)
     \/ StorageInvalidEvent(t, updates)
     \/ \E n \in Registered : HandleVMStorageEvent(n, t, updates)

(* An addressee that is not registered: actors_.at() throws, and the step  *)
(* goes on as if the event had been handled.                               *)
NobodyStep(t, updates) ==
  /\ UNCHANGED actorVars
  /\ IsNext(t)
  /\ NextEvent(t).to = NoActor
  /\ EndOfStep(t, t, << >>, updates)

(* updates: what update_world() may schedule when the deque is left empty. *)
SimulateNextStep(updates) ==
  /\ Running
  /\ \E t \in DOMAIN queue :
       \/ ResourceStep(t, updates)
       \/ ServerStep(t, updates)
       \/ VMStep(t, updates)
       \/ StorageStep(t, updates)
       \/ NobodyStep(t, updates)

WorldNext ==
  /\ ~crashed
  /\ \/ ClientCall
     \/ SimulateAll /\ UNCHANGED actorVars
     \/ SimulateNextStep(UpdateWorld)
     \/ SimulateAllReturns /\ UNCHANGED actorVars

WorldSafetySpec == WorldInit /\ [][WorldNext]_worldVars

(* As in ResourceTree: only the clients' commands may stay out for ever. *)
WorldFairness ==
  /\ WF_worldVars(SimulateAll /\ UNCHANGED actorVars)
  /\ WF_worldVars(SimulateNextStep(UpdateWorld))
  /\ WF_worldVars(SimulateAllReturns /\ UNCHANGED actorVars)

WorldSpec == WorldSafetySpec /\ WorldFairness

-----------------------------------------------------------------------------
Named == Resource \cup VM \cup {Storage}

WorldEvent ==
  [to : Named, type : ResourceEventType \cup VMEventType]
    \cup [to : VM, type : {"kStart"}, server : Servers]
    \cup [to : Servers, type : {"kProvisionVM"}, vm : VM]
    \cup [to : {NoActor}, type : {"kVMHosted", "kVMDeleted"}, vm : VM]
    \cup [to : Servers \cup {NoActor}, type : {"kUnprovisionVM"}, vm : VM,
           notificator : {<< >>} \cup {<<VMStorageEvent("kVMStopped", v)>> : v \in VM}]
    \cup [to : {Storage}, type : VMStorageEventType, vm : Named]

(* Every actor keeps to its states, every deque is nonempty and holds      *)
(* events one of the senders makes, for actors that are registered.        *)
WorldTypeOK ==
  /\ PowerTypeOK /\ ServerTypeOK /\ VMTypeOK /\ StorageTypeOK /\ SessionTypeOK
  /\ QueueTypeOK(WorldEvent)
  /\ \A t \in DOMAIN queue : \A i \in 1..Len(queue[t]) :
       queue[t][i].to \in Registered \cup {NoActor}

(* A VM the storage calls hosted, and a VM that starts or runs, is in the  *)
(* set of the server the scheduler chose (Server::ProvisionVM precedes     *)
(* VM::Start precedes VMStorage::MoveToHosted), whatever fails meanwhile.  *)
HostedIsPlaced ==
  \A v \in VM :
    \/ v \in DOMAIN vms /\ vms[v] = "kHostedVM"
    \/ v \in DOMAIN vmState /\ vmState[v] \in {"kStarting", "kRunning", "kStopping"}
    => v \in hosted[FirstServer]

(* The server schedulers ask every hosted VM for its workload (greedy.h,   *)
(* VM::GetWorkload) without a look at whether its creation was completed:  *)
(* CreateVM sets the workload model together with the storage handle, and  *)
(* no VM whose creation failed halfway reaches a server.                   *)
HostedHasWorkload ==
  \A s \in Servers : \A v \in hosted[s] : v \in DOMAIN vmState /\ storageHandle[v] = Storage

(* Server::UnprovisionVM would dereference the notificator no event has:   *)
(* it is never reached with a VM it hosts, because no VM gets an owner.    *)
NeverCrashes == ~crashed

(* The events under way that place v on a server and start it. *)
Placements(v) ==
  {p \in UNION {{t} \X (1..Len(queue[t])) : t \in DOMAIN queue} :
     LET e == queue[p[1]][p[2]]
     IN  \/ e \in [to : {v}, type : {"kStart"}, server : Servers]
         \/ e \in [to : Servers, type : {"kProvisionVM"}, vm : {v}]}

(* While the storage works, update_world() places a VM once: at most one   *)
(* placement is under way, and the storage knows of it, although           *)
(* UpdateSchedule() visits every pending VM each time the deque empties.   *)
PlacedOnce ==
  storageState = "kOk" =>
    \A v \in VM :
      /\ Cardinality(Placements(v)) <= 1
      /\ Placements(v) # {} => v \in DOMAIN vms /\ vms[v] \in {"kPending", "kProvisioning"}

(* When SimulateAll has returned and the storage works, storage, VMs and   *)
(* server agree: nothing is left pending, every running VM is on the       *)
(* storage's books as hosted, no VM is halfway into or out of running, a   *)
(* VM being deleted has left the books, and a VM whose placement came to   *)
(* nothing, left kProvisioning for good, takes up no room on the server.   *)
Settled ==
  (~simulating /\ queue = << >> /\ storageState = "kOk") =>
    /\ Pending = {}
    /\ \A v \in DOMAIN vmState :
         /\ vmState[v] \notin {"kStarting", "kStopping"}
         /\ vmState[v] = "kRunning" => v \in DOMAIN vms /\ vms[v] = "kHostedVM"
         /\ vmState[v] = "kDeleting" => v \notin DOMAIN vms
         /\ vmState[v] = "kProvisioning" => v \notin hosted[FirstServer]

(* How far the books are with v: what the storage has written of it, or    *)
(* whether a report of its creation is still under way.                    *)
StageOnBooks(v) ==
  IF v \notin DOMAIN vmState THEN "absent"
  ELSE IF v \in DOMAIN vms THEN vms[v]
  ELSE IF Queued(VMStorageEvent("kVMCreated", v)) THEN "announced"
  ELSE "gone"

(* The scheduler's and the VMs' own messages about placing never make the  *)
(* storage fail.  What does is addressed to it: a provision request for a  *)
(* name it does not list, a report that a VM was deleted whose deletion    *)
(* it has already entered, or a command meant for another kind of actor.   *)
StorageFailureCause ==
  [][storageState # storageState' =>
       /\ storageState' = "kFailure"
       /\ \E t \in DOMAIN queue :
            /\ IsNext(t)
            /\ NextEvent(t).to = Storage
            /\ LET e == NextEvent(t)
               IN  \/ e.type = "kVMProvisionRequested" /\ e.vm \notin DOMAIN vms
                   \/ e.type = "kVMDeleted" /\ StageOnBooks(e.vm) = "gone"
                   \/ e.type \in ResourceCommand \cup {"kStop", "kDelete"}]_worldVars

(* The order in which a VM takes its statuses. *)
Rank == [kCreated |-> 1, kPending |-> 2, kProvisioning |-> 3, kHostedVM |-> 4]

(* A VM's status only moves forward one status at a time, created to       *)
(* pending to provisioning to hosted, until the VM is deleted, although    *)
(* MoveToProvisioning and MoveToHosted write it without a look at the old  *)
(* one.  LedgerKept says so too, and more.                                 *)
StatusMovesForward ==
  [][\A v \in DOMAIN vms \cap DOMAIN vms' :
       vms'[v] = vms[v] \/ Rank[vms'[v]] = Rank[vms[v]] + 1]_worldVars

(* While the storage works, being placed and started never fails a VM:     *)
(* kStart comes once and finds the VM in kProvisioning, kStartCompleted    *)
(* finds it in kStarting (vm.cpp FAIL_ON_STATE_MISMATCH), or the VM has    *)
(* failed before: it may then be on its way out already, since a failed VM *)
(* can be deleted (vm.cpp Delete) while it still waits to be placed.       *)
PlacementNeverFailsVM ==
  [][\A t \in DOMAIN queue, v \in DOMAIN vmState :
       /\ storageState = "kOk"
       /\ IsNext(t)
       /\ NextEvent(t).type \in {"kStart", "kStartCompleted"}
       /\ vmState[v] \notin {"kDeleting", "kFailure"}
       => vmState'[v] # "kFailure"]_worldVars

Promise == INSTANCE Ledger WITH
  stage <- [v \in VM |-> StageOnBooks(v)],
  listed <- hosted[FirstServer],
  working <- storageState = "kOk"

(* Seen from outside, the storage and the server are the ledger they       *)
(* promise, whatever clients send and however the messages of the          *)
(* scheduler, the server and the VMs wait for each other: a VM takes its   *)
(* stages one by one and never comes back, the server takes in only VMs    *)
(* that are being placed, none is called hosted that it does not list, and *)
(* a storage that has failed leaves its books as they are.                 *)
LedgerKept == Promise!LedgerSpec

(* SimulateAll returns (the queue becomes empty, although update_world()   *)
(* refills it), unless the storage fails while a VM is pending: that is    *)
(* all that can keep the loop alive.                                       *)
SimulateAllReturnsUnlessStorageFails ==
  simulating ~> (~simulating \/ (storageState = "kFailure" /\ Pending # {}))

(* A VM that became pending while its server was running is hosted in the  *)
(* end, if it was never touched before and the commands come one by one.   *)
ProvisionSucceeds ==
  \A v \in VM :
    (/\ simulating /\ batch = 1
     /\ v \in Pending /\ storageState = "kOk"
     /\ vmState[v] = "kProvisioning" /\ power[FirstServer] = "kRunning")
      ~> (v \in DOMAIN vms /\ vms[v] = "kHostedVM" /\ vmState[v] = "kRunning")

-----------------------------------------------------------------------------
(* What comments in the source say, and the program does not do. *)

(* SimulateAll runs "until the queue is empty" (event-loop.h): it gets     *)
(* there.                                                                  *)
SimulateAllReturnsInTheEnd == simulating ~> ~simulating

(* "remove VM from list of hosted VMs" (server.cpp), "kStopped, // moved   *)
(* to VM image storage" (vm.h): no server lists a VM that has stopped.     *)
StoppedHasLeftServer ==
  (~simulating /\ queue = << >>) =>
    \A v \in DOMAIN vmState, s \in Servers :
      vmState[v] = "kStopped" => v \notin hosted[s]

=============================================================================
