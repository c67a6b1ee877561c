------------------------------ MODULE WorldProofs ------------------------------
(***************************************************************************)
(* The world, proved for every set of resources, servers and VMs, all      *)
(* delays and any clients.  First with any scheduler: the type invariant,  *)
(* that what a server hosts has a workload model, and that a VM in the     *)
(* middle of a transition has its completion under way.  Then with the     *)
(* program's own: what the storage calls hosted and what runs is listed by *)
(* the server, and the null notificator is never dereferenced.             *)
(***************************************************************************)
EXTENDS AnyScheduler, EventQueueProofs, FiniteSetTheorems

(* The VMs whose creation went through (World::CreateVM).                  *)
Complete == {v \in DOMAIN vmState : storageHandle[v] = Storage}

(* What may wait in the queue: an event somebody makes, for an actor that  *)
(* is registered; and what makes HostedHasWorkload inductive: the storage  *)
(* is told of complete VMs only, and so is a server.                       *)
Filed ==
  {e \in WorldEvent :
     /\ e.to \in Registered \cup {NoActor}
     /\ e.type \in {"kVMCreated", "kProvisionVM"} => e.vm \in Complete}

ActorsInv ==
  /\ PowerTypeOK /\ ServerTypeOK /\ VMTypeOK /\ StorageTypeOK
  /\ IsFiniteSet(DOMAIN vms)
  /\ DOMAIN vms \subseteq Complete
  /\ \A s \in Servers : hosted[s] \subseteq Complete

WorldInv == ActorsInv /\ SessionTypeOK /\ QueueTypeOK(Filed)

-----------------------------------------------------------------------------
(* The events the actors make may wait in the queue. *)
LEMMA CommandFiled ==
  ASSUME WorldInv, NEW n \in Registered, NEW type \in ResourceEventType \cup VMEventType
  PROVE  [to |-> n, type |-> type] \in Filed
<1> DEFINE e == [to |-> n, type |-> type]
<1>1. Registered \subseteq Named
  BY DEF WorldInv, ActorsInv, VMTypeOK, Registered, Named
<1>2. e \in [to : Named, type : ResourceEventType \cup VMEventType]
  BY <1>1
<1>3. e.to = n /\ e.type \notin {"kVMCreated", "kProvisionVM"}
  BY DEF ResourceEventType, ResourceCommand, VMEventType
<1> HIDE DEF e
<1>4. e \in WorldEvent
  BY <1>2 DEF WorldEvent
<1>5. e \in Filed
  BY <1>3, <1>4 DEF Filed
<1> QED BY <1>5 DEF e

LEMMA PlacementFiled ==
  ASSUME WorldInv, NEW v \in Complete, NEW s \in Servers
  PROVE  StartEvent(v, s) \in Filed /\ ServerEvent(s, "kProvisionVM", v) \in Filed
<1>1. v \in VM /\ v \in Registered /\ s \in Registered
  BY ServerAssumption DEF WorldInv, ActorsInv, VMTypeOK, Complete, Registered
<1>2. StartEvent(v, s) \in Filed
  <2> DEFINE e == StartEvent(v, s)
  <2>1. e \in [to : VM, type : {"kStart"}, server : Servers]
    BY <1>1 DEF StartEvent
  <2>2. e.to = v /\ e.type \notin {"kVMCreated", "kProvisionVM"}
    BY DEF StartEvent
  <2> HIDE DEF e
  <2>3. e \in Filed
    BY <1>1, <2>1, <2>2 DEF Filed, WorldEvent
  <2> QED BY <2>3 DEF e
<1>3. ServerEvent(s, "kProvisionVM", v) \in Filed
  <2> DEFINE e == ServerEvent(s, "kProvisionVM", v)
  <2>1. e \in [to : Servers, type : {"kProvisionVM"}, vm : VM]
    BY <1>1 DEF ServerEvent
  <2>2. e.to = s /\ e.vm = v
    BY DEF ServerEvent
  <2> HIDE DEF e
  <2>3. e \in Filed
    BY <1>1, <2>1, <2>2 DEF Filed, WorldEvent
  <2> QED BY <2>3 DEF e
<1> QED BY <1>2, <1>3

LEMMA StorageEventFiled ==
  ASSUME WorldInv, NEW n \in Named, NEW type \in VMStorageEventType,
         type = "kVMCreated" => n \in Complete
  PROVE  VMStorageEvent(type, n) \in Filed
<1> DEFINE e == VMStorageEvent(type, n)
<1>1. e \in [to : {Storage}, type : VMStorageEventType, vm : Named]
  BY DEF VMStorageEvent
<1>2. e.to = Storage /\ e.type = type /\ e.vm = n
  BY DEF VMStorageEvent
<1>3. type # "kProvisionVM"
  BY DEF VMStorageEventType
<1> HIDE DEF e
<1>4. e \in Filed
  BY <1>1, <1>2, <1>3 DEF Filed, WorldEvent, Registered
<1> QED BY <1>4 DEF e

LEMMA ReportFiled ==
  ASSUME WorldInv, NEW v \in DOMAIN vmState, NEW type \in {"kVMHosted", "kVMDeleted"}
  PROVE  ReportToStorage(type, v) \in Filed
<1> DEFINE e == ReportToStorage(type, v)
<1>1. e = [to |-> storageHandle[v], type |-> type, vm |-> v]
  BY DEF ReportToStorage, VMStorageEvent
<1>2. v \in VM /\ storageHandle[v] \in {Storage, NoActor}
  BY DEF WorldInv, ActorsInv, VMTypeOK
<1>3. type \in VMStorageEventType /\ type \notin {"kVMCreated", "kProvisionVM"} /\ v \in Named
  BY <1>2 DEF VMStorageEventType, Named
<1>4. \/ e \in [to : {NoActor}, type : {"kVMHosted", "kVMDeleted"}, vm : VM]
      \/ e \in [to : {Storage}, type : VMStorageEventType, vm : Named]
  BY <1>1, <1>2, <1>3
<1>5. e.to \in Registered \cup {NoActor} /\ e.type = type
  BY <1>1, <1>2 DEF Registered
<1> HIDE DEF e
<1>6. e \in Filed
  BY <1>3, <1>4, <1>5 DEF Filed, WorldEvent
<1> QED BY <1>6 DEF e

LEMMA UnprovisionFiled ==
  ASSUME WorldInv, NEW s \in Servers \cup {NoActor}, NEW v \in VM,
         NEW notificator \in {<< >>, <<VMStorageEvent("kVMStopped", v)>>}
  PROVE  UnprovisionEvent(s, v, notificator) \in Filed
<1> DEFINE N == {<< >>} \cup {<<VMStorageEvent("kVMStopped", w)>> : w \in VM}
           e == UnprovisionEvent(s, v, notificator)
<1>1. notificator \in N
  OBVIOUS
<1>2. e = [to |-> s, type |-> "kUnprovisionVM", vm |-> v, notificator |-> notificator]
  BY DEF UnprovisionEvent
<1>3. s \in Registered \cup {NoActor}
  BY ServerAssumption DEF Registered
<1> HIDE DEF N
<1>4. e \in [to : Servers \cup {NoActor}, type : {"kUnprovisionVM"}, vm : VM, notificator : N]
  BY <1>1, <1>2
<1>5. e.to = s /\ e.type = "kUnprovisionVM"
  BY <1>2
<1> HIDE DEF e
<1>6. e \in WorldEvent
  BY <1>4 DEF WorldEvent, N
<1>7. e \in Filed
  BY <1>3, <1>5, <1>6 DEF Filed
<1> QED BY <1>7 DEF e

-----------------------------------------------------------------------------
(* What every handler does to the queue: the frame of a step around events *)
(* that may wait.                                                          *)
Framed(t, updates) ==
  /\ IsNext(t)
  /\ \E at \in Nat, out \in Seq(Filed) : at >= t /\ EndOfStep(t, at, out, updates)

LEMMA FrameOf ==
  ASSUME WorldInv, NEW t \in DOMAIN queue, IsNext(t), NEW ACTION updates,
         NEW STATE at, at \in Nat, at >= t, NEW STATE out, out \in Seq(Filed),
         EndOfStep(t, at, out, updates)
  PROVE  Framed(t, updates)
BY DEF Framed

LEMMA FrameOfNothing ==
  ASSUME WorldInv, NEW t \in DOMAIN queue, IsNext(t), NEW ACTION updates,
         EndOfStep(t, t, << >>, updates)
  PROVE  Framed(t, updates)
<1>1. t \in Nat /\ t >= t /\ << >> \in Seq(Filed)
  BY DEF WorldInv, QueueTypeOK
<1> QED BY <1>1 DEF Framed

LEMMA FrameOfOne ==
  ASSUME WorldInv, NEW t \in DOMAIN queue, IsNext(t), NEW ACTION updates,
         NEW STATE at, at \in Nat, at >= t, NEW STATE e, e \in Filed,
         EndOfStep(t, at, <<e>>, updates)
  PROVE  Framed(t, updates)
<1>1. <<e>> \in Seq(Filed)
  OBVIOUS
<1> QED BY <1>1 DEF Framed

(* What a resource schedules consists of resource events.                  *)
LEMMA CascadeOf ==
  ASSUME NEW E, NEW r \in Resource, NEW command \in ResourceEventType,
         NEW finished \in ResourceEventType,
         \A n \in Resource, type \in ResourceEventType : ResourceEvent(n, type) \in E
  PROVE  Cascade(r, command, finished) \in Seq(E)
<1> DEFINE s == [i \in 1..Len(Components[r]) |-> ResourceEvent(Components[r][i], command)]
<1>1. Components[r] \in Seq(Resource)
  BY ResourceAssumption
<1>2. Len(Components[r]) \in Nat /\ \A i \in 1..Len(Components[r]) : Components[r][i] \in Resource
  BY <1>1
<1>3. s \in [1..Len(Components[r]) -> E]
  BY <1>2
<1>4. Cascade(r, command, finished) = Append(s, ResourceEvent(r, finished))
  BY DEF Cascade
<1> HIDE DEF s
<1>5. s \in Seq(E)
  BY <1>2, <1>3
<1> QED BY <1>4, <1>5

LEMMA CascadeFiled ==
  ASSUME WorldInv, NEW r \in Resource, NEW command \in ResourceEventType,
         NEW finished \in ResourceEventType
  PROVE  Cascade(r, command, finished) \in Seq(Filed)
<1>1. PICK S : S = Filed
  OBVIOUS
<1>2. \A n \in Resource, type \in ResourceEventType : ResourceEvent(n, type) \in S
  BY <1>1, CommandFiled DEF ResourceEvent, Registered
<1> QED BY <1>1, <1>2, CascadeOf

LEMMA ResourceKeeps ==
  ASSUME WorldInv, NEW t \in DOMAIN queue, NEW ACTION updates, ResourceStep(t, updates)
  PROVE  ActorsInv' /\ Framed(t, updates) /\ UNCHANGED vmVars
<1> USE DEF SetPowerState, PowerTypeOK, PowerState, Receives
<1>1. PICK r \in Resource : HandleResourceEvent(r, t, updates) \/ ResourceInvalidEvent(r, t, updates)
  BY DEF ResourceStep
<1>2. t \in Nat /\ IsNext(t) /\ PowerTypeOK
  BY <1>1 DEF HandleResourceEvent, ResourceInvalidEvent, StartBoot, BootIgnored, StartShutdown,
              ShutdownIgnored, StartReboot, CompleteBoot, CompleteShutdown,
              WorldInv, ActorsInv, QueueTypeOK
<1>3. PowerTypeOK' /\ Framed(t, updates)
  <2>1. CASE StartBoot(r, t, updates)
    <3>1. t + StartupDelay[r] \in Nat /\ t + StartupDelay[r] >= t
      BY <1>2, ResourceAssumption
    <3>2. Cascade(r, "kBoot", "kBootFinished") \in Seq(Filed)
      BY CascadeFiled DEF ResourceEventType, ResourceCommand
    <3>3. EndOfStep(t, t + StartupDelay[r], Cascade(r, "kBoot", "kBootFinished"), updates)
      BY <2>1 DEF StartBoot
    <3>4. Framed(t, updates)
      BY <1>2, <3>1, <3>2, <3>3, FrameOf
    <3> QED BY <1>2, <2>1, <3>4 DEF StartBoot
  <2>2. CASE StartShutdown(r, t, updates)
    <3>1. t + ShutdownDelay[r] \in Nat /\ t + ShutdownDelay[r] >= t
      BY <1>2, ResourceAssumption
    <3>2. Cascade(r, "kShutdown", "kShutdownFinished") \in Seq(Filed)
      BY CascadeFiled DEF ResourceEventType, ResourceCommand
    <3>3. EndOfStep(t, t + ShutdownDelay[r], Cascade(r, "kShutdown", "kShutdownFinished"), updates)
      BY <2>2 DEF StartShutdown
    <3>4. Framed(t, updates)
      BY <1>2, <3>1, <3>2, <3>3, FrameOf
    <3> QED BY <1>2, <2>2, <3>4 DEF StartShutdown
  <2>3. CASE NothingScheduled(t, updates) /\ PowerTypeOK'
    BY <1>2, <2>3, FrameOfNothing DEF NothingScheduled
  <2>4. CASE BootIgnored(r, t, updates) \/ ShutdownIgnored(r, t, updates) \/ StartReboot(r, t, updates)
    BY <1>2, <2>3, <2>4 DEF BootIgnored, ShutdownIgnored, StartReboot
  <2>5. CASE CompleteBoot(r, t, updates) \/ CompleteShutdown(r, t, updates)
    BY <1>2, <2>3, <2>5 DEF CompleteBoot, CompleteShutdown
  <2>6. CASE ResourceInvalidEvent(r, t, updates)
    BY <1>2, <2>3, <2>6 DEF ResourceInvalidEvent, NothingScheduled
  <2> QED BY <1>1, <2>1, <2>2, <2>4, <2>5, <2>6 DEF HandleResourceEvent
<1>4. UNCHANGED <<storageVars, vmVars, serverVars>>
  BY DEF ResourceStep
<1> HIDE DEF PowerTypeOK
<1> QED BY <1>3, <1>4 DEF storageVars, vmVars, serverVars, WorldInv, ActorsInv, ServerTypeOK,
                          VMTypeOK, StorageTypeOK, Complete

(* The state change of one VM's handler, whichever it is.                  *)
VMChange(v) ==
  /\ \E state \in VMState : vmState' = [vmState EXCEPT ![v] = state]
  /\ UNCHANGED storageHandle
  /\ owner' = owner \/ owner' = [owner EXCEPT ![v] = NoActor]

LEMMA TransitionFrame ==
  ASSUME WorldInv, NEW t \in DOMAIN queue, NEW ACTION updates, NEW v \in DOMAIN vmState,
         NEW type, NEW expected, NEW next \in VMState, NEW STATE at, at \in Nat, at >= t,
         NEW STATE out, out \in Seq(Filed),
         Transition(v, type, expected, next, at, out, t, updates)
  PROVE  /\ \E state \in VMState : vmState' = [vmState EXCEPT ![v] = state]
         /\ UNCHANGED storageHandle
         /\ Framed(t, updates)
<1>1. IsNext(t) /\ UNCHANGED storageHandle
  BY DEF Transition, VMReceives
<1>2. CASE vmState' = [vmState EXCEPT ![v] = next] /\ EndOfStep(t, at, out, updates)
  BY <1>1, <1>2, FrameOf
<1>3. CASE vmState' = [vmState EXCEPT ![v] = "kFailure"] /\ EndOfStep(t, t, << >>, updates)
  BY <1>1, <1>3, FrameOfNothing DEF VMState
<1> QED BY <1>2, <1>3 DEF Transition

LEMMA VMHandled ==
  ASSUME WorldInv, NEW t \in DOMAIN queue, NEW ACTION updates, NEW v \in DOMAIN vmState,
         HandleVMEvent(v, t, updates)
  PROVE  VMChange(v) /\ Framed(t, updates)
<1> USE DEF VMChange, VMState
<1>1. t \in Nat /\ t >= t
  BY DEF WorldInv, QueueTypeOK
<1>2. /\ t + StartDelay \in Nat /\ t + StartDelay >= t
      /\ t + RestartDelay \in Nat /\ t + RestartDelay >= t
      /\ t + StopDelay \in Nat /\ t + StopDelay >= t
      /\ t + DeleteDelay \in Nat /\ t + DeleteDelay >= t
  BY <1>1, VMAssumption
<1>3. /\ <<VMEvent(v, "kStartCompleted")>> \in Seq(Filed)
      /\ <<VMEvent(v, "kRestartCompleted")>> \in Seq(Filed)
      /\ <<VMEvent(v, "kStopCompleted")>> \in Seq(Filed)
      /\ <<VMEvent(v, "kDeleteCompleted")>> \in Seq(Filed)
  BY CommandFiled DEF VMEvent, VMEventType, Registered
<1>4. << >> \in Seq(Filed)
  OBVIOUS
<1>5. <<ReportToStorage("kVMHosted", v)>> \in Seq(Filed)
  BY ReportFiled
<1>6. /\ <<UnprovisionEvent(owner[v], v, << >>)>> \in Seq(Filed)
      /\ <<IF owner[v] # NoActor THEN UnprovisionEvent(owner[v], v, << >>)
           ELSE ReportToStorage("kVMDeleted", v)>> \in Seq(Filed)
  <2>1. v \in VM /\ owner[v] \in Servers \cup {NoActor}
    BY DEF WorldInv, ActorsInv, VMTypeOK, ServerTypeOK
  <2>2. UnprovisionEvent(owner[v], v, << >>) \in Filed
    BY <2>1, UnprovisionFiled
  <2>3. ReportToStorage("kVMDeleted", v) \in Filed
    BY ReportFiled
  <2> QED BY <2>2, <2>3
<1>7. CASE Start(v, t, updates)
  BY <1>2, <1>3, <1>7, TransitionFrame DEF Start
<1>8. CASE CompleteStart(v, t, updates)
  BY <1>1, <1>5, <1>8, TransitionFrame DEF CompleteStart
<1>9. CASE Restart(v, t, updates)
  BY <1>2, <1>3, <1>9, TransitionFrame DEF Restart
<1>10. CASE CompleteRestart(v, t, updates)
  BY <1>1, <1>4, <1>10, TransitionFrame DEF CompleteRestart
<1>11. CASE Stop(v, t, updates)
  BY <1>2, <1>3, <1>11, TransitionFrame DEF Stop
<1>12. CASE CompleteStop(v, t, updates)
  BY <1>1, <1>6, <1>12, TransitionFrame DEF CompleteStop
<1>13. CASE Delete(v, t, updates)
  BY <1>2, <1>3, <1>13, TransitionFrame DEF Delete
<1>14. CASE CompleteDelete(v, t, updates)
  BY <1>1, <1>6, <1>14, TransitionFrame DEF CompleteDelete
<1>15. CASE VMInvalidEvent(v, t, updates)
  BY <1>15, FrameOfNothing DEF VMInvalidEvent, VMReceives
<1> QED BY <1>7, <1>8, <1>9, <1>10, <1>11, <1>12, <1>13, <1>14, <1>15 DEF HandleVMEvent

LEMMA VMKeeps ==
  ASSUME WorldInv, NEW t \in DOMAIN queue, NEW ACTION updates, VMStep(t, updates)
  PROVE  /\ ActorsInv' /\ Framed(t, updates)
         /\ DOMAIN vmState' = DOMAIN vmState /\ UNCHANGED storageHandle
<1>1. PICK v \in DOMAIN vmState : HandleVMEvent(v, t, updates)
  BY DEF VMStep
<1>2. VMChange(v) /\ Framed(t, updates)
  BY <1>1, VMHandled
<1>3. UNCHANGED <<storageVars, power, serverVars>>
  BY DEF VMStep
<1>4. DOMAIN vmState' = DOMAIN vmState /\ UNCHANGED storageHandle /\ DOMAIN owner' = DOMAIN owner
  BY <1>2 DEF VMChange
<1>5. VMTypeOK' /\ \A w \in DOMAIN owner' : owner'[w] \in Servers \cup {NoActor}
  BY <1>2, <1>4 DEF VMChange, WorldInv, ActorsInv, VMTypeOK, ServerTypeOK
<1>6. Complete' = Complete
  BY <1>4 DEF Complete
<1> QED BY <1>2, <1>3, <1>4, <1>5, <1>6
  DEF storageVars, serverVars, WorldInv, ActorsInv, PowerTypeOK, ServerTypeOK, StorageTypeOK

(* The storage only gets to know complete VMs, one more at a time.         *)
LEMMA StorageKeeps ==
  ASSUME WorldInv, NEW t \in DOMAIN queue, NEW ACTION updates, StorageStep(t, updates)
  PROVE  ActorsInv' /\ Framed(t, updates) /\ UNCHANGED vmVars
<1> USE DEF UpdateOrFail, StorageHandles, StorageReceives
<1>1. UNCHANGED <<power, serverVars, vmVars>>
  BY DEF StorageStep
<1>2. IsNext(t) /\ EndOfStep(t, t, << >>, updates)
  BY DEF StorageStep, InFailedState, StorageInvalidEvent, HandleVMStorageEvent, AddVM,
         MoveToPending, MoveToProvisioning, MoveToHosted, MoveToStopped, DeleteVM
<1>3. Framed(t, updates)
  BY <1>2, FrameOfNothing
<1>4. \/ vms' = vms
      \/ \E v \in Complete, status \in VMStatus : vms' = WithStatus(v, status)
      \/ \E v \in Named : vms' = [w \in DOMAIN vms \ {v} |-> vms[w]]
  <2>1. DOMAIN vms \subseteq Complete
    BY DEF WorldInv, ActorsInv
  <2>2. Registered \subseteq Named
    BY DEF WorldInv, ActorsInv, VMTypeOK, Registered, Named
  <2>3. CASE InFailedState(t, updates) \/ StorageInvalidEvent(t, updates)
    BY <2>3 DEF InFailedState, StorageInvalidEvent, storageVars
  <2>4. ASSUME NEW v \in Registered, AddVM(v, t, updates)
        PROVE  vms' = vms \/ \E w \in Complete, status \in VMStatus : vms' = WithStatus(w, status)
    <3>1. NextEvent(t) \in Filed
      BY <1>2 DEF NextEvent, IsNext, WorldInv, QueueTypeOK
    <3>2. NextEvent(t) = VMStorageEvent("kVMCreated", v)
      BY <2>4 DEF AddVM
    <3>3. v \in Complete
      BY <3>1, <3>2 DEF Filed, VMStorageEvent
    <3> QED BY <2>4, <3>3 DEF AddVM, VMStatus
  <2>5. ASSUME NEW v \in Registered, MoveToPending(v, t, updates)
        PROVE  vms' = vms \/ \E w \in Complete, status \in VMStatus : vms' = WithStatus(w, status)
    BY <2>1, <2>5 DEF MoveToPending, VMStatus
  <2>6. ASSUME NEW v \in Registered,
               \/ MoveToProvisioning(v, t, updates)
               \/ MoveToHosted(v, t, updates)
               \/ MoveToStopped(v, t, updates)
        PROVE  vms' = vms \/ \E w \in Complete, status \in VMStatus : vms' = WithStatus(w, status)
    BY <2>1, <2>6 DEF MoveToProvisioning, MoveToHosted, MoveToStopped, VMStatus
  <2>7. ASSUME NEW v \in Registered, DeleteVM(v, t, updates)
        PROVE  vms' = vms \/ \E w \in Named : vms' = [x \in DOMAIN vms \ {w} |-> vms[x]]
    BY <2>2, <2>7 DEF DeleteVM
  <2> QED BY <2>3, <2>4, <2>5, <2>6, <2>7 DEF StorageStep, HandleVMStorageEvent
<1>5. storageState' \in {"kOk", "kFailure"}
  BY DEF StorageStep, InFailedState, StorageInvalidEvent, HandleVMStorageEvent, AddVM,
         MoveToPending, MoveToProvisioning, MoveToHosted, MoveToStopped, DeleteVM, storageVars,
         WorldInv, ActorsInv, StorageTypeOK
<1>6. Complete' = Complete
  BY <1>1 DEF vmVars, Complete
<1> DEFINE Listed ==
             /\ DOMAIN vms' \subseteq Complete
             /\ IsFiniteSet(DOMAIN vms')
             /\ \A v \in DOMAIN vms' : vms'[v] \in VMStatus
<1>7. Listed
  <2>1. /\ DOMAIN vms \subseteq Complete /\ IsFiniteSet(DOMAIN vms)
        /\ \A v \in DOMAIN vms : vms[v] \in VMStatus
    BY DEF WorldInv, ActorsInv, StorageTypeOK
  <2>2. CASE vms' = vms
    BY <2>1, <2>2
  <2>3. ASSUME NEW v \in Complete, NEW status \in VMStatus, vms' = WithStatus(v, status)
        PROVE  Listed
    <3>1. DOMAIN vms' = DOMAIN vms \cup {v}
      BY <2>3 DEF WithStatus
    <3>2. IsFiniteSet(DOMAIN vms')
      BY <2>1, <3>1, FS_AddElement
    <3>3. \A w \in DOMAIN vms' : vms'[w] \in VMStatus
      BY <2>1, <2>3 DEF WithStatus
    <3> QED BY <2>1, <3>1, <3>2, <3>3
  <2>4. ASSUME NEW v \in Named, vms' = [w \in DOMAIN vms \ {v} |-> vms[w]]
        PROVE  Listed
    <3>1. DOMAIN vms' = DOMAIN vms \ {v}
      BY <2>4
    <3>2. IsFiniteSet(DOMAIN vms')
      BY <2>1, <3>1, FS_Subset
    <3>3. \A w \in DOMAIN vms' : vms'[w] \in VMStatus
      BY <2>1, <2>4
    <3> QED BY <2>1, <3>1, <3>2, <3>3
  <2> QED BY <1>4, <2>2, <2>3, <2>4
<1>8. Complete \subseteq VM
  BY DEF Complete, WorldInv, ActorsInv, VMTypeOK
<1> QED BY <1>1, <1>3, <1>5, <1>6, <1>7, <1>8
  DEF serverVars, vmVars, WorldInv, ActorsInv, PowerTypeOK, ServerTypeOK, VMTypeOK, StorageTypeOK

(* What a server hosts is told to it by an event that may wait; and the    *)
(* notificator of an event is one for the storage.                         *)
LEMMA NotificatorFiled ==
  ASSUME WorldInv, NEW t \in DOMAIN queue, NextEvent(t).type = "kUnprovisionVM",
         NextEvent(t).notificator # << >>
  PROVE  NextEvent(t).notificator \in Seq(Filed)
<1> DEFINE N == {<< >>} \cup {<<VMStorageEvent("kVMStopped", w)>> : w \in VM}
           e == NextEvent(t)
<1>1. e \in Filed
  BY DEF NextEvent, WorldInv, QueueTypeOK
<1>2. e.type = "kUnprovisionVM" /\ e.notificator # << >>
  OBVIOUS
<1> HIDE DEF e
<1>3. e \in WorldEvent
  BY <1>1 DEF Filed
<1>4. e \in [to : Servers \cup {NoActor}, type : {"kUnprovisionVM"}, vm : VM, notificator : N]
  <2> HIDE DEF N
  <2>1. \/ e \in [to : Named, type : ResourceEventType \cup VMEventType]
        \/ e \in [to : VM, type : {"kStart"}, server : Servers]
        \/ e \in [to : Servers, type : {"kProvisionVM"}, vm : VM]
        \/ e \in [to : {NoActor}, type : {"kVMHosted", "kVMDeleted"}, vm : VM]
        \/ e \in [to : Servers \cup {NoActor}, type : {"kUnprovisionVM"}, vm : VM, notificator : N]
        \/ e \in [to : {Storage}, type : VMStorageEventType, vm : Named]
    BY <1>3 DEF WorldEvent, N
  <2> QED BY <1>2, <2>1 DEF ResourceEventType, ResourceCommand, VMEventType, VMStorageEventType
<1>5. PICK w \in VM : e.notificator = <<VMStorageEvent("kVMStopped", w)>>
  BY <1>2, <1>4
<1>6. VMStorageEvent("kVMStopped", w) \in Filed
  BY StorageEventFiled DEF VMStorageEventType, Named
<1>7. e.notificator \in Seq(Filed)
  BY <1>5, <1>6
<1> QED BY <1>7 DEF e

LEMMA ServerKeeps ==
  ASSUME WorldInv, NEW t \in DOMAIN queue, NEW ACTION updates, ServerStep(t, updates)
  PROVE  /\ ActorsInv' /\ UNCHANGED vmVars
         /\ Framed(t, updates) \/ UNCHANGED evVars
<1>1. UNCHANGED <<storageVars, vmVars>>
  BY DEF ServerStep
<1>2. PICK s \in Servers, v \in VM : ProvisionVM(s, v, t, updates) \/ UnprovisionVM(s, v, t, updates)
  BY DEF ServerStep
<1>3. t \in Nat /\ t >= t /\ s \in Resource
  BY ServerAssumption DEF WorldInv, QueueTypeOK
<1>4. NextEvent(t) \in Filed /\ IsNext(t)
  BY <1>2 DEF NextEvent, WorldInv, QueueTypeOK, ProvisionVM, UnprovisionVM
<1>5. PowerTypeOK /\ hosted \in [Servers -> SUBSET VM] /\ crashed \in BOOLEAN
      /\ \A w \in Servers : hosted[w] \subseteq Complete
  BY DEF WorldInv, ActorsInv, ServerTypeOK
<1>6. /\ Framed(t, updates) \/ UNCHANGED evVars
      /\ PowerTypeOK'
      /\ hosted' \in [Servers -> SUBSET VM] /\ crashed' \in BOOLEAN
      /\ \A w \in Servers : hosted'[w] \subseteq Complete
  <2>1. CASE ProvisionVM(s, v, t, updates)
    <3>1. NextEvent(t).type = "kProvisionVM" /\ NextEvent(t).vm = v
      BY <2>1 DEF ProvisionVM, ServerEvent
    <3>2. v \in Complete
      BY <1>4, <3>1 DEF Filed
    <3>3. StartEvent(v, s) \in Filed
      BY <3>2, PlacementFiled
    <3>4. CASE hosted' = [hosted EXCEPT ![s] = @ \cup {v}] /\ EndOfStep(t, t, <<StartEvent(v, s)>>, updates)
               /\ UNCHANGED power
      <4>1. Framed(t, updates)
        BY <1>3, <1>4, <3>3, <3>4, FrameOfOne
      <4> QED BY <1>5, <2>1, <3>2, <3>4, <4>1 DEF ProvisionVM, PowerTypeOK
    <3>5. CASE SetPowerState(s, "kFailure") /\ UNCHANGED hosted /\ EndOfStep(t, t, << >>, updates)
      <4>1. Framed(t, updates)
        BY <1>4, <3>5, FrameOfNothing
      <4> QED BY <1>3, <1>5, <2>1, <3>5, <4>1 DEF ProvisionVM, PowerTypeOK, SetPowerState, PowerState
    <3> QED BY <2>1, <3>4, <3>5 DEF ProvisionVM
  <2>2. CASE UnprovisionVM(s, v, t, updates)
    <3>1. CASE SetPowerState(s, "kFailure") /\ UNCHANGED serverVars /\ EndOfStep(t, t, << >>, updates)
      <4>1. Framed(t, updates)
        BY <1>4, <3>1, FrameOfNothing
      <4> QED BY <1>3, <1>5, <3>1, <4>1 DEF serverVars, PowerTypeOK, SetPowerState, PowerState
    <3>2. CASE UNCHANGED <<power, serverVars>> /\ EndOfStep(t, t, << >>, updates)
      <4>1. Framed(t, updates)
        BY <1>4, <3>2, FrameOfNothing
      <4> QED BY <1>5, <3>2, <4>1 DEF serverVars, PowerTypeOK
    <3>3. CASE /\ hosted' = [hosted EXCEPT ![s] = @ \ {v}]
               /\ UNCHANGED power
               /\ \/ crashed' = TRUE /\ UNCHANGED evVars
                  \/ /\ NextEvent(t).notificator # << >>
                     /\ UNCHANGED crashed
                     /\ EndOfStep(t, t, NextEvent(t).notificator, updates)
      <4>1. Framed(t, updates) \/ UNCHANGED evVars
        <5>1. CASE NextEvent(t).notificator # << >>
                   /\ EndOfStep(t, t, NextEvent(t).notificator, updates)
          <6>1. NextEvent(t).notificator \in Seq(Filed)
            BY <2>2, <5>1, NotificatorFiled DEF UnprovisionVM
          <6> QED BY <1>3, <1>4, <5>1, <6>1, FrameOf
        <5> QED BY <3>3, <5>1
      <4> QED BY <1>5, <3>3, <4>1 DEF PowerTypeOK
    <3> QED BY <2>2, <3>1, <3>2, <3>3 DEF UnprovisionVM
  <2> QED BY <1>2, <2>1, <2>2
<1>7. Complete' = Complete
  BY <1>1 DEF vmVars, Complete
<1> QED BY <1>1, <1>6, <1>7
  DEF storageVars, vmVars, WorldInv, ActorsInv, ServerTypeOK, VMTypeOK, StorageTypeOK

LEMMA NobodyKeeps ==
  ASSUME WorldInv, NEW t \in DOMAIN queue, NEW ACTION updates, NobodyStep(t, updates)
  PROVE  ActorsInv' /\ Framed(t, updates) /\ UNCHANGED vmVars
<1>1. UNCHANGED actorVars /\ IsNext(t) /\ EndOfStep(t, t, << >>, updates)
  BY DEF NobodyStep
<1>2. Framed(t, updates)
  BY <1>1, FrameOfNothing
<1> QED BY <1>1, <1>2 DEF actorVars, serverVars, vmVars, storageVars, Complete, WorldInv, ActorsInv,
                          PowerTypeOK, ServerTypeOK, VMTypeOK, StorageTypeOK

-----------------------------------------------------------------------------
(* What update_world() schedules may wait too: the schedulers see complete *)
(* VMs only, those on the storage.                                         *)
LEMMA UpdatesOf ==
  ASSUME NEW E, ActorsInv', Complete' = Complete,
         \A v \in Complete : /\ VMStorageEvent("kVMScheduled", v) \in E
                             /\ ServerEvent(FirstServer, "kProvisionVM", v) \in E
  PROVE  \A u \in UpdateWorld : u \in Seq(E)
<1>1. Pending' \subseteq Complete /\ IsFiniteSet(Pending')
  <2>1. DOMAIN vms' \subseteq Complete /\ IsFiniteSet(DOMAIN vms')
    BY DEF ActorsInv
  <2>2. Pending' \subseteq DOMAIN vms'
    BY DEF Pending
  <2> QED BY <2>1, <2>2, FS_Subset
<1>2. Cardinality(Pending') \in Nat
  BY <1>1, FS_CardinalityType
<1> SUFFICES ASSUME NEW ACTION order, order \in SetToSeqs(Pending')
             PROVE  UpdateSchedule(order) \in Seq(E)
  BY DEF UpdateWorld
<1>3. order \in [1..Cardinality(Pending') -> Pending']
  BY DEF SetToSeqs
<1>4. PICK n \in Nat : n = Cardinality(Pending')
  BY <1>2
<1>5. DOMAIN order = 1..n /\ \A i \in 1..n : order[i] \in Complete
  BY <1>1, <1>3, <1>4
<1> DEFINE notices == [i \in DOMAIN order |-> VMStorageEvent("kVMScheduled", order[i])]
           placements == [i \in DOMAIN order |-> ServerEvent(FirstServer, "kProvisionVM", order[i])]
<1>6. \A i \in 1..n : VMStorageEvent("kVMScheduled", order[i]) \in E
  BY <1>5
<1>7. \A i \in 1..n : ServerEvent(FirstServer, "kProvisionVM", order[i]) \in E
  BY <1>5
<1>8. notices \in [1..n -> E] /\ placements \in [1..n -> E]
  BY <1>5, <1>6, <1>7
<1>9. UpdateSchedule(order) = Reverse(notices) \o placements
  BY DEF UpdateSchedule
<1> HIDE DEF notices, placements
<1>10. notices \in Seq(E) /\ Len(notices) = n /\ placements \in Seq(E)
  BY <1>8
<1>11. Reverse(notices) = [i \in 1..n |-> notices[(n - i) + 1]]
  BY <1>10 DEF Reverse
<1>12. \A i \in 1..n : notices[(n - i) + 1] \in E
  BY <1>8
<1>13. Reverse(notices) \in [1..n -> E]
  BY <1>11, <1>12
<1>14. Reverse(notices) \in Seq(E)
  BY <1>13
<1> QED BY <1>9, <1>10, <1>14

LEMMA UpdatesFiled ==
  ASSUME WorldInv, ActorsInv', Complete' = Complete
  PROVE  \A u \in UpdateWorld : u \in Seq(Filed)
<1>1. PICK S : S = Filed
  OBVIOUS
<1>2. Complete \subseteq Named
  BY DEF Complete, Named, WorldInv, ActorsInv, VMTypeOK
<1>3. \A v \in Complete : /\ VMStorageEvent("kVMScheduled", v) \in S
                          /\ ServerEvent(FirstServer, "kProvisionVM", v) \in S
  BY <1>1, <1>2, StorageEventFiled, PlacementFiled, FirstServerAssumption DEF VMStorageEventType
<1> QED BY <1>1, <1>3, UpdatesOf

(* A scheduler that names only what it can see sends events that may wait. *)
LEMMA SeenFiled ==
  ASSUME WorldInv, NEW e \in Sendable, Seen(e)
  PROVE  e \in Filed
<1>1. e \in WorldEvent
  BY SchedulerAssumption
<1>2. DOMAIN vms \subseteq Complete /\ Complete \subseteq Registered
  BY DEF WorldInv, ActorsInv, Complete, Registered
<1>3. e.to \in Registered
  BY <1>2 DEF Seen, Registered
<1>4. e.type \in {"kVMCreated", "kProvisionVM"} => e.vm \in Complete
  BY <1>2 DEF Seen, VMStorageEventType
<1> QED BY <1>1, <1>3, <1>4 DEF Filed

(* A framed step leaves a well-typed queue behind. *)
LEMMA FramedQueueType ==
  ASSUME WorldInv, NEW t \in DOMAIN queue, NEW ACTION updates, Framed(t, updates),
         \A u \in updates : u \in Seq(Filed), Filed' = Filed
  PROVE  QueueTypeOK(Filed)'
<1>1. PICK S : S = Filed
  OBVIOUS
<1>2. PICK at \in Nat : \E out \in Seq(Filed) : at >= t /\ EndOfStep(t, at, out, updates)
  BY DEF Framed
<1>3. PICK out \in Seq(Filed) : at >= t /\ EndOfStep(t, at, out, updates)
  BY <1>2
<1>4. QueueTypeOK(S)
  BY <1>1 DEF WorldInv
<1>5. QueueTypeOK(S)'
  BY <1>1, <1>3, <1>4, StepQueueType
<1> QED BY <1>1, <1>5 DEF QueueTypeOK

-----------------------------------------------------------------------------
(* The invariant is inductive: first the steps of the loop, whatever may   *)
(* be scheduled at their end, then the calls of clients.                   *)
LEMMA LoopKeeps ==
  ASSUME WorldInv, NEW ACTION updates, SimulateNextStep(updates),
         ActorsInv' /\ Complete' = Complete => \A u \in updates : u \in Seq(Filed)
  PROVE  WorldInv' /\ Complete' = Complete /\ Registered' = Registered
<1>1. PICK t \in DOMAIN queue :
        \/ ResourceStep(t, updates)
        \/ ServerStep(t, updates)
        \/ VMStep(t, updates)
        \/ StorageStep(t, updates)
        \/ NobodyStep(t, updates)
  BY DEF SimulateNextStep
<1>2. /\ ActorsInv'
      /\ Framed(t, updates) \/ UNCHANGED evVars
      /\ DOMAIN vmState' = DOMAIN vmState /\ UNCHANGED storageHandle
  BY <1>1, ResourceKeeps, ServerKeeps, VMKeeps, StorageKeeps, NobodyKeeps DEF vmVars
<1>3. Complete' = Complete /\ Registered' = Registered
  BY <1>2 DEF Complete, Registered
<1>4. Filed' = Filed
  BY <1>3 DEF Filed
<1>5. QueueTypeOK(Filed)'
  <2>1. CASE Framed(t, updates)
    BY <1>2, <1>3, <1>4, <2>1, FramedQueueType
  <2>2. CASE UNCHANGED evVars
    BY <1>4, <2>2 DEF evVars, WorldInv, QueueTypeOK
  <2> QED BY <1>2, <2>1, <2>2
<1>6. SessionTypeOK'
  BY DEF SimulateNextStep, Running, sessionVars, WorldInv, SessionTypeOK
<1> QED BY <1>2, <1>3, <1>5, <1>6 DEF WorldInv

LEMMA SubmitKeeps ==
  ASSUME WorldInv, Filed \subseteq Filed', NEW e, e \in Filed', NEW immediate \in BOOLEAN,
         Submit(e, immediate)
  PROVE  QueueTypeOK(Filed)' /\ SessionTypeOK' /\ \A f : Queued(f) => Queued(f)'
<1>1. PICK S : S = Filed'
  OBVIOUS
<1>2. \A d \in Seq(Filed) : d \in Seq(S)
  BY <1>1
<1>3. QueueTypeOK(S) /\ e \in S
  BY <1>1, <1>2 DEF WorldInv, QueueTypeOK
<1>4. QueueTypeOK(S)' /\ \A f : Queued(f) => Queued(f)'
  BY <1>3, InsertNow DEF Submit
<1>5. SessionTypeOK'
  BY SessionAssumption DEF Submit, Accept, WorldInv, SessionTypeOK
<1> QED BY <1>1, <1>4, <1>5 DEF QueueTypeOK

(* A new VM, complete or not, is one that was not there. *)
LEMMA MakeVMKeeps ==
  ASSUME WorldInv, NEW v \in VM, v \notin Registered, NEW handle \in {Storage, NoActor},
         MakeVM(v, handle), UNCHANGED <<power, serverVars, storageVars>>
  PROVE  /\ ActorsInv' /\ Filed \subseteq Filed'
         /\ DOMAIN vmState' = DOMAIN vmState \cup {v}
         /\ \A w \in DOMAIN vmState : vmState'[w] = vmState[w]
         /\ vmState'[v] = "kProvisioning" /\ storageHandle'[v] = handle
<1>1. /\ DOMAIN vmState' = DOMAIN vmState \cup {v}
      /\ DOMAIN storageHandle' = DOMAIN vmState \cup {v}
      /\ DOMAIN owner' = DOMAIN vmState \cup {v}
      /\ vmState'[v] = "kProvisioning" /\ storageHandle'[v] = handle /\ owner'[v] = NoActor
  BY DEF MakeVM
<1>2. v \notin DOMAIN vmState
  BY DEF Registered
<1>3. \A w \in DOMAIN vmState :
         vmState'[w] = vmState[w] /\ storageHandle'[w] = storageHandle[w] /\ owner'[w] = owner[w]
  BY <1>2 DEF MakeVM
<1>4. Complete \subseteq Complete' /\ Registered \subseteq Registered'
  BY <1>1, <1>3 DEF Complete, Registered
<1>5. Filed \subseteq Filed'
  BY <1>4 DEF Filed
<1>6. VMTypeOK' /\ \A w \in DOMAIN owner' : owner'[w] \in Servers \cup {NoActor}
  BY <1>1, <1>3 DEF VMState, WorldInv, ActorsInv, VMTypeOK, ServerTypeOK
<1>7. ActorsInv'
  BY <1>4, <1>6 DEF serverVars, storageVars, WorldInv, ActorsInv, PowerTypeOK, ServerTypeOK, StorageTypeOK
<1> QED BY <1>1, <1>3, <1>5, <1>7

(* What a call does: the VMs that were there stay, and so does every event *)
(* in the queue.                                                           *)
VMsAndEventsKept ==
  /\ DOMAIN vmState \subseteq DOMAIN vmState'
  /\ \A v \in DOMAIN vmState' :
       vmState'[v] = IF v \in DOMAIN vmState THEN vmState[v] ELSE "kProvisioning"
  /\ \A f : Queued(f) => Queued(f)'

LEMMA CallKeeps ==
  ASSUME WorldInv, ClientCall
  PROVE  WorldInv' /\ VMsAndEventsKept
<1> USE DEF VMsAndEventsKept
<1>1. ASSUME UNCHANGED actorVars, NEW e \in Filed, NEW immediate \in BOOLEAN, Submit(e, immediate)
      PROVE  WorldInv' /\ VMsAndEventsKept
  <2>1. ActorsInv' /\ Filed' = Filed
    BY <1>1 DEF actorVars, serverVars, vmVars, storageVars, Complete, Registered, Filed, WorldInv,
                ActorsInv, PowerTypeOK, ServerTypeOK, VMTypeOK, StorageTypeOK
  <2>2. QueueTypeOK(Filed)' /\ SessionTypeOK' /\ \A f : Queued(f) => Queued(f)'
    BY <1>1, <2>1, SubmitKeeps
  <2> QED BY <1>1, <2>1, <2>2 DEF WorldInv, actorVars, vmVars
<1>2. ASSUME NEW n \in Named, NEW type \in ResourceCommand, DoResourceAction(type, n)
      PROVE  WorldInv' /\ VMsAndEventsKept
  <2>1. ResourceEvent(n, type) \in Filed
    BY <1>2, CommandFiled DEF DoResourceAction, ResourceEvent, ResourceEventType
  <2> QED BY <1>1, <1>2, <2>1 DEF DoResourceAction
<1>3. ASSUME NEW n \in Named, DoProvisionVM(n)
      PROVE  WorldInv' /\ VMsAndEventsKept
  <2>1. VMStorageEvent("kVMProvisionRequested", n) \in Filed
    BY <1>3, StorageEventFiled DEF VMStorageEventType
  <2> QED BY <1>1, <1>3, <2>1 DEF DoProvisionVM
<1>4. ASSUME NEW n \in Named, NEW type \in {"kStop", "kDelete"}, DoVMAction(type, n)
      PROVE  WorldInv' /\ VMsAndEventsKept
  <2>1. VMEvent(n, type) \in Filed
    BY <1>4, CommandFiled DEF DoVMAction, VMEvent, VMEventType
  <2> QED BY <1>1, <1>4, <2>1 DEF DoVMAction
<1>5. ASSUME NEW v \in VM, CreateVM(v)
      PROVE  WorldInv' /\ VMsAndEventsKept
  <2>1. /\ ActorsInv' /\ Filed \subseteq Filed'
        /\ DOMAIN vmState' = DOMAIN vmState \cup {v}
        /\ \A w \in DOMAIN vmState : vmState'[w] = vmState[w]
        /\ vmState'[v] = "kProvisioning" /\ storageHandle'[v] = Storage
    BY <1>5, MakeVMKeeps DEF CreateVM
  <2>2. VMStorageEvent("kVMCreated", v) \in Filed'
    <3> DEFINE e == VMStorageEvent("kVMCreated", v)
    <3>1. e \in [to : {Storage}, type : VMStorageEventType, vm : Named] /\ e.to = Storage /\ e.vm = v
      BY DEF VMStorageEvent, VMStorageEventType, Named
    <3>2. v \in Complete' /\ Storage \in Registered'
      BY <2>1 DEF Complete, Registered
    <3> HIDE DEF e
    <3>3. e \in WorldEvent
      BY <3>1 DEF WorldEvent
    <3>4. e \in Filed'
      BY <3>1, <3>2, <3>3 DEF Filed
    <3> QED BY <3>4 DEF e
  <2>3. QueueTypeOK(Filed)' /\ SessionTypeOK' /\ \A f : Queued(f) => Queued(f)'
    BY <1>5, <2>1, <2>2, SubmitKeeps DEF CreateVM
  <2> QED BY <2>1, <2>3 DEF WorldInv
<1>6. ASSUME NEW v \in VM, CreateVMFails(v)
      PROVE  WorldInv' /\ VMsAndEventsKept
  <2>1. /\ ActorsInv' /\ Filed \subseteq Filed'
        /\ DOMAIN vmState' = DOMAIN vmState \cup {v}
        /\ \A w \in DOMAIN vmState : vmState'[w] = vmState[w]
        /\ vmState'[v] = "kProvisioning"
    BY <1>6, MakeVMKeeps DEF CreateVMFails
  <2>2. UNCHANGED <<queue, now>> /\ SessionTypeOK'
    BY <1>6, SessionAssumption DEF CreateVMFails, Refuse, WorldInv, SessionTypeOK
  <2>3. QueueTypeOK(Filed)'
    <3>1. \A d \in Seq(Filed) : d \in Seq(Filed')
      BY <2>1
    <3> QED BY <2>2, <3>1 DEF WorldInv, QueueTypeOK
  <2>4. \A f : Queued(f) => Queued(f)'
    BY <2>2 DEF Queued, QueuedAt
  <2> QED BY <2>1, <2>2, <2>3, <2>4 DEF WorldInv
<1> QED BY <1>2, <1>3, <1>4, <1>5, <1>6 DEF ClientCall, Named

LEMMA StepUpdatesFiled ==
  ASSUME WorldInv, Step
  PROVE  WorldInv' /\ Complete' = Complete /\ Registered' = Registered
<1>1. ASSUME ActorsInv', Complete' = Complete
      PROVE  \A u \in {<< >>} \cup UpdateWorld : u \in Seq(Filed)
  <2>1. << >> \in Seq(Filed)
    OBVIOUS
  <2>2. \A u \in UpdateWorld : u \in Seq(Filed)
    BY <1>1, UpdatesFiled
  <2> QED BY <2>1, <2>2
<1> QED BY <1>1, LoopKeeps DEF Step

LEMMA InitInv == WorldInit => WorldInv
<1> SUFFICES ASSUME WorldInit PROVE WorldInv
  OBVIOUS
<1>1. QueueTypeOK(Filed) /\ SessionTypeOK
  <2>1. queue = << >> /\ now = 1
    BY DEF WorldInit, EvInit
  <2>2. DOMAIN queue = {}
    BY <2>1
  <2>3. QueueTypeOK(Filed)
    BY <2>1, <2>2 DEF QueueTypeOK
  <2>4. simulating \in BOOLEAN
    BY DEF WorldInit, SessionInit
  <2>5. calls \in 0..MaxCalls /\ batch \in 0..MaxBatch
    BY SessionAssumption DEF WorldInit, SessionInit
  <2> QED BY <2>3, <2>4, <2>5 DEF SessionTypeOK
<1>2. DOMAIN vms = {} /\ DOMAIN vmState = {} /\ DOMAIN storageHandle = {} /\ DOMAIN owner = {}
  BY DEF WorldInit, StorageInit, VMInit
<1>3. IsFiniteSet(DOMAIN vms)
  BY <1>2, FS_EmptySet
<1>4. ActorsInv
  BY <1>2, <1>3 DEF WorldInit, PowerInit, ServerInit, VMInit, StorageInit, ActorsInv,
     PowerTypeOK, PowerState, ServerTypeOK, VMTypeOK, StorageTypeOK
<1> QED BY <1>1, <1>4 DEF WorldInv

LEMMA Stutter ==
  ASSUME WorldInv, UNCHANGED <<queue, now, actorVars>>, SessionTypeOK'
  PROVE  WorldInv'
<1>1. Filed' = Filed
  BY DEF actorVars, vmVars, Complete, Registered, Filed
<1>2. ActorsInv'
  BY DEF actorVars, serverVars, vmVars, storageVars, Complete, WorldInv, ActorsInv,
         PowerTypeOK, ServerTypeOK, VMTypeOK, StorageTypeOK
<1> QED BY <1>1, <1>2 DEF WorldInv, QueueTypeOK

(* Entering and leaving SimulateAll. *)
LEMMA SessionKeeps ==
  ASSUME WorldInv, (SimulateAll \/ SimulateAllReturns) /\ UNCHANGED actorVars
  PROVE  WorldInv' /\ UNCHANGED <<queue, vmState>>
<1>1. simulating' \in BOOLEAN
  BY DEF SimulateAll, SimulateAllReturns
<1>2. calls' \in 0..MaxCalls /\ batch' \in 0..MaxBatch /\ UNCHANGED <<queue, now>>
  BY SessionAssumption DEF SimulateAll, SimulateAllReturns, WorldInv, SessionTypeOK
<1>3. SessionTypeOK'
  BY <1>1, <1>2 DEF SessionTypeOK
<1> QED BY <1>2, <1>3, Stutter DEF actorVars, vmVars

(* A call of schedule_event by the scheduler: the clock is one less than   *)
(* now, which the step has just moved on.                                  *)
AnyInv == WorldInv /\ (scheduling => now \in Nat \ {0})

LEMMA ScheduleEventKeeps ==
  ASSUME AnyInv, NEW e \in Sendable, NEW ahead \in 0..MaxAhead, NEW immediate \in BOOLEAN,
         ScheduleEvent(e, ahead, immediate)
  PROVE  WorldInv' /\ \A f : Queued(f) => Queued(f)'
<1>1. PICK S : S = Filed
  OBVIOUS
<1>2. e \in S /\ QueueTypeOK(S)
  BY <1>1, SeenFiled DEF ScheduleEvent, AnyInv, WorldInv
<1>3. (now - 1) + ahead \in Nat
  BY SchedulerAssumption DEF ScheduleEvent, AnyInv
<1>4. QueueTypeOK(S)' /\ \A f : Queued(f) => Queued(f)'
  BY <1>2, <1>3, InsertKeeps DEF ScheduleEvent
<1>5. UNCHANGED <<actorVars, sessionVars, now>>
  BY DEF ScheduleEvent
<1>6. Filed' = Filed
  BY <1>5 DEF actorVars, vmVars, Complete, Registered, Filed
<1>7. ActorsInv' /\ SessionTypeOK'
  BY <1>5 DEF actorVars, serverVars, vmVars, storageVars, sessionVars, Complete, AnyInv, WorldInv,
              ActorsInv, PowerTypeOK, ServerTypeOK, VMTypeOK, StorageTypeOK, SessionTypeOK
<1>8. QueueTypeOK(Filed)'
  BY <1>1, <1>4, <1>6 DEF QueueTypeOK
<1> QED BY <1>4, <1>7, <1>8 DEF WorldInv

LEMMA ClockMovedOn ==
  ASSUME AnyInv, [AnyNext]_anyVars
  PROVE  scheduling' => now' \in Nat \ {0}
<1>1. CASE Step
  <2>1. DOMAIN queue \subseteq Nat
    BY DEF AnyInv, WorldInv, QueueTypeOK
  <2>2. scheduling' <=> \E t \in DOMAIN queue : IsNext(t) /\ now' = t + 1
    BY <1>1 DEF Step
  <2> QED BY <2>1, <2>2
<1>2. CASE UpdateScheduleReturns
  BY <1>2 DEF UpdateScheduleReturns
<1>3. CASE UNCHANGED <<now, scheduling>>
  BY <1>3 DEF AnyInv
<1>4. CASE ClientCall /\ UNCHANGED schedulerVars
  <2>1. UNCHANGED now
    BY <1>4 DEF ClientCall, DoResourceAction, DoProvisionVM, DoVMAction, CreateVM, CreateVMFails,
                Submit, Refuse
  <2> QED BY <1>3, <1>4, <2>1 DEF schedulerVars
<1> QED
  BY <1>1, <1>2, <1>3, <1>4
  DEF AnyNext, SimulateAll, SimulateAllReturns, ScheduleEvent, schedulerVars, anyVars, worldVars

LEMMA InvStep == AnyInv /\ [AnyNext]_anyVars => AnyInv'
<1> SUFFICES ASSUME AnyInv, [AnyNext]_anyVars PROVE WorldInv'
  BY ClockMovedOn DEF AnyInv
<1> USE DEF AnyInv
<1>1. CASE ClientCall
  BY <1>1, CallKeeps
<1>2. CASE (SimulateAll \/ SimulateAllReturns) /\ UNCHANGED actorVars
  BY <1>2, SessionKeeps
<1>3. CASE Step
  BY <1>3, StepUpdatesFiled
<1>4. CASE UNCHANGED worldVars
  <2>1. UNCHANGED <<queue, now, actorVars>> /\ SessionTypeOK'
    BY <1>4 DEF worldVars, actorVars, serverVars, vmVars, storageVars, WorldInv, SessionTypeOK
  <2> QED BY <2>1, Stutter
<1>5. ASSUME NEW e \in Sendable, NEW ahead \in 0..MaxAhead, NEW immediate \in BOOLEAN,
             ScheduleEvent(e, ahead, immediate)
      PROVE  WorldInv'
  BY <1>5, ScheduleEventKeeps
<1> QED BY <1>1, <1>2, <1>3, <1>4, <1>5 DEF AnyNext, UpdateScheduleReturns, anyVars

LEMMA InvType == WorldInv => WorldTypeOK /\ HostedHasWorkload
<1> SUFFICES ASSUME WorldInv PROVE WorldTypeOK /\ HostedHasWorkload
  OBVIOUS
<1>1. \A d \in Seq(Filed) : d \in Seq(WorldEvent) /\ \A i \in 1..Len(d) : d[i].to \in Registered \cup {NoActor}
  BY DEF Filed
<1>2. QueueTypeOK(WorldEvent)
      /\ \A t \in DOMAIN queue : \A i \in 1..Len(queue[t]) : queue[t][i].to \in Registered \cup {NoActor}
  BY <1>1 DEF WorldInv, QueueTypeOK
<1> QED BY <1>2 DEF WorldInv, ActorsInv, WorldTypeOK, HostedHasWorkload, Complete

-----------------------------------------------------------------------------
(* The completion of a VM's transition: its own handlers alone take it out *)
(* of the queue, and each of them leaves the VM in a state that waits for  *)
(* nothing, or files what it will wait for.                                *)
LEMMA FramedKeeps ==
  ASSUME WorldInv, NEW t \in DOMAIN queue, NEW ACTION updates, Framed(t, updates),
         NEW e, Queued(e), e # NextEvent(t)
  PROVE  Queued(e)'
<1>1. PICK S : S = Filed
  OBVIOUS
<1>2. PICK at \in Nat : \E out \in Seq(Filed) : at >= t /\ EndOfStep(t, at, out, updates)
  BY DEF Framed
<1>3. PICK out \in Seq(Filed) : at >= t /\ EndOfStep(t, at, out, updates)
  BY <1>2
<1>4. QueueTypeOK(S) /\ out \in Seq(S)
  BY <1>1 DEF WorldInv
<1> QED BY <1>3, <1>4, StepKeeps

LEMMA CompletionFiled ==
  ASSUME WorldInv, NEW t \in DOMAIN queue, NEW ACTION updates, NEW v \in DOMAIN vmState,
         NEW type, NEW expected, NEW next, NEW STATE at, at \in Nat, at >= t,
         NEW e, e \in Filed, Transition(v, type, expected, next, at, <<e>>, t, updates)
  PROVE  vmState'[v] = "kFailure" \/ (vmState'[v] = next /\ Queued(e)')
<1>1. CASE vmState' = [vmState EXCEPT ![v] = next] /\ EndOfStep(t, at, <<e>>, updates)
  <2>1. PICK S : S = Filed
    OBVIOUS
  <2>2. QueueTypeOK(S) /\ <<e>> \in Seq(S) /\ 1 \in 1..Len(<<e>>) /\ e = <<e>>[1]
    BY <2>1 DEF WorldInv
  <2>3. Queued(e)'
    BY <1>1, <2>2, StepFiles
  <2> QED BY <1>1, <2>3
<1>2. CASE vmState' = [vmState EXCEPT ![v] = "kFailure"]
  BY <1>2
<1> QED BY <1>1, <1>2 DEF Transition

LEMMA HandledIsUnderWay ==
  ASSUME WorldInv, NEW t \in DOMAIN queue, NEW ACTION updates, NEW v \in DOMAIN vmState,
         HandleVMEvent(v, t, updates), vmState'[v] \in DOMAIN Completion
  PROVE  Queued(VMEvent(v, Completion[vmState[v]]))'
<1>1. t \in Nat /\ t + StartDelay \in Nat /\ t + StartDelay >= t
      /\ t + RestartDelay \in Nat /\ t + RestartDelay >= t
      /\ t + StopDelay \in Nat /\ t + StopDelay >= t
  BY VMAssumption DEF WorldInv, QueueTypeOK
<1>2. /\ VMEvent(v, "kStartCompleted") \in Filed
      /\ VMEvent(v, "kRestartCompleted") \in Filed
      /\ VMEvent(v, "kStopCompleted") \in Filed
  BY CommandFiled DEF VMEvent, VMEventType, Registered
<1>3. vmState'[v] \in {"kStarting", "kRestarting", "kStopping"}
      /\ Completion["kStarting"] = "kStartCompleted"
      /\ Completion["kRestarting"] = "kRestartCompleted"
      /\ Completion["kStopping"] = "kStopCompleted"
  BY DEF Completion
<1>4. CASE Start(v, t, updates)
  <2>1. vmState'[v] = "kStarting" /\ Queued(VMEvent(v, "kStartCompleted"))'
    BY <1>1, <1>2, <1>3, <1>4, CompletionFiled DEF Start
  <2> QED BY <1>3, <2>1
<1>5. CASE Restart(v, t, updates)
  <2>1. vmState'[v] = "kRestarting" /\ Queued(VMEvent(v, "kRestartCompleted"))'
    BY <1>1, <1>2, <1>3, <1>5, CompletionFiled DEF Restart
  <2> QED BY <1>3, <2>1
<1>6. CASE Stop(v, t, updates)
  <2>1. vmState'[v] = "kStopping" /\ Queued(VMEvent(v, "kStopCompleted"))'
    BY <1>1, <1>2, <1>3, <1>6, CompletionFiled DEF Stop
  <2> QED BY <1>3, <2>1
<1>7. CASE \/ CompleteStart(v, t, updates) \/ CompleteRestart(v, t, updates)
           \/ CompleteStop(v, t, updates) \/ Delete(v, t, updates)
           \/ CompleteDelete(v, t, updates) \/ VMInvalidEvent(v, t, updates)
  BY <1>3, <1>7 DEF CompleteStart, CompleteRestart, CompleteStop, Delete, CompleteDelete,
                    VMInvalidEvent, Transition
<1> QED BY <1>4, <1>5, <1>6, <1>7 DEF HandleVMEvent

(* Only a VM handles what is sent to a VM.                                 *)
LEMMA OthersLeaveVMs ==
  ASSUME WorldInv, NEW t, NEW ACTION updates,
         \/ ResourceStep(t, updates) \/ ServerStep(t, updates)
         \/ StorageStep(t, updates) \/ NobodyStep(t, updates)
  PROVE  NextEvent(t).to \notin VM
<1>1. CASE ResourceStep(t, updates)
  BY <1>1, WorldAssumption
  DEF ResourceStep, HandleResourceEvent, ResourceInvalidEvent, StartBoot, BootIgnored,
      StartShutdown, ShutdownIgnored, StartReboot, CompleteBoot, CompleteShutdown,
      Receives, ResourceEvent
<1>2. CASE ServerStep(t, updates)
  BY <1>2, WorldAssumption, ServerAssumption
  DEF ServerStep, ProvisionVM, UnprovisionVM, ServerEvent
<1>3. CASE StorageStep(t, updates)
  BY <1>3, WorldAssumption
  DEF StorageStep, InFailedState, StorageInvalidEvent, HandleVMStorageEvent, AddVM,
      MoveToPending, MoveToProvisioning, MoveToHosted, MoveToStopped, DeleteVM,
      StorageHandles, StorageReceives
<1>4. CASE NobodyStep(t, updates)
  BY <1>4, WorldAssumption DEF NobodyStep
<1> QED BY <1>1, <1>2, <1>3, <1>4

(* The fate of an event for a VM that does not handle it now.              *)
LEMMA OthersKept ==
  ASSUME WorldInv, NEW t \in DOMAIN queue, NEW ACTION updates,
         Framed(t, updates) \/ UNCHANGED evVars,
         NEW e, Queued(e), NextEvent(t).to # e.to
  PROVE  Queued(e)'
<1>1. ASSUME Framed(t, updates) PROVE Queued(e)'
  BY <1>1, FramedKeeps
<1>2. ASSUME UNCHANGED evVars PROVE Queued(e)'
  BY <1>2 DEF evVars, Queued, QueuedAt
<1> QED BY <1>1, <1>2

LEMMA LoopKeepsCompletions ==
  ASSUME WorldInv, CompletionUnderWay, NEW ACTION updates, SimulateNextStep(updates)
  PROVE  CompletionUnderWay'
<1>1. PICK t \in DOMAIN queue :
        \/ ResourceStep(t, updates)
        \/ ServerStep(t, updates)
        \/ VMStep(t, updates)
        \/ StorageStep(t, updates)
        \/ NobodyStep(t, updates)
  BY DEF SimulateNextStep
<1>2. ASSUME NEW v, NEW type, Framed(t, updates) \/ UNCHANGED evVars, NextEvent(t).to # v,
             Queued(VMEvent(v, type))
      PROVE  Queued(VMEvent(v, type))'
  <2>1. PICK e : e = VMEvent(v, type)
    OBVIOUS
  <2>2. Queued(e) /\ e.to = v
    BY <1>2, <2>1 DEF VMEvent
  <2>3. Queued(e)'
    BY <1>2, <2>2, OthersKept
  <2> QED BY <2>1, <2>3 DEF VMEvent
<1>3. CASE \/ ResourceStep(t, updates) \/ ServerStep(t, updates)
           \/ StorageStep(t, updates) \/ NobodyStep(t, updates)
  <2>1. NextEvent(t).to \notin VM
    BY <1>3, OthersLeaveVMs
  <2>2. (Framed(t, updates) \/ UNCHANGED evVars) /\ UNCHANGED vmVars
    BY <1>3, ResourceKeeps, ServerKeeps, StorageKeeps, NobodyKeeps
    DEF ResourceStep
  <2> SUFFICES ASSUME NEW v \in DOMAIN vmState, vmState[v] \in DOMAIN Completion
               PROVE  Queued(VMEvent(v, Completion[vmState[v]]))'
    BY <2>2 DEF vmVars, CompletionUnderWay
  <2>3. v \in VM /\ Queued(VMEvent(v, Completion[vmState[v]]))
    BY DEF WorldInv, ActorsInv, VMTypeOK, CompletionUnderWay
  <2>4. PICK type : type = Completion[vmState[v]]
    OBVIOUS
  <2>5. Queued(VMEvent(v, type))'
    BY <1>2, <2>1, <2>2, <2>3, <2>4
  <2> QED BY <2>2, <2>4, <2>5 DEF vmVars
<1>4. CASE VMStep(t, updates)
  <2>1. PICK w \in DOMAIN vmState : HandleVMEvent(w, t, updates)
    BY <1>4 DEF VMStep
  <2>2. VMChange(w) /\ Framed(t, updates)
    BY <2>1, VMHandled
  <2>3. DOMAIN vmState' = DOMAIN vmState /\ \A v \in DOMAIN vmState : v # w => vmState'[v] = vmState[v]
    BY <2>2 DEF VMChange
  <2>4. NextEvent(t).to = w
    BY <2>1 DEF HandleVMEvent, Start, CompleteStart, Restart, CompleteRestart, Stop, CompleteStop,
       Delete, CompleteDelete, VMInvalidEvent, Transition, VMReceives
  <2> SUFFICES ASSUME NEW v \in DOMAIN vmState, vmState'[v] \in DOMAIN Completion
               PROVE  Queued(VMEvent(v, Completion[vmState[v]]))'
    BY <2>3 DEF CompletionUnderWay
  <2>5. CASE v = w
    BY <2>1, <2>5, HandledIsUnderWay
  <2>6. CASE v # w
    <3>1. PICK type : type = Completion[vmState[v]]
      OBVIOUS
    <3>2. vmState'[v] = vmState[v] /\ Queued(VMEvent(v, type))
      BY <2>3, <2>6, <3>1 DEF CompletionUnderWay
    <3>3. Queued(VMEvent(v, type))'
      BY <1>2, <2>2, <2>4, <2>6, <3>2
    <3> QED BY <3>1, <3>2, <3>3
  <2> QED BY <2>5, <2>6
<1> QED BY <1>1, <1>3, <1>4

LEMMA CompletionStep ==
  ASSUME AnyInv, CompletionUnderWay, [AnyNext]_anyVars
  PROVE  CompletionUnderWay'
<1>0. WorldInv
  BY DEF AnyInv
<1>1. ASSUME VMsAndEventsKept PROVE CompletionUnderWay'
  <2> SUFFICES ASSUME NEW v \in DOMAIN vmState', vmState'[v] \in DOMAIN Completion
               PROVE  Queued(VMEvent(v, Completion[vmState[v]]))'
    BY DEF CompletionUnderWay
  <2>2. v \in DOMAIN vmState /\ vmState'[v] = vmState[v]
    BY <1>1 DEF VMsAndEventsKept, Completion
  <2>3. PICK e : e = VMEvent(v, Completion[vmState[v]])
    OBVIOUS
  <2>4. Queued(e)'
    BY <1>1, <2>2, <2>3 DEF CompletionUnderWay, VMsAndEventsKept
  <2> QED BY <2>2, <2>3, <2>4
<1>2. CASE UNCHANGED <<queue, vmState>>
  BY <1>2 DEF CompletionUnderWay, Queued, QueuedAt
<1>3. CASE ClientCall
  BY <1>0, <1>1, <1>3, CallKeeps
<1>4. CASE Step
  BY <1>0, <1>4, LoopKeepsCompletions DEF Step
<1>5. CASE (SimulateAll \/ SimulateAllReturns) /\ UNCHANGED actorVars
  BY <1>0, <1>2, <1>5, SessionKeeps
<1>6. ASSUME NEW e \in Sendable, NEW ahead \in 0..MaxAhead, NEW immediate \in BOOLEAN,
             ScheduleEvent(e, ahead, immediate)
      PROVE  CompletionUnderWay'
  <2>1. \A f : Queued(f) => Queued(f)'
    BY <1>6, ScheduleEventKeeps
  <2>2. UNCHANGED vmState
    BY <1>6 DEF ScheduleEvent, actorVars, vmVars
  <2>3. VMsAndEventsKept
    BY <2>1, <2>2 DEF VMsAndEventsKept
  <2> QED BY <1>1, <2>3
<1>7. CASE UNCHANGED worldVars
  BY <1>2, <1>7 DEF worldVars
<1> QED BY <1>3, <1>4, <1>5, <1>6, <1>7 DEF AnyNext, UpdateScheduleReturns, anyVars

-----------------------------------------------------------------------------
LEMMA AnyInvInit == AnyInit => AnyInv
BY InitInv DEF AnyInit, AnyInv

(* The type invariant of the world, for a scheduler that may send, each    *)
(* time it is called, any number of the events there are, to any actor it  *)
(* can see, for the present or later: every actor keeps to its states and  *)
(* every event in the queue is for an actor that is registered.            *)
THEOREM AnyTypeCorrect == AnySpec => []WorldTypeOK
<1>1. AnyInv => WorldTypeOK
  BY InvType DEF AnyInv
<1> QED BY <1>1, AnyInvInit, InvStep, PTL DEF AnySpec

(* The server schedulers read the workload of every VM a server hosts      *)
(* (VM::GetWorkload): each of them has one, because creation told the      *)
(* storage only after it had set it, and schedulers see what the storage   *)
(* knows.                                                                  *)
THEOREM WorkloadsAreThere == AnySpec => []HostedHasWorkload
<1>1. AnyInv => HostedHasWorkload
  BY InvType DEF AnyInv
<1> QED BY <1>1, AnyInvInit, InvStep, PTL DEF AnySpec

(* A VM halfway into running, restarting or stopping always has the event  *)
(* that completes the transition still to come, whatever the clients and   *)
(* the scheduler send, and with whatever delays.                           *)
THEOREM CompletionsComing == AnySpec => []CompletionUnderWay
<1>1. AnyInit => CompletionUnderWay
  BY DEF AnyInit, WorldInit, VMInit, CompletionUnderWay
<1> QED BY <1>1, AnyInvInit, InvStep, CompletionStep, PTL DEF AnySpec

-----------------------------------------------------------------------------
(* The VMs of the only server the scheduler uses.                          *)
Placed == hosted[FirstServer]

(* What may wait in the queue when the VMs H are listed: a restart is not  *)
(* sent by anybody, the owner told of a stop is nobody, and a VM is        *)
(* started, and reported hosted, after it was listed.                      *)
PlaceableIn(H) ==
  {e \in WorldEvent :
     /\ e.type # "kRestart"
     /\ e.type = "kUnprovisionVM" => e.to = NoActor
     /\ e.type = "kProvisionVM" => e.to = FirstServer
     /\ e.type = "kStart" => e.to \in H
     /\ e.type = "kVMHosted" => e.vm \in H}

RunningState == {"kStarting", "kRunning", "kRestarting", "kStopping"}

(* The actors' part of the invariant, and all of it. *)
ActorsPlaced ==
  /\ ~crashed
  /\ \A v \in DOMAIN owner : owner[v] = NoActor
  /\ \A v \in DOMAIN vmState : vmState[v] \in RunningState => v \in Placed
  /\ \A v \in DOMAIN vms : vms[v] = "kHostedVM" => v \in Placed

PlacedInv == WorldInv /\ ActorsPlaced /\ QueueTypeOK(PlaceableIn(Placed))

-----------------------------------------------------------------------------
(* What a step of the loop has to show: S is what may wait after it.       *)
PlacedStep(S, t, updates) ==
  /\ ActorsPlaced'
  /\ Placed \subseteq Placed'
  /\ \E at \in Nat, out \in Seq(S) : at >= t /\ EndOfStep(t, at, out, updates)

(* The types PlaceableIn asks something of. *)
Watched == {"kRestart", "kUnprovisionVM", "kProvisionVM", "kStart", "kVMHosted"}

LEMMA OthersPlaceable ==
  ASSUME NEW H, NEW e \in WorldEvent, e.type \notin Watched
  PROVE  e \in PlaceableIn(H)
BY DEF PlaceableIn, Watched

LEMMA CommandPlaceable ==
  ASSUME WorldInv, NEW H, NEW n \in Registered,
         NEW type \in (ResourceEventType \cup VMEventType) \ {"kStart", "kRestart"}
  PROVE  [to |-> n, type |-> type] \in PlaceableIn(H)
<1>1. PICK e : e = [to |-> n, type |-> type]
  OBVIOUS
<1>2. e \in WorldEvent
  BY <1>1, CommandFiled DEF Filed
<1>3. e.type = type /\ type \notin Watched
  BY <1>1 DEF Watched, ResourceEventType, ResourceCommand, VMEventType
<1> QED BY <1>1, <1>2, <1>3, OthersPlaceable

LEMMA NextIsPlaceable ==
  ASSUME PlacedInv, NEW t \in DOMAIN queue
  PROVE  /\ NextEvent(t) \in PlaceableIn(Placed) /\ NextEvent(t) \in Filed
         /\ t \in Nat /\ t >= t
BY DEF PlacedInv, WorldInv, QueueTypeOK, NextEvent

LEMMA SameActors ==
  ASSUME PlacedInv, UNCHANGED <<storageVars, vmVars, serverVars>>
  PROVE  ActorsPlaced' /\ Placed' = Placed
BY DEF PlacedInv, ActorsPlaced, Placed, storageVars, vmVars, serverVars

LEMMA ResourcePlaces ==
  ASSUME PlacedInv, NEW t \in DOMAIN queue, NEW ACTION updates, ResourceStep(t, updates),
         NEW S, S = PlaceableIn(Placed')
  PROVE  PlacedStep(S, t, updates)
<1>1. PICK r \in Resource : HandleResourceEvent(r, t, updates) \/ ResourceInvalidEvent(r, t, updates)
  BY DEF ResourceStep
<1>2. ActorsPlaced' /\ Placed' = Placed
  BY SameActors DEF ResourceStep
<1>3. t \in Nat /\ t >= t /\ << >> \in Seq(S)
  BY NextIsPlaceable
<1>4. \A n \in Resource, type \in ResourceEventType : ResourceEvent(n, type) \in S
  BY CommandPlaceable DEF PlacedInv, ResourceEvent, Registered, ResourceEventType, ResourceCommand
<1>5. \A command, finished \in ResourceEventType : Cascade(r, command, finished) \in Seq(S)
  BY <1>4, CascadeOf
<1>6. CASE StartBoot(r, t, updates)
  <2>1. t + StartupDelay[r] \in Nat /\ t + StartupDelay[r] >= t
    BY <1>3, ResourceAssumption
  <2>2. Cascade(r, "kBoot", "kBootFinished") \in Seq(S)
    BY <1>5 DEF ResourceEventType, ResourceCommand
  <2>3. EndOfStep(t, t + StartupDelay[r], Cascade(r, "kBoot", "kBootFinished"), updates)
    BY <1>6 DEF StartBoot
  <2> QED BY <1>2, <2>1, <2>2, <2>3 DEF PlacedStep
<1>7. CASE StartShutdown(r, t, updates)
  <2>1. t + ShutdownDelay[r] \in Nat /\ t + ShutdownDelay[r] >= t
    BY <1>3, ResourceAssumption
  <2>2. Cascade(r, "kShutdown", "kShutdownFinished") \in Seq(S)
    BY <1>5 DEF ResourceEventType, ResourceCommand
  <2>3. EndOfStep(t, t + ShutdownDelay[r], Cascade(r, "kShutdown", "kShutdownFinished"), updates)
    BY <1>7 DEF StartShutdown
  <2> QED BY <1>2, <2>1, <2>2, <2>3 DEF PlacedStep
<1>8. CASE EndOfStep(t, t, << >>, updates)
  BY <1>2, <1>3, <1>8 DEF PlacedStep
<1>9. CASE \/ BootIgnored(r, t, updates) \/ ShutdownIgnored(r, t, updates)
           \/ StartReboot(r, t, updates) \/ CompleteBoot(r, t, updates)
           \/ CompleteShutdown(r, t, updates) \/ ResourceInvalidEvent(r, t, updates)
  BY <1>8, <1>9 DEF BootIgnored, ShutdownIgnored, StartReboot, CompleteBoot, CompleteShutdown,
                    ResourceInvalidEvent, NothingScheduled
<1> QED BY <1>1, <1>6, <1>7, <1>9 DEF HandleResourceEvent

(* The server lists the VM before it starts it; it is never told to let go *)
(* of one.                                                                 *)
LEMMA ServerPlaces ==
  ASSUME PlacedInv, NEW t \in DOMAIN queue, NEW ACTION updates, ServerStep(t, updates),
         NEW S, S = PlaceableIn(Placed')
  PROVE  PlacedStep(S, t, updates)
<1>1. PICK s \in Servers, v \in VM : ProvisionVM(s, v, t, updates) \/ UnprovisionVM(s, v, t, updates)
  BY DEF ServerStep
<1>2. NextEvent(t) \in PlaceableIn(Placed) /\ NextEvent(t) \in Filed
      /\ t \in Nat /\ t >= t /\ << >> \in Seq(S)
  BY NextIsPlaceable
<1>3. ~UnprovisionVM(s, v, t, updates)
  BY <1>2, ServerAssumption, WorldAssumption DEF UnprovisionVM, PlaceableIn
<1>4. ProvisionVM(s, v, t, updates)
  BY <1>1, <1>3
<1>5. NextEvent(t).type = "kProvisionVM" /\ NextEvent(t).to = s /\ NextEvent(t).vm = v
  BY <1>4 DEF ProvisionVM, ServerEvent
<1>6. s = FirstServer /\ v \in Complete
  BY <1>2, <1>5 DEF PlaceableIn, Filed
<1>7. hosted \in [Servers -> SUBSET VM]
  BY DEF PlacedInv, WorldInv, ActorsInv, ServerTypeOK
<1>8. UNCHANGED <<storageVars, vmVars>> /\ UNCHANGED crashed
  BY <1>4 DEF ServerStep, ProvisionVM
<1>9. ASSUME Placed \subseteq Placed' PROVE ActorsPlaced'
  BY <1>8, <1>9 DEF PlacedInv, ActorsPlaced, storageVars, vmVars
<1>10. CASE hosted' = [hosted EXCEPT ![s] = @ \cup {v}] /\ EndOfStep(t, t, <<StartEvent(v, s)>>, updates)
  <2>1. Placed \subseteq Placed' /\ v \in Placed'
    BY <1>6, <1>7, <1>10 DEF Placed
  <2>2. PICK e : e = StartEvent(v, s)
    OBVIOUS
  <2>3. e \in WorldEvent /\ e.type = "kStart" /\ e.to = v
    BY <1>6, <2>2, PlacementFiled DEF PlacedInv, Filed, StartEvent
  <2>4. e \in S
    BY <2>1, <2>3 DEF PlaceableIn
  <2>5. <<StartEvent(v, s)>> \in Seq(S)
    BY <2>2, <2>4
  <2> QED BY <1>2, <1>9, <1>10, <2>1, <2>5 DEF PlacedStep
<1>11. CASE UNCHANGED hosted /\ EndOfStep(t, t, << >>, updates)
  <2>1. Placed \subseteq Placed'
    BY <1>11 DEF Placed
  <2> QED BY <1>2, <1>9, <1>11, <2>1 DEF PlacedStep
<1> QED BY <1>4, <1>10, <1>11 DEF ProvisionVM

(* The part every transition of a VM has in common. *)
LEMMA TransitionPlaces ==
  ASSUME PlacedInv, NEW t \in DOMAIN queue, NEW ACTION updates, NEW v \in DOMAIN vmState,
         NEW S, NEW type, NEW expected, NEW next, NEW STATE at, at \in Nat, at >= t,
         NEW STATE out, Transition(v, type, expected, next, at, out, t, updates),
         vmState[v] \in expected => out \in Seq(S) /\ (next \in RunningState => v \in Placed)
  PROVE  /\ \E when \in Nat, es \in Seq(S) : when >= t /\ EndOfStep(t, when, es, updates)
         /\ DOMAIN vmState' = DOMAIN vmState
         /\ \A w \in DOMAIN vmState : vmState'[w] \in RunningState => w \in Placed
<1>1. t \in Nat /\ t >= t /\ << >> \in Seq(S)
  BY NextIsPlaceable
<1>2. \A w \in DOMAIN vmState : vmState[w] \in RunningState => w \in Placed
  BY DEF PlacedInv, ActorsPlaced
<1>3. CASE vmState[v] \in expected /\ vmState' = [vmState EXCEPT ![v] = next]
           /\ EndOfStep(t, at, out, updates)
  BY <1>2, <1>3
<1>4. CASE vmState' = [vmState EXCEPT ![v] = "kFailure"] /\ EndOfStep(t, t, << >>, updates)
  <2>1. "kFailure" \notin RunningState
    BY DEF RunningState
  <2>2. DOMAIN vmState' = DOMAIN vmState /\ vmState'[v] = "kFailure"
        /\ \A w \in DOMAIN vmState : w # v => vmState'[w] = vmState[w]
    BY <1>4
  <2> QED BY <1>1, <1>2, <1>4, <2>1, <2>2
<1> QED BY <1>3, <1>4 DEF Transition

LEMMA VMPlaces ==
  ASSUME PlacedInv, NEW t \in DOMAIN queue, NEW ACTION updates, VMStep(t, updates),
         NEW S, S = PlaceableIn(Placed')
  PROVE  PlacedStep(S, t, updates)
<1>1. PICK v \in DOMAIN vmState : HandleVMEvent(v, t, updates)
  BY DEF VMStep
<1>2. UNCHANGED <<storageVars, serverVars>> /\ Placed' = Placed
  BY DEF VMStep, serverVars, Placed
<1>3. /\ NextEvent(t) \in PlaceableIn(Placed) /\ t \in Nat /\ t >= t
      /\ S = PlaceableIn(Placed) /\ WorldInv /\ owner[v] = NoActor /\ v \in VM
      /\ \A w \in DOMAIN owner : owner[w] = NoActor
      /\ \A w \in DOMAIN vmState : vmState[w] \in RunningState => w \in Placed
  BY <1>2, NextIsPlaceable DEF PlacedInv, WorldInv, ActorsInv, ActorsPlaced, VMTypeOK
<1>4. /\ t + StartDelay \in Nat /\ t + StartDelay >= t
      /\ t + RestartDelay \in Nat /\ t + RestartDelay >= t
      /\ t + StopDelay \in Nat /\ t + StopDelay >= t
      /\ t + DeleteDelay \in Nat /\ t + DeleteDelay >= t
  BY <1>3, VMAssumption
<1>5. \A type \in VMEventType \ {"kStart", "kRestart"} : <<VMEvent(v, type)>> \in Seq(S)
  <2>1. \A type \in VMEventType \ {"kStart", "kRestart"} : VMEvent(v, type) \in S
    BY <1>3, CommandPlaceable DEF VMEvent, Registered
  <2> QED BY <2>1
<1>6. v \in Placed => <<ReportToStorage("kVMHosted", v)>> \in Seq(S)
  <2> SUFFICES ASSUME v \in Placed PROVE <<ReportToStorage("kVMHosted", v)>> \in Seq(S)
    OBVIOUS
  <2>1. PICK e : e = ReportToStorage("kVMHosted", v)
    OBVIOUS
  <2>2. e \in WorldEvent
    BY <1>3, <2>1, ReportFiled DEF Filed
  <2>3. e.type = "kVMHosted" /\ e.vm = v
    BY <2>1 DEF ReportToStorage, VMStorageEvent
  <2>4. e \in S
    BY <1>3, <2>2, <2>3 DEF PlaceableIn
  <2> QED BY <2>1, <2>4
<1>7. <<ReportToStorage("kVMDeleted", v)>> \in Seq(S)
  <2>1. PICK e : e = ReportToStorage("kVMDeleted", v)
    OBVIOUS
  <2>2. e \in WorldEvent
    BY <1>3, <2>1, ReportFiled DEF Filed
  <2>3. e.type = "kVMDeleted"
    BY <2>1 DEF ReportToStorage, VMStorageEvent
  <2>4. e \in S
    BY <1>3, <2>2, <2>3, OthersPlaceable DEF Watched
  <2> QED BY <2>1, <2>4
<1>8. <<UnprovisionEvent(owner[v], v, << >>)>> \in Seq(S)
  <2>1. PICK e : e = UnprovisionEvent(owner[v], v, << >>)
    OBVIOUS
  <2>2. e \in WorldEvent
    BY <1>3, <2>1, UnprovisionFiled DEF Filed
  <2>3. e.type = "kUnprovisionVM" /\ e.to = NoActor
    BY <1>3, <2>1 DEF UnprovisionEvent
  <2>4. e \in S
    BY <1>3, <2>2, <2>3 DEF PlaceableIn
  <2> QED BY <2>1, <2>4
<1>9. << >> \in Seq(S)
  OBVIOUS
<1> DEFINE Outcome ==
      /\ \E when \in Nat, es \in Seq(S) : when >= t /\ EndOfStep(t, when, es, updates)
      /\ DOMAIN vmState' = DOMAIN vmState
      /\ \A w \in DOMAIN vmState : vmState'[w] \in RunningState => w \in Placed
<1>10. CASE Start(v, t, updates)
  <2>1. NextEvent(t).type = "kStart" /\ NextEvent(t).to = v
    BY <1>10 DEF Start, Transition, VMReceives
  <2>2. v \in Placed
    BY <1>3, <2>1 DEF PlaceableIn
  <2>3. <<VMEvent(v, "kStartCompleted")>> \in Seq(S)
    BY <1>5 DEF VMEventType
  <2>4. Outcome
    BY <1>4, <1>10, <2>2, <2>3, TransitionPlaces DEF Start
  <2> QED BY <1>2, <1>3, <1>10, <2>4 DEF Start, PlacedStep, ActorsPlaced, PlacedInv, storageVars, serverVars
<1>11. CASE CompleteStart(v, t, updates)
  <2>1. vmState[v] \in {"kStarting"} => v \in Placed
    BY <1>3 DEF RunningState
  <2>2. Outcome
    BY <1>3, <1>6, <1>11, <2>1, TransitionPlaces DEF CompleteStart
  <2> QED BY <1>2, <1>3, <1>11, <2>2 DEF CompleteStart, PlacedStep, ActorsPlaced, PlacedInv, storageVars, serverVars
<1>12. ~Restart(v, t, updates)
  BY <1>3 DEF Restart, Transition, PlaceableIn
<1>13. CASE CompleteRestart(v, t, updates)
  <2>1. vmState[v] \in {"kRestarting"} => v \in Placed
    BY <1>3 DEF RunningState
  <2>2. Outcome
    BY <1>3, <1>9, <1>13, <2>1, TransitionPlaces DEF CompleteRestart
  <2> QED BY <1>2, <1>3, <1>13, <2>2 DEF CompleteRestart, PlacedStep, ActorsPlaced, PlacedInv, storageVars, serverVars
<1>14. CASE Stop(v, t, updates)
  <2>1. vmState[v] \in {"kRunning"} => v \in Placed
    BY <1>3 DEF RunningState
  <2>2. <<VMEvent(v, "kStopCompleted")>> \in Seq(S)
    BY <1>5 DEF VMEventType
  <2>3. Outcome
    BY <1>4, <1>14, <2>1, <2>2, TransitionPlaces DEF Stop
  <2> QED BY <1>2, <1>3, <1>14, <2>3 DEF Stop, PlacedStep, ActorsPlaced, PlacedInv, storageVars, serverVars
<1>15. CASE CompleteStop(v, t, updates)
  <2>1. "kStopped" \notin RunningState
    BY DEF RunningState
  <2>2. Outcome
    BY <1>3, <1>8, <1>15, <2>1, TransitionPlaces DEF CompleteStop
  <2>3. \A w \in DOMAIN owner' : owner'[w] = NoActor
    BY <1>3, <1>15 DEF CompleteStop
  <2> QED BY <1>2, <1>3, <2>2, <2>3 DEF PlacedStep, ActorsPlaced, PlacedInv, storageVars, serverVars
<1>16. CASE Delete(v, t, updates)
  <2>1. "kDeleting" \notin RunningState
    BY DEF RunningState
  <2>2. <<VMEvent(v, "kDeleteCompleted")>> \in Seq(S)
    BY <1>5 DEF VMEventType
  <2>3. Outcome
    BY <1>4, <1>16, <2>1, <2>2, TransitionPlaces DEF Delete
  <2> QED BY <1>2, <1>3, <1>16, <2>3 DEF Delete, PlacedStep, ActorsPlaced, PlacedInv, storageVars, serverVars
<1>17. CASE CompleteDelete(v, t, updates)
  <2>1. "kDeleting" \notin RunningState
    BY DEF RunningState
  <2>2. <<IF owner[v] # NoActor THEN UnprovisionEvent(owner[v], v, << >>)
          ELSE ReportToStorage("kVMDeleted", v)>> \in Seq(S)
    BY <1>3, <1>7
  <2>3. Outcome
    BY <1>3, <1>17, <2>1, <2>2, TransitionPlaces DEF CompleteDelete
  <2> QED BY <1>2, <1>3, <1>17, <2>3 DEF CompleteDelete, PlacedStep, ActorsPlaced, PlacedInv, storageVars, serverVars
<1>18. CASE VMInvalidEvent(v, t, updates)
  <2>1. "kFailure" \notin RunningState
    BY DEF RunningState
  <2>2. DOMAIN vmState' = DOMAIN vmState /\ vmState'[v] = "kFailure"
        /\ \A w \in DOMAIN vmState : w # v => vmState'[w] = vmState[w]
    BY <1>18 DEF VMInvalidEvent
  <2>3. Outcome
    BY <1>3, <1>9, <1>18, <2>1, <2>2 DEF VMInvalidEvent
  <2> QED BY <1>2, <1>3, <1>18, <2>3 DEF VMInvalidEvent, PlacedStep, ActorsPlaced, PlacedInv, storageVars, serverVars
<1> QED BY <1>1, <1>10, <1>11, <1>12, <1>13, <1>14, <1>15, <1>16, <1>17, <1>18 DEF HandleVMEvent

(* The storage calls hosted only what was reported to it.                  *)
LEMMA StoragePlaces ==
  ASSUME PlacedInv, NEW t \in DOMAIN queue, NEW ACTION updates, StorageStep(t, updates),
         NEW S, S = PlaceableIn(Placed')
  PROVE  PlacedStep(S, t, updates)
<1> USE DEF UpdateOrFail, StorageHandles, StorageReceives
<1>1. UNCHANGED <<power, serverVars, vmVars>> /\ Placed' = Placed
  BY DEF StorageStep, serverVars, Placed
<1>2. EndOfStep(t, t, << >>, updates)
  BY DEF StorageStep, InFailedState, StorageInvalidEvent, HandleVMStorageEvent, AddVM,
         MoveToPending, MoveToProvisioning, MoveToHosted, MoveToStopped, DeleteVM
<1>3. NextEvent(t) \in PlaceableIn(Placed) /\ t \in Nat /\ t >= t /\ << >> \in Seq(S)
  BY NextIsPlaceable
<1>4. \A w \in DOMAIN vms : vms[w] = "kHostedVM" => w \in Placed
  BY DEF PlacedInv, ActorsPlaced
<1>5. \A w \in DOMAIN vms' : vms'[w] = "kHostedVM" => w \in Placed
  <2>1. CASE vms' = vms
    BY <1>4, <2>1
  <2>2. CASE \E v \in Registered, status \in VMStatus \ {"kHostedVM"} : vms' = WithStatus(v, status)
    BY <1>4, <2>2 DEF WithStatus
  <2>3. CASE \E v \in Registered : vms' = [w \in DOMAIN vms \ {v} |-> vms[w]]
    BY <1>4, <2>3
  <2>4. CASE InFailedState(t, updates) \/ StorageInvalidEvent(t, updates)
    BY <2>1, <2>4 DEF InFailedState, StorageInvalidEvent, storageVars
  <2>5. ASSUME NEW v \in Registered,
               \/ AddVM(v, t, updates) \/ MoveToPending(v, t, updates)
               \/ MoveToProvisioning(v, t, updates) \/ MoveToStopped(v, t, updates)
        PROVE  <1>5!:
    BY <2>1, <2>2, <2>5 DEF AddVM, MoveToPending, MoveToProvisioning, MoveToStopped, VMStatus
  <2>6. ASSUME NEW v \in Registered, MoveToHosted(v, t, updates)
        PROVE  <1>5!:
    <3>1. NextEvent(t).type = "kVMHosted" /\ NextEvent(t).vm = v
      BY <2>6 DEF MoveToHosted, VMStorageEvent
    <3>2. v \in Placed
      BY <1>3, <3>1 DEF PlaceableIn
    <3> QED BY <1>4, <2>6, <3>2 DEF MoveToHosted, WithStatus
  <2>7. ASSUME NEW v \in Registered, DeleteVM(v, t, updates)
        PROVE  <1>5!:
    BY <2>1, <2>3, <2>7 DEF DeleteVM
  <2> QED BY <2>4, <2>5, <2>6, <2>7 DEF StorageStep, HandleVMStorageEvent
<1> QED BY <1>1, <1>2, <1>3, <1>5 DEF PlacedStep, ActorsPlaced, PlacedInv, serverVars, vmVars

LEMMA NobodyPlaces ==
  ASSUME PlacedInv, NEW t \in DOMAIN queue, NEW ACTION updates, NobodyStep(t, updates),
         NEW S, S = PlaceableIn(Placed')
  PROVE  PlacedStep(S, t, updates)
<1>1. ActorsPlaced' /\ Placed' = Placed
  BY SameActors DEF NobodyStep, actorVars
<1>2. t \in Nat /\ t >= t /\ << >> \in Seq(S)
  BY NextIsPlaceable
<1> QED BY <1>1, <1>2 DEF PlacedStep, NobodyStep

-----------------------------------------------------------------------------
(* The invariant is inductive. *)
LEMMA LoopPlaces ==
  ASSUME PlacedInv, SimulateNextStep(UpdateWorld)
  PROVE  PlacedInv'
<1>1. WorldInv /\ WorldInv' /\ Complete' = Complete
  BY UpdatesFiled, LoopKeeps DEF PlacedInv
<1>2. PICK t \in DOMAIN queue :
        \/ ResourceStep(t, UpdateWorld)
        \/ ServerStep(t, UpdateWorld)
        \/ VMStep(t, UpdateWorld)
        \/ StorageStep(t, UpdateWorld)
        \/ NobodyStep(t, UpdateWorld)
  BY DEF SimulateNextStep
<1>3. PICK S : S = PlaceableIn(Placed')
  OBVIOUS
<1>4. PlacedStep(S, t, UpdateWorld)
  BY <1>2, <1>3, ResourcePlaces, ServerPlaces, VMPlaces, StoragePlaces, NobodyPlaces
<1>5. ActorsPlaced' /\ Placed \subseteq Placed'
  BY <1>4 DEF PlacedStep
<1>6. PICK at \in Nat : \E out \in Seq(S) : at >= t /\ EndOfStep(t, at, out, UpdateWorld)
  BY <1>4 DEF PlacedStep
<1>7. PICK out \in Seq(S) : at >= t /\ EndOfStep(t, at, out, UpdateWorld)
  BY <1>6
<1>8. QueueTypeOK(S)
  <2>1. PlaceableIn(Placed) \subseteq S
    BY <1>3, <1>5 DEF PlaceableIn
  <2>2. \A d \in Seq(PlaceableIn(Placed)) : d \in Seq(S)
    BY <2>1
  <2> QED BY <2>2 DEF PlacedInv, QueueTypeOK
<1>9. \A u \in UpdateWorld : u \in Seq(S)
  <2>1. \A v \in Complete : /\ VMStorageEvent("kVMScheduled", v) \in S
                          /\ ServerEvent(FirstServer, "kProvisionVM", v) \in S
    <3> SUFFICES ASSUME NEW v \in Complete
                 PROVE  /\ VMStorageEvent("kVMScheduled", v) \in S
                        /\ ServerEvent(FirstServer, "kProvisionVM", v) \in S
      OBVIOUS
    <3>1. v \in Named
      BY <1>1 DEF Complete, Named, WorldInv, ActorsInv, VMTypeOK
    <3>2. PICK e : e = VMStorageEvent("kVMScheduled", v)
      OBVIOUS
    <3>3. e \in WorldEvent /\ e.type = "kVMScheduled"
      BY <1>1, <3>1, <3>2, StorageEventFiled DEF VMStorageEventType, Filed, VMStorageEvent
    <3>4. e \in S
      BY <1>3, <3>3, OthersPlaceable DEF Watched
    <3>5. PICK f : f = ServerEvent(FirstServer, "kProvisionVM", v)
      OBVIOUS
    <3>6. f \in WorldEvent /\ f.type = "kProvisionVM" /\ f.to = FirstServer
      BY <1>1, <3>5, PlacementFiled, FirstServerAssumption DEF Filed, ServerEvent
    <3>7. f \in S
      BY <1>3, <3>6 DEF PlaceableIn
    <3> QED BY <3>2, <3>4, <3>5, <3>7
  <2> QED BY <1>1, <2>1, UpdatesOf DEF WorldInv
<1>10. QueueTypeOK(S)'
  BY <1>7, <1>8, <1>9, StepQueueType
<1>11. QueueTypeOK(PlaceableIn(Placed))'
  BY <1>3, <1>10 DEF QueueTypeOK, PlaceableIn, WorldEvent
<1> QED BY <1>1, <1>5, <1>11 DEF PlacedInv

(* A call files nothing that the invariant asks anything of, and a new VM  *)
(* neither runs nor has an owner.                                          *)
LEMMA CallPlaces ==
  ASSUME PlacedInv, ClientCall
  PROVE  PlacedInv'
<1>1. WorldInv /\ WorldInv'
  BY CallKeeps DEF PlacedInv
<1>2. PICK S : S = PlaceableIn(Placed)
  OBVIOUS
<1>3. QueueTypeOK(S)
  BY <1>2 DEF PlacedInv
<1>4. UNCHANGED <<hosted, crashed, vms>>
  BY DEF ClientCall, DoResourceAction, DoProvisionVM, DoVMAction, CreateVM, CreateVMFails,
         actorVars, serverVars, storageVars
<1>5. ASSUME NEW e \in WorldEvent, e.type \notin Watched, NEW immediate \in BOOLEAN,
             Submit(e, immediate)
      PROVE  QueueTypeOK(S)'
  <2>1. e \in S
    BY <1>2, <1>5, OthersPlaceable
  <2> QED BY <1>3, <1>5, <2>1, InsertNow DEF Submit
<1> DEFINE Called ==
             /\ QueueTypeOK(S)'
             /\ \/ UNCHANGED vmVars
                \/ \E v \in VM : \E handle : v \notin Registered /\ MakeVM(v, handle)
<1>6. Called
  <2>1. ASSUME NEW n \in Named, NEW type \in ResourceCommand, DoResourceAction(type, n)
        PROVE  Called
    <3>1. PICK e : e = ResourceEvent(n, type)
      OBVIOUS
    <3>2. e \in WorldEvent /\ e.type = type
      BY <1>1, <2>1, <3>1, CommandFiled DEF DoResourceAction, ResourceEvent, ResourceEventType, Filed
    <3>3. type \notin Watched
      BY DEF ResourceCommand, Watched
    <3> QED BY <1>5, <2>1, <3>1, <3>2, <3>3 DEF DoResourceAction, actorVars
  <2>2. ASSUME NEW n \in Named, DoProvisionVM(n)
        PROVE  Called
    <3>1. PICK e : e = VMStorageEvent("kVMProvisionRequested", n)
      OBVIOUS
    <3>2. e \in WorldEvent /\ e.type \notin Watched
      BY <1>1, <3>1, StorageEventFiled DEF VMStorageEventType, VMStorageEvent, Filed, Watched
    <3> QED BY <1>5, <2>2, <3>1, <3>2 DEF DoProvisionVM, actorVars
  <2>3. ASSUME NEW n \in Named, NEW type \in {"kStop", "kDelete"}, DoVMAction(type, n)
        PROVE  Called
    <3>1. PICK e : e = VMEvent(n, type)
      OBVIOUS
    <3>2. e \in WorldEvent /\ e.type \notin Watched
      BY <1>1, <2>3, <3>1, CommandFiled DEF DoVMAction, VMEvent, VMEventType, Filed, Watched
    <3> QED BY <1>5, <2>3, <3>1, <3>2 DEF DoVMAction, actorVars
  <2>4. ASSUME NEW v \in VM, CreateVM(v)
        PROVE  Called
    <3>1. PICK e : e = VMStorageEvent("kVMCreated", v)
      OBVIOUS
    <3>2. e \in [to : {Storage}, type : VMStorageEventType, vm : Named] /\ e.type = "kVMCreated"
      BY <3>1 DEF VMStorageEvent, VMStorageEventType, Named
    <3>3. e \in WorldEvent /\ e.type \notin Watched
      BY <3>2 DEF WorldEvent, Watched
    <3> QED BY <1>5, <2>4, <3>1, <3>3 DEF CreateVM
  <2>5. ASSUME NEW v \in VM, CreateVMFails(v)
        PROVE  Called
    <3>1. UNCHANGED <<queue, now>>
      BY <2>5 DEF CreateVMFails, Refuse
    <3> QED BY <1>3, <2>5, <3>1 DEF CreateVMFails, QueueTypeOK
  <2> QED BY <2>1, <2>2, <2>3, <2>4, <2>5 DEF ClientCall, Named
<1>7. QueueTypeOK(PlaceableIn(Placed))'
  BY <1>2, <1>4, <1>6 DEF QueueTypeOK, PlaceableIn, WorldEvent, Placed
<1>8. ActorsPlaced'
  <2>1. ActorsPlaced /\ Placed' = Placed
    BY <1>4 DEF PlacedInv, Placed
  <2>2. CASE UNCHANGED vmVars
    BY <1>4, <2>1, <2>2 DEF ActorsPlaced, vmVars
  <2>3. CASE \E v \in VM : \E handle : v \notin Registered /\ MakeVM(v, handle)
    <3>1. PICK v \in VM : v \notin Registered /\ \E handle : MakeVM(v, handle)
      BY <2>3
    <3>2. v \notin DOMAIN vmState /\ DOMAIN owner = DOMAIN vmState
      BY <1>1, <3>1 DEF Registered, WorldInv, ActorsInv, VMTypeOK
    <3>3. /\ \A w \in DOMAIN vmState' : vmState'[w] = IF w = v THEN "kProvisioning" ELSE vmState[w]
          /\ \A w \in DOMAIN owner' : owner'[w] = IF w = v THEN NoActor ELSE owner[w]
          /\ DOMAIN vmState' = DOMAIN vmState \cup {v} /\ DOMAIN owner' = DOMAIN vmState \cup {v}
      BY <3>1 DEF MakeVM
    <3>4. "kProvisioning" \notin RunningState
      BY DEF RunningState
    <3> QED BY <1>4, <2>1, <3>2, <3>3, <3>4 DEF ActorsPlaced
  <2> QED BY <1>6, <2>2, <2>3
<1> QED BY <1>1, <1>7, <1>8 DEF PlacedInv

LEMMA PlacedInit == WorldInit => PlacedInv
<1> SUFFICES ASSUME WorldInit PROVE PlacedInv
  OBVIOUS
<1>1. WorldInv
  BY InitInv
<1>2. DOMAIN vms = {} /\ DOMAIN vmState = {} /\ DOMAIN owner = {} /\ crashed = FALSE
  BY DEF WorldInit, StorageInit, VMInit, ServerInit
<1>3. ActorsPlaced
  BY <1>2 DEF ActorsPlaced
<1>4. queue = << >> /\ now = 1
  BY DEF WorldInit, EvInit
<1>5. DOMAIN queue = {}
  BY <1>4
<1>6. QueueTypeOK(PlaceableIn(Placed))
  BY <1>4, <1>5 DEF QueueTypeOK
<1> QED BY <1>1, <1>3, <1>6 DEF PlacedInv

LEMMA PlacedNext == PlacedInv /\ [WorldNext]_worldVars => PlacedInv'
<1> SUFFICES ASSUME PlacedInv, [WorldNext]_worldVars PROVE PlacedInv'
  OBVIOUS
<1>1. CASE ClientCall
  BY <1>1, CallPlaces
<1>2. CASE SimulateNextStep(UpdateWorld)
  BY <1>2, LoopPlaces
<1>3. ASSUME UNCHANGED <<queue, now, actorVars>>, WorldInv' PROVE PlacedInv'
  <2>1. ActorsPlaced' /\ Placed' = Placed
    BY <1>3, SameActors DEF actorVars
  <2> QED BY <1>3, <2>1 DEF PlacedInv, QueueTypeOK, PlaceableIn, WorldEvent
<1>4. CASE (SimulateAll \/ SimulateAllReturns) /\ UNCHANGED actorVars
  <2>1. WorldInv' /\ UNCHANGED <<queue, now>>
    BY <1>4, SessionKeeps DEF PlacedInv, SimulateAll, SimulateAllReturns
  <2> QED BY <1>3, <1>4, <2>1
<1>5. CASE UNCHANGED worldVars
  <2>1. UNCHANGED <<queue, now, actorVars>> /\ SessionTypeOK'
    BY <1>5 DEF worldVars, actorVars, serverVars, vmVars, storageVars, PlacedInv, WorldInv, SessionTypeOK
  <2>2. WorldInv'
    BY <2>1, Stutter DEF PlacedInv
  <2> QED BY <1>3, <2>1, <2>2
<1> QED BY <1>1, <1>2, <1>4, <1>5 DEF WorldNext

LEMMA PlacedMeans == PlacedInv => HostedIsPlaced /\ NeverCrashes /\ HostedHasWorkload
<1> SUFFICES ASSUME PlacedInv PROVE HostedIsPlaced /\ NeverCrashes /\ HostedHasWorkload
  OBVIOUS
<1>1. HostedHasWorkload
  BY InvType DEF PlacedInv
<1>2. HostedIsPlaced /\ NeverCrashes
  BY DEF PlacedInv, ActorsPlaced, HostedIsPlaced, NeverCrashes, RunningState, Placed
<1> QED BY <1>1, <1>2

(* Whatever fails, and in whatever order the clients' commands come: what  *)
(* the storage calls hosted, and every VM that starts, runs or stops, is   *)
(* in the set of the server the scheduler chose.                           *)
THEOREM RunningIsListed == WorldSafetySpec => []HostedIsPlaced
<1> QED BY PlacedInit, PlacedNext, PlacedMeans, PTL DEF WorldSafetySpec

(* Server::UnprovisionVM never dereferences the notificator nobody sets:   *)
(* no VM has an owner, so no event reaches the handler.                    *)
THEOREM NotificatorNotRead == WorldSafetySpec => []NeverCrashes
<1> QED BY PlacedInit, PlacedNext, PlacedMeans, PTL DEF WorldSafetySpec

-----------------------------------------------------------------------------
(* A VM that a server has taken in and that has not been started has its   *)
(* start under way: one left kProvisioning for good is no server's.        *)
StartUnderWay ==
  \A s \in Servers : \A v \in hosted[s] :
    vmState[v] = "kProvisioning" => Queued(StartEvent(v, s))

LEMMA ServerKeepsStarts ==
  ASSUME WorldInv, StartUnderWay, NEW t \in DOMAIN queue, NEW ACTION updates,
         ServerStep(t, updates)
  PROVE  StartUnderWay'
<1>1. /\ Framed(t, updates) \/ UNCHANGED evVars
      /\ UNCHANGED vmVars /\ NextEvent(t).to \notin VM
  BY ServerKeeps, OthersLeaveVMs
<1>2. PICK r \in Servers, w \in VM : ProvisionVM(r, w, t, updates) \/ UnprovisionVM(r, w, t, updates)
  BY DEF ServerStep
<1>3. \A s \in Servers : hosted[s] \subseteq Complete /\ hosted[s] \subseteq VM
  BY DEF WorldInv, ActorsInv, ServerTypeOK
<1> SUFFICES ASSUME NEW s \in Servers, NEW v \in hosted'[s], vmState[v] = "kProvisioning"
             PROVE  Queued(StartEvent(v, s))'
  BY <1>1 DEF vmVars, StartUnderWay
<1>4. PICK e : e = StartEvent(v, s)
  OBVIOUS
<1>5. CASE v \in hosted[s]
  <2>1. Queued(e) /\ e.to = v /\ v \in VM
    BY <1>3, <1>4, <1>5 DEF StartUnderWay, StartEvent
  <2>2. Queued(e)'
    BY <1>1, <2>1, OthersKept
  <2> QED BY <1>4, <2>2
<1>6. CASE v \notin hosted[s]
  <2>1. hosted \in [Servers -> SUBSET VM]
    BY DEF WorldInv, ActorsInv, ServerTypeOK
  <2>2. /\ ProvisionVM(r, w, t, updates) /\ r = s /\ w = v
        /\ EndOfStep(t, t, <<StartEvent(w, r)>>, updates)
    BY <1>2, <1>6, <2>1 DEF ProvisionVM, UnprovisionVM, serverVars
  <2>3. NextEvent(t) \in Filed /\ NextEvent(t).type = "kProvisionVM" /\ NextEvent(t).vm = v
    BY <2>2 DEF ProvisionVM, ServerEvent, NextEvent, WorldInv, QueueTypeOK
  <2>4. e \in Filed
    BY <1>4, <2>3, PlacementFiled DEF Filed
  <2>5. PICK S : S = Filed
    OBVIOUS
  <2>6. /\ QueueTypeOK(S) /\ <<e>> \in Seq(S) /\ 1 \in 1..Len(<<e>>) /\ e = <<e>>[1]
        /\ t \in Nat /\ t >= t
    BY <2>4, <2>5 DEF WorldInv, QueueTypeOK
  <2>7. Queued(e)'
    BY <1>4, <2>2, <2>6, StepFiles
  <2> QED BY <1>4, <2>7
<1> QED BY <1>5, <1>6

LEMMA LoopKeepsStarts ==
  ASSUME WorldInv, StartUnderWay, NEW ACTION updates, SimulateNextStep(updates)
  PROVE  StartUnderWay'
<1>1. PICK t \in DOMAIN queue :
        \/ ResourceStep(t, updates)
        \/ ServerStep(t, updates)
        \/ VMStep(t, updates)
        \/ StorageStep(t, updates)
        \/ NobodyStep(t, updates)
  BY DEF SimulateNextStep
<1>2. \A s \in Servers : hosted[s] \subseteq Complete /\ hosted[s] \subseteq VM
  BY DEF WorldInv, ActorsInv, ServerTypeOK
<1>3. ASSUME UNCHANGED hosted, Framed(t, updates),
             \A s \in Servers : \A v \in hosted[s] : vmState'[v] = "kProvisioning" =>
               vmState[v] = "kProvisioning" /\ NextEvent(t).to # v
      PROVE  StartUnderWay'
  <2> SUFFICES ASSUME NEW s \in Servers, NEW v \in hosted[s], vmState'[v] = "kProvisioning"
               PROVE  Queued(StartEvent(v, s))'
    BY <1>3 DEF StartUnderWay
  <2>1. PICK e : e = StartEvent(v, s)
    OBVIOUS
  <2>2. Queued(e) /\ NextEvent(t).to # e.to
    BY <1>3, <2>1 DEF StartUnderWay, StartEvent
  <2>3. Queued(e)'
    BY <1>3, <2>2, OthersKept
  <2> QED BY <2>1, <2>3
<1>4. CASE ResourceStep(t, updates) \/ StorageStep(t, updates) \/ NobodyStep(t, updates)
  <2>1. Framed(t, updates) /\ UNCHANGED <<hosted, vmState>>
    BY <1>4, ResourceKeeps, StorageKeeps, NobodyKeeps
    DEF ResourceStep, StorageStep, NobodyStep, actorVars, serverVars, vmVars
  <2> QED BY <1>2, <1>3, <1>4, <2>1, OthersLeaveVMs
<1>5. CASE VMStep(t, updates)
  <2>1. PICK w \in DOMAIN vmState : HandleVMEvent(w, t, updates)
    BY <1>5 DEF VMStep
  <2>2. VMChange(w) /\ Framed(t, updates) /\ UNCHANGED hosted
    BY <1>5, <2>1, VMHandled DEF VMStep, serverVars
  <2>3. NextEvent(t).to = w /\ vmState'[w] # "kProvisioning"
    BY <2>1 DEF HandleVMEvent, Start, CompleteStart, Restart, CompleteRestart, Stop, CompleteStop,
       Delete, CompleteDelete, VMInvalidEvent, Transition, VMReceives
  <2>4. \A v \in DOMAIN vmState : v # w => vmState'[v] = vmState[v]
    BY <2>2 DEF VMChange
  <2> QED BY <1>2, <1>3, <2>2, <2>3, <2>4 DEF Complete
<1> QED BY <1>1, <1>4, <1>5, ServerKeepsStarts

LEMMA StartsInit == WorldInit => StartUnderWay
BY DEF WorldInit, ServerInit, StartUnderWay

LEMMA StartsNext == WorldInv /\ StartUnderWay /\ [WorldNext]_worldVars => StartUnderWay'
<1> SUFFICES ASSUME WorldInv, StartUnderWay, [WorldNext]_worldVars PROVE StartUnderWay'
  OBVIOUS
<1>1. CASE ClientCall
  <2>1. VMsAndEventsKept
    BY <1>1, CallKeeps
  <2>2. UNCHANGED hosted
    BY <1>1 DEF ClientCall, DoResourceAction, DoProvisionVM, DoVMAction, CreateVM, CreateVMFails,
                actorVars, serverVars
  <2> SUFFICES ASSUME NEW s \in Servers, NEW v \in hosted[s], vmState'[v] = "kProvisioning"
               PROVE  Queued(StartEvent(v, s))'
    BY <2>2 DEF StartUnderWay
  <2>3. v \in DOMAIN vmState /\ DOMAIN vmState \subseteq DOMAIN vmState'
    BY <2>1 DEF WorldInv, ActorsInv, Complete, VMsAndEventsKept
  <2>4. vmState'[v] = vmState[v]
    BY <2>1, <2>3 DEF VMsAndEventsKept
  <2>5. PICK e : e = StartEvent(v, s)
    OBVIOUS
  <2>6. Queued(e)'
    BY <2>1, <2>4, <2>5 DEF StartUnderWay, VMsAndEventsKept
  <2> QED BY <2>5, <2>6
<1>2. CASE SimulateNextStep(UpdateWorld)
  BY <1>2, LoopKeepsStarts
<1>3. CASE UNCHANGED <<queue, hosted, vmState>>
  BY <1>3 DEF StartUnderWay, Queued, QueuedAt
<1> QED BY <1>1, <1>2, <1>3
        DEF WorldNext, SimulateAll, SimulateAllReturns, actorVars, serverVars, vmVars, worldVars

=============================================================================
