----------------------------- MODULE ResourceTree -----------------------------
(***************************************************************************)
(* A cloud's resources alone, with the commands clients send them          *)
(* (World::DoResourceAction).  No VM exists, so update_world() never finds *)
(* a pending one and schedules nothing.                                    *)
(***************************************************************************)
EXTENDS Resource, Session

treeVars == <<queue, now, power, simulating, calls, batch>>

TreeInit == EvInit /\ PowerInit /\ SessionInit

DoResourceAction(r, type) ==
  /\ Submit(ResourceEvent(r, type), FALSE)
  /\ UNCHANGED power

TreeStep ==
  /\ Running
  /\ \E t \in DOMAIN queue, r \in Resource : HandleResourceEvent(r, t, NoUpdate)

TreeNext ==
  \/ \E r \in Resource, type \in ResourceCommand : DoResourceAction(r, type)
  \/ SimulateAll /\ UNCHANGED power
  \/ SimulateAllReturns /\ UNCHANGED power
  \/ TreeStep

TreeSafetySpec == TreeInit /\ [][TreeNext]_treeVars

(* The loop runs on and returns when it may; clients who sent commands     *)
(* eventually call SimulateAll (rpc-client.cpp does so after each one).    *)
(* No command need ever be sent.                                           *)
TreeFairness ==
  /\ WF_treeVars(TreeStep)
  /\ WF_treeVars(SimulateAll /\ UNCHANGED power)
  /\ WF_treeVars(SimulateAllReturns /\ UNCHANGED power)

TreeSpec == TreeSafetySpec /\ TreeFairness

-----------------------------------------------------------------------------
(* Resource c is a component of r, directly or at the end of a chain.      *)
Directly(r, c) == \E i \in 1..Len(Components[r]) : Components[r][i] = c

Closed(S) == \A p \in S, c \in Resource : Directly(p, c) => c \in S

Below(r, c) ==
  \A S \in SUBSET Resource :
    Closed(S) /\ (\A d \in Resource : Directly(r, d) => d \in S) => c \in S

(* The components are a forest, as ParseCloud builds them: it adds every   *)
(* data center to the cloud, and every server to one data center, once.    *)
ComponentsFormForest ==
  /\ \A p \in Resource, q \in Resource :
       \A i \in 1..Len(Components[p]), j \in 1..Len(Components[q]) :
         Components[p][i] = Components[q][j] => p = q /\ i = j
  /\ \A r \in Resource : ~Below(r, r)

-----------------------------------------------------------------------------
Event == [to : Resource, type : ResourceEventType]

(* Every resource is in a power state, and only the resources' events are  *)
(* filed, in deques that are never empty between two steps.                *)
TreeTypeOK ==
  /\ PowerTypeOK
  /\ SessionTypeOK
  /\ QueueTypeOK(Event)

(* A resource in the middle of a transition has the event that ends it     *)
(* still to come, whatever commands were interleaved with the transition   *)
(* (StartBoot, StartShutdown and the two completions of resource.cpp): no  *)
(* resource stays in kTurningOn or kTurningOff for good.                   *)
TransitionScheduled ==
  \A r \in Resource :
    /\ power[r] = "kTurningOn" => Queued(ResourceEvent(r, "kBootFinished"))
    /\ power[r] = "kTurningOff" => Queued(ResourceEvent(r, "kShutdownFinished"))

(* Commands simulated one at a time, as the console client does, never     *)
(* fail a resource: each completion finds the state its own command set.   *)
(* It takes two commands in one batch for CHECK_POWER_STATE to fail.       *)
FailsOnlyInBatch ==
  [][\A r \in Resource :
       power[r] # "kFailure" /\ power'[r] = "kFailure" => batch > 1]_treeVars

(* A command simulated alone reaches the direct components of a resource   *)
(* that takes it: a shutdown takes all of them down, whatever their states *)
(* were, and a boot brings up all but those that have failed.              *)
CommandsReachComponents ==
  \A r \in {p \in Resource : Components[p] # << >>} :
    /\ (simulating /\ batch = 1 /\ power[r] # "kOff" /\ Queued(ResourceEvent(r, "kShutdown")))
         ~> (\A i \in 1..Len(Components[r]) : power[Components[r][i]] = "kOff")
    /\ (simulating /\ batch = 1 /\ power[r] = "kOff" /\ Queued(ResourceEvent(r, "kBoot")))
         ~> (\A i \in 1..Len(Components[r]) : power[Components[r][i]] \in {"kRunning", "kFailure"})

=============================================================================
