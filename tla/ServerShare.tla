------------------------------ MODULE ServerShare ------------------------------
(***************************************************************************)
(* GreedyServerScheduler (custom/server-schedulers/greedy.h) of one        *)
(* server: whenever update_world() runs, it asks every hosted VM for its   *)
(* workload and shares out the RAM, in the order of an unordered set.  VMs *)
(* arrive between two runs, at the end of which the shares are forgotten.  *)
(***************************************************************************)
EXTENDS Integers, Functions

CONSTANTS
  VM,         \* virtual machines that may be hosted
  Ram,        \* ServerSpec::ram
  MaxDemand,  \* bound: required_ram_ of a workload model
  Constant    \* the VMs with ConstantVMWorkloadModel; the others have
              \* RandomUniformWorkloadModel

ASSUME ShareAssumption ==
  /\ Ram \in Nat
  /\ MaxDemand \in Nat
  /\ Constant \subseteq VM

VARIABLES
  hosted,     \* the server's virtual_machines_
  required,   \* required_ram_ of every VM's workload model
  todo,       \* the VMs the loop has not come to; none between two runs
  remaining,  \* remaining_ram
  asked,      \* history: the workload of the VMs the loop has come to
  saturated,  \* history: the VMs found saturated in this run
  refused     \* history: the VMs found not saturated

shareVars == <<hosted, required, todo, remaining, asked, saturated, refused>>

ShareInit ==
  /\ hosted = {}
  /\ required \in [VM -> 0..MaxDemand]
  /\ todo = {}
  /\ remaining = Ram
  /\ asked = [v \in VM |-> 0]
  /\ saturated = {}
  /\ refused = {}

-----------------------------------------------------------------------------
(* A faulty variant of Workload: every model draws at random. *)
WorkloadDrawn(v) == 0..required[v]

(* IVMWorkloadModel::GetWorkload: the RAM a VM asks for now. *)
Workload(v) == IF v \in Constant THEN {required[v]} ELSE 0..required[v]

(* Between two runs a VM is hosted. *)
Host(v) ==
  /\ todo = {}
  /\ hosted' = hosted \cup {v}
  /\ UNCHANGED <<required, todo, remaining, asked, saturated, refused>>

UpdateSchedule ==
  /\ todo = {}
  /\ todo' = hosted
  /\ remaining' = Ram
  /\ saturated' = {}
  /\ refused' = {}
  /\ UNCHANGED <<hosted, required, asked>>

(* Faulty variants of Visit: the RAM left is not compared; it is not       *)
(* subtracted from; an exact fit is turned down.                           *)
VisitUnchecked(v) ==
  /\ v \in todo
  /\ todo' = todo \ {v}
  /\ \E demand \in Workload(v) :
       /\ asked' = [asked EXCEPT ![v] = demand]
       /\ remaining' = remaining - demand
       /\ saturated' = saturated \cup {v}
  /\ UNCHANGED <<hosted, required, refused>>

VisitForFree(v) ==
  /\ v \in todo
  /\ todo' = todo \ {v}
  /\ \E demand \in Workload(v) :
       /\ asked' = [asked EXCEPT ![v] = demand]
       /\ saturated' = IF remaining >= demand THEN saturated \cup {v} ELSE saturated
       /\ refused' = IF remaining >= demand THEN refused ELSE refused \cup {v}
  /\ UNCHANGED <<hosted, required, remaining>>

VisitStrictly(v) ==
  /\ v \in todo
  /\ todo' = todo \ {v}
  /\ \E demand \in Workload(v) :
       /\ asked' = [asked EXCEPT ![v] = demand]
       /\ \/ /\ remaining > demand
             /\ remaining' = remaining - demand
             /\ saturated' = saturated \cup {v}
             /\ UNCHANGED refused
          \/ /\ remaining <= demand
             /\ refused' = refused \cup {v}
             /\ UNCHANGED <<remaining, saturated>>
  /\ UNCHANGED <<hosted, required>>

Visit(v) ==
  /\ v \in todo
  /\ todo' = todo \ {v}
  /\ \E demand \in Workload(v) :
       /\ asked' = [asked EXCEPT ![v] = demand]
       /\ \/ /\ remaining >= demand
             /\ remaining' = remaining - demand
             /\ saturated' = saturated \cup {v}
             /\ UNCHANGED refused
          \/ /\ remaining < demand
             /\ refused' = refused \cup {v}
             /\ UNCHANGED <<remaining, saturated>>
  /\ UNCHANGED <<hosted, required>>

ShareNext == UpdateSchedule \/ \E v \in VM : Host(v) \/ Visit(v)

ShareSpec == ShareInit /\ [][ShareNext]_shareVars

-----------------------------------------------------------------------------
ShareTypeOK ==
  /\ hosted \subseteq VM
  /\ required \in [VM -> 0..MaxDemand]
  /\ todo \subseteq hosted
  /\ remaining \in 0..Ram
  /\ asked \in [VM -> 0..MaxDemand]
  /\ saturated \subseteq hosted \ todo
  /\ refused \subseteq hosted \ (todo \cup saturated)

(* The RAM is shared out and no more: what the saturated VMs asked for and *)
(* what is left over make up the server's RAM, whatever the order of the   *)
(* set and although a random workload asks for something else each time.   *)
RamIsShared ==
  remaining + SumFunctionOnSet(asked, saturated) = Ram

(* No VM is turned down that the RAM left over at the end would satisfy.   *)
NoneTurnedDownInVain == \A v \in refused : asked[v] > remaining

=============================================================================
