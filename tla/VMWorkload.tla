------------------------------- MODULE VMWorkload -------------------------------
(***************************************************************************)
(* The RAM of a VM from the console to the server: the numbers a client    *)
(* types (VMRequest) become the workload model of the VM the engine makes  *)
(* (World::CreateVM), which the greedy scheduler of the server that hosts  *)
(* it asks for each time the world is updated (ServerShare).               *)
(***************************************************************************)
EXTENDS VMRequest, ServerShare

CONSTANT Requested  \* the VM the command creates; others exist already

ASSUME WorkloadAssumption == Requested \in Constant /\ MaxDemand >= IMax

workloadVars == <<typed, value, failed, phase, hosted, required, todo, remaining, asked,
                  saturated, refused>>

WorkloadInit == RequestInit /\ ShareInit /\ required[Requested] = 0

(* The model keeps the numbers only if all three have been accepted. *)
SetWorkloadModel ==
  /\ Setup
  /\ required' = [required EXCEPT ![Requested] = IF phase' = "created" THEN value[1] ELSE @]
  /\ UNCHANGED <<hosted, todo, remaining, asked, saturated, refused>>

(* A VM that was not created, or not to the end, is not hosted (World). *)
Simulated ==
  /\ phase \in {"created", "registered_only", "not_provided"}
  /\ UNCHANGED requestVars
  /\ \/ \E v \in VM : Visit(v)
     \/ \E v \in VM : Host(v) /\ (v = Requested => phase = "created")
     \/ UpdateSchedule

WorkloadNext ==
  \/ (ReadLine \/ CheckNumbers) /\ UNCHANGED shareVars
  \/ SetWorkloadModel
  \/ Simulated

WorkloadSpec == WorkloadInit /\ [][WorkloadNext]_workloadVars

-----------------------------------------------------------------------------
(* A VM takes from its server exactly the RAM that was typed for it        *)
(* (modulo the word size if with a minus sign), at every update: neither   *)
(* the two conversions nor the order of the scheduler's loop change it.    *)
TypedIsTaken ==
  (Requested \in saturated) =>
    /\ asked[Requested] = Residue(typed[1])
    /\ Residue(typed[1]) > 0
    /\ remaining + Residue(typed[1]) <= Ram

=============================================================================
