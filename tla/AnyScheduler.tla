----------------------------- MODULE AnyScheduler -----------------------------
(***************************************************************************)
(* The world with a scheduler yet to be written.  Schedulers are made to   *)
(* be replaced (custom/): UpdateSchedule() reads the cloud and the         *)
(* storage, and its output is "scheduled events for cloud_ and             *)
(* vm_storage_" (core/scheduler.h).                                        *)
(*                                                                         *)
(* This one is called whenever update_world() is, that is, each time a     *)
(* deque is left empty.  It may place the pending VMs as the program's own *)
(* scheduler does, or leave them, and then calls schedule_event as often   *)
(* as it likes, with any event that an actor of the program understands or *)
(* refuses, commands and completions alike, for the present or a later     *)
(* time.  All that is asked of it is that it names nothing it cannot see.  *)
(***************************************************************************)
EXTENDS World

CONSTANTS
  Sendable,   \* the events the scheduler may make
  MaxEvents,  \* bound: events it schedules in a behaviour
  MaxAhead    \* bound: how far ahead it schedules

ASSUME SchedulerAssumption ==
  /\ Sendable \subseteq WorldEvent
  /\ MaxEvents \in Nat /\ MaxAhead \in Nat

VARIABLES
  scheduling,  \* UpdateSchedule() has not returned
  scheduled    \* events it has scheduled

schedulerVars == <<scheduling, scheduled>>

anyVars == <<worldVars, schedulerVars>>

(* The actors and the VMs that the cloud and the storage lead to. *)
Seen(e) ==
  /\ e.to \in Resource \cup {Storage} \cup DOMAIN vms
  /\ e.type \in {"kProvisionVM", "kUnprovisionVM"} \cup VMStorageEventType => e.vm \in DOMAIN vms

(* A step of the loop; UpdateSchedule() is entered if the step has emptied *)
(* the deque of its time.                                                  *)
Step ==
  /\ ~scheduling
  /\ SimulateNextStep({<< >>} \cup UpdateWorld)
  /\ scheduling' = \E t \in DOMAIN queue : IsNext(t) /\ now' = t + 1
  /\ UNCHANGED scheduled

(* One call of schedule_event: as in EndOfStep, the clock is still at the  *)
(* time of the step, one less than now.                                    *)
ScheduleEvent(e, ahead, immediate) ==
  /\ scheduling
  /\ scheduled < MaxEvents
  /\ Seen(e)
  /\ scheduled' = scheduled + 1
  /\ queue' = Insert(queue, now - 1, now - 1 + ahead, <<e>>, immediate)
  /\ UNCHANGED <<now, actorVars, sessionVars, scheduling>>

UpdateScheduleReturns ==
  /\ scheduling
  /\ scheduling' = FALSE
  /\ UNCHANGED <<worldVars, scheduled>>

AnyInit == WorldInit /\ scheduling = FALSE /\ scheduled = 0

AnyNext ==
  /\ ~crashed
  /\ \/ ClientCall /\ UNCHANGED schedulerVars
     \/ SimulateAll /\ UNCHANGED <<actorVars, schedulerVars>>
     \/ Step
     \/ \E e \in Sendable, ahead \in 0..MaxAhead, immediate \in BOOLEAN :
          ScheduleEvent(e, ahead, immediate)
     \/ UpdateScheduleReturns
     \/ SimulateAllReturns /\ ~scheduling /\ UNCHANGED <<actorVars, schedulerVars>>

AnySpec == AnyInit /\ [][AnyNext]_anyVars

-----------------------------------------------------------------------------
(* The event each transient state of a VM is left with. *)
Completion ==
  [kStarting |-> "kStartCompleted", kRestarting |-> "kRestartCompleted",
   kStopping |-> "kStopCompleted"]

(* Whatever the scheduler sends, and when (a restart in the middle of a    *)
(* stop, a second start, a completion that is nobody's), a VM halfway has  *)
(* the completion of that state under way: no handler that fails it or     *)
(* takes it elsewhere, and no stale completion of an earlier attempt,      *)
(* leaves it waiting for ever.                                             *)
CompletionUnderWay ==
  \A v \in DOMAIN vmState :
    vmState[v] \in DOMAIN Completion => Queued(VMEvent(v, Completion[vmState[v]]))

=============================================================================
