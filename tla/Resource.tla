------------------------------- MODULE Resource -------------------------------
(***************************************************************************)
(* The life cycle all physical resources (cloud, data centers, servers)    *)
(* inherit: infra::IResource, infrastructure/resource.cpp.  Each action is *)
(* one run of a handler for the first event of time t, with the end of the *)
(* loop's step around it; updates is what update_world() may schedule when *)
(* that step empties the deque of t (EventQueue!EndOfStep).                *)
(***************************************************************************)
EXTENDS EventQueue

CONSTANTS
  Resource,      \* the resources made from the configuration
  Components,    \* components_, in the order the unordered_set yields them
  StartupDelay,  \* startup_delay_
  ShutdownDelay  \* shutdown_delay_

ASSUME ResourceAssumption ==
  /\ Components \in [Resource -> Seq(Resource)]
  /\ StartupDelay \in [Resource -> Nat]
  /\ ShutdownDelay \in [Resource -> Nat]

VARIABLE power  \* power_state_ of every resource

PowerState == {"kOff", "kTurningOn", "kTurningOff", "kRunning", "kFailure"}

PowerInit == power = [r \in Resource |-> "kOff"]

PowerTypeOK == power \in [Resource -> PowerState]

SetPowerState(r, state) == power' = [power EXCEPT ![r] = state]

-----------------------------------------------------------------------------
ResourceCommand == {"kBoot", "kReboot", "kShutdown"}

ResourceEventType == ResourceCommand \cup {"kBootFinished", "kShutdownFinished"}

ResourceEvent(r, type) == [to |-> r, type |-> type]

(* A faulty variant of Cascade: the components are forgotten. *)
CascadeToNobody(r, command, finished) == <<ResourceEvent(r, finished)>>

(* The command passed on to every component, then the resource's own end   *)
(* of transition; all are scheduled for the same time.                     *)
Cascade(r, command, finished) ==
  Append([i \in 1..Len(Components[r]) |-> ResourceEvent(Components[r][i], command)],
         ResourceEvent(r, finished))

Receives(r, type, t) == IsNext(t) /\ NextEvent(t) = ResourceEvent(r, type)

NothingScheduled(t, updates) == EndOfStep(t, t, << >>, updates)

-----------------------------------------------------------------------------
(* A faulty variant of StartBoot: the state is not changed. *)
StartBootUnmarked(r, t, updates) ==
  /\ Receives(r, "kBoot", t)
  /\ power[r] = "kOff"
  /\ UNCHANGED power
  /\ EndOfStep(t, t + StartupDelay[r],
               Cascade(r, "kBoot", "kBootFinished"), updates)

StartBoot(r, t, updates) ==
  /\ Receives(r, "kBoot", t)
  /\ power[r] = "kOff"
  /\ SetPowerState(r, "kTurningOn")
  /\ EndOfStep(t, t + StartupDelay[r],
               Cascade(r, "kBoot", "kBootFinished"), updates)

(* "I am failed", or "Already ON" in any other state; components that are  *)
(* off stay off.                                                           *)
BootIgnored(r, t, updates) ==
  /\ Receives(r, "kBoot", t)
  /\ power[r] # "kOff"
  /\ UNCHANGED power
  /\ NothingScheduled(t, updates)

(* A faulty variant of StartShutdown: the completion is that of a boot. *)
StartShutdownCopied(r, t, updates) ==
  /\ Receives(r, "kShutdown", t)
  /\ power[r] # "kOff"
  /\ SetPowerState(r, "kTurningOff")
  /\ EndOfStep(t, t + ShutdownDelay[r],
               Cascade(r, "kShutdown", "kBootFinished"), updates)

(* Accepted in every state except kOff: also while booting, while already  *)
(* turning off, and after a failure.                                       *)
StartShutdown(r, t, updates) ==
  /\ Receives(r, "kShutdown", t)
  /\ power[r] # "kOff"
  /\ SetPowerState(r, "kTurningOff")
  /\ EndOfStep(t, t + ShutdownDelay[r],
               Cascade(r, "kShutdown", "kShutdownFinished"), updates)

ShutdownIgnored(r, t, updates) ==
  /\ Receives(r, "kShutdown", t)
  /\ power[r] = "kOff"
  /\ UNCHANGED power
  /\ NothingScheduled(t, updates)

(* The handler is empty. *)
StartReboot(r, t, updates) ==
  /\ Receives(r, "kReboot", t)
  /\ UNCHANGED power
  /\ NothingScheduled(t, updates)

(* CHECK_POWER_STATE: in any other state than the expected one the         *)
(* resource fails.                                                         *)
CompleteBoot(r, t, updates) ==
  /\ Receives(r, "kBootFinished", t)
  /\ SetPowerState(r, IF power[r] = "kTurningOn" THEN "kRunning" ELSE "kFailure")
  /\ NothingScheduled(t, updates)

CompleteShutdown(r, t, updates) ==
  /\ Receives(r, "kShutdownFinished", t)
  /\ SetPowerState(r, IF power[r] = "kTurningOff" THEN "kOff" ELSE "kFailure")
  /\ NothingScheduled(t, updates)

HandleResourceEvent(r, t, updates) ==
  \/ StartBoot(r, t, updates)
  \/ BootIgnored(r, t, updates)
  \/ StartShutdown(r, t, updates)
  \/ ShutdownIgnored(r, t, updates)
  \/ StartReboot(r, t, updates)
  \/ CompleteBoot(r, t, updates)
  \/ CompleteShutdown(r, t, updates)

=============================================================================
